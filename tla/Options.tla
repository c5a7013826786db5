------------------------------ MODULE Options ------------------------------
(***************************************************************************)
(* The command lines of schroot, dchroot and dchroot-dsa: what check_options *)
(* and check_actions of the three programs make of what the user gave.     *)
(* Parsing argv itself is boost's; an argv here is what boost has stored,  *)
(* the options that choose an action being the set argv.actions.  A chroot *)
(* is named <<namespace or "", name>>; "" stands for an option not given.  *)
(***************************************************************************)
EXTENDS Naturals, Sequences, FiniteSets

Programs == {"schroot", "dchroot", "dchroot-dsa"}

SessionActions ==
    {"session_auto", "session_begin", "session_recover", "session_run", "session_end"}
ShowActions == {"list", "info", "location", "config"}
AllActions == SessionActions \cup ShowActions \cup {"help", "version"}

\* The actions a program has an option for; dchroot's --path and dchroot-dsa's
\* --listpaths choose "location".
ActionOptions(prog) ==
    IF prog = "schroot" THEN AllActions ELSE ShowActions \cup {"help", "version"}

\* The options the programs share as boost and the constructors leave them.
\* No constructor sets load_chroots and load_sessions: they hold anything.
Defaults(argv, garbage) ==
    [action |-> "", chroots |-> argv.chroots, command |-> argv.command,
     directory |-> argv.directory, shell |-> argv.shell, user |-> argv.user,
     session_name |-> argv.session_name, preserve |-> FALSE,
     all |-> FALSE, all_chroots |-> FALSE, all_sessions |-> FALSE,
     all_source_chroots |-> FALSE, exclude_aliases |-> FALSE,
     load_chroots |-> garbage, load_sessions |-> garbage,
     useroptions |-> <<>>, error |-> FALSE]

Throw(o) == [o EXCEPT !.error = TRUE]

\* The action, where there is one.
TheAction(actions) == CHOOSE a \in actions : TRUE

\* option_action::set for every option given that names an action: only one
\* may be.
set_action(o, actions) ==
    IF actions = {} THEN o
    ELSE IF Cardinality(actions) = 1 THEN [o EXCEPT !.action = TheAction(actions)]
    ELSE Throw(o)

\* option_action::get, with the default add_options set.
get_action(o) == IF o.action # "" THEN o.action ELSE "session_auto"

all_used(o) == o.all \/ o.all_chroots \/ o.all_sessions \/ o.all_source_chroots

NoneOfAll(o) ==
    [o EXCEPT !.all = FALSE, !.all_chroots = FALSE, !.all_sessions = FALSE,
              !.all_source_chroots = FALSE]

\* --option key=value: the first "=" separates, and std::map::insert keeps the
\* first value of a key.  Without "=" find_first_of returns npos, ++npos is 0
\* and the value is the whole argument.
UserOptions(given) ==
    LET value(i) == IF given[i].sep THEN given[i].value ELSE given[i].key
        keys == {given[i].key : i \in DOMAIN given}
        first(k) == CHOOSE i \in DOMAIN given :
                      given[i].key = k /\ \A j \in 1..(i - 1) : given[j].key # k
    IN [k \in keys |-> value(first(k))]

\* schroot::options::check_options after the base classes'.
check_schroot(o, argv) ==
    LET every == "all" \in argv.all
    IN [o EXCEPT
          !.all = every,
          !.all_chroots = every \/ "all-chroots" \in argv.all,
          !.all_sessions = every \/ "all-sessions" \in argv.all,
          !.all_source_chroots = every \/ "all-source-chroots" \in argv.all,
          !.exclude_aliases = argv.exclude_aliases,
          !.preserve = argv.preserve,
          !.useroptions = UserOptions(argv.options)]

\* dchroot::options::check_options: --path names its chroot itself; --all is
\* all chroots, and is dropped here already when a chroot is named.
check_dchroot(o, argv) ==
    LET named == IF "location" \in argv.actions THEN argv.path ELSE o.chroots
    IN [o EXCEPT !.chroots = named,
                 !.all_chroots = argv.all # {} /\ named = <<>>,
                 !.preserve = argv.preserve]

\* dchroot_dsa::options::check_options: the first word names the chroot if no
\* option does, one more may be the command, with an absolute path.
check_dsa(o, argv) ==
    LET words == o.chroots = <<>> /\ o.command # <<>>
        p == [o EXCEPT !.preserve = TRUE,
                       !.all_chroots = argv.all # {},
                       !.chroots = IF words THEN <<o.command[1].name>> ELSE @,
                       !.command = IF words THEN Tail(@) ELSE @]
    IN IF \/ Len(p.command) > 1
          \/ p.command # <<>> /\ ~p.command[1].abs
          \/ p.chroots = <<>> /\ ~all_used(p) /\ get_action(p) = "session_auto"
         THEN Throw(p) ELSE p

\* check_options of the program; a debug level must be one of the known ones.
check_options(argv, garbage) ==
    LET o == set_action(Defaults(argv, garbage), argv.actions)
    IN IF o.error \/ argv.baddebug THEN Throw(o)
       ELSE CASE argv.prog = "schroot" -> check_schroot(o, argv)
              [] argv.prog = "dchroot" -> check_dchroot(o, argv)
              [] argv.prog = "dchroot-dsa" -> check_dsa(o, argv)

\* "Only allow normal chroots": a chroot to fall back to is "default".
CheckAuto(o) ==
    LET p == [o EXCEPT !.load_chroots = TRUE, !.load_sessions = FALSE,
                       !.all = FALSE, !.all_sessions = FALSE]
    IN IF p.chroots = <<>> /\ ~all_used(p)
         THEN [p EXCEPT !.chroots = << <<"", <<"default", 0>>>> >>] ELSE p

CheckBegin(o) ==
    IF Len(o.chroots) # 1 \/ all_used(o) THEN Throw(o)
    ELSE NoneOfAll([o EXCEPT !.load_chroots = TRUE, !.load_sessions = FALSE])

\* --recover-session, --run-session, --end-session.
CheckSession(o) == [o EXCEPT !.load_chroots = TRUE, !.load_sessions = TRUE]

\* --list, --info, --location, --config.  Where no condition holds,
\* load_sessions stays what it was.
CheckShow(o) ==
    LET p == IF o.chroots # <<>>
               THEN [o EXCEPT !.load_chroots = TRUE, !.load_sessions = TRUE]
             ELSE IF all_used(o) THEN o
             ELSE [o EXCEPT !.all_chroots = TRUE, !.load_chroots = TRUE,
                            !.all_source_chroots = @ \/ get_action(o) \in {"list", "info"}]
    IN [p EXCEPT !.load_chroots = @ \/ p.all_chroots \/ p.all_source_chroots \/ p.all_sessions,
                 !.load_sessions = @ \/ p.all_sessions]

\* The names a session file may have; "invalid:name" is one it may not.
is_valid_sessionname(name) == name # "invalid:name"

\* options_base::check_actions.
check_actions(o) ==
    LET a == get_action(o)
        p == IF o.chroots # <<>> /\ all_used(o) THEN NoneOfAll(o) ELSE o
        q == CASE a = "session_auto" -> CheckAuto(p)
               [] a = "session_begin" -> CheckBegin(p)
               [] a \in SessionActions \ {"session_auto", "session_begin"} -> CheckSession(p)
               [] a \in ShowActions -> CheckShow(p)
               [] a \in {"help", "version"} -> NoneOfAll([p EXCEPT !.load_chroots = FALSE, !.load_sessions = FALSE])
    IN IF o.session_name # "" /\ (a # "session_begin" \/ ~is_valid_sessionname(o.session_name))
         THEN Throw(q) ELSE q
=============================================================================
