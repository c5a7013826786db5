------------------------------ MODULE Frontend ------------------------------
(***************************************************************************)
(* schroot, dchroot and dchroot-dsa from the command line to exec: the     *)
(* options are checked, the configuration they call for is loaded, the     *)
(* names select chroots, and the session operation handles one chroot      *)
(* after the other, in a child process where a command is to be run.       *)
(* Authentication and the setup of a session are single steps here that    *)
(* succeed or fail; modules Authentication and Session have their inside.  *)
(***************************************************************************)
EXTENDS Options, UserCommand

CONSTANTS
    Inputs,        \* [argv, caller, callerenv, attrs]: the command line, the user ID and
                   \* environment it came from, what else the chroots' definitions say
    ChrootDefs,    \* the definitions in schroot.conf and chroot.d
    SessionDefs,   \* the session files
    NameOrder,     \* all names in the order std::map keeps them
    Passwd,        \* the entries [name, uid, gid, home, shell] in their order
    Groups         \* the group IDs that have an entry

VARIABLES
    pc,
    argv, caller, callerenv, attrs,   \* the inputs
    ruser, user,                      \* auth: who called, who runs the command
    opts,                             \* options_base
    chroots, aliases,                 \* chroot_config
    chroot_names, pos,                \* main_base::chroot_names; the one being handled
    handled,                          \* the chroots that reached their operation
    data,                             \* the user data of the current chroot
    scripts,                          \* the environment given to its setup scripts
    child,                            \* the child process
    status                            \* session::child_status, then the exit status

vars == <<pc, argv, caller, callerenv, attrs, ruser, user, opts, chroots, aliases,
          chroot_names, pos, handled, data, scripts, child, status>>
inputs == <<argv, caller, callerenv, attrs>>
auth == <<ruser, user>>
selection == <<opts, chroots, aliases, chroot_names>>
setup == <<data, scripts>>

Config == INSTANCE ChrootConfig WITH
            Names <- {}, MaxGroups <- 0, pc <- "loaded", cur <- 0, rest <- <<>>,
            warned <- {}, groups <- 0

\* A command line holds only options that its program has.
ASSUME InputAssumption ==
    \A i \in Inputs : /\ i.argv.prog \in Programs
                      /\ i.argv.actions \subseteq ActionOptions(i.argv.prog)
                      /\ i.argv.chroots \in Seq((Config!Namespaces \cup {""}) \X Config!AllNames)
                      /\ i.argv.path \in Seq((Config!Namespaces \cup {""}) \X Config!AllNames)
                      /\ i.argv.exclude_aliases \in BOOLEAN
                      /\ i.argv.prog # "schroot" => ~i.argv.exclude_aliases
                      /\ i.argv.options \in Seq([key: STRING, value: STRING, sep: BOOLEAN])
                      /\ {"profile", "script_config", "data"} \subseteq DOMAIN i.attrs
                      /\ i.attrs.script_config \in BOOLEAN

ASSUME DefinitionAssumption ==
    /\ ChrootDefs \subseteq {c \in Config!Chroots : c.ns = "chroot"}
    /\ SessionDefs \subseteq {c \in Config!Chroots : c.ns = "session"}

\* No two accounts have the same name (the same user ID, they may).
ASSUME PasswdAssumption ==
    /\ Passwd \in Seq([name: STRING, uid: Nat, gid: Nat, home: STRING, shell: STRING])
    /\ \A i, j \in DOMAIN Passwd : Passwd[i].name = Passwd[j].name => i = j

\* KeyOrder has every key; validate_keyname accepts those of set_profile, and
\* envname tells them apart.
ASSUME KeyAssumption ==
    LET keys == {KeyOrder[n] : n \in DOMAIN KeyOrder}
    IN /\ KeyOrder \in Seq(STRING) /\ DOMAIN EnvNames \subseteq keys
       /\ \A i \in Inputs : /\ DOMAIN i.attrs.data \subseteq keys
                            /\ \A j \in DOMAIN i.argv.options : i.argv.options[j].key \in keys
       /\ ProfileKeys \subseteq DOMAIN EnvNames \ Reserved
       /\ \A j, k \in ProfileKeys : EnvNames[j] = EnvNames[k] => j = k

\* Where a process is before it changes its directory: outside the chroot, or
\* at its mount location; no directory inside has these names.
Outside == {"host", "location"}

ASSUME PlaceAssumption ==
    /\ \A i \in DOMAIN Passwd : Passwd[i].home \notin Outside
    /\ \A i \in Inputs :
         /\ i.argv.directory \notin Outside
         /\ "HOME" \in DOMAIN i.callerenv => i.callerenv["HOME"] \notin Outside

\* The values of variables tell where they come from: what the caller's
\* environment holds comes from nowhere else, and its PATH from no other variable.
Origins(shell, default_shell) ==
    {"root-path", "sane-path", "/", "command", "session", "prefix", "as-given",
     "working-directory", "/bin/bash", "/bin/sh", shell, default_shell}
    \cup {PamEnvironment[k] : k \in DOMAIN PamEnvironment}
    \cup UNION {{Passwd[j].name, Passwd[j].home, Passwd[j].shell} : j \in DOMAIN Passwd}

ASSUME OriginAssumption ==
    \A i \in Inputs : \A k \in DOMAIN i.callerenv :
      /\ i.callerenv[k] \notin Origins(i.argv.shell, i.attrs.default_shell)
      /\ "PATH" \in DOMAIN i.callerenv /\ k # "PATH" => i.callerenv[k] # i.callerenv["PATH"]

NoChild == [uid |-> 0, saved |-> 0, groups |-> "caller", persona |-> "inherited",
            root |-> "host", cwd |-> "host", env |-> Empty, dirs |-> <<>>, file |-> ""]

Init ==
    /\ pc = "options"
    /\ \E i \in Inputs :
         /\ argv = i.argv /\ caller = i.caller
         /\ callerenv = i.callerenv /\ attrs = i.attrs
    /\ \E garbage \in BOOLEAN : opts = Defaults(argv, garbage)
    /\ chroots = {} /\ aliases = Empty /\ chroot_names = <<>> /\ pos = 1
    /\ ruser = NoUser /\ user = NoUser
    /\ handled = <<>> /\ data = Empty /\ scripts = Empty /\ child = NoChild /\ status = 1

Exit(s) ==
    /\ pc' = "exited" /\ status' = s
    /\ UNCHANGED <<pos, handled, setup, child>>

Go(place) == pc' = place /\ UNCHANGED <<pos, handled, setup, child, status>>

(***************************************************************************)
(* main::run and main_base::run_impl up to the session.                    *)
(***************************************************************************)
Parse ==
    /\ pc = "options"
    /\ LET o == check_options(argv, opts.load_chroots)
           p == IF o.error THEN o ELSE check_actions(o)
       IN /\ opts' = p
          /\ \/ p.error /\ Exit(1)
             \/ ~p.error /\ get_action(p) \in {"help", "version"} /\ Exit(0)
             \/ ~p.error /\ get_action(p) \notin {"help", "version"} /\ Go("load")
    /\ UNCHANGED <<inputs, auth, chroots, aliases, chroot_names>>

\* chroot_config::add for definitions without clashes (module ChrootConfig has
\* those): the names that lead to each chroot, which are its own, that of a proxy
\* session, its aliases, and "-source" compatibility aliases.
OwnNames(cs) == {<<Config!Full(c), Config!Full(c)>> : c \in cs}
ProxyNames(cs) ==
    {<<<<"session", c.name>>, Config!Full(c)>> :
       c \in {d \in cs : d.ns = "chroot" /\ d.kind = "plain"}}
AliasNames(cs) ==
    UNION {{<<<<c.ns, c.aliases[i]>>, Config!Full(c)>> : i \in DOMAIN c.aliases} : c \in cs}
SourceNames(cs) ==
    UNION {{<<<<"chroot", Config!SourceName(c.aliases[i])>>, Config!Full(c)>> :
              i \in DOMAIN c.aliases} : c \in {d \in cs : d.ns = "source"}}

Leads(cs) == OwnNames(cs) \cup ProxyNames(cs) \cup AliasNames(cs) \cup SourceNames(cs)

\* The chroots that definitions bring, source chroots included.
Defined(defs) ==
    defs \cup {Config!SourceChroot(c) : c \in {d \in defs : d.kind = "source-clonable"}}

\* NameOrder has every name, and no name of a chroot is an alias of another one.
ASSUME NamesAssumption ==
    LET all == Defined(ChrootDefs \cup SessionDefs)
    IN /\ NameOrder \in Seq(Config!AllNames)
       /\ \A l \in Leads(all) : \E i \in DOMAIN NameOrder : NameOrder[i] = l[1][2]
       /\ \A l \in Leads(all) : \A c \in all : l[1] = Config!Full(c) => l[2] = Config!Full(c)

\* A session file may be unreadable or vanish (module SessionDir), and a
\* definition may name a personality there is none of.
load_config ==
    /\ pc = "load"
    /\ LET defs == (IF opts.load_chroots THEN ChrootDefs ELSE {})
                   \cup (IF opts.load_sessions THEN SessionDefs ELSE {})
           cs == Defined(defs)
           leads == Leads(cs)
       IN /\ chroots' = cs
          /\ aliases' = [k \in {l[1] : l \in leads} |->
                           (CHOOSE l \in leads : l[1] = k)[2]]
    /\ IF opts.load_chroots /\ find_personality(attrs.persona) = "none"
         THEN Exit(1)
         ELSE Go("select") \/ (opts.load_sessions /\ Exit(1))
    /\ UNCHANGED <<inputs, auth, opts, chroot_names>>

\* The numbers of a finite set from the smallest to the largest.
Ascending(I) ==
    [n \in 1..Cardinality(I) |-> CHOOSE i \in I : Cardinality({j \in I : j <= i}) = n]

\* get_chroot_list and get_alias_list.
Listed(ns, n) ==
    IF get_action(opts) = "list" /\ ~opts.exclude_aliases
      THEN <<ns, n>> \in DOMAIN aliases
      ELSE Config!InNamespace(ns, n)

ListOf(ns) ==
    LET names == Ascending({i \in DOMAIN NameOrder : Listed(ns, NameOrder[i])})
    IN [n \in DOMAIN names |-> <<ns, NameOrder[names[n]]>>]

SessionOperation(o) == get_action(o) \in {"session_recover", "session_run", "session_end"}

\* Mutant of SelectedNames: the list of source chroots is that of chroots.
SelectedNamesOfChroots ==
    IF opts.all_chroots \/ opts.all_sessions \/ opts.all_source_chroots
      THEN (IF opts.all_chroots THEN ListOf("chroot") ELSE <<>>)
           \o (IF opts.all_sessions THEN ListOf("session") ELSE <<>>)
           \o (IF opts.all_source_chroots THEN ListOf("chroot") ELSE <<>>)
      ELSE opts.chroots

\* main_base::get_chroot_options: the names and the namespace to look in.
SelectedNames ==
    IF opts.all_chroots \/ opts.all_sessions \/ opts.all_source_chroots
      THEN (IF opts.all_chroots THEN ListOf("chroot") ELSE <<>>)
           \o (IF opts.all_sessions THEN ListOf("session") ELSE <<>>)
           \o (IF opts.all_source_chroots THEN ListOf("source") ELSE <<>>)
      ELSE opts.chroots

Hint ==
    IF opts.all_chroots \/ opts.all_sessions \/ opts.all_source_chroots THEN ""
    ELSE IF SessionOperation(opts) THEN "session" ELSE "chroot"

Chroot(name) == Config!find_alias(Hint, name[1], name[2])

\* get_chroot_options and run_impl's tests of its result: a name not found is
\* an exception, no name at all one too unless an --all option was used.
get_chroot_options ==
    /\ pc = "select"
    /\ chroot_names' = SelectedNames
    /\ LET names == SelectedNames
           missing == \E i \in DOMAIN names : Chroot(names[i]) = Config!NotFound
       IN \/ missing /\ Exit(1)
          \/ ~missing /\ names = <<>> /\ Exit(IF all_used(opts) THEN 0 ELSE 1)
          \/ ~missing /\ names # <<>> /\ Go("dispatch")
    /\ UNCHANGED <<inputs, auth, opts, chroots, aliases>>

\* action_list, action_info and action_location show each chroot selected;
\* "generated chroots (e.g. source chroots) are not printed" by action_config.
Shown(a) ==
    LET shown == Ascending({i \in DOMAIN chroot_names :
                              a = "config" => Chroot(chroot_names[i])[1] # "source"})
    IN [n \in DOMAIN shown |-> Chroot(chroot_names[shown[n]])]

Show(a) ==
    /\ handled' = Shown(a) /\ pc' = "exited" /\ status' = 0
    /\ UNCHANGED <<pos, setup, child>>

\* The rest of run_impl before the session: the actions that only show, and
\* the session name that is in use.
Dispatch ==
    /\ pc = "dispatch"
    /\ LET a == get_action(opts)
           used == opts.session_name # ""
                   /\ Config!find_alias("session", "", <<opts.session_name, 0>>) # Config!NotFound
       IN \/ a \in ShowActions /\ (a = "list" \/ ~used) /\ Show(a)
          \/ a # "list" /\ used /\ Exit(1)
          \/ a \notin ShowActions /\ ~used /\ Go("auth")
    /\ UNCHANGED <<inputs, auth, selection>>

\* create_session and add_session_auth: the caller and the user to become are
\* looked up, and the caller's group has to exist too.
AddSessionAuth ==
    /\ pc = "auth"
    /\ LET r == set_ruser(Passwd, Groups, caller)
           u == set_user(Passwd, IF opts.user = "" THEN r.name ELSE opts.user)
       IN /\ ruser' = r /\ user' = IF r = NoUser THEN NoUser ELSE u
          /\ IF r = NoUser \/ u = NoUser THEN Exit(1) ELSE Go("authenticate")
    /\ UNCHANGED <<inputs, selection>>

\* session::run up to run_impl, where authentication must succeed.
Authenticate ==
    /\ pc = "authenticate"
    /\ Exit(1) \/ (SwitchPermitted(argv.prog, ruser, user) /\ Go("chroot"))
    /\ UNCHANGED <<inputs, auth, selection>>

(***************************************************************************)
(* session::run_impl, one chroot after the other.                          *)
(***************************************************************************)
Current == Chroot(chroot_names[pos])

\* find_chroot: the chroot of a full name.
ChrootOf(full) == CHOOSE c \in chroots : Config!Full(c) = full
TheChroot == ChrootOf(Current)

\* SESSION_CREATE: the chroot has sessions and is not one itself.
Creates(c) == c.ns # "session" /\ c.kind # "plain"

Preserve == opts.preserve \/ attrs.preserve

\* Mutant of NotASession: only --end-session is refused.
NotASessionEnd(c) == Creates(c) /\ get_action(opts) = "session_end"

\* "CHROOT_NOTFOUND": an operation on sessions, and a chroot that is none.
NotASession(c) == Creates(c) /\ SessionOperation(opts)

Finished ==
    /\ pc = "chroot" /\ pos \notin DOMAIN chroot_names
    /\ Exit(status)
    /\ UNCHANGED <<inputs, auth, selection>>

\* A session::error ends the loop, and the exit status is not success.
RefuseChroot ==
    /\ pc = "chroot" /\ pos \in DOMAIN chroot_names
    /\ NotASession(TheChroot)
    /\ Exit(IF status = 0 THEN 1 ELSE status)
    /\ UNCHANGED <<inputs, auth, selection>>

\* The user data of the chroot once --option is applied.
UserData ==
    set_user_data(LoadedData(attrs), opts.useroptions, ModifiableKeys(attrs, user, ruser))

\* A chroot_facet_userdata::error ends the program too, with the status that
\* is there: that of the chroot before.
RefuseData ==
    /\ pc = "chroot" /\ pos \in DOMAIN chroot_names
    /\ ~NotASession(TheChroot) /\ UserData.error
    /\ pc' = "aborted"
    /\ UNCHANGED <<inputs, auth, selection, pos, handled, setup, child, status>>

\* The setup scripts of the chroot are given their environment.
SetUpChroot ==
    /\ pc = "chroot" /\ pos \in DOMAIN chroot_names
    /\ ~NotASession(TheChroot) /\ ~UserData.error
    /\ status' = 0
    /\ data' = UserData.data
    /\ handled' = Append(handled, Current)
    /\ IF get_action(opts) # "session_run" /\ TheChroot.kind # "plain"
         THEN IF EnvAmbiguous(data') THEN pc' = "aborted" /\ UNCHANGED scripts
              ELSE pc' = "scripts" /\ scripts' = setup_env(data')
         ELSE pc' = "setup" /\ UNCHANGED scripts
    /\ UNCHANGED <<inputs, auth, selection, pos, child>>

SetupScriptsEnd ==
    /\ pc = "scripts"
    /\ Go("setup") \/ Exit(1)
    /\ UNCHANGED <<inputs, auth, selection>>

\* With --automatic-session and --run-session a child is forked, otherwise the
\* next chroot follows.
RunChroot ==
    /\ pc = "setup"
    /\ IF get_action(opts) \in {"session_auto", "session_run"}
         THEN pc' = "child" /\ pos' = pos /\ child' = NoChild
         ELSE pc' = "chroot" /\ pos' = pos + 1 /\ UNCHANGED child
    /\ UNCHANGED <<inputs, auth, selection, handled, setup, status>>

(***************************************************************************)
(* session::run_child, in the child.  An exception is _exit (EXIT_FAILURE).*)
(***************************************************************************)
InChild(from, to, new) ==
    /\ pc = from /\ pc' = to /\ child' = new
    /\ UNCHANGED <<inputs, auth, selection, pos, handled, setup, status>>

ChildFails ==
    /\ pc \in {"child", "groups", "persona", "enter", "user", "root", "chdir", "command", "exec"}
    /\ pc' = "reap" /\ child' = [child EXCEPT !.file = ""] /\ status' = 1
    /\ UNCHANGED <<inputs, auth, selection, pos, handled, setup>>

SetEnvironment ==
    InChild("child", "groups",
            [child EXCEPT !.env = ChildEnvironment(Preserve, attrs.filter, user, callerenv)])

\* setgid and initgroups.
SetGroups == InChild("groups", "persona", [child EXCEPT !.groups = user.name])

\* personality::set: an undefined personality is left as it is.
SetPersonality ==
    InChild("persona", "enter",
            [child EXCEPT !.persona = IF find_personality(attrs.persona) = "undefined"
                                        THEN @ ELSE find_personality(attrs.persona)])

EnterChroot == InChild("enter", "user", [child EXCEPT !.root = "chroot", !.cwd = "location"])

\* setuid as root is to set the saved user ID too.
SetUser ==
    /\ pc = "user"
    /\ \E saved \in {0, user.uid} :
         InChild("user", "root", [child EXCEPT !.uid = user.uid, !.saved = saved])

\* Mutant of RootDropped: the result of the second setuid is not looked at.
RootDroppedUnseen == TRUE

\* "Set uid and check we are not still root": setuid (0) must fail.
RootDropped == child.saved # 0 \/ user.uid = 0

CheckRoot == pc = "root" /\ RootDropped /\ InChild("root", "chdir", child)

Directories ==
    IF login(opts.command)
      THEN get_login_directories(argv.prog, opts.directory, "/cwd", Preserve, child.env, user)
      ELSE get_command_directories(argv.prog, opts.directory, "/cwd", Preserve, child.env, user)

\* One turn of the loop over the directories; the last one has to exist.
Chdir ==
    /\ pc = "chdir"
    /\ LET dirs == IF child.dirs = <<>> THEN Directories ELSE child.dirs
       IN \/ InChild("chdir", "command", [child EXCEPT !.cwd = Head(dirs), !.dirs = <<>>])
          \/ /\ Len(dirs) > 1
             /\ InChild("chdir", "chdir", [child EXCEPT !.dirs = Tail(dirs)])

\* get_command, the variables added after it, and the command prefix, whose
\* program is the one executed.  dchroot-dsa throws for a relative command.
GetCommand ==
    \/ /\ pc = "command" /\ login(opts.command)
       /\ LET shells == get_shells(opts.shell, attrs.default_shell, opts.preserve,
                                  user, callerenv)
          IN \E existing \in SUBSET {shells[i] : i \in DOMAIN shells} :
               LET shell == get_shell(shells, existing)
                   env == add(child.env, attrs.filter, [SHELL |-> shell])
               IN InChild("command", "exec", [child EXCEPT
                    !.file = IF attrs.prefix THEN "prefix" ELSE shell,
                    !.env = SchrootVariables(env, attrs.filter, ruser, "session")])
    \/ /\ pc = "command" /\ ~login(opts.command)
       /\ \E inpath \in BOOLEAN :
            LET file == get_user_command(argv.prog, opts.command, child.env, inpath)
            IN /\ file # ""
               /\ InChild("command", "exec", [child EXCEPT
                    !.file = IF attrs.prefix THEN "prefix" ELSE file,
                    !.env = SchrootVariables(child.env, attrs.filter, ruser, "session")])

Exec == InChild("exec", "running", child)

\* The command ends; wait_for_child sets the status, and run_impl goes on with
\* the next chroot whatever it is.
Wait ==
    /\ pc \in {"running", "reap"}
    /\ status' \in IF pc = "running" THEN {0, 1} ELSE {1}
    /\ pc' = "chroot" /\ pos' = pos + 1 /\ child' = NoChild
    /\ UNCHANGED <<inputs, auth, selection, handled, setup>>

Next ==
    \/ Parse \/ load_config \/ get_chroot_options \/ Dispatch
    \/ AddSessionAuth \/ Authenticate
    \/ Finished \/ RefuseChroot \/ RefuseData \/ SetUpChroot \/ SetupScriptsEnd \/ RunChroot
    \/ SetEnvironment \/ SetGroups \/ SetPersonality \/ EnterChroot \/ SetUser \/ CheckRoot \/ Chdir
    \/ GetCommand \/ Exec \/ ChildFails \/ Wait

Spec == Init /\ [][Next]_vars

(***************************************************************************)
(* Properties.                                                             *)
(***************************************************************************)
\* The action the command line asks for, and the operations on sessions.
Asked == IF argv.actions = {} THEN "session_auto" ELSE TheAction(argv.actions)
OnSessions == Asked \in {"session_recover", "session_run", "session_end"}

\* Whatever is named, loaded and aliased: --automatic-session and --begin-session
\* never touch an existing session, --begin-session handles one chroot, and an
\* operation on sessions never touches a chroot from which sessions are created
\* ("Make chroot/session selection automatically fail if no session exists").
OperationFits ==
    \A i \in DOMAIN handled :
      LET c == ChrootOf(handled[i])
      IN Asked \in SessionActions =>
         /\ Cardinality(argv.actions) <= 1
         /\ IF OnSessions THEN c.ns = "session" \/ c.kind = "plain" ELSE c.ns # "session"
         /\ Asked = "session_begin" => i = 1

\* The chroots the user asked for: the named ones, in the namespace that
\* schroot(1) gives for the action; or all of the namespaces chosen, where
\* --automatic-session leaves sessions out and --list goes by name; or "the
\* chroot name or alias" default.
Named ==
    CASE argv.prog = "dchroot-dsa" /\ argv.chroots = <<>> /\ argv.command # <<>>
           -> <<argv.command[1].name>>
      [] argv.prog = "dchroot" /\ "location" \in argv.actions -> argv.path
      [] OTHER -> argv.chroots

All(spaces) ==
    IF Asked = "list" /\ ~argv.exclude_aliases
      THEN {aliases[n] : n \in {m \in DOMAIN aliases : m[1] \in spaces}}
      ELSE {Config!Full(c) : c \in {d \in chroots : d.ns \in spaces}}

Wanted ==
    LET hint == IF OnSessions THEN "session" ELSE "chroot"
        every == "all" \in argv.all \/ argv.prog # "schroot"
        spaces == {ns \in {"chroot", "session", "source"} :
                     CASE ns = "chroot" -> every \/ "all-chroots" \in argv.all
                       [] ns = "source" -> argv.prog = "schroot"
                                           /\ (every \/ "all-source-chroots" \in argv.all)
                       [] ns = "session" -> Asked # "session_auto" /\ argv.prog = "schroot"
                                            /\ (every \/ "all-sessions" \in argv.all)}
    IN CASE Named # <<>> -> {Config!find_alias(hint, Named[i][1], Named[i][2]) : i \in DOMAIN Named}
         [] Named = <<>> /\ argv.all # {} /\ spaces # {} -> All(spaces)
         [] Named = <<>> /\ (argv.all = {} \/ spaces = {}) ->
              CASE Asked = "session_auto" -> {Config!find_alias("chroot", "", <<"default", 0>>)}
                [] Asked \in {"list", "info"} -> All({"chroot", "source"})
                [] Asked \in {"location", "config"} -> All({"chroot"})
                [] OTHER -> {}

\* No chroot is touched unless all that are wanted exist, no other chroot is
\* touched, and when the exit status says success all were.
SelectionServed ==
    LET touched == {handled[i] : i \in DOMAIN handled}
    IN /\ touched # {} => touched \subseteq Wanted /\ Config!NotFound \notin Wanted
       /\ pc = "exited" /\ status = 0 /\ Asked \in SessionActions \cup ShowActions
            => touched = IF Asked = "config" THEN {w \in Wanted : w[1] # "source"} ELSE Wanted

\* The account that the command is to run as.
Asker ==
    Passwd[CHOOSE i \in DOMAIN Passwd :
             IF argv.user # "" THEN Passwd[i].name = argv.user
             ELSE Passwd[i].uid = caller /\ \A j \in 1..(i - 1) : Passwd[j].uid # caller]

\* What is executed runs inside the chroot, with the user and the groups asked
\* for and no way back to root, under the personality the chroot is to have,
\* and in the directory that schroot(1) promises: the one of --directory, or for
\* a command of schroot the working directory ("No fallbacks should exist under
\* any circumstances").
ExecConfined ==
    pc = "running" =>
      /\ child.root = "chroot" /\ child.groups = Asker.name
      /\ child.uid = Asker.uid /\ child.saved = Asker.uid
      /\ attrs.persona # "undefined" => child.persona = attrs.persona
      /\ child.cwd \notin Outside
      /\ argv.directory # "" => child.cwd = argv.directory
      /\ argv.prog = "schroot" /\ ~login(argv.command) /\ argv.directory = ""
           => child.cwd = "/cwd"

\* No variable that the chroot's filter matches reaches the command, root never
\* gets the caller's PATH, and without preserve-environment nothing of the
\* caller's environment but TERM gets in.
EnvironmentClean ==
    pc = "running" =>
      /\ DOMAIN child.env \cap attrs.filter = {}
      /\ Asker.uid = 0 /\ "PATH" \in DOMAIN callerenv
           => /\ child.file # callerenv["PATH"]
              /\ "PATH" \in DOMAIN child.env => child.env["PATH"] # callerenv["PATH"]
      /\ ~Preserve => \A k \in DOMAIN callerenv \cap DOMAIN child.env :
                        k # "TERM" => child.env[k] # callerenv[k]

\* User data that differs from the chroot's own is what --option gave first for
\* a key the user may modify; with script-config nothing of a profile is left; no
\* two keys set the same variable of the setup scripts, none replaces a variable
\* that schroot itself gives them, and the session file brings the data back for
\* the scripts that recover or end the session, unless a value has a line break,
\* which the file does not hold.
UserDataPermitted ==
    /\ \A k \in DOMAIN data :
         \/ k \in DOMAIN attrs.data /\ data[k] = attrs.data[k]
         \/ /\ ~attrs.script_config /\ k \notin DOMAIN attrs.data
            /\ k \in ProfileKeys
            /\ data[k] = IF attrs.profile = "absent" THEN "default" ELSE attrs.profile
         \/ /\ k \in attrs.user_keys \/ (k \in attrs.root_keys /\ 0 \in {caller, Asker.uid})
            /\ \E i \in DOMAIN argv.options :
                 /\ argv.options[i].key = k
                 /\ \A j \in 1..(i - 1) : argv.options[j].key # k
                 /\ data[k] = IF argv.options[i].sep THEN argv.options[i].value ELSE k
    /\ \A j, k \in DOMAIN data : EnvNames[j] = EnvNames[k] => j = k
    /\ pc = "scripts" =>
         \A v \in DOMAIN ChrootVariables \cup DOMAIN SessionVariables :
           scripts[v] = Over(SessionVariables, ChrootVariables)[v]
    /\ pc = "scripts" /\ OneLine(data) => LoadedData(get_keyfile(attrs, data)).data = data
=============================================================================
