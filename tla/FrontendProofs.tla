--------------------------- MODULE FrontendProofs ---------------------------
(***************************************************************************)
(* Proofs about the way from the command line to exec, for any command     *)
(* line, any chroots and sessions and any user database.                   *)
(***************************************************************************)
EXTENDS Frontend, FiniteSetTheorems, WellFoundedInduction, TLAPS

(***************************************************************************)
(* What check_options and check_actions make of the command line.          *)
(***************************************************************************)
OptionFields ==
    {"action", "chroots", "command", "directory", "shell", "user", "session_name",
     "preserve", "all", "all_chroots", "all_sessions", "all_source_chroots",
     "exclude_aliases", "load_chroots", "load_sessions", "useroptions", "error"}

\* The user, the directory, the shell and schroot's command are those given.
Kept(o, a) ==
    /\ DOMAIN o = OptionFields
    /\ o.user = a.user /\ o.directory = a.directory /\ o.shell = a.shell
    /\ a.prog = "schroot" => o.command = a.command
    /\ o.useroptions = <<>> \/ o.useroptions = UserOptions(a.options)

\* One action was asked for at most, and it is the one chosen.
Chosen(o, a) ==
    /\ a.actions = {} \/ Cardinality(a.actions) = 1
    /\ o.action = IF a.actions = {} THEN "" ELSE TheAction(a.actions)

\* set_action refuses two actions.
LEMMA ActionIsChosen ==
  ASSUME NEW a, NEW d, DOMAIN d = OptionFields, d.error = FALSE, d.action = "", Kept(d, a),
         d.command = a.command, d.chroots = a.chroots
  PROVE  LET o == set_action(d, a.actions)
         IN  /\ Kept(o, a) /\ o.command = a.command /\ o.chroots = a.chroots
             /\ ~o.error => Chosen(o, a)
<1> DEFINE o == set_action(d, a.actions)
<1> SUFFICES /\ Kept(o, a) /\ o.command = a.command /\ o.chroots = a.chroots
             /\ ~o.error => Chosen(o, a)
  OBVIOUS
<1>1. o = IF a.actions = {} THEN d
          ELSE IF Cardinality(a.actions) = 1 THEN [d EXCEPT !.action = TheAction(a.actions)]
          ELSE [d EXCEPT !.error = TRUE]
  BY DEF set_action, Throw
<1> HIDE DEF o
<1>2. CASE a.actions = {}
  BY <1>1, <1>2 DEF Chosen
<1>3. CASE a.actions # {}
  BY <1>1, <1>3 DEF Kept, Chosen, OptionFields
<1> QED
  BY <1>2, <1>3

\* check_options of the three programs.
LEMMA OptionsAreKept ==
  ASSUME NEW a, a.prog \in Programs, NEW garbage
  PROVE  LET o == check_options(a, garbage)
         IN  /\ Kept(o, a)
             /\ a.prog = "schroot" => o.chroots = a.chroots
             /\ ~o.error => Chosen(o, a)
<1> DEFINE d == Defaults(a, garbage)
<1>1. /\ DOMAIN d = OptionFields
      /\ d.user = a.user /\ d.directory = a.directory /\ d.shell = a.shell
      /\ d.command = a.command
      /\ d.chroots = a.chroots /\ d.error = FALSE /\ d.action = "" /\ d.useroptions = <<>>
  BY DEF Defaults, OptionFields
<1> DEFINE o == set_action(d, a.actions)
<1> DEFINE r == check_options(a, garbage)
<1>2. r = IF o.error \/ a.baddebug THEN Throw(o)
          ELSE CASE a.prog = "schroot" -> check_schroot(o, a)
                 [] a.prog = "dchroot" -> check_dchroot(o, a)
                 [] a.prog = "dchroot-dsa" -> check_dsa(o, a)
  BY DEF check_options
<1> HIDE DEF d, r
<1>3. Kept(o, a) /\ o.command = a.command /\ o.chroots = a.chroots /\ (~o.error => Chosen(o, a))
  BY <1>1, ActionIsChosen DEF Kept
<1> HIDE DEF o
<1>4. CASE o.error \/ a.baddebug
  <2>1. r = [o EXCEPT !.error = TRUE]
    BY <1>2, <1>4 DEF Throw
  <2> QED
    BY <2>1, <1>3 DEF Kept, OptionFields, r
<1>5. CASE ~o.error /\ ~a.baddebug /\ a.prog = "schroot"
  <2>1. r = check_schroot(o, a)
    BY <1>2, <1>5
  <2> QED
    BY <2>1, <1>3, <1>5 DEF check_schroot, Kept, Chosen, OptionFields, r
<1>6. CASE ~o.error /\ ~a.baddebug /\ a.prog = "dchroot"
  <2>1. r = check_dchroot(o, a)
    BY <1>2, <1>6
  <2> QED
    BY <2>1, <1>3, <1>6 DEF check_dchroot, Kept, Chosen, OptionFields, r
<1>7. CASE ~o.error /\ ~a.baddebug /\ a.prog = "dchroot-dsa"
  <2>1. r = check_dsa(o, a)
    BY <1>2, <1>7
  <2> QED
    BY <2>1, <1>3, <1>7 DEF check_dsa, Throw, Kept, Chosen, OptionFields, r
<1> QED
  BY <1>4, <1>5, <1>6, <1>7 DEF Programs, r

\* What the session operations rest on, once the options are accepted: with
\* --automatic-session and --begin-session no session file is loaded, the
\* chroots' definitions always are, and --begin-session has exactly one chroot.
Suits(o) ==
    /\ get_action(o) \in {"session_auto", "session_begin"} => o.load_sessions = FALSE
    /\ get_action(o) \in SessionActions => o.load_chroots = TRUE
    /\ get_action(o) = "session_begin" =>
         /\ Len(o.chroots) = 1
         /\ ~o.all_chroots /\ ~o.all_sessions /\ ~o.all_source_chroots

\* options_base::check_actions.
LEMMA ActionsSuit ==
  ASSUME NEW a, NEW o, Kept(o, a), ~o.error, Chosen(o, a), a.actions \subseteq AllActions,
         a.prog = "schroot" => o.chroots = a.chroots
  PROVE  LET q == check_actions(o)
         IN  /\ Kept(q, a)
             /\ ~q.error => Chosen(q, a) /\ Suits(q)
             /\ a.prog = "schroot" /\ get_action(q) = "session_begin" => q.chroots = a.chroots
<1> DEFINE act == get_action(o)
<1> DEFINE p == IF o.chroots # <<>> /\ all_used(o) THEN NoneOfAll(o) ELSE o
<1> DEFINE q == CASE act = "session_auto" -> CheckAuto(p)
                  [] act = "session_begin" -> CheckBegin(p)
                  [] act \in SessionActions \ {"session_auto", "session_begin"} -> CheckSession(p)
                  [] act \in ShowActions -> CheckShow(p)
                  [] act \in {"help", "version"} ->
                       NoneOfAll([p EXCEPT !.load_chroots = FALSE, !.load_sessions = FALSE])
<1> DEFINE r == check_actions(o)
<1>1. r = q \/ r = Throw(q)
  BY DEF check_actions
<1>2. act \in AllActions
  <2>1. o.action = IF a.actions = {} THEN "" ELSE TheAction(a.actions)
    BY DEF Chosen
  <2>2. a.actions # {} => TheAction(a.actions) \in a.actions
    BY DEF TheAction
  <2> QED
    BY <2>1, <2>2 DEF get_action, AllActions, SessionActions
<1>3. DOMAIN p = OptionFields /\ p.user = o.user /\ p.directory = o.directory
      /\ p.command = o.command /\ p.chroots = o.chroots /\ p.action = o.action
      /\ p.error = o.error /\ p.shell = o.shell /\ p.useroptions = o.useroptions
  BY DEF NoneOfAll, Kept, OptionFields
<1> HIDE DEF p, r
\* What every branch keeps.
<1> DEFINE Same(x) == /\ DOMAIN x = OptionFields /\ x.user = o.user /\ x.shell = o.shell
                      /\ x.directory = o.directory /\ x.command = o.command
                      /\ x.action = o.action /\ x.useroptions = o.useroptions
<1>4. Same(q) /\ (~q.error => Suits(q)) /\ (act = "session_begin" => q.chroots = o.chroots)
  <2>1. CASE act = "session_auto"
    <3>1. q = CheckAuto(p)
      BY <2>1 DEF SessionActions, ShowActions
    <3> HIDE DEF q
    <3> QED
      BY <2>1, <3>1, <1>3 DEF CheckAuto, Suits, get_action, SessionActions, OptionFields
  <2>2. CASE act = "session_begin"
    <3>1. q = CheckBegin(p)
      BY <2>2 DEF SessionActions, ShowActions
    <3> HIDE DEF q
    <3> QED
      BY <2>2, <3>1, <1>3 DEF CheckBegin, NoneOfAll, Throw, Suits, get_action, SessionActions, OptionFields
  <2>3. CASE act \in SessionActions \ {"session_auto", "session_begin"}
    <3>1. q = CheckSession(p)
      BY <2>3 DEF SessionActions, ShowActions
    <3> HIDE DEF q
    <3> QED
      BY <2>3, <3>1, <1>3 DEF CheckSession, Suits, get_action, SessionActions, OptionFields
  <2>4. CASE act \in ShowActions
    <3>1. q = CheckShow(p)
      BY <2>4 DEF ShowActions, SessionActions
    <3> HIDE DEF q
    <3> QED
      BY <2>4, <3>1, <1>3 DEF CheckShow, Suits, get_action, SessionActions, ShowActions, OptionFields
  <2>5. CASE act \in {"help", "version"}
    <3>1. q = NoneOfAll([p EXCEPT !.load_chroots = FALSE, !.load_sessions = FALSE])
      BY <2>5 DEF ShowActions, SessionActions
    <3> HIDE DEF q
    <3> QED
      BY <2>5, <3>1, <1>3 DEF NoneOfAll, Suits, get_action, SessionActions, OptionFields
  <2> QED
    BY <1>2, <2>1, <2>2, <2>3, <2>4, <2>5 DEF AllActions
<1> HIDE DEF q
<1>5. Same(r) /\ (~r.error => Suits(r)) /\ (act = "session_begin" => r.chroots = o.chroots)
  BY <1>1, <1>4 DEF Throw, OptionFields
<1>6. get_action(r) = act
  BY <1>5 DEF get_action
<1>7. Kept(r, a) /\ Chosen(r, a)
  BY <1>5 DEF Kept, Chosen
<1> QED
  BY <1>5, <1>6, <1>7 DEF r

(***************************************************************************)
(* The places in the program.                                              *)
(***************************************************************************)
Before == {"options", "load", "select", "dispatch", "auth", "authenticate"}
InTheChild == {"child", "groups", "persona", "enter", "user", "root", "chdir", "command", "exec",
             "running"}
InSession == {"chroot", "scripts", "setup", "reap", "aborted"} \cup InTheChild
Places == Before \cup InSession \cup {"exited"}

(***************************************************************************)
(* The inductive invariant, in parts.                                      *)
(***************************************************************************)
\* The inputs stay what they were.
Given == \E i \in Inputs : /\ argv = i.argv /\ caller = i.caller
                           /\ callerenv = i.callerenv /\ attrs = i.attrs

\* What was accepted of the command line.
Accepted ==
    /\ Kept(opts, argv) /\ Chosen(opts, argv) /\ Suits(opts)
    /\ get_action(opts) = "session_begin" => opts.chroots = argv.chroots

\* Nothing is handled before the session, and nothing at all without options
\* that were accepted.
Ordered ==
    /\ pc \in Places /\ pos \in Nat /\ pos >= 1
    /\ pc \in Before => handled = <<>>
    /\ (pc \notin {"options", "exited"} \/ handled # <<>>) => Accepted

\* The configuration that was loaded suits the operation, an alias leads to a
\* chroot, and the chroots' definitions were found good where they were read.
ConfigSuits ==
    /\ pc \in {"options", "load"} => chroots = {}
    /\ opts.load_sessions = FALSE => \A c \in chroots : c.ns # "session"
    /\ \A k \in DOMAIN aliases : \E c \in chroots : aliases[k] = Config!Full(c)
    /\ (pc \notin {"options", "load", "exited"} /\ opts.load_chroots) =>
         find_personality(attrs.persona) # "none"

\* Every name that was selected leads to a chroot.
AllLead == \A i \in DOMAIN chroot_names : Chroot(chroot_names[i]) # Config!NotFound

NamesLead ==
    pc \notin {"options", "load", "select", "exited"} =>
      /\ AllLead
      /\ get_action(opts) = "session_begin" => chroot_names = opts.chroots

\* What a session operation has handled.
HandledFits ==
    Asked \in SessionActions =>
      /\ handled \in Seq({Config!Full(c) : c \in chroots})
      /\ OnSessions => \A i \in DOMAIN handled :
           ChrootOf(handled[i]).ns = "session" \/ ChrootOf(handled[i]).kind = "plain"
      /\ Asked = "session_begin" =>
           /\ Len(handled) <= 1
           /\ pc = "chroot" /\ pos = 1 => handled = <<>>

SelectInv == Given /\ Ordered /\ ConfigSuits /\ NamesLead /\ HandledFits

(***************************************************************************)
(* Facts about the parts.                                                  *)
(***************************************************************************)
\* The command line has only options that its program has.
LEMMA GivenArgv ==
  ASSUME Given
  PROVE  /\ argv.prog \in Programs /\ argv.actions \subseteq AllActions
         /\ argv.prog # "schroot" => argv.actions \cap SessionActions = {}
         /\ argv.chroots \in Seq((Config!Namespaces \cup {""}) \X Config!AllNames)
<1>1. PICK i \in Inputs : argv = i.argv
  BY DEF Given
<1>2. /\ argv.prog \in Programs /\ argv.actions \subseteq ActionOptions(argv.prog)
      /\ argv.chroots \in Seq((Config!Namespaces \cup {""}) \X Config!AllNames)
  BY <1>1, InputAssumption
<1>3. ActionOptions(argv.prog) \subseteq AllActions
  BY DEF ActionOptions, AllActions
<1>4. argv.prog # "schroot" => ActionOptions(argv.prog) \cap SessionActions = {}
  BY DEF ActionOptions, ShowActions, SessionActions
<1> QED
  BY <1>2, <1>3, <1>4

\* The action carried out is the one the command line asks for.
LEMMA AskedIsDone ==
  ASSUME argv.actions \subseteq AllActions, Chosen(opts, argv)
  PROVE  Asked = get_action(opts)
<1>1. argv.actions # {} => TheAction(argv.actions) \in argv.actions
  BY DEF TheAction
<1>2. "" \notin AllActions
  BY DEF AllActions, SessionActions, ShowActions
<1>3. argv.actions # {} => TheAction(argv.actions) # ""
  BY <1>1, <1>2
<1> QED
  BY <1>3 DEF Asked, get_action, Chosen

\* A full name that find_alias returns is that of a chroot.
LEMMA FoundIsChroot ==
  ASSUME \A k \in DOMAIN aliases : \E c \in chroots : aliases[k] = Config!Full(c),
         NEW hint, NEW ns, NEW name, Config!find_alias(hint, ns, name) # Config!NotFound
  PROVE  \E c \in chroots : Config!Full(c) = Config!find_alias(hint, ns, name)
<1> DEFINE key == <<Config!get_namespace(hint, ns), name>>
<1> DEFINE full == IF key \in DOMAIN aliases THEN aliases[key] ELSE key
<1>1. Config!find_alias(hint, ns, name)
        = IF Config!InNamespace(full[1], full[2]) THEN full ELSE Config!NotFound
  BY DEF Config!find_alias
<1>2. Config!InNamespace(full[1], full[2]) /\ Config!find_alias(hint, ns, name) = full
  BY <1>1
<1>3. full = <<full[1], full[2]>>
  BY DEF Config!Full
<1> HIDE DEF full
<1>4. PICK c \in chroots : c.ns = full[1] /\ c.name = full[2]
  BY <1>2 DEF Config!InNamespace
<1>5. Config!Full(c) = full
  BY <1>3, <1>4 DEF Config!Full
<1> QED
  BY <1>2, <1>5

\* The chroot of a full name, where there is one.
LEMMA ChrootOfIs ==
  ASSUME NEW full, \E c \in chroots : Config!Full(c) = full
  PROVE  ChrootOf(full) \in chroots /\ Config!Full(ChrootOf(full)) = full
  BY DEF ChrootOf

\* What a name leads to changes only with the selection.
LEMMA LookupKept ==
  ASSUME UNCHANGED selection
  PROVE  /\ opts' = opts /\ chroots' = chroots /\ aliases' = aliases
         /\ chroot_names' = chroot_names
         /\ AllLead' = AllLead
         /\ \A n : ChrootOf(n)' = ChrootOf(n)
<1>1. opts' = opts /\ chroots' = chroots /\ aliases' = aliases /\ chroot_names' = chroot_names
  BY DEF selection
<1>2. AllLead' = AllLead
  BY <1>1 DEF AllLead, Chroot, Hint, SessionOperation, Config!find_alias, Config!InNamespace,
              Config!get_namespace
<1>3. \A n : ChrootOf(n)' = ChrootOf(n)
  BY <1>1 DEF ChrootOf
<1> QED
  BY <1>1, <1>2, <1>3

\* Parse accepts only command lines of which Accepted is true.
LEMMA ParseAccepts ==
  ASSUME Given, Parse, ~opts'.error
  PROVE  Accepted'
<1> DEFINE g == opts.load_chroots
<1> DEFINE o == check_options(argv, g)
<1>1. argv' = argv
  BY DEF Parse, inputs
<1>2. opts' = IF o.error THEN o ELSE check_actions(o)
  BY DEF Parse
<1>3. /\ argv.prog \in Programs /\ argv.actions \subseteq AllActions
      /\ argv.prog # "schroot" => argv.actions \cap SessionActions = {}
  BY GivenArgv
<1> HIDE DEF g
<1>4. /\ Kept(o, argv)
      /\ argv.prog = "schroot" => o.chroots = argv.chroots
      /\ ~o.error => Chosen(o, argv)
  BY <1>3, OptionsAreKept
<1> HIDE DEF o
<1>5. ~o.error /\ opts' = check_actions(o)
  BY <1>2
<1> DEFINE q == check_actions(o)
<1>6. /\ Kept(q, argv)
      /\ ~q.error => Chosen(q, argv) /\ Suits(q)
      /\ argv.prog = "schroot" /\ get_action(q) = "session_begin" => q.chroots = argv.chroots
  BY <1>3, <1>4, <1>5, ActionsSuit
<1> HIDE DEF q
<1>7. opts' = q
  BY <1>5 DEF q
<1>8. get_action(q) = "session_begin" => argv.prog = "schroot"
  <2>1. Chosen(q, argv)
    BY <1>6, <1>7
  <2>2. argv.actions # {} => TheAction(argv.actions) \in argv.actions
    BY DEF TheAction
  <2> QED
    BY <2>1, <2>2, <1>3 DEF Chosen, get_action, SessionActions
<1> QED
  BY <1>1, <1>6, <1>7, <1>8 DEF Accepted

(***************************************************************************)
(* The selection, step by step.                                            *)
(***************************************************************************)
\* A step after the selection that handles no further chroot.
LEMMA SelectionKept ==
  ASSUME SelectInv, UNCHANGED <<inputs, selection, handled>>,
         pc \notin {"options", "load", "select", "exited"},
         pc' \in Places \ {"options", "load", "select"},
         pc' \in Before => pc \in Before,
         pos' \in Nat, pos' >= 1,
         (pc' = "chroot" /\ pos' = 1) => handled = <<>>
  PROVE  SelectInv'
<1>1. /\ opts' = opts /\ chroots' = chroots /\ aliases' = aliases
      /\ chroot_names' = chroot_names /\ AllLead' = AllLead
      /\ \A n : ChrootOf(n)' = ChrootOf(n)
  BY LookupKept
<1>2. /\ argv' = argv /\ caller' = caller /\ callerenv' = callerenv /\ attrs' = attrs
      /\ handled' = handled
  BY DEF inputs
<1>3. Given'
  BY <1>2 DEF SelectInv, Given
<1>4. Accepted' = Accepted
  BY <1>1, <1>2 DEF Accepted
<1>5. Ordered'
  BY <1>2, <1>4 DEF SelectInv, Ordered
<1>6. ConfigSuits'
  BY <1>1, <1>2 DEF SelectInv, ConfigSuits
<1>7. NamesLead'
  BY <1>1 DEF SelectInv, NamesLead
<1>8. Asked' = Asked /\ OnSessions' = OnSessions
  BY <1>2 DEF Asked, OnSessions
<1>9. HandledFits'
  BY <1>1, <1>2, <1>8 DEF SelectInv, HandledFits
<1> QED
  BY <1>3, <1>5, <1>6, <1>7, <1>9 DEF SelectInv

\* The options are checked: only what Accepted says goes on.
LEMMA ParseStep ==
  ASSUME SelectInv, Parse
  PROVE  SelectInv'
<1>1. /\ pc = "options" /\ UNCHANGED <<inputs, chroots, aliases, chroot_names, pos, handled>>
      /\ pc' \in {"load", "exited"} /\ (pc' = "load" => ~opts'.error)
  BY DEF Parse, Exit, Go
<1>2. handled = <<>> /\ chroots = {} /\ pos \in Nat /\ pos >= 1
  BY <1>1 DEF SelectInv, Ordered, ConfigSuits, Before
<1>3. Given'
  BY <1>1 DEF SelectInv, Given, inputs
<1>4. pc' = "load" => Accepted'
  BY <1>1, ParseAccepts DEF SelectInv
<1>5. Ordered'
  BY <1>1, <1>2, <1>4 DEF Ordered, Places, Before
<1>6. ConfigSuits'
  BY <1>1, <1>2 DEF SelectInv, ConfigSuits
<1>7. NamesLead'
  BY <1>1 DEF NamesLead
<1>8. HandledFits'
  BY <1>1, <1>2 DEF HandledFits
<1> QED
  BY <1>3, <1>5, <1>6, <1>7, <1>8 DEF SelectInv

\* The configuration that the options call for is loaded.
LEMMA LoadStep ==
  ASSUME SelectInv, load_config
  PROVE  SelectInv'
<1> DEFINE defs == (IF opts.load_chroots THEN ChrootDefs ELSE {})
                   \cup (IF opts.load_sessions THEN SessionDefs ELSE {})
<1> DEFINE cs == Defined(defs)
<1> DEFINE leads == Leads(cs)
<1>1. /\ pc = "load" /\ UNCHANGED <<inputs, opts, chroot_names, pos, handled>>
      /\ pc' \in {"select", "exited"}
      /\ (pc' = "select" => (~opts.load_chroots \/ find_personality(attrs.persona) # "none"))
      /\ chroots' = cs
      /\ aliases' = [k \in {l[1] : l \in leads} |-> (CHOOSE l \in leads : l[1] = k)[2]]
  BY DEF load_config, Exit, Go
<1>2. handled = <<>> /\ pos \in Nat /\ pos >= 1 /\ Accepted
  BY <1>1 DEF SelectInv, Ordered, Before
<1>3. opts.load_sessions = FALSE => \A c \in cs : c.ns # "session"
  <2> SUFFICES ASSUME opts.load_sessions = FALSE, NEW c \in cs
               PROVE  c.ns # "session"
    OBVIOUS
  <2>1. CASE c \in defs
    BY <2>1, DefinitionAssumption
  <2>2. CASE \E d \in defs : c = Config!SourceChroot(d)
    BY <2>2 DEF Config!SourceChroot
  <2> QED
    BY <2>1, <2>2 DEF Defined
<1> HIDE DEF cs
<1>4. \A l \in leads : \E c \in cs : l[2] = Config!Full(c)
  <2> TAKE l \in leads
  <2>1. \E c \in cs : \E key : l = <<key, Config!Full(c)>>
    <3>1. \A x \in OwnNames(cs) : \E c \in cs : \E key : x = <<key, Config!Full(c)>>
      BY DEF OwnNames
    <3>2. \A x \in ProxyNames(cs) : \E c \in cs : \E key : x = <<key, Config!Full(c)>>
      BY DEF ProxyNames
    <3>3. \A x \in AliasNames(cs) : \E c \in cs : \E key : x = <<key, Config!Full(c)>>
      BY DEF AliasNames
    <3>4. \A x \in SourceNames(cs) : \E c \in cs : \E key : x = <<key, Config!Full(c)>>
      BY DEF SourceNames
    <3> QED
      BY <3>1, <3>2, <3>3, <3>4 DEF Leads
  <2> QED
    BY <2>1
<1> HIDE DEF leads
<1>5. \A k \in DOMAIN aliases' : \E c \in cs : aliases'[k] = Config!Full(c)
  <2> SUFFICES ASSUME NEW k \in DOMAIN aliases'
               PROVE  \E c \in cs : aliases'[k] = Config!Full(c)
    OBVIOUS
  <2>1. \E l \in leads : l[1] = k
    BY <1>1
  <2>2. (CHOOSE l \in leads : l[1] = k) \in leads
    BY <2>1
  <2>3. aliases'[k] = (CHOOSE l \in leads : l[1] = k)[2]
    BY <1>1
  <2> QED
    BY <2>2, <2>3, <1>4
<1>6. Given'
  BY <1>1 DEF SelectInv, Given, inputs
<1>7. Accepted'
  BY <1>1, <1>2 DEF Accepted, inputs
<1>8. Ordered'
  BY <1>1, <1>2, <1>7 DEF Ordered, Places, Before
<1>9. ConfigSuits'
  <2>1. opts' = opts /\ attrs' = attrs /\ chroots' = cs /\ pc' \in {"select", "exited"}
    BY <1>1 DEF inputs
  <2> QED
    BY <2>1, <1>1, <1>3, <1>5 DEF ConfigSuits
<1>10. NamesLead'
  BY <1>1 DEF NamesLead
<1>11. HandledFits'
  BY <1>1, <1>2 DEF HandledFits
<1> QED
  BY <1>6, <1>8, <1>9, <1>10, <1>11 DEF SelectInv

\* The names are looked up, and one that leads nowhere ends the program.
LEMMA SelectStep ==
  ASSUME SelectInv, get_chroot_options
  PROVE  SelectInv'
<1>1. /\ pc = "select" /\ UNCHANGED <<inputs, opts, chroots, aliases, pos, handled>>
      /\ chroot_names' = SelectedNames /\ pc' \in {"dispatch", "exited"}
      /\ pc' = "dispatch" =>
           \A i \in DOMAIN SelectedNames : Chroot(SelectedNames[i]) # Config!NotFound
  BY DEF get_chroot_options, Exit, Go
<1>2. handled = <<>> /\ pos \in Nat /\ pos >= 1 /\ Accepted
  BY <1>1 DEF SelectInv, Ordered, Before
<1>3. Given'
  BY <1>1 DEF SelectInv, Given, inputs
<1>4. Accepted'
  BY <1>1, <1>2 DEF Accepted, inputs
<1>5. Ordered'
  BY <1>1, <1>2, <1>4 DEF Ordered, Places, Before
<1>6. ConfigSuits'
  BY <1>1 DEF SelectInv, ConfigSuits, inputs
<1>7. pc' = "dispatch" => AllLead'
  <2> SUFFICES ASSUME pc' = "dispatch"
               PROVE  \A i \in DOMAIN chroot_names' : Chroot(chroot_names[i])' # Config!NotFound
    BY DEF AllLead
  <2> TAKE i \in DOMAIN chroot_names'
  <2>1. Chroot(SelectedNames[i]) # Config!NotFound
    BY <1>1
  <2> QED
    BY <2>1, <1>1 DEF Chroot, Hint, SessionOperation, Config!find_alias, Config!InNamespace,
                      Config!get_namespace
<1>8. get_action(opts) = "session_begin" => SelectedNames = opts.chroots
  BY <1>2 DEF Accepted, Suits, SelectedNames
<1>9. NamesLead'
  BY <1>1, <1>7, <1>8 DEF NamesLead
<1>10. HandledFits'
  BY <1>1, <1>2 DEF HandledFits
<1> QED
  BY <1>3, <1>5, <1>6, <1>9, <1>10 DEF SelectInv

\* The actions that show, and the way to the session.
LEMMA DispatchStep ==
  ASSUME SelectInv, Dispatch
  PROVE  SelectInv'
<1>1. pc = "dispatch" /\ UNCHANGED <<inputs, selection>> /\ handled = <<>> /\ Accepted
      /\ pos \in Nat /\ pos >= 1
  BY DEF Dispatch, SelectInv, Ordered, Before
<1>2. \/ pc' \in {"exited", "auth"} /\ UNCHANGED <<pos, handled>>
      \/ pc' = "exited" /\ pos' = pos /\ get_action(opts) \in ShowActions
  BY DEF Dispatch, Exit, Go, Show
<1>3. CASE pc' \in {"exited", "auth"} /\ UNCHANGED <<pos, handled>>
  BY <1>1, <1>3, SelectionKept DEF Places, Before
<1>4. CASE pc' = "exited" /\ pos' = pos /\ get_action(opts) \in ShowActions
  <2>1. /\ opts' = opts /\ chroots' = chroots /\ aliases' = aliases /\ argv' = argv
        /\ attrs' = attrs
    BY <1>1, LookupKept DEF inputs
  <2>2. Given'
    BY <1>1 DEF SelectInv, Given, inputs
  <2>3. Accepted'
    BY <1>1, <2>1 DEF Accepted
  <2>4. Ordered'
    BY <1>1, <1>4, <2>3 DEF Ordered, Places, Before
  <2>5. ConfigSuits'
    BY <1>4, <2>1 DEF SelectInv, ConfigSuits
  <2>6. NamesLead'
    BY <1>4 DEF NamesLead
  <2>7. Asked = get_action(opts)
    BY <1>1, GivenArgv, AskedIsDone DEF SelectInv, Accepted
  <2>8. Asked' \notin SessionActions
    <3>1. Asked' = Asked
      BY <2>1 DEF Asked
    <3> QED
      BY <3>1, <2>7, <1>4 DEF ShowActions, SessionActions
  <2>9. HandledFits'
    BY <2>8 DEF HandledFits
  <2> QED
    BY <2>2, <2>4, <2>5, <2>6, <2>9 DEF SelectInv
<1> QED
  BY <1>2, <1>3, <1>4

\* A chroot reaches its operation.
LEMMA SetUpStep ==
  ASSUME SelectInv, SetUpChroot
  PROVE  SelectInv'
<1>1. /\ pc = "chroot" /\ UNCHANGED <<inputs, selection, pos>> /\ pos \in DOMAIN chroot_names
      /\ ~NotASession(TheChroot) /\ handled' = Append(handled, Current)
      /\ pc' \in {"aborted", "scripts", "setup"}
  BY DEF SetUpChroot
<1>2. /\ opts' = opts /\ chroots' = chroots /\ aliases' = aliases
      /\ chroot_names' = chroot_names /\ AllLead' = AllLead
      /\ \A n : ChrootOf(n)' = ChrootOf(n)
  BY <1>1, LookupKept
<1>3. /\ argv' = argv /\ caller' = caller /\ callerenv' = callerenv /\ attrs' = attrs
      /\ pos' = pos
  BY <1>1 DEF inputs
<1>4. pos \in Nat /\ pos >= 1 /\ Accepted /\ AllLead
  BY <1>1 DEF SelectInv, Ordered, NamesLead
<1>5. Given'
  BY <1>3 DEF SelectInv, Given
<1>6. Accepted'
  BY <1>2, <1>3, <1>4 DEF Accepted
<1>7. Ordered'
  BY <1>1, <1>3, <1>4, <1>6 DEF Ordered, Places, Before, InSession
<1>8. ConfigSuits'
  BY <1>1, <1>2, <1>3 DEF SelectInv, ConfigSuits
<1>9. NamesLead'
  BY <1>1, <1>2 DEF SelectInv, NamesLead
<1>10. Asked' = Asked /\ OnSessions' = OnSessions /\ Asked = get_action(opts)
  BY <1>3, <1>4, GivenArgv, AskedIsDone DEF SelectInv, Accepted, Asked, OnSessions
<1>11. ASSUME Asked \in SessionActions
       PROVE  /\ handled' \in Seq({Config!Full(c) : c \in chroots'})
              /\ OnSessions' => \A i \in DOMAIN handled' :
                   ChrootOf(handled'[i]).ns = "session" \/ ChrootOf(handled'[i]).kind = "plain"
              /\ Asked' = "session_begin" => Len(handled') <= 1
  <2> DEFINE S == {Config!Full(c) : c \in chroots}
  <2>1. handled \in Seq(S)
    BY <1>11 DEF SelectInv, HandledFits
  <2>2. Current \in S
    <3>1. Current # Config!NotFound
      BY <1>1, <1>4 DEF AllLead, Current
    <3>2. \A k \in DOMAIN aliases : \E c \in chroots : aliases[k] = Config!Full(c)
      BY DEF SelectInv, ConfigSuits
    <3>3. \E c \in chroots : Config!Full(c) = Current
      BY <3>1, <3>2, FoundIsChroot DEF Current, Chroot
    <3> QED
      BY <3>3
  <2> HIDE DEF S
  <2>3. /\ handled' \in Seq(S) /\ Len(handled') = Len(handled) + 1
        /\ \A i \in 1..Len(handled) : handled'[i] = handled[i]
        /\ handled'[Len(handled) + 1] = Current
        /\ DOMAIN handled' = 1..(Len(handled) + 1) /\ DOMAIN handled = 1..Len(handled)
        /\ Len(handled) \in Nat
    BY <1>1, <2>1, <2>2
  <2>4. ASSUME OnSessions, NEW i \in DOMAIN handled'
        PROVE  ChrootOf(handled'[i]).ns = "session" \/ ChrootOf(handled'[i]).kind = "plain"
    <3>1. CASE i \in 1..Len(handled)
      BY <1>11, <2>3, <2>4, <3>1 DEF SelectInv, HandledFits
    <3>2. CASE i = Len(handled) + 1
      <4>1. SessionOperation(opts)
        BY <1>10, <2>4 DEF OnSessions, SessionOperation
      <4>2. TheChroot.ns = "session" \/ TheChroot.kind = "plain"
        BY <1>1, <4>1 DEF NotASession, Creates
      <4> QED
        BY <4>2, <3>2, <2>3 DEF TheChroot
    <3> QED
      BY <2>3, <3>1, <3>2
  <2>5. ASSUME Asked = "session_begin"
        PROVE  Len(handled') <= 1
    <3>1. chroot_names = argv.chroots /\ Len(argv.chroots) = 1
      BY <1>1, <1>4, <1>10, <2>5 DEF SelectInv, NamesLead, Accepted, Suits
    <3>2. argv.chroots \in Seq((Config!Namespaces \cup {""}) \X Config!AllNames)
      BY GivenArgv DEF SelectInv
    <3>3. DOMAIN argv.chroots = 1..Len(argv.chroots)
      <4> DEFINE s == argv.chroots
      <4> DEFINE T == (Config!Namespaces \cup {""}) \X Config!AllNames
      <4>1. s \in Seq(T)
        BY <3>2
      <4> HIDE DEF s, T
      <4>2. DOMAIN s = 1..Len(s)
        BY <4>1
      <4> QED
        BY <4>2 DEF s
    <3>4. pos = 1
      BY <1>1, <1>4, <3>1, <3>3
    <3>5. handled = <<>>
      BY <1>1, <1>11, <2>5, <3>4 DEF SelectInv, HandledFits
    <3>6. Len(handled) = 0
      BY <3>5
    <3> QED
      BY <2>3, <3>6
  <2> QED
    BY <1>2, <1>10, <2>3, <2>4, <2>5 DEF S
<1>12. HandledFits'
  BY <1>1, <1>2, <1>10, <1>11 DEF HandledFits
<1> QED
  BY <1>5, <1>7, <1>8, <1>9, <1>12 DEF SelectInv

\* Every step keeps the parts about the selection.
LEMMA SelectInvStep == SelectInv /\ [Next]_vars => SelectInv'
<1> SUFFICES ASSUME SelectInv, [Next]_vars
             PROVE  SelectInv'
  OBVIOUS
<1>0. /\ pos \in Nat /\ pos >= 1 /\ (pc \in Before => handled = <<>>) /\ pc \in Places
      /\ pos + 1 \in Nat /\ pos + 1 >= 1 /\ pos + 1 # 1
  BY DEF SelectInv, Ordered
<1> USE DEF Places, Before, InSession, InTheChild
<1>1. CASE AddSessionAuth \/ Authenticate
  <2>1. /\ UNCHANGED <<inputs, selection, handled, pos>> /\ pc \in {"auth", "authenticate"}
        /\ pc' \in {"exited", "authenticate", "chroot"}
    BY <1>1 DEF AddSessionAuth, Authenticate, Exit, Go
  <2> QED
    BY <2>1, <1>0, SelectionKept
<1>2. CASE Finished \/ RefuseChroot \/ RefuseData \/ SetupScriptsEnd
  <2>1. /\ UNCHANGED <<inputs, selection, handled, pos>> /\ pc \in {"chroot", "scripts"}
        /\ pc' \in {"exited", "aborted", "setup"}
    BY <1>2 DEF Finished, RefuseChroot, RefuseData, SetupScriptsEnd, Exit, Go
  <2> QED
    BY <2>1, <1>0, SelectionKept
<1>3. CASE RunChroot
  <2>1. /\ UNCHANGED <<inputs, selection, handled>> /\ pc = "setup"
        /\ (pc' = "child" /\ pos' = pos) \/ (pc' = "chroot" /\ pos' = pos + 1)
    BY <1>3 DEF RunChroot
  <2> QED
    BY <2>1, <1>0, SelectionKept
<1>4. CASE \/ SetEnvironment \/ SetGroups \/ SetPersonality \/ EnterChroot \/ SetUser
           \/ CheckRoot \/ Chdir \/ GetCommand \/ Exec \/ ChildFails
  <2>1. /\ UNCHANGED <<inputs, selection, handled, pos>> /\ pc \in InTheChild
        /\ pc' \in InTheChild \cup {"reap"}
    BY <1>4 DEF SetEnvironment, SetGroups, SetPersonality, EnterChroot, SetUser, CheckRoot, Chdir,
                GetCommand, Exec, ChildFails, InChild
  <2> QED
    BY <2>1, <1>0, SelectionKept
<1>5. CASE Wait
  <2>1. /\ UNCHANGED <<inputs, selection, handled>> /\ pc \in {"running", "reap"}
        /\ pc' = "chroot" /\ pos' = pos + 1
    BY <1>5 DEF Wait
  <2> QED
    BY <2>1, <1>0, SelectionKept
<1>6. CASE UNCHANGED vars
  <2>1. /\ UNCHANGED <<inputs, selection>> /\ handled' = handled /\ pos' = pos /\ pc' = pc
    BY <1>6 DEF vars, inputs, selection
  <2>2. /\ opts' = opts /\ chroots' = chroots /\ aliases' = aliases
        /\ chroot_names' = chroot_names /\ AllLead' = AllLead
        /\ \A n : ChrootOf(n)' = ChrootOf(n)
    BY <2>1, LookupKept
  <2>3. /\ argv' = argv /\ caller' = caller /\ callerenv' = callerenv /\ attrs' = attrs
    BY <2>1 DEF inputs
  <2>4. Given' /\ Accepted' = Accepted /\ Asked' = Asked /\ OnSessions' = OnSessions
    BY <2>2, <2>3 DEF SelectInv, Given, Accepted, Asked, OnSessions
  <2>5. Ordered'
    BY <2>1, <2>4 DEF SelectInv, Ordered
  <2>6. ConfigSuits' /\ NamesLead'
    BY <2>1, <2>2, <2>3 DEF SelectInv, ConfigSuits, NamesLead
  <2>7. HandledFits'
    BY <2>1, <2>2, <2>4 DEF SelectInv, HandledFits
  <2> QED
    BY <2>4, <2>5, <2>6, <2>7 DEF SelectInv
<1> QED
  BY <1>1, <1>2, <1>3, <1>4, <1>5, <1>6, ParseStep, LoadStep, SelectStep, DispatchStep, SetUpStep
  DEF Next

\* Where the program starts.
LEMMA SelectInvInitially == Init => SelectInv
<1> SUFFICES ASSUME Init
             PROVE  SelectInv
  OBVIOUS
<1>1. /\ pc = "options" /\ chroots = {} /\ DOMAIN aliases = {} /\ chroot_names = <<>> /\ pos = 1
      /\ handled = <<>>
  BY DEF Init, Empty
<1>2. Given
  BY DEF Init, Given
<1>3. Ordered
  BY <1>1 DEF Ordered, Places, Before
<1>4. ConfigSuits /\ NamesLead
  BY <1>1 DEF ConfigSuits, NamesLead
<1>5. HandledFits
  BY <1>1 DEF HandledFits
<1> QED
  BY <1>2, <1>3, <1>4, <1>5 DEF SelectInv

\* The parts about the selection hold throughout.
LEMMA SelectInvHolds == Spec => []SelectInv
  BY SelectInvInitially, SelectInvStep, PTL DEF Spec

\* Whatever the command line, the configuration and the aliases are, the chroot
\* that an operation reaches is of the kind the operation is for, and
\* --begin-session reaches one at most.
THEOREM OperationsFit == Spec => []OperationFits
<1>1. SelectInv => OperationFits
  <2> SUFFICES ASSUME SelectInv, NEW i \in DOMAIN handled, Asked \in SessionActions
               PROVE  LET c == ChrootOf(handled[i])
                      IN  /\ Cardinality(argv.actions) <= 1
                          /\ IF OnSessions THEN c.ns = "session" \/ c.kind = "plain"
                                           ELSE c.ns # "session"
                          /\ Asked = "session_begin" => i = 1
    BY DEF OperationFits
  <2> DEFINE S == {Config!Full(c) : c \in chroots}
  <2>1. handled \in Seq(S)
    BY DEF SelectInv, HandledFits
  <2> HIDE DEF S
  <2>2. handled # <<>> /\ i \in 1..Len(handled) /\ handled[i] \in S /\ Len(handled) \in Nat
    BY <2>1
  <2>3. Accepted
    BY <2>2 DEF SelectInv, Ordered
  <2>4. Asked = get_action(opts)
    BY <2>3, GivenArgv, AskedIsDone DEF SelectInv, Accepted
  <2>5. Cardinality(argv.actions) <= 1
    <3>1. CASE argv.actions = {}
      <4>1. Cardinality(argv.actions) = 0
        BY <3>1, FS_EmptySet
      <4> QED
        BY <4>1
    <3>2. CASE Cardinality(argv.actions) = 1
      BY <3>2
    <3> QED
      BY <2>3, <3>1, <3>2 DEF Accepted, Chosen
  <2>6. CASE OnSessions
    BY <2>5, <2>6 DEF SelectInv, HandledFits, OnSessions
  <2>7. CASE ~OnSessions
    <3>1. get_action(opts) \in {"session_auto", "session_begin"}
      BY <2>4, <2>7 DEF OnSessions, SessionActions
    <3>2. \A c \in chroots : c.ns # "session"
      BY <3>1, <2>3 DEF Accepted, Suits, SelectInv, ConfigSuits
    <3>3. ChrootOf(handled[i]) \in chroots
      BY <2>2, ChrootOfIs DEF S
    <3>4. Asked = "session_begin" => i = 1
      <4>1. Asked = "session_begin" => Len(handled) <= 1
        BY DEF SelectInv, HandledFits
      <4> QED
        BY <4>1, <2>2
    <3> QED
      BY <2>5, <2>7, <3>2, <3>3, <3>4
  <2> QED
    BY <2>6, <2>7
<1> QED
  BY <1>1, SelectInvHolds, PTL

(***************************************************************************)
(* Who runs the command.                                                   *)
(***************************************************************************)
\* A set of numbers that is not empty has a smallest one.
LEMMA SmallestExists ==
  ASSUME NEW S \in SUBSET Nat, S # {}
  PROVE  \E i \in S : \A j \in S : i <= j
<1>1. \E i \in S : \A j \in S : ~ (<<j, i>> \in OpToRel(<, Nat))
  BY WFMin, NatLessThanWellFounded
<1>2. PICK i \in S : \A j \in S : ~ (<<j, i>> \in OpToRel(<, Nat))
  BY <1>1
<1>3. \A j \in S : ~(j < i)
  BY <1>2 DEF OpToRel
<1> QED
  BY <1>3

\* query returns the first entry of those found.
LEMMA QueryIsFirst ==
  ASSUME NEW F \in SUBSET DOMAIN Passwd, query(Passwd, F) # NoUser
  PROVE  \E i \in F : query(Passwd, F) = Passwd[i] /\ \A j \in F : i <= j
<1>1. F # {} /\ query(Passwd, F) = Passwd[CHOOSE i \in F : \A j \in F : i <= j]
  BY DEF query
<1>2. F \in SUBSET Nat
  BY PasswdAssumption
<1>3. \E i \in F : \A j \in F : i <= j
  BY <1>1, <1>2, SmallestExists
<1> DEFINE m == CHOOSE i \in F : \A j \in F : i <= j
<1>4. m \in F /\ \A j \in F : m <= j
  BY <1>3
<1> QED
  BY <1>1, <1>4

\* The user that add_session_auth looked up is the one asked for: the account of
\* --user, or the caller's own.
LEMMA UserIsAsker ==
  ASSUME AddSessionAuth, pc' = "authenticate", opts.user = argv.user
  PROVE  user' = Asker /\ \E i \in DOMAIN Passwd : user' = Passwd[i]
<1> DEFINE r == set_ruser(Passwd, Groups, caller)
<1> DEFINE nm == IF argv.user = "" THEN r.name ELSE argv.user
<1> DEFINE u == set_user(Passwd, nm)
<1>1. r # NoUser /\ u # NoUser /\ user' = u
  BY DEF AddSessionAuth, Exit, Go
<1> DEFINE F == {i \in DOMAIN Passwd : Passwd[i].name = nm}
<1>2. u = query(Passwd, F)
  BY DEF set_user, query_name
<1> HIDE DEF r, u
<1>3. PICK k \in F : u = Passwd[k]
  BY <1>1, <1>2, QueryIsFirst
<1>4. k \in DOMAIN Passwd /\ Passwd[k].name = nm
  BY <1>3
<1> HIDE DEF F
<1>5. Asker = Passwd[k]
  <2>1. CASE argv.user # ""
    <3>1. Asker = Passwd[CHOOSE i \in DOMAIN Passwd : Passwd[i].name = argv.user]
      BY <2>1 DEF Asker
    <3>2. Passwd[k].name = argv.user
      BY <1>4, <2>1
    <3>3. (CHOOSE i \in DOMAIN Passwd : Passwd[i].name = argv.user) = k
      BY <3>2, <1>4, PasswdAssumption
    <3> QED
      BY <3>1, <3>3
  <2>2. CASE argv.user = ""
    <3> DEFINE G == {i \in DOMAIN Passwd : Passwd[i].uid = caller}
    <3>1. r = query(Passwd, G)
      BY <1>1 DEF set_ruser, query_uid, r
    <3>2. PICK m \in G : r = Passwd[m] /\ \A j \in G : m <= j
      BY <1>1, <3>1, QueryIsFirst
    <3>3. m \in DOMAIN Passwd /\ Passwd[m].name = r.name /\ Passwd[m].uid = caller
      BY <3>2
    <3>4. k = m
      BY <3>3, <1>4, <2>2, PasswdAssumption
    <3> DEFINE First(i) == Passwd[i].uid = caller /\ \A j \in 1..(i - 1) : Passwd[j].uid # caller
    <3>5. DOMAIN Passwd = 1..Len(Passwd) /\ Len(Passwd) \in Nat
      BY PasswdAssumption
    <3>6. First(m)
      <4> SUFFICES ASSUME NEW j \in 1..(m - 1), Passwd[j].uid = caller
                   PROVE  FALSE
        BY <3>3
      <4>1. j \in DOMAIN Passwd /\ ~(m <= j)
        BY <3>3, <3>5
      <4> QED
        BY <4>1, <3>2
    <3>7. \A i \in DOMAIN Passwd : First(i) => i = m
      <4> SUFFICES ASSUME NEW i \in DOMAIN Passwd, First(i), i # m
                   PROVE  FALSE
        OBVIOUS
      <4>1. m <= i
        BY <3>2
      <4>2. m \in 1..(i - 1)
        BY <4>1, <3>3, <3>5
      <4> QED
        BY <4>2, <3>3
    <3>8. Asker = Passwd[CHOOSE i \in DOMAIN Passwd : First(i)]
      BY <2>2 DEF Asker
    <3> HIDE DEF First
    <3>9. (CHOOSE i \in DOMAIN Passwd : First(i)) = m
      BY <3>3, <3>6, <3>7
    <3> QED
      BY <3>4, <3>8, <3>9
  <2> QED
    BY <2>1, <2>2
<1> QED
  BY <1>1, <1>3, <1>4, <1>5

(***************************************************************************)
(* Where it runs.                                                          *)
(***************************************************************************)
HomeInside(env) == "HOME" \in DOMAIN env => env["HOME"] \notin Outside

\* The directories that schroot(1) allows for the command.
AllowedDirs ==
    IF argv.directory # "" THEN {argv.directory}
    ELSE IF argv.prog = "schroot" /\ ~login(argv.command) THEN {"/cwd"}
    ELSE {"/cwd", "/", user.home}
         \cup (IF "HOME" \in DOMAIN child.env THEN {child.env["HOME"]} ELSE {})

\* An environment that takes HOME from two others that are inside is inside.
LEMMA OverIsInside ==
  ASSUME NEW e, NEW f, HomeInside(e), HomeInside(f) \/ "HOME" \in DOMAIN e
  PROVE  HomeInside(Over(e, f))
  BY DEF HomeInside, Over

\* So is one to which another is added.
LEMMA AddIsInside ==
  ASSUME NEW env, NEW filter, NEW more, HomeInside(env), HomeInside(more)
  PROVE  HomeInside(add(env, filter, more))
<1>1. HomeInside([k \in DOMAIN more \ filter |-> more[k]])
  BY DEF HomeInside
<1>2. HomeInside(remove(env, DOMAIN more))
  BY DEF HomeInside, remove
<1> QED
  BY <1>1, <1>2, OverIsInside DEF add

\* The environment of the child has no home outside.
LEMMA ChildHomeIsInside ==
  ASSUME NEW preserve, NEW filter, NEW u, NEW env, u.home \notin Outside, HomeInside(env)
  PROVE  HomeInside(ChildEnvironment(preserve, filter, u, env))
<1> DEFINE own == [PATH |-> IF u.uid = 0 THEN "root-path" ELSE "sane-path",
                   HOME |-> IF u.home = "" THEN "/" ELSE u.home,
                   USER |-> u.name, LOGNAME |-> u.name]
<1> DEFINE term == IF "TERM" \in DOMAIN env THEN [TERM |-> env["TERM"]] ELSE Empty
<1> DEFINE shell == IF u.shell = "" THEN Empty ELSE [SHELL |-> u.shell]
<1>1. get_minimal_environment(u, env) = Over(own, Over(term, shell))
  BY DEF get_minimal_environment
<1>2. "HOME" \in DOMAIN own /\ HomeInside(own)
  BY DEF HomeInside, Outside
<1> HIDE DEF own, term, shell
<1> DEFINE minimal == get_minimal_environment(u, env)
<1> DEFINE rest == Over(term, shell)
<1>3. HomeInside(minimal) /\ "HOME" \in DOMAIN minimal
  <2>1. minimal = Over(own, rest)
    BY <1>1
  <2> HIDE DEF minimal, rest
  <2>2. HomeInside(Over(own, rest))
    BY <1>2, OverIsInside
  <2>3. "HOME" \in DOMAIN Over(own, rest)
    BY <1>2 DEF Over
  <2> QED
    BY <2>1, <2>2, <2>3
<1> HIDE DEF minimal
<1>4. HomeInside(get_auth_environment(u, env))
  BY <1>3, OverIsInside DEF get_auth_environment, minimal
<1>5. HomeInside(IF u.uid = 0 THEN remove(env, {"PATH"}) ELSE env)
  BY DEF HomeInside, remove
<1>6. HomeInside(get_complete_environment(u, env))
  BY <1>4, <1>5, AddIsInside DEF get_complete_environment
<1>7. HomeInside(Empty)
  BY DEF HomeInside, Empty
<1> QED
  BY <1>4, <1>6, <1>7, AddIsInside DEF ChildEnvironment

\* Appending what is new stays within the set, and leaves no list empty.
LEMMA PushNewIsList ==
  ASSUME NEW S, NEW list \in Seq(S), NEW x \in S
  PROVE  PushNew(list, x) \in Seq(S) /\ PushNew(list, x) # <<>>
<1>1. Append(list, x) \in Seq(S) /\ Len(Append(list, x)) = Len(list) + 1 /\ Len(list) \in Nat
  OBVIOUS
<1>2. Append(list, x) # <<>>
  BY <1>1
<1>3. (\E i \in DOMAIN list : list[i] = x) => list # <<>>
  OBVIOUS
<1> QED
  BY <1>1, <1>2, <1>3 DEF PushNew

\* get_login_directories and get_command_directories name allowed ones only.
LEMMA DirectoriesAreAllowed ==
  ASSUME argv.prog \in Programs, opts.directory = argv.directory,
         argv.prog = "schroot" => opts.command = argv.command
  PROVE  Directories \in Seq(AllowedDirs) /\ Directories # <<>>
<1> DEFINE D == AllowedDirs
<1>1. CASE argv.directory # ""
  <2>1. Directories = <<argv.directory>>
    BY <1>1 DEF Directories, get_login_directories, get_command_directories,
                command_directories, Programs
  <2>2. argv.directory \in D
    BY <1>1 DEF AllowedDirs
  <2> HIDE DEF D
  <2>3. <<argv.directory>> \in Seq(D)
    BY <2>2
  <2> QED
    BY <2>1, <2>3 DEF D
<1>2. CASE argv.directory = "" /\ argv.prog = "schroot" /\ ~login(argv.command)
  <2>1. Directories = <<"/cwd">>
    BY <1>2 DEF Directories, get_command_directories, command_directories
  <2>2. "/cwd" \in D
    BY <1>2 DEF AllowedDirs
  <2> HIDE DEF D
  <2>3. <<"/cwd">> \in Seq(D)
    BY <2>2
  <2> QED
    BY <2>1, <2>3 DEF D
<1>3. CASE argv.directory = "" /\ ~(argv.prog = "schroot" /\ ~login(argv.command))
  <2> DEFINE p == Preserve
  <2>1. Directories = get_login_directories(argv.prog, "", "/cwd", p, child.env, user)
    BY <1>3 DEF Directories, get_command_directories, Programs
  <2>2. /\ "/cwd" \in D /\ "/" \in D /\ user.home \in D
        /\ "HOME" \in DOMAIN child.env => child.env["HOME"] \in D
    BY <1>3 DEF AllowedDirs
  <2> HIDE DEF D, p
  <2>3. CASE argv.prog = "schroot"
    <3> DEFINE home == IF "HOME" \in DOMAIN child.env THEN PushNew(<<"/cwd">>, child.env["HOME"])
                       ELSE <<"/cwd">>
    <3>1. Directories = PushNew(PushNew(home, user.home), "/")
      BY <2>1, <2>3 DEF get_login_directories, login_fallbacks
    <3>2. <<"/cwd">> \in Seq(D) /\ <<"/cwd">> # <<>>
      BY <2>2
    <3>3. home \in Seq(D) /\ home # <<>>
      BY <2>2, <3>2, PushNewIsList
    <3> HIDE DEF home
    <3>4. PushNew(home, user.home) \in Seq(D) /\ PushNew(home, user.home) # <<>>
      BY <2>2, <3>3, PushNewIsList
    <3> QED
      BY <2>2, <3>1, <3>4, PushNewIsList DEF D
  <2>4. CASE argv.prog \in {"dchroot", "dchroot-dsa"}
    <3>1. Directories = PushNew(<<"/cwd">>, "/") \/ Directories = PushNew(<<user.home>>, "/")
      BY <2>1, <2>4 DEF get_login_directories, dchroot_fallbacks, dchroot_dsa_fallbacks
    <3>2. /\ <<"/cwd">> \in Seq(D) /\ <<"/cwd">> # <<>>
          /\ <<user.home>> \in Seq(D) /\ <<user.home>> # <<>>
      BY <2>2
    <3> QED
      BY <2>2, <3>1, <3>2, PushNewIsList DEF D
  <2> QED
    BY <2>3, <2>4 DEF Programs
<1> QED
  BY <1>1, <1>2, <1>3

(***************************************************************************)
(* The child on its way to exec, in parts.                                 *)
(***************************************************************************)
\* From the look-up on, user is the account asked for.
UserIsAsked ==
    pc \in InSession \cup {"authenticate"} =>
      user = Asker /\ \E i \in DOMAIN Passwd : user = Passwd[i]

\* A directory in which the command may run.
InPlace(dir) ==
    /\ dir \notin Outside
    /\ argv.directory # "" => dir = argv.directory
    /\ argv.prog = "schroot" /\ ~login(argv.command) /\ argv.directory = "" => dir = "/cwd"

\* A child is there only with --automatic-session and --run-session.
ChildIsCalledFor == pc \in InTheChild => get_action(opts) \in {"session_auto", "session_run"}

\* What the child has given up or entered does not come back.
ChildConfined ==
    pc \in InTheChild =>
      /\ DOMAIN child = DOMAIN NoChild
      /\ pc \notin {"child", "groups"} => child.groups = user.name
      /\ pc \notin {"child", "groups", "persona"} /\ attrs.persona # "undefined" =>
           child.persona = attrs.persona
      /\ pc \notin {"child", "groups", "persona", "enter"} => child.root = "chroot"
      /\ pc \in {"root", "chdir", "command", "exec", "running"} =>
           child.uid = user.uid /\ child.saved \in {0, user.uid}
      /\ pc \in {"chdir", "command", "exec", "running"} => child.saved = user.uid

\* The directories that are still to be tried, and the one that was entered.
ChildPlaced ==
    pc \in InTheChild =>
      /\ pc \in {"command", "exec", "running"} => InPlace(child.cwd)
      /\ pc \notin {"command", "exec", "running"} => HomeInside(child.env)
      /\ pc \notin {"chdir", "command", "exec", "running"} => child.dirs = <<>>
      /\ pc = "chdir" => child.dirs \in Seq(AllowedDirs)

ChildInv == SelectInv /\ UserIsAsked /\ ChildIsCalledFor /\ ChildConfined /\ ChildPlaced

\* Asker is a matter of the inputs.
LEMMA UserKept ==
  ASSUME UserIsAsked, UNCHANGED <<inputs, auth>>,
         pc' \in InSession \cup {"authenticate"} => pc \in InSession \cup {"authenticate"}
  PROVE  UserIsAsked'
<1>1. argv' = argv /\ caller' = caller /\ user' = user
  BY DEF inputs, auth
<1>2. Asker' = Asker
  BY <1>1 DEF Asker
<1> QED
  BY <1>1, <1>2 DEF UserIsAsked

\* Outside of the child there is nothing to confine.
LEMMA NoChildNoClaim ==
  ASSUME pc \notin InTheChild
  PROVE  ChildIsCalledFor /\ ChildConfined /\ ChildPlaced
  BY DEF ChildIsCalledFor, ChildConfined, ChildPlaced

\* A step of the child leaves the user and the action alone.
LEMMA ChildStepFrame ==
  ASSUME ChildInv, NEW from \in InTheChild, NEW to \in InTheChild, NEW new, InChild(from, to, new)
  PROVE  /\ pc = from /\ pc' = to /\ child' = new
         /\ argv' = argv /\ attrs' = attrs /\ user' = user /\ opts' = opts
         /\ callerenv' = callerenv
         /\ UserIsAsked' /\ ChildIsCalledFor'
<1>1. /\ pc = from /\ pc' = to /\ child' = new
      /\ argv' = argv /\ attrs' = attrs /\ user' = user /\ opts' = opts /\ callerenv' = callerenv
  BY DEF InChild, inputs, auth, selection
<1>2. UNCHANGED <<inputs, auth>>
  BY DEF InChild
<1>3. UserIsAsked'
  BY <1>1, <1>2, UserKept DEF ChildInv, InSession
<1>4. ChildIsCalledFor'
  BY <1>1 DEF ChildInv, ChildIsCalledFor
<1> QED
  BY <1>1, <1>3, <1>4

\* The personality of a chroot whose definition was read is one there is.
LEMMA PersonalityIsKnown ==
  ASSUME ChildInv, pc \in InTheChild
  PROVE  find_personality(attrs.persona) = attrs.persona
<1>1. opts.load_chroots = TRUE
  BY DEF ChildInv, SelectInv, Ordered, Accepted, Suits, ChildIsCalledFor, InTheChild, SessionActions
<1>2. find_personality(attrs.persona) # "none"
  BY <1>1 DEF ChildInv, SelectInv, ConfigSuits, InTheChild
<1> QED
  BY <1>2 DEF find_personality

\* No home of an account, and no caller's, is outside.
LEMMA HomesAreInside ==
  ASSUME ChildInv, pc \in InTheChild
  PROVE  user.home \notin Outside /\ HomeInside(callerenv) /\ argv.directory \notin Outside
<1>1. PICK i \in DOMAIN Passwd : user = Passwd[i]
  BY DEF ChildInv, UserIsAsked, InSession
<1>2. PICK j \in Inputs : argv = j.argv /\ callerenv = j.callerenv
  BY DEF ChildInv, SelectInv, Given
<1> QED
  BY <1>1, <1>2, PlaceAssumption DEF HomeInside

\* From the fork to setuid: nothing is said of the directory yet.
LEMMA EnterStep ==
  ASSUME ChildInv,
         SetEnvironment \/ SetGroups \/ SetPersonality \/ EnterChroot \/ SetUser
  PROVE  UserIsAsked' /\ ChildIsCalledFor' /\ ChildConfined' /\ ChildPlaced'
<1> USE DEF InTheChild
<1>1. CASE SetEnvironment
  <2> DEFINE env == ChildEnvironment(Preserve, attrs.filter, user, callerenv)
  <2>1. /\ pc = "child" /\ pc' = "groups" /\ child' = [child EXCEPT !.env = env]
        /\ UserIsAsked' /\ ChildIsCalledFor'
    BY <1>1, ChildStepFrame DEF SetEnvironment
  <2>2. HomeInside(env)
    BY <2>1, HomesAreInside, ChildHomeIsInside
  <2> HIDE DEF env
  <2>3. DOMAIN child = DOMAIN NoChild /\ child.dirs = <<>>
    BY <2>1 DEF ChildInv, ChildConfined, ChildPlaced
  <2>4. DOMAIN child' = DOMAIN NoChild /\ child'.dirs = <<>> /\ child'.env = env
    BY <2>1, <2>3 DEF NoChild
  <2>5. ChildConfined'
    BY <2>1, <2>4 DEF ChildConfined
  <2>6. ChildPlaced'
    BY <2>1, <2>2, <2>4 DEF ChildPlaced, HomeInside
  <2> QED
    BY <2>1, <2>5, <2>6
<1>2. CASE SetGroups
  <2>1. /\ pc = "groups" /\ pc' = "persona" /\ child' = [child EXCEPT !.groups = user.name]
        /\ user' = user /\ UserIsAsked' /\ ChildIsCalledFor'
    BY <1>2, ChildStepFrame DEF SetGroups
  <2>2. DOMAIN child = DOMAIN NoChild /\ child.dirs = <<>> /\ HomeInside(child.env)
    BY <2>1 DEF ChildInv, ChildConfined, ChildPlaced
  <2>3. /\ DOMAIN child' = DOMAIN NoChild /\ child'.dirs = <<>> /\ child'.env = child.env
        /\ child'.groups = user.name
    BY <2>1, <2>2 DEF NoChild
  <2>4. ChildConfined'
    BY <2>1, <2>3 DEF ChildConfined
  <2>5. ChildPlaced'
    BY <2>1, <2>2, <2>3 DEF ChildPlaced, HomeInside
  <2> QED
    BY <2>1, <2>4, <2>5
<1>3. CASE SetPersonality
  <2> DEFINE q == IF find_personality(attrs.persona) = "undefined" THEN child.persona
                  ELSE find_personality(attrs.persona)
  <2>1. /\ pc = "persona" /\ pc' = "enter" /\ child' = [child EXCEPT !.persona = q]
        /\ user' = user /\ attrs' = attrs /\ UserIsAsked' /\ ChildIsCalledFor'
    BY <1>3, ChildStepFrame DEF SetPersonality
  <2>2. attrs.persona # "undefined" => q = attrs.persona
    BY <2>1, PersonalityIsKnown
  <2> HIDE DEF q
  <2>3. /\ DOMAIN child = DOMAIN NoChild /\ child.dirs = <<>> /\ HomeInside(child.env)
        /\ child.groups = user.name
    BY <2>1 DEF ChildInv, ChildConfined, ChildPlaced
  <2>4. /\ DOMAIN child' = DOMAIN NoChild /\ child'.dirs = <<>> /\ child'.env = child.env
        /\ child'.groups = user.name /\ child'.persona = q
    BY <2>1, <2>3 DEF NoChild
  <2>5. ChildConfined'
    BY <2>1, <2>2, <2>4 DEF ChildConfined
  <2>6. ChildPlaced'
    BY <2>1, <2>3, <2>4 DEF ChildPlaced, HomeInside
  <2> QED
    BY <2>1, <2>5, <2>6
<1>4. CASE EnterChroot
  <2>1. /\ pc = "enter" /\ pc' = "user"
        /\ child' = [child EXCEPT !.root = "chroot", !.cwd = "location"]
        /\ user' = user /\ attrs' = attrs /\ UserIsAsked' /\ ChildIsCalledFor'
    BY <1>4, ChildStepFrame DEF EnterChroot
  <2>2. /\ DOMAIN child = DOMAIN NoChild /\ child.dirs = <<>> /\ HomeInside(child.env)
        /\ child.groups = user.name
        /\ attrs.persona # "undefined" => child.persona = attrs.persona
    BY <2>1 DEF ChildInv, ChildConfined, ChildPlaced
  <2>3. /\ DOMAIN child' = DOMAIN NoChild /\ child'.dirs = <<>> /\ child'.env = child.env
        /\ child'.groups = child.groups /\ child'.persona = child.persona
        /\ child'.root = "chroot"
    BY <2>1, <2>2 DEF NoChild
  <2>4. ChildConfined'
    BY <2>1, <2>2, <2>3 DEF ChildConfined
  <2>5. ChildPlaced'
    BY <2>1, <2>2, <2>3 DEF ChildPlaced, HomeInside
  <2> QED
    BY <2>1, <2>4, <2>5
<1>5. CASE SetUser
  <2>0. PICK saved \in {0, user.uid} :
          InChild("user", "root", [child EXCEPT !.uid = user.uid, !.saved = saved])
    BY <1>5 DEF SetUser
  <2>1. /\ pc = "user" /\ pc' = "root"
        /\ child' = [child EXCEPT !.uid = user.uid, !.saved = saved]
        /\ user' = user /\ attrs' = attrs /\ UserIsAsked' /\ ChildIsCalledFor'
    BY <2>0, ChildStepFrame
  <2>2. /\ DOMAIN child = DOMAIN NoChild /\ child.dirs = <<>> /\ HomeInside(child.env)
        /\ child.groups = user.name /\ child.root = "chroot"
        /\ attrs.persona # "undefined" => child.persona = attrs.persona
    BY <2>1 DEF ChildInv, ChildConfined, ChildPlaced
  <2>3. /\ DOMAIN child' = DOMAIN NoChild /\ child'.dirs = <<>> /\ child'.env = child.env
        /\ child'.groups = child.groups /\ child'.persona = child.persona
        /\ child'.root = child.root /\ child'.uid = user.uid /\ child'.saved = saved
    BY <2>1, <2>2 DEF NoChild
  <2>4. ChildConfined'
    BY <2>1, <2>2, <2>3 DEF ChildConfined
  <2>5. ChildPlaced'
    BY <2>1, <2>2, <2>3 DEF ChildPlaced, HomeInside
  <2> QED
    BY <2>1, <2>4, <2>5
<1> QED
  BY <1>1, <1>2, <1>3, <1>4, <1>5

\* The directories that are allowed are in place.
LEMMA AllowedIsInPlace ==
  ASSUME ChildInv, pc = "chdir", NEW dir \in AllowedDirs
  PROVE  InPlace(dir)
<1>1. user.home \notin Outside /\ HomeInside(child.env) /\ argv.directory \notin Outside
  BY HomesAreInside DEF ChildInv, ChildPlaced, InTheChild
<1>2. "/cwd" \notin Outside /\ "/" \notin Outside
  BY DEF Outside
<1> QED
  BY <1>1, <1>2 DEF AllowedDirs, InPlace, HomeInside

\* setuid (0) must fail before the child goes on.
LEMMA CheckRootStep ==
  ASSUME ChildInv, CheckRoot
  PROVE  UserIsAsked' /\ ChildIsCalledFor' /\ ChildConfined' /\ ChildPlaced'
<1>1. /\ pc = "root" /\ pc' = "chdir" /\ child' = child
      /\ user' = user /\ attrs' = attrs /\ UserIsAsked' /\ ChildIsCalledFor'
  BY ChildStepFrame DEF CheckRoot, InTheChild
<1>2. child.saved \in {0, user.uid} /\ (child.saved # 0 \/ user.uid = 0)
  BY <1>1 DEF CheckRoot, RootDropped, ChildInv, ChildConfined, InTheChild
<1>3. child.saved = user.uid
  BY <1>2
<1>4. ChildConfined'
  BY <1>1, <1>3 DEF ChildInv, ChildConfined, InTheChild
<1>5. HomeInside(child.env) /\ child.dirs = <<>>
  BY <1>1 DEF ChildInv, ChildPlaced, InTheChild
<1>6. child'.dirs \in Seq(AllowedDirs')
  BY <1>1, <1>5
<1>7. ChildPlaced'
  BY <1>1, <1>5, <1>6 DEF ChildPlaced, HomeInside
<1> QED
  BY <1>1, <1>4, <1>7

\* One turn of the loop over the directories.
LEMMA ChdirStep ==
  ASSUME ChildInv, Chdir
  PROVE  UserIsAsked' /\ ChildIsCalledFor' /\ ChildConfined' /\ ChildPlaced'
<1> USE DEF InTheChild
<1> DEFINE D == AllowedDirs
<1> DEFINE dirs == IF child.dirs = <<>> THEN Directories ELSE child.dirs
<1>1. \/ InChild("chdir", "command", [child EXCEPT !.cwd = Head(dirs), !.dirs = <<>>])
      \/ /\ Len(dirs) > 1
         /\ InChild("chdir", "chdir", [child EXCEPT !.dirs = Tail(dirs)])
  BY DEF Chdir
<1>2. pc = "chdir"
  BY DEF Chdir
<1>3. dirs \in Seq(D) /\ dirs # <<>>
  <2>1. argv.prog \in Programs
    BY GivenArgv DEF ChildInv, SelectInv
  <2>2. opts.directory = argv.directory /\ (argv.prog = "schroot" => opts.command = argv.command)
    BY <1>2 DEF ChildInv, SelectInv, Ordered, Accepted, Kept
  <2>3. Directories \in Seq(D) /\ Directories # <<>>
    BY <2>1, <2>2, DirectoriesAreAllowed
  <2>4. child.dirs \in Seq(D)
    BY <1>2 DEF ChildInv, ChildPlaced
  <2> QED
    BY <2>3, <2>4
<1>4. /\ DOMAIN child = DOMAIN NoChild /\ HomeInside(child.env)
      /\ child.groups = user.name /\ child.root = "chroot"
      /\ attrs.persona # "undefined" => child.persona = attrs.persona
      /\ child.uid = user.uid /\ child.saved = user.uid
  BY <1>2 DEF ChildInv, ChildConfined, ChildPlaced
<1>5. \A d \in D : InPlace(d)
  BY <1>2, AllowedIsInPlace
<1> HIDE DEF dirs, D
<1>6. CASE InChild("chdir", "command", [child EXCEPT !.cwd = Head(dirs), !.dirs = <<>>])
  <2>1. /\ pc' = "command" /\ child' = [child EXCEPT !.cwd = Head(dirs), !.dirs = <<>>]
        /\ user' = user /\ attrs' = attrs /\ argv' = argv /\ UserIsAsked' /\ ChildIsCalledFor'
    BY <1>6, ChildStepFrame
  <2>2. /\ DOMAIN child' = DOMAIN NoChild /\ child'.cwd = Head(dirs)
        /\ child'.groups = child.groups /\ child'.persona = child.persona
        /\ child'.root = child.root /\ child'.uid = child.uid /\ child'.saved = child.saved
    BY <2>1, <1>4 DEF NoChild
  <2>3. ChildConfined'
    BY <2>1, <2>2, <1>4 DEF ChildConfined
  <2>4. Head(dirs) \in D
    BY <1>3
  <2>5. InPlace(Head(dirs))
    BY <2>4, <1>5
  <2>6. ChildPlaced'
    BY <2>1, <2>2, <2>5 DEF ChildPlaced, InPlace
  <2> QED
    BY <2>1, <2>3, <2>6
<1>7. CASE /\ Len(dirs) > 1
           /\ InChild("chdir", "chdir", [child EXCEPT !.dirs = Tail(dirs)])
  <2>1. /\ pc' = "chdir" /\ child' = [child EXCEPT !.dirs = Tail(dirs)]
        /\ user' = user /\ attrs' = attrs /\ argv' = argv /\ UserIsAsked' /\ ChildIsCalledFor'
    BY <1>7, ChildStepFrame
  <2>2. /\ DOMAIN child' = DOMAIN NoChild /\ child'.dirs = Tail(dirs) /\ child'.env = child.env
        /\ child'.groups = child.groups /\ child'.persona = child.persona
        /\ child'.root = child.root /\ child'.uid = child.uid /\ child'.saved = child.saved
    BY <2>1, <1>4 DEF NoChild
  <2>3. ChildConfined'
    BY <2>1, <2>2, <1>4 DEF ChildConfined
  <2>4. Tail(dirs) \in Seq(D)
    BY <1>3
  <2>5. AllowedDirs' = D
    BY <2>1, <2>2 DEF AllowedDirs, D
  <2>6. child'.dirs \in Seq(AllowedDirs')
    BY <2>2, <2>4, <2>5
  <2>7. ChildPlaced'
    BY <2>1, <2>2, <2>6, <1>4 DEF ChildPlaced, HomeInside
  <2> QED
    BY <2>1, <2>3, <2>7
<1> QED
  BY <1>1, <1>6, <1>7

\* The command is found and executed in the directory entered.
LEMMA CommandStep ==
  ASSUME ChildInv, GetCommand \/ Exec
  PROVE  UserIsAsked' /\ ChildIsCalledFor' /\ ChildConfined' /\ ChildPlaced'
<1> USE DEF InTheChild
<1> DEFINE Found(new) == \E file, env : new = [child EXCEPT !.file = file, !.env = env]
<1>1. \/ \E new : Found(new) /\ InChild("command", "exec", new)
      \/ InChild("exec", "running", child)
  <2>1. CASE Exec
    BY <2>1 DEF Exec
  <2>2. CASE GetCommand
    BY <2>2 DEF GetCommand
  <2> QED
    BY <2>1, <2>2
<1>2. /\ pc \in {"command", "exec"} /\ pc' \in {"exec", "running"}
      /\ child' = child \/ Found(child')
      /\ user' = user /\ attrs' = attrs /\ argv' = argv /\ UserIsAsked' /\ ChildIsCalledFor'
  <2>1. CASE InChild("exec", "running", child)
    BY <2>1, ChildStepFrame
  <2>2. CASE \E new : Found(new) /\ InChild("command", "exec", new)
    <3>1. PICK new : Found(new) /\ InChild("command", "exec", new)
      BY <2>2
    <3>2. /\ pc = "command" /\ pc' = "exec" /\ child' = new
          /\ user' = user /\ attrs' = attrs /\ argv' = argv /\ UserIsAsked' /\ ChildIsCalledFor'
      BY <3>1, ChildStepFrame
    <3> HIDE DEF Found
    <3>3. Found(child')
      BY <3>1, <3>2
    <3> QED
      BY <3>2, <3>3
  <2> QED
    BY <1>1, <2>1, <2>2
<1>3. /\ DOMAIN child = DOMAIN NoChild /\ InPlace(child.cwd)
      /\ child.groups = user.name /\ child.root = "chroot"
      /\ attrs.persona # "undefined" => child.persona = attrs.persona
      /\ child.uid = user.uid /\ child.saved = user.uid
  BY <1>2 DEF ChildInv, ChildConfined, ChildPlaced
<1>4. /\ DOMAIN child' = DOMAIN NoChild /\ child'.cwd = child.cwd
      /\ child'.groups = child.groups /\ child'.persona = child.persona
      /\ child'.root = child.root /\ child'.uid = child.uid /\ child'.saved = child.saved
  BY <1>2, <1>3 DEF NoChild
<1>5. ChildConfined'
  BY <1>2, <1>3, <1>4 DEF ChildConfined
<1>6. ChildPlaced'
  BY <1>2, <1>3, <1>4 DEF ChildPlaced, InPlace
<1> QED
  BY <1>2, <1>5, <1>6

\* Every step keeps the parts about the child.
LEMMA ChildInvStep == ChildInv /\ [Next]_vars => ChildInv'
<1> SUFFICES ASSUME ChildInv, [Next]_vars
             PROVE  ChildInv'
  OBVIOUS
<1>1. SelectInv'
  BY SelectInvStep DEF ChildInv
<1>2. UserIsAsked' /\ ChildIsCalledFor' /\ ChildConfined' /\ ChildPlaced'
  <2>1. CASE Parse \/ load_config \/ get_chroot_options \/ Dispatch
    <3>1. pc' \in {"load", "select", "dispatch", "auth", "exited"}
      BY <2>1 DEF Parse, load_config, get_chroot_options, Dispatch, Show, Exit, Go
    <3>2. pc' \notin InSession \cup {"authenticate"}
      BY <3>1 DEF InSession, InTheChild
    <3> QED
      BY <3>2 DEF UserIsAsked, ChildIsCalledFor, ChildConfined, ChildPlaced, InSession
  <2>2. CASE AddSessionAuth
    <3>1. pc = "auth" /\ pc' \in {"authenticate", "exited"} /\ argv' = argv /\ caller' = caller
      BY <2>2 DEF AddSessionAuth, Exit, Go, inputs
    <3>2. opts.user = argv.user
      BY <3>1 DEF ChildInv, SelectInv, Ordered, Accepted, Kept
    <3>3. pc' = "authenticate" => user' = Asker /\ \E i \in DOMAIN Passwd : user' = Passwd[i]
      BY <2>2, <3>2, UserIsAsker
    <3>4. Asker' = Asker
      BY <3>1 DEF Asker
    <3>5. UserIsAsked'
      BY <3>1, <3>3, <3>4 DEF UserIsAsked, InSession, InTheChild
    <3>6. pc' \notin InTheChild
      BY <3>1 DEF InTheChild
    <3> QED
      BY <3>5, <3>6 DEF ChildIsCalledFor, ChildConfined, ChildPlaced
  <2>3. CASE \/ Authenticate \/ Finished \/ RefuseChroot \/ RefuseData \/ SetUpChroot
             \/ SetupScriptsEnd \/ ChildFails \/ Wait
    <3>1. /\ pc \in InSession \cup {"authenticate"} /\ UNCHANGED <<inputs, auth>>
          /\ pc' \in {"chroot", "exited", "aborted", "scripts", "setup", "reap"}
      BY <2>3 DEF Authenticate, Finished, RefuseChroot, RefuseData, SetUpChroot, SetupScriptsEnd,
                  ChildFails, Wait, Exit, Go, InSession, InTheChild
    <3>2. UserIsAsked'
      BY <3>1, UserKept DEF ChildInv
    <3>3. pc' \notin InTheChild
      BY <3>1 DEF InTheChild
    <3> QED
      BY <3>2, <3>3 DEF ChildIsCalledFor, ChildConfined, ChildPlaced
  <2>4. CASE RunChroot
    <3>1. /\ pc = "setup" /\ UNCHANGED <<inputs, auth>> /\ opts' = opts
          /\ \/ /\ pc' = "child" /\ child' = NoChild
                /\ get_action(opts) \in {"session_auto", "session_run"}
             \/ pc' = "chroot"
      BY <2>4 DEF RunChroot, selection
    <3>2. UserIsAsked'
      BY <3>1, UserKept DEF ChildInv, InSession
    <3>3. CASE pc' = "child"
      <4>0. HomeInside(Empty)
        BY DEF HomeInside, Empty
      <4>1. child' = NoChild
        BY <3>1, <3>3
      <4>2. NoChild.dirs = <<>> /\ NoChild.env = Empty
        BY DEF NoChild
      <4>3. ChildIsCalledFor' /\ ChildConfined'
        BY <3>1, <3>3, <4>1 DEF ChildIsCalledFor, ChildConfined
      <4>4. ChildPlaced'
        BY <3>3, <4>0, <4>1, <4>2 DEF ChildPlaced, HomeInside
      <4> QED
        BY <3>2, <4>3, <4>4
    <3>4. CASE pc' = "chroot"
      BY <3>2, <3>4 DEF ChildIsCalledFor, ChildConfined, ChildPlaced, InTheChild
    <3> QED
      BY <3>1, <3>3, <3>4
  <2>5. CASE UNCHANGED vars
    <3>1. /\ pc' = pc /\ child' = child /\ opts' = opts /\ argv' = argv /\ attrs' = attrs
          /\ user' = user /\ UNCHANGED <<inputs, auth>>
      BY <2>5 DEF vars, inputs, auth
    <3>2. UserIsAsked'
      BY <3>1, UserKept DEF ChildInv
    <3>3. ChildIsCalledFor' /\ ChildConfined'
      BY <3>1 DEF ChildInv, ChildIsCalledFor, ChildConfined
    <3>4. AllowedDirs' = AllowedDirs
      BY <3>1 DEF AllowedDirs
    <3>5. ChildPlaced'
      BY <3>1, <3>4 DEF ChildInv, ChildPlaced, HomeInside, InPlace
    <3> QED
      BY <3>2, <3>3, <3>5
  <2> QED
    BY <2>1, <2>2, <2>3, <2>4, <2>5, EnterStep, CheckRootStep, ChdirStep, CommandStep DEF Next
<1> QED
  BY <1>1, <1>2 DEF ChildInv

\* The parts about the child hold throughout.
LEMMA ChildInvHolds == Spec => []ChildInv
<1>1. SelectInv /\ Init => ChildInv
  BY DEF Init, ChildInv, UserIsAsked, ChildIsCalledFor, ChildConfined, ChildPlaced, InSession,
         InTheChild
<1>2. Spec => SelectInv
  BY SelectInvHolds, PTL
<1> QED
  BY <1>1, <1>2, ChildInvStep, PTL DEF Spec

\* For every command line, user database and environment: what is executed runs
\* as the account asked for with no way back to root, inside the chroot, under
\* its personality and in the directory schroot(1) promises.
THEOREM ExecutionIsConfined == Spec => []ExecConfined
<1>1. ChildInv => ExecConfined
  <2> SUFFICES ASSUME ChildInv, pc = "running"
               PROVE  ExecConfined
    BY DEF ExecConfined
  <2>1. user = Asker
    BY DEF ChildInv, UserIsAsked, InSession, InTheChild
  <2>2. /\ child.groups = user.name /\ child.root = "chroot"
        /\ attrs.persona # "undefined" => child.persona = attrs.persona
        /\ child.uid = user.uid /\ child.saved = user.uid
    BY DEF ChildInv, ChildConfined, InTheChild
  <2>3. InPlace(child.cwd)
    BY DEF ChildInv, ChildPlaced, InTheChild
  <2> QED
    BY <2>1, <2>2, <2>3 DEF ExecConfined, InPlace
<1> QED
  BY <1>1, ChildInvHolds, PTL

(***************************************************************************)
(* With what environment it runs.                                          *)
(***************************************************************************)
\* The values that are not the caller's.
Values == Origins(argv.shell, attrs.default_shell)

Elsewhere(env) == \A k \in DOMAIN env : k # "TERM" => env[k] \in Values
PathElsewhere(env) == "PATH" \in DOMAIN env => env["PATH"] \in Values

\* Environments that are from elsewhere give one that is.
LEMMA AddIsElsewhere ==
  ASSUME NEW e, NEW f, NEW filter
  PROVE  /\ Elsewhere(e) /\ Elsewhere(f) => Elsewhere(Over(e, f)) /\ Elsewhere(add(e, filter, f))
         /\ PathElsewhere(e) /\ PathElsewhere(f) => PathElsewhere(add(e, filter, f))
<1>1. Elsewhere(e) /\ Elsewhere(f) => Elsewhere(Over(e, f))
  BY DEF Elsewhere, Over
<1>2. Elsewhere(e) /\ Elsewhere(f) => Elsewhere(add(e, filter, f))
  BY DEF Elsewhere, Over, add, remove
<1>3. PathElsewhere(e) /\ PathElsewhere(f) => PathElsewhere(add(e, filter, f))
  BY DEF PathElsewhere, Over, add, remove
<1> QED
  BY <1>1, <1>2, <1>3

\* The filter keeps out what it matches.
LEMMA AddIsFiltered ==
  ASSUME NEW e, NEW f, NEW filter, DOMAIN e \cap filter = {}
  PROVE  DOMAIN add(e, filter, f) \cap filter = {}
  BY DEF Over, add, remove

\* What an account's entry says, and what is written in the code, is from
\* elsewhere.
LEMMA KnownValues ==
  /\ \A i \in DOMAIN Passwd : {Passwd[i].name, Passwd[i].home, Passwd[i].shell} \subseteq Values
  /\ {"root-path", "sane-path", "/", "command", "session", "prefix", "as-given",
      "working-directory", "/bin/bash", "/bin/sh", argv.shell, attrs.default_shell} \subseteq Values
  /\ \A k \in DOMAIN PamEnvironment : PamEnvironment[k] \in Values
  BY DEF Values, Origins

\* get_auth_environment, for an account there is.
LEMMA AuthIsElsewhere ==
  ASSUME NEW i \in DOMAIN Passwd, NEW u, u = Passwd[i]
  PROVE  /\ Elsewhere(get_auth_environment(u, callerenv))
         /\ PathElsewhere(get_auth_environment(u, callerenv))
<1> DEFINE own == [PATH |-> IF u.uid = 0 THEN "root-path" ELSE "sane-path",
                   HOME |-> IF u.home = "" THEN "/" ELSE u.home,
                   USER |-> u.name, LOGNAME |-> u.name]
<1> DEFINE term == IF "TERM" \in DOMAIN callerenv THEN [TERM |-> callerenv["TERM"]] ELSE Empty
<1> DEFINE shell == IF u.shell = "" THEN Empty ELSE [SHELL |-> u.shell]
<1>1. get_minimal_environment(u, callerenv) = Over(own, Over(term, shell))
  BY DEF get_minimal_environment
<1>2. u.name \in Values /\ u.home \in Values /\ u.shell \in Values
  BY KnownValues
<1>3. "root-path" \in Values /\ "sane-path" \in Values /\ "/" \in Values
  BY KnownValues
<1>4. Elsewhere(own)
  <2>1. /\ DOMAIN own = {"PATH", "HOME", "USER", "LOGNAME"}
        /\ own["PATH"] = IF u.uid = 0 THEN "root-path" ELSE "sane-path"
        /\ own["HOME"] = IF u.home = "" THEN "/" ELSE u.home
        /\ own["USER"] = u.name /\ own["LOGNAME"] = u.name
    OBVIOUS
  <2> HIDE DEF own
  <2>2. own["PATH"] \in Values /\ own["HOME"] \in Values
    BY <1>2, <1>3, <2>1
  <2> QED
    BY <1>2, <2>1, <2>2 DEF Elsewhere
<1>5. Elsewhere(term) /\ Elsewhere(shell)
  <2>1. DOMAIN Empty = {}
    BY DEF Empty
  <2>2. DOMAIN term \subseteq {"TERM"}
    BY <2>1
  <2>3. DOMAIN shell = {} \/ (DOMAIN shell = {"SHELL"} /\ shell["SHELL"] = u.shell)
    BY <2>1
  <2> HIDE DEF term, shell
  <2> QED
    BY <1>2, <2>2, <2>3 DEF Elsewhere
<1>6. Elsewhere(PamEnvironment)
  BY KnownValues DEF Elsewhere
<1> HIDE DEF own, term, shell
<1>7. Elsewhere(Over(own, Over(term, shell)))
  BY <1>4, <1>5, AddIsElsewhere
<1>8. Elsewhere(get_auth_environment(u, callerenv))
  BY <1>1, <1>6, <1>7, AddIsElsewhere DEF get_auth_environment
<1> QED
  BY <1>8 DEF Elsewhere, PathElsewhere

\* get_complete_environment: root's PATH is not the caller's, and SHELL may be.
LEMMA CompleteIsKnown ==
  ASSUME NEW i \in DOMAIN Passwd, NEW u, u = Passwd[i]
  PROVE  LET complete == get_complete_environment(u, callerenv)
         IN  /\ u.uid = 0 => PathElsewhere(complete)
             /\ "SHELL" \in DOMAIN complete =>
                  \/ complete["SHELL"] \in Values
                  \/ "SHELL" \in DOMAIN callerenv /\ complete["SHELL"] = callerenv["SHELL"]
<1> DEFINE base == get_auth_environment(u, callerenv)
<1> DEFINE more == IF u.uid = 0 THEN remove(callerenv, {"PATH"}) ELSE callerenv
<1> DEFINE complete == get_complete_environment(u, callerenv)
<1>1. Elsewhere(base) /\ PathElsewhere(base)
  BY AuthIsElsewhere
<1>2. u.uid = 0 => PathElsewhere(more)
  BY DEF PathElsewhere, remove
<1>3. "SHELL" \in DOMAIN more => "SHELL" \in DOMAIN callerenv /\ more["SHELL"] = callerenv["SHELL"]
  BY DEF remove
<1>4. complete = add(base, {}, more)
  BY DEF get_complete_environment
<1> HIDE DEF base, more, complete
<1>5. u.uid = 0 => PathElsewhere(complete)
  BY <1>1, <1>2, <1>4, AddIsElsewhere
<1>6. "SHELL" \in DOMAIN complete =>
        \/ complete["SHELL"] \in Values
        \/ "SHELL" \in DOMAIN callerenv /\ complete["SHELL"] = callerenv["SHELL"]
  BY <1>1, <1>3, <1>4 DEF add, Over, remove, Elsewhere
<1> QED
  BY <1>5, <1>6 DEF complete

\* The first lines of run_child.
LEMMA ChildEnvironmentIsClean ==
  ASSUME NEW i \in DOMAIN Passwd, NEW u, u = Passwd[i], NEW preserve \in BOOLEAN, NEW filter
  PROVE  LET env == ChildEnvironment(preserve, filter, u, callerenv)
         IN  /\ DOMAIN env \cap filter = {}
             /\ u.uid = 0 => PathElsewhere(env)
             /\ ~preserve => Elsewhere(env)
<1> DEFINE X == IF preserve THEN get_complete_environment(u, callerenv)
                ELSE get_auth_environment(u, callerenv)
<1> DEFINE env == ChildEnvironment(preserve, filter, u, callerenv)
<1>1. env = add(Empty, filter, X)
  BY DEF ChildEnvironment
<1>2. (u.uid = 0 => PathElsewhere(X)) /\ (~preserve => Elsewhere(X))
  BY AuthIsElsewhere, CompleteIsKnown
<1> HIDE DEF X, env
<1>3. DOMAIN Empty = {}
  BY DEF Empty
<1>4. Elsewhere(Empty) /\ PathElsewhere(Empty)
  BY <1>3 DEF Elsewhere, PathElsewhere
<1>5. DOMAIN env \cap filter = {}
  BY <1>1, <1>3, AddIsFiltered
<1>6. (u.uid = 0 => PathElsewhere(env)) /\ (~preserve => Elsewhere(env))
  BY <1>1, <1>2, <1>4, AddIsElsewhere
<1> QED
  BY <1>5, <1>6 DEF env

\* get_shell returns one of the shells it is given.
LEMMA ShellIsGiven ==
  ASSUME NEW S, NEW shells \in Seq(S), shells # <<>>, NEW existing
  PROVE  get_shell(shells, existing) \in S
<1> DEFINE found == {i \in DOMAIN shells : shells[i] \in existing}
<1>1. get_shell(shells, existing) = IF found = {} THEN shells[Len(shells)]
                                    ELSE shells[CHOOSE i \in found : \A j \in found : i <= j]
  BY DEF get_shell
<1>2. CASE found = {}
  <2>1. Len(shells) \in DOMAIN shells
    OBVIOUS
  <2> QED
    BY <1>1, <1>2, <2>1
<1>3. CASE found # {}
  <2>1. found \in SUBSET Nat
    OBVIOUS
  <2>2. \E i \in found : \A j \in found : i <= j
    BY <1>3, <2>1, SmallestExists
  <2> DEFINE m == CHOOSE i \in found : \A j \in found : i <= j
  <2>3. m \in found
    BY <2>2
  <2>4. m \in DOMAIN shells
    BY <2>3
  <2> QED
    BY <1>1, <1>3, <2>4
<1> QED
  BY <1>2, <1>3

\* The shells are from elsewhere, but for $SHELL with --preserve-environment.
LEMMA ShellIsKnown ==
  ASSUME NEW i \in DOMAIN Passwd, user = Passwd[i], opts.shell = argv.shell, NEW existing
  PROVE  LET shell == get_shell(get_shells(opts.shell, attrs.default_shell, opts.preserve,
                                           user, callerenv), existing)
         IN  \/ shell \in Values
             \/ opts.preserve /\ "SHELL" \in DOMAIN callerenv /\ shell = callerenv["SHELL"]
<1> DEFINE complete == get_complete_environment(user, callerenv)
<1> DEFINE S == Values \cup (IF opts.preserve /\ "SHELL" \in DOMAIN complete
                             THEN {complete["SHELL"]} ELSE {})
<1> DEFINE shells == get_shells(opts.shell, attrs.default_shell, opts.preserve, user, callerenv)
<1> DEFINE env == IF opts.preserve /\ "SHELL" \in DOMAIN complete THEN <<complete["SHELL"]>> ELSE <<>>
<1> DEFINE passwd == IF user.shell = "" THEN env ELSE Append(env, user.shell)
<1>1. shells = IF argv.shell # "" THEN <<argv.shell>>
               ELSE IF attrs.default_shell # "" THEN <<attrs.default_shell>>
               ELSE PushNew(PushNew(passwd, "/bin/bash"), "/bin/sh")
  BY DEF get_shells
<1>2. /\ "SHELL" \in DOMAIN complete =>
           \/ complete["SHELL"] \in Values
           \/ "SHELL" \in DOMAIN callerenv /\ complete["SHELL"] = callerenv["SHELL"]
  BY CompleteIsKnown
<1>3. {user.shell, "/bin/bash", "/bin/sh", argv.shell, attrs.default_shell} \subseteq S
  BY KnownValues
<1>4. opts.preserve /\ "SHELL" \in DOMAIN complete => complete["SHELL"] \in S
  OBVIOUS
<1>5. \A v \in S : v \in Values \/ /\ opts.preserve /\ "SHELL" \in DOMAIN complete
                                   /\ v = complete["SHELL"]
  OBVIOUS
<1> HIDE DEF S, complete, shells
<1>6. env \in Seq(S)
  BY <1>4
<1> HIDE DEF env
<1>7. passwd \in Seq(S)
  <2>1. user.shell \in S
    BY <1>3
  <2>2. Append(env, user.shell) \in Seq(S)
    BY <1>6, <2>1
  <2> QED
    BY <1>6, <2>2
<1> HIDE DEF passwd
<1> DEFINE bash == PushNew(passwd, "/bin/bash")
<1>8. bash \in Seq(S)
  BY <1>3, <1>7, PushNewIsList
<1> HIDE DEF bash
<1>9. PushNew(bash, "/bin/sh") \in Seq(S) /\ PushNew(bash, "/bin/sh") # <<>>
  BY <1>3, <1>8, PushNewIsList
<1>10. shells \in Seq(S) /\ shells # <<>>
  <2>1. /\ <<argv.shell>> \in Seq(S) /\ <<argv.shell>> # <<>>
        /\ <<attrs.default_shell>> \in Seq(S) /\ <<attrs.default_shell>> # <<>>
    BY <1>3
  <2> QED
    BY <1>1, <1>9, <2>1 DEF bash
<1>11. get_shell(shells, existing) \in S
  BY <1>10, ShellIsGiven
<1> QED
  BY <1>2, <1>5, <1>11 DEF shells

\* From the look-up on, the caller has an account.
CallerIsKnown ==
    pc \in InSession \cup {"authenticate"} =>
      ruser.uid = caller /\ \E i \in DOMAIN Passwd : ruser = Passwd[i]

\* The environment of the child, and the program it is going to execute.
ChildIsClean ==
    pc \in InTheChild \ {"child"} =>
      /\ DOMAIN child.env \cap attrs.filter = {}
      /\ user.uid = 0 => PathElsewhere(child.env)
      /\ ~Preserve => Elsewhere(child.env)
      /\ pc \in {"exec", "running"} /\ user.uid = 0 =>
           child.file \in Values \cup {callerenv[k] : k \in DOMAIN callerenv \ {"PATH"}}

CleanInv == ChildInv /\ CallerIsKnown /\ ChildIsClean

\* add_session_auth goes on only with an account for the caller.
LEMMA CallerIsFound ==
  ASSUME AddSessionAuth, pc' = "authenticate"
  PROVE  ruser'.uid = caller /\ \E i \in DOMAIN Passwd : ruser' = Passwd[i]
<1> DEFINE G == {i \in DOMAIN Passwd : Passwd[i].uid = caller}
<1>1. ruser' = set_ruser(Passwd, Groups, caller) /\ ruser' # NoUser
  BY DEF AddSessionAuth, Exit, Go
<1>2. ruser' = query(Passwd, G)
  BY <1>1 DEF set_ruser, query_uid
<1>3. \E i \in G : query(Passwd, G) = Passwd[i] /\ \A j \in G : i <= j
  BY <1>1, <1>2, QueryIsFirst
<1> QED
  BY <1>2, <1>3

\* A step that leaves the inputs, the child's environment and its program alone.
LEMMA CleanKept ==
  ASSUME CleanInv, pc' \in InTheChild \ {"child"}, pc \in InTheChild \ {"child"},
         pc' \in {"exec", "running"} => pc \in {"exec", "running"},
         argv' = argv, attrs' = attrs, user' = user, opts' = opts, callerenv' = callerenv,
         child'.env = child.env, child'.file = child.file
  PROVE  ChildIsClean'
<1>1. Values' = Values /\ Preserve' = Preserve
  BY DEF Values, Origins, Preserve
<1>2. (PathElsewhere(child.env))' <=> PathElsewhere(child.env)
  BY <1>1 DEF PathElsewhere
<1>3. (Elsewhere(child.env))' <=> Elsewhere(child.env)
  BY <1>1 DEF Elsewhere
<1> QED
  BY <1>1, <1>2, <1>3 DEF CleanInv, ChildIsClean

\* The first lines of run_child.
LEMMA CleanSetEnvironment ==
  ASSUME CleanInv, SetEnvironment
  PROVE  ChildIsClean'
<1> DEFINE env == ChildEnvironment(Preserve, attrs.filter, user, callerenv)
<1>1. /\ pc = "child" /\ pc' = "groups" /\ child' = [child EXCEPT !.env = env]
      /\ argv' = argv /\ attrs' = attrs /\ user' = user /\ opts' = opts /\ callerenv' = callerenv
  BY ChildStepFrame DEF SetEnvironment, CleanInv, InTheChild
<1>2. PICK i \in DOMAIN Passwd : user = Passwd[i]
  BY <1>1 DEF CleanInv, ChildInv, UserIsAsked, InSession, InTheChild
<1>3. Preserve \in BOOLEAN
  BY DEF Preserve
<1>4. /\ DOMAIN env \cap attrs.filter = {}
      /\ user.uid = 0 => PathElsewhere(env)
      /\ ~Preserve => Elsewhere(env)
  BY <1>2, <1>3, ChildEnvironmentIsClean
<1> HIDE DEF env
<1>5. DOMAIN child = DOMAIN NoChild
  BY <1>1 DEF CleanInv, ChildInv, ChildConfined, InTheChild
<1>6. child'.env = env
  BY <1>1, <1>5 DEF NoChild
<1>7. Values' = Values /\ Preserve' = Preserve
  BY <1>1 DEF Values, Origins, Preserve
<1>8. (user.uid = 0 => PathElsewhere(child.env))'
  BY <1>1, <1>4, <1>6, <1>7 DEF PathElsewhere
<1>9. (~Preserve => Elsewhere(child.env))'
  BY <1>4, <1>6, <1>7 DEF Elsewhere
<1>10. (DOMAIN child.env \cap attrs.filter = {})'
  BY <1>1, <1>4, <1>6
<1> QED
  BY <1>1, <1>8, <1>9, <1>10 DEF ChildIsClean

\* The steps between, which have nothing to do with the environment.
LEMMA CleanBetween ==
  ASSUME CleanInv,
         SetGroups \/ SetPersonality \/ EnterChroot \/ SetUser \/ CheckRoot \/ Chdir \/ Exec
  PROVE  ChildIsClean'
<1> USE DEF InTheChild
<1> DEFINE Frame == /\ pc \in InTheChild \ {"child"} /\ pc' \in InTheChild \ {"child"}
                    /\ pc' \in {"exec", "running"} => pc \in {"exec", "running"}
                    /\ argv' = argv /\ attrs' = attrs /\ user' = user /\ opts' = opts
                    /\ callerenv' = callerenv
<1>0. ChildInv
  BY DEF CleanInv
<1>d. pc \in InTheChild => DOMAIN child = DOMAIN NoChild
  BY <1>0 DEF ChildInv, ChildConfined
<1>1. CASE SetGroups
  <2>1. Frame /\ child' = [child EXCEPT !.groups = user.name]
    BY <1>0, <1>1, ChildStepFrame DEF SetGroups
  <2>2. child'.env = child.env /\ child'.file = child.file
    BY <2>1, <1>d DEF NoChild
  <2> QED
    BY <2>1, <2>2, CleanKept
<1>2. CASE SetPersonality
  <2>1. Frame /\ \E q : child' = [child EXCEPT !.persona = q]
    BY <1>0, <1>2, ChildStepFrame DEF SetPersonality
  <2>2. child'.env = child.env /\ child'.file = child.file
    BY <2>1, <1>d DEF NoChild
  <2> QED
    BY <2>1, <2>2, CleanKept
<1>3. CASE EnterChroot
  <2>1. Frame /\ child' = [child EXCEPT !.root = "chroot", !.cwd = "location"]
    BY <1>0, <1>3, ChildStepFrame DEF EnterChroot
  <2>2. child'.env = child.env /\ child'.file = child.file
    BY <2>1, <1>d DEF NoChild
  <2> QED
    BY <2>1, <2>2, CleanKept
<1>4. CASE SetUser
  <2>0. PICK saved \in {0, user.uid} :
          InChild("user", "root", [child EXCEPT !.uid = user.uid, !.saved = saved])
    BY <1>4 DEF SetUser
  <2>1. Frame /\ child' = [child EXCEPT !.uid = user.uid, !.saved = saved]
    BY <1>0, <2>0, ChildStepFrame
  <2>2. child'.env = child.env /\ child'.file = child.file
    BY <2>1, <1>d DEF NoChild
  <2> QED
    BY <2>1, <2>2, CleanKept
<1>5. CASE CheckRoot
  <2>1. Frame /\ child' = child
    BY <1>0, <1>5, ChildStepFrame DEF CheckRoot
  <2> QED
    BY <2>1, CleanKept
<1>6. CASE Exec
  <2>1. Frame /\ child' = child
    BY <1>0, <1>6, ChildStepFrame DEF Exec
  <2> QED
    BY <2>1, CleanKept
<1>7. CASE Chdir
  <2>0. \/ \E d : InChild("chdir", "command", [child EXCEPT !.cwd = d, !.dirs = <<>>])
        \/ \E ds : InChild("chdir", "chdir", [child EXCEPT !.dirs = ds])
    BY <1>7 DEF Chdir
  <2>1. CASE \E d : InChild("chdir", "command", [child EXCEPT !.cwd = d, !.dirs = <<>>])
    <3>0. PICK d : InChild("chdir", "command", [child EXCEPT !.cwd = d, !.dirs = <<>>])
      BY <2>1
    <3>1. Frame /\ child' = [child EXCEPT !.cwd = d, !.dirs = <<>>]
      BY <1>0, <3>0, ChildStepFrame
    <3>2. child'.env = child.env /\ child'.file = child.file
      BY <3>1, <1>d DEF NoChild
    <3> QED
      BY <3>1, <3>2, CleanKept
  <2>2. CASE \E ds : InChild("chdir", "chdir", [child EXCEPT !.dirs = ds])
    <3>0. PICK ds : InChild("chdir", "chdir", [child EXCEPT !.dirs = ds])
      BY <2>2
    <3>1. Frame /\ child' = [child EXCEPT !.dirs = ds]
      BY <1>0, <3>0, ChildStepFrame
    <3>2. child'.env = child.env /\ child'.file = child.file
      BY <3>1, <1>d DEF NoChild
    <3> QED
      BY <3>1, <3>2, CleanKept
  <2> QED
    BY <2>0, <2>1, <2>2
<1> QED
  BY <1>1, <1>2, <1>3, <1>4, <1>5, <1>6, <1>7

\* get_command and the variables that run_child adds after it.
LEMMA CleanCommand ==
  ASSUME CleanInv, GetCommand
  PROVE  ChildIsClean'
<1> USE DEF InTheChild
<1>0. ChildInv /\ pc = "command"
  BY DEF CleanInv, GetCommand
<1>1. PICK u \in DOMAIN Passwd : user = Passwd[u]
  BY <1>0 DEF ChildInv, UserIsAsked, InSession
<1>2. PICK r \in DOMAIN Passwd : ruser = Passwd[r]
  BY <1>0 DEF CleanInv, CallerIsKnown, InSession
<1>3. opts.shell = argv.shell /\ DOMAIN child = DOMAIN NoChild
  BY <1>0 DEF ChildInv, ChildConfined, SelectInv, Ordered, Accepted, Kept
<1>4. /\ DOMAIN child.env \cap attrs.filter = {}
      /\ user.uid = 0 => PathElsewhere(child.env)
      /\ ~Preserve => Elsewhere(child.env)
  BY <1>0 DEF CleanInv, ChildIsClean
<1> DEFINE Good(e) == /\ DOMAIN e \cap attrs.filter = {}
                      /\ user.uid = 0 => PathElsewhere(e)
                      /\ ~Preserve => Elsewhere(e)
<1> DEFINE Files == Values \cup {callerenv[k] : k \in DOMAIN callerenv \ {"PATH"}}
<1>5. \A e : Good(e) => Good(SchrootVariables(e, attrs.filter, ruser, "session"))
  <2> SUFFICES ASSUME NEW e, Good(e)
               PROVE  Good(SchrootVariables(e, attrs.filter, ruser, "session"))
    OBVIOUS
  <2> DEFINE more == [SCHROOT_COMMAND |-> "command", SCHROOT_USER |-> ruser.name,
                      SCHROOT_UID |-> ruser.name, SCHROOT_SESSION_ID |-> "session"]
  <2>1. SchrootVariables(e, attrs.filter, ruser, "session") = add(e, attrs.filter, more)
    BY DEF SchrootVariables
  <2>2. "command" \in Values /\ "session" \in Values /\ ruser.name \in Values
    BY <1>2, KnownValues
  <2>3. /\ DOMAIN more = {"SCHROOT_COMMAND", "SCHROOT_USER", "SCHROOT_UID", "SCHROOT_SESSION_ID"}
        /\ more["SCHROOT_COMMAND"] = "command" /\ more["SCHROOT_USER"] = ruser.name
        /\ more["SCHROOT_UID"] = ruser.name /\ more["SCHROOT_SESSION_ID"] = "session"
    OBVIOUS
  <2> HIDE DEF more
  <2>4. Elsewhere(more) /\ PathElsewhere(more)
    BY <2>2, <2>3 DEF Elsewhere, PathElsewhere
  <2>5. DOMAIN add(e, attrs.filter, more) \cap attrs.filter = {}
    BY AddIsFiltered
  <2> QED
    BY <2>1, <2>4, <2>5, AddIsElsewhere
<1>6. PICK file, env : /\ InChild("command", "exec", [child EXCEPT !.file = file, !.env = env])
                       /\ Good(env) /\ (user.uid = 0 => file \in Files)
  <2>p. "prefix" \in Files
    BY KnownValues
  <2>1. CASE login(opts.command)
    <3> DEFINE shells == get_shells(opts.shell, attrs.default_shell, opts.preserve,
                                    user, callerenv)
    <3>1. PICK existing : 
            LET shell == get_shell(shells, existing)
            IN InChild("command", "exec", [child EXCEPT
                 !.file = IF attrs.prefix THEN "prefix" ELSE shell,
                 !.env = SchrootVariables(add(child.env, attrs.filter, [SHELL |-> shell]),
                                          attrs.filter, ruser, "session")])
      BY <2>1 DEF GetCommand
    <3> DEFINE shell == get_shell(shells, existing)
    <3>2. \/ shell \in Values
          \/ opts.preserve /\ "SHELL" \in DOMAIN callerenv /\ shell = callerenv["SHELL"]
      BY <1>1, <1>3, ShellIsKnown
    <3> HIDE DEF shells
    <3> DEFINE file == IF attrs.prefix THEN "prefix" ELSE shell
    <3> DEFINE own == [SHELL |-> shell]
    <3> DEFINE base == add(child.env, attrs.filter, own)
    <3> DEFINE env == SchrootVariables(base, attrs.filter, ruser, "session")
    <3>3. InChild("command", "exec", [child EXCEPT !.file = file, !.env = env])
      BY <3>1
    <3>4. shell \in Files
      BY <3>2
    <3>5. file \in Files
      BY <3>4, <2>p
    <3>6. DOMAIN own = {"SHELL"} /\ own["SHELL"] = shell
      OBVIOUS
    <3> HIDE DEF shell, own
    <3>7. PathElsewhere(own) /\ (~Preserve => Elsewhere(own))
      BY <3>2, <3>6 DEF PathElsewhere, Elsewhere, Preserve
    <3>8. DOMAIN base \cap attrs.filter = {}
      BY <1>4, AddIsFiltered
    <3>9. Good(base)
      BY <1>4, <3>7, <3>8, AddIsElsewhere
    <3> HIDE DEF base
    <3>10. Good(env)
      BY <1>5, <3>9
    <3> HIDE DEF file, env, Good, Files
    <3> QED
      BY <3>3, <3>5, <3>10
  <2>2. CASE ~login(opts.command)
    <3>1. PICK inpath \in BOOLEAN :
            LET found == get_user_command(argv.prog, opts.command, child.env, inpath)
            IN /\ found # ""
               /\ InChild("command", "exec", [child EXCEPT
                    !.file = IF attrs.prefix THEN "prefix" ELSE found,
                    !.env = SchrootVariables(child.env, attrs.filter, ruser, "session")])
      BY <2>2 DEF GetCommand
    <3> DEFINE found == get_user_command(argv.prog, opts.command, child.env, inpath)
    <3> DEFINE file == IF attrs.prefix THEN "prefix" ELSE found
    <3> DEFINE env == SchrootVariables(child.env, attrs.filter, ruser, "session")
    <3>2. argv.prog \in Programs
      BY <1>0, GivenArgv DEF ChildInv, SelectInv
    <3>3. \/ found \in {"as-given", "working-directory", "/bin/sh"}
          \/ "PATH" \in DOMAIN child.env /\ found = child.env["PATH"]
      BY <3>1, <3>2 DEF get_user_command, find_program, dchroot_user_command,
                        dchroot_dsa_user_command, Programs
    <3>4. InChild("command", "exec", [child EXCEPT !.file = file, !.env = env])
      BY <3>1
    <3> HIDE DEF found
    <3>5. user.uid = 0 => found \in Values
      BY <1>4, <3>3, KnownValues DEF PathElsewhere
    <3>6. user.uid = 0 => file \in Files
      BY <3>5, <2>p
    <3>7. Good(env)
      BY <1>4, <1>5
    <3> HIDE DEF file, env, Good, Files
    <3> QED
      BY <3>4, <3>6, <3>7
  <2> QED
    BY <2>1, <2>2
<1>7. /\ pc' = "exec" /\ child' = [child EXCEPT !.file = file, !.env = env]
      /\ argv' = argv /\ attrs' = attrs /\ user' = user /\ opts' = opts /\ callerenv' = callerenv
  BY <1>0, <1>6, ChildStepFrame
<1>8. child'.env = env /\ child'.file = file
  BY <1>3, <1>7 DEF NoChild
<1>9. Values' = Values /\ Preserve' = Preserve
  BY <1>7 DEF Values, Origins, Preserve
<1>10. (user.uid = 0 => PathElsewhere(child.env))'
  BY <1>6, <1>7, <1>8, <1>9 DEF PathElsewhere
<1>11. (~Preserve => Elsewhere(child.env))'
  BY <1>6, <1>8, <1>9 DEF Elsewhere
<1>12. (DOMAIN child.env \cap attrs.filter = {})'
  BY <1>6, <1>7, <1>8
<1>13. user'.uid = 0 =>
         child'.file \in Values' \cup {callerenv'[k] : k \in DOMAIN callerenv' \ {"PATH"}}
  BY <1>6, <1>7, <1>8, <1>9
<1> QED
  BY <1>10, <1>11, <1>12, <1>13 DEF ChildIsClean

\* Every step keeps the environment clean.
LEMMA CleanInvStep == CleanInv /\ [Next]_vars => CleanInv'
<1> SUFFICES ASSUME CleanInv, [Next]_vars
             PROVE  CleanInv'
  OBVIOUS
<1>1. ChildInv'
  BY ChildInvStep DEF CleanInv
<1>2. CallerIsKnown'
  <2>1. CASE AddSessionAuth
    <3>1. pc' \in {"authenticate", "exited"}
      BY <2>1 DEF AddSessionAuth, Exit, Go
    <3>2. /\ pc' = "authenticate" => ruser'.uid = caller /\ \E i \in DOMAIN Passwd : ruser' = Passwd[i]
          /\ caller' = caller
      BY <2>1, CallerIsFound DEF AddSessionAuth, inputs
    <3> QED
      BY <3>1, <3>2 DEF CallerIsKnown, InSession, InTheChild
  <2>2. CASE ~AddSessionAuth
    <3>1. ruser' = ruser /\ caller' = caller
      BY <2>2 DEF Next, Parse, load_config, get_chroot_options, Dispatch, Authenticate, Finished,
                  RefuseChroot, RefuseData, SetUpChroot, SetupScriptsEnd, RunChroot,
                  SetEnvironment, SetGroups, SetPersonality, EnterChroot, SetUser, CheckRoot, Chdir,
                  GetCommand, Exec, ChildFails, Wait, InChild, auth, inputs, vars
    <3>2. pc' \in InSession \cup {"authenticate"} => pc \in InSession \cup {"authenticate"}
      <4>1. CASE Parse \/ load_config \/ get_chroot_options \/ Dispatch
        <5>1. pc' \in {"load", "select", "dispatch", "auth", "exited"}
          BY <4>1 DEF Parse, load_config, get_chroot_options, Dispatch, Show, Exit, Go
        <5> QED
          BY <5>1 DEF InSession, InTheChild
      <4>2. CASE ~(Parse \/ load_config \/ get_chroot_options \/ Dispatch)
        <5>1. pc \in InSession \cup {"authenticate"} \/ pc' = pc
          BY <4>2, <2>2
             DEF Next, Authenticate, Finished, RefuseChroot, RefuseData, SetUpChroot,
                 SetupScriptsEnd, RunChroot, SetEnvironment, SetGroups, SetPersonality, EnterChroot,
                 SetUser, CheckRoot, Chdir, GetCommand, Exec, ChildFails, Wait, InChild, vars,
                 InSession, InTheChild
        <5> QED
          BY <5>1
      <4> QED
        BY <4>1, <4>2
    <3> QED
      BY <3>1, <3>2 DEF CleanInv, CallerIsKnown
  <2> QED
    BY <2>1, <2>2
<1>3. ChildIsClean'
  <2>1. CASE \/ Parse \/ load_config \/ get_chroot_options \/ Dispatch
             \/ AddSessionAuth \/ Authenticate \/ Finished \/ RefuseChroot \/ RefuseData
             \/ SetUpChroot \/ SetupScriptsEnd \/ RunChroot \/ ChildFails \/ Wait
    <3>1. pc' \notin InTheChild \ {"child"}
      BY <2>1 DEF Parse, load_config, get_chroot_options, Dispatch, Show, Exit, Go, AddSessionAuth,
                  Authenticate, Finished, RefuseChroot, RefuseData, SetUpChroot, SetupScriptsEnd,
                  RunChroot, ChildFails, Wait, InTheChild
    <3> QED
      BY <3>1 DEF ChildIsClean
  <2>2. CASE UNCHANGED vars
    <3>1. /\ pc' = pc /\ argv' = argv /\ attrs' = attrs /\ user' = user /\ opts' = opts
          /\ callerenv' = callerenv /\ child' = child
      BY <2>2 DEF vars
    <3>2. CASE pc \in InTheChild \ {"child"}
      BY <3>1, <3>2, CleanKept
    <3>3. CASE pc \notin InTheChild \ {"child"}
      BY <3>1, <3>3 DEF ChildIsClean
    <3> QED
      BY <3>2, <3>3
  <2> QED
    BY <2>1, <2>2, CleanSetEnvironment, CleanBetween, CleanCommand DEF Next
<1> QED
  BY <1>1, <1>2, <1>3 DEF CleanInv

\* The parts about the environment hold throughout.
LEMMA CleanInvHolds == Spec => []CleanInv
<1>1. SelectInv /\ Init => CallerIsKnown /\ ChildIsClean
  BY DEF Init, CallerIsKnown, ChildIsClean, InSession, InTheChild
<1>2. Spec => [](SelectInv /\ ChildInv)
  BY SelectInvHolds, ChildInvHolds, PTL
<1> QED
  BY <1>1, <1>2, CleanInvStep, PTL DEF Spec, CleanInv

\* For every environment of the caller, every filter, account and chroot: no
\* variable that the filter matches reaches the command, root never gets the
\* caller's PATH, and nothing of the caller's but TERM gets in unless it is to be
\* preserved.
THEOREM EnvironmentIsClean == Spec => []EnvironmentClean
<1>1. CleanInv => EnvironmentClean
  <2> SUFFICES ASSUME CleanInv, pc = "running"
               PROVE  EnvironmentClean
    BY DEF EnvironmentClean
  <2>1. user = Asker
    BY DEF CleanInv, ChildInv, UserIsAsked, InSession, InTheChild
  <2>2. /\ DOMAIN child.env \cap attrs.filter = {}
        /\ user.uid = 0 => PathElsewhere(child.env)
        /\ ~Preserve => Elsewhere(child.env)
        /\ user.uid = 0 => child.file \in Values \cup {callerenv[k] : k \in DOMAIN callerenv \ {"PATH"}}
    BY DEF CleanInv, ChildIsClean, InTheChild
  <2>3. PICK i \in Inputs : argv = i.argv /\ callerenv = i.callerenv /\ attrs = i.attrs
    BY DEF CleanInv, ChildInv, SelectInv, Given
  <2>4. \A k \in DOMAIN callerenv :
          /\ callerenv[k] \notin Values
          /\ "PATH" \in DOMAIN callerenv /\ k # "PATH" => callerenv[k] # callerenv["PATH"]
    BY <2>3, OriginAssumption DEF Values
  <2>5. user.uid = 0 /\ "PATH" \in DOMAIN callerenv
          => /\ child.file # callerenv["PATH"]
             /\ "PATH" \in DOMAIN child.env => child.env["PATH"] # callerenv["PATH"]
    BY <2>2, <2>4 DEF PathElsewhere
  <2>6. ~Preserve => \A k \in DOMAIN callerenv \cap DOMAIN child.env :
                       k # "TERM" => child.env[k] # callerenv[k]
    BY <2>2, <2>4 DEF Elsewhere
  <2> QED
    BY <2>1, <2>2, <2>5, <2>6 DEF EnvironmentClean
<1> QED
  BY <1>1, CleanInvHolds, PTL

(***************************************************************************)
(* What is selected: lists by name.                                        *)
(***************************************************************************)
\* Ascending lists each number of the set once.
LEMMA AscendingLists ==
  ASSUME NEW n \in Nat, NEW I \in SUBSET (1..n)
  PROVE  /\ Cardinality(I) \in Nat
         /\ Ascending(I) \in [1..Cardinality(I) -> I]
         /\ \A i \in I : \E m \in 1..Cardinality(I) : Ascending(I)[m] = i
<1> DEFINE N == Cardinality(I)
<1> DEFINE Upto(i) == {j \in I : j <= i}
<1> DEFINE rank == [i \in I |-> Cardinality(Upto(i))]
<1>0. IsFiniteSet(I) /\ N \in Nat /\ \A i \in I : i \in Nat
  <2>1. IsFiniteSet(1..n)
    BY FS_Interval
  <2>2. IsFiniteSet(I)
    BY <2>1, FS_Subset
  <2> QED
    BY <2>2, FS_CardinalityType
<1>1. \A i \in I : IsFiniteSet(Upto(i)) /\ Cardinality(Upto(i)) \in Nat /\ Cardinality(Upto(i)) <= N
  <2> TAKE i \in I
  <2>1. Upto(i) \in SUBSET I
    OBVIOUS
  <2> HIDE DEF Upto
  <2> QED
    BY <2>1, <1>0, FS_Subset, FS_CardinalityType
<1>2. \A i \in I : Cardinality(Upto(i)) # 0
  <2> TAKE i \in I
  <2>1. i \in Upto(i)
    BY <1>0
  <2> HIDE DEF Upto
  <2> QED
    BY <2>1, <1>1, FS_EmptySet
<1>3. \A i, j \in I : i < j => Cardinality(Upto(i)) < Cardinality(Upto(j))
  <2> SUFFICES ASSUME NEW i \in I, NEW j \in I, i < j
               PROVE  Cardinality(Upto(i)) < Cardinality(Upto(j))
    OBVIOUS
  <2>1. Upto(i) \in SUBSET Upto(j) /\ j \in Upto(j) /\ j \notin Upto(i)
    <3>1. \A k \in I : k <= i => k <= j
      BY <1>0
    <3>2. j <= j /\ ~(j <= i)
      BY <1>0
    <3> QED
      BY <3>1, <3>2
  <2> HIDE DEF Upto
  <2>2. Cardinality(Upto(i)) <= Cardinality(Upto(j)) /\ Cardinality(Upto(i)) # Cardinality(Upto(j))
    BY <2>1, <1>1, FS_Subset
  <2> QED
    BY <2>2, <1>1
<1>4. \A i \in I : rank[i] = Cardinality(Upto(i)) /\ rank[i] \in 1..N
  <2> TAKE i \in I
  <2>1. rank[i] = Cardinality(Upto(i))
    OBVIOUS
  <2> HIDE DEF Upto, rank
  <2> QED
    BY <2>1, <1>0, <1>1, <1>2
<1>5. \A i, j \in I : rank[i] = rank[j] => i = j
  <2> SUFFICES ASSUME NEW i \in I, NEW j \in I, rank[i] = rank[j], i # j
               PROVE  FALSE
    OBVIOUS
  <2>1. i < j \/ j < i
    BY <1>0
  <2> HIDE DEF Upto, rank
  <2> QED
    BY <2>1, <1>1, <1>3, <1>4
<1>6. rank \in Injection(I, 1..N)
  <2>1. rank \in [I -> 1..N]
    BY <1>4
  <2> HIDE DEF rank, Upto
  <2> QED
    BY <2>1, <1>5 DEF Injection, IsInjective
<1>7. IsFiniteSet(1..N) /\ Cardinality(1..N) = N
  BY <1>0, FS_Interval
<1>8. \A m \in 1..N : \E i \in I : rank[i] = m
  <2> HIDE DEF rank
  <2>1. rank \in Surjection(I, 1..N)
    BY <1>0, <1>6, <1>7, FS_Injection
  <2> QED
    BY <2>1 DEF Surjection
<1> DEFINE pick == [m \in 1..N |-> CHOOSE i \in I : Cardinality(Upto(i)) = m]
<1>9. pick = Ascending(I)
  BY DEF Ascending
<1>10. \A m \in 1..N : pick[m] \in I /\ Cardinality(Upto(pick[m])) = m
  <2> TAKE m \in 1..N
  <2>1. \E i \in I : Cardinality(Upto(i)) = m
    <3> HIDE DEF Upto, rank
    <3> QED
      BY <1>4, <1>8
  <2>2. pick[m] = CHOOSE i \in I : Cardinality(Upto(i)) = m
    OBVIOUS
  <2> HIDE DEF Upto, pick
  <2> QED
    BY <2>1, <2>2
<1>11. \A i \in I : pick[rank[i]] = i
  <2> TAKE i \in I
  <2>1. rank[i] \in 1..N
    BY <1>4
  <2> HIDE DEF Upto, pick, rank
  <2>2. pick[rank[i]] \in I /\ rank[pick[rank[i]]] = rank[i]
    BY <2>1, <1>4, <1>10
  <2> QED
    BY <2>2, <1>5
<1>12. pick \in [1..N -> I]
  BY <1>10
<1> HIDE DEF pick, rank, Upto
<1> QED
  BY <1>0, <1>4, <1>9, <1>11, <1>12

\* The members of a sequence.
Members(s) == {s[i] : i \in DOMAIN s}

\* The members of two sequences joined.
LEMMA MembersJoined ==
  ASSUME NEW S, NEW s \in Seq(S), NEW t \in Seq(S)
  PROVE  s \o t \in Seq(S) /\ Members(s \o t) = Members(s) \cup Members(t)
<1> DEFINE u == s \o t
<1>1. /\ u \in Seq(S) /\ Len(u) = Len(s) + Len(t)
      /\ \A i \in 1..Len(u) : u[i] = IF i <= Len(s) THEN s[i] ELSE t[i - Len(s)]
  OBVIOUS
<1>2. /\ DOMAIN s = 1..Len(s) /\ DOMAIN t = 1..Len(t) /\ DOMAIN u = 1..Len(u)
      /\ Len(s) \in Nat /\ Len(t) \in Nat /\ Len(u) \in Nat
  BY <1>1
<1> HIDE DEF u
<1>3. \A i \in DOMAIN u : u[i] \in Members(s) \cup Members(t)
  <2> TAKE i \in DOMAIN u
  <2>1. CASE i <= Len(s)
    BY <2>1, <1>1, <1>2 DEF Members
  <2>2. CASE ~(i <= Len(s))
    <3>1. i - Len(s) \in DOMAIN t
      BY <2>2, <1>1, <1>2
    <3> QED
      BY <3>1, <2>2, <1>1, <1>2 DEF Members
  <2> QED
    BY <2>1, <2>2
<1>4. \A i \in DOMAIN s : i \in DOMAIN u /\ u[i] = s[i]
  BY <1>1, <1>2
<1>5. \A i \in DOMAIN t : i + Len(s) \in DOMAIN u /\ u[i + Len(s)] = t[i]
  <2> TAKE i \in DOMAIN t
  <2>1. i + Len(s) \in 1..Len(u) /\ ~(i + Len(s) <= Len(s)) /\ (i + Len(s)) - Len(s) = i
    BY <1>1, <1>2
  <2> QED
    BY <2>1, <1>1, <1>2
<1>6. Members(s) \subseteq Members(u) /\ Members(t) \subseteq Members(u)
  BY <1>4, <1>5 DEF Members
<1>7. Members(u) \subseteq Members(s) \cup Members(t)
  BY <1>3 DEF Members
<1> QED
  BY <1>1, <1>6, <1>7 DEF u

(***************************************************************************)
(* What the options select.                                                *)
(***************************************************************************)
\* The namespaces that --all and its relatives choose.
AllOfChroots ==
    argv.all # {} /\ ("all" \in argv.all \/ argv.prog # "schroot" \/ "all-chroots" \in argv.all)
AllOfSources ==
    argv.prog = "schroot" /\ ("all" \in argv.all \/ "all-source-chroots" \in argv.all)
AllOfSessions ==
    argv.prog = "schroot" /\ ("all" \in argv.all \/ "all-sessions" \in argv.all)

\* What check_options makes of the names and of --all.
Checked(o) ==
    /\ DOMAIN o = OptionFields
    /\ o.chroots = Named
    /\ o.exclude_aliases <=> argv.exclude_aliases
    /\ o.all => o.all_chroots
    /\ Named = <<>> => /\ o.all_chroots <=> AllOfChroots
                       /\ o.all_sessions <=> AllOfSessions
                       /\ o.all_source_chroots <=> AllOfSources

\* check_options of each program, where it is content.
LEMMA OptionsChecked ==
  ASSUME Given, NEW garbage, NEW o, o = check_options(argv, garbage), ~o.error
  PROVE  Checked(o) /\ get_action(o) = Asked
<1> DEFINE d == Defaults(argv, garbage)
<1> DEFINE m == set_action(d, argv.actions)
<1>1. /\ DOMAIN d = OptionFields /\ d.chroots = argv.chroots /\ d.command = argv.command
      /\ d.all = FALSE /\ d.all_chroots = FALSE /\ d.all_sessions = FALSE
      /\ d.all_source_chroots = FALSE /\ d.exclude_aliases = FALSE /\ d.error = FALSE
      /\ d.action = ""
  BY DEF Defaults, OptionFields
<1>2. o = IF m.error \/ argv.baddebug THEN Throw(m)
          ELSE CASE argv.prog = "schroot" -> check_schroot(m, argv)
                 [] argv.prog = "dchroot" -> check_dchroot(m, argv)
                 [] argv.prog = "dchroot-dsa" -> check_dsa(m, argv)
  BY DEF check_options
<1> HIDE DEF d
<1>3. m = IF argv.actions = {} THEN d
          ELSE IF Cardinality(argv.actions) = 1 THEN [d EXCEPT !.action = TheAction(argv.actions)]
          ELSE [d EXCEPT !.error = TRUE]
  BY DEF set_action, Throw
<1> HIDE DEF m
<1>4. /\ DOMAIN m = OptionFields /\ m.chroots = argv.chroots /\ m.command = argv.command
      /\ m.all = FALSE /\ m.all_chroots = FALSE /\ m.all_sessions = FALSE
      /\ m.all_source_chroots = FALSE /\ m.exclude_aliases = FALSE
  BY <1>1, <1>3 DEF OptionFields
<1>5. ~m.error /\ ~argv.baddebug
  <2>1. DOMAIN Throw(m) = OptionFields /\ Throw(m).error = TRUE
    BY <1>4 DEF Throw, OptionFields
  <2> QED
    BY <1>2, <2>1
<1>6. argv.actions = {} \/ Cardinality(argv.actions) = 1
  BY <1>1, <1>3, <1>5 DEF OptionFields
<1>7. m.action = IF argv.actions = {} THEN "" ELSE TheAction(argv.actions)
  BY <1>1, <1>3, <1>6 DEF OptionFields
<1>8. /\ argv.prog \in Programs /\ argv.actions \subseteq AllActions
      /\ argv.exclude_aliases \in BOOLEAN /\ (argv.prog # "schroot" => ~argv.exclude_aliases)
  BY GivenArgv, InputAssumption DEF Given
<1>9. /\ DOMAIN o = OptionFields /\ o.action = m.action
      /\ o.chroots = Named /\ (o.exclude_aliases <=> argv.exclude_aliases)
      /\ (o.all => o.all_chroots)
      /\ Named = <<>> => /\ o.all_chroots <=> AllOfChroots
                         /\ o.all_sessions <=> AllOfSessions
                         /\ o.all_source_chroots <=> AllOfSources
  <2>1. CASE argv.prog = "schroot"
    <3>1. o = check_schroot(m, argv)
      BY <1>2, <1>5, <2>1
    <3>2. Named = argv.chroots
      BY <2>1 DEF Named
    <3> QED
      BY <1>4, <2>1, <3>1, <3>2
      DEF check_schroot, OptionFields, AllOfChroots, AllOfSessions, AllOfSources
  <2>2. CASE argv.prog = "dchroot"
    <3>1. o = check_dchroot(m, argv)
      BY <1>2, <1>5, <2>2
    <3>2. Named = IF "location" \in argv.actions THEN argv.path ELSE argv.chroots
      BY <2>2 DEF Named
    <3> QED
      BY <1>4, <1>8, <2>2, <3>1, <3>2
      DEF check_dchroot, OptionFields, AllOfChroots, AllOfSessions, AllOfSources
  <2>3. CASE argv.prog = "dchroot-dsa"
    <3>1. o = check_dsa(m, argv)
      BY <1>2, <1>5, <2>3
    <3>2. Named = IF argv.chroots = <<>> /\ argv.command # <<>>
                    THEN <<argv.command[1].name>> ELSE argv.chroots
      BY <2>3 DEF Named
    <3> DEFINE words == argv.chroots = <<>> /\ argv.command # <<>>
    <3> DEFINE p == [m EXCEPT !.preserve = TRUE,
                              !.all_chroots = argv.all # {},
                              !.chroots = IF words THEN <<argv.command[1].name>> ELSE @,
                              !.command = IF words THEN Tail(@) ELSE @]
    <3>3. o = p \/ o = Throw(p)
      BY <1>4, <3>1 DEF check_dsa
    <3>4. /\ DOMAIN p = OptionFields /\ p.action = m.action /\ p.chroots = Named
          /\ p.exclude_aliases = FALSE /\ p.all = FALSE
          /\ (p.all_chroots <=> argv.all # {})
          /\ p.all_sessions = FALSE /\ p.all_source_chroots = FALSE
      BY <1>4, <3>2 DEF OptionFields
    <3> HIDE DEF p
    <3>5. DOMAIN Throw(p) = OptionFields /\ Throw(p).error = TRUE
      BY <3>4 DEF Throw, OptionFields
    <3>6. o = p
      BY <3>3, <3>5
    <3> QED
      BY <1>8, <2>3, <3>4, <3>6 DEF AllOfChroots, AllOfSessions, AllOfSources
  <2> QED
    BY <1>8, <2>1, <2>2, <2>3 DEF Programs
<1>10. get_action(o) = Asked
  <2>1. argv.actions # {} => TheAction(argv.actions) # ""
    <3>1. argv.actions # {} => TheAction(argv.actions) \in argv.actions
      BY DEF TheAction
    <3> QED
      BY <1>8, <3>1 DEF AllActions, SessionActions, ShowActions
  <2> QED
    BY <1>7, <1>9, <2>1 DEF get_action, Asked
<1> QED
  BY <1>9, <1>10 DEF Checked

\* What check_actions adds: the default, and the --all options that an action
\* implies or rules out.
Selects(q) ==
    /\ q.exclude_aliases <=> argv.exclude_aliases
    /\ Named # <<>> =>
         q.chroots = Named /\ ~q.all_chroots /\ ~q.all_sessions /\ ~q.all_source_chroots
    /\ Named = <<>> /\ (AllOfChroots \/ AllOfSources \/ (AllOfSessions /\ Asked # "session_auto")) =>
         /\ q.all_chroots <=> AllOfChroots
         /\ q.all_sessions <=> AllOfSessions /\ Asked # "session_auto"
         /\ q.all_source_chroots <=> AllOfSources
    /\ Named = <<>> /\ ~(AllOfChroots \/ AllOfSources \/ (AllOfSessions /\ Asked # "session_auto")) =>
         /\ ~q.all_sessions
         /\ q.all_chroots <=> Asked \in ShowActions
         /\ q.all_source_chroots <=> Asked \in {"list", "info"}
         /\ Asked \in SessionActions =>
              q.chroots = IF Asked = "session_auto" THEN << <<"", <<"default", 0>>>> >> ELSE <<>>

\* options_base::check_actions, where it is content.
LEMMA ActionsSelect ==
  ASSUME NEW o, NEW r, Checked(o), get_action(o) = Asked, r = check_actions(o), ~r.error,
         Asked \in SessionActions \cup ShowActions
  PROVE  Selects(r)
<1> DEFINE p == IF o.chroots # <<>> /\ all_used(o) THEN NoneOfAll(o) ELSE o
<1> DEFINE q == CASE Asked = "session_auto" -> CheckAuto(p)
                  [] Asked = "session_begin" -> CheckBegin(p)
                  [] Asked \in SessionActions \ {"session_auto", "session_begin"} -> CheckSession(p)
                  [] Asked \in ShowActions -> CheckShow(p)
                  [] Asked \in {"help", "version"} ->
                       NoneOfAll([p EXCEPT !.load_chroots = FALSE, !.load_sessions = FALSE])
<1>1. r = q \/ r = Throw(q)
  BY DEF check_actions
<1>2. /\ DOMAIN p = OptionFields /\ p.chroots = Named
      /\ p.exclude_aliases <=> argv.exclude_aliases
      /\ p.action = o.action
      /\ p.all => p.all_chroots
      /\ Named # <<>> => ~p.all /\ ~p.all_chroots /\ ~p.all_sessions /\ ~p.all_source_chroots
      /\ Named = <<>> => /\ p.all_chroots <=> AllOfChroots
                         /\ p.all_sessions <=> AllOfSessions
                         /\ p.all_source_chroots <=> AllOfSources
  <2>1. CASE o.chroots # <<>> /\ all_used(o)
    BY <2>1 DEF Checked, NoneOfAll, OptionFields
  <2>2. CASE ~(o.chroots # <<>> /\ all_used(o))
    BY <2>2 DEF Checked, all_used
  <2> QED
    BY <2>1, <2>2
<1> HIDE DEF p
<1>3. get_action(p) = Asked
  BY <1>2 DEF get_action
<1>4. DOMAIN q = OptionFields /\ (~q.error => Selects(q))
  <2>1. CASE Asked = "session_auto"
    <3>1. q = CheckAuto(p)
      BY <2>1 DEF SessionActions, ShowActions
    <3> HIDE DEF q
    <3> DEFINE z == [p EXCEPT !.load_chroots = TRUE, !.load_sessions = FALSE,
                              !.all = FALSE, !.all_sessions = FALSE]
    <3>2. /\ DOMAIN z = OptionFields /\ z.chroots = Named
          /\ z.exclude_aliases <=> argv.exclude_aliases
          /\ z.all = FALSE /\ z.all_sessions = FALSE
          /\ z.all_chroots = p.all_chroots /\ z.all_source_chroots = p.all_source_chroots
      BY <1>2 DEF OptionFields
    <3>3. q = IF z.chroots = <<>> /\ ~all_used(z)
                THEN [z EXCEPT !.chroots = << <<"", <<"default", 0>>>> >>] ELSE z
      BY <3>1 DEF CheckAuto
    <3> HIDE DEF z
    <3>4. all_used(z) <=> p.all_chroots \/ p.all_source_chroots
      BY <3>2 DEF all_used
    <3>5. CASE z.chroots = <<>> /\ ~all_used(z)
      BY <1>2, <2>1, <3>2, <3>3, <3>4, <3>5 DEF Selects, OptionFields, ShowActions
    <3>6. CASE ~(z.chroots = <<>> /\ ~all_used(z))
      BY <1>2, <2>1, <3>2, <3>3, <3>4, <3>6 DEF Selects
    <3> QED
      BY <3>5, <3>6
  <2>2. CASE Asked = "session_begin"
    <3>1. q = CheckBegin(p)
      BY <2>2 DEF SessionActions, ShowActions
    <3> HIDE DEF q
    <3>2. CASE Len(p.chroots) # 1 \/ all_used(p)
      BY <1>2, <3>1, <3>2 DEF CheckBegin, Throw, OptionFields
    <3>3. CASE ~(Len(p.chroots) # 1 \/ all_used(p))
      <4>1. q = NoneOfAll([p EXCEPT !.load_chroots = TRUE, !.load_sessions = FALSE])
        BY <3>1, <3>3 DEF CheckBegin
      <4>2. Named # <<>>
        <5>1. Len(<<>>) = 0
          OBVIOUS
        <5> QED
          BY <1>2, <3>3, <5>1
      <4> QED
        BY <1>2, <4>1, <4>2 DEF NoneOfAll, OptionFields, Selects
    <3> QED
      BY <3>2, <3>3
  <2>3. CASE Asked \in SessionActions \ {"session_auto", "session_begin"}
    <3>1. q = [p EXCEPT !.load_chroots = TRUE, !.load_sessions = TRUE]
      BY <2>3 DEF SessionActions, ShowActions, CheckSession
    <3> HIDE DEF q
    <3>2. Asked \notin ShowActions /\ Asked # "session_auto"
      BY <2>3 DEF SessionActions, ShowActions
    <3>3. /\ DOMAIN q = OptionFields /\ q.chroots = Named
          /\ q.exclude_aliases <=> argv.exclude_aliases
          /\ q.all_sessions = p.all_sessions
          /\ q.all_chroots = p.all_chroots /\ q.all_source_chroots = p.all_source_chroots
      BY <1>2, <3>1 DEF OptionFields
    <3> QED
      BY <1>2, <3>2, <3>3 DEF Selects, ShowActions
  <2>4. CASE Asked \in ShowActions
    <3>1. q = CheckShow(p)
      BY <2>4 DEF ShowActions, SessionActions
    <3> HIDE DEF q
    <3> DEFINE z == IF p.chroots # <<>>
                      THEN [p EXCEPT !.load_chroots = TRUE, !.load_sessions = TRUE]
                    ELSE IF all_used(p) THEN p
                    ELSE [p EXCEPT !.all_chroots = TRUE, !.load_chroots = TRUE,
                                   !.all_source_chroots = @ \/ get_action(p) \in {"list", "info"}]
    <3>2. q = [z EXCEPT !.load_chroots = @ \/ z.all_chroots \/ z.all_source_chroots \/ z.all_sessions,
                        !.load_sessions = @ \/ z.all_sessions]
      BY <3>1 DEF CheckShow
    <3>3. all_used(p) <=> p.all_chroots \/ p.all_sessions \/ p.all_source_chroots
      BY <1>2 DEF all_used
    <3>4. /\ DOMAIN z = OptionFields /\ (z.exclude_aliases <=> argv.exclude_aliases)
          /\ z.chroots = Named
          /\ z.all_sessions = p.all_sessions
          /\ p.chroots # <<>> \/ all_used(p) =>
               z.all_chroots = p.all_chroots /\ z.all_source_chroots = p.all_source_chroots
          /\ ~(p.chroots # <<>> \/ all_used(p)) =>
               z.all_chroots /\ (z.all_source_chroots <=> Asked \in {"list", "info"})
      <4>1. CASE p.chroots # <<>>
        BY <1>2, <4>1 DEF OptionFields
      <4>2. CASE p.chroots = <<>> /\ all_used(p)
        BY <1>2, <4>2
      <4>3. CASE p.chroots = <<>> /\ ~all_used(p)
        BY <1>2, <1>3, <3>3, <4>3 DEF OptionFields
      <4> QED
        BY <4>1, <4>2, <4>3
    <3> HIDE DEF z
    <3>5. /\ DOMAIN q = OptionFields /\ (q.exclude_aliases <=> argv.exclude_aliases)
          /\ q.chroots = Named
          /\ q.all_sessions = z.all_sessions
          /\ q.all_chroots = z.all_chroots /\ q.all_source_chroots = z.all_source_chroots
      BY <3>2, <3>4 DEF OptionFields
    <3>6. Asked # "session_auto" /\ Asked \notin SessionActions
      BY <2>4 DEF SessionActions, ShowActions
    <3> QED
      BY <1>2, <2>4, <3>3, <3>4, <3>5, <3>6 DEF Selects
  <2> QED
    BY <2>1, <2>2, <2>3, <2>4
<1>5. r = q
  <2> HIDE DEF q
  <2>1. DOMAIN Throw(q) = OptionFields /\ Throw(q).error = TRUE
    BY <1>4 DEF Throw, OptionFields
  <2> QED
    BY <1>1, <2>1
<1> HIDE DEF q
<1> QED
  BY <1>4, <1>5

(***************************************************************************)
(* What the names lead to.                                                 *)
(***************************************************************************)
AllDefined == Defined(ChrootDefs \cup SessionDefs)

\* The names that were loaded are some of those defined, and each chroot has its
\* own.
ConfigNames ==
    /\ chroots \subseteq AllDefined
    /\ \A k \in DOMAIN aliases : <<k, aliases[k]>> \in Leads(chroots)
    /\ \A c \in chroots : Config!Full(c) \in DOMAIN aliases

\* More chroots have more names.
LEMMA LeadsGrow ==
  ASSUME NEW S, NEW T, S \subseteq T
  PROVE  Leads(S) \subseteq Leads(T)
<1>1. OwnNames(S) \subseteq OwnNames(T)
  BY DEF OwnNames
<1>2. ProxyNames(S) \subseteq ProxyNames(T)
  BY DEF ProxyNames
<1>3. AliasNames(S) \subseteq AliasNames(T)
  BY DEF AliasNames
<1>4. SourceNames(S) \subseteq SourceNames(T)
  BY DEF SourceNames
<1> QED
  BY <1>1, <1>2, <1>3, <1>4 DEF Leads

\* A name that leads somewhere has a namespace, and leads to a chroot.
LEMMA LeadsArePairs ==
  ASSUME NEW S, NEW l \in Leads(S), \A c \in S : c.ns \in Config!Namespaces
  PROVE  /\ l[1] = <<l[1][1], l[1][2]>> /\ l[1][1] \in Config!Namespaces
         /\ \E c \in S : l[2] = Config!Full(c)
<1> DEFINE Good(x) == \E ns \in Config!Namespaces, c \in S : \E n : x = << <<ns, n>>, Config!Full(c)>>
<1>1. \A x \in OwnNames(S) : Good(x)
  BY DEF OwnNames, Config!Full
<1>2. \A x \in ProxyNames(S) : Good(x)
  BY DEF ProxyNames, Config!Namespaces
<1>3. \A x \in AliasNames(S) : Good(x)
  BY DEF AliasNames
<1>4. \A x \in SourceNames(S) : Good(x)
  BY DEF SourceNames, Config!Namespaces
<1>5. Good(l)
  BY <1>1, <1>2, <1>3, <1>4 DEF Leads
<1> QED
  BY <1>5

\* Every chroot is in a namespace.
LEMMA DefinedInNamespace == \A c \in AllDefined : c.ns \in Config!Namespaces
<1>1. \A c \in ChrootDefs \cup SessionDefs : c.ns \in Config!Namespaces
  BY DefinitionAssumption DEF Config!Namespaces
<1>2. \A c : Config!SourceChroot(c).ns \in Config!Namespaces
  BY DEF Config!SourceChroot, Config!Namespaces
<1> QED
  BY <1>1, <1>2 DEF AllDefined, Defined

\* What the lookup of the names in the lists returns, and that NameOrder has them.
LEMMA NamesFound ==
  ASSUME ConfigNames
  PROVE  /\ \A k \in DOMAIN aliases :
              /\ k = <<k[1], k[2]>> /\ k[1] \in Config!Namespaces
              /\ \E i \in DOMAIN NameOrder : NameOrder[i] = k[2]
              /\ Config!find_alias("", k[1], k[2]) = aliases[k]
         /\ \A c \in chroots : aliases[Config!Full(c)] = Config!Full(c)
<1>1. \A c \in chroots : c.ns \in Config!Namespaces
  BY DefinedInNamespace DEF ConfigNames
<1>2. Leads(chroots) \subseteq Leads(AllDefined)
  BY LeadsGrow DEF ConfigNames
<1>3. ASSUME NEW k \in DOMAIN aliases
      PROVE  /\ k = <<k[1], k[2]>> /\ k[1] \in Config!Namespaces
             /\ \E i \in DOMAIN NameOrder : NameOrder[i] = k[2]
             /\ \E c \in chroots : aliases[k] = Config!Full(c)
  <2> DEFINE l == <<k, aliases[k]>>
  <2>1. l \in Leads(chroots) /\ l[1] = k /\ l[2] = aliases[k]
    BY DEF ConfigNames
  <2> HIDE DEF l
  <2>2. \E i \in DOMAIN NameOrder : NameOrder[i] = l[1][2]
    BY <1>2, <2>1, NamesAssumption DEF AllDefined
  <2> QED
    BY <1>1, <2>1, <2>2, LeadsArePairs
<1>4. ASSUME NEW k \in DOMAIN aliases
      PROVE  Config!find_alias("", k[1], k[2]) = aliases[k]
  <2>1. PICK c \in chroots : aliases[k] = Config!Full(c)
    BY <1>3
  <2>2. Config!get_namespace("", k[1]) = k[1] /\ <<k[1], k[2]>> = k
    BY <1>3 DEF Config!get_namespace, Config!Namespaces
  <2>3. aliases[k][1] = c.ns /\ aliases[k][2] = c.name
    BY <2>1 DEF Config!Full
  <2>4. Config!InNamespace(aliases[k][1], aliases[k][2])
    BY <2>3 DEF Config!InNamespace
  <2> QED
    BY <2>2, <2>4 DEF Config!find_alias
<1>5. ASSUME NEW c \in chroots
      PROVE  aliases[Config!Full(c)] = Config!Full(c)
  <2> DEFINE k == Config!Full(c)
  <2> DEFINE l == <<k, aliases[k]>>
  <2>1. l \in Leads(AllDefined) /\ l[1] = k /\ l[2] = aliases[k] /\ c \in AllDefined
    BY <1>2 DEF ConfigNames
  <2> HIDE DEF l
  <2> QED
    BY <2>1, NamesAssumption DEF AllDefined
<1> QED
  BY <1>3, <1>4, <1>5

\* The list of a namespace has exactly the names listed in it.
LEMMA ListHasListed ==
  ASSUME ConfigNames, NEW ns \in Config!Namespaces
  PROVE  /\ ListOf(ns) \in Seq(Config!Namespaces \X Config!AllNames)
         /\ \A x \in Members(ListOf(ns)) : \E n : x = <<ns, n>> /\ Listed(ns, n)
         /\ \A n : Listed(ns, n) => <<ns, n>> \in Members(ListOf(ns))
<1> DEFINE I == {i \in DOMAIN NameOrder : Listed(ns, NameOrder[i])}
<1> DEFINE names == Ascending(I)
<1> DEFINE list == [n \in DOMAIN names |-> <<ns, NameOrder[names[n]]>>]
<1>1. list = ListOf(ns)
  BY DEF ListOf
<1>2. NameOrder \in Seq(Config!AllNames)
  BY NamesAssumption
<1>3. Len(NameOrder) \in Nat /\ DOMAIN NameOrder = 1..Len(NameOrder)
      /\ \A i \in DOMAIN NameOrder : NameOrder[i] \in Config!AllNames
  <2> DEFINE S == Config!AllNames
  <2>1. NameOrder \in Seq(S)
    BY <1>2
  <2> HIDE DEF S
  <2> QED
    BY <2>1 DEF S
<1>4. I \in SUBSET (1..Len(NameOrder))
  BY <1>3
<1>5. /\ Cardinality(I) \in Nat /\ names \in [1..Cardinality(I) -> I]
      /\ \A i \in I : \E m \in 1..Cardinality(I) : names[m] = i
  <2> HIDE DEF I
  <2> QED
    BY <1>3, <1>4, AscendingLists
<1> DEFINE N == Cardinality(I)
<1> HIDE DEF names, N
<1>6. DOMAIN list = 1..N /\ \A m \in 1..N : list[m] = <<ns, NameOrder[names[m]]>>
  BY <1>5 DEF N
<1>7. list \in Seq(Config!Namespaces \X Config!AllNames)
  <2>1. \A m \in 1..N : list[m] \in Config!Namespaces \X Config!AllNames
    <3> TAKE m \in 1..N
    <3>1. NameOrder[names[m]] \in Config!AllNames
      BY <1>3, <1>5 DEF N
    <3> QED
      BY <3>1, <1>6
  <2>2. list = [m \in 1..N |-> list[m]] /\ N \in Nat
    BY <1>5, <1>6 DEF N
  <2> DEFINE S == Config!Namespaces \X Config!AllNames
  <2> HIDE DEF list, S
  <2>3. list \in [1..N -> S]
    BY <2>1, <2>2 DEF S
  <2>4. list \in Seq(S)
    BY <2>2, <2>3
  <2> QED
    BY <2>4 DEF S
<1> HIDE DEF list
<1>8. \A x \in Members(list) : \E n : x = <<ns, n>> /\ Listed(ns, n)
  <2> SUFFICES ASSUME NEW m \in 1..N
               PROVE  \E n : list[m] = <<ns, n>> /\ Listed(ns, n)
    BY <1>6 DEF Members
  <2>1. names[m] \in I
    BY <1>5 DEF N
  <2> QED
    BY <2>1, <1>6
<1>9. \A n : Listed(ns, n) => <<ns, n>> \in Members(list)
  <2> SUFFICES ASSUME NEW n, Listed(ns, n)
               PROVE  <<ns, n>> \in Members(list)
    OBVIOUS
  <2>1. \E i \in DOMAIN NameOrder : NameOrder[i] = n
    <3>1. <<ns, n>> \in DOMAIN aliases
      <4>1. CASE get_action(opts) = "list" /\ ~opts.exclude_aliases
        BY <4>1 DEF Listed
      <4>2. CASE ~(get_action(opts) = "list" /\ ~opts.exclude_aliases)
        BY <4>2 DEF Listed, Config!InNamespace, ConfigNames, Config!Full
      <4> QED
        BY <4>1, <4>2
    <3> DEFINE k == <<ns, n>>
    <3>2. k \in DOMAIN aliases /\ k[2] = n
      BY <3>1
    <3> HIDE DEF k
    <3> QED
      BY <3>2, NamesFound
  <2>2. PICK i \in DOMAIN NameOrder : NameOrder[i] = n
    BY <2>1
  <2>3. i \in I
    BY <2>2
  <2>4. PICK m \in 1..N : names[m] = i
    BY <2>3, <1>5 DEF N
  <2> QED
    BY <2>2, <2>4, <1>6 DEF Members
<1> QED
  BY <1>1, <1>7, <1>8, <1>9

\* The chroots that the lists of some namespaces lead to.
LEMMA ListsLeadToAll ==
  ASSUME ConfigNames, Asked = get_action(opts), opts.exclude_aliases <=> argv.exclude_aliases,
         Hint = "", NEW spaces \in SUBSET Config!Namespaces, NEW s,
         \A x \in Members(s) : \E ns \in spaces : x \in Members(ListOf(ns)),
         \A ns \in spaces : Members(ListOf(ns)) \subseteq Members(s)
  PROVE  {Chroot(x) : x \in Members(s)} = All(spaces)
<1>0. \A ns \in spaces : /\ \A x \in Members(ListOf(ns)) : \E n : x = <<ns, n>> /\ Listed(ns, n)
                         /\ \A n : Listed(ns, n) => <<ns, n>> \in Members(ListOf(ns))
  BY ListHasListed
<1>1. \A x \in Members(s) : \E ns \in spaces : \E n : x = <<ns, n>> /\ Listed(ns, n)
  BY <1>0
<1>2. \A ns \in spaces : \A n : Listed(ns, n) => <<ns, n>> \in Members(s)
  BY <1>0
<1>3. \A ns, n : Chroot(<<ns, n>>) = Config!find_alias("", ns, n)
  BY DEF Chroot
<1>4. CASE Asked = "list" /\ ~argv.exclude_aliases
  <2>1. \A ns, n : Listed(ns, n) <=> <<ns, n>> \in DOMAIN aliases
    BY <1>4 DEF Listed
  <2>2. \A ns, n : Listed(ns, n) => Chroot(<<ns, n>>) = aliases[<<ns, n>>]
    <3> TAKE ns, n
    <3> DEFINE k == <<ns, n>>
    <3>1. k[1] = ns /\ k[2] = n
      OBVIOUS
    <3>2. k \in DOMAIN aliases => Config!find_alias("", k[1], k[2]) = aliases[k]
      BY NamesFound
    <3> QED
      BY <1>3, <2>1, <3>1, <3>2
  <2>3. All(spaces) = {aliases[n] : n \in {m \in DOMAIN aliases : m[1] \in spaces}}
    BY <1>4 DEF All
  <2>4. \A x \in Members(s) : Chroot(x) \in All(spaces)
    <3> TAKE x \in Members(s)
    <3>1. PICK ns \in spaces : \E n : x = <<ns, n>> /\ Listed(ns, n)
      BY <1>1
    <3>2. PICK n : x = <<ns, n>> /\ Listed(ns, n)
      BY <3>1
    <3>3. x \in DOMAIN aliases /\ x[1] = ns /\ Chroot(x) = aliases[x]
      BY <2>1, <2>2, <3>2
    <3> QED
      BY <2>3, <3>3
  <2>5. \A a \in All(spaces) : \E x \in Members(s) : a = Chroot(x)
    <3> TAKE a \in All(spaces)
    <3>1. PICK m \in DOMAIN aliases : m[1] \in spaces /\ a = aliases[m]
      BY <2>3
    <3>2. m = <<m[1], m[2]>>
      BY NamesFound
    <3>3. Listed(m[1], m[2])
      BY <2>1, <3>2
    <3> QED
      BY <1>2, <2>2, <3>1, <3>2, <3>3
  <2> QED
    BY <2>4, <2>5
<1>5. CASE ~(Asked = "list" /\ ~argv.exclude_aliases)
  <2>1. \A ns, n : Listed(ns, n) <=> \E c \in chroots : c.ns = ns /\ c.name = n
    BY <1>5 DEF Listed, Config!InNamespace
  <2>2. \A c \in chroots : Chroot(<<c.ns, c.name>>) = Config!Full(c)
    <3> TAKE c \in chroots
    <3> DEFINE k == Config!Full(c)
    <3>1. k \in DOMAIN aliases /\ k[1] = c.ns /\ k[2] = c.name
      BY DEF ConfigNames, Config!Full
    <3>2. Config!find_alias("", k[1], k[2]) = aliases[k] /\ aliases[k] = k
      BY <3>1, NamesFound
    <3> QED
      BY <1>3, <3>1, <3>2
  <2>3. All(spaces) = {Config!Full(c) : c \in {d \in chroots : d.ns \in spaces}}
    BY <1>5 DEF All
  <2>4. \A x \in Members(s) : Chroot(x) \in All(spaces)
    <3> TAKE x \in Members(s)
    <3>1. PICK ns \in spaces : \E n : x = <<ns, n>> /\ Listed(ns, n)
      BY <1>1
    <3>2. PICK n : x = <<ns, n>> /\ Listed(ns, n)
      BY <3>1
    <3>3. PICK c \in chroots : c.ns = ns /\ c.name = n
      BY <2>1, <3>2
    <3> QED
      BY <2>2, <2>3, <3>2, <3>3
  <2>5. \A a \in All(spaces) : \E x \in Members(s) : a = Chroot(x)
    <3> TAKE a \in All(spaces)
    <3>1. PICK c \in chroots : c.ns \in spaces /\ a = Config!Full(c)
      BY <2>3
    <3>2. Listed(c.ns, c.name)
      BY <2>1
    <3> QED
      BY <1>2, <2>2, <3>1, <3>2
  <2> QED
    BY <2>4, <2>5
<1> QED
  BY <1>4, <1>5

\* The namespaces that Wanted goes by.
Spaces ==
    LET every == "all" \in argv.all \/ argv.prog # "schroot"
    IN {ns \in {"chroot", "session", "source"} :
                     CASE ns = "chroot" -> every \/ "all-chroots" \in argv.all
                       [] ns = "source" -> argv.prog = "schroot"
                                           /\ (every \/ "all-source-chroots" \in argv.all)
                       [] ns = "session" -> Asked # "session_auto" /\ argv.prog = "schroot"
                                            /\ (every \/ "all-sessions" \in argv.all)}

\* A list of names is numbered from one.
IsList(s) == \E n \in Nat : DOMAIN s = 1..n

\* get_chroot_options selects what the user asked for.
LEMMA SelectedIsWanted ==
  ASSUME Given, ConfigNames, Selects(opts), Asked = get_action(opts),
         Asked \in SessionActions \cup ShowActions
  PROVE  IsList(SelectedNames) /\ {Chroot(x) : x \in Members(SelectedNames)} = Wanted
<1> DEFINE hint == IF OnSessions THEN "session" ELSE "chroot"
<1> DEFINE given == {Config!find_alias(hint, Named[i][1], Named[i][2]) : i \in DOMAIN Named}
<1> DEFINE some == AllOfChroots \/ AllOfSources \/ (AllOfSessions /\ Asked # "session_auto")
<1> DEFINE fallback ==
             CASE Asked = "session_auto" -> {Config!find_alias("chroot", "", <<"default", 0>>)}
               [] Asked \in {"list", "info"} -> All({"chroot", "source"})
               [] Asked \in {"location", "config"} -> All({"chroot"})
               [] OTHER -> {}
<1>1. /\ "chroot" \in Spaces <=> "all" \in argv.all \/ argv.prog # "schroot" \/ "all-chroots" \in argv.all
      /\ "source" \in Spaces <=> AllOfSources
      /\ "session" \in Spaces <=> AllOfSessions /\ Asked # "session_auto"
      /\ Spaces \subseteq {"chroot", "session", "source"}
  BY DEF Spaces, AllOfSources, AllOfSessions
<1>2. some <=> argv.all # {} /\ Spaces # {}
  <2>1. argv.all = {} => ~some
    BY DEF AllOfChroots, AllOfSources, AllOfSessions
  <2>2. argv.all # {} => (AllOfChroots <=> "chroot" \in Spaces)
    BY <1>1 DEF AllOfChroots
  <2> QED
    BY <1>1, <2>1, <2>2
<1>3. Wanted = CASE Named # <<>> -> given
                 [] Named = <<>> /\ argv.all # {} /\ Spaces # {} -> All(Spaces)
                 [] Named = <<>> /\ (argv.all = {} \/ Spaces = {}) -> fallback
  BY DEF Wanted, Spaces
<1>4. SessionOperation(opts) <=> OnSessions
  BY DEF SessionOperation, OnSessions
<1> HIDE DEF given, fallback
<1>5. ASSUME ~opts.all_chroots, ~opts.all_sessions, ~opts.all_source_chroots
      PROVE  /\ SelectedNames = opts.chroots
             /\ \A x : Chroot(x) = Config!find_alias(hint, x[1], x[2])
  BY <1>4, <1>5 DEF SelectedNames, Hint, Chroot
<1>6. CASE Named # <<>>
  <2>1. /\ SelectedNames = Named
        /\ \A x : Chroot(x) = Config!find_alias(hint, x[1], x[2])
    BY <1>5, <1>6 DEF Selects
  <2>2. IsList(Named)
    <3> DEFINE S == (Config!Namespaces \cup {""}) \X Config!AllNames
    <3>1. argv.path \in Seq(S) /\ argv.chroots \in Seq(S)
      BY InputAssumption DEF Given
    <3> HIDE DEF S
    <3>2. \A t \in Seq(S) : IsList(t)
      BY DEF IsList
    <3>3. \A x : IsList(<<x>>)
      <4> TAKE x
      <4>1. DOMAIN <<x>> = 1..1
        OBVIOUS
      <4> QED
        BY <4>1 DEF IsList
    <3>4. Named = argv.path \/ Named = argv.chroots \/ Named = <<argv.command[1].name>>
      BY DEF Named
    <3> QED
      BY <3>1, <3>2, <3>3, <3>4
  <2>3. Wanted = given
    BY <1>3, <1>6
  <2> QED
    BY <2>1, <2>2, <2>3 DEF given, Members
<1>7. ASSUME Named = <<>>, NEW spaces \in SUBSET {"chroot", "session", "source"}, spaces # {},
             opts.all_chroots <=> "chroot" \in spaces,
             opts.all_sessions <=> "session" \in spaces,
             opts.all_source_chroots <=> "source" \in spaces
      PROVE  IsList(SelectedNames) /\ {Chroot(x) : x \in Members(SelectedNames)} = All(spaces)
  <2> DEFINE S == Config!Namespaces \X Config!AllNames
  <2> DEFINE s == IF opts.all_chroots THEN ListOf("chroot") ELSE <<>>
  <2> DEFINE t == IF opts.all_sessions THEN ListOf("session") ELSE <<>>
  <2> DEFINE u == IF opts.all_source_chroots THEN ListOf("source") ELSE <<>>
  <2>1. opts.all_chroots \/ opts.all_sessions \/ opts.all_source_chroots
    BY <1>7
  <2>2. SelectedNames = s \o t \o u /\ Hint = ""
    BY <2>1 DEF SelectedNames, Hint
  <2>3. s \in Seq(S) /\ t \in Seq(S) /\ u \in Seq(S)
    <3>1. ListOf("chroot") \in Seq(S) /\ ListOf("session") \in Seq(S) /\ ListOf("source") \in Seq(S)
      BY ListHasListed DEF Config!Namespaces
    <3>2. <<>> \in Seq(S)
      OBVIOUS
    <3> HIDE DEF S
    <3> QED
      BY <3>1, <3>2
  <2>4. Members(<<>>) = {}
    BY DEF Members
  <2>5. /\ Members(s) = IF "chroot" \in spaces THEN Members(ListOf("chroot")) ELSE {}
        /\ Members(t) = IF "session" \in spaces THEN Members(ListOf("session")) ELSE {}
        /\ Members(u) = IF "source" \in spaces THEN Members(ListOf("source")) ELSE {}
    BY <1>7, <2>4
  <2> HIDE DEF s, t, u, S
  <2>6. s \o t \o u \in Seq(S) /\ Members(s \o t \o u) = Members(s) \cup Members(t) \cup Members(u)
    <3>1. s \o t \in Seq(S) /\ Members(s \o t) = Members(s) \cup Members(t)
      BY <2>3, MembersJoined
    <3> DEFINE st == s \o t
    <3> HIDE DEF st
    <3>2. st \in Seq(S) /\ Members(st) = Members(s) \cup Members(t)
      BY <3>1 DEF st
    <3>3. st \o u \in Seq(S) /\ Members(st \o u) = Members(st) \cup Members(u)
      BY <2>3, <3>2, MembersJoined
    <3> QED
      BY <3>2, <3>3 DEF st
  <2>7. SelectedNames \in Seq(S) /\ Members(SelectedNames) = Members(s) \cup Members(t) \cup Members(u)
    BY <2>2, <2>6
  <2>8. IsList(SelectedNames)
    BY <2>7 DEF IsList
  <2>9. \A x \in Members(SelectedNames) : \E ns \in spaces : x \in Members(ListOf(ns))
    BY <2>5, <2>7
  <2>10. \A ns \in spaces : Members(ListOf(ns)) \subseteq Members(SelectedNames)
    <3> TAKE ns \in spaces
    <3>1. ns \in {"chroot", "session", "source"}
      BY <1>7
    <3> QED
      BY <2>5, <2>7, <3>1
  <2>11. spaces \in SUBSET Config!Namespaces
    BY <1>7 DEF Config!Namespaces
  <2>12. opts.exclude_aliases <=> argv.exclude_aliases
    BY DEF Selects
  <2> QED
    BY <2>2, <2>8, <2>9, <2>10, <2>11, <2>12, ListsLeadToAll
<1>8. CASE Named = <<>> /\ some
  <2>1. Wanted = All(Spaces) /\ Spaces # {} /\ argv.all # {}
    BY <1>2, <1>3, <1>8
  <2>2. AllOfChroots <=> "chroot" \in Spaces
    BY <1>1, <2>1 DEF AllOfChroots
  <2>3. /\ opts.all_chroots <=> "chroot" \in Spaces
        /\ opts.all_sessions <=> "session" \in Spaces
        /\ opts.all_source_chroots <=> "source" \in Spaces
    BY <1>1, <1>8, <2>2 DEF Selects
  <2> QED
    BY <1>1, <1>7, <1>8, <2>1, <2>3
<1>9. CASE Named = <<>> /\ ~some
  <2>1. Wanted = fallback
    BY <1>2, <1>3, <1>9
  <2>2. /\ ~opts.all_sessions
        /\ opts.all_chroots <=> Asked \in ShowActions
        /\ opts.all_source_chroots <=> Asked \in {"list", "info"}
        /\ Asked \in SessionActions =>
             opts.chroots = IF Asked = "session_auto" THEN << <<"", <<"default", 0>>>> >> ELSE <<>>
    BY <1>9 DEF Selects
  <2>3. CASE Asked \in SessionActions
    <3>1. Asked \notin ShowActions
      BY <2>3 DEF SessionActions, ShowActions
    <3>2. /\ SelectedNames = opts.chroots
          /\ \A x : Chroot(x) = Config!find_alias(hint, x[1], x[2])
      BY <1>5, <2>2, <3>1 DEF ShowActions
    <3>3. CASE Asked = "session_auto"
      <4> DEFINE d == <<"", <<"default", 0>>>>
      <4>1. SelectedNames = <<d>>
        BY <2>2, <2>3, <3>2, <3>3
      <4>6. d[1] = "" /\ d[2] = <<"default", 0>>
        OBVIOUS
      <4> HIDE DEF d
      <4>2. DOMAIN <<d>> = 1..1 /\ <<d>>[1] = d
        OBVIOUS
      <4>3. IsList(SelectedNames) /\ Members(SelectedNames) = {d}
        BY <4>1, <4>2 DEF IsList, Members
      <4>4. Chroot(d) = Config!find_alias("chroot", "", <<"default", 0>>)
        BY <3>2, <3>3, <4>6 DEF OnSessions
      <4>5. Wanted = {Config!find_alias("chroot", "", <<"default", 0>>)}
        BY <2>1, <3>3 DEF fallback
      <4> QED
        BY <4>3, <4>4, <4>5
    <3>4. CASE Asked # "session_auto"
      <4>1. SelectedNames = <<>>
        BY <2>2, <2>3, <3>2, <3>4
      <4>2. Wanted = {}
        BY <2>1, <3>1, <3>4 DEF fallback, ShowActions
      <4>3. DOMAIN <<>> = 1..0
        OBVIOUS
      <4> QED
        BY <4>1, <4>2, <4>3 DEF IsList, Members
    <3> QED
      BY <3>3, <3>4
  <2>4. CASE Asked \in {"list", "info"}
    <3> DEFINE spaces == {"chroot", "source"}
    <3>1. Wanted = All(spaces)
      BY <2>1, <2>4 DEF fallback
    <3>2. /\ spaces \in SUBSET {"chroot", "session", "source"} /\ spaces # {}
          /\ opts.all_chroots <=> "chroot" \in spaces
          /\ opts.all_sessions <=> "session" \in spaces
          /\ opts.all_source_chroots <=> "source" \in spaces
      BY <2>2, <2>4 DEF ShowActions
    <3> HIDE DEF spaces
    <3> QED
      BY <1>7, <1>9, <3>1, <3>2
  <2>5. CASE Asked \in {"location", "config"}
    <3> DEFINE spaces == {"chroot"}
    <3>1. Wanted = All(spaces)
      BY <2>1, <2>5 DEF fallback
    <3>2. /\ spaces \in SUBSET {"chroot", "session", "source"} /\ spaces # {}
          /\ opts.all_chroots <=> "chroot" \in spaces
          /\ opts.all_sessions <=> "session" \in spaces
          /\ opts.all_source_chroots <=> "source" \in spaces
      BY <2>2, <2>5 DEF ShowActions
    <3> HIDE DEF spaces
    <3> QED
      BY <1>7, <1>9, <3>1, <3>2
  <2> QED
    BY <2>3, <2>4, <2>5 DEF ShowActions
<1> QED
  BY <1>6, <1>8, <1>9

(***************************************************************************)
(* The chroots are served one after the other.                             *)
(***************************************************************************)
\* All that is selected, and the first k of it.
Everything == {Chroot(x) : x \in Members(chroot_names)}
SoFar(k) == {Chroot(chroot_names[i]) : i \in {j \in DOMAIN chroot_names : j <= k}}

Served == SessionActions \cup ShowActions

\* The selection is made, and all of it leads somewhere.
Settled ==
    /\ Asked \in Served /\ Asked = get_action(opts) /\ Selects(opts)
    /\ chroot_names = SelectedNames /\ AllLead

\* How far the chroots were handled.
Progress ==
    /\ pc \in {"load", "select"} => Asked \in Served /\ Asked = get_action(opts) /\ Selects(opts)
    /\ (pc \notin {"options", "load", "select", "exited"} \/ handled # <<>>) => Settled
    /\ pc \in {"auth", "authenticate"} \cup InSession => Asked \in SessionActions
    /\ pc \in Before => pos = 1
    /\ Members(handled) \subseteq Everything
    /\ pc = "chroot" => Members(handled) = SoFar(pos - 1)
    /\ pc \in InSession \ {"chroot", "aborted"} => Members(handled) = SoFar(pos)
    /\ pc = "exited" /\ status = 0 /\ Asked \in Served =>
         /\ Settled
         /\ Members(handled) = IF Asked = "config" THEN {w \in Everything : w[1] # "source"}
                               ELSE Everything

ServedInv == SelectInv /\ ConfigNames /\ Progress

\* Nothing is handled in an empty list.
LEMMA NoMembers == Members(<<>>) = {}
BY DEF Members

\* The lists change only with the configuration.
LEMMA ListsKept ==
  ASSUME opts' = opts, chroots' = chroots, aliases' = aliases
  PROVE  \A ns : ListOf(ns)' = ListOf(ns)
<1>1. \A ns, n : Listed(ns, n)' = Listed(ns, n)
  BY DEF Listed, Config!InNamespace
<1> TAKE ns
<1> DEFINE I == {i \in DOMAIN NameOrder : Listed(ns, NameOrder[i])}
<1> DEFINE J == {i \in DOMAIN NameOrder : Listed(ns, NameOrder[i])'}
<1>2. I = J
  BY <1>1
<1>3. /\ ListOf(ns) = [n \in DOMAIN Ascending(I) |-> <<ns, NameOrder[Ascending(I)[n]]>>]
      /\ ListOf(ns)' = [n \in DOMAIN Ascending(J) |-> <<ns, NameOrder[Ascending(J)[n]]>>]
  BY DEF ListOf
<1> HIDE DEF I, J
<1> QED
  BY <1>2, <1>3

\* What a name leads to and what was asked for change only with the selection.
LEMMA SettledKept ==
  ASSUME UNCHANGED <<inputs, selection>>
  PROVE  /\ ConfigNames' = ConfigNames
         /\ Asked' = Asked /\ Selects(opts)' = Selects(opts)
         /\ Settled' = Settled
         /\ \A x : Chroot(x)' = Chroot(x)
         /\ Everything' = Everything
         /\ \A k : SoFar(k)' = SoFar(k)
         /\ opts' = opts /\ chroot_names' = chroot_names
<1>1. /\ opts' = opts /\ chroots' = chroots /\ aliases' = aliases /\ argv' = argv
      /\ chroot_names' = chroot_names /\ AllLead' = AllLead
  BY LookupKept DEF inputs
<1>2. ConfigNames' = ConfigNames
  BY <1>1 DEF ConfigNames
<1>3. Asked' = Asked /\ Named' = Named
  BY <1>1 DEF Asked, Named
<1>4. AllOfChroots' = AllOfChroots /\ AllOfSources' = AllOfSources /\ AllOfSessions' = AllOfSessions
  BY <1>1 DEF AllOfChroots, AllOfSources, AllOfSessions
<1>5. Selects(opts)' = Selects(opts)
  BY <1>1, <1>3, <1>4 DEF Selects
<1>6. \A x : Chroot(x)' = Chroot(x)
  BY <1>1 DEF Chroot, Hint, SessionOperation, Config!find_alias, Config!InNamespace,
              Config!get_namespace
<1>7. \A ns : ListOf(ns)' = ListOf(ns)
  BY <1>1, ListsKept
<1>8. SelectedNames' = SelectedNames
  BY <1>1, <1>7 DEF SelectedNames
<1>9. Settled' = Settled
  BY <1>1, <1>3, <1>5, <1>8 DEF Settled
<1>10. Everything' = Everything
  BY <1>1, <1>6 DEF Everything
<1>11. \A k : SoFar(k)' = SoFar(k)
  BY <1>1, <1>6 DEF SoFar
<1> QED
  BY <1>1, <1>2, <1>3, <1>5, <1>6, <1>9, <1>10, <1>11

\* What is settled is what the user asked for.
LEMMA SettledIsWanted ==
  ASSUME SelectInv, ConfigNames, Settled
  PROVE  IsList(chroot_names) /\ Everything = Wanted
BY SelectedIsWanted DEF SelectInv, Settled, Everything, Served

\* A step that handles nothing and does not end well.
LEMMA ProgressKept ==
  ASSUME ServedInv, UNCHANGED <<inputs, selection, handled>>,
         pc \in Places \ {"options", "load", "select", "exited"},
         pc' \in Places \ {"options", "load", "select"},
         pc' \in {"auth", "authenticate"} \cup InSession => Asked \in SessionActions,
         pc' \in Before => pos' = 1,
         pc' = "chroot" => Members(handled) = SoFar(pos' - 1),
         pc' \in InSession \ {"chroot", "aborted"} => Members(handled) = SoFar(pos'),
         pc' = "exited" => status' # 0
  PROVE  ConfigNames' /\ Progress'
<1>1. /\ ConfigNames' = ConfigNames /\ Asked' = Asked /\ Settled' = Settled
      /\ Everything' = Everything /\ handled' = handled
      /\ chroot_names' = chroot_names /\ \A x : Chroot(x)' = Chroot(x)
  BY SettledKept
<1>3. SoFar(pos)' = SoFar(pos') /\ SoFar(pos - 1)' = SoFar(pos' - 1)
  BY <1>1 DEF SoFar
<1>4. Settled
  BY DEF ServedInv, Progress
<1> QED
  BY <1>1, <1>3, <1>4 DEF ServedInv, Progress, Members

\* The options are checked.
LEMMA ParseServes ==
  ASSUME ServedInv, Parse
  PROVE  ConfigNames' /\ Progress'
<1> DEFINE o == check_options(argv, opts.load_chroots)
<1>1. /\ pc = "options" /\ UNCHANGED <<inputs, chroots, aliases, chroot_names, pos, handled>>
      /\ opts' = IF o.error THEN o ELSE check_actions(o)
      /\ \/ pc' = "exited" /\ status' = 1
         \/ pc' = "exited" /\ ~opts'.error /\ get_action(opts') \in {"help", "version"}
         \/ pc' = "load" /\ ~opts'.error /\ get_action(opts') \notin {"help", "version"}
  BY DEF Parse, Exit, Go
<1>2. /\ Given /\ handled = <<>> /\ handled' = handled /\ pos = 1 /\ pos' = pos /\ argv' = argv
  BY <1>1 DEF ServedInv, SelectInv, Ordered, Progress, Before, inputs
<1>3. ConfigNames'
  BY <1>1 DEF ServedInv, ConfigNames
<1>4. Asked' = Asked /\ Named' = Named /\ AllOfChroots' = AllOfChroots
      /\ AllOfSources' = AllOfSources /\ AllOfSessions' = AllOfSessions
  BY <1>2 DEF Asked, Named, AllOfChroots, AllOfSources, AllOfSessions
<1>5. ASSUME ~opts'.error
      PROVE  Asked = get_action(opts') /\ Asked \in AllActions
  <2>1. Chosen(opts', argv)
    BY <1>2, <1>5, ParseAccepts DEF Accepted
  <2>2. argv.actions \subseteq AllActions
    BY <1>2, GivenArgv
  <2>3. argv.actions # {} => TheAction(argv.actions) \in argv.actions
    BY DEF TheAction
  <2>4. "" \notin AllActions /\ "session_auto" \in AllActions
    BY DEF AllActions, SessionActions, ShowActions
  <2>5. argv.actions # {} => TheAction(argv.actions) # ""
    BY <2>2, <2>3, <2>4
  <2> QED
    BY <2>1, <2>2, <2>3, <2>4, <2>5 DEF Asked, get_action, Chosen
<1>6. ASSUME pc' = "load"
      PROVE  Asked \in Served /\ Asked = get_action(opts') /\ Selects(opts')
  <2>1. /\ ~opts'.error /\ Asked = get_action(opts')
        /\ Asked \in SessionActions \cup ShowActions
    BY <1>1, <1>5, <1>6 DEF AllActions
  <2>2. ~o.error /\ opts' = check_actions(o)
    <3> HIDE DEF o
    <3> QED
      BY <1>1, <2>1
  <2>3. Checked(o) /\ get_action(o) = Asked
    BY <1>2, <2>2, OptionsChecked
  <2> HIDE DEF o
  <2>4. Selects(opts')
    BY <2>1, <2>2, <2>3, ActionsSelect
  <2> QED
    BY <2>1, <2>4 DEF Served
<1>7. pc' = "load" => Selects(opts)'
  BY <1>2, <1>4, <1>6 DEF Selects
<1>8. pc' = "exited" => status' # 0 \/ Asked' \notin Served
  BY <1>1, <1>4, <1>5 DEF Served, SessionActions, ShowActions
<1>9. Members(handled)' = {}
  BY <1>2 DEF Members
<1> HIDE DEF o
<1> QED
  BY <1>1, <1>2, <1>3, <1>4, <1>6, <1>7, <1>8, <1>9 DEF Progress, Before, InSession, InTheChild

\* The configuration is loaded.
LEMMA LoadServes ==
  ASSUME ServedInv, load_config
  PROVE  ConfigNames' /\ Progress'
<1> DEFINE defs == (IF opts.load_chroots THEN ChrootDefs ELSE {})
                   \cup (IF opts.load_sessions THEN SessionDefs ELSE {})
<1> DEFINE cs == Defined(defs)
<1> DEFINE leads == Leads(cs)
<1>1. /\ pc = "load" /\ UNCHANGED <<inputs, opts, chroot_names, pos, handled>>
      /\ pc' = "select" \/ (pc' = "exited" /\ status' = 1)
      /\ chroots' = cs
      /\ aliases' = [k \in {l[1] : l \in leads} |-> (CHOOSE l \in leads : l[1] = k)[2]]
  BY DEF load_config, Exit, Go
<1>2. /\ handled = <<>> /\ handled' = handled /\ pos = 1 /\ pos' = pos /\ argv' = argv
      /\ opts' = opts
      /\ Asked \in Served /\ Asked = get_action(opts) /\ Selects(opts)
  BY <1>1 DEF ServedInv, SelectInv, Ordered, Progress, Before, inputs
<1>3. cs \subseteq AllDefined
  BY DEF AllDefined, Defined
<1> HIDE DEF cs
<1>4. \A c \in cs : <<Config!Full(c), Config!Full(c)>> \in leads
  BY DEF Leads, OwnNames
<1>5. \A l \in leads : l = <<l[1], l[2]>>
  <2>1. \A x \in OwnNames(cs) : x = <<x[1], x[2]>>
    BY DEF OwnNames
  <2>2. \A x \in ProxyNames(cs) : x = <<x[1], x[2]>>
    BY DEF ProxyNames
  <2>3. \A x \in AliasNames(cs) : x = <<x[1], x[2]>>
    BY DEF AliasNames
  <2>4. \A x \in SourceNames(cs) : x = <<x[1], x[2]>>
    BY DEF SourceNames
  <2> QED
    BY <2>1, <2>2, <2>3, <2>4 DEF Leads
<1>6. Leads(cs) = leads
  OBVIOUS
<1> HIDE DEF leads
<1>7. \A k \in DOMAIN aliases' : <<k, aliases'[k]>> \in leads
  <2> SUFFICES ASSUME NEW k \in DOMAIN aliases'
               PROVE  <<k, aliases'[k]>> \in leads
    OBVIOUS
  <2> DEFINE m == CHOOSE l \in leads : l[1] = k
  <2>1. \E l \in leads : l[1] = k
    BY <1>1
  <2>2. m \in leads /\ m[1] = k
    BY <2>1
  <2>3. aliases'[k] = m[2]
    BY <1>1
  <2> HIDE DEF m
  <2> QED
    BY <2>2, <2>3, <1>5
<1>8. \A c \in cs : Config!Full(c) \in DOMAIN aliases'
  <2> TAKE c \in cs
  <2> DEFINE l == <<Config!Full(c), Config!Full(c)>>
  <2>1. l \in leads /\ l[1] = Config!Full(c)
    BY <1>4
  <2> HIDE DEF l
  <2> QED
    BY <2>1, <1>1
<1>9. ConfigNames'
  BY <1>1, <1>3, <1>6, <1>7, <1>8 DEF ConfigNames
<1>10. Asked' = Asked /\ Selects(opts)' = Selects(opts)
  BY <1>2 DEF Asked, Named, AllOfChroots, AllOfSources, AllOfSessions, Selects
<1>11. Members(handled)' = {}
  BY <1>2 DEF Members
<1> QED
  BY <1>1, <1>2, <1>9, <1>10, <1>11 DEF Progress, Before, InSession, InTheChild

\* The selection is made.
LEMMA SelectServes ==
  ASSUME ServedInv, get_chroot_options
  PROVE  ConfigNames' /\ Progress'
<1>1. /\ pc = "select" /\ UNCHANGED <<inputs, opts, chroots, aliases, pos, handled>>
      /\ chroot_names' = SelectedNames
      /\ \/ pc' = "exited" /\ status' = 1
         \/ pc' = "exited" /\ SelectedNames = <<>>
         \/ pc' = "dispatch" /\ \A i \in DOMAIN SelectedNames :
                                  Chroot(SelectedNames[i]) # Config!NotFound
  BY DEF get_chroot_options, Exit, Go
<1>2. /\ handled = <<>> /\ handled' = handled /\ pos = 1 /\ pos' = pos /\ argv' = argv
      /\ opts' = opts /\ chroots' = chroots /\ aliases' = aliases
      /\ Asked \in Served /\ Asked = get_action(opts) /\ Selects(opts)
  BY <1>1 DEF ServedInv, SelectInv, Ordered, Progress, Before, inputs
<1>3. ConfigNames'
  BY <1>2 DEF ServedInv, ConfigNames
<1>4. Asked' = Asked /\ Selects(opts)' = Selects(opts)
  BY <1>2 DEF Asked, Named, AllOfChroots, AllOfSources, AllOfSessions, Selects
<1>5. \A x : Chroot(x)' = Chroot(x)
  BY <1>2 DEF Chroot, Hint, SessionOperation, Config!find_alias, Config!InNamespace,
              Config!get_namespace
<1>6. SelectedNames' = SelectedNames
  BY <1>2, ListsKept DEF SelectedNames
<1>7. SelectedNames = <<>> => Everything' = {}
  BY <1>1 DEF Everything, Members
<1>8. pc' = "dispatch" \/ SelectedNames = <<>> => Settled'
  BY <1>1, <1>2, <1>4, <1>5, <1>6 DEF Settled, AllLead
<1>9. Members(handled)' = {}
  BY <1>2 DEF Members
<1>10. Progress'
  <2>1. CASE pc' = "dispatch"
    BY <2>1, <1>2, <1>8, <1>9 DEF Progress, Before, InSession, InTheChild
  <2>2. CASE pc' = "exited" /\ status' = 1
    BY <2>2, <1>2, <1>9 DEF Progress, Before, InSession, InTheChild
  <2>3. CASE pc' = "exited" /\ SelectedNames = <<>>
    BY <2>3, <1>2, <1>7, <1>8, <1>9 DEF Progress, Before, InSession, InTheChild
  <2> QED
    BY <1>1, <2>1, <2>2, <2>3
<1> QED
  BY <1>3, <1>10

\* What is shown is what was selected.
LEMMA ShownIsSelected ==
  ASSUME IsList(chroot_names), NEW a
  PROVE  Members(Shown(a)) = IF a = "config" THEN {w \in Everything : w[1] # "source"}
                             ELSE Everything
<1> DEFINE I == {i \in DOMAIN chroot_names : a = "config" => Chroot(chroot_names[i])[1] # "source"}
<1> DEFINE m == Cardinality(I)
<1> DEFINE order == Ascending(I)
<1> DEFINE list == [n \in DOMAIN order |-> Chroot(chroot_names[order[n]])]
<1>1. Shown(a) = list
  BY DEF Shown
<1>2. PICK k \in Nat : DOMAIN chroot_names = 1..k
  BY DEF IsList
<1>3. I \in SUBSET (1..k)
  BY <1>2
<1>4. {Chroot(chroot_names[i]) : i \in I} =
        IF a = "config" THEN {w \in Everything : w[1] # "source"} ELSE Everything
  BY DEF Everything, Members
<1> HIDE DEF I
<1>5. /\ order \in [1..m -> I] /\ \A i \in I : \E n \in 1..m : order[n] = i
  BY <1>3, AscendingLists
<1> HIDE DEF order, m
<1>6. DOMAIN list = 1..m /\ \A n \in 1..m : list[n] = Chroot(chroot_names[order[n]]) /\ order[n] \in I
  BY <1>5
<1> HIDE DEF list
<1>7. Members(list) = {Chroot(chroot_names[i]) : i \in I}
  BY <1>5, <1>6 DEF Members
<1> QED
  BY <1>1, <1>4, <1>7

\* The actions that show, and the way to the session.
LEMMA DispatchServes ==
  ASSUME ServedInv, Dispatch
  PROVE  ConfigNames' /\ Progress'
<1>1. /\ pc = "dispatch" /\ UNCHANGED <<inputs, selection>>
      /\ \/ pc' = "exited" /\ get_action(opts) \in ShowActions /\ handled' = Shown(get_action(opts))
            /\ pos' = pos
         \/ pc' = "exited" /\ status' = 1 /\ UNCHANGED <<pos, handled>>
         \/ pc' = "auth" /\ get_action(opts) \notin ShowActions /\ UNCHANGED <<pos, handled>>
  BY DEF Dispatch, Exit, Go, Show
<1>2. /\ Settled /\ Asked \in Served /\ Asked = get_action(opts) /\ pos = 1
  BY <1>1 DEF ServedInv, Progress, Settled, Before
<1>3. CASE pc' = "exited" /\ get_action(opts) \in ShowActions /\ handled' = Shown(get_action(opts))
           /\ pos' = pos
  <2>1. /\ ConfigNames' = ConfigNames /\ Asked' = Asked /\ Settled' = Settled
        /\ Everything' = Everything
    BY <1>1, SettledKept
  <2>2. IsList(chroot_names)
    BY <1>2, SettledIsWanted DEF ServedInv
  <2>3. Members(Shown(Asked)) = IF Asked = "config" THEN {w \in Everything : w[1] # "source"}
                                ELSE Everything
    BY <2>2, ShownIsSelected
  <2>4. Members(handled)' = Members(Shown(Asked))
    BY <1>2, <1>3 DEF Members
  <2> QED
    BY <1>2, <1>3, <2>1, <2>3, <2>4 DEF ServedInv, Progress, Before, InSession, InTheChild
<1>4. CASE pc' = "exited" /\ status' = 1 /\ UNCHANGED <<pos, handled>>
  BY <1>1, <1>4, ProgressKept DEF Places, Before, InSession, InTheChild
<1>5. CASE pc' = "auth" /\ get_action(opts) \notin ShowActions /\ UNCHANGED <<pos, handled>>
  BY <1>1, <1>2, <1>5, ProgressKept DEF Places, Before, InSession, InTheChild, Served
<1> QED
  BY <1>1, <1>3, <1>4, <1>5

\* One more chroot is handled.
LEMMA SetUpServes ==
  ASSUME ServedInv, SetUpChroot
  PROVE  ConfigNames' /\ Progress'
<1>1. /\ pc = "chroot" /\ UNCHANGED <<inputs, selection>> /\ pos' = pos
      /\ pos \in DOMAIN chroot_names
      /\ handled' = Append(handled, Current) /\ pc' \in {"aborted", "scripts", "setup"}
  BY DEF SetUpChroot
<1>2. /\ Settled /\ Asked \in SessionActions /\ Members(handled) = SoFar(pos - 1)
      /\ pos \in Nat /\ ConfigNames /\ SelectInv
  BY <1>1 DEF ServedInv, SelectInv, Ordered, Progress, InSession
<1>3. /\ ConfigNames' = ConfigNames /\ Asked' = Asked /\ Settled' = Settled
      /\ Everything' = Everything
      /\ chroot_names' = chroot_names /\ \A x : Chroot(x)' = Chroot(x)
  BY <1>1, SettledKept
<1>4. SoFar(pos)' = SoFar(pos)
  BY <1>1, <1>3 DEF SoFar
<1>5. SoFar(pos) = SoFar(pos - 1) \cup {Current}
  <2>1. PICK k \in Nat : DOMAIN chroot_names = 1..k
    BY <1>2, SettledIsWanted DEF IsList
  <2>2. {j \in DOMAIN chroot_names : j <= pos} = {j \in DOMAIN chroot_names : j <= pos - 1} \cup {pos}
    BY <1>1, <1>2, <2>1
  <2> QED
    BY <2>2 DEF SoFar, Current
<1>6. Members(handled)' = Members(handled) \cup {Current}
  <2> DEFINE S == {Config!Full(c) : c \in chroots} \cup {Current}
  <2>1. handled \in Seq({Config!Full(c) : c \in chroots})
    BY <1>2 DEF SelectInv, HandledFits
  <2>2. handled \in Seq(S)
    BY <2>1
  <2>3. Current \in S
    OBVIOUS
  <2> HIDE DEF S
  <2>4. /\ DOMAIN handled' = 1..(Len(handled) + 1) /\ DOMAIN handled = 1..Len(handled)
        /\ Len(handled) \in Nat
        /\ \A i \in 1..Len(handled) : handled'[i] = handled[i]
        /\ handled'[Len(handled) + 1] = Current
    BY <1>1, <2>2, <2>3
  <2>5. DOMAIN handled' = DOMAIN handled \cup {Len(handled) + 1}
    BY <2>4
  <2> QED
    BY <2>4, <2>5 DEF Members
<1>7. SoFar(pos) \subseteq Everything
  BY DEF SoFar, Everything, Members
<1> QED
  BY <1>1, <1>2, <1>3, <1>4, <1>5, <1>6, <1>7 DEF Progress, Before, InSession, InTheChild

\* The end of the list is reached.
LEMMA FinishedServes ==
  ASSUME ServedInv, Finished
  PROVE  ConfigNames' /\ Progress'
<1>1. /\ pc = "chroot" /\ UNCHANGED <<inputs, selection>> /\ pos' = pos /\ handled' = handled
      /\ pos \notin DOMAIN chroot_names /\ pc' = "exited"
  BY DEF Finished, Exit
<1>2. /\ Settled /\ Asked \in SessionActions /\ Members(handled) = SoFar(pos - 1)
      /\ pos \in Nat /\ pos >= 1 /\ ConfigNames /\ SelectInv
  BY <1>1 DEF ServedInv, SelectInv, Ordered, Progress, InSession
<1>3. /\ ConfigNames' = ConfigNames /\ Asked' = Asked /\ Settled' = Settled
      /\ Everything' = Everything
  BY <1>1, SettledKept
<1>4. SoFar(pos - 1) = Everything
  <2>1. PICK k \in Nat : DOMAIN chroot_names = 1..k
    BY <1>2, SettledIsWanted DEF IsList
  <2>2. {j \in DOMAIN chroot_names : j <= pos - 1} = DOMAIN chroot_names
    BY <1>1, <1>2, <2>1
  <2> QED
    BY <2>2 DEF SoFar, Everything, Members
<1>5. Members(handled)' = Members(handled)
  BY <1>1 DEF Members
<1>6. Asked # "config"
  BY <1>2 DEF SessionActions
<1> QED
  BY <1>1, <1>2, <1>3, <1>4, <1>5, <1>6 DEF Progress, Before, InSession, InTheChild

\* Every step keeps the selection and how far it was served.
LEMMA ServedInvStep == ServedInv /\ [Next]_vars => ServedInv'
<1> SUFFICES ASSUME ServedInv, [Next]_vars
             PROVE  ServedInv'
  OBVIOUS
<1>0. SelectInv'
  BY SelectInvStep DEF ServedInv
<1> USE DEF Places, Before, InSession, InTheChild
<1>a. pos \in Nat /\ (pc \in Before => pos = 1 /\ handled = <<>>)
  BY DEF ServedInv, SelectInv, Ordered, Progress
<1>1. CASE AddSessionAuth \/ Authenticate
  <2>1. /\ UNCHANGED <<inputs, selection, handled, pos>> /\ pc \in {"auth", "authenticate"}
        /\ pc' \in {"authenticate", "chroot"} \/ (pc' = "exited" /\ status' = 1)
    BY <1>1 DEF AddSessionAuth, Authenticate, Exit, Go
  <2>2. Settled /\ Asked \in SessionActions
    BY <2>1 DEF ServedInv, Progress
  <2>3. Members(handled) = SoFar(0)
    <3>1. PICK k \in Nat : DOMAIN chroot_names = 1..k
      BY <2>2, SettledIsWanted DEF IsList, ServedInv
    <3>2. {j \in DOMAIN chroot_names : j <= 0} = {}
      BY <3>1
    <3>3. SoFar(0) = {}
      BY <3>2 DEF SoFar
    <3> QED
      BY <2>1, <3>3, <1>a, NoMembers
  <2>4. pos' = 1 /\ pos' - 1 = 0
    BY <2>1, <1>a
  <2>9. ConfigNames' /\ Progress'
    BY <2>1, <2>2, <2>3, <2>4, ProgressKept
  <2> QED
    BY <1>0, <2>9 DEF ServedInv
<1>2. CASE RefuseChroot \/ RefuseData
  <2>1. /\ UNCHANGED <<inputs, selection, handled, pos>> /\ pc = "chroot"
        /\ pc' = "aborted" \/ (pc' = "exited" /\ status' # 0)
    BY <1>2 DEF RefuseChroot, RefuseData, Exit
  <2>2. Asked \in SessionActions
    BY <2>1 DEF ServedInv, Progress
  <2>9. ConfigNames' /\ Progress'
    BY <2>1, <2>2, ProgressKept
  <2> QED
    BY <1>0, <2>9 DEF ServedInv
<1>3. CASE SetupScriptsEnd
  <2>1. /\ UNCHANGED <<inputs, selection, handled, pos>> /\ pc = "scripts"
        /\ pc' = "setup" \/ (pc' = "exited" /\ status' = 1)
    BY <1>3 DEF SetupScriptsEnd, Go, Exit
  <2>2. Asked \in SessionActions /\ Members(handled) = SoFar(pos) /\ pos' = pos
    BY <2>1 DEF ServedInv, Progress
  <2>9. ConfigNames' /\ Progress'
    BY <2>1, <2>2, ProgressKept
  <2> QED
    BY <1>0, <2>9 DEF ServedInv
<1>4. CASE RunChroot \/ Wait
  <2>1. /\ UNCHANGED <<inputs, selection, handled>> /\ pc \in {"setup", "running", "reap"}
        /\ (pc' = "child" /\ pos' = pos) \/ (pc' = "chroot" /\ pos' = pos + 1)
    BY <1>4 DEF RunChroot, Wait
  <2>2. Asked \in SessionActions /\ Members(handled) = SoFar(pos)
    BY <2>1 DEF ServedInv, Progress
  <2>3. pc' = "chroot" => pos' - 1 = pos
    BY <2>1, <1>a
  <2>4. /\ pc' = "chroot" => Members(handled) = SoFar(pos' - 1)
        /\ pc' = "child" => Members(handled) = SoFar(pos')
    BY <2>1, <2>2, <2>3
  <2>9. ConfigNames' /\ Progress'
    BY <2>1, <2>2, <2>4, ProgressKept
  <2> QED
    BY <1>0, <2>9 DEF ServedInv
<1>5. CASE \/ SetEnvironment \/ SetGroups \/ SetPersonality \/ EnterChroot \/ SetUser
           \/ CheckRoot \/ Chdir \/ GetCommand \/ Exec \/ ChildFails
  <2>1. /\ UNCHANGED <<inputs, selection, handled, pos>> /\ pc \in InTheChild
        /\ pc' \in InTheChild \cup {"reap"}
    BY <1>5 DEF SetEnvironment, SetGroups, SetPersonality, EnterChroot, SetUser, CheckRoot, Chdir,
                GetCommand, Exec, ChildFails, InChild
  <2>2. Asked \in SessionActions /\ Members(handled) = SoFar(pos) /\ pos' = pos
    BY <2>1 DEF ServedInv, Progress
  <2>9. ConfigNames' /\ Progress'
    BY <2>1, <2>2, ProgressKept
  <2> QED
    BY <1>0, <2>9 DEF ServedInv
<1>6. CASE UNCHANGED vars
  <2>1. /\ UNCHANGED <<inputs, selection>> /\ handled' = handled /\ pos' = pos /\ pc' = pc
        /\ status' = status
    BY <1>6 DEF vars, inputs, selection
  <2>2. /\ ConfigNames' = ConfigNames /\ Asked' = Asked /\ Settled' = Settled
        /\ Selects(opts)' = Selects(opts) /\ Everything' = Everything /\ opts' = opts
        /\ chroot_names' = chroot_names /\ \A x : Chroot(x)' = Chroot(x)
    BY <2>1, SettledKept
  <2>3. SoFar(pos)' = SoFar(pos) /\ SoFar(pos - 1)' = SoFar(pos - 1)
    BY <2>1, <2>2 DEF SoFar
  <2>4. Members(handled)' = Members(handled)
    BY <2>1 DEF Members
  <2> QED
    BY <1>0, <2>1, <2>2, <2>3, <2>4 DEF ServedInv, Progress
<1> QED
  BY <1>0, <1>1, <1>2, <1>3, <1>4, <1>5, <1>6, ParseServes, LoadServes, SelectServes,
     DispatchServes, SetUpServes, FinishedServes
  DEF Next, ServedInv

\* Whatever the command line, the definitions and the aliases are: no chroot is
\* touched unless all that the user asked for exist, none but those are touched,
\* and the exit status says success only if all of them were.
THEOREM SelectionIsServed == Spec => []SelectionServed
<1>1. Init => ServedInv
  <2> SUFFICES ASSUME Init
               PROVE  ConfigNames /\ Progress /\ SelectInv
    BY DEF ServedInv
  <2>1. /\ pc = "options" /\ chroots = {} /\ DOMAIN aliases = {} /\ chroot_names = <<>> /\ pos = 1
        /\ handled = <<>>
    BY DEF Init, Empty
  <2>2. ConfigNames
    BY <2>1 DEF ConfigNames
  <2>3. Progress
    BY <2>1, NoMembers DEF Progress, InSession, InTheChild
  <2>4. SelectInv
    BY SelectInvInitially
  <2> QED
    BY <2>2, <2>3, <2>4
<1>2. ServedInv => SelectionServed
  <2> SUFFICES ASSUME ServedInv
               PROVE  SelectionServed
    OBVIOUS
  <2>1. Settled => Everything = Wanted
    BY SettledIsWanted DEF ServedInv
  <2>2. Settled => Config!NotFound \notin Everything
    BY DEF Settled, AllLead, Everything, Members
  <2>3. Members(handled) # {} => handled # <<>>
    BY NoMembers
  <2>4. Members(handled) # {} => Settled /\ Members(handled) \subseteq Everything
    BY <2>3 DEF ServedInv, Progress
  <2>5. pc = "exited" /\ status = 0 /\ Asked \in Served =>
          /\ Settled
          /\ Members(handled) = IF Asked = "config" THEN {w \in Everything : w[1] # "source"}
                                ELSE Everything
    BY DEF ServedInv, Progress
  <2> QED
    BY <2>1, <2>2, <2>4, <2>5 DEF SelectionServed, Members, Served
<1> QED
  BY <1>1, <1>2, ServedInvStep, PTL DEF Spec

(***************************************************************************)
(* The loops over the keys of a map.                                       *)
(***************************************************************************)
\* The number of keys.
Last == Len(KeyOrder)

\* KeyOrder is a list.
LEMMA LastIsNat == Last \in Nat /\ DOMAIN KeyOrder = 1..Last
BY KeyAssumption DEF Last

\* Induction up to a number, for a set.
LEMMA UpTo ==
  ASSUME NEW N \in Nat, NEW S, 0 \in S, \A n \in 1..N : n - 1 \in S => n \in S
  PROVE  \A n \in 0..N : n \in S
<1> DEFINE Bad == {n \in 0..N : n \notin S}
<1> SUFFICES ASSUME Bad # {}
             PROVE  FALSE
  OBVIOUS
<1>1. Bad \in SUBSET Nat
  OBVIOUS
<1>2. PICK n \in Bad : \A m \in Bad : n <= m
  <2> HIDE DEF Bad
  <2> QED
    BY <1>1, SmallestExists
<1>3. n \in 1..N /\ n - 1 \in 0..N /\ n \notin S
  BY <1>2
<1>4. n - 1 \notin Bad
  BY <1>2, <1>3
<1> QED
  BY <1>3, <1>4

\* set_keyfile goes through the keys one by one.
LEMMA KeyfileLoop ==
  ASSUME NEW u, NEW more
  PROVE  \E g : /\ g[0] = u
                /\ \A n \in 1..Last : g[n] = read_data(g[n - 1], KeyOrder[n], more)
                /\ set_keyfile(u, more) = g[Last]
<1> DEFINE Step(v, n) == read_data(v, KeyOrder[n], more)
<1> DEFINE Run(g, n) == g = [i \in 0..n |-> IF i = 0 THEN u ELSE Step(g[i - 1], i)]
<1> DEFINE S == {n \in 0..Last : \E g : Run(g, n)}
<1>0. Last \in Nat
  BY LastIsNat
<1>1. set_keyfile(u, more) = (CHOOSE g : Run(g, Last))[Last]
  BY DEF set_keyfile, Last
<1> HIDE DEF Step
<1>2. 0 \in S
  <2>1. Run([i \in 0..0 |-> u], 0)
    OBVIOUS
  <2>2. 0 \in 0..Last
    BY <1>0
  <2> HIDE DEF Run
  <2> QED
    BY <2>1, <2>2
<1>3. \A n \in 1..Last : n - 1 \in S => n \in S
  <2> SUFFICES ASSUME NEW n \in 1..Last, n - 1 \in S
               PROVE  \E h : Run(h, n)
    BY <1>0
  <2>2. n \in Nat /\ n # 0
    BY <1>0
  <2>5. PICK g : Run(g, n - 1)
    OBVIOUS
  <2> DEFINE h == [i \in 0..n |-> IF i < n THEN g[i] ELSE Step(g[n - 1], n)]
  <2>6. \A i \in 0..n : h[i] = IF i = 0 THEN u ELSE Step(h[i - 1], i)
    <3> TAKE i \in 0..n
    <3>1. CASE i = n
      BY <2>2, <3>1
    <3>2. CASE i # n
      <4>1. i \in 0..(n - 1) /\ i < n /\ (i # 0 => i - 1 \in 0..n /\ i - 1 < n)
        BY <2>2, <3>2
      <4>2. g[i] = IF i = 0 THEN u ELSE Step(g[i - 1], i)
        BY <2>5, <4>1
      <4>3. h[i] = g[i] /\ (i # 0 => h[i - 1] = g[i - 1])
        BY <4>1
      <4> QED
        BY <4>2, <4>3
    <3> QED
      BY <3>1, <3>2
  <2>7. Run(h, n)
    <3>1. h = [i \in 0..n |-> h[i]]
      OBVIOUS
    <3> HIDE DEF h
    <3> QED
      BY <2>6, <3>1
  <2> QED
    BY <2>7
<1>4. \E k : Run(k, Last)
  <2>1. Last \in 0..Last
    BY <1>0
  <2>2. Last \in S
    <3> HIDE DEF S
    <3> QED
      BY <1>0, <1>2, <1>3, <2>1, UpTo
  <2> QED
    BY <2>2
<1>5. PICK g : g = CHOOSE k : Run(k, Last)
  OBVIOUS
<1>6. Run(g, Last)
  <2> HIDE DEF Run
  <2> QED
    BY <1>4, <1>5
<1>7. g[0] = u /\ \A n \in 1..Last : g[n] = Step(g[n - 1], n)
  BY <1>0, <1>6
<1> QED
  BY <1>1, <1>5, <1>7 DEF Step
\* set_user_data goes through the keys one by one.
LEMMA OptionLoop ==
  ASSUME NEW u, NEW more, NEW allowed
  PROVE  \E g : /\ g[0] = u
                /\ \A n \in 1..Last : g[n] = modify_data(g[n - 1], KeyOrder[n], more, allowed)
                /\ set_user_data(u, more, allowed) = g[Last]
<1> DEFINE Step(v, n) == modify_data(v, KeyOrder[n], more, allowed)
<1> DEFINE Run(g, n) == g = [i \in 0..n |-> IF i = 0 THEN u ELSE Step(g[i - 1], i)]
<1> DEFINE S == {n \in 0..Last : \E g : Run(g, n)}
<1>0. Last \in Nat
  BY LastIsNat
<1>1. set_user_data(u, more, allowed) = (CHOOSE g : Run(g, Last))[Last]
  BY DEF set_user_data, Last
<1> HIDE DEF Step
<1>2. 0 \in S
  <2>1. Run([i \in 0..0 |-> u], 0)
    OBVIOUS
  <2>2. 0 \in 0..Last
    BY <1>0
  <2> HIDE DEF Run
  <2> QED
    BY <2>1, <2>2
<1>3. \A n \in 1..Last : n - 1 \in S => n \in S
  <2> SUFFICES ASSUME NEW n \in 1..Last, n - 1 \in S
               PROVE  \E h : Run(h, n)
    BY <1>0
  <2>2. n \in Nat /\ n # 0
    BY <1>0
  <2>5. PICK g : Run(g, n - 1)
    OBVIOUS
  <2> DEFINE h == [i \in 0..n |-> IF i < n THEN g[i] ELSE Step(g[n - 1], n)]
  <2>6. \A i \in 0..n : h[i] = IF i = 0 THEN u ELSE Step(h[i - 1], i)
    <3> TAKE i \in 0..n
    <3>1. CASE i = n
      BY <2>2, <3>1
    <3>2. CASE i # n
      <4>1. i \in 0..(n - 1) /\ i < n /\ (i # 0 => i - 1 \in 0..n /\ i - 1 < n)
        BY <2>2, <3>2
      <4>2. g[i] = IF i = 0 THEN u ELSE Step(g[i - 1], i)
        BY <2>5, <4>1
      <4>3. h[i] = g[i] /\ (i # 0 => h[i - 1] = g[i - 1])
        BY <4>1
      <4> QED
        BY <4>2, <4>3
    <3> QED
      BY <3>1, <3>2
  <2>7. Run(h, n)
    <3>1. h = [i \in 0..n |-> h[i]]
      OBVIOUS
    <3> HIDE DEF h
    <3> QED
      BY <2>6, <3>1
  <2> QED
    BY <2>7
<1>4. \E k : Run(k, Last)
  <2>1. Last \in 0..Last
    BY <1>0
  <2>2. Last \in S
    <3> HIDE DEF S
    <3> QED
      BY <1>0, <1>2, <1>3, <2>1, UpTo
  <2> QED
    BY <2>2
<1>5. PICK g : g = CHOOSE k : Run(k, Last)
  OBVIOUS
<1>6. Run(g, Last)
  <2> HIDE DEF Run
  <2> QED
    BY <1>4, <1>5
<1>7. g[0] = u /\ \A n \in 1..Last : g[n] = Step(g[n - 1], n)
  BY <1>0, <1>6
<1> QED
  BY <1>1, <1>5, <1>7 DEF Step
(***************************************************************************)
(* What chroot_facet_userdata keeps.                                       *)
(***************************************************************************)
\* The variables that some keys set.
VariablesOf(keys) == {EnvNames[k] : k \in keys}

\* The keys that are there without a word in the chroot's definition, and the
\* profile they come from.
BaseKeys(a) == IF a.script_config THEN {} ELSE ProfileKeys
ProfileOf(a) == IF a.profile = "absent" THEN "default" ELSE a.profile

\* The object after an accepted call of a setter: the keys were validated, each
\* has a variable of its own, which is recorded, and those of the profile's keys
\* stay recorded whether the keys are there or not.
Formed(u, a) ==
    /\ DOMAIN u = {"data", "env", "error"} /\ u.error = FALSE
    /\ u.data = [k \in DOMAIN u.data |-> u.data[k]]
    /\ DOMAIN u.data \subseteq DOMAIN EnvNames \ Reserved
    /\ BaseKeys(a) \subseteq DOMAIN u.data
    /\ u.env = VariablesOf(ProfileKeys) \cup VariablesOf(DOMAIN u.data)
    /\ \A k \in DOMAIN u.data \ BaseKeys(a) : EnvNames[k] \notin VariablesOf(ProfileKeys)
    /\ \A j, k \in DOMAIN u.data : EnvNames[j] = EnvNames[k] => j = k

\* set_system_data accepts the key, and what it does then.
Free(u, key) == key \in DOMAIN u.data \/ EnvNames[key] \notin u.env
Sets(u, key, value, w) ==
    /\ w.error = u.error /\ w.env = u.env \cup {EnvNames[key]}
    /\ DOMAIN w.data = DOMAIN u.data \cup {key} /\ w.data[key] = value
    /\ \A k \in DOMAIN u.data \ {key} : w.data[k] = u.data[k]
    /\ w.data = [k \in DOMAIN w.data |-> w.data[k]]

\* set_system_data, where it does not throw and where it does.
LEMMA SystemDataSets ==
  ASSUME NEW u, DOMAIN u = {"data", "env", "error"}, NEW key, NEW value, NEW w,
         w = set_system_data(u, key, value)
  PROVE  /\ DOMAIN w = {"data", "env", "error"}
         /\ Free(u, key) => Sets(u, key, value, w)
         /\ ~Free(u, key) => w.error = TRUE
<1> DEFINE o == Over([k \in {key} |-> value], u.data)
<1>1. /\ DOMAIN o = DOMAIN u.data \cup {key} /\ o[key] = value
      /\ \A k \in DOMAIN u.data \ {key} : o[k] = u.data[k]
      /\ o = [k \in DOMAIN o |-> o[k]]
  BY DEF Over
<1>2. w = IF key \notin DOMAIN u.data /\ EnvNames[key] \in u.env THEN [u EXCEPT !.error = TRUE]
          ELSE [u EXCEPT !.data = o, !.env = @ \cup {EnvNames[key]}]
  BY DEF set_system_data
<1> HIDE DEF o
<1>3. CASE Free(u, key)
  <2>1. w = [u EXCEPT !.data = o, !.env = @ \cup {EnvNames[key]}]
    BY <1>2, <1>3 DEF Free
  <2>2. /\ DOMAIN w = {"data", "env", "error"} /\ w.data = o /\ w.error = u.error
        /\ w.env = u.env \cup {EnvNames[key]}
    BY <2>1
  <2> QED
    BY <1>1, <1>3, <2>2 DEF Sets
<1>4. CASE ~Free(u, key)
  BY <1>2, <1>4 DEF Free
<1> QED
  BY <1>3, <1>4

\* set_data keeps the object in form.
LEMMA SetDataForms ==
  ASSUME NEW u, NEW a, Formed(u, a), NEW key, NEW value, NEW w, w = set_data(u, key, value)
  PROVE  /\ ~w.error => /\ Formed(w, a)
                        /\ DOMAIN w.data = DOMAIN u.data \cup {key} /\ w.data[key] = value
                        /\ \A k \in DOMAIN u.data \ {key} : w.data[k] = u.data[k]
         /\ validate_keyname(key) /\ Free(u, key) => ~w.error
<1>1. CASE ~validate_keyname(key)
  BY <1>1 DEF set_data, Formed
<1>2. CASE validate_keyname(key)
  <2>1. w = set_system_data(u, key, value)
    BY <1>2 DEF set_data
  <2>2. key \in DOMAIN EnvNames \ Reserved
    BY <1>2 DEF validate_keyname
  <2>3. DOMAIN u = {"data", "env", "error"}
    BY DEF Formed
  <2>4. CASE ~Free(u, key)
    <3>1. w.error = TRUE
      BY <2>1, <2>3, <2>4, SystemDataSets
    <3> QED
      BY <2>4, <3>1 DEF Free
  <2>5. CASE Free(u, key)
    <3>1. /\ DOMAIN w = {"data", "env", "error"}
          /\ Sets(u, key, value, w)
      BY <2>1, <2>3, <2>5, SystemDataSets
    <3>2. w.env = VariablesOf(ProfileKeys) \cup VariablesOf(DOMAIN w.data)
      BY <3>1 DEF Formed, VariablesOf, Sets
    <3>3. \A k \in DOMAIN w.data \ BaseKeys(a) : EnvNames[k] \notin VariablesOf(ProfileKeys)
      BY <2>5, <3>1 DEF Formed, Sets, Free
    <3>4. \A j, k \in DOMAIN w.data : EnvNames[j] = EnvNames[k] => j = k
      BY <2>5, <3>1 DEF Formed, VariablesOf, Sets, Free
    <3>5. Formed(w, a)
      BY <2>2, <3>1, <3>2, <3>3, <3>4 DEF Formed, Sets
    <3> QED
      BY <3>1, <3>5 DEF Formed, Sets
  <2> QED
    BY <2>4, <2>5
<1> QED
  BY <1>1, <1>2

\* What set_profile and script-config leave before the keys of the file are read.
Start(a) ==
    LET made == set_profile(NoData, "default")
        own  == IF a.profile = "absent" THEN made ELSE set_profile(made, a.profile)
    IN IF a.script_config THEN set_script_config(own) ELSE own

\* An object without data, and one with those of a profile.
Blank(u) ==
    DOMAIN u = {"data", "env", "error"} /\ u.error = FALSE /\ DOMAIN u.data = {} /\ u.env = {}
Profiled(u, p) ==
    /\ DOMAIN u = {"data", "env", "error"} /\ u.error = FALSE
    /\ u.data = [k \in ProfileKeys |-> p] /\ u.env = VariablesOf(ProfileKeys)

\* set_profile where the keys are new, and where they are there.
LEMMA ProfileIsSet ==
  ASSUME NEW u, NEW p, NEW w, w = set_profile(u, p), Blank(u) \/ \E q : Profiled(u, q)
  PROVE  Profiled(w, p)
<1>0. /\ DOMAIN u = {"data", "env", "error"} /\ u.error = FALSE
      /\ \/ DOMAIN u.data = {} /\ u.env = {}
         \/ DOMAIN u.data = ProfileKeys /\ u.env = VariablesOf(ProfileKeys)
  BY DEF Blank, Profiled
<1> DEFINE c == set_system_data(u, "setup.config", p)
<1> DEFINE f == set_system_data(c, "setup.copyfiles", p)
<1> DEFINE n == set_system_data(f, "setup.nssdatabases", p)
<1>1. w = set_system_data(n, "setup.fstab", p)
  BY DEF set_profile
<1>2. \A j, k \in ProfileKeys : EnvNames[j] = EnvNames[k] => j = k
  BY KeyAssumption
<1>3. ProfileKeys = {"setup.config", "setup.copyfiles", "setup.nssdatabases", "setup.fstab"}
  BY DEF ProfileKeys
<1>4. DOMAIN c = {"data", "env", "error"} /\ Sets(u, "setup.config", p, c)
  <2>1. Free(u, "setup.config")
    BY <1>0, <1>3 DEF Free
  <2> QED
    BY <1>0, <2>1, SystemDataSets
<1> HIDE DEF c
<1>5. DOMAIN f = {"data", "env", "error"} /\ Sets(c, "setup.copyfiles", p, f)
  <2>1. Free(c, "setup.copyfiles")
    BY <1>0, <1>2, <1>3, <1>4 DEF Free, Sets
  <2> QED
    BY <1>4, <2>1, SystemDataSets
<1> HIDE DEF f
<1>6. DOMAIN n = {"data", "env", "error"} /\ Sets(f, "setup.nssdatabases", p, n)
  <2>1. Free(f, "setup.nssdatabases")
    BY <1>0, <1>2, <1>3, <1>4, <1>5 DEF Free, Sets
  <2> QED
    BY <1>5, <2>1, SystemDataSets
<1> HIDE DEF n
<1>7. DOMAIN w = {"data", "env", "error"} /\ Sets(n, "setup.fstab", p, w)
  <2>1. Free(n, "setup.fstab")
    BY <1>0, <1>2, <1>3, <1>4, <1>5, <1>6 DEF Free, Sets
  <2> QED
    BY <1>1, <1>6, <2>1, SystemDataSets
<1>8. DOMAIN w.data = ProfileKeys
  BY <1>0, <1>3, <1>4, <1>5, <1>6, <1>7 DEF Sets
<1>9. /\ w.data["setup.config"] = p /\ w.data["setup.copyfiles"] = p
      /\ w.data["setup.nssdatabases"] = p /\ w.data["setup.fstab"] = p
  <2>1. c.data["setup.config"] = p /\ "setup.config" \in DOMAIN c.data
    BY <1>4 DEF Sets
  <2>2. /\ f.data["setup.config"] = p /\ f.data["setup.copyfiles"] = p
        /\ "setup.config" \in DOMAIN f.data /\ "setup.copyfiles" \in DOMAIN f.data
    BY <1>5, <2>1 DEF Sets
  <2>3. /\ n.data["setup.config"] = p /\ n.data["setup.copyfiles"] = p
        /\ n.data["setup.nssdatabases"] = p
        /\ "setup.config" \in DOMAIN n.data /\ "setup.copyfiles" \in DOMAIN n.data
        /\ "setup.nssdatabases" \in DOMAIN n.data
    BY <1>6, <2>2 DEF Sets
  <2> QED
    BY <1>7, <2>3 DEF Sets
<1>10. \A k \in ProfileKeys : w.data[k] = p
  BY <1>3, <1>9
<1>11. w.data = [k \in ProfileKeys |-> p]
  <2>1. w.data = [k \in DOMAIN w.data |-> w.data[k]]
    BY <1>7 DEF Sets
  <2> QED
    BY <1>8, <1>10, <2>1
<1>12. w.env = VariablesOf(ProfileKeys)
  <2>1. VariablesOf(ProfileKeys) =
          {EnvNames["setup.config"], EnvNames["setup.copyfiles"],
           EnvNames["setup.nssdatabases"], EnvNames["setup.fstab"]}
    BY <1>3 DEF VariablesOf
  <2>2. w.env = u.env \cup {EnvNames["setup.config"], EnvNames["setup.copyfiles"],
                            EnvNames["setup.nssdatabases"], EnvNames["setup.fstab"]}
    BY <1>4, <1>5, <1>6, <1>7 DEF Sets
  <2> QED
    BY <1>0, <2>1, <2>2
<1>13. w.error = FALSE
  BY <1>0, <1>4, <1>5, <1>6, <1>7 DEF Sets
<1> QED
  BY <1>7, <1>11, <1>12, <1>13 DEF Profiled

\* The object that the constructor, the profile and script-config make.
LEMMA StartIsFormed ==
  ASSUME NEW a, a.script_config \in BOOLEAN
  PROVE  /\ Formed(Start(a), a)
         /\ Start(a).data = [k \in BaseKeys(a) |-> ProfileOf(a)]
<1> DEFINE made == set_profile(NoData, "default")
<1> DEFINE own == IF a.profile = "absent" THEN made ELSE set_profile(made, a.profile)
<1>1. Start(a) = IF a.script_config THEN set_script_config(own) ELSE own
  BY DEF Start
<1>2. Profiled(made, "default")
  <2>1. Blank(NoData)
    BY DEF NoData, Empty, Blank
  <2> QED
    BY <2>1, ProfileIsSet
<1> HIDE DEF made
<1>3. Profiled(own, ProfileOf(a))
  BY <1>2, ProfileIsSet DEF ProfileOf
<1> HIDE DEF own
<1>4. CASE a.script_config
  <2> DEFINE s == set_script_config(own)
  <2>1. /\ DOMAIN s = {"data", "env", "error"} /\ s.error = FALSE
        /\ s.env = VariablesOf(ProfileKeys) /\ s.data = [k \in {} |-> ProfileOf(a)]
    BY <1>3 DEF Profiled, set_script_config, remove_data, remove, ProfileKeys
  <2> HIDE DEF s
  <2>2. Start(a) = s /\ BaseKeys(a) = {} /\ VariablesOf({}) = {}
    BY <1>1, <1>4 DEF BaseKeys, VariablesOf, s
  <2>3. DOMAIN s.data = {} /\ s.data = [k \in DOMAIN s.data |-> s.data[k]]
    BY <2>1
  <2> QED
    BY <2>1, <2>2, <2>3 DEF Formed
<1>5. CASE ~a.script_config
  <2>1. Start(a) = own /\ BaseKeys(a) = ProfileKeys
    BY <1>1, <1>5 DEF BaseKeys
  <2>2. DOMAIN own.data = ProfileKeys /\ own.data = [k \in DOMAIN own.data |-> own.data[k]]
    BY <1>3 DEF Profiled
  <2> QED
    BY <1>3, <2>1, <2>2, KeyAssumption DEF Formed, Profiled
<1> QED
  BY <1>4, <1>5

\* LoadedData reads the keys of the file into that object.
LEMMA LoadedIsRead ==
  ASSUME NEW a
  PROVE  LoadedData(a) = set_keyfile(Start(a), a.data)
BY DEF LoadedData, Start

\* The data of a chroot: what its definition says, and the profile's where it
\* says nothing.
FromFile(a, d, k) == k \in DOMAIN a.data /\ d[k] = a.data[k]
FromProfile(a, d, k) == k \in BaseKeys(a) /\ d[k] = ProfileOf(a)
LoadedFrom(a, d) ==
    \A k \in DOMAIN d : FromFile(a, d, k) \/ (k \notin DOMAIN a.data /\ FromProfile(a, d, k))

\* The data that a definition brings.
LEMMA LoadedIsPermitted ==
  ASSUME NEW a, a.script_config \in BOOLEAN
  PROVE  Formed(LoadedData(a), a) /\ LoadedFrom(a, LoadedData(a).data)
<1>0. Last \in Nat /\ DOMAIN KeyOrder = 1..Last
  BY LastIsNat
<1>1. PICK g : /\ g[0] = Start(a)
               /\ \A n \in 1..Last : g[n] = read_data(g[n - 1], KeyOrder[n], a.data)
               /\ set_keyfile(Start(a), a.data) = g[Last]
  BY KeyfileLoop
<1> DEFINE Unread(n, k) == k \notin DOMAIN a.data \/ \A i \in 1..n : KeyOrder[i] # k
<1> DEFINE Values0(n) == \A k \in DOMAIN g[n].data :
             \/ FromFile(a, g[n].data, k)
             \/ FromProfile(a, g[n].data, k) /\ Unread(n, k)
<1> DEFINE S == {n \in 0..Last : Formed(g[n], a) /\ Values0(n)}
<1>2. 0 \in S
  <2>1. /\ Formed(g[0], a) /\ g[0].data = [k \in BaseKeys(a) |-> ProfileOf(a)]
    BY <1>1, StartIsFormed
  <2>2. \A k \in DOMAIN g[0].data : FromProfile(a, g[0].data, k)
    BY <2>1 DEF FromProfile
  <2>3. \A k : Unread(0, k)
    OBVIOUS
  <2> QED
    BY <1>0, <2>1, <2>2, <2>3
<1>3. \A n \in 1..Last : n - 1 \in S => n \in S
  <2> SUFFICES ASSUME NEW n \in 1..Last, n - 1 \in S
               PROVE  n \in S
    OBVIOUS
  <2> DEFINE u == g[n - 1]
  <2> DEFINE x == KeyOrder[n]
  <2> DEFINE w == set_data(u, x, a.data[x])
  <2>1. Formed(u, a) /\ Values0(n - 1)
    OBVIOUS
  <2>2. g[n] = IF x \notin DOMAIN a.data \/ w.error THEN u ELSE w
    BY <1>1 DEF read_data
  <2>3. \A k : k # x \/ k \notin DOMAIN a.data => (Unread(n - 1, k) => Unread(n, k))
    <3>1. \A i \in 1..n : i \in 1..(n - 1) \/ i = n
      BY <1>0
    <3> QED
      BY <3>1
  <2> HIDE DEF Unread
  <2>4. w = set_data(u, x, a.data[x])
    OBVIOUS
  <2> HIDE DEF w
  <2>5. CASE x \notin DOMAIN a.data
    <3>1. g[n] = u
      BY <2>2, <2>5
    <3> QED
      BY <2>1, <2>3, <2>5, <3>1
  <2>6. CASE x \in DOMAIN a.data /\ ~w.error
    <3>1. g[n] = w
      BY <2>2, <2>6
    <3>2. /\ Formed(w, a) /\ DOMAIN w.data = DOMAIN u.data \cup {x} /\ w.data[x] = a.data[x]
          /\ \A k \in DOMAIN u.data \ {x} : w.data[k] = u.data[k]
      BY <2>1, <2>4, <2>6, SetDataForms
    <3>3. FromFile(a, w.data, x)
      BY <2>6, <3>2 DEF FromFile
    <3>4. \A k \in DOMAIN u.data \ {x} :
            FromFile(a, w.data, k) \/ (FromProfile(a, w.data, k) /\ Unread(n, k))
      BY <2>1, <2>3, <3>2 DEF FromFile, FromProfile
    <3> QED
      BY <3>1, <3>2, <3>3, <3>4
  <2>7. CASE x \in DOMAIN a.data /\ w.error
    <3>1. g[n] = u
      BY <2>2, <2>7
    <3>2. x \notin BaseKeys(a)
      <4> SUFFICES ASSUME x \in BaseKeys(a)
                   PROVE  FALSE
        OBVIOUS
      <4>1. x \in ProfileKeys /\ x \in DOMAIN u.data
        BY <2>1 DEF BaseKeys, Formed
      <4>2. validate_keyname(x)
        BY <4>1, KeyAssumption DEF validate_keyname
      <4> QED
        BY <2>1, <2>4, <2>7, <4>1, <4>2, SetDataForms DEF Free
    <3>3. \A k \in DOMAIN u.data :
            FromFile(a, u.data, k) \/ (FromProfile(a, u.data, k) /\ Unread(n, k))
      BY <2>1, <2>3, <3>2 DEF FromProfile
    <3> QED
      BY <2>1, <3>1, <3>3
  <2> QED
    BY <2>5, <2>6, <2>7
<1>4. Formed(g[Last], a) /\ Values0(Last)
  <2>1. Last \in 0..Last
    BY <1>0
  <2>2. Last \in S
    <3> HIDE DEF S
    <3> QED
      BY <1>0, <1>2, <1>3, <2>1, UpTo
  <2> QED
    BY <2>2
<1>5. \A k \in BaseKeys(a) : Unread(Last, k) => k \notin DOMAIN a.data
  <2>1. \A k \in ProfileKeys : \E i \in 1..Last : KeyOrder[i] = k
    BY <1>0, KeyAssumption
  <2> QED
    BY <2>1 DEF BaseKeys
<1>6. LoadedFrom(a, g[Last].data)
  BY <1>4, <1>5 DEF LoadedFrom, FromProfile
<1> QED
  BY <1>1, <1>4, <1>6, LoadedIsRead

\* The data after --option was applied.
LEMMA ModifiedIsPermitted ==
  ASSUME NEW a, NEW u, Formed(u, a), NEW more, NEW allowed, NEW w,
         w = set_user_data(u, more, allowed), ~w.error
  PROVE  /\ Formed(w, a)
         /\ \A k \in DOMAIN w.data :
              \/ k \in DOMAIN u.data /\ w.data[k] = u.data[k]
              \/ k \in DOMAIN more /\ k \in allowed /\ w.data[k] = more[k]
<1>0. Last \in Nat /\ DOMAIN KeyOrder = 1..Last
  BY LastIsNat
<1>1. PICK g : /\ g[0] = u
               /\ \A n \in 1..Last : g[n] = modify_data(g[n - 1], KeyOrder[n], more, allowed)
               /\ w = g[Last]
  BY OptionLoop
<1> DEFINE Modified(n) == \A k \in DOMAIN g[n].data :
             \/ k \in DOMAIN u.data /\ g[n].data[k] = u.data[k]
             \/ k \in DOMAIN more /\ k \in allowed /\ g[n].data[k] = more[k]
<1> DEFINE S == {n \in 0..Last : ~g[n].error => Formed(g[n], a) /\ Modified(n)}
<1>2. 0 \in S
  BY <1>0, <1>1
<1>3. \A n \in 1..Last : n - 1 \in S => n \in S
  <2> SUFFICES ASSUME NEW n \in 1..Last, n - 1 \in S, ~g[n].error
               PROVE  Formed(g[n], a) /\ Modified(n)
    <3>1. \A n \in 1..Last : n \in 0..Last
      BY <1>0
    <3> HIDE DEF Modified
    <3> QED
      BY <3>1
  <2> DEFINE v == g[n - 1]
  <2> DEFINE x == KeyOrder[n]
  <2> DEFINE s == set_data(v, x, more[x])
  <2>1. g[n] = IF v.error \/ x \notin DOMAIN more THEN v
               ELSE IF x \notin allowed THEN [v EXCEPT !.error = TRUE] ELSE s
    BY <1>1 DEF modify_data
  <2>2. s = set_data(v, x, more[x])
    OBVIOUS
  <2> HIDE DEF s
  <2>3. ~v.error
    BY <2>1
  <2>4. Formed(v, a) /\ Modified(n - 1)
    BY <2>3
  <2>5. CASE x \notin DOMAIN more
    <3>1. g[n] = v
      BY <2>1, <2>5
    <3> QED
      BY <2>4, <3>1
  <2>6. CASE x \in DOMAIN more
    <3>1. x \in allowed /\ g[n] = s
      <4>1. DOMAIN v = {"data", "env", "error"}
        BY <2>4 DEF Formed
      <4>2. [v EXCEPT !.error = TRUE].error = TRUE
        BY <4>1
      <4> HIDE DEF v
      <4> QED
        BY <2>1, <2>3, <2>6, <4>2
    <3>2. /\ Formed(s, a) /\ DOMAIN s.data = DOMAIN v.data \cup {x} /\ s.data[x] = more[x]
          /\ \A k \in DOMAIN v.data \ {x} : s.data[k] = v.data[k]
      BY <2>2, <2>4, <3>1, SetDataForms
    <3> QED
      BY <2>4, <2>6, <3>1, <3>2
  <2> QED
    BY <2>5, <2>6
<1>4. Last \in S
  <2>1. Last \in 0..Last
    BY <1>0
  <2> HIDE DEF S
  <2> QED
    BY <1>0, <1>2, <1>3, <2>1, UpTo
<1> QED
  BY <1>1, <1>4

\* The session file brings the data back.
LEMMA ReadBackIsSame ==
  ASSUME NEW a, {"profile", "script_config", "data"} \subseteq DOMAIN a,
         a.script_config \in BOOLEAN, NEW u, Formed(u, a)
  PROVE  LoadedData(get_keyfile(a, u.data)).data = u.data
<1> DEFINE d == u.data
<1> DEFINE b == get_keyfile(a, d)
<1>0. Last \in Nat /\ DOMAIN KeyOrder = 1..Last
  BY LastIsNat
<1>1. b.script_config = a.script_config /\ b.data = d /\ BaseKeys(b) = BaseKeys(a)
  BY DEF get_keyfile, BaseKeys
<1> HIDE DEF b
<1>2. PICK g : /\ g[0] = Start(b)
               /\ \A n \in 1..Last : g[n] = read_data(g[n - 1], KeyOrder[n], d)
               /\ set_keyfile(Start(b), d) = g[Last]
  BY KeyfileLoop
<1> DEFINE Done(n) == {k \in DOMAIN d : \E i \in 1..n : KeyOrder[i] = k}
<1> DEFINE Back(n) == /\ DOMAIN g[n].data = BaseKeys(a) \cup Done(n)
                      /\ \A k \in Done(n) : g[n].data[k] = d[k]
<1> DEFINE S == {n \in 0..Last : Formed(g[n], b) /\ Back(n)}
<1>3. 0 \in S
  <2>1. Formed(g[0], b) /\ DOMAIN g[0].data = BaseKeys(a)
    <3>1. b.script_config \in BOOLEAN
      BY <1>1
    <3>2. Formed(Start(b), b) /\ Start(b).data = [k \in BaseKeys(b) |-> ProfileOf(b)]
      BY <3>1, StartIsFormed
    <3> QED
      BY <1>1, <1>2, <3>2
  <2>2. Done(0) = {} /\ 0 \in 0..Last
    BY <1>0
  <2> QED
    BY <2>1, <2>2
<1>4. \A n \in 1..Last : n - 1 \in S => n \in S
  <2> SUFFICES ASSUME NEW n \in 1..Last, n - 1 \in S
               PROVE  n \in S
    OBVIOUS
  <2>0. n \in 0..Last
    BY <1>0
  <2> DEFINE v == g[n - 1]
  <2> DEFINE x == KeyOrder[n]
  <2> DEFINE w == set_data(v, x, d[x])
  <2>1. Formed(v, b) /\ Back(n - 1)
    OBVIOUS
  <2>2. g[n] = IF x \notin DOMAIN d \/ w.error THEN v ELSE w
    BY <1>2 DEF read_data
  <2>3. Done(n) = Done(n - 1) \cup ({x} \cap DOMAIN d)
    <3>1. \A i : i \in 1..n <=> i \in 1..(n - 1) \/ i = n
      BY <1>0
    <3> QED
      BY <3>1
  <2>4. Done(n - 1) \subseteq DOMAIN d
    OBVIOUS
  <2> HIDE DEF Done
  <2>5. w = set_data(v, x, d[x])
    OBVIOUS
  <2> HIDE DEF w
  <2>6. CASE x \notin DOMAIN d
    <3>1. g[n] = v /\ Done(n) = Done(n - 1)
      BY <2>2, <2>3, <2>6
    <3> QED
      BY <2>0, <2>1, <3>1
  <2>7. CASE x \in DOMAIN d
    <3>1. validate_keyname(x)
      BY <2>7 DEF Formed, validate_keyname
    <3>2. Free(v, x)
      <4> SUFFICES ASSUME x \notin DOMAIN v.data
                   PROVE  EnvNames[x] \notin v.env
        BY DEF Free
      <4>1. x \notin BaseKeys(a) /\ x \notin Done(n - 1)
        BY <2>1
      <4>2. EnvNames[x] \notin VariablesOf(ProfileKeys)
        BY <2>7, <4>1 DEF Formed
      <4>3. DOMAIN v.data \subseteq DOMAIN d
        BY <2>1, <2>4 DEF Formed
      <4>4. \A k \in DOMAIN v.data : EnvNames[k] # EnvNames[x]
        BY <2>7, <4>3 DEF Formed
      <4>5. v.env = VariablesOf(ProfileKeys) \cup VariablesOf(DOMAIN v.data)
        BY <2>1 DEF Formed
      <4> QED
        BY <4>2, <4>4, <4>5 DEF VariablesOf
    <3>3. ~w.error
      BY <2>1, <2>5, <3>1, <3>2, SetDataForms
    <3>4. /\ Formed(w, b) /\ DOMAIN w.data = DOMAIN v.data \cup {x} /\ w.data[x] = d[x]
          /\ \A k \in DOMAIN v.data \ {x} : w.data[k] = v.data[k]
      BY <2>1, <2>5, <3>3, SetDataForms
    <3>5. g[n] = w /\ Done(n) = Done(n - 1) \cup {x}
      BY <2>2, <2>3, <2>7, <3>3
    <3>6. Back(n)
      BY <2>1, <3>4, <3>5
    <3> QED
      BY <2>0, <3>4, <3>5, <3>6
  <2> QED
    BY <2>6, <2>7
<1>5. Back(Last) /\ Formed(g[Last], b)
  <2>1. Last \in 0..Last
    BY <1>0
  <2>2. Last \in S
    <3> HIDE DEF S
    <3> QED
      BY <1>0, <1>3, <1>4, <2>1, UpTo
  <2> QED
    BY <2>2
<1>6. Done(Last) = DOMAIN d
  <2>1. \A k \in DOMAIN EnvNames : \E i \in 1..Last : KeyOrder[i] = k
    BY <1>0, KeyAssumption
  <2>2. DOMAIN d \subseteq DOMAIN EnvNames
    BY DEF Formed
  <2> QED
    BY <2>1, <2>2
<1> HIDE DEF Done
<1>7. DOMAIN g[Last].data = DOMAIN d /\ \A k \in DOMAIN d : g[Last].data[k] = d[k]
  BY <1>5, <1>6 DEF Formed
<1>8. g[Last].data = [k \in DOMAIN g[Last].data |-> g[Last].data[k]] /\ d = [k \in DOMAIN d |-> d[k]]
  BY <1>5 DEF Formed
<1>9. g[Last].data = d
  BY <1>7, <1>8
<1>10. LoadedData(b) = g[Last]
  BY <1>1, <1>2, LoadedIsRead
<1> QED
  BY <1>9, <1>10 DEF b

\* The scripts' environment has what schroot itself gives.
LEMMA ScriptsOwnVariables ==
  ASSUME NEW d, ~EnvAmbiguous(d)
  PROVE  \A v \in DOMAIN ChrootVariables \cup DOMAIN SessionVariables :
           setup_env(d)[v] = Over(SessionVariables, ChrootVariables)[v]
<1> TAKE v \in DOMAIN ChrootVariables \cup DOMAIN SessionVariables
<1> DEFINE own == [x \in VariablesOf(DOMAIN d) |-> d[CHOOSE k \in DOMAIN d : EnvNames[k] = x]]
<1>1. setup_env(d) = Over(SessionVariables, Over(own, ChrootVariables))
  BY DEF setup_env, VariablesOf
<1>2. DOMAIN own = VariablesOf(DOMAIN d)
  OBVIOUS
<1> HIDE DEF own
<1>3. v \in DOMAIN ChrootVariables => v \notin DOMAIN own
  BY <1>2 DEF EnvAmbiguous, VariablesOf
<1> QED
  BY <1>1, <1>3 DEF Over

\* --option: the first value of a key counts.
LEMMA FirstOptionCounts ==
  ASSUME Given, NEW k \in DOMAIN UserOptions(argv.options)
  PROVE  \E i \in DOMAIN argv.options :
           /\ argv.options[i].key = k
           /\ \A j \in 1..(i - 1) : argv.options[j].key # k
           /\ UserOptions(argv.options)[k] =
                IF argv.options[i].sep THEN argv.options[i].value ELSE k
<1> DEFINE given == argv.options
<1> DEFINE F == {i \in DOMAIN given : given[i].key = k}
<1>1. DOMAIN given = 1..Len(given) /\ Len(given) \in Nat
  <2>1. given \in Seq([key: STRING, value: STRING, sep: BOOLEAN])
    BY InputAssumption DEF Given
  <2> HIDE DEF given
  <2> QED
    BY <2>1
<1>2. F # {}
  BY DEF UserOptions
<1>3. PICK m \in F : \A j \in F : m <= j
  <2>1. F \in SUBSET Nat
    BY <1>1
  <2> HIDE DEF F
  <2> QED
    BY <1>2, <2>1, SmallestExists
<1> DEFINE Is(i) == given[i].key = k /\ \A j \in 1..(i - 1) : given[j].key # k
<1>4. \E i \in DOMAIN given : Is(i)
  <2>1. m \in DOMAIN given /\ given[m].key = k /\ m \in 1..Len(given)
    BY <1>1
  <2>2. \A j \in 1..(m - 1) : j \in DOMAIN given /\ ~(m <= j)
    BY <1>1, <2>1
  <2>3. \A j \in 1..(m - 1) : given[j].key # k
    BY <1>3, <2>2
  <2> QED
    BY <2>1, <2>3
<1> DEFINE c == CHOOSE i \in DOMAIN given : Is(i)
<1>5. UserOptions(given)[k] = IF given[c].sep THEN given[c].value ELSE given[c].key
  BY DEF UserOptions
<1>6. c \in DOMAIN given /\ Is(c)
  <2> HIDE DEF Is
  <2> QED
    BY <1>4
<1> HIDE DEF c
<1> QED
  BY <1>5, <1>6

(***************************************************************************)
(* The user data of the chroots, step by step.                             *)
(***************************************************************************)
\* Data that only a user who may has changed.
Permitted(d) ==
    \A k \in DOMAIN d :
      \/ k \in DOMAIN attrs.data /\ d[k] = attrs.data[k]
      \/ /\ ~attrs.script_config /\ k \notin DOMAIN attrs.data
         /\ k \in ProfileKeys
         /\ d[k] = IF attrs.profile = "absent" THEN "default" ELSE attrs.profile
      \/ /\ k \in attrs.user_keys \/ (k \in attrs.root_keys /\ 0 \in {caller, Asker.uid})
         /\ \E i \in DOMAIN argv.options :
              /\ argv.options[i].key = k
              /\ \A j \in 1..(i - 1) : argv.options[j].key # k
              /\ d[k] = IF argv.options[i].sep THEN argv.options[i].value ELSE k

\* The data are those of no chroot or of an object in form, and the scripts run
\* only with an environment that is not ambiguous.
DataFits ==
    /\ Permitted(data)
    /\ DOMAIN data = {} \/ \E u : Formed(u, attrs) /\ data = u.data
    /\ pc = "scripts" =>
         /\ ~EnvAmbiguous(data) /\ scripts = setup_env(data)
         /\ \E u : Formed(u, attrs) /\ data = u.data

DataInv == CleanInv /\ DataFits

\* The data of a chroot once --option is applied.
LEMMA UserDataIsPermitted ==
  ASSUME CleanInv, pc = "chroot", ~UserData.error
  PROVE  Formed(UserData, attrs) /\ Permitted(UserData.data)
<1> DEFINE u == LoadedData(attrs)
<1> DEFINE more == opts.useroptions
<1> DEFINE allowed == ModifiableKeys(attrs, user, ruser)
<1>1. Given /\ (more = <<>> \/ more = UserOptions(argv.options))
  BY DEF CleanInv, ChildInv, SelectInv, Ordered, Accepted, Kept
<1>2. attrs.script_config \in BOOLEAN
  BY <1>1, InputAssumption DEF Given
<1>3. user = Asker /\ ruser.uid = caller
  BY DEF CleanInv, ChildInv, UserIsAsked, CallerIsKnown, InSession
<1>4. Formed(u, attrs) /\ LoadedFrom(attrs, u.data)
  BY <1>2, LoadedIsPermitted
<1>5. UserData = set_user_data(u, more, allowed)
  BY DEF UserData
<1>6. \A k \in allowed : k \in attrs.user_keys \/ (k \in attrs.root_keys /\ 0 \in {caller, Asker.uid})
  BY <1>3 DEF ModifiableKeys
<1> HIDE DEF u, more, allowed
<1> DEFINE w == UserData
<1> HIDE DEF w
<1>7. w = set_user_data(u, more, allowed) /\ ~w.error
  BY <1>5 DEF w
<1>8. /\ Formed(w, attrs)
      /\ \A k \in DOMAIN w.data :
           \/ k \in DOMAIN u.data /\ w.data[k] = u.data[k]
           \/ k \in DOMAIN more /\ k \in allowed /\ w.data[k] = more[k]
  BY <1>4, <1>7, ModifiedIsPermitted
<1>9. ASSUME NEW k \in DOMAIN u.data
      PROVE  \/ k \in DOMAIN attrs.data /\ u.data[k] = attrs.data[k]
             \/ /\ ~attrs.script_config /\ k \notin DOMAIN attrs.data /\ k \in ProfileKeys
                /\ u.data[k] = IF attrs.profile = "absent" THEN "default" ELSE attrs.profile
  <2>1. CASE FromFile(attrs, u.data, k)
    BY <2>1 DEF FromFile
  <2>2. CASE k \notin DOMAIN attrs.data /\ FromProfile(attrs, u.data, k)
    BY <2>2 DEF FromProfile, BaseKeys, ProfileOf
  <2> QED
    BY <1>4, <2>1, <2>2 DEF LoadedFrom
<1>10. ASSUME NEW k \in DOMAIN more
       PROVE  \E i \in DOMAIN argv.options :
                /\ argv.options[i].key = k
                /\ \A j \in 1..(i - 1) : argv.options[j].key # k
                /\ more[k] = IF argv.options[i].sep THEN argv.options[i].value ELSE k
  <2>1. more = UserOptions(argv.options)
    BY <1>1
  <2> QED
    BY <1>1, <2>1, FirstOptionCounts
<1>11. Permitted(w.data)
  <2> SUFFICES ASSUME NEW k \in DOMAIN w.data
               PROVE  \/ k \in DOMAIN attrs.data /\ w.data[k] = attrs.data[k]
                      \/ /\ ~attrs.script_config /\ k \notin DOMAIN attrs.data
                         /\ k \in ProfileKeys
                         /\ w.data[k] = IF attrs.profile = "absent" THEN "default" ELSE attrs.profile
                      \/ /\ k \in attrs.user_keys \/ (k \in attrs.root_keys /\ 0 \in {caller, Asker.uid})
                         /\ \E i \in DOMAIN argv.options :
                              /\ argv.options[i].key = k
                              /\ \A j \in 1..(i - 1) : argv.options[j].key # k
                              /\ w.data[k] = IF argv.options[i].sep THEN argv.options[i].value ELSE k
    BY DEF Permitted
  <2>1. CASE k \in DOMAIN u.data /\ w.data[k] = u.data[k]
    BY <1>9, <2>1
  <2>2. CASE k \in DOMAIN more /\ k \in allowed /\ w.data[k] = more[k]
    BY <1>6, <1>10, <2>2
  <2> QED
    BY <1>8, <2>1, <2>2
<1> QED
  BY <1>8, <1>11 DEF w

\* Every step keeps the data in form.
LEMMA DataInvStep == DataInv /\ [Next]_vars => DataInv'
<1> SUFFICES ASSUME DataInv, [Next]_vars
             PROVE  DataInv'
  OBVIOUS
<1>1. CleanInv'
  BY CleanInvStep DEF DataInv
<1>2. argv' = argv /\ caller' = caller /\ attrs' = attrs
  BY DEF Next, Parse, load_config, get_chroot_options, Dispatch, AddSessionAuth, Authenticate,
         Finished, RefuseChroot, RefuseData, SetUpChroot, SetupScriptsEnd, RunChroot,
         SetEnvironment, SetGroups, SetPersonality, EnterChroot, SetUser, CheckRoot, Chdir,
         GetCommand, Exec, ChildFails, Wait, InChild, inputs, vars
<1>3. Asker' = Asker
  BY <1>2 DEF Asker
<1>4. CASE SetUpChroot
  <2>1. /\ pc = "chroot" /\ ~UserData.error /\ data' = UserData.data
        /\ pc' = "scripts" => ~EnvAmbiguous(data') /\ scripts' = setup_env(data')
    BY <1>4 DEF SetUpChroot
  <2>2. Formed(UserData, attrs) /\ Permitted(UserData.data)
    BY <2>1, UserDataIsPermitted DEF DataInv
  <2>3. Permitted(data)'
    BY <1>2, <1>3, <2>1, <2>2 DEF Permitted
  <2>4. \E u : Formed(u, attrs') /\ data' = u.data
    BY <1>2, <2>1, <2>2
  <2>5. DataFits'
    BY <2>1, <2>3, <2>4 DEF DataFits
  <2> QED
    BY <1>1, <2>5 DEF DataInv
<1>5. CASE ~SetUpChroot
  <2>1. data' = data
    BY <1>5 DEF Next, Parse, load_config, get_chroot_options, Dispatch, Show, Exit, Go,
         AddSessionAuth, Authenticate, Finished, RefuseChroot, RefuseData, SetupScriptsEnd,
         RunChroot, SetEnvironment, SetGroups, SetPersonality, EnterChroot, SetUser, CheckRoot,
         Chdir, GetCommand, Exec, ChildFails, Wait, InChild, setup, vars
  <2>2. pc' = "scripts" => pc = "scripts" /\ scripts' = scripts
    BY <1>5 DEF Next, Parse, load_config, get_chroot_options, Dispatch, Show, Exit, Go,
         AddSessionAuth, Authenticate, Finished, RefuseChroot, RefuseData, SetupScriptsEnd,
         RunChroot, SetEnvironment, SetGroups, SetPersonality, EnterChroot, SetUser, CheckRoot,
         Chdir, GetCommand, Exec, ChildFails, Wait, InChild, vars
  <2>3. Permitted(data)'
    BY <1>2, <1>3, <2>1 DEF DataInv, DataFits, Permitted
  <2>4. DataFits'
    BY <1>2, <2>1, <2>2, <2>3 DEF DataInv, DataFits
  <2> QED
    BY <1>1, <2>4 DEF DataInv
<1> QED
  BY <1>4, <1>5

\* For every profile, every definition, every two lists of modifiable keys and
\* every --option: user data that differs from the chroot's own was given by a
\* user who may change it, no two keys set one variable, none takes the place of
\* a variable that schroot gives its setup scripts, and the session file brings
\* data back whose values have one line.
THEOREM UserDataIsSafe == Spec => []UserDataPermitted
<1>1. Init => DataFits
  BY DEF Init, DataFits, Permitted, Empty
<1>2. Spec => []DataInv
  BY <1>1, CleanInvHolds, DataInvStep, PTL DEF Spec, DataInv
<1>3. DataInv => UserDataPermitted
  <2> SUFFICES ASSUME DataInv
               PROVE  UserDataPermitted
    OBVIOUS
  <2>1. Permitted(data)
    BY DEF DataInv, DataFits
  <2>2. \A j, k \in DOMAIN data : EnvNames[j] = EnvNames[k] => j = k
    BY DEF DataInv, DataFits, Formed
  <2>3. ASSUME pc = "scripts"
        PROVE  \A v \in DOMAIN ChrootVariables \cup DOMAIN SessionVariables :
                 scripts[v] = Over(SessionVariables, ChrootVariables)[v]
    <3>1. ~EnvAmbiguous(data) /\ scripts = setup_env(data)
      BY <2>3 DEF DataInv, DataFits
    <3> QED
      BY <3>1, ScriptsOwnVariables
  <2>4. ASSUME pc = "scripts", OneLine(data)
        PROVE  LoadedData(get_keyfile(attrs, data)).data = data
    <3>1. PICK u : Formed(u, attrs) /\ data = u.data
      BY <2>4 DEF DataInv, DataFits
    <3>2. PICK i \in Inputs : attrs = i.attrs
      BY DEF DataInv, CleanInv, ChildInv, SelectInv, Given
    <3>3. {"profile", "script_config", "data"} \subseteq DOMAIN attrs
          /\ attrs.script_config \in BOOLEAN
      BY <3>2, InputAssumption
    <3>4. LoadedData(get_keyfile(attrs, u.data)).data = u.data
      BY <3>1, <3>3, ReadBackIsSame
    <3> QED
      BY <3>1, <3>4
  <2> QED
    BY <2>1, <2>2, <2>3, <2>4 DEF UserDataPermitted, Permitted
<1> QED
  BY <1>2, <1>3, PTL
=============================================================================
