----------------------------- MODULE MCFrontend -----------------------------
(***************************************************************************)
(* A plain chroot "default", a chroot "sid" with a source chroot and the   *)
(* alias "unstable", the sessions "s1" and "sid".  Three families of       *)
(* inputs: what is selected, what is executed, and user data.              *)
(***************************************************************************)
EXTENDS Frontend, TLC

N(s) == <<s, 0>>
Order == <<N("default"), N("s1"), N("sid"), N("unstable"), <<"unstable", 1>>>>
C(ns, n, k, a) == [ns |-> ns, name |-> N(n), kind |-> k, aliases |-> a]
Defs == {C("chroot", "default", "plain", <<>>),
         C("chroot", "sid", "source-clonable", <<N("unstable")>>)}
Sessions == {C("session", "s1", "clonable", <<>>), C("session", "sid", "clonable", <<>>)}

User(n, u, g, h, s) == [name |-> n, uid |-> u, gid |-> g, home |-> h, shell |-> s]
Accounts == <<User("root", 0, 0, "/", ""), User("ann", 1, 1, "/home/ann", "/bin/ash"),
              User("bob", 2, 9, "/home/bob", ""), User("toor", 0, 9, "/toor", "")>>
Modules == "LANG" :> "pam"
Variables == "a.b-c" :> "A_B_C" @@ "a.b.c" :> "A_B_C" @@ "x.y" :> "X_Y"
             @@ "chroot.name" :> "CHROOT_NAME" @@ "data.dir" :> "DATA_DIR"
             @@ "setup.config" :> "SETUP_CONFIG" @@ "setup.copyfiles" :> "SETUP_COPYFILES"
             @@ "setup.fstab" :> "SETUP_FSTAB" @@ "setup.nssdatabases" :> "SETUP_NSSDATABASES"
KeysInOrder == <<"a.b-c", "a.b.c", "bad", "chroot.name", "data.dir", "setup.config",
                 "setup.copyfiles", "setup.fstab", "setup.nssdatabases", "x.y">>
OwnFirst == "CHROOT_NAME" :> "sid"
OwnLater == "DATA_DIR" :> "/usr/share/schroot"

Word(ns, n, a, e) == [name |-> <<ns, N(n)>>, abs |-> a, empty |-> e]
Ls == Word("", "ls", FALSE, FALSE)
BinLs == Word("", "ls", TRUE, FALSE)
Sid == Word("", "sid", FALSE, FALSE)

Nothing ==
    [prog |-> "schroot", actions |-> {}, chroots |-> <<>>, path |-> <<>>, all |-> {},
     exclude_aliases |-> FALSE, session_name |-> "", baddebug |-> FALSE, command |-> <<>>,
     directory |-> "", shell |-> "", user |-> "", preserve |-> FALSE, options |-> <<>>]
NoAttrs ==
    [preserve |-> FALSE, default_shell |-> "", prefix |-> FALSE, filter |-> {"LD_X"},
     persona |-> "undefined", profile |-> "absent", script_config |-> FALSE,
     user_keys |-> {}, root_keys |-> {}, data |-> Empty]
Environ == "PATH" :> "own-path" @@ "LD_X" :> "own" @@ "SHELL" :> "/bin/zsh"
           @@ "HOME" :> "/own" @@ "TERM" :> "vt"

In(a, who, env, t) == [argv |-> a, caller |-> who, callerenv |-> env, attrs |-> t]

Selected == {<<>>, <<<<"", N("sid")>>>>, <<<<"session", N("sid")>>>>, <<<<"chroot", N("sid")>>>>,
             <<<<"", N("unstable")>>, <<"source", N("sid")>>>>, <<<<"", <<"unstable", 1>>>>>>,
             <<<<"", N("s1")>>, <<"", N("default")>>>>, <<<<"", N("default")>>, <<"", N("gone")>>>>}
OneAction == {{}, {"list", "session_run"}} \cup {{a} : a \in AllActions}
SelectionInputs ==
    {In([Nothing EXCEPT !.actions = a, !.chroots = c, !.all = l, !.session_name = s,
                        !.command = <<Ls>>], 1, Empty, NoAttrs) :
       a \in OneAction, c \in Selected, s \in {"", "s2", "default", "invalid:name"},
       l \in {{}, {"all"}, {"all-chroots"}, {"all-sessions"}, {"all-source-chroots"},
              {"all-sessions", "all-source-chroots"}}}
    \cup {In([Nothing EXCEPT !.prog = p, !.actions = a, !.chroots = c, !.all = l,
                             !.path = <<<<"", N("sid")>>>>, !.command = w, !.baddebug = b],
             1, Empty, NoAttrs) :
            p \in {"dchroot", "dchroot-dsa"}, a \in {{}, {"list"}, {"location"}},
            c \in Selected, l \in {{}, {"all"}}, b \in BOOLEAN,
            w \in {<<>>, <<Ls>>, <<Sid>>, <<Sid, BinLs>>, <<Sid, Ls>>, <<BinLs>>}}
    \cup {In([Nothing EXCEPT !.actions = {"list"}, !.all = {"all"}, !.exclude_aliases = TRUE],
             1, Empty, NoAttrs)}

Commands == {<<>>, <<Ls>>, <<BinLs>>, <<Word("", "", FALSE, TRUE)>>}
ExecArgvs ==
    {[Nothing EXCEPT !.chroots = <<<<"", N("default")>>>>, !.command = w, !.directory = d,
                     !.shell = s, !.user = u, !.preserve = v] :
       w \in Commands, d \in {"", "/dir"}, s \in {"", "/bin/fish"},
       u \in {"", "root", "toor", "bob", "nobody"}, v \in BOOLEAN}
    \cup {[Nothing EXCEPT !.prog = p, !.chroots = <<<<"", N("default")>>>>, !.command = w,
                          !.directory = d, !.preserve = v] :
            p \in {"dchroot", "dchroot-dsa"}, w \in Commands, d \in {"", "/dir"}, v \in BOOLEAN}
ExecInputs ==
    {In(a, who, e, [NoAttrs EXCEPT !.preserve = t, !.default_shell = x, !.prefix = t,
                                   !.filter = f]) :
       a \in ExecArgvs, who \in {0, 1}, e \in {Empty, Environ}, t \in BOOLEAN,
       x \in {"", "/bin/ksh"}, f \in {{"LD_X"}, {"PATH", "SHELL", "SCHROOT_UID"}}}
    \cup {In([Nothing EXCEPT !.actions = a, !.command = w, !.user = u], who, Environ,
             [NoAttrs EXCEPT !.persona = x]) :
            a \in {{}, {"location"}}, w \in Commands, u \in {"", "bob"}, who \in 1..3,
            x \in {"linux32", "linux64"}}

Opt(k, v, s) == [key |-> k, value |-> v, sep |-> s]
DataInputs ==
    {In([Nothing EXCEPT !.actions = {"session_begin"}, !.chroots = <<<<"", N("sid")>>>>,
                        !.user = u, !.options = o],
        who, Empty, [NoAttrs EXCEPT !.user_keys = {"x.y", "a.b-c", "setup.fstab"},
                                    !.root_keys = r, !.data = t, !.profile = p,
                                    !.script_config = s]) :
       u \in {"", "root"}, who \in {0, 1}, r \in {{}, {"a.b.c", "bad", "chroot.name", "data.dir"}},
       p \in {"absent", "sbuild"}, s \in BOOLEAN,
       t \in {Empty, "a.b.c" :> "0" @@ "a.b-c" :> "1", "x.y" :> "0" @@ "bad" :> "0",
              "setup.fstab" :> "0"},
       o \in {<<>>, <<Opt("x.y", "1", TRUE), Opt("x.y", "2", TRUE)>>,
              <<Opt("x.y", "two-lines", TRUE)>>, <<Opt("bad", "1", TRUE)>>,
              <<Opt("a.b-c", "", FALSE)>>, <<Opt("a.b.c", "1", TRUE)>>,
              <<Opt("chroot.name", "1", TRUE)>>, <<Opt("setup.fstab", "1", TRUE)>>,
              <<Opt("data.dir", "1", TRUE)>>,
              <<Opt("a.b-c", "1", TRUE), Opt("a.b.c", "2", TRUE)>>}}

AllInputs == SelectionInputs \cup ExecInputs \cup DataInputs
=============================================================================
