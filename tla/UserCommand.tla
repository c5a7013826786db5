---------------------------- MODULE UserCommand ----------------------------
(***************************************************************************)
(* What session::run_child gives to exec: the environment, the directory   *)
(* and the command or shell, for schroot and for the two compatibility     *)
(* programs that override them; and the user data of a chroot, which the   *)
(* user may change with --option.  An environment is a function from       *)
(* variable names; the values tell where they come from.                   *)
(***************************************************************************)
EXTENDS Integers, Sequences

CONSTANTS
    PamEnvironment,  \* what PAM modules put into the environment
    EnvNames,        \* user data key -> the variable name envname makes of it
    KeyOrder,        \* the keys in the order std::map keeps them
    Reserved,        \* the keys of which validate_keyname says they would clash
    Multiline,       \* the values with a line break
    ChrootVariables, \* what the chroot puts into the scripts' environment first
    SessionVariables \* ... and what its later facets and the session put there

(***************************************************************************)
(* The user database, and the users auth holds.                            *)
(***************************************************************************)
NoUser == [name |-> "", uid |-> -1]

\* getpwuid_r and getpwnam_r return the first entry that matches.
query(passwd, found) ==
    IF found = {} THEN NoUser
    ELSE passwd[CHOOSE i \in found : \A j \in found : i <= j]

query_uid(passwd, uid) == query(passwd, {i \in DOMAIN passwd : passwd[i].uid = uid})
query_name(passwd, name) == query(passwd, {i \in DOMAIN passwd : passwd[i].name = name})
query_gid(groups, gid) == gid \in groups

\* auth::set_ruser: the group has to exist.
set_ruser(passwd, groups, uid) ==
    LET e == query_uid(passwd, uid)
    IN IF e = NoUser THEN NoUser ELSE IF query_gid(groups, e.gid) THEN e ELSE NoUser

\* auth::set_user: the group is not looked up.
set_user(passwd, name) == query_name(passwd, name)

\* dchroot::session_base::run_impl: "dchroot session restriction".
SwitchPermitted(prog, ruser, user) == prog = "schroot" \/ ruser.uid = user.uid

(***************************************************************************)
(* personality.                                                            *)
(***************************************************************************)
Personalities == {"undefined", "linux", "linux32"}

\* set_name throws for a name that is not found ("none").
find_personality(name) == IF name \in Personalities THEN name ELSE "none"

(***************************************************************************)
(* environment.                                                            *)
(***************************************************************************)
Empty == [k \in {} |-> k]

\* One environment laid over another: where both have a variable, the first
\* one's value counts.
Over(first, second) ==
    [k \in DOMAIN first \cup DOMAIN second |->
       IF k \in DOMAIN first THEN first[k] ELSE second[k]]

\* environment::remove.
remove(env, names) == [k \in DOMAIN env \ names |-> env[k]]

\* environment::add of each variable of another environment: a variable the
\* filter matches is removed and not inserted.
add(env, filter, more) ==
    Over([k \in DOMAIN more \ filter |-> more[k]], remove(env, DOMAIN more))

\* auth::get_minimal_environment; TERM comes from the caller's environment.
get_minimal_environment(user, caller) ==
    LET own  == [PATH |-> IF user.uid = 0 THEN "root-path" ELSE "sane-path",
                 HOME |-> IF user.home = "" THEN "/" ELSE user.home,
                 USER |-> user.name, LOGNAME |-> user.name]
        term == IF "TERM" \in DOMAIN caller THEN [TERM |-> caller["TERM"]] ELSE Empty
    IN  Over(own, Over(term, IF user.shell = "" THEN Empty ELSE [SHELL |-> user.shell]))

\* auth_pam::setupenv puts the minimal environment into PAM's, and
\* get_auth_environment returns it with what the modules added.
get_auth_environment(user, caller) ==
    Over(get_minimal_environment(user, caller), PamEnvironment)

\* Mutant of get_complete_environment: the caller's PATH is kept for root.
get_complete_environmentPath(user, caller) ==
    add(get_auth_environment(user, caller), {}, caller)

\* auth::get_complete_environment: "we don't preserve the user's PATH when
\* switching to root".
get_complete_environment(user, caller) ==
    add(get_auth_environment(user, caller), {},
        IF user.uid = 0 THEN remove(caller, {"PATH"}) ELSE caller)

\* The first lines of run_child.
ChildEnvironment(preserve, filter, user, caller) ==
    add(Empty, filter, IF preserve THEN get_complete_environment(user, caller)
                                   ELSE get_auth_environment(user, caller))

\* What run_child adds once the command is known; the filter applies here too.
SchrootVariables(env, filter, caller, session) ==
    add(env, filter, [SCHROOT_COMMAND |-> "command", SCHROOT_USER |-> caller.name,
                      SCHROOT_UID |-> caller.name, SCHROOT_SESSION_ID |-> session])

(***************************************************************************)
(* Directories, shells and commands.                                       *)
(***************************************************************************)
\* Append what is not in the list yet.
PushNew(list, x) == IF \E i \in DOMAIN list : list[i] = x THEN list ELSE Append(list, x)

login(command) == IF command = <<>> THEN TRUE ELSE command[1].empty

\* session::get_login_directories where no directory is given.
login_fallbacks(cwd, env, user) ==
    LET home == IF "HOME" \in DOMAIN env THEN PushNew(<<cwd>>, env["HOME"]) ELSE <<cwd>>
    IN PushNew(PushNew(home, user.home), "/")

\* dchroot::session: "current working directory only if preserving environment".
dchroot_fallbacks(cwd, preserve, user) == PushNew(<<IF preserve THEN cwd ELSE user.home>>, "/")

\* dchroot_dsa::session.
dchroot_dsa_fallbacks(user) == PushNew(<<user.home>>, "/")

get_login_directories(prog, wd, cwd, preserve, env, user) ==
    CASE wd # "" -> <<wd>>
      [] wd = "" /\ prog = "schroot" -> login_fallbacks(cwd, env, user)
      [] wd = "" /\ prog = "dchroot" -> dchroot_fallbacks(cwd, preserve, user)
      [] wd = "" /\ prog = "dchroot-dsa" -> dchroot_dsa_fallbacks(user)

\* session::get_command_directories.
command_directories(wd, cwd) == IF wd # "" THEN <<wd>> ELSE <<cwd>>

\* dchroot::session_base: "dchroot does not treat logins differently".
get_command_directories(prog, wd, cwd, preserve, env, user) ==
    IF prog = "schroot" THEN command_directories(wd, cwd)
    ELSE get_login_directories(prog, wd, cwd, preserve, env, user)

\* session::get_shells.  $SHELL counts only with --preserve-environment on the
\* command line, and is read from the environment before the filter.
get_shells(override, default_shell, preserve, user, caller) ==
    IF override # "" THEN <<override>>
    ELSE IF default_shell # "" THEN <<default_shell>>
    ELSE LET complete == get_complete_environment(user, caller)
             env == IF preserve /\ "SHELL" \in DOMAIN complete THEN <<complete["SHELL"]>>
                    ELSE <<>>
             passwd == IF user.shell = "" THEN env ELSE Append(env, user.shell)
         IN PushNew(PushNew(passwd, "/bin/bash"), "/bin/sh")

\* session::get_shell: the first that exists, and the last if none does.
get_shell(shells, existing) ==
    LET found == {i \in DOMAIN shells : shells[i] \in existing}
    IN IF found = {} THEN shells[Len(shells)]
       ELSE shells[CHOOSE i \in found : \A j \in found : i <= j]

\* find_program_in_path: a name with a slash is taken as it is; what PATH does
\* not have is left to exec, which looks in the working directory.
find_program(word, env, inpath) ==
    IF word.abs THEN "as-given"
    ELSE IF "PATH" \in DOMAIN env /\ inpath THEN env["PATH"] ELSE "working-directory"

\* dchroot::session::get_user_command: the words become one for /bin/sh -c.
dchroot_user_command == "/bin/sh"

\* dchroot_dsa::session::get_user_command: "" is the exception COMMAND_ABS.
dchroot_dsa_user_command(word) == IF word.abs THEN "as-given" ELSE ""

get_user_command(prog, command, env, inpath) ==
    CASE prog = "schroot" -> find_program(command[1], env, inpath)
      [] prog = "dchroot" -> dchroot_user_command
      [] prog = "dchroot-dsa" -> dchroot_dsa_user_command(command[1])

(***************************************************************************)
(* chroot_facet_userdata: the data, the variable names that count as       *)
(* taken, and whether an exception was thrown.                             *)
(***************************************************************************)
NoData == [data |-> Empty, env |-> {}, error |-> FALSE]

\* validate_keyname: lower case names with a namespace, but not those of the
\* setup scripts' own variables.
validate_keyname(key) == key \in DOMAIN EnvNames \ Reserved

\* Mutant of set_system_data: the name of the variable is not recorded.
set_system_data_unrecorded(u, key, value) ==
    IF key \notin DOMAIN u.data /\ EnvNames[key] \in u.env THEN [u EXCEPT !.error = TRUE]
    ELSE [u EXCEPT !.data = Over([k \in {key} |-> value], @)]

\* A new key must not set a variable that another key sets.
set_system_data(u, key, value) ==
    IF key \notin DOMAIN u.data /\ EnvNames[key] \in u.env THEN [u EXCEPT !.error = TRUE]
    ELSE [u EXCEPT !.data = Over([k \in {key} |-> value], @), !.env = @ \cup {EnvNames[key]}]

\* remove_data leaves the name of the variable taken.
remove_data(u, key) == [u EXCEPT !.data = remove(@, {key})]

set_data(u, key, value) ==
    IF validate_keyname(key) THEN set_system_data(u, key, value) ELSE [u EXCEPT !.error = TRUE]

\* chroot::set_profile gives these the profile's files; chroot::set_script_config
\* takes them away.
ProfileKeys == {"setup.config", "setup.copyfiles", "setup.nssdatabases", "setup.fstab"}

set_profile(u, profile) ==
    LET config       == set_system_data(u, "setup.config", profile)
        copyfiles    == set_system_data(config, "setup.copyfiles", profile)
        nssdatabases == set_system_data(copyfiles, "setup.nssdatabases", profile)
    IN set_system_data(nssdatabases, "setup.fstab", profile)

set_script_config(u) ==
    LET config       == remove_data(u, "setup.config")
        copyfiles    == remove_data(config, "setup.copyfiles")
        nssdatabases == remove_data(copyfiles, "setup.nssdatabases")
    IN remove_data(nssdatabases, "setup.fstab")

\* chroot::set_keyfile: a key that is not accepted is warned about and left out.
read_data(u, key, more) ==
    LET w == set_data(u, key, more[key])
    IN IF key \notin DOMAIN more \/ w.error THEN u ELSE w

set_keyfile(u, more) ==
    LET after[n \in 0..Len(KeyOrder)] ==
          IF n = 0 THEN u ELSE read_data(after[n - 1], KeyOrder[n], more)
    IN after[Len(KeyOrder)]

\* What the constructor, "profile", "script-config" and the other keys leave.
LoadedData(attrs) ==
    LET made   == set_profile(NoData, "default")
        own    == IF attrs.profile = "absent" THEN made ELSE set_profile(made, attrs.profile)
        script == IF attrs.script_config THEN set_script_config(own) ELSE own
    IN set_keyfile(script, attrs.data)

\* get_profile: set_script_config clears it.
get_profile(attrs) ==
    CASE attrs.script_config -> ""
      [] ~attrs.script_config /\ attrs.profile = "absent" -> "default"
      [] OTHER -> attrs.profile

\* What a session file holds as it is.  A file has one line for a key and its
\* value; the value is printed without an escape and read up to the end of the
\* line, and set_data looks at the key only.  So the rest of a value with a line
\* break becomes lines of its own, of which this module says nothing.
OneLine(data) == \A k \in DOMAIN data : data[k] \notin Multiline

\* chroot_facet_userdata::get_keyfile: all data goes into the session file, of
\* which this is the content for data with OneLine.
get_keyfile(attrs, data) == [attrs EXCEPT !.profile = get_profile(attrs), !.data = data]

\* The keys modifiable for the user, who may be root or become root.
ModifiableKeys(attrs, user, caller) ==
    attrs.user_keys \cup (IF user.uid = 0 \/ caller.uid = 0 THEN attrs.root_keys ELSE {})

\* set_user_data and set_root_data throw at the first key they do not accept.
modify_data(u, key, more, allowed) ==
    IF u.error \/ key \notin DOMAIN more THEN u
    ELSE IF key \notin allowed THEN [u EXCEPT !.error = TRUE]
    ELSE set_data(u, key, more[key])

set_user_data(u, more, allowed) ==
    LET after[n \in 0..Len(KeyOrder)] ==
          IF n = 0 THEN u ELSE modify_data(after[n - 1], KeyOrder[n], more, allowed)
    IN after[Len(KeyOrder)]

\* chroot_facet_userdata::setup_env throws for a variable that is there already,
\* which does not see what is added later.
EnvAmbiguous(data) ==
    \E j, k \in DOMAIN data :
      EnvNames[k] \in DOMAIN ChrootVariables \/ (j # k /\ EnvNames[j] = EnvNames[k])

\* The environment of the setup scripts; what is added later wins.
setup_env(data) ==
    LET own == [v \in {EnvNames[k] : k \in DOMAIN data} |->
                  data[CHOOSE k \in DOMAIN data : EnvNames[k] = v]]
    IN  Over(SessionVariables, Over(own, ChrootVariables))
=============================================================================
