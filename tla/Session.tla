------------------------------ MODULE Session ------------------------------
(***************************************************************************)
(* One schroot process after another working on a set of named sessions:   *)
(* sbuild::session::run and everything it calls that changes state, i.e.   *)
(* the PAM conversation, the loop over the selected chroots, the setup     *)
(* scripts and their lock, the user's command, the signals, and the C++    *)
(* exceptions that cut any of these short.                                 *)
(*                                                                         *)
(* An exception is in flight in `exc`, named by the class that throws it;  *)
(* the code's catch clauses name one class each, so the class decides how  *)
(* far the exception unwinds.  What outlives a process is the session file *)
(* (`meta`) and what the setup scripts made (`res`).                       *)
(***************************************************************************)
EXTENDS Naturals, Sequences

CONSTANTS
    Slots,        \* session names
    TypeOf,       \* [Slots -> ChrootTypes]: the kind of chroot behind a name
    MaxChroots,   \* how many chroots one command line may select
    Faults        \* which calls outside the program may fail

Snapshots == {"lvm-snapshot", "btrfs-snapshot", "zfs-snapshot"}

ChrootTypes ==
    {"plain", "directory", "custom", "file", "loopback", "block-device"} \cup Snapshots

FaultKinds ==
    {"pam",       \* any PAM call; a refused user is a failed authenticate
     "groups",    \* reading this process's groups
     "device",    \* stat of the chroot's file or device
     "lockfile",  \* creating or locking the session file
     "unlink",    \* removing the session file
     "options",   \* a user option (-o) the chroot does not let this user set
     "setup.d",   \* listing the setup scripts
     "fork", "wait",
     "purge",     \* deleting a snapshot, which setup-stop shrugs off
     "killed",    \* run-parts dies by a signal this process did not send
     "crash"}     \* this process dies (SIGKILL, or a signal not yet handled)

ASSUME SessionAssumption ==
    /\ TypeOf \in [Slots -> ChrootTypes]
    /\ MaxChroots \in Nat
    /\ Faults \subseteq FaultKinds

VARIABLES
    pc,            \* where the process is
    exc,           \* class of the exception in flight, "none" otherwise
    op, chroots,   \* session_operation and the selected chroots
    cur,           \* the loop variable of run_impl
    phase,         \* the setup_type of setup_chroot, "RUN" in between
    pam, cred, psess,                       \* PAM handle, credentials, session
    sighup_called, sigterm_called, sigint_called,
    handlers,      \* the three signal handlers are installed
    chroot_status, lock_status, child_status,
    child,         \* the forked process: run-parts or the user's command
    child_killed,  \* a signal was passed on to it
    exit_status,   \* what wait_for_child hands to setup_chroot
    arg,           \* chroot_status_string given to the setup scripts
    started,       \* history: how far the scripts got for the current chroot
    meta,          \* the session file of each name
    res            \* what the setup scripts made for each name

ctl    == <<pc, exc, cur, phase>>
job    == <<op, chroots>>
auth   == <<pam, cred, psess>>
flags  == <<sighup_called, sigterm_called, sigint_called>>
status == <<chroot_status, lock_status, child_status>>
kid    == <<child, child_killed, exit_status, arg>>
world  == <<meta, res>>
vars   == <<ctl, job, auth, flags, handlers, status, kid, started, world>>

Ops    == {"AUTOMATIC", "BEGIN", "RECOVER", "RUN", "END"}
Phases == {"START", "RECOVER", "RUN", "STOP"}
Done   == {"exited", "dead"}
PCs    == {"start", "authenticate", "setupenv", "account", "cred_establish",
           "impl", "loop", "setup", "lock", "fork", "check", "prewait",
           "waitpid", "unlock", "open_session", "run_chroot", "close_session",
           "catch_run", "impl_catch", "impl_end", "cred_delete",
           "catch_cred", "catch_auth", "stop", "exit"} \cup Done
Entries == [name: Slots, create: BOOLEAN]

(***************************************************************************)
(* Type invariant.                                                         *)
(***************************************************************************)
Booleans ==
    /\ pam \in BOOLEAN /\ cred \in BOOLEAN /\ psess \in BOOLEAN
    /\ sighup_called \in BOOLEAN /\ sigterm_called \in BOOLEAN
    /\ sigint_called \in BOOLEAN /\ handlers \in BOOLEAN
    /\ chroot_status \in BOOLEAN /\ lock_status \in BOOLEAN
    /\ child_killed \in BOOLEAN

Domains ==
    /\ pc \in PCs
    /\ exc \in {"none", "auth", "session", "uncaught"}
    /\ op \in Ops
    /\ chroots \in Seq(Entries)
    /\ cur \in Nat
    /\ phase \in Phases
    /\ child_status \in {0, 1} /\ exit_status \in {0, 1}
    /\ child \in {"none", "running", "exit0", "exit1", "signaled"}
    /\ arg \in {"ok", "fail"}
    /\ started \in {"no", "locked", "done", "stopped"}
    /\ meta \in [Slots -> {"absent", "empty", "full"}]
    /\ res \in [Slots -> {"none", "partial", "up"}]

TypeOK == Booleans /\ Domains

Slot == chroots[cur].name

(***************************************************************************)
(* A fresh process: what the session constructor and the option parser     *)
(* leave.  AUTOMATIC makes a name no other session has (a UUID); BEGIN     *)
(* takes one chroot and a name that may be taken; the others find their    *)
(* sessions by loading the session directory, where an empty file defines  *)
(* none, or are given a chroot that is no session at all ("chroot:...").   *)
(***************************************************************************)
Plain(s) == TypeOf[s] = "plain"
Fresh(s) == meta[s] = "absent" /\ res[s] = "none"

Selectable(o, e) ==
    CASE o = "AUTOMATIC" -> /\ e.create = ~Plain(e.name)
                            /\ Plain(e.name) \/ Fresh(e.name)
      [] o = "BEGIN"     -> e.create = ~Plain(e.name)
      [] OTHER           -> \/ Plain(e.name) /\ ~e.create
                            \/ ~Plain(e.name) /\ (e.create \/ meta[e.name] = "full")

Selection(o, list) ==
    /\ Len(list) >= 1
    /\ o = "BEGIN" => Len(list) = 1
    /\ \A i \in 1..Len(list) : Selectable(o, list[i])
    /\ o = "AUTOMATIC" =>
         \A i, j \in 1..Len(list) : list[i].name = list[j].name => i = j

Lists == UNION {[1..n -> Entries] : n \in 1..MaxChroots}

\* The memory of a process that is new, or dead.
Blank ==
    /\ exc' = "none"
    /\ pam' = FALSE /\ cred' = FALSE /\ psess' = FALSE
    /\ sighup_called' = FALSE /\ sigterm_called' = FALSE
    /\ sigint_called' = FALSE /\ handlers' = FALSE
    /\ chroot_status' = TRUE /\ lock_status' = TRUE /\ child_status' = 1
    /\ child_killed' = FALSE /\ exit_status' = 0
    /\ arg' = "ok" /\ started' = "no"

Construct(o, list) ==
    /\ op' = o /\ chroots' = list
    /\ pc' = "start" /\ cur' = 1 /\ phase' = "START" /\ child' = "none"
    /\ Blank

Init ==
    /\ meta = [s \in Slots |-> "absent"]
    /\ res = [s \in Slots |-> "none"]
    /\ op = "END" /\ chroots = <<>>
    /\ pc = "dead" /\ exc = "none" /\ cur = 1 /\ phase = "START"
    /\ pam = FALSE /\ cred = FALSE /\ psess = FALSE
    /\ sighup_called = FALSE /\ sigterm_called = FALSE
    /\ sigint_called = FALSE /\ handlers = FALSE
    /\ chroot_status = TRUE /\ lock_status = TRUE /\ child_status = 1
    /\ child = "none" /\ child_killed = FALSE /\ exit_status = 0
    /\ arg = "ok" /\ started = "no"

\* The next command line; an orphaned run-parts is given time to end.
NewProcess ==
    /\ pc \in Done /\ child # "running"
    /\ \E o \in Ops, list \in Lists : Selection(o, list) /\ Construct(o, list)
    /\ UNCHANGED world

(***************************************************************************)
(* session::run: PAM start, authentication, account, credentials.  Every   *)
(* failure but that of get_auth_status is an auth::error.                  *)
(***************************************************************************)
PamFails == "pam" \in Faults

AuthError(handler) ==
    /\ exc' = "auth" /\ pc' = handler
    /\ UNCHANGED <<cur, phase>>

Goto(label) ==
    /\ pc' = label
    /\ UNCHANGED <<exc, cur, phase>>

\* A stat::error, chroot_facet_userdata::error or boost::filesystem error, or a
\* session::error before run_impl: nothing catches it before main does.
Uncaught ==
    /\ exc' = "uncaught" /\ pc' = "exit"
    /\ UNCHANGED <<cur, phase>>

Start ==
    /\ pc = "start"
    /\ \/ pam' = TRUE /\ Goto("authenticate")
       \/ PamFails /\ UNCHANGED pam /\ AuthError("catch_auth")
    /\ UNCHANGED <<job, cred, psess, flags, handlers, status, kid, started, world>>

PamStep(here, next) ==
    /\ pc = here
    /\ \/ Goto(next)
       \/ PamFails /\ AuthError("catch_auth")
    /\ UNCHANGED <<job, auth, flags, handlers, status, kid, started, world>>

\* get_auth_status, the argument, asks for the caller's groups (is_group_member).
GroupsUnknown ==
    /\ pc = "authenticate" /\ "groups" \in Faults
    /\ Uncaught
    /\ UNCHANGED <<job, auth, flags, handlers, status, kid, started, world>>

Authenticate == PamStep("authenticate", "setupenv") \/ GroupsUnknown
Setupenv     == PamStep("setupenv", "account")
Account      == PamStep("account", "cred_establish")

CredEstablish ==
    /\ pc = "cred_establish"
    /\ \/ cred' = TRUE /\ Goto("impl")
       \/ PamFails /\ UNCHANGED cred /\ AuthError("catch_cred")
    /\ UNCHANGED <<job, pam, psess, flags, handlers, status, kid, started, world>>

\* catch (auth::error) around cred_establish and run_impl: errors discarded.
CatchCred ==
    /\ pc = "catch_cred"
    /\ \/ cred' = FALSE
       \/ PamFails /\ UNCHANGED cred
    /\ Goto("catch_auth")
    /\ UNCHANGED <<job, pam, psess, flags, handlers, status, kid, started, world>>

\* The outer catch (auth::error): pam_end, then rethrow to main.
CatchAuth ==
    /\ pc = "catch_auth"
    /\ \/ pam' = FALSE
       \/ PamFails /\ UNCHANGED pam
    /\ Goto("exit")
    /\ UNCHANGED <<job, cred, psess, flags, handlers, status, kid, started, world>>

CredDelete ==
    /\ pc = "cred_delete"
    /\ \/ cred' = FALSE /\ Goto("stop")
       \/ PamFails /\ UNCHANGED cred /\ AuthError("catch_auth")
    /\ UNCHANGED <<job, pam, psess, flags, handlers, status, kid, started, world>>

Stop ==
    /\ pc = "stop"
    /\ \/ pam' = FALSE /\ Goto("exit")
       \/ PamFails /\ UNCHANGED pam /\ AuthError("exit")
    /\ UNCHANGED <<job, cred, psess, flags, handlers, status, kid, started, world>>

\* main_base::run_impl logs whatever was thrown and returns child_status;
\* exit() in schroot_base::run destroys no automatic object, so ~auth_pam
\* never runs.
Exit ==
    /\ pc = "exit"
    /\ Goto("exited")
    /\ UNCHANGED <<job, auth, flags, handlers, status, kid, started, world>>

(***************************************************************************)
(* session::run_impl: signal handlers, then the loop over the chroots.     *)
(***************************************************************************)
\* (sigaction has no reason to refuse a handler for these signals.)
RunImpl ==
    /\ pc = "impl"
    /\ sighup_called' = FALSE /\ sigint_called' = FALSE /\ sigterm_called' = FALSE
    /\ handlers' = TRUE
    /\ Goto("loop")
    /\ UNCHANGED <<job, auth, status, kid, started, world>>

NotASession ==
    /\ chroots[cur].create
    /\ op \notin {"AUTOMATIC", "BEGIN"}

\* A chroot to be cloned for a session needs to know whether its user may be
\* root, and get_chroot_membership may fail.
Loop ==
    /\ pc = "loop"
    /\ started' = "no"
    /\ \/ /\ cur > Len(chroots)
          /\ Goto("impl_end")
          /\ UNCHANGED child_status
       \/ /\ cur <= Len(chroots)
          /\ NotASession \/ (chroots[cur].create /\ "groups" \in Faults)
          /\ exc' = "session" /\ pc' = "impl_catch"
          /\ UNCHANGED <<cur, phase, child_status>>
       \/ /\ cur <= Len(chroots)
          /\ ~NotASession
          /\ \/ /\ child_status' = 0
                /\ phase' = "START" /\ pc' = "setup"
                /\ UNCHANGED <<exc, cur>>
             \/ "options" \in Faults /\ Uncaught /\ UNCHANGED child_status
    /\ UNCHANGED <<job, auth, flags, handlers, chroot_status, lock_status, kid, world>>

\* Mutant of SessionError: a failed setup-start is not followed by setup-stop.
SessionErrorNoStop ==
    /\ exc' = "session"
    /\ pc' = IF phase = "RUN" THEN "catch_run" ELSE "impl_catch"
    /\ UNCHANGED <<cur, phase>>

\* A session::error: out of the inner try block into a setup-stop, out of
\* run_chroot into its own catch, or out of setup-stop (where one thrown
\* while unwinding is discarded) to the end of run_impl.
SessionError ==
    /\ exc' = "session"
    /\ CASE phase = "STOP" -> pc' = "impl_catch" /\ UNCHANGED phase
         [] phase = "RUN"  -> pc' = "catch_run" /\ UNCHANGED phase
         [] OTHER          -> pc' = "setup" /\ phase' = "STOP"
    /\ UNCHANGED cur

\* Mutant of ImplCatch: the exit status is left at success.
ImplCatchSilent ==
    /\ pc = "impl_catch"
    /\ handlers' = FALSE
    /\ Goto("exit")
    /\ UNCHANGED <<job, auth, flags, status, kid, started, world>>

\* catch (error) of run_impl.
ImplCatch ==
    /\ pc = "impl_catch"
    /\ handlers' = FALSE
    /\ child_status' = IF child_status = 0 THEN 1 ELSE child_status
    /\ Goto("exit")
    /\ UNCHANGED <<job, auth, flags, chroot_status, lock_status, kid, started, world>>

ImplEnd ==
    /\ pc = "impl_end"
    /\ handlers' = FALSE
    /\ Goto("cred_delete")
    /\ UNCHANGED <<job, auth, flags, status, kid, started, world>>

(***************************************************************************)
(* session::setup_chroot.                                                  *)
(***************************************************************************)
\* Mutant of Runs: an automatic session is never stopped.
RunsNoAutomaticStop(o, type) ==
    <<o, type>> \in {<<"BEGIN", "START">>, <<"RECOVER", "RECOVER">>, <<"END", "STOP">>,
                     <<"AUTOMATIC", "START">>}

\* The setup types each operation runs scripts for.
Runs(o, type) ==
    <<o, type>> \in {<<"BEGIN", "START">>, <<"RECOVER", "RECOVER">>, <<"END", "STOP">>,
                     <<"AUTOMATIC", "START">>, <<"AUTOMATIC", "STOP">>}

\* Where run_impl continues when setup_chroot returns.
Return ==
    \/ /\ phase = "START"
       /\ phase' = "RECOVER" /\ pc' = "setup"
       /\ UNCHANGED <<exc, cur>>
    \/ /\ phase = "RECOVER"
       /\ IF op \in {"AUTOMATIC", "RUN"}
            THEN phase' = "RUN" /\ pc' = "open_session"
            ELSE phase' = "STOP" /\ pc' = "setup"
       /\ UNCHANGED <<exc, cur>>
    \/ /\ phase = "STOP" /\ exc = "none"
       /\ cur' = cur + 1 /\ phase' = "START" /\ pc' = "loop"
       /\ UNCHANGED exc
    \/ /\ phase = "STOP" /\ exc # "none"
       /\ Goto("impl_catch")

Skipped == ~Runs(op, phase) \/ ~lock_status \/ Plain(Slot)

SetupChroot ==
    /\ pc = "setup"
    /\ \/ Skipped /\ Return /\ UNCHANGED chroot_status
       \/ /\ ~Skipped
          /\ chroot_status' = (chroot_status \/ phase = "START")
          /\ Goto("lock")
    /\ UNCHANGED <<job, auth, flags, handlers, lock_status, child_status, kid, started, world>>

\* Which calls of setup_lock look at the file or device behind the chroot.
StatsFile(type, setup, call) ==
    type \in {"file", "loopback"} /\ setup = "START" /\ call = "lock"

StatsDevice(type, setup, call) ==
    /\ type = "block-device"
    /\ <<setup, call>> \notin {<<"START", "unlock">>, <<"STOP", "lock">>}

StatsSnapshot(type, setup, call) ==
    type = "lvm-snapshot" /\ <<setup, call>> # <<"STOP", "unlock">>

\* The checks of the chroot types' setup_lock before they touch the session
\* file: their result may be no error, a chroot::error or a stat::error.
Checks(type, setup, call) ==
    {"none"} \cup
       IF /\ "device" \in Faults
          /\ \/ StatsFile(type, setup, call) \/ StatsDevice(type, setup, call)
             \/ StatsSnapshot(type, setup, call)
         THEN {"chroot"} \cup (IF setup = "STOP" THEN {} ELSE {"stat"})
         ELSE {}

\* Mutant of CreateInfo: no O_EXCL, the name's file is overwritten.
CreateInfoShared(before) == {<<"none", "full">>}

\* chroot::setup_session_info(true): O_EXCL, lock, write, unlock.
\* Result and the file afterwards: opening, locking or unlocking it may fail.
CreateInfo(before) ==
    IF before # "absent"
      THEN {<<"chroot", before>>}
      ELSE {<<"none", "full">>} \cup
           (IF "lockfile" \in Faults
              THEN {<<"chroot", f>> : f \in {"absent", "empty", "full"}} ELSE {})

\* chroot::setup_session_info(false): unlink.
RemoveInfo(before) ==
    (IF before = "absent" THEN {<<"chroot", "absent">>} ELSE {<<"none", "absent">>}) \cup
    (IF "unlink" \in Faults THEN {<<"chroot", before>>} ELSE {})

\* Mutant of SetupLock: the session file goes although setup-stop failed.
SetupLockAnyStatus(type, setup, call, stat, before) ==
    UNION {CASE e = "none" /\ setup = "START" /\ call = "lock" -> CreateInfo(before)
             [] e = "none" /\ setup = "STOP" /\ call = "unlock" -> RemoveInfo(before)
             [] OTHER -> {<<e, before>>}
           : e \in Checks(type, setup, call)}

\* setup_lock(type, lock, status), called by lock() and by unlock(): every
\* possible result.
SetupLock(type, setup, call, stat, before) ==
    UNION {CASE e = "none" /\ setup = "START" /\ call = "lock" -> CreateInfo(before)
             [] e = "none" /\ setup = "STOP" /\ call = "unlock" /\ stat = 0 -> RemoveInfo(before)
             [] OTHER -> {<<e, before>>}
           : e \in Checks(type, setup, call)}

SetInfo(file) == meta' = [meta EXCEPT ![Slot] = file]

\* What setup_chroot makes of the result r of lock(setup_type).  After a
\* chroot::error it calls unlock(setup_type, 0) and ignores that one's
\* chroot::error.
LockOutcome(r) ==
    \/ /\ r[1] = "none"
       /\ SetInfo(r[2])
       /\ started' = IF phase = "START" THEN "locked" ELSE started
       /\ Goto("fork")
       /\ UNCHANGED <<chroot_status, lock_status>>
    \/ /\ r[1] = "stat"
       /\ SetInfo(r[2])
       /\ Uncaught
       /\ UNCHANGED <<chroot_status, lock_status, started>>
    \/ /\ r[1] = "chroot"
       /\ chroot_status' = FALSE /\ lock_status' = FALSE
       /\ \E u \in SetupLock(TypeOf[Slot], phase, "unlock", 0, r[2]) :
            /\ SetInfo(u[2])
            /\ IF u[1] = "stat" THEN Uncaught ELSE SessionError
       /\ UNCHANGED started

LockChroot ==
    /\ pc = "lock"
    /\ \E r \in SetupLock(TypeOf[Slot], phase, "lock", 0, meta[Slot]) : LockOutcome(r)
    /\ UNCHANGED <<job, auth, flags, handlers, child_status, kid, res>>

\* The scripts are listed, then run-parts is forked.
ForkScripts ==
    /\ pc = "fork"
    /\ \/ /\ child' = "running" /\ child_killed' = FALSE /\ exit_status' = 1
          /\ arg' = IF chroot_status THEN "ok" ELSE "fail"
          /\ Goto("check")
          /\ UNCHANGED chroot_status
       \/ /\ "fork" \in Faults
          /\ chroot_status' = FALSE
          /\ SessionError
          /\ UNCHANGED kid
       \/ "setup.d" \in Faults /\ Uncaught /\ UNCHANGED <<kid, chroot_status>>
    /\ started' = IF phase = "STOP" /\ started # "no" THEN "stopped" ELSE started
    /\ UNCHANGED <<job, auth, flags, handlers, lock_status, child_status, world>>

\* ... and of the result u of unlock(setup_type, exit_status).
UnlockOutcome(u) ==
    /\ SetInfo(u[2])
    /\ \/ /\ u[1] = "stat"
          /\ Uncaught
          /\ UNCHANGED <<chroot_status, lock_status, started>>
       \/ /\ u[1] = "chroot"
          /\ chroot_status' = FALSE /\ lock_status' = FALSE
          /\ SessionError
          /\ UNCHANGED started
       \/ /\ u[1] = "none" /\ exit_status # 0
          /\ chroot_status' = FALSE
          /\ SessionError
          /\ UNCHANGED <<lock_status, started>>
       \/ /\ u[1] = "none" /\ exit_status = 0
          /\ started' = IF phase = "START" THEN "done" ELSE started
          /\ Return
          /\ UNCHANGED <<chroot_status, lock_status>>

\* Mutant of UnlockChroot: unlock is told success whatever the scripts said.
UnlockChrootAsSuccess ==
    /\ pc = "unlock"
    /\ \E u \in SetupLock(TypeOf[Slot], phase, "unlock", 0, meta[Slot]) : UnlockOutcome(u)
    /\ UNCHANGED <<job, auth, flags, handlers, child_status, kid, res>>

UnlockChroot ==
    /\ pc = "unlock"
    /\ \E u \in SetupLock(TypeOf[Slot], phase, "unlock", exit_status, meta[Slot]) :
         UnlockOutcome(u)
    /\ UNCHANGED <<job, auth, flags, handlers, child_status, kid, res>>

(***************************************************************************)
(* session::wait_for_child.  "check" is the test of the flags at the head  *)
(* of the loop, "prewait" the moment before waitpid blocks, "waitpid" the  *)
(* wait itself.                                                            *)
(***************************************************************************)
WaitCheck ==
    /\ pc = "check"
    /\ IF (sighup_called \/ sigterm_called) /\ ~child_killed
         THEN child_killed' = TRUE /\ chroot_status' = FALSE
         ELSE UNCHANGED <<child_killed, chroot_status>>
    /\ Goto("prewait")
    /\ UNCHANGED <<job, auth, flags, handlers, lock_status, child_status, child,
                   exit_status, arg, started, world>>

WaitBlock ==
    /\ pc = "prewait"
    /\ Goto("waitpid")
    /\ UNCHANGED <<job, auth, flags, handlers, status, kid, started, world>>

\* Mutant of Reap: a child that died by a signal is waited for again.
ReapExitedOnly ==
    /\ pc = "waitpid" /\ child \in {"exit0", "exit1"}
    /\ child' = "none"
    /\ LET code == IF child = "exit0" THEN 0 ELSE 1
       IN IF phase = "RUN"
            THEN child_status' = code /\ Goto("close_session") /\ UNCHANGED exit_status
            ELSE exit_status' = code /\ Goto("unlock") /\ UNCHANGED child_status
    /\ UNCHANGED <<job, auth, flags, handlers, chroot_status, lock_status,
                   child_killed, arg, started, world>>

\* waitpid returned: the child is reaped.
Reap ==
    /\ pc = "waitpid" /\ child \notin {"none", "running"}
    /\ child' = "none"
    /\ sighup_called' = FALSE
    /\ sigterm_called' = (sigterm_called /\ sighup_called)
    /\ LET code == IF child = "exit0" THEN 0 ELSE 1
       IN IF sighup_called \/ sigterm_called \/ child = "signaled"
            THEN SessionError /\ UNCHANGED <<exit_status, child_status>>
            ELSE IF phase = "RUN"
                   THEN child_status' = code /\ Goto("close_session")
                        /\ UNCHANGED exit_status
                   ELSE exit_status' = code /\ Goto("unlock")
                        /\ UNCHANGED child_status
    /\ UNCHANGED <<job, auth, sigint_called, handlers, chroot_status, lock_status,
                   child_killed, arg, started, world>>

\* waitpid failed for another reason than a signal (no child to wait for).
WaitError ==
    /\ pc = "waitpid" /\ child # "running" /\ "wait" \in Faults
    /\ child' = "none"
    /\ SessionError
    /\ UNCHANGED <<job, auth, flags, handlers, status, child_killed, exit_status,
                   arg, started, world>>

(***************************************************************************)
(* The user's command: PAM session, run_chroot.                            *)
(***************************************************************************)
OpenSession ==
    /\ pc = "open_session"
    /\ \/ psess' = TRUE /\ Goto("run_chroot")
       \/ PamFails /\ UNCHANGED psess /\ AuthError("catch_run")
    /\ UNCHANGED <<job, pam, cred, flags, handlers, status, kid, started, world>>

RunChroot ==
    /\ pc = "run_chroot"
    /\ \/ /\ child' = "running" /\ child_killed' = FALSE /\ child_status' = 1
          /\ Goto("check")
       \/ /\ "fork" \in Faults
          /\ SessionError
          /\ UNCHANGED <<child, child_killed, child_status>>
    /\ UNCHANGED <<job, auth, flags, handlers, chroot_status, lock_status,
                   exit_status, arg, started, world>>

\* catch (std::runtime_error): close_session, whose own error takes over.
\* Only a session::error is then caught and followed by setup-stop.
CatchRun ==
    /\ pc = "catch_run"
    /\ \/ /\ psess' = FALSE
          /\ IF exc = "session"
               THEN phase' = "STOP" /\ pc' = "setup" /\ UNCHANGED <<exc, cur>>
               ELSE Goto("catch_cred")
       \/ PamFails /\ UNCHANGED psess /\ AuthError("catch_cred")
    /\ UNCHANGED <<job, pam, cred, flags, handlers, status, kid, started, world>>

CloseSession ==
    /\ pc = "close_session"
    /\ \/ /\ psess' = FALSE
          /\ phase' = "STOP" /\ pc' = "setup" /\ UNCHANGED <<exc, cur>>
       \/ PamFails /\ UNCHANGED psess /\ AuthError("catch_cred")
    /\ UNCHANGED <<job, pam, cred, flags, handlers, status, kid, started, world>>

(***************************************************************************)
(* The environment: signals, the child, the death of the process.          *)
(***************************************************************************)
\* A handled signal sets its flag, and interrupts waitpid if it is blocking.
Signal(s) ==
    /\ handlers /\ pc \notin Done
    /\ sighup_called' = (sighup_called \/ s = "HUP")
    /\ sigterm_called' = (sigterm_called \/ s = "TERM")
    /\ sigint_called' = (sigint_called \/ s = "INT")
    /\ pc' = IF pc = "waitpid" /\ child = "running" THEN "check" ELSE pc
    /\ UNCHANGED <<exc, cur, phase, job, auth, handlers, status, kid, started, world>>

\* The setup scripts at work: partway between nothing and everything.
ScriptsWork ==
    /\ child = "running" /\ phase # "RUN"
    /\ phase = "STOP" => res[Slot] = "up"
    /\ res' = [res EXCEPT ![Slot] = "partial"]
    /\ UNCHANGED <<ctl, job, auth, flags, handlers, status, kid, started, meta>>

\* run-parts succeeds only when every script did, but the scripts for snapshots
\* succeed whether or not the snapshot could be deleted.
ScriptsSucceed ==
    /\ child = "running" /\ phase # "RUN"
    /\ child' = "exit0"
    /\ \E left \in IF phase # "STOP" THEN {"up"}
                   ELSE IF "purge" \in Faults /\ TypeOf[Slot] \in Snapshots
                          THEN {"none", "partial"} ELSE {"none"} :
         res' = [res EXCEPT ![Slot] = left]
    /\ UNCHANGED <<ctl, job, auth, flags, handlers, status, child_killed, exit_status,
                   arg, started, meta>>

ScriptsFail ==
    /\ child = "running" /\ phase # "RUN"
    /\ \/ child' = "exit1"
       \/ child' = "signaled" /\ "killed" \in Faults
    /\ UNCHANGED <<ctl, job, auth, flags, handlers, status, child_killed, exit_status,
                   arg, started, world>>

CommandExits ==
    /\ child = "running" /\ phase = "RUN"
    /\ child' \in {"exit0", "exit1", "signaled"}
    /\ UNCHANGED <<ctl, job, auth, flags, handlers, status, child_killed, exit_status,
                   arg, started, world>>

\* The death of the process, whose child lives on; in setup_session_info, perhaps before the
\* buffered stream wrote anything into the file just created.
Crash ==
    /\ "crash" \in Faults /\ pc \notin Done
    /\ pc' = "dead"
    /\ \/ UNCHANGED meta
       \/ /\ pc = "lock" /\ phase = "START" /\ meta[Slot] = "absent"
          /\ meta' = [meta EXCEPT ![Slot] = "empty"]
    /\ Blank
    /\ UNCHANGED <<cur, phase, job, child, res>>

Process ==
    \/ Start \/ Authenticate \/ Setupenv \/ Account \/ CredEstablish
    \/ RunImpl \/ Loop \/ SetupChroot \/ LockChroot \/ ForkScripts
    \/ WaitCheck \/ WaitBlock \/ Reap \/ UnlockChroot
    \/ OpenSession \/ RunChroot \/ CatchRun \/ CloseSession
    \/ ImplCatch \/ ImplEnd \/ CatchCred \/ CatchAuth \/ CredDelete \/ Stop \/ Exit

ChildEnds == ScriptsSucceed \/ ScriptsFail \/ CommandExits

Signals == \E s \in {"HUP", "TERM", "INT"} : Signal(s)

Next ==
    Process \/ ChildEnds \/ ScriptsWork \/ WaitError \/ Signals \/ Crash \/ NewProcess

Spec == Init /\ [][Next]_vars

\* The scheduler runs a process that can run, and the setup scripts and the
\* command end at some time.
LiveSpec == Spec /\ WF_vars(Process) /\ WF_vars(ChildEnds)

(***************************************************************************)
(* Properties.                                                             *)
(***************************************************************************)
\* Whatever the setup scripts have made is named by a complete session file,
\* so that a later --end-session finds it: setup_lock writes the file before
\* run-parts starts and removes it only after setup-stop succeeded, whatever
\* signal, failure or crash comes in between.
ResourcesHaveMetadata ==
    \A s \in Slots : res[s] # "none" => meta[s] = "full"

\* A run that reports no error did what the operation is for, for every
\* selected chroot that has setup scripts: BEGIN and RECOVER leave the session
\* set up, AUTOMATIC and END leave nothing of it.
Accomplished(s) ==
    CASE op \in {"BEGIN", "RECOVER"}  -> res[s] = "up" /\ meta[s] = "full"
      [] op \in {"AUTOMATIC", "END"} -> res[s] = "none" /\ meta[s] = "absent"
      [] OTHER                       -> TRUE

NoErrorMeansDone ==
    pc = "exited" /\ exc = "none" =>
      \A i \in 1..Len(chroots) : Plain(chroots[i].name) \/ Accomplished(chroots[i].name)

\* A session::error never ends in exit status 0, although run_impl resets
\* child_status to success before each chroot.
SessionErrorReported ==
    pc = "exited" /\ exc = "session" => child_status # 0

\* The setup-stop of an automatic session is tried by the time the process
\* exits on no error or on a session::error if its own setup-start had locked
\* the session, and is run only then: after a failed lock the chroot is
\* somebody else's.
StopDiscipline ==
    /\ pc = "exited" /\ op = "AUTOMATIC" /\ exc \in {"none", "session"} /\ lock_status
         => started \notin {"locked", "done"}
    /\ pc \notin Done /\ child = "running" /\ phase = "STOP" /\ op = "AUTOMATIC"
         => started = "stopped" /\ lock_status

\* On no error everything run() acquired is given back; on a session::error
\* at least the PAM session is closed and the signal handlers are restored.
CleanExit ==
    pc = "exited" =>
      /\ exc \in {"none", "session"} => ~handlers /\ ~psess
      /\ exc = "none" => ~pam /\ ~cred

\* --begin-session with the name of an existing session changes neither that
\* session's file nor anything set up for it.
CollisionHarmless ==
    [][ op = "BEGIN" /\ pc \notin Done /\ started = "no"
          /\ cur <= Len(chroots) /\ meta[Slot] # "absent"
        => UNCHANGED world ]_vars

\* Every invocation ends: no signal, failure or unwinding path loops or blocks
\* once the scripts and the command end.
Terminates == []<>(pc \in Done)

-----------------------------------------------------------------------------
(***************************************************************************)
(* What a comment says and the code does not do.                           *)
(***************************************************************************)
\* "Run setup-stop chroot setup scripts whether or not there was an error."
StopAlwaysRun ==
    pc = "exited" /\ op = "AUTOMATIC" /\ lock_status => started \notin {"locked", "done"}
=============================================================================
