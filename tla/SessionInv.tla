----------------------------- MODULE SessionInv -----------------------------
(***************************************************************************)
(* The inductive invariant behind the theorems about Session: what every   *)
(* control point of the process may rely on.                               *)
(***************************************************************************)
EXTENDS Session

Waiting == {"check", "prewait", "waitpid"}
Working == {"fork", "unlock"} \cup Waiting
InLoop  == {"setup", "lock", "open_session", "run_chroot", "close_session",
            "catch_run"} \cup Working

\* Setup scripts run, or may have run, for the current chroot.
InScripts == (pc \in Working \/ child # "none") /\ phase # "RUN"

\* The loop variable is in range where the body of the loop runs.
Position ==
    /\ pc \in InLoop \/ child # "none" => cur \in 1..Len(chroots) /\ ~NotASession
    /\ cur >= 1
    /\ child # "none" => pc \in Waiting \cup {"dead"}
    /\ pc \in {"open_session", "run_chroot", "close_session", "catch_run"} => phase = "RUN"
    /\ pc \in InLoop /\ phase = "RUN" => op \in {"AUTOMATIC", "RUN"}
    /\ pc \in {"setup", "lock", "fork", "unlock"} => phase # "RUN"
    /\ pc \in {"lock", "fork", "unlock"} \/ InScripts => Runs(op, phase) /\ ~Plain(Slot)

\* Which exceptions may be in flight where.
Unwinding ==
    /\ pc \in {"start", "authenticate", "setupenv", "account", "cred_establish", "impl",
               "loop", "impl_end", "cred_delete", "stop", "open_session", "run_chroot",
               "close_session"} => exc = "none"
    /\ pc \in {"setup", "lock"} \cup Working => exc \in {"none", "session"}
    /\ pc \in {"setup", "lock"} \cup Working /\ phase # "STOP" => exc = "none"
    /\ pc \in {"catch_cred", "catch_auth"} => exc = "auth"
    /\ pc = "impl_catch" => exc = "session"
    /\ pc = "catch_run" => exc \in {"auth", "session"}
    /\ pc \notin Done /\ exc = "none" => lock_status

\* The session file outlives what the scripts make, and what they have made
\* once run-parts reports success.
Files ==
    /\ InScripts /\ phase # "STOP" => meta[Slot] = "full"
    /\ child = "exit0" /\ phase # "RUN" =>
         res[Slot] = IF phase = "STOP" THEN "none" ELSE "up"
    /\ pc = "unlock" /\ exit_status = 0 =>
         res[Slot] = IF phase = "STOP" THEN "none" ELSE "up"

\* What the option parser selected stays selectable.
Selected ==
    pc \notin Done =>
      /\ op = "BEGIN" => Len(chroots) = 1
      /\ op = "AUTOMATIC" =>
           \A i, j \in 1..Len(chroots) : chroots[i].name = chroots[j].name => i = j
      /\ op = "RECOVER" =>
           \A i \in 1..Len(chroots) :
             \/ Plain(chroots[i].name) \/ chroots[i].create
             \/ meta[chroots[i].name] = "full"

\* The chroots the loop has left behind are done with.
Progress ==
    exc = "none" /\ pc \notin Done =>
      /\ \A i \in 1..Len(chroots) :
           i < cur =>
             \/ Plain(chroots[i].name) \/ Accomplished(chroots[i].name)
             \/ pc \in Working /\ phase # "RUN" /\ chroots[i].name = Slot
      /\ pc = "setup" /\ phase = "STOP" /\ op \in {"BEGIN", "RECOVER"} =>
           Plain(Slot) \/ Accomplished(Slot)
      /\ pc = "setup" /\ phase = "RECOVER" /\ op = "BEGIN" =>
           Plain(Slot) \/ Accomplished(Slot)
      /\ pc \in {"impl_end", "cred_delete", "stop", "exit"} => cur > Len(chroots)

Reported == pc \in {"exit", "exited"} /\ exc = "session" => child_status # 0

\* What was acquired, by control point.
Held ==
    /\ pc \in {"exit", "exited"} /\ exc \in {"none", "session"} => ~handlers
    /\ pc \in {"cred_delete", "stop"} => ~handlers
    /\ pc \in {"loop", "setup", "lock", "fork", "unlock", "impl_catch", "impl_end",
               "cred_delete", "stop", "open_session"} => ~psess
    /\ pc \in Waiting /\ phase # "RUN" => ~psess
    /\ pc \in {"start", "authenticate", "setupenv", "account", "cred_establish",
               "impl"} => ~psess
    /\ pc \in {"exit", "exited"} /\ exc \in {"none", "session"} => ~psess
    /\ pc = "stop" => ~cred
    /\ pc \in {"exit", "exited"} /\ exc = "none" => ~cred /\ ~pam

\* How far setup_chroot got for the current chroot, and whether it has the lock.
Stopping ==
    /\ pc \in {"lock", "fork", "unlock"} \cup Waiting => lock_status
    /\ pc \in {"fork", "unlock"} \cup Waiting /\ phase = "START" => started = "locked"
    /\ pc \in InLoop /\ Plain(Slot) => started = "no"
    /\ op = "AUTOMATIC" /\ pc \in InLoop /\ ~Plain(Slot) /\ lock_status =>
         /\ phase \in {"RECOVER", "RUN"} => started = "done"
         /\ phase = "STOP" =>
              IF pc \in {"setup", "lock", "fork"} THEN started \in {"locked", "done"}
                                                 ELSE started = "stopped"
    /\ op = "AUTOMATIC" /\ lock_status
         /\ \/ pc \in {"impl_catch", "impl_end", "cred_delete", "stop"}
            \/ pc \in {"exit", "exited"} /\ exc \in {"none", "session"}
         => started \notin {"locked", "done"}

\* What Session is an implementation of, variable for variable.
Lifecycle == INSTANCE SessionLifecycle

\* Every behaviour of the process, its scripts and its failures is a life of
\* sessions as SessionLifecycle allows it: session::setup_chroot claims a name
\* before it runs a script for it and gives it up only when nothing is left.
ImplementsLifecycle == Lifecycle!Spec

IndInv ==
    /\ TypeOK
    /\ ResourcesHaveMetadata
    /\ Position
    /\ Unwinding
    /\ Files
    /\ Selected
    /\ Progress
    /\ Reported
    /\ Held
    /\ Stopping
    /\ NoErrorMeansDone
=============================================================================
