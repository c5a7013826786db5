------------------------------ MODULE FileLock ------------------------------
(***************************************************************************)
(* file_lock: whole-file advisory locks taken with fcntl(2), with a time   *)
(* limit made of an interval timer and a SIGALRM handler that only exists  *)
(* to interrupt the system call.  One action per system call that another  *)
(* process or the timer can come between.  sigaction and setitimer fail    *)
(* only for arguments this code never passes, so their error paths are     *)
(* left out; fcntl may fail (no locks available).                          *)
(***************************************************************************)
EXTENDS Naturals

CONSTANTS
    Proc,   \* processes, each with one call of set_lock at a time
    File    \* the files they lock

\* lock::type.
LockTypes == {"none", "shared", "exclusive"}

\* Where a process is in set_lock: not in it; timer set and fcntl not yet
\* called; blocked in fcntl; fcntl returned 0; fcntl returned -1.
Calls == {"out", "armed", "blocked", "got", "failed"}

VARIABLES
    call,      \* [Proc -> Calls]
    handler,   \* [Proc -> the disposition of SIGALRM]
    timer,     \* [Proc -> BOOLEAN]: ITIMER_REAL is running
    holds      \* [File -> [Proc -> LockTypes]], kept by the kernel

lockVars == <<call, handler, timer, holds>>

LockTypeOK ==
    /\ call \in [Proc -> Calls]
    /\ handler \in [Proc -> {"saved", "alarm_handler"}]
    /\ timer \in [Proc -> BOOLEAN]
    /\ holds \in [File -> [Proc -> LockTypes]]

LockInit ==
    /\ call = [p \in Proc |-> "out"]
    /\ handler = [p \in Proc |-> "saved"]
    /\ timer = [p \in Proc |-> FALSE]
    /\ holds = [f \in File |-> [p \in Proc |-> "none"]]

\* set_lock up to its fcntl: the handler is saved and replaced, the timer set.
set_timer(p) ==
    /\ call[p] = "out"
    /\ call' = [call EXCEPT ![p] = "armed"]
    /\ handler' = [handler EXCEPT ![p] = "alarm_handler"]
    /\ timer' = [timer EXCEPT ![p] = TRUE]
    /\ UNCHANGED holds

Compatible(p, f, type) ==
    \A q \in Proc \ {p} :
        holds[f][q] = "none" \/ (holds[f][q] = "shared" /\ type = "shared")

\* fcntl(F_SETLKW): the lock is granted, at once or after a wait, ...
Grant(p, f, type) ==
    /\ call[p] \in {"armed", "blocked"} /\ Compatible(p, f, type)
    /\ call' = [call EXCEPT ![p] = "got"]
    /\ holds' = [holds EXCEPT ![f][p] = type]
    /\ UNCHANGED <<handler, timer>>

\* ... or the process blocks, ...
Block(p, f, type) ==
    /\ call[p] = "armed" /\ ~Compatible(p, f, type)
    /\ call' = [call EXCEPT ![p] = "blocked"]
    /\ UNCHANGED <<handler, timer, holds>>

\* ... or the call fails with an error other than EINTR.
Refuse(p) ==
    /\ call[p] = "armed"
    /\ call' = [call EXCEPT ![p] = "failed"]
    /\ UNCHANGED <<handler, timer, holds>>

\* SIGALRM.  alarm_handler does nothing: only a blocked fcntl notices (EINTR).
\* Delivered before fcntl is called, the signal is spent and the wait that
\* follows has no limit.
Alarm(p) ==
    /\ timer[p]
    /\ timer' = [timer EXCEPT ![p] = FALSE]
    /\ call' = [call EXCEPT ![p] = IF @ = "blocked" THEN "failed" ELSE @]
    /\ UNCHANGED <<handler, holds>>

\* Another signal with a handler interrupts the wait just as well, and is
\* reported as a timeout.
Interrupt(p) ==
    /\ call[p] = "blocked"
    /\ call' = [call EXCEPT ![p] = "failed"]
    /\ UNCHANGED <<handler, timer, holds>>

\* set_lock returns or throws; both ways go through unset_timer.
unset_timer(p) ==
    /\ call[p] \in {"got", "failed"}
    /\ call' = [call EXCEPT ![p] = "out"]
    /\ timer' = [timer EXCEPT ![p] = FALSE]
    /\ handler' = [handler EXCEPT ![p] = "saved"]
    /\ UNCHANGED holds

\* Mutant of unset_lock: the lock outlives the call.
unset_lock_kept(p, f) ==
    /\ call[p] = "out" /\ holds[f][p] # "none"
    /\ UNCHANGED lockVars

\* set_lock(LOCK_NONE, 0), or the destructor of a file_lock that is held: a
\* zero timeout starts no timer and F_SETLK never waits.
unset_lock(p, f) ==
    /\ call[p] = "out" /\ holds[f][p] # "none"
    /\ holds' = [holds EXCEPT ![f][p] = "none"]
    /\ UNCHANGED <<call, handler, timer>>

\* The process dies: the kernel drops its locks and its timer with it.
Die(p) ==
    /\ call' = [call EXCEPT ![p] = "out"]
    /\ handler' = [handler EXCEPT ![p] = "saved"]
    /\ timer' = [timer EXCEPT ![p] = FALSE]
    /\ holds' = [f \in File |-> [holds[f] EXCEPT ![p] = "none"]]

(***************************************************************************)
(* Properties.                                                             *)
(***************************************************************************)
\* "the function can't return without stopping the timer and restoring the
\* signal handler to its original state": whichever way set_lock ends, and
\* wherever SIGALRM falls, the process is left without a timer and with the
\* handler it had, so that no later system call is interrupted on its behalf.
AlarmRestored ==
    \A p \in Proc : call[p] = "out" => handler[p] = "saved" /\ ~timer[p]

\* A writer is alone: no other process holds a lock on the file it has locked
\* exclusively, however the grants, interruptions and deaths interleave.
WriterAlone ==
    \A f \in File : \A p, q \in Proc :
        p # q /\ holds[f][p] = "exclusive" => holds[f][q] = "none"
=============================================================================
