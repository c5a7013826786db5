--------------------------- MODULE SessionProofs ---------------------------
(***************************************************************************)
(* Session is safe for every set of session names, every choice of chroot  *)
(* types and command-line lengths, and every set of failing calls but two: *)
(* a device check that fails while an LVM snapshot is being ended, whose   *)
(* session file then goes although nothing was stopped, and a snapshot     *)
(* that cannot be deleted, which the setup scripts do not report.          *)
(*                                                                         *)
(* The invariant is SessionInv!IndInv.  Its parts depend on one another in *)
(* this order, and there is one lemma for each: the types; where the       *)
(* process is and which exception is in flight; what it holds; the lock    *)
(* and the stop; the session files; the chroots already dealt with.        *)
(***************************************************************************)
EXTENDS SessionInv, TLAPS

\* The hypothesis of the theorems.
NoSnapshotFault ==
    /\ "device" \in Faults => \A s \in Slots : TypeOf[s] # "lvm-snapshot"
    /\ "purge" \in Faults => \A s \in Slots : TypeOf[s] \notin Snapshots

Metas == {"absent", "empty", "full"}

\* What lock() may do to the session file: create it, or leave it alone.
LEMMA LockResults ==
    ASSUME NEW t, NEW setup \in {"START", "RECOVER", "STOP"}, NEW b \in Metas,
           NEW r \in SetupLock(t, setup, "lock", 0, b)
    PROVE  /\ r[1] \in {"none", "chroot", "stat"} /\ r[2] \in Metas
           /\ setup = "START" /\ r[1] = "none" => b = "absent" /\ r[2] = "full"
           /\ setup # "START" \/ b # "absent" => r[2] = b
           /\ setup = "STOP" /\ ("device" \notin Faults \/ t # "lvm-snapshot") => r[1] = "none"
  BY DEF SetupLock, Checks, StatsFile, StatsDevice, StatsSnapshot, CreateInfo, RemoveInfo,
         Metas

\* What unlock() may do to the session file: remove it after a setup-stop that
\* succeeded, or leave it alone.
LEMMA UnlockResults ==
    ASSUME NEW t, NEW setup \in {"START", "RECOVER", "STOP"}, NEW b \in Metas,
           NEW stat \in {0, 1},
           NEW u \in SetupLock(t, setup, "unlock", stat, b)
    PROVE  /\ u[1] \in {"none", "chroot", "stat"} /\ u[2] \in Metas
           /\ setup # "STOP" \/ stat # 0 => u[2] = b
           /\ setup = "STOP" /\ stat = 0 /\ u[1] = "none" => u[2] = "absent"
           /\ u[2] \in {b, "absent"}
  BY DEF SetupLock, Checks, StatsFile, StatsDevice, StatsSnapshot, CreateInfo, RemoveInfo,
         Metas

\* The initial state satisfies the invariant.
LEMMA IndInvInit == Init => IndInv
<1> SUFFICES ASSUME Init PROVE IndInv
  OBVIOUS
<1>1. TypeOK
  <2>1. chroots \in Seq(Entries)
    BY DEF Init
  <2>2. /\ meta \in [Slots -> {"absent", "empty", "full"}]
        /\ res \in [Slots -> {"none", "partial", "up"}]
    BY DEF Init
  <2> QED
    BY <2>1, <2>2 DEF Init, TypeOK, Booleans, Domains, PCs, Done, Ops, Phases
<1>2. ResourcesHaveMetadata
  BY DEF Init, ResourcesHaveMetadata
<1>3. Position /\ Unwinding /\ Files
  BY DEF Init, Position, Unwinding, Files, InLoop, Working, Waiting, InScripts, Done
<1>4. Selected /\ Progress /\ Reported /\ Held /\ Stopping /\ NoErrorMeansDone
  BY DEF Init, Selected, Progress, Reported, Held, Stopping, NoErrorMeansDone, Done, InLoop,
     Working, Waiting
<1> QED
  BY <1>1, <1>2, <1>3, <1>4 DEF IndInv

\* Every selected chroot has a session name.
LEMMA NamesInSlots ==
    ASSUME TypeOK PROVE \A i \in 1..Len(chroots) : chroots[i].name \in Slots
<1>1. \A i \in 1..Len(chroots) : chroots[i] \in Entries
  BY DEF TypeOK, Domains
<1> QED
  BY <1>1 DEF Entries

\* So has the chroot the loop is at.
LEMMA SlotInSlots ==
    ASSUME TypeOK, Position, pc \in InLoop \/ child # "none"
    PROVE  Slot \in Slots /\ phase \in Phases
  BY NamesInSlots DEF Slot, Position, TypeOK, Domains

\* The effect of LockChroot on the session files.
LEMMA LockFacts ==
    ASSUME TypeOK, Position, NoSnapshotFault, LockChroot
    PROVE  /\ Slot \in Slots
           /\ meta' \in [Slots -> Metas]
           /\ \A s \in Slots : s # Slot => meta'[s] = meta[s]
           /\ phase # "START" \/ meta[Slot] # "absent" => meta' = meta
           /\ phase = "START" /\ pc' = "fork" => meta'[Slot] = "full"
           /\ \E file \in Metas : meta' = [meta EXCEPT ![Slot] = file]
<1>1. pc = "lock"
  BY DEF LockChroot
<1>2. PICK r \in SetupLock(TypeOf[Slot], phase, "lock", 0, meta[Slot]) : LockOutcome(r)
  BY DEF LockChroot
<1>3. Slot \in Slots /\ phase \in {"START", "RECOVER", "STOP"}
  BY <1>1, SlotInSlots DEF Position, InLoop, Phases
<1>4. meta \in [Slots -> Metas] /\ meta[Slot] \in Metas
  BY <1>3 DEF TypeOK, Domains, Metas
<1>5. "device" \notin Faults \/ TypeOf[Slot] # "lvm-snapshot"
  BY <1>3 DEF NoSnapshotFault
<1>6. /\ r[2] \in Metas
      /\ phase = "START" /\ r[1] = "none" => r[2] = "full"
      /\ phase # "START" \/ meta[Slot] # "absent" => r[2] = meta[Slot]
      /\ phase = "STOP" => r[1] = "none"
  BY <1>3, <1>4, <1>5, LockResults
<1>7. \A u \in SetupLock(TypeOf[Slot], phase, "unlock", 0, r[2]) :
        u[2] \in Metas /\ (phase # "STOP" => u[2] = r[2])
  BY <1>3, <1>6, UnlockResults
<1>8. \E file \in Metas :
        /\ SetInfo(file)
        /\ phase # "START" \/ meta[Slot] # "absent" => file = meta[Slot]
  BY <1>2, <1>6, <1>7 DEF LockOutcome
<1>9. phase = "START" /\ pc' = "fork" => meta'[Slot] = "full"
  BY <1>2, <1>3, <1>4, <1>6 DEF LockOutcome, SetInfo, Uncaught, SessionError
<1> QED
  BY <1>3, <1>4, <1>8, <1>9 DEF SetInfo

\* The effect of UnlockChroot on the session files, and when no error follows.
LEMMA UnlockFacts ==
    ASSUME TypeOK, Position, UnlockChroot
    PROVE  /\ Slot \in Slots
           /\ meta' \in [Slots -> Metas]
           /\ \A s \in Slots : s # Slot => meta'[s] = meta[s]
           /\ phase # "STOP" \/ exit_status # 0 => meta' = meta
           /\ exc' = "none" => exit_status = 0 /\ Return
           /\ exc' = "none" /\ phase = "STOP" => meta'[Slot] = "absent"
           /\ meta' = meta \/ meta' = [meta EXCEPT ![Slot] = "absent"]
<1>1. pc = "unlock"
  BY DEF UnlockChroot
<1>2. PICK u \in SetupLock(TypeOf[Slot], phase, "unlock", exit_status, meta[Slot]) :
        UnlockOutcome(u)
  BY DEF UnlockChroot
<1>3. Slot \in Slots /\ phase \in {"START", "RECOVER", "STOP"}
  BY <1>1, SlotInSlots DEF Position, InLoop, Working, Phases
<1>4. meta \in [Slots -> Metas] /\ meta[Slot] \in Metas /\ exit_status \in {0, 1}
  BY <1>3 DEF TypeOK, Domains, Metas
<1>5. /\ u[2] \in Metas
      /\ phase # "STOP" \/ exit_status # 0 => u[2] = meta[Slot]
      /\ phase = "STOP" /\ exit_status = 0 /\ u[1] = "none" => u[2] = "absent"
      /\ u[2] \in {meta[Slot], "absent"}
  BY <1>3, <1>4, UnlockResults
<1>6. exc' = "none" => u[1] = "none" /\ exit_status = 0 /\ Return
  BY <1>2 DEF UnlockOutcome, Uncaught, SessionError
<1> QED
  BY <1>2, <1>3, <1>4, <1>5, <1>6 DEF UnlockOutcome, SetInfo

\* Every step preserves the types of the Boolean variables ...
LEMMA BooleanStep ==
    ASSUME Booleans,
           NoSnapshotFault, [Next]_vars
    PROVE  Booleans'
<1> USE DEF Booleans
<1> USE DEF ctl, job, auth, flags, status, kid, world
<1>1. CASE Start
  BY <1>1 DEF Start, Goto, AuthError
<1>2. CASE CredEstablish
  BY <1>2 DEF CredEstablish, Goto, AuthError
<1>3. CASE CatchAuth
  BY <1>3 DEF CatchAuth, Goto, AuthError
<1>4. CASE CredDelete
  BY <1>4 DEF CredDelete, Goto, AuthError
<1>5. CASE Stop
  BY <1>5 DEF Stop, Goto, AuthError
<1>6. CASE Authenticate
  BY <1>6 DEF Authenticate, GroupsUnknown, Uncaught, PamStep, Goto, AuthError
<1>7. CASE Setupenv
  BY <1>7 DEF Setupenv, PamStep, Goto, AuthError
<1>8. CASE Account
  BY <1>8 DEF Account, PamStep, Goto, AuthError
<1>9. CASE CatchCred
  BY <1>9 DEF CatchCred, Goto
<1>10. CASE Exit
  BY <1>10 DEF Exit, Goto
<1>11. CASE RunImpl
  BY <1>11 DEF RunImpl, Goto
<1>12. CASE ImplCatch
  BY <1>12 DEF ImplCatch, Goto
<1>13. CASE ImplEnd
  BY <1>13 DEF ImplEnd, Goto
<1>14. CASE WaitCheck
  BY <1>14 DEF WaitCheck, Goto
<1>15. CASE WaitBlock
  BY <1>15 DEF WaitBlock, Goto
<1>16. CASE Loop
  BY <1>16 DEF Loop, Goto, Uncaught
<1>17. CASE ForkScripts
  BY <1>17 DEF ForkScripts, Goto, SessionError
<1>18. CASE Reap
  BY <1>18 DEF Reap, Goto, SessionError
<1>19. CASE WaitError
  BY <1>19 DEF WaitError, Goto, SessionError
<1>20. CASE RunChroot
  BY <1>20 DEF RunChroot, Goto, SessionError
<1>21. CASE SetupChroot
  BY <1>21 DEF SetupChroot, Goto, Skipped, Return
<1>22. CASE OpenSession
  BY <1>22 DEF OpenSession, Goto, AuthError
<1>23. CASE CatchRun
  BY <1>23 DEF CatchRun, Goto, AuthError
<1>24. CASE CloseSession
  BY <1>24 DEF CloseSession, Goto, AuthError
<1>25. CASE ScriptsWork
  BY <1>25 DEF ScriptsWork
<1>26. CASE ScriptsSucceed
  BY <1>26 DEF ScriptsSucceed
<1>27. CASE ScriptsFail
  BY <1>27 DEF ScriptsFail
<1>28. CASE CommandExits
  BY <1>28 DEF CommandExits
<1>29. CASE Crash
  BY <1>29 DEF Crash, Blank
<1>30. CASE LockChroot
  BY <1>30 DEF LockChroot, LockOutcome, SetInfo, Goto, SessionError, Uncaught
<1>31. CASE UnlockChroot
  BY <1>31 DEF UnlockChroot, UnlockOutcome, SetInfo, Goto, SessionError, Uncaught, Return
<1>32. CASE NewProcess
  BY <1>32 DEF NewProcess, Selection, Selectable, Construct, Blank, Lists, Fresh
<1>33. ASSUME NEW s \in {"HUP", "TERM", "INT"}, Signal(s) PROVE Booleans'
  BY <1>33 DEF Signal
<1>34. CASE UNCHANGED vars
  BY <1>34 DEF vars
<1> QED
  BY <1>1, <1>2, <1>3, <1>4, <1>5, <1>6, <1>7, <1>8, <1>9, <1>10, <1>11, <1>12,
     <1>13, <1>14, <1>15, <1>16, <1>17, <1>18, <1>19, <1>20, <1>21, <1>22, <1>23, <1>24,
     <1>25, <1>26, <1>27, <1>28, <1>29, <1>30, <1>31, <1>32, <1>33, <1>34
  DEF Next, Process, ChildEnds, Signals

\* ... and those of the others.
LEMMA DomainStep ==
    ASSUME TypeOK, Position,
           NoSnapshotFault, [Next]_vars
    PROVE  Domains'
<1> USE DEF TypeOK, Domains, PCs, Done, Ops, Phases, Metas
<1> USE DEF ctl, job, auth, flags, status, kid, world
<1>1. CASE Start
  BY <1>1 DEF Start, Goto, AuthError
<1>2. CASE CredEstablish
  BY <1>2 DEF CredEstablish, Goto, AuthError
<1>3. CASE CatchAuth
  BY <1>3 DEF CatchAuth, Goto, AuthError
<1>4. CASE CredDelete
  BY <1>4 DEF CredDelete, Goto, AuthError
<1>5. CASE Stop
  BY <1>5 DEF Stop, Goto, AuthError
<1>6. CASE Authenticate
  BY <1>6 DEF Authenticate, GroupsUnknown, Uncaught, PamStep, Goto, AuthError
<1>7. CASE Setupenv
  BY <1>7 DEF Setupenv, PamStep, Goto, AuthError
<1>8. CASE Account
  BY <1>8 DEF Account, PamStep, Goto, AuthError
<1>9. CASE CatchCred
  BY <1>9 DEF CatchCred, Goto
<1>10. CASE Exit
  BY <1>10 DEF Exit, Goto
<1>11. CASE RunImpl
  BY <1>11 DEF RunImpl, Goto
<1>12. CASE ImplCatch
  BY <1>12 DEF ImplCatch, Goto
<1>13. CASE ImplEnd
  BY <1>13 DEF ImplEnd, Goto
<1>14. CASE WaitCheck
  BY <1>14 DEF WaitCheck, Goto
<1>15. CASE WaitBlock
  BY <1>15 DEF WaitBlock, Goto
<1>16. CASE Loop
  BY <1>16 DEF Loop, Goto, Uncaught
<1>17. CASE ForkScripts
  BY <1>17 DEF ForkScripts, Goto, SessionError, Uncaught
<1>18. CASE Reap
  BY <1>18 DEF Reap, Goto, SessionError
<1>19. CASE WaitError
  BY <1>19 DEF WaitError, Goto, SessionError
<1>20. CASE RunChroot
  BY <1>20 DEF RunChroot, Goto, SessionError
<1>21. CASE SetupChroot
  BY <1>21 DEF SetupChroot, Goto, Skipped, Return
<1>22. CASE OpenSession
  BY <1>22 DEF OpenSession, Goto, AuthError
<1>23. CASE CatchRun
  BY <1>23 DEF CatchRun, Goto, AuthError
<1>24. CASE CloseSession
  BY <1>24 DEF CloseSession, Goto, AuthError
<1>25. CASE ScriptsWork
  <2>1. res' \in [Slots -> {"none", "partial", "up"}]
    BY <1>25 DEF ScriptsWork
  <2> QED
    BY <1>25, <2>1 DEF ScriptsWork
<1>26. CASE ScriptsSucceed
  <2>1. res' \in [Slots -> {"none", "partial", "up"}]
    BY <1>26 DEF ScriptsSucceed
  <2> QED
    BY <1>26, <2>1 DEF ScriptsSucceed
<1>27. CASE ScriptsFail
  BY <1>27 DEF ScriptsFail
<1>28. CASE CommandExits
  BY <1>28 DEF CommandExits
<1>29. CASE Crash
  BY <1>29 DEF Crash, Blank
<1>30. CASE LockChroot
  <2>1. meta' \in [Slots -> Metas]
    BY <1>30, LockFacts
  <2>2. PICK r : LockOutcome(r)
    BY <1>30 DEF LockChroot
  <2>3. /\ pc' \in PCs /\ exc' \in {"none", "auth", "session", "uncaught"}
        /\ cur' = cur /\ phase' \in Phases
        /\ started' \in {"no", "locked", "done", "stopped"}
    BY <2>2 DEF LockOutcome, Goto, SessionError, Uncaught
  <2> QED
    BY <1>30, <2>1, <2>3 DEF LockChroot
<1>31. CASE UnlockChroot
  <2>1. meta' \in [Slots -> Metas]
    BY <1>31, UnlockFacts
  <2>2. PICK u : UnlockOutcome(u)
    BY <1>31 DEF UnlockChroot
  <2>3. /\ pc' \in PCs /\ exc' \in {"none", "auth", "session", "uncaught"}
        /\ cur' \in Nat /\ phase' \in Phases
        /\ started' \in {"no", "locked", "done", "stopped"}
    BY <2>2 DEF UnlockOutcome, Goto, SessionError, Uncaught, Return
  <2> QED
    BY <1>31, <2>1, <2>3 DEF UnlockChroot
<1>32. CASE NewProcess
  BY <1>32 DEF NewProcess, Selection, Selectable, Construct, Blank, Lists, Fresh
<1>33. ASSUME NEW s \in {"HUP", "TERM", "INT"}, Signal(s) PROVE Domains'
  BY <1>33 DEF Signal
<1>34. CASE UNCHANGED vars
  BY <1>34 DEF vars
<1> QED
  BY <1>1, <1>2, <1>3, <1>4, <1>5, <1>6, <1>7, <1>8, <1>9, <1>10, <1>11, <1>12,
     <1>13, <1>14, <1>15, <1>16, <1>17, <1>18, <1>19, <1>20, <1>21, <1>22, <1>23, <1>24,
     <1>25, <1>26, <1>27, <1>28, <1>29, <1>30, <1>31, <1>32, <1>33, <1>34
  DEF Next, Process, ChildEnds, Signals

\* Every step keeps the loop variable in range and the exception in flight to
\* those its control point may see.
LEMMA ControlStep ==
    ASSUME TypeOK, Position, Unwinding,
           NoSnapshotFault, [Next]_vars
    PROVE  Position' /\ Unwinding'
<1> USE DEF TypeOK, Booleans, Domains, Position, Unwinding, Slot, NotASession, Plain, Runs,
           Done, InLoop, Working, Waiting, InScripts
<1> USE DEF ctl, job, auth, flags, status, kid, world
<1>1. CASE Start
  BY <1>1 DEF Start, Goto, AuthError
<1>2. CASE CredEstablish
  BY <1>2 DEF CredEstablish, Goto, AuthError
<1>3. CASE CatchAuth
  BY <1>3 DEF CatchAuth, Goto, AuthError
<1>4. CASE CredDelete
  BY <1>4 DEF CredDelete, Goto, AuthError
<1>5. CASE Stop
  BY <1>5 DEF Stop, Goto, AuthError
<1>6. CASE Authenticate
  BY <1>6 DEF Authenticate, GroupsUnknown, Uncaught, PamStep, Goto, AuthError
<1>7. CASE Setupenv
  BY <1>7 DEF Setupenv, PamStep, Goto, AuthError
<1>8. CASE Account
  BY <1>8 DEF Account, PamStep, Goto, AuthError
<1>9. CASE CatchCred
  BY <1>9 DEF CatchCred, Goto
<1>10. CASE Exit
  BY <1>10 DEF Exit, Goto
<1>11. CASE RunImpl
  BY <1>11 DEF RunImpl, Goto
<1>12. CASE ImplCatch
  BY <1>12 DEF ImplCatch, Goto
<1>13. CASE ImplEnd
  BY <1>13 DEF ImplEnd, Goto
<1>14. CASE WaitCheck
  BY <1>14 DEF WaitCheck, Goto
<1>15. CASE WaitBlock
  BY <1>15 DEF WaitBlock, Goto
<1>16. CASE Loop
  BY <1>16 DEF Loop, Goto, Uncaught
<1>17. CASE ForkScripts
  BY <1>17 DEF ForkScripts, Goto, SessionError, Uncaught
<1>18. CASE Reap
  BY <1>18 DEF Reap, Goto, SessionError
<1>19. CASE WaitError
  BY <1>19 DEF WaitError, Goto, SessionError
<1>20. CASE RunChroot
  BY <1>20 DEF RunChroot, Goto, SessionError
<1>21. CASE SetupChroot
  BY <1>21 DEF SetupChroot, Goto, Skipped, Return
<1>22. CASE OpenSession
  BY <1>22 DEF OpenSession, Goto, AuthError
<1>23. CASE CatchRun
  BY <1>23 DEF CatchRun, Goto, AuthError
<1>24. CASE CloseSession
  BY <1>24 DEF CloseSession, Goto, AuthError
<1>25. CASE ScriptsWork
  BY <1>25 DEF ScriptsWork
<1>26. CASE ScriptsSucceed
  BY <1>26 DEF ScriptsSucceed
<1>27. CASE ScriptsFail
  BY <1>27 DEF ScriptsFail
<1>28. CASE CommandExits
  BY <1>28 DEF CommandExits
<1>29. CASE Crash
  BY <1>29 DEF Crash, Blank
<1>30. CASE LockChroot
  <2>1. PICK r : LockOutcome(r)
    BY <1>30 DEF LockChroot
  <2> QED
    BY <1>30, <2>1 DEF LockChroot, LockOutcome, Goto, SessionError, Uncaught
<1>31. CASE UnlockChroot
  BY <1>31 DEF UnlockChroot, UnlockOutcome, SetInfo, Goto, SessionError, Uncaught, Return
<1>32. CASE NewProcess
  BY <1>32 DEF NewProcess, Selection, Selectable, Construct, Blank, Lists, Fresh
<1>33. ASSUME NEW s \in {"HUP", "TERM", "INT"}, Signal(s) PROVE Position' /\ Unwinding'
  BY <1>33 DEF Signal
<1>34. CASE UNCHANGED vars
  BY <1>34 DEF vars
<1> QED
  BY <1>1, <1>2, <1>3, <1>4, <1>5, <1>6, <1>7, <1>8, <1>9, <1>10, <1>11, <1>12,
     <1>13, <1>14, <1>15, <1>16, <1>17, <1>18, <1>19, <1>20, <1>21, <1>22, <1>23, <1>24,
     <1>25, <1>26, <1>27, <1>28, <1>29, <1>30, <1>31, <1>32, <1>33, <1>34
  DEF Next, Process, ChildEnds, Signals

\* Every step keeps what is held, and the exit status, to the control point.
LEMMA HeldStep ==
    ASSUME TypeOK, Position, Unwinding, Reported, Held,
           NoSnapshotFault, [Next]_vars
    PROVE  Reported' /\ Held'
<1> USE DEF TypeOK, Booleans, Domains, Position, Unwinding, Reported, Held,
           Done, InLoop, Working, Waiting, InScripts
<1> USE DEF ctl, job, auth, flags, status, kid, world
<1>1. CASE Start
  BY <1>1 DEF Start, Goto, AuthError
<1>2. CASE CredEstablish
  BY <1>2 DEF CredEstablish, Goto, AuthError
<1>3. CASE CatchAuth
  BY <1>3 DEF CatchAuth, Goto, AuthError
<1>4. CASE CredDelete
  BY <1>4 DEF CredDelete, Goto, AuthError
<1>5. CASE Stop
  BY <1>5 DEF Stop, Goto, AuthError
<1>6. CASE Authenticate
  BY <1>6 DEF Authenticate, GroupsUnknown, Uncaught, PamStep, Goto, AuthError
<1>7. CASE Setupenv
  BY <1>7 DEF Setupenv, PamStep, Goto, AuthError
<1>8. CASE Account
  BY <1>8 DEF Account, PamStep, Goto, AuthError
<1>9. CASE CatchCred
  BY <1>9 DEF CatchCred, Goto
<1>10. CASE Exit
  BY <1>10 DEF Exit, Goto
<1>11. CASE RunImpl
  BY <1>11 DEF RunImpl, Goto
<1>12. CASE ImplCatch
  BY <1>12 DEF ImplCatch, Goto
<1>13. CASE ImplEnd
  BY <1>13 DEF ImplEnd, Goto
<1>14. CASE WaitCheck
  BY <1>14 DEF WaitCheck, Goto
<1>15. CASE WaitBlock
  BY <1>15 DEF WaitBlock, Goto
<1>16. CASE Loop
  BY <1>16 DEF Loop, Goto, Uncaught
<1>17. CASE ForkScripts
  BY <1>17 DEF ForkScripts, Goto, SessionError, Uncaught
<1>18. CASE Reap
  BY <1>18 DEF Reap, Goto, SessionError
<1>19. CASE WaitError
  BY <1>19 DEF WaitError, Goto, SessionError
<1>20. CASE RunChroot
  BY <1>20 DEF RunChroot, Goto, SessionError
<1>21. CASE SetupChroot
  BY <1>21 DEF SetupChroot, Goto, Skipped, Return
<1>22. CASE OpenSession
  BY <1>22 DEF OpenSession, Goto, AuthError
<1>23. CASE CatchRun
  BY <1>23 DEF CatchRun, Goto, AuthError
<1>24. CASE CloseSession
  BY <1>24 DEF CloseSession, Goto, AuthError
<1>25. CASE ScriptsWork
  BY <1>25 DEF ScriptsWork
<1>26. CASE ScriptsSucceed
  BY <1>26 DEF ScriptsSucceed
<1>27. CASE ScriptsFail
  BY <1>27 DEF ScriptsFail
<1>28. CASE CommandExits
  BY <1>28 DEF CommandExits
<1>29. CASE Crash
  BY <1>29 DEF Crash, Blank
<1>30. CASE LockChroot
  BY <1>30 DEF LockChroot, LockOutcome, SetInfo, Goto, SessionError, Uncaught
<1>31. CASE UnlockChroot
  BY <1>31 DEF UnlockChroot, UnlockOutcome, SetInfo, Goto, SessionError, Uncaught, Return
<1>32. CASE NewProcess
  BY <1>32 DEF NewProcess, Selection, Selectable, Construct, Blank, Lists, Fresh
<1>33. ASSUME NEW s \in {"HUP", "TERM", "INT"}, Signal(s) PROVE Reported' /\ Held'
  BY <1>33 DEF Signal
<1>34. CASE UNCHANGED vars
  BY <1>34 DEF vars
<1> QED
  BY <1>1, <1>2, <1>3, <1>4, <1>5, <1>6, <1>7, <1>8, <1>9, <1>10, <1>11, <1>12,
     <1>13, <1>14, <1>15, <1>16, <1>17, <1>18, <1>19, <1>20, <1>21, <1>22, <1>23, <1>24,
     <1>25, <1>26, <1>27, <1>28, <1>29, <1>30, <1>31, <1>32, <1>33, <1>34
  DEF Next, Process, ChildEnds, Signals

\* Every step keeps the lock, the scripts and their stop in step.
LEMMA StopStep ==
    ASSUME TypeOK, Position, Unwinding, Stopping,
           NoSnapshotFault, [Next]_vars
    PROVE  Stopping'
<1> USE DEF TypeOK, Booleans, Domains, Position, Unwinding, Stopping, Slot, Plain, Runs,
           Done, InLoop, Working, Waiting, InScripts
<1> USE DEF ctl, job, auth, flags, status, kid, world
<1>1. CASE Start
  BY <1>1 DEF Start, Goto, AuthError
<1>2. CASE CredEstablish
  BY <1>2 DEF CredEstablish, Goto, AuthError
<1>3. CASE CatchAuth
  BY <1>3 DEF CatchAuth, Goto, AuthError
<1>4. CASE CredDelete
  BY <1>4 DEF CredDelete, Goto, AuthError
<1>5. CASE Stop
  BY <1>5 DEF Stop, Goto, AuthError
<1>6. CASE Authenticate
  BY <1>6 DEF Authenticate, GroupsUnknown, Uncaught, PamStep, Goto, AuthError
<1>7. CASE Setupenv
  BY <1>7 DEF Setupenv, PamStep, Goto, AuthError
<1>8. CASE Account
  BY <1>8 DEF Account, PamStep, Goto, AuthError
<1>9. CASE CatchCred
  BY <1>9 DEF CatchCred, Goto
<1>10. CASE Exit
  BY <1>10 DEF Exit, Goto
<1>11. CASE RunImpl
  BY <1>11 DEF RunImpl, Goto
<1>12. CASE ImplCatch
  BY <1>12 DEF ImplCatch, Goto
<1>13. CASE ImplEnd
  BY <1>13 DEF ImplEnd, Goto
<1>14. CASE WaitCheck
  BY <1>14 DEF WaitCheck, Goto
<1>15. CASE WaitBlock
  BY <1>15 DEF WaitBlock, Goto
<1>16. CASE Loop
  BY <1>16 DEF Loop, Goto, Uncaught
<1>17. CASE ForkScripts
  BY <1>17 DEF ForkScripts, Goto, SessionError, Uncaught
<1>18. CASE Reap
  BY <1>18 DEF Reap, Goto, SessionError
<1>19. CASE WaitError
  BY <1>19 DEF WaitError, Goto, SessionError
<1>20. CASE RunChroot
  BY <1>20 DEF RunChroot, Goto, SessionError
<1>21. CASE SetupChroot
  BY <1>21 DEF SetupChroot, Goto, Skipped, Return
<1>22. CASE OpenSession
  BY <1>22 DEF OpenSession, Goto, AuthError
<1>23. CASE CatchRun
  BY <1>23 DEF CatchRun, Goto, AuthError
<1>24. CASE CloseSession
  BY <1>24 DEF CloseSession, Goto, AuthError
<1>25. CASE ScriptsWork
  BY <1>25 DEF ScriptsWork
<1>26. CASE ScriptsSucceed
  BY <1>26 DEF ScriptsSucceed
<1>27. CASE ScriptsFail
  BY <1>27 DEF ScriptsFail
<1>28. CASE CommandExits
  BY <1>28 DEF CommandExits
<1>29. CASE Crash
  BY <1>29 DEF Crash, Blank
<1>30. CASE LockChroot
  <2>1. PICK r : LockOutcome(r)
    BY <1>30 DEF LockChroot
  <2> QED
    BY <1>30, <2>1 DEF LockChroot, LockOutcome, Goto, SessionError, Uncaught
<1>31. CASE UnlockChroot
  BY <1>31 DEF UnlockChroot, UnlockOutcome, SetInfo, Goto, SessionError, Uncaught, Return
<1>32. CASE NewProcess
  BY <1>32 DEF NewProcess, Selection, Selectable, Construct, Blank, Lists, Fresh
<1>33. ASSUME NEW s \in {"HUP", "TERM", "INT"}, Signal(s) PROVE Stopping'
  BY <1>33 DEF Signal
<1>34. CASE UNCHANGED vars
  BY <1>34 DEF vars
<1> QED
  BY <1>1, <1>2, <1>3, <1>4, <1>5, <1>6, <1>7, <1>8, <1>9, <1>10, <1>11, <1>12,
     <1>13, <1>14, <1>15, <1>16, <1>17, <1>18, <1>19, <1>20, <1>21, <1>22, <1>23, <1>24,
     <1>25, <1>26, <1>27, <1>28, <1>29, <1>30, <1>31, <1>32, <1>33, <1>34
  DEF Next, Process, ChildEnds, Signals

\* Every step keeps a session file for what the scripts have made.
LEMMA FilesStep ==
    ASSUME TypeOK, Position, Unwinding, ResourcesHaveMetadata, Files, Selected,
           NoSnapshotFault, [Next]_vars
    PROVE  ResourcesHaveMetadata' /\ Files' /\ Selected'
<1> USE DEF TypeOK, Booleans, Domains, Position, Unwinding, ResourcesHaveMetadata, Files, Selected,
           Slot, NotASession, Plain, Runs, Done, InLoop, Working, Waiting, InScripts
<1> USE DEF ctl, job, auth, flags, status, kid, world
<1>1. CASE Start
  BY <1>1 DEF Start, Goto, AuthError
<1>2. CASE CredEstablish
  BY <1>2 DEF CredEstablish, Goto, AuthError
<1>3. CASE CatchAuth
  BY <1>3 DEF CatchAuth, Goto, AuthError
<1>4. CASE CredDelete
  BY <1>4 DEF CredDelete, Goto, AuthError
<1>5. CASE Stop
  BY <1>5 DEF Stop, Goto, AuthError
<1>6. CASE Authenticate
  BY <1>6 DEF Authenticate, GroupsUnknown, Uncaught, PamStep, Goto, AuthError
<1>7. CASE Setupenv
  BY <1>7 DEF Setupenv, PamStep, Goto, AuthError
<1>8. CASE Account
  BY <1>8 DEF Account, PamStep, Goto, AuthError
<1>9. CASE CatchCred
  BY <1>9 DEF CatchCred, Goto
<1>10. CASE Exit
  BY <1>10 DEF Exit, Goto
<1>11. CASE RunImpl
  BY <1>11 DEF RunImpl, Goto
<1>12. CASE ImplCatch
  BY <1>12 DEF ImplCatch, Goto
<1>13. CASE ImplEnd
  BY <1>13 DEF ImplEnd, Goto
<1>14. CASE WaitCheck
  BY <1>14 DEF WaitCheck, Goto
<1>15. CASE WaitBlock
  BY <1>15 DEF WaitBlock, Goto
<1>16. CASE Loop
  BY <1>16 DEF Loop, Goto, Uncaught
<1>17. CASE ForkScripts
  BY <1>17 DEF ForkScripts, Goto, SessionError, Uncaught
<1>18. CASE Reap
  BY <1>18 DEF Reap, Goto, SessionError
<1>19. CASE WaitError
  BY <1>19 DEF WaitError, Goto, SessionError
<1>20. CASE RunChroot
  BY <1>20 DEF RunChroot, Goto, SessionError
<1>21. CASE SetupChroot
  BY <1>21 DEF SetupChroot, Goto, Skipped, Return
<1>22. CASE OpenSession
  BY <1>22 DEF OpenSession, Goto, AuthError
<1>23. CASE CatchRun
  BY <1>23 DEF CatchRun, Goto, AuthError
<1>24. CASE CloseSession
  BY <1>24 DEF CloseSession, Goto, AuthError
<1>25. CASE ScriptsWork
  BY <1>25 DEF ScriptsWork
<1>26. CASE ScriptsSucceed
  <2>1. Slot \in Slots
    BY <1>26, SlotInSlots DEF ScriptsSucceed
  <2>2. phase # "STOP" => meta[Slot] = "full"
    BY <1>26 DEF ScriptsSucceed
  <2>3. /\ res' = [res EXCEPT ![Slot] = IF phase = "STOP" THEN "none" ELSE "up"]
        /\ child' = "exit0" /\ UNCHANGED <<ctl, job, exit_status, meta>>
    BY <1>26, <2>1 DEF ScriptsSucceed, NoSnapshotFault
  <2>4. ResourcesHaveMetadata'
    BY <2>1, <2>2, <2>3
  <2>5. Files'
    BY <1>26, <2>1, <2>2, <2>3 DEF ScriptsSucceed
  <2> QED
    BY <2>3, <2>4, <2>5
<1>27. CASE ScriptsFail
  BY <1>27 DEF ScriptsFail
<1>28. CASE CommandExits
  BY <1>28 DEF CommandExits
<1>29. CASE Crash
  BY <1>29 DEF Crash, Blank
<1>30. CASE LockChroot
  <2>1. /\ Slot \in Slots
        /\ \A s \in Slots : s # Slot => meta'[s] = meta[s]
        /\ phase # "START" \/ meta[Slot] # "absent" => meta' = meta
        /\ phase = "START" /\ pc' = "fork" => meta'[Slot] = "full"
    BY <1>30, LockFacts
  <2>2. PICK r : LockOutcome(r)
    BY <1>30 DEF LockChroot
  <2>3. ResourcesHaveMetadata'
    BY <1>30, <2>1 DEF LockChroot
  <2>4. /\ (pc' = "fork" /\ phase' = phase) \/ pc' \notin Working
        /\ cur' = cur /\ chroots' = chroots /\ op' = op /\ child' = "none"
    BY <1>30, <2>2 DEF LockChroot, LockOutcome, Goto, Uncaught, SessionError
  <2>5. op = "RECOVER" => meta' = meta
    BY <1>30, <2>1 DEF LockChroot
  <2>6. phase = "RECOVER" => meta[Slot] = "full"
    BY <1>30 DEF LockChroot
  <2>7. pc' = "fork" /\ phase # "STOP" => meta'[Slot'] = "full"
    BY <1>30, <2>1, <2>4, <2>6 DEF LockChroot
  <2>8. Files'
    BY <2>4, <2>7
  <2> QED
    BY <1>30, <2>3, <2>4, <2>5, <2>8 DEF LockChroot
<1>31. CASE UnlockChroot
  <2>1. /\ Slot \in Slots
        /\ \A s \in Slots : s # Slot => meta'[s] = meta[s]
        /\ phase # "STOP" \/ exit_status # 0 => meta' = meta
    BY <1>31, UnlockFacts
  <2>2. PICK u : UnlockOutcome(u)
    BY <1>31 DEF UnlockChroot
  <2>3. ResourcesHaveMetadata'
    BY <1>31, <2>1 DEF UnlockChroot
  <2>4. pc' \notin Working /\ child' = "none" /\ chroots' = chroots /\ op' = op
    BY <1>31, <2>2 DEF UnlockChroot, UnlockOutcome, Return, Goto, Uncaught, SessionError
  <2>5. op = "RECOVER" => meta' = meta
    BY <1>31, <2>1 DEF UnlockChroot
  <2>6. Files' /\ Selected'
    BY <1>31, <2>4, <2>5 DEF UnlockChroot
  <2> QED
    BY <2>3, <2>6
<1>32. CASE NewProcess
  BY <1>32 DEF NewProcess, Selection, Selectable, Construct, Blank, Lists, Fresh
<1>33. ASSUME NEW s \in {"HUP", "TERM", "INT"}, Signal(s) PROVE ResourcesHaveMetadata' /\ Files' /\ Selected'
  BY <1>33 DEF Signal
<1>34. CASE UNCHANGED vars
  BY <1>34 DEF vars
<1> QED
  BY <1>1, <1>2, <1>3, <1>4, <1>5, <1>6, <1>7, <1>8, <1>9, <1>10, <1>11, <1>12,
     <1>13, <1>14, <1>15, <1>16, <1>17, <1>18, <1>19, <1>20, <1>21, <1>22, <1>23, <1>24,
     <1>25, <1>26, <1>27, <1>28, <1>29, <1>30, <1>31, <1>32, <1>33, <1>34
  DEF Next, Process, ChildEnds, Signals

\* Every step leaves the chroots already dealt with as the operation wants them.
LEMMA ProgressStep ==
    ASSUME TypeOK, Position, Unwinding, Files, Selected, Progress, NoErrorMeansDone,
           NoSnapshotFault, [Next]_vars
    PROVE  Progress' /\ NoErrorMeansDone'
<1> USE DEF TypeOK, Booleans, Domains, Position, Unwinding, Files, Selected, Progress, NoErrorMeansDone,
           Accomplished, Slot, NotASession, Plain, Runs, Done, InLoop, Working, Waiting, InScripts
<1> USE DEF ctl, job, auth, flags, status, kid, world
<1>1. CASE Start
  BY <1>1 DEF Start, Goto, AuthError
<1>2. CASE CredEstablish
  BY <1>2 DEF CredEstablish, Goto, AuthError
<1>3. CASE CatchAuth
  BY <1>3 DEF CatchAuth, Goto, AuthError
<1>4. CASE CredDelete
  BY <1>4 DEF CredDelete, Goto, AuthError
<1>5. CASE Stop
  BY <1>5 DEF Stop, Goto, AuthError
<1>6. CASE Authenticate
  BY <1>6 DEF Authenticate, GroupsUnknown, Uncaught, PamStep, Goto, AuthError
<1>7. CASE Setupenv
  BY <1>7 DEF Setupenv, PamStep, Goto, AuthError
<1>8. CASE Account
  BY <1>8 DEF Account, PamStep, Goto, AuthError
<1>9. CASE CatchCred
  BY <1>9 DEF CatchCred, Goto
<1>10. CASE Exit
  BY <1>10 DEF Exit, Goto
<1>11. CASE RunImpl
  BY <1>11 DEF RunImpl, Goto
<1>12. CASE ImplCatch
  BY <1>12 DEF ImplCatch, Goto
<1>13. CASE ImplEnd
  BY <1>13 DEF ImplEnd, Goto
<1>14. CASE WaitCheck
  BY <1>14 DEF WaitCheck, Goto
<1>15. CASE WaitBlock
  BY <1>15 DEF WaitBlock, Goto
<1>16. CASE Loop
  BY <1>16 DEF Loop, Goto, Uncaught
<1>17. CASE ForkScripts
  BY <1>17 DEF ForkScripts, Goto, SessionError, Uncaught
<1>18. CASE Reap
  BY <1>18 DEF Reap, Goto, SessionError
<1>19. CASE WaitError
  BY <1>19 DEF WaitError, Goto, SessionError
<1>20. CASE RunChroot
  BY <1>20 DEF RunChroot, Goto, SessionError
<1>21. CASE SetupChroot
  BY <1>21 DEF SetupChroot, Goto, Skipped, Return
<1>22. CASE OpenSession
  BY <1>22 DEF OpenSession, Goto, AuthError
<1>23. CASE CatchRun
  BY <1>23 DEF CatchRun, Goto, AuthError
<1>24. CASE CloseSession
  BY <1>24 DEF CloseSession, Goto, AuthError
<1>25. CASE ScriptsWork
  BY <1>25 DEF ScriptsWork
<1>26. CASE ScriptsSucceed
  BY <1>26 DEF ScriptsSucceed
<1>27. CASE ScriptsFail
  BY <1>27 DEF ScriptsFail
<1>28. CASE CommandExits
  BY <1>28 DEF CommandExits
<1>29. CASE Crash
  BY <1>29 DEF Crash, Blank
<1>30. CASE LockChroot
  <2>1. /\ \A s \in Slots : s # Slot => meta'[s] = meta[s]
        /\ phase # "START" \/ meta[Slot] # "absent" => meta' = meta
    BY <1>30, LockFacts
  <2>2. PICK r : LockOutcome(r)
    BY <1>30 DEF LockChroot
  <2>3. exc' = "none" => pc' = "fork" /\ cur' = cur /\ phase' = phase
    BY <2>2 DEF LockOutcome, Goto, Uncaught, SessionError
  <2>4. /\ chroots' = chroots /\ op' = op /\ res' = res
        /\ exc' = "none" => exc = "none"
    BY <1>30, <2>2 DEF LockChroot, LockOutcome, Goto, Uncaught, SessionError
  <2>5. ASSUME exc' = "none", NEW i \in 1..Len(chroots), i < cur, chroots[i].name # Slot
        PROVE  Plain(chroots[i].name) \/ Accomplished(chroots[i].name)'
    <3>1. meta'[chroots[i].name] = meta[chroots[i].name]
      BY <2>1, <2>5, NamesInSlots
    <3>2. Plain(chroots[i].name) \/ Accomplished(chroots[i].name)
      BY <1>30, <2>4, <2>5 DEF LockChroot
    <3> QED
      BY <2>4, <3>1, <3>2
  <2>6. NoErrorMeansDone'
    BY <2>3
  <2>7. Progress'
    BY <1>30, <2>3, <2>4, <2>5 DEF LockChroot
  <2> QED
    BY <2>6, <2>7
<1>31. CASE UnlockChroot
  <2>1. /\ \A s \in Slots : s # Slot => meta'[s] = meta[s]
        /\ phase # "STOP" \/ exit_status # 0 => meta' = meta
        /\ exc' = "none" => exit_status = 0 /\ Return
        /\ exc' = "none" /\ phase = "STOP" => meta'[Slot] = "absent"
    BY <1>31, UnlockFacts
  <2>2. chroots' = chroots /\ op' = op /\ res' = res /\ pc' # "exited"
    BY <1>31 DEF UnlockChroot, UnlockOutcome, Return, Goto, Uncaught, SessionError
  <2>3. NoErrorMeansDone'
    BY <2>2
  <2> SUFFICES ASSUME exc' = "none" PROVE Progress'
    BY <2>3
  <2>4. exc = "none" /\ exit_status = 0 /\ Return /\ pc = "unlock"
    BY <1>31, <2>1 DEF UnlockChroot, Return, Goto
  <2>5. ASSUME NEW i \in 1..Len(chroots), i < cur, chroots[i].name # Slot
        PROVE  Plain(chroots[i].name) \/ Accomplished(chroots[i].name)'
    <3>1. meta'[chroots[i].name] = meta[chroots[i].name]
      BY <2>1, <2>5, NamesInSlots
    <3>2. Plain(chroots[i].name) \/ Accomplished(chroots[i].name)
      BY <2>4, <2>5
    <3> QED
      BY <2>2, <3>1, <3>2
  <2>6. Runs(op, phase) /\ res'[Slot] = IF phase = "STOP" THEN "none" ELSE "up"
    BY <2>2, <2>4
  <2>7. phase # "STOP" => meta'[Slot] = "full"
    BY <2>1, <2>4
  <2>8. PICK s \in Slots : s = Slot
    BY <1>31, UnlockFacts
  <2>9. phase = "STOP" \/ op # "AUTOMATIC" => Accomplished(s)'
    BY <2>1, <2>2, <2>6, <2>7, <2>8
  <2>10. \A i \in 1..Len(chroots) :
           i < cur' => Plain(chroots[i].name) \/ Accomplished(chroots[i].name)'
    BY <2>2, <2>4, <2>5, <2>6, <2>8, <2>9 DEF Return, Goto
  <2>11. /\ op = "BEGIN" /\ phase' = "RECOVER" => phase = "START" /\ cur' = cur
         /\ op \in {"BEGIN", "RECOVER"} /\ phase' = "STOP" => phase = "RECOVER" /\ cur' = cur
    BY <2>4, <2>6 DEF Return, Goto
  <2>12. pc' \in {"setup", "open_session", "loop"}
    BY <2>4 DEF Return, Goto
  <2> QED
    BY <2>2, <2>8, <2>9, <2>10, <2>11, <2>12
<1>32. CASE NewProcess
  BY <1>32 DEF NewProcess, Selection, Selectable, Construct, Blank, Lists, Fresh
<1>33. ASSUME NEW s \in {"HUP", "TERM", "INT"}, Signal(s) PROVE Progress' /\ NoErrorMeansDone'
  BY <1>33 DEF Signal
<1>34. CASE UNCHANGED vars
  BY <1>34 DEF vars
<1> QED
  BY <1>1, <1>2, <1>3, <1>4, <1>5, <1>6, <1>7, <1>8, <1>9, <1>10, <1>11, <1>12,
     <1>13, <1>14, <1>15, <1>16, <1>17, <1>18, <1>19, <1>20, <1>21, <1>22, <1>23, <1>24,
     <1>25, <1>26, <1>27, <1>28, <1>29, <1>30, <1>31, <1>32, <1>33, <1>34
  DEF Next, Process, ChildEnds, Signals

\* What outlives the process changes only with the lock, the scripts and a crash.
LEMMA OnlyTheseChangeTheWorld ==
    ASSUME [Next]_vars
    PROVE  LockChroot \/ UnlockChroot \/ Crash \/ ScriptsWork \/ ScriptsSucceed \/ UNCHANGED world
<1> SUFFICES ASSUME ~ UNCHANGED world
             PROVE  LockChroot \/ UnlockChroot \/ Crash \/ ScriptsWork \/ ScriptsSucceed
  OBVIOUS
<1> USE DEF world
<1>1. ~(Start \/ Authenticate \/ Setupenv \/ Account \/ CredEstablish)
  BY DEF Start, Authenticate, GroupsUnknown, Setupenv, Account, PamStep, CredEstablish
<1>2. ~(CatchAuth \/ CredDelete \/ Stop \/ CatchCred \/ Exit \/ RunImpl \/ ImplCatch \/ ImplEnd)
  BY DEF CatchAuth, CredDelete, Stop, CatchCred, Exit, RunImpl, ImplCatch, ImplEnd
<1>3. ~(WaitCheck \/ WaitBlock \/ Loop \/ ForkScripts \/ Reap \/ WaitError \/ RunChroot)
  BY DEF WaitCheck, WaitBlock, Loop, ForkScripts, Reap, WaitError, RunChroot
<1>4. ~(SetupChroot \/ OpenSession \/ CatchRun \/ CloseSession \/ ScriptsFail \/ CommandExits)
  BY DEF SetupChroot, OpenSession, CatchRun, CloseSession, ScriptsFail, CommandExits
<1>5. ~Signals /\ ~NewProcess /\ ~ UNCHANGED vars
  BY DEF Signals, Signal, NewProcess, vars
<1> QED
  BY <1>1, <1>2, <1>3, <1>4, <1>5 DEF Next, Process, ChildEnds

\* Every step is a step of a session's life, or changes nothing that outlives
\* the process.
LEMMA LifecycleStep ==
    ASSUME IndInv, NoSnapshotFault, [Next]_vars
    PROVE  [Lifecycle!Next]_(Lifecycle!world)
<1> SUFFICES ASSUME ~ UNCHANGED world PROVE Lifecycle!Next
  BY DEF world, Lifecycle!world
<1> USE DEF world
<1>6. ASSUME child = "running", phase # "RUN" PROVE Slot \in Slots
  BY <1>6, SlotInSlots DEF IndInv
<1>7. CASE ScriptsWork \/ ScriptsSucceed
  <2>1. PICK made \in {"none", "partial", "up"} :
          /\ child = "running" /\ phase # "RUN"
          /\ res' = [res EXCEPT ![Slot] = made] /\ UNCHANGED meta
          /\ phase = "STOP" => made = "none" \/ res[Slot] = "up"
    BY <1>7, <1>6 DEF ScriptsWork, ScriptsSucceed, NoSnapshotFault
  <2>2. Slot \in Slots
    BY <1>6, <2>1
  <2>3. res[Slot] # "none" => meta[Slot] = "full"
    BY <2>2 DEF IndInv, ResourcesHaveMetadata
  <2>4. phase # "STOP" => meta[Slot] = "full"
    BY <2>1 DEF IndInv, Files, InScripts
  <2>5. made # res[Slot]
    BY <2>1, <2>2 DEF IndInv, TypeOK, Domains
  <2>6. meta[Slot] = "full"
    BY <2>1, <2>2, <2>3, <2>4, <2>5 DEF IndInv, TypeOK, Domains
  <2> QED
    BY <2>1, <2>2, <2>6 DEF Lifecycle!Next, Lifecycle!Work
<1>8. CASE LockChroot
  <2>1. /\ Slot \in Slots /\ meta[Slot] = "absent"
        /\ \E file \in Metas : meta' = [meta EXCEPT ![Slot] = file]
        /\ UNCHANGED res
    BY <1>8, LockFacts DEF IndInv, LockChroot
  <2>2. PICK file \in {"empty", "full"} : meta' = [meta EXCEPT ![Slot] = file]
    BY <2>1 DEF IndInv, TypeOK, Domains, Metas
  <2> QED
    BY <2>1, <2>2 DEF Lifecycle!Next, Lifecycle!Create
<1>9. CASE UnlockChroot
  <2>1. /\ Slot \in Slots /\ UNCHANGED res
        /\ meta' = [meta EXCEPT ![Slot] = "absent"]
        /\ phase = "STOP" /\ exit_status = 0 /\ pc = "unlock"
    BY <1>9, UnlockFacts DEF IndInv, UnlockChroot, TypeOK, Domains
  <2>2. res[Slot] = "none"
    BY <2>1 DEF IndInv, Files
  <2>3. meta[Slot] # "absent"
    BY <2>1 DEF IndInv, TypeOK, Domains
  <2> QED
    BY <2>1, <2>2, <2>3 DEF Lifecycle!Next, Lifecycle!Remove
<1>10. CASE Crash
  <2>1. /\ pc = "lock" /\ meta[Slot] = "absent" /\ UNCHANGED res
        /\ meta' = [meta EXCEPT ![Slot] = "empty"]
    BY <1>10 DEF Crash, Blank
  <2>2. Slot \in Slots
    BY <2>1, SlotInSlots DEF IndInv, InLoop
  <2> QED
    BY <2>1, <2>2 DEF Lifecycle!Next, Lifecycle!Create
<1> QED
  BY <1>7, <1>8, <1>9, <1>10, OnlyTheseChangeTheWorld

-----------------------------------------------------------------------------
\* The inductive invariant holds in every reachable state.
THEOREM Invariance ==
    ASSUME NoSnapshotFault PROVE Spec => []IndInv
<1>1. Init => IndInv
  BY IndInvInit
<1>2. IndInv /\ [Next]_vars => IndInv'
  <2> SUFFICES ASSUME IndInv, [Next]_vars PROVE IndInv'
    OBVIOUS
  <2>1. TypeOK' /\ Position' /\ Unwinding'
    BY BooleanStep, DomainStep, ControlStep DEF IndInv, TypeOK
  <2>2. Reported' /\ Held'
    BY HeldStep DEF IndInv
  <2>5. Stopping'
    BY StopStep DEF IndInv
  <2>3. ResourcesHaveMetadata' /\ Files' /\ Selected'
    BY FilesStep DEF IndInv
  <2>4. Progress' /\ NoErrorMeansDone'
    BY ProgressStep DEF IndInv
  <2> QED
    BY <2>1, <2>2, <2>3, <2>4, <2>5 DEF IndInv
<1> QED
  BY <1>1, <1>2, PTL DEF Spec

\* Every variable of session::run and of the files it leaves keeps its type.
THEOREM TypeCorrect ==
    ASSUME NoSnapshotFault PROVE Spec => []TypeOK
<1>1. IndInv => TypeOK
  BY DEF IndInv
<1> QED
  BY <1>1, Invariance, PTL

\* Whatever the setup scripts have made has a complete session file: nothing
\* is set up that --end-session could not find, at any point of any run.
THEOREM NothingIsLost ==
    ASSUME NoSnapshotFault PROVE Spec => []ResourcesHaveMetadata
<1>1. IndInv => ResourcesHaveMetadata
  BY DEF IndInv
<1> QED
  BY <1>1, Invariance, PTL

\* A process that ends without an exception did what it was asked for, for
\* every chroot on its command line.
THEOREM SuccessIsReal ==
    ASSUME NoSnapshotFault PROVE Spec => []NoErrorMeansDone
<1>1. IndInv => NoErrorMeansDone
  BY DEF IndInv
<1> QED
  BY <1>1, Invariance, PTL

\* A session::error is never hidden behind exit status 0.
THEOREM ErrorsAreReported ==
    ASSUME NoSnapshotFault PROVE Spec => []SessionErrorReported
<1>1. IndInv => SessionErrorReported
  BY DEF IndInv, Reported, SessionErrorReported
<1> QED
  BY <1>1, Invariance, PTL

\* The signal handlers and the PAM session never outlive run_impl on a
\* session::error, nor anything of PAM a run without error.
THEOREM ExitIsClean ==
    ASSUME NoSnapshotFault PROVE Spec => []CleanExit
<1>1. IndInv => CleanExit
  BY DEF IndInv, Held, CleanExit
<1> QED
  BY <1>1, Invariance, PTL

\* An automatic session whose setup-start took the lock has its setup-stop tried
\* before the process ends on no error or on a session::error, and setup-stop
\* never runs for a session whose lock the process did not get.
THEOREM StopsAreTried ==
    ASSUME NoSnapshotFault PROVE Spec => []StopDiscipline
<1>1. IndInv => StopDiscipline
  BY DEF IndInv, TypeOK, Booleans, Position, Stopping, StopDiscipline, InScripts, InLoop,
     Working, Waiting, Done, Plain, Slot
<1> QED
  BY <1>1, Invariance, PTL

\* Beginning a session under a name that is taken changes nothing of the session
\* that has it, whatever fails on the way.
THEOREM CollisionsAreHarmless ==
    ASSUME NoSnapshotFault PROVE Spec => CollisionHarmless
<1>1. ASSUME IndInv, [Next]_vars, op = "BEGIN", pc \notin Done, started = "no",
             meta[Slot] # "absent"
      PROVE  UNCHANGED world
  <2>1. child = "running" => phase = "RUN"
    BY <1>1 DEF IndInv, Position, Stopping, InScripts, Runs, Done
  <2>2. pc = "unlock" => phase # "STOP"
    BY <1>1 DEF IndInv, Position, Runs
  <2>3. ~(ScriptsWork \/ ScriptsSucceed)
    BY <2>1 DEF ScriptsWork, ScriptsSucceed
  <2>4. LockChroot => UNCHANGED world
    BY <1>1, LockFacts DEF IndInv, LockChroot, world
  <2>5. UnlockChroot => UNCHANGED world
    BY <1>1, <2>2, UnlockFacts DEF IndInv, UnlockChroot, world
  <2>6. Crash => UNCHANGED world
    BY <1>1 DEF Crash, world
  <2>7. LockChroot \/ UnlockChroot \/ Crash \/ ScriptsWork \/ ScriptsSucceed \/ UNCHANGED world
    BY <1>1, OnlyTheseChangeTheWorld
  <2> QED
    BY <2>3, <2>4, <2>5, <2>6, <2>7
<1>2. IndInv /\ [Next]_vars =>
        [op = "BEGIN" /\ pc \notin Done /\ started = "no" /\ cur <= Len(chroots)
           /\ meta[Slot] # "absent" => UNCHANGED world]_vars
  BY <1>1
<1> QED
  BY <1>2, Invariance, PTL DEF Spec, CollisionHarmless

\* Session implements SessionLifecycle: for every set of names, whatever the
\* processes, signals, failures and crashes, a session is claimed before
\* anything is set up for it and given up only when nothing is left.
THEOREM Refinement ==
    ASSUME NoSnapshotFault PROVE Spec => ImplementsLifecycle
<1>1. Init => Lifecycle!Init
  BY DEF Init, Lifecycle!Init
<1>2. IndInv /\ [Next]_vars => [Lifecycle!Next]_(Lifecycle!world)
  BY LifecycleStep
<1> QED
  BY <1>1, <1>2, Invariance, PTL DEF Spec, ImplementsLifecycle, Lifecycle!Spec
=============================================================================
