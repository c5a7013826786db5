----------------------------- MODULE DirProofs -----------------------------
(***************************************************************************)
(* The directory of session files is kept in order for any number of       *)
(* processes, names, files and stream buffers, whichever faults happen:    *)
(* a writer is alone with its file, no begun session is lost or made or    *)
(* ended twice, and every incomplete file is explained.                    *)
(*                                                                         *)
(* The invariants below follow a file from its creation on: nobody has a   *)
(* fresh file, a file has one name and one maker, and what a reader may    *)
(* see of it depends on the lock both take.                                *)
(***************************************************************************)
EXTENDS SessionDir, FiniteSetTheorems, TLAPS

(***************************************************************************)
(* file_lock, whoever uses it.                                             *)
(***************************************************************************)
\* What users of the class can do with it.
LockNext ==
    \E p \in Proc :
        \/ set_timer(p) \/ Refuse(p) \/ Alarm(p) \/ Interrupt(p)
        \/ unset_timer(p) \/ Die(p)
        \/ \E f \in File :
             \/ unset_lock(p, f)
             \/ \E type \in {"shared", "exclusive"} : Grant(p, f, type) \/ Block(p, f, type)

LockInv == LockTypeOK /\ AlarmRestored /\ WriterAlone

\* fcntl grants a lock to a compatible process only, so that a writer is alone.
LEMMA GrantKeepsWriterAlone ==
    ASSUME LockInv, NEW p \in Proc, NEW f \in File,
           NEW type \in {"shared", "exclusive"}, Grant(p, f, type)
    PROVE  WriterAlone'
<1> SUFFICES ASSUME NEW g \in File, NEW q \in Proc, NEW r \in Proc, q # r,
                    holds'[g][q] = "exclusive"
             PROVE  holds'[g][r] = "none"
  BY DEF WriterAlone
<1>1. holds' = [holds EXCEPT ![f][p] = type] /\ Compatible(p, f, type)
  BY DEF Grant
<1>2. \A s \in Proc : s # p \/ g # f => holds'[g][s] = holds[g][s]
  BY <1>1 DEF LockInv, LockTypeOK
<1>3. holds[g][q] = "exclusive" => holds[g][r] = "none"
  BY DEF LockInv, WriterAlone
<1>4. CASE g = f /\ q = p
  <2>1. type = "exclusive"
    BY <1>1, <1>4 DEF LockInv, LockTypeOK
  <2>2. holds[f][r] = "none"
    BY <1>1, <1>4, <2>1 DEF Compatible
  <2> QED  BY <1>2, <1>4, <2>2
<1>5. CASE g = f /\ r = p
  \* The lock of q would not have been compatible.
  <2>1. holds[f][q] = "exclusive"
    BY <1>2, <1>5
  <2> QED  BY <1>1, <1>5, <2>1 DEF Compatible
<1>6. CASE ~(g = f /\ p \in {q, r})
  BY <1>2, <1>3, <1>6
<1> QED  BY <1>4, <1>5, <1>6

\* One step per action of file_lock.
LEMMA LockInvNext == LockInv /\ [LockNext]_lockVars => LockInv'
<1> SUFFICES ASSUME LockInv, [LockNext]_lockVars PROVE LockInv'
  OBVIOUS
<1> USE DEF LockInv, LockTypeOK, LockTypes, Calls, AlarmRestored
<1>1. ASSUME NEW p \in Proc, set_timer(p) PROVE LockInv'
  BY <1>1 DEF set_timer, WriterAlone
<1>2. ASSUME NEW p \in Proc, Refuse(p) PROVE LockInv'
  BY <1>2 DEF Refuse, WriterAlone
<1>3. ASSUME NEW p \in Proc, Alarm(p) PROVE LockInv'
  BY <1>3 DEF Alarm, WriterAlone
<1>4. ASSUME NEW p \in Proc, Interrupt(p) PROVE LockInv'
  BY <1>4 DEF Interrupt, WriterAlone
<1>5. ASSUME NEW p \in Proc, unset_timer(p) PROVE LockInv'
  BY <1>5 DEF unset_timer, WriterAlone
<1>6. ASSUME NEW p \in Proc, Die(p) PROVE LockInv'
  BY <1>6 DEF Die, WriterAlone
<1>7. ASSUME NEW p \in Proc, NEW f \in File, unset_lock(p, f) PROVE LockInv'
  BY <1>7 DEF unset_lock, WriterAlone
<1>8. ASSUME NEW p \in Proc, NEW f \in File, NEW type \in {"shared", "exclusive"},
             Grant(p, f, type)
      PROVE  LockInv'
  <2>1. WriterAlone'
    BY <1>8, GrantKeepsWriterAlone
  <2>2. LockTypeOK' /\ AlarmRestored'
    BY <1>8 DEF Grant
  <2> QED  BY <2>1, <2>2
<1>9. ASSUME NEW p \in Proc, NEW f \in File, NEW type \in {"shared", "exclusive"},
             Block(p, f, type)
      PROVE  LockInv'
  BY <1>9 DEF Block, WriterAlone
<1>10. CASE UNCHANGED lockVars
  BY <1>10 DEF lockVars, WriterAlone
<1> QED  BY <1>1, <1>2, <1>3, <1>4, <1>5, <1>6, <1>7, <1>8, <1>9, <1>10 DEF LockNext

\* Nobody holds a lock at first.
LEMMA LockInitially == LockInit => LockInv
  BY DEF LockInit, LockInv, LockTypeOK, LockTypes, Calls, AlarmRestored, WriterAlone

(***************************************************************************)
(* The directory of session files.                                         *)
(***************************************************************************)

\* Where a process that makes a session file can be, and one that reads them.
Making == {"make_lock", "write", "close"}
Loading == {"opendir", "readdir", "stat", "load_open", "load_lock", "parse", "unlock", "loaded"}

\* A process is where its job leads it; it has no result before it is done,
\* except that a parse error takes it through the unlock.
OnPath ==
    \A p \in Proc :
        /\ pc[p] \in Making \cup {"make_open"} => job[p].op = "begin"
        /\ pc[p] \in Loading => job[p].op # "begin"
        /\ pc[p] \in {"stop", "unlink"} => job[p].op = "end"
        /\ pc[p] # "done" => result[p] = "none" \/ (pc[p] = "unlock" /\ result[p] = "parse")

\* set_lock is called in two places; the files that have been locked are open,
\* and locked as they should be.
Locked ==
    \A p \in Proc :
        /\ pc[p] \notin {"load_lock", "make_lock"} => call[p] = "out"
        /\ pc[p] \in Making \cup {"load_lock", "parse", "unlock"} => fd[p] # None
        /\ pc[p] = "load_lock" /\ call[p] = "got" => holds[fd[p]][p] = "shared"
        /\ pc[p] = "make_lock" /\ call[p] = "got" => holds[fd[p]][p] = "exclusive"
        /\ pc[p] \in {"parse", "unlock"} => holds[fd[p]][p] = "shared"
        /\ pc[p] = "write" => holds[fd[p]][p] = "exclusive"

\* p has made its session file and not given up on it.
Made(p) == job[p].op = "begin" /\ (pc[p] \in Making \/ result[p] = "ok")

\* A fresh file is empty and nobody has it; a file has one name and one maker,
\* and it keeps the maker's name until the session is ended.
OneMaker ==
    /\ \A f \in fresh : /\ size[f] = 0
                        /\ \A n \in Name : dir[n] # f
                        /\ \A p \in Proc : fd[p] # f
    /\ \A m, n \in Name : dir[m] = dir[n] /\ dir[m] # None => m = n
    /\ \A p, q \in Proc : Made(p) /\ Made(q) /\ fd[p] = fd[q] => p = q
    /\ \A p \in Proc : Made(p) =>
         /\ fd[p] # None
         /\ \A n \in Name : IF n = job[p].name THEN dir[n] = fd[p] \/ Ended(n) ELSE dir[n] # fd[p]

\* How much of a file can be written: nothing before the lock is taken, and a
\* part of it only by a maker that is still at it, was killed or had no space.
PartsExplained ==
    /\ \A p \in Proc : pc[p] = "make_lock" => size[fd[p]] = 0
    /\ \A f \in File : size[f] \in 1..(Chunks - 1) =>
         \/ f \in torn
         \/ \E q \in Proc : /\ fd[q] = f /\ job[q].op = "begin"
                            /\ pc[q] \in {"write", "close"} \/ result[q] = "killed"

\* What a process has seen in the directory is still there, or was ended.
SeenExplained ==
    \A p \in Proc :
        /\ \A n \in listed[p] : dir[n] # None \/ Ended(n)
        /\ pc[p] \in {"stat", "load_open"} => dir[cur[p]] # None \/ Ended(cur[p])
        /\ result[p] = "vanished" => Ended(cur[p])

DirInv ==
    /\ TypeOK /\ LockInv
    /\ OnPath /\ Locked /\ OneMaker /\ PartsExplained /\ SeenExplained /\ LeftoversExplained
-----------------------------------------------------------------------------
(* Proofs. *)

\* Whatever another process does, one that is done stays as it is.
LEMMA DoneStays ==
    ASSUME TypeOK, [Next]_vars
    PROVE  /\ job' = job
           /\ \A q \in Proc : pc[q] = "done" =>
                pc'[q] = "done" /\ result'[q] = result[q] /\ fd'[q] = fd[q] /\ cur'[q] = cur[q]
<1>1. ASSUME NEW p \in Proc, Opendir(p)
      PROVE  /\ job' = job
             /\ \A q \in Proc : pc[q] = "done" =>
                  pc'[q] = "done" /\ result'[q] = result[q] /\ fd'[q] = fd[q] /\ cur'[q] = cur[q]
  BY <1>1 DEF TypeOK, Opendir, Finish, Goto, dirVars
<1>2. ASSUME NEW p \in Proc, Readdir(p)
      PROVE  /\ job' = job
             /\ \A q \in Proc : pc[q] = "done" =>
                  pc'[q] = "done" /\ result'[q] = result[q] /\ fd'[q] = fd[q] /\ cur'[q] = cur[q]
  BY <1>2 DEF TypeOK, Readdir, Finish, Goto, dirVars
<1>3. ASSUME NEW p \in Proc, StatEntry(p)
      PROVE  /\ job' = job
             /\ \A q \in Proc : pc[q] = "done" =>
                  pc'[q] = "done" /\ result'[q] = result[q] /\ fd'[q] = fd[q] /\ cur'[q] = cur[q]
  BY <1>3 DEF TypeOK, StatEntry, Finish, Goto, dirVars
<1>4. ASSUME NEW p \in Proc, LoadOpen(p)
      PROVE  /\ job' = job
             /\ \A q \in Proc : pc[q] = "done" =>
                  pc'[q] = "done" /\ result'[q] = result[q] /\ fd'[q] = fd[q] /\ cur'[q] = cur[q]
  BY <1>4 DEF TypeOK, LoadOpen, Finish, Goto, dirVars
<1>5. ASSUME NEW p \in Proc, InSetLock(p)
      PROVE  /\ job' = job
             /\ \A q \in Proc : pc[q] = "done" =>
                  pc'[q] = "done" /\ result'[q] = result[q] /\ fd'[q] = fd[q] /\ cur'[q] = cur[q]
  BY <1>5 DEF TypeOK, InSetLock, Finish, Goto, dirVars
<1>6. ASSUME NEW p \in Proc, LoadLocked(p)
      PROVE  /\ job' = job
             /\ \A q \in Proc : pc[q] = "done" =>
                  pc'[q] = "done" /\ result'[q] = result[q] /\ fd'[q] = fd[q] /\ cur'[q] = cur[q]
  BY <1>6 DEF TypeOK, LoadLocked, Finish, Goto, dirVars
<1>7. ASSUME NEW p \in Proc, Parse(p)
      PROVE  /\ job' = job
             /\ \A q \in Proc : pc[q] = "done" =>
                  pc'[q] = "done" /\ result'[q] = result[q] /\ fd'[q] = fd[q] /\ cur'[q] = cur[q]
  BY <1>7 DEF TypeOK, Parse, Finish, Goto, dirVars
<1>8. ASSUME NEW p \in Proc, Unlock(p)
      PROVE  /\ job' = job
             /\ \A q \in Proc : pc[q] = "done" =>
                  pc'[q] = "done" /\ result'[q] = result[q] /\ fd'[q] = fd[q] /\ cur'[q] = cur[q]
  BY <1>8 DEF TypeOK, Unlock, Finish, Goto, dirVars
<1>9. ASSUME NEW p \in Proc, Loaded(p)
      PROVE  /\ job' = job
             /\ \A q \in Proc : pc[q] = "done" =>
                  pc'[q] = "done" /\ result'[q] = result[q] /\ fd'[q] = fd[q] /\ cur'[q] = cur[q]
  BY <1>9 DEF TypeOK, Loaded, Finish, Goto, dirVars
<1>10. ASSUME NEW p \in Proc, MakeOpen(p)
      PROVE  /\ job' = job
             /\ \A q \in Proc : pc[q] = "done" =>
                  pc'[q] = "done" /\ result'[q] = result[q] /\ fd'[q] = fd[q] /\ cur'[q] = cur[q]
  BY <1>10 DEF TypeOK, MakeOpen, Finish, Goto, dirVars
<1>11. ASSUME NEW p \in Proc, MakeLocked(p)
      PROVE  /\ job' = job
             /\ \A q \in Proc : pc[q] = "done" =>
                  pc'[q] = "done" /\ result'[q] = result[q] /\ fd'[q] = fd[q] /\ cur'[q] = cur[q]
  BY <1>11 DEF TypeOK, MakeLocked, Finish, Goto, dirVars
<1>12. ASSUME NEW p \in Proc, Write(p)
      PROVE  /\ job' = job
             /\ \A q \in Proc : pc[q] = "done" =>
                  pc'[q] = "done" /\ result'[q] = result[q] /\ fd'[q] = fd[q] /\ cur'[q] = cur[q]
  BY <1>12 DEF TypeOK, Write, Finish, Goto, dirVars
<1>13. ASSUME NEW p \in Proc, Close(p)
      PROVE  /\ job' = job
             /\ \A q \in Proc : pc[q] = "done" =>
                  pc'[q] = "done" /\ result'[q] = result[q] /\ fd'[q] = fd[q] /\ cur'[q] = cur[q]
  BY <1>13 DEF TypeOK, Close, Finish, Goto, dirVars
<1>14. ASSUME NEW p \in Proc, Stop(p)
      PROVE  /\ job' = job
             /\ \A q \in Proc : pc[q] = "done" =>
                  pc'[q] = "done" /\ result'[q] = result[q] /\ fd'[q] = fd[q] /\ cur'[q] = cur[q]
  BY <1>14 DEF TypeOK, Stop, Finish, Goto, dirVars
<1>15. ASSUME NEW p \in Proc, Unlink(p)
      PROVE  /\ job' = job
             /\ \A q \in Proc : pc[q] = "done" =>
                  pc'[q] = "done" /\ result'[q] = result[q] /\ fd'[q] = fd[q] /\ cur'[q] = cur[q]
  BY <1>15 DEF TypeOK, Unlink, Finish, Goto, dirVars
<1>16. ASSUME NEW p \in Proc, Timeout(p)
      PROVE  /\ job' = job
             /\ \A q \in Proc : pc[q] = "done" =>
                  pc'[q] = "done" /\ result'[q] = result[q] /\ fd'[q] = fd[q] /\ cur'[q] = cur[q]
  BY <1>16 DEF TypeOK, Timeout, Finish, Goto, dirVars
<1>17. ASSUME NEW p \in Proc, Signal(p)
      PROVE  /\ job' = job
             /\ \A q \in Proc : pc[q] = "done" =>
                  pc'[q] = "done" /\ result'[q] = result[q] /\ fd'[q] = fd[q] /\ cur'[q] = cur[q]
  BY <1>17 DEF TypeOK, Signal, Finish, Goto, dirVars
<1>18. ASSUME NEW p \in Proc, Kill(p)
      PROVE  /\ job' = job
             /\ \A q \in Proc : pc[q] = "done" =>
                  pc'[q] = "done" /\ result'[q] = result[q] /\ fd'[q] = fd[q] /\ cur'[q] = cur[q]
  BY <1>18 DEF TypeOK, Kill, Finish, Goto, dirVars
<1>19. CASE UNCHANGED vars
  BY <1>19 DEF vars, dirVars
<1> QED
  BY <1>1, <1>2, <1>3, <1>4, <1>5, <1>6, <1>7, <1>8, <1>9, <1>10, <1>11, <1>12, <1>13, <1>14, <1>15, <1>16, <1>17, <1>18, <1>19 DEF Next, Step, Done

\* Every step is one of file_lock's, or leaves its locks alone.
LEMMA LockSteps ==
    ASSUME TypeOK, Locked, [Next]_vars PROVE [LockNext]_lockVars
<1>1. ASSUME NEW p \in Proc, Opendir(p) PROVE [LockNext]_lockVars
  BY <1>1, DirAssumption DEF TypeOK, Locked, Making, Opendir, LockNext, LockWanted, lockVars, None
<1>2. ASSUME NEW p \in Proc, Readdir(p) PROVE [LockNext]_lockVars
  BY <1>2, DirAssumption DEF TypeOK, Locked, Making, Readdir, LockNext, LockWanted, lockVars, None
<1>3. ASSUME NEW p \in Proc, StatEntry(p) PROVE [LockNext]_lockVars
  BY <1>3, DirAssumption DEF TypeOK, Locked, Making, StatEntry, LockNext, LockWanted, lockVars, None
<1>4. ASSUME NEW p \in Proc, LoadOpen(p) PROVE [LockNext]_lockVars
  BY <1>4, DirAssumption DEF TypeOK, Locked, Making, LoadOpen, LockNext, LockWanted, lockVars, None
<1>5. ASSUME NEW p \in Proc, InSetLock(p) PROVE [LockNext]_lockVars
  BY <1>5, DirAssumption DEF TypeOK, Locked, Making, InSetLock, LockNext, LockWanted, lockVars, None
<1>6. ASSUME NEW p \in Proc, LoadLocked(p) PROVE [LockNext]_lockVars
  BY <1>6, DirAssumption DEF TypeOK, Locked, Making, LoadLocked, LockNext, LockWanted, lockVars, None
<1>7. ASSUME NEW p \in Proc, Parse(p) PROVE [LockNext]_lockVars
  BY <1>7, DirAssumption DEF TypeOK, Locked, Making, Parse, LockNext, LockWanted, lockVars, None
<1>8. ASSUME NEW p \in Proc, Unlock(p) PROVE [LockNext]_lockVars
  BY <1>8, DirAssumption DEF TypeOK, Locked, Making, Unlock, LockNext, LockWanted, lockVars, None
<1>9. ASSUME NEW p \in Proc, Loaded(p) PROVE [LockNext]_lockVars
  BY <1>9, DirAssumption DEF TypeOK, Locked, Making, Loaded, LockNext, LockWanted, lockVars, None
<1>10. ASSUME NEW p \in Proc, MakeOpen(p) PROVE [LockNext]_lockVars
  BY <1>10, DirAssumption DEF TypeOK, Locked, Making, MakeOpen, LockNext, LockWanted, lockVars, None
<1>11. ASSUME NEW p \in Proc, MakeLocked(p) PROVE [LockNext]_lockVars
  BY <1>11, DirAssumption DEF TypeOK, Locked, Making, MakeLocked, LockNext, LockWanted, lockVars, None
<1>12. ASSUME NEW p \in Proc, Write(p) PROVE [LockNext]_lockVars
  BY <1>12, DirAssumption DEF TypeOK, Locked, Making, Write, LockNext, LockWanted, lockVars, None
<1>13. ASSUME NEW p \in Proc, Close(p) PROVE [LockNext]_lockVars
  BY <1>13, DirAssumption DEF TypeOK, Locked, Making, Close, LockNext, LockWanted, lockVars, None
<1>14. ASSUME NEW p \in Proc, Stop(p) PROVE [LockNext]_lockVars
  BY <1>14, DirAssumption DEF TypeOK, Locked, Making, Stop, LockNext, LockWanted, lockVars, None
<1>15. ASSUME NEW p \in Proc, Unlink(p) PROVE [LockNext]_lockVars
  BY <1>15, DirAssumption DEF TypeOK, Locked, Making, Unlink, LockNext, LockWanted, lockVars, None
<1>16. ASSUME NEW p \in Proc, Timeout(p) PROVE [LockNext]_lockVars
  BY <1>16, DirAssumption DEF TypeOK, Locked, Making, Timeout, LockNext, LockWanted, lockVars, None
<1>17. ASSUME NEW p \in Proc, Signal(p) PROVE [LockNext]_lockVars
  BY <1>17, DirAssumption DEF TypeOK, Locked, Making, Signal, LockNext, LockWanted, lockVars, None
<1>18. ASSUME NEW p \in Proc, Kill(p) PROVE [LockNext]_lockVars
  BY <1>18, DirAssumption DEF TypeOK, Locked, Making, Kill, LockNext, LockWanted, lockVars, None
<1>19. CASE UNCHANGED vars
  BY <1>19 DEF vars, lockVars
<1> QED
  BY <1>1, <1>2, <1>3, <1>4, <1>5, <1>6, <1>7, <1>8, <1>9, <1>10, <1>11, <1>12, <1>13, <1>14, <1>15, <1>16, <1>17, <1>18, <1>19 DEF Next, Step, Done

\* A session that was ended stays ended.
LEMMA EndedStays ==
    ASSUME TypeOK, OnPath, [Next]_vars PROVE \A n \in Name : Ended(n) => Ended(n)'
  BY DoneStays DEF OnPath, Ended

\* The parts of the invariant that each action is shown to keep.
DirParts ==
    TypeOK /\ OnPath /\ Locked /\ OneMaker /\ PartsExplained /\ SeenExplained /\ LeftoversExplained

\* Steps inside set_lock concern the locks only.
LEMMA LockingKeeps ==
    ASSUME DirInv, LockInv', UNCHANGED dirVars
    PROVE  (TypeOK /\ OnPath /\ OneMaker /\ PartsExplained /\ SeenExplained /\ LeftoversExplained)'
<1> USE DEF DirInv, dirVars
<1>1. TypeOK'
  BY DEF TypeOK, LockInv
<1>2. OnPath'
  BY DEF OnPath
<1>3. OneMaker'
  BY DEF OneMaker, Made, Ended
<1>4. PartsExplained'
  BY DEF PartsExplained
<1>5. SeenExplained'
  BY DEF SeenExplained, Ended
<1>6. LeftoversExplained'
  BY DEF LeftoversExplained, Creating
<1> QED
  BY <1>1, <1>2, <1>3, <1>4, <1>5, <1>6

\* A step that makes no file leaves a file with one maker, if it removes only
\* files of sessions that are ended.
LEMMA MakersStay ==
    ASSUME DirInv, \A n \in Name : Ended(n) => Ended(n)', job' = job, fresh' = fresh,
           \A f \in fresh : size'[f] = size[f],
           \A n \in Name : dir'[n] = dir[n] \/ (dir'[n] = None /\ Ended(n)'),
           \A q \in Proc : fd'[q] \in {fd[q], None} \cup {dir[n] : n \in Name},
           \A q \in Proc : Made(q)' => Made(q) /\ fd'[q] = fd[q]
    PROVE  OneMaker'
<1> USE DEF DirInv
<1>1. \A f \in fresh : f # None
  BY DirAssumption DEF TypeOK, None
<1>2. \A f \in fresh' : /\ size'[f] = 0
                        /\ \A n \in Name : dir'[n] # f
                        /\ \A q \in Proc : fd'[q] # f
  BY <1>1 DEF OneMaker
<1>3. \A m, n \in Name : dir'[m] = dir'[n] /\ dir'[m] # None => m = n
  BY DEF OneMaker
<1>4. \A q, r \in Proc : Made(q)' /\ Made(r)' /\ fd'[q] = fd'[r] => q = r
  BY DEF OneMaker
<1>5. ASSUME NEW q \in Proc, Made(q)'
      PROVE  /\ fd'[q] # None
             /\ \A n \in Name : IF n = job'[q].name THEN dir'[n] = fd'[q] \/ Ended(n)'
                                                    ELSE dir'[n] # fd'[q]
  <2>1. /\ Made(q) /\ fd'[q] = fd[q] /\ fd[q] # None
        /\ \A n \in Name : IF n = job[q].name THEN dir[n] = fd[q] \/ Ended(n)
                                              ELSE dir[n] # fd[q]
    BY <1>5 DEF OneMaker
  <2> QED
    BY <2>1
<1> QED
  BY <1>2, <1>3, <1>4, <1>5 DEF OneMaker

\* Nor does a step leave an unexplained file, if each file it writes to is
\* complete, torn or still with its maker, and each maker that stops leaves the
\* reason.
LEMMA LeftoversStay ==
    ASSUME DirInv, job' = job, torn \subseteq torn',
           \A n \in Name : dir'[n] \in {dir[n], None},
           \A f \in File : \/ size'[f] = size[f] \/ size'[f] = Chunks \/ f \in torn'
                           \/ \E q \in Proc : Creating(q, f)',
           \A q \in Proc : pc[q] = "done" => result'[q] = result[q],
           \A q \in Proc, n \in Name : Creating(q, dir[n]) =>
               \/ Creating(q, dir[n])' \/ size'[dir[n]] = Chunks \/ dir[n] \in torn'
               \/ job[q] = [op |-> "begin", name |-> n] /\ result'[q] \in {"killed", "make_lock"}
    PROVE  LeftoversExplained'
<1> SUFFICES ASSUME NEW n \in Name, dir'[n] # None, size'[dir'[n]] < Chunks, dir'[n] \notin torn',
                    ~ \E q \in Proc : Creating(q, dir[n])'
             PROVE  \E q \in Proc : /\ job'[q] = [op |-> "begin", name |-> n]
                                    /\ result'[q] \in {"killed", "make_lock"}
  BY DEF LeftoversExplained, Creating
<1>1. dir'[n] = dir[n] /\ dir[n] \in File /\ dir[n] # None /\ dir[n] \notin torn
  BY DEF DirInv, TypeOK
<1>2. size'[dir[n]] = size[dir[n]] /\ size[dir[n]] < Chunks
  BY <1>1, DirAssumption
<1>3. CASE \E q \in Proc : Creating(q, dir[n])
  BY <1>1, <1>2, <1>3, DirAssumption
<1>4. CASE \E q \in Proc : job[q] = [op |-> "begin", name |-> n]
                             /\ result[q] \in {"killed", "make_lock"}
  BY <1>4 DEF DirInv, OnPath
<1> QED
  BY <1>1, <1>2, <1>3, <1>4 DEF DirInv, LeftoversExplained

\* A step of a process that is not making a session file and touches none: it
\* may open a file of the directory and close its own.
Reads(p) ==
    /\ job' = job /\ dir' = dir /\ size' = size /\ fresh' = fresh /\ torn' = torn
    /\ pc[p] \notin Making \cup {"done"} /\ pc'[p] \notin Making
    /\ job[p].op # "begin"
    /\ fd'[p] \in {fd[p], None} \cup {dir[n] : n \in Name}
    /\ \A q \in Proc \ {p} : pc'[q] = pc[q] /\ fd'[q] = fd[q] /\ result'[q] = result[q]

\* Such a step does not concern the makers.
LEMMA ReadingKeeps ==
    ASSUME DirInv, \A n \in Name : Ended(n) => Ended(n)', NEW p \in Proc, Reads(p)
    PROVE  (OneMaker /\ PartsExplained /\ LeftoversExplained)'
<1> USE DEF Reads
<1>1. OneMaker'
  <2>1. \A q \in Proc : Made(q)' => Made(q) /\ fd'[q] = fd[q]
    BY DEF Made
  <2> QED
    BY <2>1, MakersStay
<1>2. PartsExplained'
  BY DEF DirInv, PartsExplained, Making
<1>3. LeftoversExplained'
  <2>1. \A q \in Proc, n \in Name : Creating(q, dir[n]) => Creating(q, dir[n])'
    BY DEF Creating, Making
  <2> QED
    BY <2>1, LeftoversStay
<1> QED
  BY <1>1, <1>2, <1>3

\* opendir sees the names that are there, and changes no file.
LEMMA OpendirKeeps ==
    ASSUME DirInv, LockInv', \A n \in Name : Ended(n) => Ended(n)',
           NEW p \in Proc, Opendir(p)
    PROVE  DirParts'
<1> USE DEF DirInv
<1>1. TypeOK'
  BY DirAssumption DEF TypeOK, LockInv, PCs, Results, Present, Jobs, Goto, Finish, Opendir
<1>2. OnPath'
  BY DEF OnPath, TypeOK, Making, Loading, Goto, Finish, Opendir
<1>3. Locked'
  BY DEF Locked, LockInv, LockTypeOK, TypeOK, Making, None, Goto, Finish, Opendir, lockVars
<1>4. Reads(p)
  BY DEF OnPath, TypeOK, Making, Loading, Reads, Goto, Finish, Opendir
<1>5. SeenExplained'
  BY DEF SeenExplained, OnPath, TypeOK, Present, Goto, Finish, Opendir
<1> QED
  BY <1>1, <1>2, <1>3, <1>4, <1>5, ReadingKeeps DEF DirParts

\* readdir goes on to another name, which may have been removed meanwhile.
LEMMA ReaddirKeeps ==
    ASSUME DirInv, LockInv', \A n \in Name : Ended(n) => Ended(n)',
           NEW p \in Proc, Readdir(p)
    PROVE  DirParts'
<1> USE DEF DirInv
<1>1. TypeOK'
  <2>1. listed[p] \subseteq Name /\ Present \subseteq Name
    BY DEF TypeOK, Present
  <2>2. listed' \in [Proc -> SUBSET Name] /\ pc' \in [Proc -> PCs]
    BY <2>1 DEF TypeOK, Readdir, PCs, Goto
  <2>3. CASE \E n \in (listed[p] \cup Present) \ seen[p] :
               /\ cur' = [cur EXCEPT ![p] = n] /\ seen' = [seen EXCEPT ![p] = @ \cup {n}]
    <3>1. PICK n \in Name : /\ cur' = [cur EXCEPT ![p] = n]
                            /\ seen' = [seen EXCEPT ![p] = seen[p] \cup {n}]
      BY <2>1, <2>3
    <3>2. seen[p] \cup {n} \in SUBSET Name
      BY DEF TypeOK
    <3>3. seen' \in [Proc -> SUBSET Name] /\ cur' \in [Proc -> Name]
      BY <3>1, <3>2 DEF TypeOK
    <3> QED
      BY <2>2, <3>3 DEF TypeOK, LockInv, Readdir
  <2>4. CASE seen' = [seen EXCEPT ![p] = {}] /\ cur' = cur
    <3>1. seen' \in [Proc -> SUBSET Name]
      BY <2>4 DEF TypeOK
    <3> QED
      BY <2>2, <2>4, <3>1 DEF TypeOK, LockInv, Readdir
  <2> QED
    BY <2>3, <2>4 DEF Readdir
<1>2. OnPath'
  BY DEF OnPath, TypeOK, Making, Loading, Goto, Finish, Readdir
<1>3. Locked'
  BY DEF Locked, LockInv, LockTypeOK, TypeOK, Making, None, Goto, Finish, Readdir, lockVars
<1>4. Reads(p)
  BY DEF OnPath, TypeOK, Making, Loading, Reads, Goto, Finish, Readdir
<1>5. SeenExplained'
  <2>1. \A n \in listed[p] \cup Present : dir[n] # None \/ Ended(n)
    BY DEF SeenExplained, Present
  <2>2. listed[p] \subseteq Name /\ Present \subseteq Name
    BY DEF TypeOK, Present
  <2>3. \A q \in Proc : /\ \A n \in listed'[q] : n \in listed[q]
                        /\ result'[q] = "vanished" => q # p /\ result[q] = "vanished"
                        /\ q # p => cur'[q] = cur[q] /\ pc'[q] = pc[q]
    BY DEF OnPath, TypeOK, Readdir, Goto
  <2>4. pc'[p] \in {"stat", "load_open"} => cur'[p] \in listed[p] \cup Present
    BY DEF TypeOK, Readdir, Goto
  <2>5. dir' = dir /\ \A q \in Proc : listed[q] \subseteq Name /\ cur[q] \in Name
    BY DEF TypeOK, Readdir
  <2> QED
    BY <2>1, <2>2, <2>3, <2>4, <2>5 DEF SeenExplained
<1> QED
  BY <1>1, <1>2, <1>3, <1>4, <1>5, ReadingKeeps DEF DirParts

\* stat of an entry finds it or not, and changes no file.
LEMMA StatEntryKeeps ==
    ASSUME DirInv, LockInv', \A n \in Name : Ended(n) => Ended(n)',
           NEW p \in Proc, StatEntry(p)
    PROVE  DirParts'
<1> USE DEF DirInv
<1>1. TypeOK'
  BY DirAssumption DEF TypeOK, LockInv, PCs, Results, Present, Jobs, Goto, Finish, StatEntry
<1>2. OnPath'
  BY DEF OnPath, TypeOK, Making, Loading, Goto, Finish, StatEntry
<1>3. Locked'
  BY DEF Locked, LockInv, LockTypeOK, TypeOK, Making, None, Goto, Finish, StatEntry, lockVars
<1>4. Reads(p)
  BY DEF OnPath, TypeOK, Making, Loading, Reads, Goto, Finish, StatEntry
<1>5. SeenExplained'
  BY DEF SeenExplained, OnPath, TypeOK, Present, Goto, Finish, StatEntry
<1> QED
  BY <1>1, <1>2, <1>3, <1>4, <1>5, ReadingKeeps DEF DirParts

\* Opening an entry to read: what is open is what the name led to then.
LEMMA LoadOpenKeeps ==
    ASSUME DirInv, LockInv', \A n \in Name : Ended(n) => Ended(n)',
           NEW p \in Proc, LoadOpen(p)
    PROVE  DirParts'
<1> USE DEF DirInv
<1>1. TypeOK'
  BY DirAssumption DEF TypeOK, LockInv, PCs, Results, Present, Jobs, Goto, Finish, LoadOpen
<1>2. OnPath'
  BY DEF OnPath, TypeOK, Making, Loading, Goto, Finish, LoadOpen
<1>3. Locked'
  <2>1. \A q \in Proc : q # p => pc'[q] = pc[q] /\ fd'[q] = fd[q]
    BY DEF TypeOK, LoadOpen, Goto, Finish
  <2>2. pc'[p] = "done" \/ (pc'[p] = "load_lock" /\ fd'[p] # None)
    BY DEF TypeOK, LoadOpen, Goto, Finish
  <2>3. call[p] = "out"
    BY DEF Locked, LoadOpen
  <2> QED
    BY <2>1, <2>2, <2>3 DEF Locked, LoadOpen, lockVars, Making
<1>4. Reads(p)
  BY DEF OnPath, TypeOK, Making, Loading, Reads, Goto, Finish, LoadOpen
<1>5. SeenExplained'
  BY DEF SeenExplained, OnPath, TypeOK, Present, Goto, Finish, LoadOpen
<1> QED
  BY <1>1, <1>2, <1>3, <1>4, <1>5, ReadingKeeps DEF DirParts

\* The shared lock of a reader is held, or waiting for it failed.
LEMMA LoadLockedKeeps ==
    ASSUME DirInv, LockInv', \A n \in Name : Ended(n) => Ended(n)',
           NEW p \in Proc, LoadLocked(p)
    PROVE  DirParts'
<1> USE DEF DirInv
<1>1. TypeOK'
  BY DirAssumption DEF TypeOK, LockInv, PCs, Results, Present, Jobs, Goto, Finish, LoadLocked
<1>2. OnPath'
  BY DEF OnPath, TypeOK, Making, Loading, Goto, Finish, LoadLocked
<1>3. Locked'
  BY DEF Locked, LockInv, LockTypeOK, TypeOK, Making, None, Goto, Finish, LoadLocked, unset_timer
<1>4. Reads(p)
  BY DEF OnPath, TypeOK, Making, Loading, Reads, Goto, Finish, LoadLocked
<1>5. SeenExplained'
  BY DEF SeenExplained, OnPath, TypeOK, Present, Goto, Finish, LoadLocked
<1> QED
  BY <1>1, <1>2, <1>3, <1>4, <1>5, ReadingKeeps DEF DirParts

\* What a reader finds in the file it has locked.
LEMMA ParseKeeps ==
    ASSUME DirInv, LockInv', \A n \in Name : Ended(n) => Ended(n)',
           NEW p \in Proc, Parse(p)
    PROVE  DirParts'
<1> USE DEF DirInv
<1>1. TypeOK'
  <2>1. found' \in [Proc -> [Name -> File \cup {None}]]
    <3>1. [found[p] EXCEPT ![cur[p]] = fd[p]] \in [Name -> File \cup {None}]
      BY DEF TypeOK
    <3>2. found' = found \/ found' = [found EXCEPT ![p] = [found[p] EXCEPT ![cur[p]] = fd[p]]]
      BY DEF Parse
    <3> QED
      BY <3>1, <3>2 DEF TypeOK
  <2> QED
    BY <2>1 DEF TypeOK, LockInv, PCs, Results, Goto, Parse
<1>2. OnPath'
  BY DEF OnPath, TypeOK, Making, Loading, Goto, Finish, Parse
<1>3. Locked'
  BY DEF Locked, LockInv, LockTypeOK, TypeOK, Making, None, Goto, Finish, Parse, lockVars
<1>4. Reads(p)
  BY DEF OnPath, TypeOK, Making, Loading, Reads, Goto, Finish, Parse
<1>5. SeenExplained'
  BY DEF SeenExplained, OnPath, TypeOK, Present, Goto, Finish, Parse
<1> QED
  BY <1>1, <1>2, <1>3, <1>4, <1>5, ReadingKeeps DEF DirParts

\* A reader gives its lock back.
LEMMA UnlockKeeps ==
    ASSUME DirInv, LockInv', \A n \in Name : Ended(n) => Ended(n)',
           NEW p \in Proc, Unlock(p)
    PROVE  DirParts'
<1> USE DEF DirInv
<1>1. TypeOK'
  BY DirAssumption DEF TypeOK, LockInv, PCs, Results, Present, Jobs, Goto, Finish, Unlock
<1>2. OnPath'
  BY DEF OnPath, TypeOK, Making, Loading, Goto, Finish, Unlock
<1>3. Locked'
  BY DEF Locked, LockInv, LockTypeOK, TypeOK, Making, None, Goto, Finish, Unlock, unset_lock
<1>4. Reads(p)
  BY DEF OnPath, TypeOK, Making, Loading, Reads, Goto, Finish, Unlock
<1>5. SeenExplained'
  BY DEF SeenExplained, OnPath, TypeOK, Present, Goto, Finish, Unlock
<1> QED
  BY <1>1, <1>2, <1>3, <1>4, <1>5, ReadingKeeps DEF DirParts

\* The directory is read: the session asked for was found, or not.
LEMMA LoadedKeeps ==
    ASSUME DirInv, LockInv', \A n \in Name : Ended(n) => Ended(n)',
           NEW p \in Proc, Loaded(p)
    PROVE  DirParts'
<1> USE DEF DirInv
<1>1. TypeOK'
  BY DirAssumption DEF TypeOK, LockInv, PCs, Results, Present, Jobs, Goto, Finish, Loaded
<1>2. OnPath'
  BY DEF OnPath, TypeOK, Making, Loading, Goto, Finish, Loaded
<1>3. Locked'
  BY DEF Locked, LockInv, LockTypeOK, TypeOK, Making, None, Goto, Finish, Loaded, lockVars
<1>4. Reads(p)
  BY DEF OnPath, TypeOK, Making, Loading, Reads, Goto, Finish, Loaded
<1>5. SeenExplained'
  BY DEF SeenExplained, OnPath, TypeOK, Present, Goto, Finish, Loaded
<1> QED
  BY <1>1, <1>2, <1>3, <1>4, <1>5, ReadingKeeps DEF DirParts

\* The scripts of a session to be ended stop it or fail.
LEMMA StopKeeps ==
    ASSUME DirInv, LockInv', \A n \in Name : Ended(n) => Ended(n)',
           NEW p \in Proc, Stop(p)
    PROVE  DirParts'
<1> USE DEF DirInv
<1>1. TypeOK'
  BY DirAssumption DEF TypeOK, LockInv, PCs, Results, Present, Jobs, Goto, Finish, Stop
<1>2. OnPath'
  BY DEF OnPath, TypeOK, Making, Loading, Goto, Finish, Stop
<1>3. Locked'
  BY DEF Locked, LockInv, LockTypeOK, TypeOK, Making, None, Goto, Finish, Stop, lockVars
<1>4. Reads(p)
  BY DEF OnPath, TypeOK, Making, Loading, Reads, Goto, Finish, Stop
<1>5. SeenExplained'
  BY DEF SeenExplained, OnPath, TypeOK, Present, Goto, Finish, Stop
<1> QED
  BY <1>1, <1>2, <1>3, <1>4, <1>5, ReadingKeeps DEF DirParts

\* A turn in set_lock changes the locks only.
LEMMA InSetLockKeeps ==
    ASSUME DirInv, LockInv', \A n \in Name : Ended(n) => Ended(n)',
           NEW p \in Proc, InSetLock(p)
    PROVE  DirParts'
<1>1. UNCHANGED dirVars
  BY DEF InSetLock
<1>2. Locked'
  <2>1. \A q \in Proc : /\ q # p => call'[q] = call[q]
                        /\ q # p => \A f \in File : holds'[f][q] = holds[f][q]
                        /\ call[q] \notin {"armed", "blocked"} => \A f \in File : holds'[f][q] = holds[f][q]
    BY DEF DirInv, LockInv, LockTypeOK, InSetLock, set_timer, Grant, Block, Refuse
  <2>2. fd[p] \in File
    BY DEF DirInv, Locked, InSetLock, Making, TypeOK
  <2>3. call'[p] = "got" => holds'[fd[p]][p] = LockWanted(p)
    BY <2>2 DEF DirInv, LockInv, LockTypeOK, InSetLock, set_timer, Grant, Block, Refuse
  <2>4. pc[p] \in {"load_lock", "make_lock"}
    BY DEF InSetLock
  <2>5. \A q \in Proc : fd[q] # None => fd[q] \in File
    BY DEF DirInv, TypeOK
  <2> QED
    BY <1>1, <2>1, <2>2, <2>3, <2>4, <2>5 DEF DirInv, Locked, Making, LockWanted, dirVars
<1> QED
  BY <1>1, <1>2, LockingKeeps DEF DirParts

\* The alarm goes off in set_lock.
LEMMA TimeoutKeeps ==
    ASSUME DirInv, LockInv', \A n \in Name : Ended(n) => Ended(n)',
           NEW p \in Proc, Timeout(p)
    PROVE  DirParts'
<1>1. UNCHANGED dirVars
  BY DEF Timeout
<1>2. Locked'
  BY <1>1 DEF DirInv, Locked, LockInv, LockTypeOK, TypeOK, Making, None, LockWanted, dirVars, Timeout, Alarm
<1> QED
  BY <1>1, <1>2, LockingKeeps DEF DirParts

\* Another signal interrupts set_lock.
LEMMA SignalKeeps ==
    ASSUME DirInv, LockInv', \A n \in Name : Ended(n) => Ended(n)',
           NEW p \in Proc, Signal(p)
    PROVE  DirParts'
<1>1. UNCHANGED dirVars
  BY DEF Signal
<1>2. Locked'
  BY <1>1 DEF DirInv, Locked, LockInv, LockTypeOK, TypeOK, Making, None, LockWanted, dirVars, Signal, Interrupt
<1> QED
  BY <1>1, <1>2, LockingKeeps DEF DirParts

\* O_CREAT with O_EXCL: a name that was free leads to a new, empty file.
LEMMA MakeOpenKeeps ==
    ASSUME DirInv, LockInv', \A n \in Name : Ended(n) => Ended(n)',
           NEW p \in Proc, MakeOpen(p)
    PROVE  DirParts'
<1> USE DEF DirInv
<1>1. CASE dir[job[p].name] # None
  \* The name is taken and the process gives up.
  <2>1. /\ pc' = [pc EXCEPT ![p] = "done"] /\ result' = [result EXCEPT ![p] = "exists"]
        /\ UNCHANGED <<lockVars, job, dir, size, fresh, listed, seen, cur, fd, found, torn>>
    BY <1>1 DEF MakeOpen, Finish, Goto
  <2>2. TypeOK' /\ OnPath'
    BY <2>1 DEF TypeOK, LockInv, PCs, Results, OnPath, Making, Loading
  <2>3. Locked'
    BY <2>1 DEF TypeOK, Locked, MakeOpen, lockVars, Making
  <2>4. OneMaker'
    <3>1. \A q \in Proc : Made(q)' => Made(q) /\ fd'[q] = fd[q]
      BY <2>1 DEF Made, TypeOK, Making
    <3> QED
      BY <2>1, <3>1, MakersStay
  <2>5. SeenExplained'
    BY <2>1 DEF TypeOK, OnPath, SeenExplained, MakeOpen
  <2>6. PartsExplained'
    <3>1. \A q \in Proc : /\ pc'[q] = "make_lock" => pc[q] = "make_lock"
                          /\ pc[q] \in {"write", "close"} => pc'[q] = pc[q]
                          /\ result[q] = "killed" => result'[q] = "killed"
      BY <2>1 DEF TypeOK, OnPath, MakeOpen
    <3> QED
      BY <2>1, <3>1 DEF PartsExplained
  <2>7. LeftoversExplained'
    <3>1. \A q \in Proc : pc[q] = "done" => result'[q] = result[q]
      BY <2>1 DEF TypeOK, MakeOpen
    <3>2. \A q \in Proc, n \in Name : Creating(q, dir[n]) => Creating(q, dir[n])'
      BY <2>1 DEF TypeOK, Creating, MakeOpen
    <3> QED
      BY <2>1, <3>1, <3>2, LeftoversStay
  <2> QED
    BY <2>2, <2>3, <2>4, <2>5, <2>6, <2>7 DEF DirParts
<1>2. CASE dir[job[p].name] = None
  <2>1. PICK f \in fresh :
          /\ dir' = [dir EXCEPT ![job[p].name] = f] /\ fresh' = fresh \ {f}
          /\ fd' = [fd EXCEPT ![p] = f] /\ pc' = [pc EXCEPT ![p] = "make_lock"]
          /\ UNCHANGED <<lockVars, job, size, listed, seen, cur, found, result, torn>>
    BY <1>2 DEF MakeOpen, Goto
  <2>2. /\ f \in File /\ f # None /\ job[p].name \in Name /\ job[p].op = "begin"
        /\ pc[p] = "make_open" /\ result[p] = "none" /\ call[p] = "out"
        /\ size[f] = 0 /\ (\A n \in Name : dir[n] # f) /\ (\A q \in Proc : fd[q] # f)
    BY DirAssumption DEF TypeOK, Jobs, None, OnPath, Locked, OneMaker, MakeOpen
  <2>3. /\ dir'[job[p].name] = f /\ \A n \in Name \ {job[p].name} : dir'[n] = dir[n]
        /\ fd'[p] = f /\ pc'[p] = "make_lock"
        /\ \A q \in Proc \ {p} : fd'[q] = fd[q] /\ pc'[q] = pc[q]
    BY <2>1, <2>2 DEF TypeOK
  <2>4. TypeOK' /\ OnPath'
    BY <2>1, <2>2 DEF TypeOK, LockInv, PCs, OnPath, Making, Loading
  <2>5. Locked'
    BY <2>1, <2>2, <2>3 DEF Locked, lockVars, Making
  <2>6. OneMaker'
    <3>1. \A q \in Proc \ {p} : Made(q)' => Made(q) /\ fd'[q] = fd[q] /\ fd[q] # f
      BY <2>1, <2>2, <2>3 DEF Made
    <3>2. \A g \in fresh' : g \in fresh /\ g # f
      BY <2>1
    <3>3. \A q \in Proc : job[q].name \in Name
      BY DEF TypeOK, Jobs
    <3>4. \A g \in fresh' : /\ size'[g] = 0
                            /\ \A n \in Name : dir'[n] # g
                            /\ \A q \in Proc : fd'[q] # g
      BY <2>1, <2>3, <3>2 DEF OneMaker
    <3>5. \A m, n \in Name : dir'[m] = dir'[n] /\ dir'[m] # None => m = n
      BY <2>2, <2>3 DEF OneMaker
    <3>6. \A q, r \in Proc : Made(q)' /\ Made(r)' /\ fd'[q] = fd'[r] => q = r
      BY <2>2, <2>3, <3>1 DEF OneMaker
    <3>7. ASSUME NEW q \in Proc, Made(q)'
          PROVE  /\ fd'[q] # None
                 /\ \A n \in Name : IF n = job'[q].name THEN dir'[n] = fd'[q] \/ Ended(n)'
                                                        ELSE dir'[n] # fd'[q]
      <4>1. CASE q = p
        BY <2>1, <2>2, <2>3, <4>1
      <4>2. CASE q # p
        <5>1. /\ fd[q] # None
              /\ \A n \in Name : IF n = job[q].name THEN dir[n] = fd[q] \/ Ended(n)
                                                    ELSE dir[n] # fd[q]
          BY <3>1, <3>7, <4>2 DEF OneMaker
        <5> QED
          BY <1>2, <2>1, <2>2, <2>3, <3>1, <3>3, <3>7, <4>2, <5>1
      <4> QED
        BY <4>1, <4>2
    <3> QED
      BY <3>4, <3>5, <3>6, <3>7 DEF OneMaker
  <2>7. PartsExplained'
    <3>1. \A q \in Proc : pc'[q] = "make_lock" => size'[fd'[q]] = 0
      BY <2>1, <2>2, <2>3 DEF PartsExplained
    <3>2. ASSUME NEW g \in File, size'[g] \in 1..(Chunks - 1), g \notin torn'
          PROVE  \E q \in Proc : /\ fd'[q] = g /\ job'[q].op = "begin"
                                 /\ pc'[q] \in {"write", "close"} \/ result'[q] = "killed"
      <4>1. PICK q \in Proc : /\ fd[q] = g /\ job[q].op = "begin"
                              /\ pc[q] \in {"write", "close"} \/ result[q] = "killed"
        BY <2>1, <3>2 DEF PartsExplained
      <4> QED
        BY <2>1, <2>2, <2>3, <4>1
    <3> QED
      BY <3>1, <3>2 DEF PartsExplained
  <2>8. SeenExplained'
    BY <2>1, <2>2, <2>3 DEF SeenExplained, TypeOK
  <2>9. LeftoversExplained'
    <3> SUFFICES ASSUME NEW n \in Name, dir'[n] # None, size'[dir'[n]] < Chunks, dir'[n] \notin torn'
                 PROVE  \/ \E q \in Proc : Creating(q, dir[n])' /\ dir'[n] = dir[n]
                        \/ \E q \in Proc : fd'[q] = dir'[n] /\ pc'[q] = "make_lock"
                        \/ \E q \in Proc : job'[q] = [op |-> "begin", name |-> n]
                                             /\ result'[q] \in {"killed", "make_lock"}
      BY DEF LeftoversExplained, Creating
    <3>1. CASE n = job[p].name
      BY <2>3, <3>1
    <3>2. CASE n # job[p].name
      <4>1. \A q \in Proc : Creating(q, dir[n]) => Creating(q, dir[n])'
        BY <1>2, <2>1, <2>2, <2>3, <3>2 DEF Creating
      <4> QED
        BY <2>1, <2>3, <3>2, <4>1 DEF LeftoversExplained
    <3> QED
      BY <3>1, <3>2
  <2> QED
    BY <2>4, <2>5, <2>6, <2>7, <2>8, <2>9 DEF DirParts
<1> QED
  BY <1>1, <1>2

\* The exclusive lock of the creator is held, or waiting for it failed.
LEMMA MakeLockedKeeps ==
    ASSUME DirInv, LockInv', \A n \in Name : Ended(n) => Ended(n)',
           NEW p \in Proc, MakeLocked(p)
    PROVE  DirParts'
<1> USE DEF DirInv
<1>1. TypeOK'
  BY DEF TypeOK, LockInv, PCs, Results, Goto, Finish, MakeLocked
<1>2. OnPath'
  BY DEF OnPath, TypeOK, Making, Loading, Goto, Finish, MakeLocked
<1>3. Locked'
  BY DEF Locked, LockInv, LockTypeOK, TypeOK, Making, None, Goto, Finish, MakeLocked, unset_timer
<1>4. /\ UNCHANGED <<job, dir, size, fresh, listed, cur, torn>>
      /\ pc[p] = "make_lock" /\ result[p] = "none" /\ job[p].op = "begin"
      /\ \/ pc'[p] = "write" /\ fd'[p] = fd[p] /\ result'[p] = "none"
         \/ pc'[p] = "done" /\ fd'[p] = None /\ result'[p] = "make_lock"
      /\ \A q \in Proc \ {p} : pc'[q] = pc[q] /\ fd'[q] = fd[q] /\ result'[q] = result[q]
  BY DEF OnPath, TypeOK, Making, Goto, Finish, MakeLocked
<1>5. OneMaker'
  <2>1. \A q \in Proc : Made(q)' => Made(q) /\ fd'[q] = fd[q]
    BY <1>4 DEF Made, Making
  <2> QED
    BY <1>4, <2>1, MakersStay
<1>6. PartsExplained'
  BY <1>4 DEF PartsExplained
<1>7. SeenExplained'
  BY <1>4 DEF SeenExplained, TypeOK
<1>8. LeftoversExplained'
  <2>1. \A q \in Proc : pc[q] = "done" => result'[q] = result[q]
    BY <1>4
  <2>2. \A q \in Proc, n \in Name : Creating(q, dir[n]) =>
           \/ Creating(q, dir[n])'
           \/ job[q] = [op |-> "begin", name |-> n] /\ result'[q] \in {"killed", "make_lock"}
    <3> SUFFICES ASSUME NEW n \in Name, Creating(p, dir[n]), pc'[p] = "done"
                 PROVE  job[p] = [op |-> "begin", name |-> n]
      BY <1>4 DEF Creating
    <3>1. Made(p) /\ job[p].name = n
      BY <1>4 DEF Creating, OneMaker, Made, Making
    <3> QED
      BY <1>4, <3>1 DEF TypeOK, Jobs
  <2> QED
    BY <1>4, <2>1, <2>2, LeftoversStay
<1> QED
  BY <1>1, <1>2, <1>3, <1>5, <1>6, <1>7, <1>8 DEF DirParts

\* Part of the session file is written under the exclusive lock.
LEMMA WriteKeeps ==
    ASSUME DirInv, LockInv', \A n \in Name : Ended(n) => Ended(n)',
           NEW p \in Proc, Write(p)
    PROVE  DirParts'
<1> USE DEF DirInv
<1>1. /\ UNCHANGED <<job, dir, fresh, listed, seen, cur, fd, found, result, torn>>
      /\ pc[p] = "write" /\ result[p] = "none" /\ job[p].op = "begin"
      /\ fd[p] \in File /\ fd[p] \notin fresh
      /\ pc'[p] \in {"write", "close"} /\ pc' \in [Proc -> PCs]
      /\ \A q \in Proc \ {p} : pc'[q] = pc[q]
  <2>1. /\ UNCHANGED <<job, dir, fresh, listed, seen, cur, fd, found, result, torn>>
        /\ pc[p] = "write" /\ (pc' = pc \/ pc' = [pc EXCEPT ![p] = "close"])
    BY DEF Write, Goto
  <2>2. result[p] = "none" /\ job[p].op = "begin"
    BY <2>1 DEF OnPath, Making
  <2>3. fd[p] \in File
    BY <2>1 DEF Locked, TypeOK, Making
  <2> QED
    BY <2>1, <2>2, <2>3 DEF OneMaker, TypeOK, PCs
<1>2. size' \in [File -> 0..Chunks] /\ \A f \in File : f # fd[p] => size'[f] = size[f]
  <2>1. CASE size' = size
    BY <2>1 DEF TypeOK
  <2>2. CASE size[fd[p]] < Chunks - 1 /\ size' = [size EXCEPT ![fd[p]] = @ + 1]
    <3>1. size[fd[p]] \in 0..Chunks
      BY <1>1 DEF TypeOK
    <3>2. size[fd[p]] + 1 \in 0..Chunks
      BY <2>2, <3>1, DirAssumption
    <3> QED
      BY <1>1, <2>2, <3>2 DEF TypeOK
  <2> QED
    BY <2>1, <2>2 DEF Write
<1>3. TypeOK'
  BY <1>1, <1>2 DEF TypeOK, LockInv
<1>4. OnPath'
  BY <1>1 DEF OnPath, Making, Loading
<1>5. Locked'
  BY DEF Locked, LockInv, LockTypeOK, TypeOK, Making, None, Goto, Write, unset_lock, lockVars
<1>6. OneMaker'
  <2>1. \A q \in Proc : Made(q)' => Made(q) /\ fd'[q] = fd[q]
    BY <1>1 DEF Made, Making
  <2>2. \A f \in fresh : size'[f] = size[f]
    BY <1>1, <1>2 DEF TypeOK
  <2> QED
    BY <1>1, <2>1, <2>2, MakersStay
<1>7. PartsExplained'
  <2>1. \A q \in Proc : pc[q] = "make_lock" => fd[q] # fd[p] /\ fd[q] \in File
    BY <1>1 DEF OneMaker, OnPath, Made, Making, TypeOK, Locked
  <2> QED
    BY <1>1, <1>2, <2>1 DEF PartsExplained
<1>8. SeenExplained'
  BY <1>1 DEF SeenExplained, TypeOK
<1>9. LeftoversExplained'
  <2>1. \A f \in File : size'[f] = size[f] \/ \E q \in Proc : Creating(q, f)'
    BY <1>1, <1>2 DEF Creating
  <2>2. \A q \in Proc, n \in Name : Creating(q, dir[n]) => Creating(q, dir[n])'
    BY <1>1 DEF Creating
  <2> QED
    BY <1>1, <2>1, <2>2, LeftoversStay
<1> QED
  BY <1>3, <1>4, <1>5, <1>6, <1>7, <1>8, <1>9 DEF DirParts

\* The creator closes its file: all of it is there, or the disk was full.
LEMMA CloseKeeps ==
    ASSUME DirInv, LockInv', \A n \in Name : Ended(n) => Ended(n)',
           NEW p \in Proc, Close(p)
    PROVE  DirParts'
<1> USE DEF DirInv
<1>1. /\ UNCHANGED <<lockVars, job, dir, fresh, listed, seen, cur, fd, found>>
      /\ pc[p] = "close" /\ result[p] = "none" /\ job[p].op = "begin"
      /\ fd[p] \in File /\ fd[p] \notin fresh
      /\ pc'[p] = "done" /\ result'[p] = "ok" /\ pc' \in [Proc -> PCs] /\ result' \in [Proc -> Results]
      /\ \A q \in Proc \ {p} : pc'[q] = pc[q] /\ result'[q] = result[q]
  <2>1. /\ UNCHANGED <<lockVars, job, dir, fresh, listed, seen, cur, fd, found>>
        /\ pc[p] = "close" /\ pc' = [pc EXCEPT ![p] = "done"]
        /\ result' = [result EXCEPT ![p] = "ok"]
    BY DEF Close, Finish, Goto
  <2>2. result[p] = "none" /\ job[p].op = "begin"
    BY <2>1 DEF OnPath, Making
  <2>3. fd[p] \in File
    BY <2>1 DEF Locked, TypeOK, Making
  <2> QED
    BY <2>1, <2>2, <2>3 DEF OneMaker, TypeOK, PCs, Results
<1>2. \/ size' = [size EXCEPT ![fd[p]] = Chunks] /\ torn' = torn
      \/ size' = size /\ torn' = torn \cup {fd[p]}
  BY DEF Close
<1>3. /\ size' \in [File -> 0..Chunks] /\ torn' \subseteq File /\ torn \subseteq torn'
      /\ \A f \in File : f # fd[p] => size'[f] = size[f]
      /\ size'[fd[p]] = Chunks \/ fd[p] \in torn'
  <2>1. Chunks \in 0..Chunks
    BY DirAssumption
  <2> QED
    BY <1>1, <1>2, <2>1 DEF TypeOK
<1>4. TypeOK'
  BY <1>1, <1>3 DEF TypeOK, LockInv
<1>5. OnPath'
  BY <1>1 DEF OnPath, Making, Loading
<1>6. Locked'
  BY <1>1 DEF Locked, Making, lockVars
<1>7. OneMaker'
  <2>1. \A q \in Proc : Made(q)' => Made(q) /\ fd'[q] = fd[q]
    BY <1>1 DEF Made, Making
  <2>2. \A f \in fresh : size'[f] = size[f]
    BY <1>1, <1>3 DEF TypeOK
  <2> QED
    BY <1>1, <2>1, <2>2, MakersStay
<1>8. PartsExplained'
  <2>1. \A q \in Proc : pc[q] = "make_lock" => fd[q] # fd[p] /\ fd[q] \in File
    BY <1>1 DEF OneMaker, OnPath, Made, Making, TypeOK, Locked
  <2>2. \A q \in Proc : pc'[q] = "make_lock" => size'[fd'[q]] = 0
    BY <1>1, <1>3, <2>1 DEF PartsExplained
  <2>3. Chunks \notin 1..(Chunks - 1)
    BY DirAssumption
  <2>4. \A f \in File : size'[f] \in 1..(Chunks - 1) => f \in torn' \/ f # fd[p]
    BY <1>3, <2>3
  <2> QED
    BY <1>1, <1>3, <2>2, <2>4 DEF PartsExplained
<1>9. SeenExplained'
  BY <1>1 DEF SeenExplained, TypeOK
<1>10. LeftoversExplained'
  <2>1. \A q \in Proc : pc[q] = "done" => result'[q] = result[q]
    BY <1>1
  <2>2. \A f \in File : size'[f] = size[f] \/ size'[f] = Chunks \/ f \in torn'
    BY <1>3
  <2>3. \A q \in Proc, n \in Name : Creating(q, dir[n]) =>
           Creating(q, dir[n])' \/ size'[dir[n]] = Chunks \/ dir[n] \in torn'
    BY <1>1, <1>3 DEF Creating
  <2> QED
    BY <1>1, <1>3, <2>1, <2>2, <2>3, LeftoversStay
<1> QED
  BY <1>4, <1>5, <1>6, <1>7, <1>8, <1>9, <1>10 DEF DirParts

\* The file of a session that was ended is removed.
LEMMA UnlinkKeeps ==
    ASSUME DirInv, LockInv', \A n \in Name : Ended(n) => Ended(n)',
           NEW p \in Proc, Unlink(p)
    PROVE  DirParts'
<1> USE DEF DirInv
<1>1. TypeOK'
  BY DEF TypeOK, LockInv, PCs, Results, Jobs, Goto, Finish, Unlink
<1>2. OnPath'
  BY DEF OnPath, TypeOK, Making, Loading, Goto, Finish, Unlink
<1>3. Locked'
  BY DEF Locked, TypeOK, Making, Goto, Finish, Unlink, lockVars
<1>4. /\ UNCHANGED <<job, size, fresh, listed, cur, fd, torn>>
      /\ pc[p] = "unlink" /\ result[p] = "none" /\ pc'[p] = "done"
      /\ job[p].op = "end" /\ job[p].name \in Name
      /\ \A q \in Proc \ {p} : pc'[q] = pc[q] /\ result'[q] = result[q]
  BY DEF OnPath, TypeOK, Jobs, Goto, Finish, Unlink
<1>5. \A n \in Name : dir'[n] = dir[n] \/ (dir'[n] = None /\ Ended(n)')
  <2> SUFFICES ASSUME dir[job[p].name] # None
               PROVE  \A n \in Name : dir'[n] = dir[n] \/ (dir'[n] = None /\ Ended(n)')
    BY DEF Unlink
  <2>1. dir' = [dir EXCEPT ![job[p].name] = None] /\ result'[p] = "ok"
    BY DEF Unlink, Finish, TypeOK
  <2>2. job'[p] = [op |-> "end", name |-> job[p].name]
    BY <1>4 DEF TypeOK, Jobs
  <2>3. \A n \in Name : n = job[p].name => Ended(n)'
    BY <2>1, <2>2 DEF Ended
  <2> QED
    BY <1>4, <2>1, <2>3 DEF TypeOK
<1>6. OneMaker'
  <2>1. \A q \in Proc : Made(q)' => Made(q) /\ fd'[q] = fd[q]
    BY <1>4 DEF Made, Making
  <2> QED
    BY <1>4, <1>5, <2>1, MakersStay
<1>7. PartsExplained'
  BY <1>4 DEF PartsExplained
<1>8. SeenExplained'
  <2>1. \A q \in Proc : listed[q] \subseteq Name /\ cur[q] \in Name
    BY DEF TypeOK
  <2>2. result'[p] # "vanished"
    BY DEF Unlink, Finish, TypeOK
  <2> QED
    BY <1>4, <1>5, <2>1, <2>2 DEF SeenExplained
<1>9. LeftoversExplained'
  <2>1. \A q \in Proc : pc[q] = "done" => result'[q] = result[q]
    BY <1>4
  <2>2. ASSUME NEW n \in Name, dir'[n] # None, size'[dir'[n]] < Chunks, dir'[n] \notin torn'
        PROVE  \/ \E q \in Proc : fd'[q] = dir'[n] /\ pc'[q] \in {"make_lock", "write", "close"}
               \/ \E q \in Proc : job'[q] = [op |-> "begin", name |-> n]
                                    /\ result'[q] \in {"killed", "make_lock"}
    <3>1. dir'[n] = dir[n]
      BY <1>5, <2>2
    <3>2. CASE \E q \in Proc : Creating(q, dir[n])
      BY <1>4, <3>1, <3>2 DEF Creating
    <3>3. CASE \E q \in Proc : job[q] = [op |-> "begin", name |-> n]
                                 /\ result[q] \in {"killed", "make_lock"}
      BY <1>4, <2>1, <3>3 DEF OnPath
    <3> QED
      BY <1>4, <2>2, <3>1, <3>2, <3>3 DEF LeftoversExplained
  <2> QED
    BY <2>2 DEF LeftoversExplained, Creating
<1> QED
  BY <1>1, <1>2, <1>3, <1>6, <1>7, <1>8, <1>9 DEF DirParts

\* A process is killed wherever it is; the system closes its file.
LEMMA KillKeeps ==
    ASSUME DirInv, LockInv', \A n \in Name : Ended(n) => Ended(n)',
           NEW p \in Proc, Kill(p)
    PROVE  DirParts'
<1> USE DEF DirInv
<1>1. TypeOK'
  BY DEF TypeOK, LockInv, PCs, Results, Goto, Finish, Kill
<1>2. OnPath'
  BY DEF OnPath, TypeOK, Making, Loading, Goto, Finish, Kill
<1>3. Locked'
  BY DEF Locked, LockInv, LockTypeOK, TypeOK, Making, None, Goto, Finish, Kill, Die
<1>4. /\ UNCHANGED <<job, dir, size, fresh, listed, cur, fd, torn>>
      /\ pc[p] # "done" /\ pc'[p] = "done" /\ result'[p] = "killed"
      /\ \A q \in Proc \ {p} : pc'[q] = pc[q] /\ result'[q] = result[q]
  BY DEF TypeOK, Goto, Finish, Kill
<1>5. OneMaker'
  <2>1. \A q \in Proc : Made(q)' => Made(q) /\ fd'[q] = fd[q]
    BY <1>4 DEF Made, Making
  <2> QED
    BY <1>4, <2>1, MakersStay
<1>6. PartsExplained'
  BY <1>4 DEF PartsExplained
<1>7. SeenExplained'
  BY <1>4 DEF SeenExplained, TypeOK
<1>8. LeftoversExplained'
  <2>1. \A q \in Proc : pc[q] = "done" => result'[q] = result[q]
    BY <1>4
  <2>2. \A q \in Proc, n \in Name : Creating(q, dir[n]) =>
           \/ Creating(q, dir[n])'
           \/ job[q] = [op |-> "begin", name |-> n] /\ result'[q] \in {"killed", "make_lock"}
    <3> SUFFICES ASSUME NEW n \in Name, Creating(p, dir[n])
                 PROVE  job[p] = [op |-> "begin", name |-> n]
      BY <1>4 DEF Creating
    <3>1. Made(p) /\ job[p].name = n /\ job[p].op = "begin"
      BY <1>4 DEF Creating, OnPath, OneMaker, Made, Making
    <3> QED
      BY <3>1 DEF TypeOK, Jobs
  <2> QED
    BY <1>4, <2>1, <2>2, LeftoversStay
<1> QED
  BY <1>1, <1>2, <1>3, <1>5, <1>6, <1>7, <1>8 DEF DirParts

-----------------------------------------------------------------------------
\* At the start nothing is being made, and every session is complete.
LEMMA DirInitially == Init => DirInv
<1> SUFFICES ASSUME Init PROVE DirInv
  OBVIOUS
<1>1. LockInv
  BY LockInitially DEF Init
<1>2. job \in [Proc -> Jobs]
  BY DirAssumption DEF Init
<1>3. PICK d \in [Name -> File \cup {None}] :
        /\ \A m, n \in Name : d[m] = d[n] /\ d[m] # None => m = n
        /\ dir = d
        /\ fresh = {f \in File : \A n \in Name : d[n] # f}
        /\ size = [f \in File |-> IF f \in fresh THEN 0 ELSE Chunks]
  BY DEF Init
<1>4. TypeOK
  <2>1. cur \in [Proc -> Name]
    BY <1>2 DEF Init, Jobs
  <2>2. found \in [Proc -> [Name -> File \cup {None}]]
    BY DEF Init
  <2>3. size \in [File -> 0..Chunks]
    BY <1>3, DirAssumption
  <2> QED
    BY <1>1, <1>2, <1>3, <2>1, <2>2, <2>3 DEF Init, TypeOK, LockInv, PCs, Results
<1>5. OnPath /\ Locked /\ SeenExplained
  BY <1>2, <1>4 DEF Init, LockInit, OnPath, Locked, SeenExplained, Making, Loading
<1>6. OneMaker
  <2>1. \A p \in Proc : ~Made(p)
    BY <1>2, <1>4 DEF Init, Made, Making
  <2>2. \A f \in fresh : f # None /\ f \in File
    BY <1>3, DirAssumption DEF None
  <2> QED
    BY <1>3, <2>1, <2>2 DEF Init, OneMaker
<1>7. PartsExplained
  BY <1>2, <1>3, <1>4, DirAssumption DEF Init, PartsExplained
<1>8. LeftoversExplained
  <2>1. \A n \in Name : dir[n] # None => dir[n] \in File /\ size[dir[n]] = Chunks
    BY <1>3
  <2> QED
    BY <2>1, DirAssumption DEF LeftoversExplained
<1> QED
  BY <1>1, <1>4, <1>5, <1>6, <1>7, <1>8 DEF DirInv

\* Every step keeps the invariant.
LEMMA DirInductive == DirInv /\ [Next]_vars => DirInv'
<1> SUFFICES ASSUME DirInv, [Next]_vars PROVE DirInv'
  OBVIOUS
<1>1. LockInv'
  BY LockSteps, LockInvNext DEF DirInv
<1>2. \A n \in Name : Ended(n) => Ended(n)'
  BY EndedStays DEF DirInv
<1>3. ASSUME NEW p \in Proc, Step(p) \/ Timeout(p) \/ Signal(p) \/ Kill(p) PROVE DirParts'
  BY <1>1, <1>2, <1>3, OpendirKeeps, ReaddirKeeps, StatEntryKeeps, LoadOpenKeeps,
     InSetLockKeeps, LoadLockedKeeps, ParseKeeps, UnlockKeeps, LoadedKeeps,
     MakeOpenKeeps, MakeLockedKeeps, WriteKeeps, CloseKeeps, StopKeeps, UnlinkKeeps,
     TimeoutKeeps, SignalKeeps, KillKeeps DEF Step
<1>4. CASE UNCHANGED vars
  <2>1. Locked'
    BY <1>4 DEF DirInv, Locked, vars, dirVars, lockVars
  <2> QED
    BY <1>1, <1>4, <2>1, LockingKeeps DEF DirInv, vars
<1> QED
  BY <1>1, <1>3, <1>4 DEF DirInv, DirParts, Next, Done

\* The invariant gives the properties.
LEMMA DirConsequences == DirInv => BegunSessionsKept
<1> SUFFICES ASSUME DirInv PROVE BegunSessionsKept
  OBVIOUS
<1>1. \A p \in Proc : job[p].op = "begin" /\ result[p] = "ok" => Made(p)
  BY DEF Made
<1>2. \A p \in Proc : job[p].name \in Name
  BY DEF DirInv, TypeOK, Jobs
<1> QED
  BY <1>1, <1>2 DEF DirInv, OneMaker, SeenExplained, BegunSessionsKept

\* A file that is read in part has lost its end, or its creator was at close or killed.
LEMMA TornReadStep == DirInv =>
    \A p \in Proc :
        pc[p] = "parse" /\ size[fd[p]] \in 1..(Chunks - 1)
          => \/ fd[p] \in torn
             \/ \E q \in Proc : fd[q] = fd[p] /\ job[q].op = "begin"
                  /\ (pc[q] = "close" \/ result[q] = "killed")
<1> SUFFICES ASSUME DirInv, NEW p \in Proc, pc[p] = "parse", size[fd[p]] \in 1..(Chunks - 1),
                    fd[p] \notin torn
             PROVE  \E q \in Proc : fd[q] = fd[p] /\ job[q].op = "begin"
                      /\ (pc[q] = "close" \/ result[q] = "killed")
  OBVIOUS
<1>1. fd[p] \in File /\ holds[fd[p]][p] = "shared"
  BY DEF DirInv, Locked, TypeOK
<1>2. PICK q \in Proc : /\ fd[q] = fd[p] /\ job[q].op = "begin"
                        /\ pc[q] \in {"write", "close"} \/ result[q] = "killed"
  BY <1>1 DEF DirInv, PartsExplained
<1>3. pc[q] # "write"
  \* It would hold the file alone.
  BY <1>1, <1>2 DEF DirInv, Locked, LockInv, WriterAlone
<1> QED
  BY <1>2, <1>3

-----------------------------------------------------------------------------
\* A process that writes or makes a session file is alone with it, and whichever
\* way set_lock ends, wherever SIGALRM, another signal, an error or death falls,
\* the process is left without timer and with its own handler of SIGALRM.
THEOREM LocksAreSafe == Spec => [](WriterAlone /\ AlarmRestored)
<1>1. DirInv => WriterAlone /\ AlarmRestored
  BY DEF DirInv, LockInv
<1> QED
  BY <1>1, DirInitially, DirInductive, PTL DEF Spec

\* Session files, processes and locks keep to their types.
THEOREM DirTypesHold == Spec => []TypeOK
<1>1. DirInv => TypeOK
  BY DEF DirInv
<1> QED
  BY <1>1, DirInitially, DirInductive, PTL DEF Spec

\* No begun session is lost or made twice, and none vanishes under a reader,
\* unless a process that found it has ended it.
THEOREM BegunSessionsAreKept == Spec => []BegunSessionsKept
  BY DirInitially, DirInductive, DirConsequences, PTL DEF Spec

\* Only a begin that was killed, could not lock or could not flush leaves an
\* incomplete session file behind.
THEOREM LeftoversAreExplained == Spec => []LeftoversExplained
<1>1. DirInv => LeftoversExplained
  BY DEF DirInv
<1> QED
  BY <1>1, DirInitially, DirInductive, PTL DEF Spec

\* A part of a session is read only from a file that was torn, or between its
\* maker's unlock and flush, or after its maker's death.
THEOREM TornReadsAreExplained == Spec => TornReadExplained
<1>1. DirInv /\ [Next]_vars =>
        [\A p \in Proc :
           pc[p] = "parse" /\ pc'[p] = "unlock" /\ size[fd[p]] \in 1..(Chunks - 1)
             => \/ fd[p] \in torn
                \/ \E q \in Proc : fd[q] = fd[p] /\ job[q].op = "begin"
                     /\ (pc[q] = "close" \/ result[q] = "killed")]_vars
  BY TornReadStep
<1> QED
  BY <1>1, DirInitially, DirInductive, PTL DEF Spec, TornReadExplained

-----------------------------------------------------------------------------
(***************************************************************************)
(* The count of ends: each file that is gone has one process that reports  *)
(* the end of its session.                                                 *)
(***************************************************************************)
CountInv ==
    /\ IsFiniteSet(Gone) /\ IsFiniteSet(Enders)
    /\ Cardinality(Enders) = Cardinality(Gone)

\* A session file goes by its one name, which the process gives back.
LEMMA UnlinkCounts ==
    ASSUME DirInv, CountInv, NEW p \in Proc, Unlink(p)
    PROVE  CountInv'
<1> USE DEF DirInv
<1> DEFINE n == job[p].name
<1>1. n \in Name /\ job[p].op = "end" /\ result[p] = "none" /\ UNCHANGED <<job, fresh>>
  BY DEF Unlink, OnPath, TypeOK, Jobs
<1>2. CASE dir[n] = None
  <2>1. UNCHANGED dir /\ result' = [result EXCEPT ![p] = "unlink"]
    BY <1>2 DEF Unlink, Finish
  <2>2. Enders' = Enders /\ Gone' = Gone
    BY <1>1, <2>1 DEF Enders, Gone, TypeOK
  <2> QED
    BY <2>2 DEF CountInv
<1>3. CASE dir[n] # None
  <2>1. dir' = [dir EXCEPT ![n] = None] /\ result' = [result EXCEPT ![p] = "ok"]
    BY <1>3 DEF Unlink, Finish
  <2>2. dir[n] \in File \ fresh /\ dir[n] \notin Gone
    BY <1>1, <1>3 DEF OneMaker, TypeOK, Gone
  <2>3. \A m \in Name : dir'[m] # dir[n]
    BY <1>1, <1>3, <2>1 DEF OneMaker, TypeOK
  <2>4. \A f \in File : f # dir[n] => ((\A m \in Name : dir'[m] # f) <=> (\A m \in Name : dir[m] # f))
    <3>1. None \notin File
      BY DirAssumption DEF None
    <3> QED
      BY <1>1, <2>1, <3>1 DEF TypeOK
  <2>5. Gone' = Gone \cup {dir[n]}
    BY <1>1, <2>2, <2>3, <2>4 DEF Gone
  <2>6. Enders' = Enders \cup {p} /\ p \notin Enders
    BY <1>1, <2>1 DEF Enders, TypeOK
  <2>7. IsFiniteSet(Gone') /\ Cardinality(Gone') = Cardinality(Gone) + 1
    BY <2>2, <2>5, FS_AddElement DEF CountInv
  <2>8. IsFiniteSet(Enders') /\ Cardinality(Enders') = Cardinality(Enders) + 1
    BY <2>6, FS_AddElement DEF CountInv
  <2> QED
    BY <2>7, <2>8 DEF CountInv
<1> QED
  BY <1>2, <1>3

\* A file that is made was fresh and has a name.
LEMMA MakeOpenCounts ==
    ASSUME DirInv, NEW p \in Proc, MakeOpen(p)
    PROVE  Gone' = Gone
<1> USE DEF DirInv
<1>1. None \notin File /\ job[p].name \in Name
  BY DirAssumption DEF None, TypeOK, Jobs
<1>2. CASE UNCHANGED <<dir, fresh>>
  BY <1>2 DEF Gone
<1>3. ASSUME NEW f \in fresh, dir[job[p].name] = None, fresh' = fresh \ {f},
             dir' = [dir EXCEPT ![job[p].name] = f]
      PROVE  Gone' = Gone
  <2>1. f \notin Gone /\ f \notin Gone'
    BY <1>1, <1>3 DEF Gone, TypeOK
  <2>2. \A g \in File : g # f => ((\A m \in Name : dir'[m] # g) <=> (\A m \in Name : dir[m] # g))
    BY <1>1, <1>3 DEF TypeOK
  <2> QED
    BY <1>3, <2>1, <2>2 DEF Gone
<1> QED
  BY <1>2, <1>3 DEF MakeOpen

\* No other step reports an end or changes the directory.
LEMMA OthersCount ==
    ASSUME DirInv, NEW p \in Proc,
           Step(p) \/ Timeout(p) \/ Signal(p) \/ Kill(p), ~Unlink(p)
    PROVE  Enders' = Enders /\ (MakeOpen(p) \/ Gone' = Gone)
<1> USE DEF DirInv
<1>1. UNCHANGED job
  BY DEF Step, Opendir, Readdir, StatEntry, LoadOpen, InSetLock, LoadLocked, Parse, Unlock,
     Loaded, MakeOpen, MakeLocked, Write, Close, Stop, Timeout, Signal, Kill, dirVars
<1>2. MakeOpen(p) \/ UNCHANGED <<dir, fresh>>
  BY DEF Step, Opendir, Readdir, StatEntry, LoadOpen, InSetLock, LoadLocked, Parse, Unlock,
     Loaded, MakeLocked, Write, Close, Stop, Timeout, Signal, Kill, dirVars
<1>3. \/ UNCHANGED result
      \/ /\ pc[p] # "done"
         /\ \E r \in Results : result' = [result EXCEPT ![p] = r] /\ (r = "ok" => job[p].op # "end")
  <2>1. CASE Opendir(p) \/ Readdir(p) \/ StatEntry(p) \/ InSetLock(p) \/ Unlock(p) \/ Write(p)
             \/ Timeout(p) \/ Signal(p)
    BY <2>1 DEF Opendir, Readdir, StatEntry, InSetLock, Unlock, Write, Timeout, Signal, dirVars
  <2>2. CASE LoadOpen(p) \/ LoadLocked(p) \/ Parse(p)
    BY <2>2 DEF LoadOpen, LoadLocked, Parse, Finish, Results
  <2>3. CASE Loaded(p)
    BY <2>3 DEF Loaded, Finish, Results
  <2>4. CASE MakeOpen(p) \/ MakeLocked(p)
    BY <2>4 DEF MakeOpen, MakeLocked, Finish, Results
  <2>5. CASE Close(p)
    BY <2>5 DEF Close, Finish, Results, OnPath, Making
  <2>6. CASE Stop(p) \/ Kill(p)
    BY <2>6 DEF Stop, Kill, Finish, Results
  <2> QED
    BY <2>1, <2>2, <2>3, <2>4, <2>5, <2>6 DEF Step
<1>4. pc[p] # "done" => result[p] # "ok"
  BY DEF OnPath
<1>5. Enders' = Enders
  BY <1>1, <1>3, <1>4 DEF Enders, TypeOK
<1> QED
  BY <1>2, <1>5 DEF Gone

\* Of the processes that race to end one session, at most one reports success.
THEOREM EndsAreCounted == Spec => []EndsCounted
<1>1. Init => CountInv
  <2> SUFFICES ASSUME Init PROVE CountInv
    OBVIOUS
  <2>1. Gone = {} /\ Enders = {}
    BY DEF Init, Gone, Enders
  <2> QED
    BY <2>1, FS_EmptySet DEF CountInv
<1>2. DirInv /\ CountInv /\ [Next]_vars => CountInv'
  <2> SUFFICES ASSUME DirInv, CountInv, [Next]_vars PROVE CountInv'
    OBVIOUS
  <2>1. ASSUME NEW p \in Proc, Step(p) \/ Timeout(p) \/ Signal(p) \/ Kill(p) PROVE CountInv'
    BY <2>1, UnlinkCounts, MakeOpenCounts, OthersCount DEF CountInv
  <2>2. CASE UNCHANGED vars
    BY <2>2 DEF vars, dirVars, CountInv, Gone, Enders
  <2> QED
    BY <2>1, <2>2 DEF Next, Done
<1>3. CountInv => EndsCounted
  BY FS_CardinalityType DEF CountInv, EndsCounted
<1> QED
  BY <1>1, <1>2, <1>3, DirInitially, DirInductive, PTL DEF Spec
=============================================================================
