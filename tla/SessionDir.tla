----------------------------- MODULE SessionDir -----------------------------
(***************************************************************************)
(* Several schroot processes and the directory of session files.  One that *)
(* lists or ends sessions loads the directory                              *)
(* (chroot_config::add_config_directory and load_data) and an end then     *)
(* removes a file; a begin, which does not load the sessions, creates one  *)
(* (chroot::setup_session_info).  One action per system call.              *)
(***************************************************************************)
EXTENDS FileLock, FiniteSets

CONSTANTS
    Name,     \* session names
    Chunks,   \* stream buffers a session file fills
    Work,     \* what the processes may be started for
    Faults    \* which of FaultKinds may happen

\* No space when the stream is flushed; fcntl without locks; SIGHUP, SIGINT or
\* SIGTERM during a begin, whose session handles them; SIGKILL; failing scripts.
FaultKinds == {"disk", "nolock", "signal", "kill", "scripts"}

None == 0

VARIABLES
    job,       \* [Proc -> [op, name]]: what each process was started for
    pc,
    dir,       \* [Name -> File \cup {None}]: the directory
    size,      \* [File -> 0..Chunks]: how much of a file is written
    fresh,     \* files (inodes) not used yet
    listed,    \* [Proc -> SUBSET Name]: the entries present at opendir
    seen,      \* [Proc -> SUBSET Name]: the entries iterated over
    cur,       \* [Proc -> Name]: the entry being loaded
    fd,        \* [Proc -> File \cup {None}]
    found,     \* [Proc -> [Name -> File \cup {None}]]: the sessions loaded
    result,    \* [Proc -> outcome]
    torn       \* SUBSET File: files whose last flush failed

dirVars == <<job, pc, dir, size, fresh, listed, seen, cur, fd, found, result, torn>>
vars == <<lockVars, dirVars>>

Jobs == [op : {"list", "begin", "end"}, name : Name]

ASSUME DirAssumption ==
    Chunks \in Nat \ {0} /\ File \subseteq Nat \ {0} /\ Work \subseteq [Proc -> Jobs]

PCs == {"opendir", "readdir", "stat", "load_open", "load_lock", "parse",
        "unlock", "loaded", "make_open", "make_lock", "write", "close", "stop",
        "unlink", "done"}

\* How a process came out: errors by the step that threw.
Results == {"none", "ok", "vanished", "load_lock", "parse", "not_found", "exists",
            "make_lock", "scripts", "unlink", "killed"}

TypeOK ==
    /\ LockTypeOK
    /\ job \in [Proc -> Jobs]
    /\ pc \in [Proc -> PCs]
    /\ dir \in [Name -> File \cup {None}]
    /\ size \in [File -> 0..Chunks]
    /\ fresh \subseteq File
    /\ listed \in [Proc -> SUBSET Name]
    /\ seen \in [Proc -> SUBSET Name]
    /\ cur \in [Proc -> Name]
    /\ fd \in [Proc -> File \cup {None}]
    /\ found \in [Proc -> [Name -> File \cup {None}]]
    /\ result \in [Proc -> Results]
    /\ torn \subseteq File

Present == {n \in Name : dir[n] # None}

\* Some sessions exist at the start, each in a file of its own.
Init ==
    /\ LockInit
    /\ job \in Work
    /\ pc = [p \in Proc |-> IF job[p].op = "begin" THEN "make_open" ELSE "opendir"]
    /\ \E d \in [Name -> File \cup {None}] :
         /\ \A m, n \in Name : d[m] = d[n] /\ d[m] # None => m = n
         /\ dir = d
         /\ fresh = {f \in File : \A n \in Name : d[n] # f}
         /\ size = [f \in File |-> IF f \in fresh THEN 0 ELSE Chunks]
    /\ listed = [p \in Proc |-> {}]
    /\ seen = [p \in Proc |-> {}]
    /\ cur \in [Proc -> {CHOOSE n \in Name : TRUE}]
    /\ fd = [p \in Proc |-> None]
    /\ found = [p \in Proc |-> [n \in Name |-> None]]
    /\ result = [p \in Proc |-> "none"]
    /\ torn = {}

Goto(p, l) == pc' = [pc EXCEPT ![p] = l]

Finish(p, r) ==
    /\ Goto(p, "done")
    /\ result' = [result EXCEPT ![p] = r]

-----------------------------------------------------------------------------
(* Loading the directory. *)

Opendir(p) ==
    /\ pc[p] = "opendir"
    /\ listed' = [listed EXCEPT ![p] = Present]
    /\ Goto(p, "readdir")
    /\ UNCHANGED <<lockVars, job, dir, size, fresh, seen, cur, fd, found, result, torn>>

\* readdir returns every entry that was there all the time, and may or may not
\* return one that came or went meanwhile.
Readdir(p) ==
    /\ pc[p] = "readdir"
    /\ \/ \E n \in (listed[p] \cup Present) \ seen[p] :
            /\ cur' = [cur EXCEPT ![p] = n]
            /\ seen' = [seen EXCEPT ![p] = @ \cup {n}]
            /\ Goto(p, "stat")
            /\ UNCHANGED listed
       \/ /\ listed[p] \cap Present \subseteq seen[p]
          /\ seen' = [seen EXCEPT ![p] = {}]
          /\ listed' = [listed EXCEPT ![p] = {}]
          /\ Goto(p, "loaded")
          /\ UNCHANGED cur
    /\ UNCHANGED <<lockVars, job, dir, size, fresh, fd, found, result, torn>>

\* The first stat: an entry that is gone is warned about and skipped.
StatEntry(p) ==
    /\ pc[p] = "stat"
    /\ Goto(p, IF dir[cur[p]] = None THEN "readdir" ELSE "load_open")
    /\ UNCHANGED <<lockVars, job, dir, size, fresh, listed, seen, cur, fd, found, result, torn>>

\* load_data stats the name again and then opens it; one that is gone by then
\* is an error nobody catches before main.  The second stat changes nothing, so
\* it is one step with the open.
LoadOpen(p) ==
    /\ pc[p] = "load_open"
    /\ IF dir[cur[p]] = None
       THEN Finish(p, "vanished") /\ UNCHANGED fd
       ELSE /\ fd' = [fd EXCEPT ![p] = dir[cur[p]]]
            /\ Goto(p, "load_lock")
            /\ UNCHANGED result
    /\ UNCHANGED <<lockVars, job, dir, size, fresh, listed, seen, cur, found, torn>>

\* The two places that take a lock, and the kind of lock they take.
LockWanted(p) == IF pc[p] = "load_lock" THEN "shared" ELSE "exclusive"

InSetLock(p) ==
    /\ pc[p] \in {"load_lock", "make_lock"}
    /\ \/ set_timer(p)
       \/ Grant(p, fd[p], LockWanted(p))
       \/ Block(p, fd[p], LockWanted(p))
       \/ "nolock" \in Faults /\ Refuse(p)
    /\ UNCHANGED dirVars

Timeout(p) == Alarm(p) /\ UNCHANGED dirVars

Signal(p) ==
    /\ "signal" \in Faults /\ pc[p] = "make_lock" /\ Interrupt(p)
    /\ UNCHANGED dirVars

\* set_lock returns, or throws and the stream that owns the fd closes it.
LoadLocked(p) ==
    /\ pc[p] = "load_lock" /\ unset_timer(p)
    /\ IF call[p] = "got"
       THEN Goto(p, "parse") /\ UNCHANGED <<fd, result>>
       ELSE Finish(p, "load_lock") /\ fd' = [fd EXCEPT ![p] = None]
    /\ UNCHANGED <<job, dir, size, fresh, listed, seen, cur, found, torn>>

\* An empty file holds no group and loads nothing.  A file cut between two
\* buffers either ends in half a line, which is an error, or lacks keys.
Parse(p) ==
    /\ pc[p] = "parse"
    /\ \/ /\ Goto(p, "unlock")
          /\ found' = IF size[fd[p]] = 0 THEN found
                      ELSE [found EXCEPT ![p][cur[p]] = fd[p]]
          /\ UNCHANGED result
       \/ /\ size[fd[p]] \in 1..(Chunks - 1)
          /\ Goto(p, "unlock") /\ result' = [result EXCEPT ![p] = "parse"]
          /\ UNCHANGED found
    /\ UNCHANGED <<lockVars, job, dir, size, fresh, listed, seen, cur, fd, torn>>

\* unset_lock, or the destructor when parsing threw; the stream then closes the
\* fd: after a load the next entry follows, after a write the file is flushed.
Unlock(p) ==
    /\ pc[p] = "unlock" /\ unset_lock(p, fd[p])
    /\ fd' = [fd EXCEPT ![p] = None]
    /\ Goto(p, IF result[p] = "none" THEN "readdir" ELSE "done")
    /\ UNCHANGED <<job, dir, size, fresh, listed, seen, cur, found, result, torn>>

\* The configuration is loaded; an end needs the session among it.
Loaded(p) ==
    /\ pc[p] = "loaded"
    /\ \/ job[p].op = "list" /\ Finish(p, "ok")
       \/ job[p].op = "end" /\ found[p][job[p].name] # None
            /\ Goto(p, "stop") /\ UNCHANGED result
       \/ job[p].op = "end" /\ found[p][job[p].name] = None /\ Finish(p, "not_found")
    /\ UNCHANGED <<lockVars, job, dir, size, fresh, listed, seen, cur, fd, found, torn>>

-----------------------------------------------------------------------------
(* setup_session_info(true): a session begins. *)

\* Mutant of MakeOpen: without O_EXCL an existing file is opened again.
MakeOpenShared(p) ==
    /\ pc[p] = "make_open"
    /\ \E f \in IF dir[job[p].name] # None THEN {dir[job[p].name]} ELSE fresh :
         /\ dir' = [dir EXCEPT ![job[p].name] = f]
         /\ fresh' = fresh \ {f}
         /\ fd' = [fd EXCEPT ![p] = f]
    /\ Goto(p, "make_lock")
    /\ UNCHANGED <<lockVars, job, size, listed, seen, cur, found, result, torn>>

\* open(O_CREAT|O_EXCL).  Bounded by the supply of fresh files.
MakeOpen(p) ==
    /\ pc[p] = "make_open"
    /\ \/ /\ dir[job[p].name] # None
          /\ Finish(p, "exists")
          /\ UNCHANGED <<dir, fresh, fd>>
       \/ /\ dir[job[p].name] = None
          /\ \E f \in fresh :
               /\ dir' = [dir EXCEPT ![job[p].name] = f]
               /\ fresh' = fresh \ {f}
               /\ fd' = [fd EXCEPT ![p] = f]
          /\ Goto(p, "make_lock")
          /\ UNCHANGED result
    /\ UNCHANGED <<lockVars, job, size, listed, seen, cur, found, torn>>

\* A failed lock is an error that leaves the empty file behind.
MakeLocked(p) ==
    /\ pc[p] = "make_lock" /\ unset_timer(p)
    /\ IF call[p] = "got"
       THEN Goto(p, "write") /\ UNCHANGED <<fd, result>>
       ELSE Finish(p, "make_lock") /\ fd' = [fd EXCEPT ![p] = None]
    /\ UNCHANGED <<job, dir, size, fresh, listed, seen, cur, found, torn>>

\* Mutant of Write: the lock is given up before the file is written.
WriteUnlocked(p) ==
    /\ pc[p] = "write"
    /\ \/ /\ size[fd[p]] < Chunks - 1 /\ holds[fd[p]][p] = "none"
          /\ size' = [size EXCEPT ![fd[p]] = @ + 1]
          /\ UNCHANGED <<lockVars, pc>>
       \/ /\ holds[fd[p]][p] # "none" /\ unset_lock(p, fd[p])
          /\ UNCHANGED <<size, pc>>
       \/ /\ size[fd[p]] = Chunks - 1 /\ holds[fd[p]][p] = "none"
          /\ Goto(p, "close") /\ UNCHANGED <<lockVars, size>>
    /\ UNCHANGED <<job, dir, fresh, listed, seen, cur, fd, found, result, torn>>

\* output << details: a full buffer goes to the file, the last one stays in the
\* stream; unset_lock follows.
Write(p) ==
    /\ pc[p] = "write"
    /\ \/ /\ size[fd[p]] < Chunks - 1
          /\ size' = [size EXCEPT ![fd[p]] = @ + 1]
          /\ UNCHANGED <<lockVars, pc>>
       \/ /\ size[fd[p]] = Chunks - 1
          /\ unset_lock(p, fd[p])
          /\ Goto(p, "close")
          /\ UNCHANGED size
    /\ UNCHANGED <<job, dir, fresh, listed, seen, cur, fd, found, result, torn>>

\* Mutant of Close: the last buffer is dropped.
CloseUnflushed(p) ==
    /\ pc[p] = "close"
    /\ Finish(p, "ok")
    /\ UNCHANGED <<lockVars, job, dir, size, fresh, listed, seen, cur, fd, found, torn>>

\* The stream is destroyed after the lock: the last buffer is written without
\* it, and nobody looks whether the write succeeded.
Close(p) ==
    /\ pc[p] = "close"
    /\ \/ size' = [size EXCEPT ![fd[p]] = Chunks] /\ UNCHANGED torn
       \/ "disk" \in Faults /\ torn' = torn \cup {fd[p]} /\ UNCHANGED size
    /\ Finish(p, "ok")
    /\ UNCHANGED <<lockVars, job, dir, fresh, listed, seen, cur, fd, found>>

-----------------------------------------------------------------------------
(* The end of a session: setup-stop, then setup_session_info(false). *)

\* Only if the scripts succeed is the file removed.
Stop(p) ==
    /\ pc[p] = "stop"
    /\ \/ Goto(p, "unlink") /\ UNCHANGED result
       \/ "scripts" \in Faults /\ Finish(p, "scripts")
    /\ UNCHANGED <<lockVars, job, dir, size, fresh, listed, seen, cur, fd, found, torn>>

\* Mutant of Unlink: a file that is gone already is no error.
UnlinkIfThere(p) ==
    /\ pc[p] = "unlink"
    /\ Finish(p, "ok") /\ dir' = [dir EXCEPT ![job[p].name] = None]
    /\ UNCHANGED <<lockVars, job, size, fresh, listed, seen, cur, fd, found, torn>>

Unlink(p) ==
    /\ pc[p] = "unlink"
    /\ IF dir[job[p].name] = None
       THEN Finish(p, "unlink") /\ UNCHANGED dir
       ELSE Finish(p, "ok") /\ dir' = [dir EXCEPT ![job[p].name] = None]
    /\ UNCHANGED <<lockVars, job, size, fresh, listed, seen, cur, fd, found, torn>>

Kill(p) ==
    /\ "kill" \in Faults /\ pc[p] # "done"
    /\ Die(p)
    /\ Finish(p, "killed")
    /\ UNCHANGED <<job, dir, size, fresh, listed, seen, cur, fd, found, torn>>

Step(p) ==
    \/ Opendir(p) \/ Readdir(p) \/ StatEntry(p) \/ LoadOpen(p)
    \/ InSetLock(p) \/ LoadLocked(p) \/ Parse(p) \/ Unlock(p) \/ Loaded(p)
    \/ MakeOpen(p) \/ MakeLocked(p) \/ Write(p) \/ Close(p) \/ Stop(p) \/ Unlink(p)

Done == (\A p \in Proc : pc[p] = "done") /\ UNCHANGED vars

Next == (\E p \in Proc : Step(p) \/ Timeout(p) \/ Signal(p) \/ Kill(p)) \/ Done

Spec == Init /\ [][Next]_vars

\* The kernel runs every process; whether a timer, a signal or a fault comes in
\* is left open.
LiveSpec == Spec /\ \A p \in Proc : WF_vars(Step(p))

(***************************************************************************)
(* Properties.                                                             *)
(***************************************************************************)
\* The file a process works on as creator, and whether it still does.
Creating(p, f) == fd[p] = f /\ pc[p] \in {"make_lock", "write", "close"}

\* The lock keeps readers from half-written files as far as it reaches: a
\* session is loaded from an incomplete file only if its creator has given up
\* the lock and not yet flushed, or died, or could not flush.
TornReadExplained ==
    [][\A p \in Proc :
         pc[p] = "parse" /\ pc'[p] = "unlock" /\ size[fd[p]] \in 1..(Chunks - 1)
           => \/ fd[p] \in torn
              \/ \E q \in Proc : fd[q] = fd[p] /\ job[q].op = "begin"
                   /\ (pc[q] = "close" \/ result[q] = "killed")]_vars

\* A file that stays incomplete once nobody works on it is the trace of a
\* begin that was killed, could not lock or could not flush: an orderly
\* interleaving of readers and writers leaves none.
LeftoversExplained ==
    \A n \in Name :
        dir[n] # None /\ size[dir[n]] < Chunks =>
          \/ dir[n] \in torn
          \/ \E p \in Proc : Creating(p, dir[n])
          \/ \E p \in Proc : job[p] = [op |-> "begin", name |-> n]
                               /\ result[p] \in {"killed", "make_lock"}

\* A process found a session of this name and removed its file.
Ended(n) == \E p \in Proc : job[p] = [op |-> "end", name |-> n] /\ result[p] = "ok"

\* One name, one session: two begins that both report success made different
\* files, the file of a begun session is still there unless a process that
\* found a session of that name has ended it, and a process that fails because
\* a session vanished under it owes that to such an end: begins, reads and
\* failed ends disturb nobody.
BegunSessionsKept ==
    \A p \in Proc :
        /\ job[p].op = "begin" /\ result[p] = "ok" =>
             /\ dir[job[p].name] = fd[p] \/ Ended(job[p].name)
             /\ \A q \in Proc \ {p} : job[q].op = "begin" /\ result[q] = "ok" => fd[q] # fd[p]
        /\ result[p] = "vanished" => Ended(cur[p])

\* The session files that were made and are gone.
Gone == {f \in File \ fresh : \A n \in Name : dir[n] # f}

\* The processes that report the end of a session.
Enders == {p \in Proc : job[p].op = "end" /\ result[p] = "ok"}

\* Nothing keeps two processes from ending one session at the same time: both
\* load its file, and both run setup-stop.  No more ends than there were
\* sessions report success, also when a name is used again between the loading
\* and the unlink: of those that race for a session, all but one have an error.
EndsCounted == Cardinality(Enders) <= Cardinality(Gone)

\* Every process comes to an end: nobody waits for a lock for ever, whether or
\* not its alarm is lost, as no holder waits while it holds.
AllDone == <>(\A p \in Proc : pc[p] = "done")
=============================================================================
