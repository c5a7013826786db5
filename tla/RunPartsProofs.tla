--------------------------- MODULE RunPartsProofs ---------------------------
(***************************************************************************)
(* Proofs about run_parts, for any finite directory, any writes and any    *)
(* number of faults: what run says of its scripts is true, and run_child   *)
(* kills no script by the way it reads.                                    *)
(***************************************************************************)
EXTENDS RunParts, FiniteSetTheorems, FunctionTheorems, TLAPS

N == Cardinality(Runnable)

(***************************************************************************)
(* The order of execution.                                                 *)
(***************************************************************************)
\* The rank of a name among the names that run: how many are not after it.
Rank == [n \in Runnable |-> Cardinality({m \in Runnable : m <= n})]

\* The directory is finite, and so is what runs of it.
LEMMA RunnableIsFinite == IsFiniteSet(Runnable) /\ N \in Nat /\ Runnable \subseteq Nat
<1>1. IsFiniteSet(Runnable)
  BY RunPartsAssumption, FS_Subset DEF Runnable
<1> QED
  BY <1>1, RunPartsAssumption, FS_CardinalityType DEF Runnable, N

\* A later name has the higher rank, and the ranks are 1 to N.
LEMMA RankIncreases ==
    /\ Rank \in [Runnable -> 1..N]
    /\ \A m, n \in Runnable : m < n => Rank[m] < Rank[n]
<1> DEFINE Upto(n) == {m \in Runnable : m <= n}
<1>1. \A n \in Runnable : IsFiniteSet(Upto(n)) /\ Cardinality(Upto(n)) \in Nat
                          /\ Cardinality(Upto(n)) <= N
  <2> TAKE n \in Runnable
  <2>1. Upto(n) \in SUBSET Runnable
    OBVIOUS
  <2> HIDE DEF Upto
  <2> QED
    BY <2>1, RunnableIsFinite, FS_Subset, FS_CardinalityType DEF N
<1>2. \A n \in Runnable : Cardinality(Upto(n)) # 0
  <2> TAKE n \in Runnable
  <2>1. n \in Upto(n)
    BY RunnableIsFinite
  <2> HIDE DEF Upto
  <2> QED
    BY <2>1, <1>1, FS_EmptySet
<1>3. \A m, n \in Runnable : m < n => Cardinality(Upto(m)) < Cardinality(Upto(n))
  <2> SUFFICES ASSUME NEW m \in Runnable, NEW n \in Runnable, m < n
               PROVE  Cardinality(Upto(m)) < Cardinality(Upto(n))
    OBVIOUS
  <2>0. m \in Nat /\ n \in Nat /\ \A k \in Runnable : k \in Nat
    BY RunnableIsFinite
  <2>1. Upto(m) \in SUBSET Upto(n) /\ n \in Upto(n) /\ n \notin Upto(m)
    <3>1. \A k \in Runnable : k <= m => k <= n
      BY <2>0
    <3>2. n <= n /\ ~(n <= m)
      BY <2>0
    <3> QED
      BY <3>1, <3>2
  <2> HIDE DEF Upto
  <2>2. Cardinality(Upto(m)) <= Cardinality(Upto(n))
        /\ Cardinality(Upto(m)) # Cardinality(Upto(n))
    BY <2>1, <1>1, FS_Subset
  <2> QED
    BY <2>2, <1>1
<1> QED
  BY <1>1, <1>2, <1>3, RunnableIsFinite DEF Rank

\* There is exactly that sorted set: programs is defined, and every name that
\* may run is in it once.
LEMMA ProgramsAreSorted ==
    /\ programs \in [1..N -> Runnable]
    /\ \A i, j \in 1..N : i < j => programs[i] < programs[j]
<1>1. Rank \in Injection(Runnable, 1..N)
  BY RankIncreases, RunnableIsFinite DEF Injection, IsInjective
<1>2. IsFiniteSet(1..N) /\ Cardinality(1..N) = N
  BY RunnableIsFinite, FS_Interval
<1>3. Rank \in Surjection(Runnable, 1..N)
  BY <1>1, <1>2, FS_Injection DEF N
<1>4. \A i \in 1..N : \E n \in Runnable : Rank[n] = i
  BY <1>3 DEF Surjection
<1> DEFINE p == [i \in 1..N |-> CHOOSE n \in Runnable : Rank[n] = i]
<1>5. \A i \in 1..N : p[i] \in Runnable /\ Rank[p[i]] = i
  BY <1>4
<1>6. p \in [1..N -> Runnable]
  BY <1>5
<1> HIDE DEF p
<1>7. \A i, j \in 1..N : i < j => p[i] < p[j]
  <2> SUFFICES ASSUME NEW i \in 1..N, NEW j \in 1..N, i < j, ~(p[i] < p[j])
               PROVE  FALSE
    OBVIOUS
  <2>0. i \in Nat /\ j \in Nat
    BY RunnableIsFinite
  <2>1. p[i] \in Nat /\ p[j] \in Nat /\ i \in Nat /\ j \in Nat
    <3>1. p[i] \in Runnable /\ p[j] \in Runnable
      BY <1>5
    <3> QED
      BY <3>1, <2>0, RunnableIsFinite
  <2>2. p[j] = p[i] \/ p[j] < p[i]
    BY <2>1
  <2>3. p[j] # p[i]
    BY <1>5, <2>1
  <2>4. Rank[p[j]] < Rank[p[i]]
    BY <2>2, <2>3, <1>5, RankIncreases
  <2> QED
    BY <2>4, <2>1, <1>5
<1> DEFINE Sorted(f) == \A i, j \in 1..N : i < j => f[i] < f[j]
<1>8. \E f \in [1..N -> Runnable] : Sorted(f)
  BY <1>6, <1>7
<1>9. programs = CHOOSE f \in [1..N -> Runnable] : Sorted(f)
  BY DEF programs, N
<1> HIDE DEF Sorted
<1>10. programs \in [1..N -> Runnable] /\ Sorted(programs)
  BY <1>8, <1>9
<1> QED
  BY <1>10 DEF Sorted

\* The order of execution, forwards or backwards, has every script once.
LEMMA OrderIsComplete ==
  ASSUME reverse \in BOOLEAN
  PROVE  /\ Len(programs) = N
         /\ Order \in [1..N -> Scripts]
         /\ \A i, j \in 1..N : i # j => Order[i] # Order[j]
         /\ \A n \in Scripts : \E i \in 1..N : Order[i] = n
<1>1. programs \in Seq(Runnable) /\ Len(programs) = N /\ DOMAIN programs = 1..N
  BY ProgramsAreSorted, RunnableIsFinite
<1>2. Scripts = {programs[i] : i \in 1..N}
  BY <1>1 DEF Scripts, ToSet
<1>3. \A i, j \in 1..N : i # j => programs[i] # programs[j]
  <2> SUFFICES ASSUME NEW i \in 1..N, NEW j \in 1..N, i # j
               PROVE  programs[i] # programs[j]
    OBVIOUS
  <2>1. programs[i] \in Nat /\ programs[j] \in Nat
    BY ProgramsAreSorted, RunnableIsFinite
  <2>2. i < j \/ j < i
    BY RunnableIsFinite
  <2> QED
    BY <2>1, <2>2, ProgramsAreSorted
<1>4. CASE ~reverse
  BY <1>1, <1>2, <1>3, <1>4, ProgramsAreSorted DEF Order
<1>5. CASE reverse
  <2>1. Order = [i \in 1..N |-> programs[(N - i) + 1]]
    BY <1>1, <1>5 DEF Order, Reverse
  <2>2. \A i \in 1..N : (N - i) + 1 \in 1..N /\ (N - ((N - i) + 1)) + 1 = i
    BY RunnableIsFinite
  <2>3. \A i, j \in 1..N : i # j => (N - i) + 1 # (N - j) + 1
    BY RunnableIsFinite
  <2>4. \A i \in 1..N : Order[i] = programs[(N - i) + 1] /\ Order[(N - i) + 1] = programs[i]
    BY <2>1, <2>2
  <2>5. Order \in [1..N -> Scripts]
    BY <2>1, <2>2, <1>2
  <2>6. \A i, j \in 1..N : i # j => Order[i] # Order[j]
    BY <2>4, <2>2, <2>3, <1>3
  <2>7. \A n \in Scripts : \E i \in 1..N : Order[i] = n
    BY <2>4, <2>2, <1>2
  <2> QED
    BY <1>1, <2>5, <2>6, <2>7
<1> QED
  BY <1>4, <1>5

(***************************************************************************)
(* The inductive invariant.                                                *)
(***************************************************************************)
\* What the history says of the script at work is what its process is, and
\* what wait_for_child made of it once it is reaped.
CurrentIsTrue ==
    /\ child = "none" <=> pos = 0
    /\ child = "running" => ended[Current] = Running
    /\ child = "exited" => ended[Current] = childStatus
    /\ child = "killed" => ended[Current] = Signal
    /\ child = "reaped" =>
         /\ ended[Current] \in (0..2) \cup {Signal}
         /\ exit_status = IF ended[Current] = Signal THEN 1 ELSE ended[Current]
    /\ pos = 0 => exit_status = 0

\* Where run and run_child are, and what the process is there.
PlaceIsTrue ==
    /\ pc \in {"poll", "err", "out", "wait"} => child \in {"running", "exited", "killed"}
    /\ pc \in {"next", "returned"} => child \in {"none", "reaped"}
    /\ pc = "returned" => Finished
    /\ (pc = "thrown" /\ child \notin {"none", "reaped"}) =>
         thrown \in {"POLL", "READ", "CHILD_WAIT"}

\* The scripts before the one at work.
EarlierIsTrue ==
    \A i \in 1..(pos - 1) :
        /\ ended[Order[i]] \notin {NotRun, Running}
        /\ abort_on_error => ended[Order[i]] = 0

\* What poll said of a stream still holds when it is read: a hang-up stays one,
\* and data stays in the pipe until run_child takes it.
PollIsTrue ==
    /\ pc \in {"err", "out"} =>
         /\ \E s \in Streams : revents[s] # {}
         /\ \A s \in Streams : "POLLHUP" \in revents[s] => writers[s] = {}
         /\ "POLLIN" \in revents["out"] => pipe["out"] # <<>>
    /\ (pc = "err" /\ "POLLIN" \in revents["err"]) => pipe["err"] # <<>>
    /\ (pc = "out" /\ "POLLIN" \in revents["err"]) => data["err"] > 0

\* While run_child reads, both streams are heard; it stops only at an error or
\* when a script that still runs has closed a stream.
HeardToTheEnd ==
    /\ pc \in {"poll", "err", "out"} => fds = Streams \X {"read"}
    /\ pc = "thrown" => faults > 0
    /\ (child = "running" /\ ~early) => \A s \in Streams : "script" \in writers[s]
    /\ (pc = "wait" /\ child = "running") => early

RunInv ==
    TypeOK /\ CurrentIsTrue /\ PlaceIsTrue /\ EarlierIsTrue /\ PollIsTrue
    /\ HeardToTheEnd /\ NotKilledByRelay

(***************************************************************************)
(* The types.                                                              *)
(***************************************************************************)
\* A read takes at most BUFSIZ, and something when there is something.
LEMMA TakenIsBounded ==
  ASSUME TypeOK, NEW s \in Streams
  PROVE  /\ pipe[s] \in Seq({"t", "n"})
         /\ Taken(s) \in Seq({"t", "n"}) /\ Len(Taken(s)) \in 0..BUFSIZ
         /\ Len(Taken(s)) <= Len(pipe[s])
         /\ pipe[s] # <<>> => Len(Taken(s)) > 0
<1>1. pipe[s] \in Seq({"t", "n"}) /\ BUFSIZ \in Nat /\ BUFSIZ > 0
  BY RunPartsAssumption DEF TypeOK
<1> DEFINE q == pipe[s]
<1> DEFINE l == IF Len(q) < BUFSIZ THEN Len(q) ELSE BUFSIZ
<1>2. Taken(s) = SubSeq(q, 1, l)
  BY DEF Taken
<1> HIDE DEF q
<1>3. l \in 0..Len(q) /\ l <= BUFSIZ /\ (Len(q) > 0 => l > 0) /\ l \in Nat
  BY <1>1 DEF q
<1>4. q # <<>> => Len(q) > 0
  BY <1>1 DEF q
<1> HIDE DEF l
<1>5. SubSeq(q, 1, l) \in Seq({"t", "n"}) /\ Len(SubSeq(q, 1, l)) = l
  BY <1>1, <1>3 DEF q
<1> QED
  BY <1>1, <1>2, <1>3, <1>4, <1>5 DEF q

\* What is left of a pipe when its beginning is taken.
LEMMA RestIsText ==
  ASSUME NEW q \in Seq({"t", "n"}), NEW l \in 0..Len(q)
  PROVE  SubSeq(q, l + 1, Len(q)) \in Seq({"t", "n"})
  OBVIOUS

\* The catch block keeps the types of what it touches.
LEMMA ThrowKeepsTypes ==
  ASSUME TypeOK, NEW e \in Errors, NEW u \in BOOLEAN, Throw(e, u)
  PROVE  /\ pc' \in {"next", "poll", "err", "out", "wait", "returned", "thrown"}
         /\ thrown' \in Errors \cup {"none"}
         /\ fds' \subseteq (Streams \X {"read", "write"}) /\ stray' \in BOOLEAN
         /\ writers' \in [Streams -> SUBSET {"parent", "script", "background"}]
         /\ exit_status' = exit_status /\ revents' = revents /\ data' = data
<1>1. \A s \in Streams : writers[s] \in SUBSET {"parent", "script", "background"}
  BY DEF TypeOK
<1>2. writers' = [s \in Streams |-> writers[s] \ {"parent"}]
  BY DEF Throw
<1>3. writers' \in [Streams -> SUBSET {"parent", "script", "background"}]
  BY <1>1, <1>2
<1> QED
  BY <1>3 DEF Throw, TypeOK

\* Every step keeps the types.
LEMMA TypeStep == TypeOK /\ [Next]_vars => TypeOK'
<1> SUFFICES ASSUME TypeOK, [Next]_vars
             PROVE  TypeOK'
  OBVIOUS
<1> USE DEF own, parent, process, history
<1>0. reverse \in BOOLEAN /\ Len(programs) = N /\ N \in Nat
  BY OrderIsComplete, RunnableIsFinite DEF TypeOK
<1>w. \A s \in Streams : writers[s] \in SUBSET {"parent", "script", "background"}
  BY DEF TypeOK
<1>e. \A n, v : v \in -3..2 => [ended EXCEPT ![n] = v] \in [Scripts -> -3..2]
  BY DEF TypeOK
<1>v. Running \in -3..2 /\ Signal \in -3..2 /\ 1 \in -3..2
  BY DEF Running, Signal
<1>1. CASE Return
  BY <1>1 DEF Return, TypeOK
<1>2. CASE Start
  <2>1. pos + 1 \in 0..Len(programs)
    BY <1>2, <1>0 DEF Start, Finished, TypeOK
  <2>2. ended' \in [Scripts -> -3..2]
    BY <1>2, <1>e, <1>v DEF Start
  <2>3. /\ fds' \subseteq (Streams \X {"read", "write"})
        /\ writers' \in [Streams -> SUBSET {"parent", "script", "background"}]
        /\ revents' \in [Streams -> SUBSET {"POLLIN", "POLLHUP"}]
    BY <1>2 DEF Start
  <2>4. data' \in [Streams -> 0..BUFSIZ] /\ pipe' \in [Streams -> Seq({"t", "n"})]
    BY <1>2, RunPartsAssumption DEF Start, Zero, Empty
  <2>5. pos' \in 0..Len(programs)
    BY <1>2, <2>1 DEF Start
  <2> QED
    BY <1>2, <2>2, <2>3, <2>4, <2>5 DEF Start, TypeOK
<1>3. CASE poll
  <2>1. revents' \in [Streams -> SUBSET {"POLLIN", "POLLHUP"}]
    BY <1>3 DEF poll, Ready
  <2>2. data' \in [Streams -> 0..BUFSIZ]
    BY <1>3, RunPartsAssumption DEF poll, Zero
  <2> QED
    BY <1>3, <2>1, <2>2 DEF poll, TypeOK
<1>4. CASE ReadErr
  <2> DEFINE q == pipe["err"]
  <2> DEFINE l == Len(Taken("err"))
  <2>1. q \in Seq({"t", "n"}) /\ l \in 0..BUFSIZ /\ l \in 0..Len(q)
    BY TakenIsBounded DEF Streams
  <2>2. SubSeq(q, l + 1, Len(q)) \in Seq({"t", "n"})
    BY <2>1, RestIsText
  <2>3. \/ data' = data /\ pipe' = pipe
        \/ data' = [data EXCEPT !["err"] = l]
           /\ pipe' = [pipe EXCEPT !["err"] = SubSeq(q, l + 1, Len(q))]
    BY <1>4 DEF ReadErr
  <2> HIDE DEF q, l
  <2>4. data' \in [Streams -> 0..BUFSIZ] /\ pipe' \in [Streams -> Seq({"t", "n"})]
    BY <2>1, <2>2, <2>3 DEF TypeOK
  <2> QED
    BY <1>4, <2>4 DEF ReadErr, TypeOK
<1>5. CASE ReadOut
  <2> DEFINE q == pipe["out"]
  <2> DEFINE got == IF "POLLIN" \in revents["out"] THEN Taken("out") ELSE <<>>
  <2>1. q \in Seq({"t", "n"}) /\ Len(got) \in 0..BUFSIZ /\ Len(got) \in 0..Len(q)
    <3>1. q \in Seq({"t", "n"}) /\ Len(Taken("out")) \in 0..BUFSIZ /\ Len(Taken("out")) \in 0..Len(q)
      BY TakenIsBounded DEF Streams
    <3>2. Len(<<>>) = 0 /\ 0 \in 0..BUFSIZ /\ 0 \in 0..Len(q)
      BY <3>1, RunPartsAssumption
    <3> QED
      BY <3>1, <3>2
  <2>2. SubSeq(q, Len(got) + 1, Len(q)) \in Seq({"t", "n"})
    BY <2>1, RestIsText
  <2>3. pipe' = [pipe EXCEPT !["out"] = SubSeq(q, Len(got) + 1, Len(q))]
    BY <1>5 DEF ReadOut
  <2>4. data' = Zero \/ data' = [data EXCEPT !["out"] = Len(got)]
    BY <1>5 DEF ReadOut
  <2>5. /\ revents' = revents \/ revents' = [s \in Streams |-> {}]
        /\ fds' = fds \/ fds' = {}
        /\ pc' \in {"wait", "poll"}
    BY <1>5 DEF ReadOut
  <2> HIDE DEF q, got
  <2>6. data' \in [Streams -> 0..BUFSIZ]
    <3>1. Zero \in [Streams -> 0..BUFSIZ]
      BY RunPartsAssumption DEF Zero
    <3>2. [data EXCEPT !["out"] = Len(got)] \in [Streams -> 0..BUFSIZ]
      BY <2>1 DEF TypeOK
    <3> QED
      BY <2>4, <3>1, <3>2
  <2>7. pipe' \in [Streams -> Seq({"t", "n"})]
    BY <2>2, <2>3 DEF TypeOK
  <2>8. revents' \in [Streams -> SUBSET {"POLLIN", "POLLHUP"}]
        /\ fds' \subseteq (Streams \X {"read", "write"})
    BY <2>5 DEF TypeOK
  <2>9. UNCHANGED <<own, faults, exit_status, thrown, stray, process, ended, early>>
    BY <1>5 DEF ReadOut
  <2> QED
    BY <2>5, <2>6, <2>7, <2>8, <2>9 DEF TypeOK
<1>6. CASE wait_for_child
  <2>1. exit_status' \in 0..2
    BY <1>6 DEF wait_for_child, WaitStatus, TypeOK
  <2> QED
    BY <1>6, <2>1 DEF wait_for_child, TypeOK
<1>7. ASSUME NEW e \in Errors, NEW u \in BOOLEAN, Throw(e, u), faults < MaxFaults,
             faults' = faults + 1, UNCHANGED <<own, pipe, child, childStatus, history>>
      PROVE  TypeOK'
  <2>1. faults' \in 0..MaxFaults
    BY <1>7, RunPartsAssumption DEF TypeOK
  <2> QED
    BY <1>7, <2>1, ThrowKeepsTypes DEF TypeOK
<1>8. CASE PipeFails \/ ForkFails \/ PollInterrupted \/ ReadFails \/ WaitFails
  BY <1>8, <1>7 DEF PipeFails, ForkFails, PollInterrupted, ReadFails, WaitFails, Errors
<1>9. CASE Killed
  <2>1. faults' \in 0..MaxFaults
    BY <1>9, RunPartsAssumption DEF Killed, TypeOK
  <2>2. writers' \in [Streams -> SUBSET {"parent", "script", "background"}]
    BY <1>9, <1>w DEF Killed
  <2>3. ended' \in [Scripts -> -3..2]
    BY <1>9, <1>e, <1>v DEF Killed
  <2> QED
    BY <1>9, <2>1, <2>2, <2>3 DEF Killed, TypeOK
<1>10. CASE BackgroundEnds
  <2>1. writers' \in [Streams -> SUBSET {"parent", "script", "background"}]
    BY <1>10, <1>w DEF BackgroundEnds
  <2> QED
    BY <1>10, <2>1 DEF BackgroundEnds, TypeOK
<1>11. ASSUME NEW status \in 0..2, Exit(status)
       PROVE  TypeOK'
  <2>1. writers' \in [Streams -> SUBSET {"parent", "script", "background"}]
    BY <1>11, <1>w DEF Exit
  <2>2. ended' \in [Scripts -> -3..2]
    BY <1>11, <1>e DEF Exit
  <2> QED
    BY <1>11, <2>1, <2>2 DEF Exit, TypeOK
<1>12. ASSUME NEW p \in {"script", "background"}, NEW s \in Streams, NEW c \in Chunks,
              Write(p, s, c)
       PROVE  TypeOK'
  <2>1. writers' \in [Streams -> SUBSET {"parent", "script", "background"}]
    <3>1. writers' = writers \/ writers' = [t \in Streams |-> writers[t] \ {p}]
      BY <1>12 DEF Write
    <3> QED
      BY <3>1, <1>w DEF TypeOK
  <2>2. ended' \in [Scripts -> -3..2]
    <3>1. ended' = ended \/ ended' = [ended EXCEPT ![Current] = Signal]
      BY <1>12 DEF Write
    <3> QED
      BY <3>1, <1>e, <1>v DEF TypeOK
  <2>3. pipe' \in [Streams -> Seq({"t", "n"})]
    <3>1. pipe' = pipe \/ pipe' = [pipe EXCEPT ![s] = pipe[s] \o c]
      BY <1>12 DEF Write
    <3>2. pipe[s] \o c \in Seq({"t", "n"})
      <4>1. pipe[s] \in Seq({"t", "n"}) /\ c \in Seq({"t", "n"})
        BY RunPartsAssumption DEF TypeOK
      <4> QED
        BY <4>1
    <3> QED
      BY <3>1, <3>2 DEF TypeOK
  <2>4. child' \in {child, "killed"}
    BY <1>12 DEF Write
  <2>5. UNCHANGED <<own, faults, parent, childStatus, early>>
    BY <1>12 DEF Write
  <2> QED
    BY <2>1, <2>2, <2>3, <2>4, <2>5 DEF TypeOK
<1>13. ASSUME NEW s \in Streams, CloseStream(s)
       PROVE  TypeOK'
  <2>1. writers' \in [Streams -> SUBSET {"parent", "script", "background"}]
    BY <1>13, <1>w DEF CloseStream, TypeOK
  <2> QED
    BY <1>13, <2>1 DEF CloseStream, TypeOK
<1>14. CASE Background
  <2>1. writers' \in [Streams -> SUBSET {"parent", "script", "background"}]
    BY <1>14, <1>w DEF Background
  <2> QED
    BY <1>14, <2>1 DEF Background, TypeOK
<1>15. CASE ExecFails
  <2>1. writers' \in [Streams -> SUBSET {"parent", "script", "background"}]
    BY <1>15 DEF ExecFails
  <2>2. ended' \in [Scripts -> -3..2]
    BY <1>15, <1>e, <1>v DEF ExecFails
  <2>3. pipe' \in [Streams -> Seq({"t", "n"})]
    <3>1. pipe' = pipe \/ pipe' = [pipe EXCEPT !["err"] = pipe["err"] \o <<"t", "n">>]
      BY <1>15 DEF ExecFails
    <3>2. pipe["err"] \o <<"t", "n">> \in Seq({"t", "n"})
      <4>1. pipe["err"] \in Seq({"t", "n"}) /\ <<"t", "n">> \in Seq({"t", "n"})
        BY DEF TypeOK, Streams
      <4> QED
        BY <4>1
    <3> QED
      BY <3>1, <3>2 DEF TypeOK
  <2>4. child' = "exited" /\ childStatus' = 1 /\ UNCHANGED <<own, faults, parent, early>>
    BY <1>15 DEF ExecFails
  <2> QED
    BY <2>1, <2>2, <2>3, <2>4 DEF TypeOK
<1>16. CASE UNCHANGED vars
  BY <1>16 DEF vars, TypeOK
<1> QED
  BY <1>1, <1>2, <1>3, <1>4, <1>5, <1>6, <1>8, <1>9, <1>10, <1>11, <1>12, <1>13, <1>14,
     <1>15, <1>16 DEF Next, Parent, Faults, Ends, Terminated

(***************************************************************************)
(* What run says of its scripts.                                           *)
(***************************************************************************)
\* The end of the script at work is written into its own entry, and into no
\* other script's.
LEMMA OnlyCurrentIsWritten ==
  ASSUME TypeOK, pos > 0, NEW v, ended' = [ended EXCEPT ![Current] = v]
  PROVE  /\ ended'[Current] = v
         /\ \A i \in 1..(pos - 1) : ended'[Order[i]] = ended[Order[i]]
<1>1. /\ pos \in 1..N /\ N \in Nat /\ Order \in [1..N -> Scripts]
      /\ \A i, j \in 1..N : i # j => Order[i] # Order[j]
  BY OrderIsComplete, RunnableIsFinite DEF TypeOK
<1>2. Current \in Scripts /\ ended'[Current] = v
  BY <1>1 DEF Current, TypeOK
<1>3. \A i \in 1..(pos - 1) : i \in 1..N /\ i # pos
  BY <1>1
<1>4. \A i \in 1..(pos - 1) : Order[i] \in Scripts /\ Order[i] # Current
  BY <1>1, <1>3 DEF Current
<1> QED
  BY <1>2, <1>4 DEF TypeOK

\* The order of execution does not change under way.
LEMMA OrderIsKept ==
  ASSUME reverse' = reverse, pos' = pos
  PROVE  Order' = Order /\ Current' = Current
  BY DEF Order, Current

\* Within the run of one script, the earlier ones' entries stay.
LEMMA EarlierKept ==
  ASSUME TypeOK, EarlierIsTrue, UNCHANGED own,
         \/ ended' = ended
         \/ pos > 0 /\ \E v : ended' = [ended EXCEPT ![Current] = v]
  PROVE  EarlierIsTrue'
<1>0. pos' = pos /\ reverse' = reverse /\ abort_on_error' = abort_on_error
  BY DEF own
<1>1. Order' = Order
  BY <1>0, OrderIsKept
<1>2. \A i \in 1..(pos - 1) : ended'[Order[i]] = ended[Order[i]]
  BY OnlyCurrentIsWritten
<1> QED
  BY <1>0, <1>1, <1>2 DEF EarlierIsTrue

\* A step that touches neither the process nor its account.
LEMMA CurrentKept ==
  ASSUME CurrentIsTrue, UNCHANGED <<own, ended, child, childStatus, exit_status>>
  PROVE  CurrentIsTrue'
<1>0. pos' = pos /\ reverse' = reverse /\ ended' = ended /\ child' = child
      /\ childStatus' = childStatus /\ exit_status' = exit_status
  BY DEF own
<1>1. Current' = Current
  BY <1>0, OrderIsKept
<1> QED
  BY <1>0, <1>1 DEF CurrentIsTrue

\* A script that ran comes to its end.
LEMMA CurrentEnds ==
  ASSUME TypeOK, CurrentIsTrue, UNCHANGED own, child = "running", NEW v,
         ended' = [ended EXCEPT ![Current] = v],
         \/ child' = "exited" /\ childStatus' = v
         \/ child' = "killed" /\ v = Signal
  PROVE  CurrentIsTrue' /\ pos > 0
<1>1. pos' = pos /\ pos > 0 /\ pos # 0
  BY DEF own, CurrentIsTrue, TypeOK
<1>2. Current' = Current
  BY OrderIsKept DEF own
<1>3. ended'[Current] = v
  BY <1>1, OnlyCurrentIsWritten
<1> QED
  BY <1>1, <1>2, <1>3 DEF CurrentIsTrue

\* Every step keeps the account of what ran and how it ended.
LEMMA AccountStep ==
  ASSUME TypeOK, CurrentIsTrue, PlaceIsTrue, EarlierIsTrue, [Next]_vars
  PROVE  CurrentIsTrue' /\ PlaceIsTrue' /\ EarlierIsTrue'
<1>1. CASE Return
  <2>1. UNCHANGED <<own, ended, child, childStatus, exit_status>>
    BY <1>1 DEF Return, process, history
  <2>2. Finished' /\ pc' = "returned" /\ child' \in {"none", "reaped"}
    BY <1>1, <2>1 DEF Return, Finished, own, PlaceIsTrue
  <2> QED
    BY <2>1, <2>2, CurrentKept, EarlierKept DEF PlaceIsTrue
<1>2. CASE Start
  <2>1. /\ pos \in Nat /\ pos' = pos + 1 /\ reverse' = reverse
        /\ abort_on_error' = abort_on_error /\ child' = "running" /\ pc' = "poll"
        /\ ended' = [ended EXCEPT ![Order[pos + 1]] = Running]
        /\ pos # Len(programs) /\ (exit_status = 0 \/ ~abort_on_error)
    BY <1>2 DEF Start, Finished, TypeOK
  <2>2. Order' = Order /\ Current' = Order[pos + 1]
    BY <2>1 DEF Order, Current
  <2>3. /\ N \in Nat /\ pos + 1 \in 1..N /\ Order \in [1..N -> Scripts]
        /\ \A i, j \in 1..N : i # j => Order[i] # Order[j]
    BY <2>1, OrderIsComplete, RunnableIsFinite DEF TypeOK
  <2>4. ended'[Order[pos + 1]] = Running
    BY <2>1, <2>3 DEF TypeOK
  <2>5. \A i \in 1..pos : i \in 1..N /\ i # pos + 1
    BY <2>1, <2>3
  <2>6. \A i \in 1..pos : ended'[Order[i]] = ended[Order[i]]
    BY <2>1, <2>3, <2>5 DEF TypeOK
  <2>7. CurrentIsTrue'
    <3>1. pos' # 0 /\ child' = "running"
      BY <2>1
    <3> QED
      BY <3>1, <2>2, <2>4 DEF CurrentIsTrue
  <2>8. PlaceIsTrue'
    BY <2>1 DEF PlaceIsTrue
  <2>9. pos > 0 => /\ ended[Order[pos]] \in (0..2) \cup {Signal}
                   /\ abort_on_error => ended[Order[pos]] = 0
    <3> SUFFICES ASSUME pos > 0
                 PROVE  /\ ended[Order[pos]] \in (0..2) \cup {Signal}
                        /\ abort_on_error => ended[Order[pos]] = 0
      OBVIOUS
    <3>1. child = "reaped"
      BY <1>2, <2>1 DEF Start, PlaceIsTrue, CurrentIsTrue
    <3> QED
      BY <3>1, <2>1 DEF CurrentIsTrue, Current
  <2>10. \A i \in 1..pos : /\ ended[Order[i]] \notin {NotRun, Running}
                           /\ abort_on_error => ended[Order[i]] = 0
    <3> TAKE i \in 1..pos
    <3>1. CASE i = pos
      BY <3>1, <2>1, <2>9 DEF NotRun, Running, Signal
    <3>2. CASE i # pos
      <4>1. i \in 1..(pos - 1)
        BY <3>2, <2>1
      <4> QED
        BY <4>1 DEF EarlierIsTrue
    <3> QED
      BY <3>1, <3>2
  <2>11. EarlierIsTrue'
    <3>1. \A i \in 1..pos : /\ ended'[Order'[i]] \notin {NotRun, Running}
                            /\ abort_on_error' => ended'[Order'[i]] = 0
      BY <2>1, <2>2, <2>6, <2>10
    <3>2. pos' = pos + 1 /\ pos \in Nat
      BY <2>1
    <3> QED
      BY <3>1, <3>2 DEF EarlierIsTrue
  <2> QED
    BY <2>7, <2>8, <2>11
<1>3. CASE poll \/ ReadErr \/ ReadOut
  <2>1. UNCHANGED <<own, ended, child, childStatus, exit_status>>
        /\ pc \in {"poll", "err", "out"} /\ pc' \in {"poll", "err", "out", "wait"}
    BY <1>3 DEF poll, ReadErr, ReadOut, process, history
  <2> QED
    BY <2>1, CurrentKept, EarlierKept DEF PlaceIsTrue
<1>4. CASE wait_for_child
  <2>1. /\ UNCHANGED <<own, ended>> /\ pos' = pos /\ child \in {"exited", "killed"}
        /\ child' = "reaped" /\ exit_status' = (IF child = "exited" THEN childStatus ELSE 1)
        /\ pc' = "next" /\ childStatus \in 0..2
    BY <1>4 DEF wait_for_child, WaitStatus, own, history, TypeOK
  <2>2. Current' = Current
    BY <2>1, OrderIsKept DEF own
  <2>3. pos # 0
    BY <2>1 DEF CurrentIsTrue
  <2>4. \A v \in 0..2 : v # Signal
    BY DEF Signal
  <2>5. CurrentIsTrue'
    BY <2>1, <2>2, <2>3, <2>4 DEF CurrentIsTrue
  <2> QED
    BY <2>1, <2>5, EarlierKept DEF PlaceIsTrue
<1>5. CASE PipeFails \/ ForkFails
  <2>1. UNCHANGED <<own, ended, child, childStatus, exit_status>> /\ pc = "next"
        /\ pc' = "thrown"
    BY <1>5 DEF PipeFails, ForkFails, Throw, history
  <2> QED
    BY <2>1, CurrentKept, EarlierKept DEF PlaceIsTrue
<1>6. CASE PollInterrupted \/ ReadFails \/ WaitFails
  <2>1. UNCHANGED <<own, ended, child, childStatus, exit_status>>
        /\ pc' = "thrown" /\ thrown' \in {"POLL", "READ", "CHILD_WAIT"}
    BY <1>6 DEF PollInterrupted, ReadFails, WaitFails, Throw, history
  <2> QED
    BY <2>1, CurrentKept, EarlierKept DEF PlaceIsTrue
<1>7. ASSUME NEW v, child = "running", ended' = [ended EXCEPT ![Current] = v],
             UNCHANGED <<own, parent>>,
             \/ child' = "exited" /\ childStatus' = v
             \/ child' = "killed" /\ v = Signal
      PROVE  CurrentIsTrue' /\ PlaceIsTrue' /\ EarlierIsTrue'
  <2>1. CurrentIsTrue' /\ pos > 0
    BY <1>7, CurrentEnds
  <2>2. EarlierIsTrue'
    BY <1>7, <2>1, EarlierKept
  <2>3. PlaceIsTrue'
    BY <1>7 DEF PlaceIsTrue, parent
  <2> QED
    BY <2>1, <2>2, <2>3
<1>8. CASE Killed
  BY <1>8, <1>7 DEF Killed
<1>9. ASSUME NEW status \in 0..2, Exit(status)
      PROVE  CurrentIsTrue' /\ PlaceIsTrue' /\ EarlierIsTrue'
  BY <1>9, <1>7 DEF Exit
<1>10. CASE ExecFails
  BY <1>10, <1>7 DEF ExecFails
<1>11. ASSUME UNCHANGED <<own, parent, ended, child, childStatus>>
       PROVE  CurrentIsTrue' /\ PlaceIsTrue' /\ EarlierIsTrue'
  <2>1. UNCHANGED <<own, ended, child, childStatus, exit_status>>
    BY <1>11 DEF parent
  <2>2. Finished' = Finished /\ pc' = pc /\ child' = child /\ thrown' = thrown
    BY <1>11 DEF Finished, own, parent
  <2> QED
    BY <2>1, <2>2, CurrentKept, EarlierKept DEF PlaceIsTrue
<1>12. CASE BackgroundEnds \/ Background
  BY <1>12, <1>11 DEF BackgroundEnds, Background, history
<1>13. ASSUME NEW s \in Streams, CloseStream(s)
       PROVE  CurrentIsTrue' /\ PlaceIsTrue' /\ EarlierIsTrue'
  BY <1>13, <1>11 DEF CloseStream
<1>14. ASSUME NEW p \in {"script", "background"}, NEW s \in Streams, NEW c \in Chunks,
              Write(p, s, c)
       PROVE  CurrentIsTrue' /\ PlaceIsTrue' /\ EarlierIsTrue'
  <2>1. \/ UNCHANGED <<ended, child>>
        \/ /\ child = "running" /\ child' = "killed"
           /\ ended' = [ended EXCEPT ![Current] = Signal]
    BY <1>14 DEF Write
  <2>2. UNCHANGED <<own, parent, childStatus>>
    BY <1>14 DEF Write
  <2> QED
    BY <2>1, <2>2, <1>7, <1>11
<1>15. CASE UNCHANGED vars
  BY <1>15, <1>11 DEF vars, process, history
<1> QED
  BY <1>1, <1>2, <1>3, <1>4, <1>5, <1>6, <1>8, <1>9, <1>10, <1>12, <1>13, <1>14, <1>15
  DEF Next, Parent, Faults, Ends, Terminated

(***************************************************************************)
(* What run_child hears.                                                   *)
(***************************************************************************)
\* poll's answer is true of the streams when it is read: a step of a script
\* takes nothing from a pipe, and gives nobody a write end that is not held.
LEMMA PollKept ==
  ASSUME TypeOK, TypeOK', PollIsTrue, UNCHANGED parent,
         \A s \in Streams : writers[s] = {} => writers'[s] = {},
         \A s \in Streams : pipe[s] # <<>> => pipe'[s] # <<>>
  PROVE  PollIsTrue'
  BY DEF PollIsTrue, parent, Streams

\* Every step keeps what poll reported about the two pipes true.
LEMMA PollStep ==
  ASSUME TypeOK, TypeOK', PollIsTrue, [Next]_vars
  PROVE  PollIsTrue'
<1>1. CASE Return \/ Start \/ wait_for_child \/ PipeFails \/ ForkFails \/ PollInterrupted
           \/ ReadFails \/ WaitFails
  <2>1. pc' \notin {"err", "out"}
    BY <1>1 DEF Return, Start, wait_for_child, PipeFails, ForkFails, PollInterrupted,
                ReadFails, WaitFails, Throw
  <2> QED
    BY <2>1 DEF PollIsTrue
<1>2. CASE poll
  <2>1. /\ pc' = "err" /\ pipe' = pipe /\ writers' = writers
        /\ \A s \in Streams : revents'[s] = Ready(s)
        /\ \E s \in Streams : Ready(s) # {}
    BY <1>2 DEF poll, process
  <2>2. \A s \in Streams : /\ "POLLHUP" \in Ready(s) => writers[s] = {}
                           /\ "POLLIN" \in Ready(s) => pipe[s] # <<>>
    BY DEF Ready
  <2>3. \A s \in Streams : /\ "POLLHUP" \in revents'[s] => writers'[s] = {}
                           /\ "POLLIN" \in revents'[s] => pipe'[s] # <<>>
    BY <2>1, <2>2
  <2>4. \E s \in Streams : revents'[s] # {}
    BY <2>1
  <2>5. "out" \in Streams /\ "err" \in Streams
    BY DEF Streams
  <2>6. pc' = "err" /\ pc' # "out"
    BY <2>1
  <2> QED
    BY <2>3, <2>4, <2>5, <2>6 DEF PollIsTrue
<1>3. CASE ReadErr
  <2>1. /\ pc = "err" /\ pc' = "out" /\ revents' = revents /\ writers' = writers
        /\ pipe'["out"] = pipe["out"]
    BY <1>3 DEF ReadErr, process, TypeOK, Streams
  <2>2. "POLLIN" \in revents["err"] => data'["err"] > 0
    <3> SUFFICES ASSUME "POLLIN" \in revents["err"]
                 PROVE  data'["err"] > 0
      OBVIOUS
    <3>1. data' = [data EXCEPT !["err"] = Len(Taken("err"))]
      BY <1>3 DEF ReadErr
    <3>2. data'["err"] = Len(Taken("err"))
      BY <3>1 DEF TypeOK, Streams
    <3>3. pipe["err"] # <<>>
      BY <2>1 DEF PollIsTrue
    <3> QED
      BY <3>2, <3>3, TakenIsBounded DEF Streams
  <2> QED
    BY <2>1, <2>2 DEF PollIsTrue
<1>4. CASE ReadOut
  <2>1. pc' \in {"poll", "wait"}
    BY <1>4 DEF ReadOut
  <2> QED
    BY <2>1 DEF PollIsTrue
<1>5. ASSUME UNCHANGED <<parent, pipe>>,
             \A s \in Streams : writers[s] = {} => writers'[s] = {}
      PROVE  PollIsTrue'
  BY <1>5, PollKept
<1>6. CASE Killed
  BY <1>6, <1>5 DEF Killed
<1>7. CASE BackgroundEnds
  BY <1>7, <1>5 DEF BackgroundEnds
<1>8. ASSUME NEW status \in 0..2, Exit(status)
      PROVE  PollIsTrue'
  BY <1>8, <1>5 DEF Exit
<1>9. CASE Background
  BY <1>9, <1>5 DEF Background
<1>10. ASSUME NEW s \in Streams, CloseStream(s)
       PROVE  PollIsTrue'
  <2>1. UNCHANGED <<parent, pipe>> /\ writers' = [writers EXCEPT ![s] = @ \ {"script"}]
    BY <1>10 DEF CloseStream
  <2>2. \A t \in Streams : writers[t] = {} => writers'[t] = {}
    BY <2>1 DEF TypeOK
  <2> QED
    BY <2>1, <2>2, <1>5
<1>11. CASE ExecFails
  <2>1. UNCHANGED parent /\ \A s \in Streams : writers'[s] = {}
    BY <1>11 DEF ExecFails
  <2>2. pipe' = pipe \/ pipe' = [pipe EXCEPT !["err"] = pipe["err"] \o <<"t", "n">>]
    BY <1>11 DEF ExecFails
  <2>3. pipe["err"] \o <<"t", "n">> # <<>>
    <3>1. pipe["err"] \in Seq({"t", "n"}) /\ <<"t", "n">> \in Seq({"t", "n"})
      BY DEF TypeOK, Streams
    <3> QED
      BY <3>1
  <2>4. \A s \in Streams : pipe[s] # <<>> => pipe'[s] # <<>>
    BY <2>2, <2>3 DEF TypeOK
  <2> QED
    BY <2>1, <2>4, PollKept
<1>12. ASSUME NEW p \in {"script", "background"}, NEW s \in Streams, NEW c \in Chunks,
              Write(p, s, c)
       PROVE  PollIsTrue'
  <2>1. UNCHANGED parent
        /\ (pipe' = pipe \/ pipe' = [pipe EXCEPT ![s] = pipe[s] \o c])
        /\ (writers' = writers \/ writers' = [t \in Streams |-> writers[t] \ {p}])
    BY <1>12 DEF Write
  <2>2. pipe[s] \o c # <<>>
    <3>1. pipe[s] \in Seq({"t", "n"}) /\ c \in Seq({"t", "n"}) /\ c # <<>>
      BY RunPartsAssumption DEF TypeOK
    <3> QED
      BY <3>1
  <2>3. \A t \in Streams : pipe[t] # <<>> => pipe'[t] # <<>>
    BY <2>1, <2>2 DEF TypeOK
  <2>4. \A t \in Streams : writers[t] = {} => writers'[t] = {}
    BY <2>1
  <2> QED
    BY <2>1, <2>3, <2>4, PollKept
<1>13. CASE UNCHANGED vars
  BY <1>13, <1>5 DEF vars, process
<1> QED
  BY <1>1, <1>2, <1>3, <1>4, <1>6, <1>7, <1>8, <1>9, <1>10, <1>11, <1>12, <1>13
  DEF Next, Parent, Faults, Ends, Terminated

\* "pipes closed": run_child stops reading when neither read gave anything, and
\* poll then said that a stream has no writer left.
LEMMA ClosedMeansHangUp ==
  ASSUME TypeOK, PollIsTrue, ReadOut, pc' # "poll"
  PROVE  \E s \in Streams : writers[s] = {}
<1> DEFINE got == IF "POLLIN" \in revents["out"] THEN Taken("out") ELSE <<>>
<1> DEFINE now == [data EXCEPT !["out"] = Len(got)]
<1>1. pc = "out" /\ (~Closed(now) => pc' = "poll")
  BY DEF ReadOut
<1>2. \A s \in Streams : now[s] = 0
  BY <1>1 DEF Closed
<1>3. now["err"] = data["err"] /\ now["out"] = Len(got)
  BY DEF TypeOK, Streams
<1> HIDE DEF now
<1>4. data["err"] = 0 /\ Len(got) = 0
  BY <1>2, <1>3 DEF Streams
<1>5. "POLLIN" \notin revents["err"]
  BY <1>1, <1>4 DEF PollIsTrue
<1>6. "POLLIN" \notin revents["out"]
  <2> SUFFICES ASSUME "POLLIN" \in revents["out"]
               PROVE  FALSE
    OBVIOUS
  <2>1. pipe["out"] # <<>> /\ Len(Taken("out")) = 0
    BY <1>1, <1>4 DEF PollIsTrue
  <2>2. Len(Taken("out")) > 0
    BY <2>1, TakenIsBounded DEF Streams
  <2> QED
    BY <2>1, <2>2
<1>7. PICK s \in Streams : revents[s] # {}
  BY <1>1 DEF PollIsTrue
<1>8. "POLLHUP" \in revents[s]
  <2>1. revents[s] \in SUBSET {"POLLIN", "POLLHUP"} /\ "POLLIN" \notin revents[s]
    BY <1>5, <1>6 DEF TypeOK, Streams
  <2> QED
    BY <2>1, <1>7
<1> QED
  BY <1>1, <1>8 DEF PollIsTrue

\* The relay kills nobody.  A write that nobody hears is one after an error, or
\* after "pipes closed", which a script that still runs has brought about itself.
LEMMA HeardStep ==
  ASSUME TypeOK, TypeOK', CurrentIsTrue, PlaceIsTrue, PollIsTrue, HeardToTheEnd,
         NotKilledByRelay, [Next]_vars
  PROVE  HeardToTheEnd' /\ NotKilledByRelay'
<1>0. pos \in Nat /\ faults \in Nat /\ early \in BOOLEAN /\ faults' \in Nat
  BY RunPartsAssumption, OrderIsComplete, RunnableIsFinite DEF TypeOK
<1>1. ASSUME UNCHANGED <<own, ended, early>>, faults' >= faults
      PROVE  NotKilledByRelay'
  <2>1. Current' = Current /\ pos' = pos /\ ended' = ended /\ early' = early
    BY <1>1, OrderIsKept DEF own
  <2>2. faults > 0 => faults' > 0
    BY <1>0, <1>1
  <2> QED
    BY <2>1, <2>2 DEF NotKilledByRelay
<1>2. CASE Return
  <2>1. /\ UNCHANGED <<own, ended, early, faults, child, writers>> /\ pc' = "returned"
        /\ pc = "next"
    BY <1>2 DEF Return, process, history
  <2>2. HeardToTheEnd'
    BY <2>1 DEF HeardToTheEnd
  <2> QED
    BY <2>1, <2>2, <1>0, <1>1
<1>3. CASE Start
  <2>1. /\ pc' = "poll" /\ fds' = Streams \X {"read"} /\ pos' = pos + 1
        /\ reverse' = reverse
        /\ writers' = [s \in Streams |-> {"script"}]
        /\ ended' = [ended EXCEPT ![Order[pos + 1]] = Running]
    BY <1>3 DEF Start
  <2>2. HeardToTheEnd'
    BY <2>1 DEF HeardToTheEnd
  <2>3. Order' = Order /\ Current' = Order[pos + 1]
    BY <2>1 DEF Order, Current
  <2>4. Order[pos + 1] \in Scripts
    <3>1. pos # Len(programs)
      BY <1>3 DEF Start, Finished
    <3>2. pos + 1 \in 1..N /\ Order \in [1..N -> Scripts]
      BY <3>1, OrderIsComplete, RunnableIsFinite DEF TypeOK
    <3> QED
      BY <3>2
  <2>5. ended'[Current'] = Running
    BY <2>1, <2>3, <2>4 DEF TypeOK
  <2>6. ended'[Current'] # Signal
    BY <2>5 DEF Running, Signal
  <2> QED
    BY <2>2, <2>6 DEF NotKilledByRelay
<1>4. CASE poll \/ ReadErr
  <2>1. /\ UNCHANGED <<own, ended, early, faults, fds, child, writers>>
        /\ pc \in {"poll", "err"} /\ pc' \in {"err", "out"}
    BY <1>4 DEF poll, ReadErr, process, history
  <2>2. HeardToTheEnd'
    BY <2>1 DEF HeardToTheEnd
  <2> QED
    BY <2>1, <2>2, <1>0, <1>1
<1>5. CASE ReadOut
  <2>1. /\ UNCHANGED <<own, ended, early, faults, child, writers>>
        /\ pc = "out" /\ pc' \in {"poll", "wait"}
    BY <1>5 DEF ReadOut, process, history
  <2>2. pc' = "poll" => fds' = fds
    BY <1>5 DEF ReadOut
  <2>3. (pc' = "wait" /\ child = "running") => early
    <3> SUFFICES ASSUME pc' = "wait", child = "running", ~early
                 PROVE  FALSE
      BY <1>0
    <3>1. PICK s \in Streams : writers[s] = {}
      BY <1>5, ClosedMeansHangUp
    <3> QED
      BY <3>1 DEF HeardToTheEnd
  <2>4. HeardToTheEnd'
    BY <2>1, <2>2, <2>3 DEF HeardToTheEnd
  <2> QED
    BY <2>1, <2>4, <1>0, <1>1
<1>6. CASE wait_for_child
  <2>1. /\ UNCHANGED <<own, ended, early, faults, writers>>
        /\ pc' = "next" /\ child' = "reaped"
    BY <1>6 DEF wait_for_child, history
  <2>2. HeardToTheEnd'
    BY <2>1 DEF HeardToTheEnd
  <2> QED
    BY <2>1, <2>2, <1>0, <1>1
<1>7. CASE PipeFails \/ ForkFails \/ PollInterrupted \/ ReadFails \/ WaitFails
  <2>1. /\ UNCHANGED <<own, ended, early, child>> /\ faults' = faults + 1
        /\ pc' = "thrown" /\ writers' = [s \in Streams |-> writers[s] \ {"parent"}]
    BY <1>7 DEF PipeFails, ForkFails, PollInterrupted, ReadFails, WaitFails, Throw, history
  <2>2. faults' > 0 /\ faults' >= faults
    BY <2>1, <1>0
  <2>3. HeardToTheEnd'
    BY <2>1, <2>2 DEF HeardToTheEnd
  <2> QED
    BY <2>1, <2>2, <2>3, <1>1
<1>8. ASSUME UNCHANGED parent, faults' >= faults, child = "running" => child' # "running",
             child' = "running" => child = "running"
      PROVE  HeardToTheEnd'
  <2>1. child' # "running" /\ pc' = pc /\ fds' = fds
    BY <1>8 DEF parent
  <2>2. faults > 0 => faults' > 0
    BY <1>8, <1>0
  <2> QED
    BY <2>1, <2>2 DEF HeardToTheEnd
<1>9. CASE Killed
  <2>1. faults' > 0 /\ faults' >= faults
    BY <1>9, <1>0 DEF Killed
  <2>2. HeardToTheEnd'
    BY <1>9, <2>1, <1>8 DEF Killed
  <2> QED
    BY <2>1, <2>2 DEF NotKilledByRelay
<1>10. ASSUME NEW v \in 0..2, child = "running", child' # "running",
              UNCHANGED <<own, faults, parent, early>>,
              ended' = [ended EXCEPT ![Current] = v]
       PROVE  HeardToTheEnd' /\ NotKilledByRelay'
  <2>1. HeardToTheEnd'
    BY <1>10, <1>8, <1>0
  <2>2. pos' = pos /\ Current' = Current
    BY <1>10, OrderIsKept DEF own
  <2>3. pos > 0
    BY <1>10, <1>0 DEF CurrentIsTrue
  <2>4. ended'[Current'] = v
    BY <1>10, <2>2, <2>3, OnlyCurrentIsWritten
  <2>5. v # Signal
    BY DEF Signal
  <2> QED
    BY <2>1, <2>4, <2>5 DEF NotKilledByRelay
<1>11. ASSUME NEW status \in 0..2, Exit(status)
       PROVE  HeardToTheEnd' /\ NotKilledByRelay'
  BY <1>11, <1>10 DEF Exit
<1>12. CASE ExecFails
  BY <1>12, <1>10 DEF ExecFails
<1>13. ASSUME UNCHANGED <<own, faults, parent, child, ended, early>>,
              \A s \in Streams : "script" \in writers[s] => "script" \in writers'[s]
       PROVE  HeardToTheEnd' /\ NotKilledByRelay'
  <2>1. HeardToTheEnd'
    BY <1>13 DEF HeardToTheEnd, parent
  <2> QED
    BY <2>1, <1>0, <1>1, <1>13
<1>14. CASE BackgroundEnds \/ Background
  BY <1>14, <1>13 DEF BackgroundEnds, Background, history
<1>15. ASSUME NEW s \in Streams, CloseStream(s)
       PROVE  HeardToTheEnd' /\ NotKilledByRelay'
  <2>1. UNCHANGED <<own, faults, parent, child, ended>> /\ early'
    BY <1>15 DEF CloseStream
  <2>2. HeardToTheEnd'
    BY <2>1 DEF HeardToTheEnd, parent
  <2> QED
    BY <2>1, <2>2 DEF NotKilledByRelay
<1>16. ASSUME NEW p \in {"script", "background"}, NEW s \in Streams, NEW c \in Chunks,
              Write(p, s, c)
       PROVE  HeardToTheEnd' /\ NotKilledByRelay'
  <2>1. UNCHANGED <<own, faults, parent, early>>
    BY <1>16 DEF Write
  <2>2. CASE Hears(s) \/ p = "background"
    <3>1. UNCHANGED <<child, ended>>
          /\ (writers' = writers \/ writers' = [t \in Streams |-> writers[t] \ {p}])
      BY <1>16, <2>2 DEF Write
    <3>2. \A t \in Streams : "script" \in writers[t] => "script" \in writers'[t]
      BY <1>16, <2>2 DEF Write
    <3> QED
      BY <2>1, <3>1, <3>2, <1>13
  <2>3. CASE ~Hears(s) /\ p = "script"
    <3>1. child = "running" /\ child' = "killed"
      BY <1>16, <2>3 DEF Write
    <3>2. HeardToTheEnd'
      BY <2>1, <3>1, <1>8, <1>0
    <3>3. pc \notin {"poll", "err", "out"}
      BY <2>3 DEF HeardToTheEnd, Hears
    <3>4. pc \in {"wait", "thrown"}
      BY <3>1, <3>3 DEF PlaceIsTrue, TypeOK
    <3>5. early \/ faults > 0
      BY <3>1, <3>4 DEF HeardToTheEnd
    <3>6. early' \/ faults' > 0
      BY <3>5, <2>1
    <3> QED
      BY <3>2, <3>6 DEF NotKilledByRelay
  <2> QED
    BY <1>16, <2>2, <2>3
<1>17. CASE UNCHANGED vars
  BY <1>17, <1>13 DEF vars, process, history
<1> QED
  BY <1>2, <1>3, <1>4, <1>5, <1>6, <1>7, <1>9, <1>11, <1>12, <1>14, <1>15, <1>16, <1>17
  DEF Next, Parent, Faults, Ends, Terminated

(***************************************************************************)
(* The theorems.                                                           *)
(***************************************************************************)
\* Where a run of the scripts starts.
LEMMA RunInitially == Init => RunInv
<1> SUFFICES ASSUME Init
             PROVE  RunInv
  OBVIOUS
<1>0. Len(programs) \in Nat
  BY OrderIsComplete, RunnableIsFinite DEF Init
<1>1. TypeOK
  <2>1. ended \in [Scripts -> -3..2]
    BY DEF Init, NotRun
  <2>2. data \in [Streams -> 0..BUFSIZ] /\ pipe \in [Streams -> Seq({"t", "n"})]
    BY RunPartsAssumption DEF Init, Zero, Empty
  <2>3. pos \in 0..Len(programs) /\ exit_status \in 0..2 /\ faults \in 0..MaxFaults
        /\ childStatus \in 0..2
    BY <1>0, RunPartsAssumption DEF Init
  <2> QED
    BY <2>1, <2>2, <2>3 DEF Init, TypeOK
<1>2. CurrentIsTrue /\ PlaceIsTrue /\ EarlierIsTrue
  BY DEF Init, CurrentIsTrue, PlaceIsTrue, EarlierIsTrue
<1>3. PollIsTrue /\ HeardToTheEnd /\ NotKilledByRelay
  BY DEF Init, PollIsTrue, HeardToTheEnd, NotKilledByRelay
<1> QED
  BY <1>1, <1>2, <1>3 DEF RunInv

\* The parts hold throughout.
LEMMA RunInvHolds == Spec => []RunInv
<1>1. RunInv /\ [Next]_vars => RunInv'
  BY TypeStep, AccountStep, PollStep, HeardStep DEF RunInv
<1> QED
  BY <1>1, RunInitially, PTL DEF Spec

\* What the account means once run is over.
LEMMA AccountsAreTrue == RunInv => StatusIsTrue
<1> SUFFICES ASSUME RunInv
             PROVE  StatusIsTrue
  OBVIOUS
<1>0. TypeOK /\ CurrentIsTrue /\ PlaceIsTrue /\ EarlierIsTrue
  BY DEF RunInv
<1>1. \A i \in 1..(pos - 1) :
         /\ ended[Order[i]] \notin {NotRun, Running}
         /\ abort_on_error => ended[Order[i]] = 0
  BY <1>0 DEF EarlierIsTrue
<1>2. ASSUME pc = "returned", pos > 0
      PROVE  /\ exit_status = IF ended[Current] = Signal THEN 1 ELSE ended[Current]
             /\ (abort_on_error /\ exit_status = 0) => \A n \in Scripts : ended[n] = 0
  <2>1. child = "reaped"
    BY <1>0, <1>2 DEF PlaceIsTrue, CurrentIsTrue
  <2>2. exit_status = IF ended[Current] = Signal THEN 1 ELSE ended[Current]
    BY <1>0, <2>1 DEF CurrentIsTrue
  <2>3. ASSUME abort_on_error, exit_status = 0, NEW n \in Scripts
        PROVE  ended[n] = 0
    <3>1. N \in Nat /\ Len(programs) = N /\ \E i \in 1..N : Order[i] = n
      BY <1>0, OrderIsComplete, RunnableIsFinite DEF TypeOK
    <3>2. pos = N
      BY <1>0, <1>2, <2>3, <3>1 DEF PlaceIsTrue, Finished
    <3>3. PICK i \in 1..N : Order[i] = n
      BY <3>1
    <3>4. CASE i = pos
      BY <2>2, <2>3, <3>3, <3>4 DEF Current
    <3>5. CASE i # pos
      <4>1. i \in 1..(pos - 1)
        BY <3>1, <3>2, <3>5
      <4> QED
        BY <1>1, <2>3, <3>3, <4>1
    <3> QED
      BY <3>4, <3>5
  <2> QED
    BY <2>2, <2>3
<1>3. (pc \in {"returned", "thrown"} /\ child \notin {"none", "reaped"}) =>
         thrown \in {"POLL", "READ", "CHILD_WAIT"}
  BY <1>0 DEF PlaceIsTrue
<1> QED
  BY <1>1, <1>2, <1>3 DEF StatusIsTrue

\* run and run_child keep their types: no more than BUFSIZ is read at a time, and
\* the position of the script at work never leaves the directory.
THEOREM RunTypesHold == Spec => []TypeOK
<1>1. RunInv => TypeOK
  BY DEF RunInv
<1> QED
  BY <1>1, RunInvHolds, PTL

\* run's account of its scripts is true for any directory, in either order: the
\* scripts run one at a time, a run that aborts at errors and returns 0 has run
\* every script with success, and only an error after fork leaves one running.
THEOREM AccountsHold == Spec => []StatusIsTrue
  BY RunInvHolds, AccountsAreTrue, PTL

\* run_child never kills a script by the way it relays its output: without a
\* fault and without closing a stream itself, no script is hit by SIGPIPE.
THEOREM RelayKillsNobody == Spec => []NotKilledByRelay
<1>1. RunInv => NotKilledByRelay
  BY DEF RunInv
<1> QED
  BY <1>1, RunInvHolds, PTL
=============================================================================
