---------------------------- MODULE MCSessionDir ----------------------------
(***************************************************************************)
(* Instances of SessionDir for TLC.                                        *)
(***************************************************************************)
EXTENDS SessionDir, TLC

CONSTANTS p1, p2, p3, n1

Procs == {p1, p2, p3}
OneName == {n1}
TwoFiles == 1..2

\* Three processes are alike, so one order of each choice of jobs is enough.
Job(op) == [op |-> op, name |-> n1]
ThreeJobs ==
    {(p1 :> Job(t[1]) @@ p2 :> Job(t[2]) @@ p3 :> Job(t[3])) :
        t \in {<<"begin", "begin", "end">>, <<"begin", "end", "end">>,
               <<"begin", "end", "list">>, <<"end", "end", "list">>}}

AllFaults == FaultKinds
=============================================================================
