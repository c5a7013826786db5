-------------------------- MODULE SessionLifecycle --------------------------
(***************************************************************************)
(* What schroot promises of a session, whatever processes, setup scripts,  *)
(* failures and crashes are behind it: a name is claimed by creating its   *)
(* session file; only under a complete file is anything set up or torn     *)
(* down; and the file goes only when nothing is left that it stands for.   *)
(* `meta` and `res` are the variables of that name in Session.             *)
(***************************************************************************)
CONSTANT Slots
VARIABLES meta, res

world == <<meta, res>>

Init ==
    /\ meta = [s \in Slots |-> "absent"]
    /\ res = [s \in Slots |-> "none"]

\* A file cut off before its contents were written claims the name and allows
\* no work.
Create(s) ==
    /\ meta[s] = "absent"
    /\ \E file \in {"empty", "full"} : meta' = [meta EXCEPT ![s] = file]
    /\ UNCHANGED res

Work(s) ==
    /\ meta[s] = "full"
    /\ \E made \in {"none", "partial", "up"} : res' = [res EXCEPT ![s] = made]
    /\ UNCHANGED meta

Remove(s) ==
    /\ meta[s] # "absent" /\ res[s] = "none"
    /\ meta' = [meta EXCEPT ![s] = "absent"]
    /\ UNCHANGED res

Next == \E s \in Slots : Create(s) \/ Work(s) \/ Remove(s)

Spec == Init /\ [][Next]_world
=============================================================================
