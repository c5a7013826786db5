----------------------------- MODULE MCSession -----------------------------
(***************************************************************************)
(* Instances of Session for TLC.                                           *)
(***************************************************************************)
EXTENDS SessionInv

CONSTANTS s1, s2

OneSlot == {s1}
TwoSlots == {s1, s2}

\* A name backed by each kind of chroot in turn.
OneDirectory == [s \in OneSlot |-> "directory"]
BlockAndFile == [s \in TwoSlots |-> IF s = s1 THEN "block-device" ELSE "file"]

AllFaults == FaultKinds
PamFaults == {"pam"}
=============================================================================
