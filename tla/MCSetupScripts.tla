-------------------------- MODULE MCSetupScripts --------------------------
(***************************************************************************)
(* Instances of SetupScripts for TLC.                                      *)
(***************************************************************************)
EXTENDS SetupScripts

AllConfigs == {c \in Config : Possible(c)}
=============================================================================
