-------------------------- MODULE MCChrootConfig --------------------------
(***************************************************************************)
(* Instance of ChrootConfig for TLC: a name, another one, and the first    *)
(* with "-source".                                                         *)
(***************************************************************************)
EXTENDS ChrootConfig

ThreeNames == {<<"a", 0>>, <<"b", 0>>, <<"a", 1>>}
=============================================================================
