----------------------------- MODULE MCRunParts -----------------------------
(***************************************************************************)
(* Three entries, of which the second is a file that dpkg left behind.     *)
(***************************************************************************)
EXTENDS RunParts

Directory == <<{"lanana", "cron"}, {"lsb", "cruft"}, {"lsb"}>>
Writes == {<<"t">>, <<"t", "n">>, <<"t", "n", "t">>}
=============================================================================
