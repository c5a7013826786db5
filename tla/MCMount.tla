------------------------------ MODULE MCMount ------------------------------
(***************************************************************************)
(* The chroot at /m/a beside another session at /m/ab.  In the chroot,     *)
(* /var/run is a link to /run and /old a link to nowhere; the host has a   *)
(* /run of its own.                                                        *)
(***************************************************************************)
EXTENDS Mount

Location == <<"m", "a">>
Neighbours == {<<"m", "ab">>}
HostDirs == {<<>>, <<"m">>, Location, <<"m", "ab">>, <<"run">>, Location \o <<"run">>,
             Location \o <<"var">>}
ChrootLinks == (Location \o <<"var", "run">>) :> <<"run">>
               @@ (Location \o <<"old">>) :> <<"gone">>
BeginningOf == {<<"a", "ab">>}

E(d, b, p) == [dir |-> d, bind |-> b, propagation |-> p]
Names == {<<"run">>, <<"var", "run", "x">>, <<"old">>, <<"home", "u">>}
Tables == {<<>>} \cup {<<E(d, b, FALSE)>> : d \in Names, b \in BOOLEAN}
          \cup {<<E(d, TRUE, FALSE), E(e, TRUE, p)>> : d, e \in Names, p \in BOOLEAN}
=============================================================================
