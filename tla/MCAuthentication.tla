-------------------------- MODULE MCAuthentication --------------------------
(***************************************************************************)
(* Instances of Authentication for TLC: root, the caller and another user; *)
(* conversations with every type of message.                               *)
(***************************************************************************)
EXTENDS Authentication

ThreeUsers == {0, 1, 2}

\* Each list on its own, none, and a user list together with a root list.
SomeLists == {{}, {"users"}, {"groups"}, {"root-users"}, {"root-groups"},
              {"users", "root-groups"}}

Dialogues == {<<"echo", "noecho">>, <<"error", "noecho">>, <<"info", "unknown">>}
=============================================================================
