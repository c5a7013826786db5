----------------------------- MODULE MCKeyfile -----------------------------
(***************************************************************************)
(* Two groups and a key of each type; values that parse, that do not, that *)
(* have empty and repeated fields, and one the object refuses.             *)
(***************************************************************************)
EXTENDS Keyfile

Types == [b |-> "bool", l |-> "list", n |-> "string", s |-> "set"]
It(key, val) == [t |-> "item", k |-> key, v |-> val]
ItemSet == {It("b", <<"yes">>), It("b", <<"maybe">>), It("l", <<"y", "", "x">>),
          It("l", <<"">>), It("n", <<"x">>), It("n", <<"">>), It("s", <<"y", "x", "y">>)}

OneGroup == set_value(set_group(EmptyKeyfile, "g1", <<"old">>, 1), "g1", "b", <<"no">>, <<>>, 2)
Targets == {EmptyKeyfile, OneGroup}
Callers == {[b |-> "OPTIONAL", l |-> "OPTIONAL", n |-> "OPTIONAL", s |-> "OPTIONAL"],
            [b |-> "REQUIRED", l |-> "DISALLOWED", n |-> "OPTIONAL", s |-> "DEPRECATED"],
            [b |-> "DISALLOWED", l |-> "OBSOLETE", n |-> "OPTIONAL", s |-> "OPTIONAL"]}
GroupNames == <<"g1", "g2">>
KeyNames == <<"b", "l", "n", "s">>
FieldNames == <<"", "false", "maybe", "no", "true", "x", "y", "yes">>
NoName == {<<"">>}
=============================================================================
