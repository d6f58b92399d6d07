----------------------------- MODULE MCNetworks -----------------------------
(***************************************************************************)
(* Mappings with and without a testTarget, in both orders, for networks    *)
(* that the source has, has twice, or does not have.                       *)
(***************************************************************************)
EXTENDS Networks

MCMapping ==
    {[source |-> s, target |-> "prod" , testTarget |-> t] : s \in {"A", "B"}, t \in {"", "test"}}
      \cup {[source |-> "A", target |-> "prod2", testTarget |-> "test2"]}

MCMappingLists == {<<>>} \cup {<<x>> : x \in MCMapping} \cup {<<x, y>> : x \in MCMapping, y \in MCMapping}

MCNICLists ==
    {<<>>, <<[net |-> "A", mac |-> "m1"]>>, <<[net |-> "C", mac |-> ""]>>,
     <<[net |-> "A", mac |-> "m1"], [net |-> "B", mac |-> "m2"]>>,
     <<[net |-> "B", mac |-> "m2"], [net |-> "A", mac |-> "m1"]>>}

=============================================================================
