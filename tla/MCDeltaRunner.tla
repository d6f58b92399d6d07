---------------------------- MODULE MCDeltaRunner ----------------------------
(***************************************************************************)
(* DeltaRunner for one list of regions: a region of two blocks, a zeroed   *)
(* one next to it, and one behind a gap.                                   *)
(***************************************************************************)
EXTENDS DeltaRunner

MCRegions == <<[off |-> 0, len |-> 2, type |-> "REGULAR"],
               [off |-> 2, len |-> 1, type |-> "ZEROED"],
               [off |-> 5, len |-> 1, type |-> "REGULAR"]>>

=============================================================================
