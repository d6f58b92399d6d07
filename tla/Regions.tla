------------------------------- MODULE Regions -------------------------------
(***************************************************************************)
(* prepareRegions and mergeRegions of controllers/cbt_sync.go: the list of *)
(* changed regions of a disk is merged across small gaps, and the gap is   *)
(* widened until the list fits into the ConfigMap of the delta-sync Job.   *)
(*                                                                         *)
(* One step is one turn of a loop, so that what the two loops compute is a *)
(* question about reachable states.  Offsets, lengths and gaps are counted *)
(* in blocks.                                                              *)
(***************************************************************************)
EXTENDS RegionList

CONSTANTS
    RegionLists,       \* the region_lists ChangedRegions may return
    RegionMergeGap,    \* regionMergeGap
    MaxGap,            \* the gap that is not widened any more (1 GiB)
    MaxRegionsPerJob   \* maxRegionsPerJob

\* Prism lists the changed regions of a disk in the order of their offsets.
ASSUME RegionsAssumption ==
    /\ \A s \in RegionLists : s \in Seq(Region) /\ Ordered(s)
    /\ RegionMergeGap \in Nat \ {0}
    /\ MaxGap \in Nat
    /\ MaxRegionsPerJob \in Nat \ {0}

VARIABLES
    regions,   \* the argument
    gap,       \* the gap of prepareRegions
    k,         \* index of the loop of mergeRegions
    cur,       \* the region it is growing
    merged,    \* its result
    pc         \* mergeRegions is called or in its loop, or prepareRegions
               \* looks at the result or has returned

vars == <<regions, gap, k, cur, merged, pc>>

NoRegion == [off |-> 0, len |-> 0, type |-> "REGULAR"]

TypeOK ==
    /\ regions \in Seq(Region)
    /\ gap \in Nat
    /\ k \in Nat \ {0}
    /\ cur \in Region
    /\ merged \in Seq(Region)
    /\ pc \in {"call", "loop", "check", "done"}

Init ==
    /\ regions \in RegionLists
    /\ gap = RegionMergeGap
    /\ k = 1
    /\ cur = NoRegion
    /\ merged = <<>>
    /\ pc = "call"

-----------------------------------------------------------------------------
(***************************************************************************)
(* mergeRegions.                                                           *)
(***************************************************************************)

MergeNothing ==
    /\ pc = "call" /\ regions = <<>>
    /\ merged' = regions
    /\ pc' = "check"
    /\ UNCHANGED <<regions, gap, k, cur>>

MergeFirst ==
    /\ pc = "call" /\ regions # <<>>
    /\ cur' = regions[1]
    /\ k' = 2
    /\ merged' = <<>>
    /\ pc' = "loop"
    /\ UNCHANGED <<regions, gap>>

\* Mutant: regions of different types are joined.
NearAnyType(r) == r.off <= End(cur) + gap

\* r has the type of cur and begins at most gap after its end.
Near(r) == r.type = cur.type /\ r.off <= End(cur) + gap

\* Mutant: the end of r is taken for the new length.
GrownToEnd(r) == IF End(r) > End(cur) THEN [cur EXCEPT !.len = End(r)] ELSE cur

Grown(r) == IF End(r) > End(cur) THEN [cur EXCEPT !.len = End(r) - cur.off] ELSE cur

MergeJoin ==
    /\ pc = "loop" /\ k <= Len(regions)
    /\ Near(regions[k])
    /\ cur' = Grown(regions[k])
    /\ k' = k + 1
    /\ UNCHANGED <<regions, gap, merged, pc>>

MergeAppend ==
    /\ pc = "loop" /\ k <= Len(regions)
    /\ ~Near(regions[k])
    /\ merged' = Append(merged, cur)
    /\ cur' = regions[k]
    /\ k' = k + 1
    /\ UNCHANGED <<regions, gap, pc>>

MergeLast ==
    /\ pc = "loop" /\ k > Len(regions)
    /\ merged' = Append(merged, cur)
    /\ pc' = "check"
    /\ UNCHANGED <<regions, gap, k, cur>>

-----------------------------------------------------------------------------
(***************************************************************************)
(* prepareRegions.                                                         *)
(***************************************************************************)

TooMany == Len(merged) > MaxRegionsPerJob /\ gap < MaxGap

PrepareWiden ==
    /\ pc = "check" /\ TooMany
    /\ gap' = gap * 4
    /\ pc' = "call"
    /\ UNCHANGED <<regions, k, cur, merged>>

PrepareReturn ==
    /\ pc = "check" /\ ~TooMany
    /\ pc' = "done"
    /\ UNCHANGED <<regions, gap, k, cur, merged>>

mergeRegions   == MergeNothing \/ MergeFirst \/ MergeJoin \/ MergeAppend \/ MergeLast
prepareRegions == PrepareWiden \/ PrepareReturn

Next == mergeRegions \/ prepareRegions

Spec == Init /\ [][Next]_vars

-----------------------------------------------------------------------------
(***************************************************************************)
(* Properties.                                                             *)
(***************************************************************************)

\* The gaps that a merge may close: between neighbours of type t.
ClosedGaps(t) ==
    UNION {End(regions[j]) .. regions[j + 1].off - 1 :
             j \in {l \in 1 .. Len(regions) - 1 :
                      /\ regions[l].type = t /\ regions[l + 1].type = t
                      /\ regions[l + 1].off - End(regions[l]) <= gap}}

\* What prepareRegions returns, for both types: every changed block, under its
\* own type, the gaps between neighbours of the same type that are not wider
\* than the final gap, and nothing else.  No region is lost, none hides a
\* region of the other type.
MergedExactly ==
    pc = "done" => \A t \in {"REGULAR", "ZEROED"} :
                      BlocksOf(merged, t) = BlocksOf(regions, t) \cup ClosedGaps(t)

\* The regions given to the concurrent workers of the delta-sync Job follow
\* one another and do not overlap: no block is written by two of them.
MergedOrdered == pc = "done" => Ordered(merged)

\* Merging does no harm ("reading a little unchanged data is harmless"): only
\* blocks that were zeroed in the source are in a region that the Job zeroes.
ZeroesOnlyZeroed ==
    pc = "done" => BlocksOf(merged, "ZEROED") \subseteq BlocksOf(regions, "ZEROED")

\* prepareRegions compresses the list until it fits into the ConfigMap.
FitsConfigMap == pc = "done" => Len(merged) <= MaxRegionsPerJob

=============================================================================
