----------------------------- MODULE RegionList -----------------------------
(***************************************************************************)
(* Lists of changed regions: what ChangedRegions returns, prepareRegions   *)
(* merges and the delta-sync runner copies.  Offsets and lengths are       *)
(* counted in blocks.                                                      *)
(***************************************************************************)
EXTENDS Integers, Sequences

\* ChangedRegion: Offset, Length and Type.
Region == [off : Nat, len : Nat, type : {"REGULAR", "ZEROED"}]

\* The first block after a region.
End(r) == r.off + r.len

Blocks(r) == r.off .. End(r) - 1

\* The regions follow one another on the disk and do not overlap.
Ordered(s) == \A j, l \in DOMAIN s : j < l => End(s[j]) <= s[l].off

\* The blocks of the regions of type t in a list.
BlocksOf(s, t) == UNION {Blocks(s[j]) : j \in {l \in DOMAIN s : s[l].type = t}}

=============================================================================
