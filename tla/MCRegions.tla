------------------------------ MODULE MCRegions ------------------------------
(***************************************************************************)
(* Regions for every list of up to MCLength regions on a disk of MCSize    *)
(* blocks.                                                                 *)
(***************************************************************************)
EXTENDS Regions

CONSTANTS MCLength, MCSize

MCRegion == [off : 0 .. MCSize - 1, len : 1 .. MCSize, type : {"REGULAR", "ZEROED"}]

\* The regions that may follow the list s.
MCFollow(s) == {r \in MCRegion : End(r) <= MCSize /\ (s # <<>> => End(s[Len(s)]) <= r.off)}

\* The ordered lists of n regions, none of them empty.
MCLists[n \in 0 .. MCLength] ==
    IF n = 0 THEN {<<>>}
             ELSE UNION {{Append(s, r) : r \in MCFollow(s)} : s \in MCLists[n - 1]}

MCRegionLists == UNION {MCLists[n] : n \in 0 .. MCLength}

=============================================================================
