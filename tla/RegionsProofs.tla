---------------------------- MODULE RegionsProofs ----------------------------
(***************************************************************************)
(* Proofs about Regions: what prepareRegions and mergeRegions compute for  *)
(* every list of changed regions, every gap and every limit.               *)
(***************************************************************************)
EXTENDS Regions, TLAPS

Types == {"REGULAR", "ZEROED"}

(***************************************************************************)
(* The three ways a block gets into the result, block by block: it is in   *)
(* one of the first n regions, in a closed gap between two of them, or in  *)
(* a region that has been put into the result.                             *)
(***************************************************************************)
InRegion(b, t, n) == \E j \in 1 .. n : regions[j].type = t /\ b \in Blocks(regions[j])

Closed(j, t) ==
    /\ regions[j].type = t /\ regions[j + 1].type = t
    /\ regions[j + 1].off - End(regions[j]) <= gap

InGap(b, t, n) ==
    \E j \in 1 .. n - 1 : Closed(j, t) /\ b \in End(regions[j]) .. regions[j + 1].off - 1

\* A region of type t in the list s holds block b.
Holds(s, b, t) == \E j \in DOMAIN s : s[j].type = t /\ b \in Blocks(s[j])

InMerged(b, t) == Holds(merged, b, t)

(***************************************************************************)
(* The invariant of the loop of mergeRegions: cur ends where the last      *)
(* region looked at ends, it lies behind the result, and the two together  *)
(* hold the regions looked at and the gaps closed between them.            *)
(***************************************************************************)
LoopInv ==
    /\ k \in 2 .. Len(regions) + 1
    /\ cur.type = regions[k - 1].type
    /\ cur.off <= regions[k - 1].off
    /\ End(cur) = End(regions[k - 1])
    /\ \A j \in DOMAIN merged : End(merged[j]) <= cur.off
    /\ Ordered(merged)
    /\ \A b \in Int, t \in Types :
          InMerged(b, t) \/ (cur.type = t /\ b \in Blocks(cur))
             <=> InRegion(b, t, k - 1) \/ InGap(b, t, k - 1)

\* Its result, until the gap is widened.
ResultInv ==
    /\ Ordered(merged)
    /\ \A b \in Int, t \in Types :
          InMerged(b, t) <=> InRegion(b, t, Len(regions)) \/ InGap(b, t, Len(regions))

Inv ==
    /\ TypeOK
    /\ Ordered(regions)
    /\ pc = "loop" => LoopInv
    /\ pc \in {"check", "done"} => ResultInv

LEMMA RegionFacts ==
  ASSUME NEW r \in Region
  PROVE  /\ r.off \in Nat /\ r.len \in Nat /\ r.type \in Types
         /\ End(r) \in Nat /\ r.off <= End(r)
         /\ \A b \in Int : b \in Blocks(r) <=> r.off <= b /\ b < End(r)
  BY DEF Region, End, Blocks, Types

LEMMA ListFacts ==
  ASSUME NEW s \in Seq(Region)
  PROVE  /\ Len(s) \in Nat /\ DOMAIN s = 1 .. Len(s)
         /\ \A j \in 1 .. Len(s) : s[j] \in Region
  OBVIOUS

\* The regions of an ordered list.
LEMMA Neighbours ==
  ASSUME NEW s \in Seq(Region), Ordered(s), NEW j \in 1 .. Len(s) - 1
  PROVE  /\ s[j] \in Region /\ s[j + 1] \in Region
         /\ End(s[j]) <= s[j + 1].off
  <1>1. j \in DOMAIN s /\ j + 1 \in DOMAIN s /\ j < j + 1
    BY ListFacts
  <1> QED
    BY <1>1, ListFacts DEF Ordered

LEMMA InvInit == Init => Inv
  <1> SUFFICES ASSUME Init PROVE Inv
    OBVIOUS
  <1>1. TypeOK
    BY RegionsAssumption DEF Init, TypeOK, NoRegion, Region
  <1>2. Ordered(regions)
    BY RegionsAssumption DEF Init
  <1> QED
    BY <1>1, <1>2 DEF Init, Inv

LEMMA GrownFacts ==
  ASSUME NEW r \in Region, cur \in Region, End(cur) <= r.off
  PROVE  /\ Grown(r) \in Region
         /\ Grown(r).off = cur.off /\ Grown(r).type = cur.type
         /\ End(Grown(r)) = End(r)
  <1>1. End(cur) <= End(r) /\ cur.off <= End(cur) /\ End(r) \in Nat /\ cur.off \in Nat
    BY RegionFacts
  <1>2. CASE End(r) > End(cur)
    <2>1. Grown(r) = [cur EXCEPT !.len = End(r) - cur.off]
      BY <1>2 DEF Grown
    <2>2. PICK e \in Nat : e = End(r) /\ e - cur.off \in Nat
      <3>1. End(cur) \in Nat
        BY RegionFacts
      <3> QED
        BY <1>1, <3>1
    <2>3. /\ Grown(r) \in Region
          /\ Grown(r).off = cur.off /\ Grown(r).type = cur.type
          /\ Grown(r).len = e - cur.off
      BY <2>1, <2>2 DEF Region
    <2>4. End(Grown(r)) = e
      BY <1>1, <2>3 DEF End
    <2> QED
      BY <2>2, <2>3, <2>4
  <1>3. CASE ~(End(r) > End(cur))
    <2>1. Grown(r) = cur /\ End(cur) = End(r)
      BY <1>1, <1>3, RegionFacts DEF Grown
    <2> QED
      BY <2>1
  <1> QED
    BY <1>2, <1>3

\* One more region is looked at.
LEMMA OneMore ==
  ASSUME Inv, NEW n \in 1 .. Len(regions) - 1, NEW b, NEW t
  PROVE  /\ InRegion(b, t, n + 1)
               <=> InRegion(b, t, n) \/ (regions[n + 1].type = t /\ b \in Blocks(regions[n + 1]))
         /\ InGap(b, t, n + 1)
               <=> \/ InGap(b, t, n)
                   \/ Closed(n, t) /\ b \in End(regions[n]) .. regions[n + 1].off - 1
  <1>1. n \in Nat /\ 1 .. n + 1 = 1 .. n \cup {n + 1} /\ 1 .. n + 1 - 1 = 1 .. n - 1 \cup {n}
    BY ListFacts DEF Inv, TypeOK
  <1> QED
    BY <1>1 DEF InRegion, InGap

\* The result with a region appended that lies behind it.
LEMMA Appended ==
  ASSUME NEW s \in Seq(Region), NEW r \in Region, NEW a, a = Append(s, r), Ordered(s),
         \A j \in DOMAIN s : End(s[j]) <= r.off
  PROVE  /\ a \in Seq(Region) /\ Ordered(a)
         /\ \A x \in Nat : End(r) <= x => \A j \in DOMAIN a : End(a[j]) <= x
         /\ \A b, t : Holds(a, b, t) <=> Holds(s, b, t) \/ (r.type = t /\ b \in Blocks(r))
  <1>1. /\ a \in Seq(Region) /\ Len(a) = Len(s) + 1 /\ Len(s) \in Nat
        /\ DOMAIN a = 1 .. Len(s) + 1 /\ DOMAIN s = 1 .. Len(s)
        /\ a[Len(s) + 1] = r
        /\ \A j \in 1 .. Len(s) : a[j] = s[j]
    OBVIOUS
  <1>2. \A j \in 1 .. Len(s) + 1 : j \in 1 .. Len(s) \/ j = Len(s) + 1
    BY <1>1
  <1>3. Ordered(a)
    BY <1>1, <1>2 DEF Ordered
  <1>4. ASSUME NEW x \in Nat, End(r) <= x, NEW j \in DOMAIN a PROVE End(a[j]) <= x
    <2>1. CASE j = Len(s) + 1
      BY <1>1, <1>4, <2>1
    <2>2. CASE j \in 1 .. Len(s)
      <3>1. s[j] \in Region /\ a[j] = s[j] /\ End(s[j]) <= r.off
        BY <1>1, <2>2
      <3> QED
        BY <1>4, <3>1, RegionFacts
    <2> QED
      BY <1>1, <1>2, <2>1, <2>2
  <1>5. \A b, t : Holds(a, b, t) <=> Holds(s, b, t) \/ (r.type = t /\ b \in Blocks(r))
    BY <1>1, <1>2 DEF Holds
  <1> QED
    BY <1>1, <1>3, <1>4, <1>5

(***************************************************************************)
(* The steps of mergeRegions.                                              *)
(***************************************************************************)

LEMMA FirstKeeps ==
  ASSUME Inv, MergeFirst
  PROVE  Inv'
  <1>1. /\ regions \in Seq(Region) /\ Len(regions) \in Nat \ {0} /\ regions[1] \in Region
        /\ cur' = regions[1] /\ k' = 2 /\ merged' = <<>> /\ pc' = "loop"
        /\ UNCHANGED <<regions, gap>>
    BY DEF Inv, TypeOK, MergeFirst
  <1>2. TypeOK' /\ Ordered(regions)'
    BY <1>1 DEF Inv, TypeOK
  <1>3. DOMAIN merged' = {} /\ Ordered(merged')
    BY <1>1 DEF Ordered
  <1>4. ASSUME NEW b \in Int, NEW t \in Types
        PROVE  (InMerged(b, t) \/ (cur.type = t /\ b \in Blocks(cur))
                  <=> InRegion(b, t, k - 1) \/ InGap(b, t, k - 1))'
    <2>1. 1 .. k' - 1 = {1} /\ 1 .. k' - 1 - 1 = {}
      BY <1>1
    <2> QED
      BY <1>1, <1>3, <2>1 DEF InMerged, Holds, InRegion, InGap
  <1>5. k' \in 2 .. Len(regions') + 1 /\ k' - 1 = 1
    BY <1>1
  <1>6. cur'.off <= regions'[k' - 1].off
    BY <1>1, <1>5, RegionFacts
  <1>7. LoopInv'
    BY <1>1, <1>3, <1>4, <1>5, <1>6 DEF LoopInv
  <1> QED
    BY <1>1, <1>2, <1>7 DEF Inv

\* What the loop knows of the region it is at.
LEMMA LoopFacts ==
  ASSUME Inv, pc = "loop", k <= Len(regions)
  PROVE  /\ LoopInv
         /\ k - 1 \in 1 .. Len(regions) - 1 /\ k \in Nat /\ k - 1 + 1 = k
         /\ Len(regions) \in Nat
         /\ regions[k - 1] \in Region /\ regions[k] \in Region /\ cur \in Region
         /\ End(cur) <= regions[k].off
  <1>1. /\ LoopInv /\ k \in 2 .. Len(regions) + 1 /\ Len(regions) \in Nat /\ cur \in Region
    BY DEF Inv, LoopInv, TypeOK
  <1>2. k - 1 \in 1 .. Len(regions) - 1 /\ k \in Nat /\ k - 1 + 1 = k
    BY <1>1
  <1>3. End(regions[k - 1]) <= regions[k - 1 + 1].off /\ regions[k - 1] \in Region
        /\ regions[k - 1 + 1] \in Region
    BY <1>2, Neighbours DEF Inv, TypeOK
  <1> QED
    BY <1>1, <1>2, <1>3 DEF LoopInv

LEMMA JoinKeeps ==
  ASSUME Inv, MergeJoin
  PROVE  Inv'
  <1>1. /\ pc = "loop" /\ pc' = "loop" /\ k <= Len(regions) /\ Near(regions[k])
        /\ cur' = Grown(regions[k]) /\ k' = k + 1 /\ UNCHANGED <<regions, gap, merged>>
    BY DEF MergeJoin
  <1>2. /\ LoopInv /\ k - 1 \in 1 .. Len(regions) - 1 /\ k \in Nat /\ k - 1 + 1 = k
        /\ Len(regions) \in Nat
        /\ regions[k - 1] \in Region /\ regions[k] \in Region /\ cur \in Region
        /\ End(cur) <= regions[k].off
    BY <1>1, LoopFacts
  <1>3. /\ cur' \in Region /\ cur'.off = cur.off /\ cur'.type = cur.type
        /\ End(cur') = End(regions[k])
    BY <1>1, <1>2, GrownFacts
  <1>4. TypeOK' /\ Ordered(regions)'
    BY <1>1, <1>2, <1>3 DEF Inv, TypeOK
  <1>5. k' \in 2 .. Len(regions') + 1 /\ k' - 1 = k
    BY <1>1, <1>2
  <1>6. /\ regions[k].type = cur.type /\ cur.type = regions[k - 1].type
        /\ End(cur) = End(regions[k - 1]) /\ regions[k].off <= End(cur) + gap
    BY <1>1, <1>2 DEF Near, LoopInv
  <1>7. cur.off <= End(cur) /\ cur.off <= regions[k].off /\ regions[k].off <= End(regions[k])
        /\ cur.off \in Nat /\ End(cur) \in Nat /\ regions[k].off \in Nat
        /\ End(regions[k]) \in Nat
    BY <1>2, RegionFacts
  <1>8. \A t \in Types : Closed(k - 1, t) <=> cur.type = t
    <2>1. gap \in Nat
      BY DEF Inv, TypeOK
    <2>2. regions[k].off - End(cur) <= gap
      BY <1>6, <1>7, <2>1
    <2> QED
      BY <1>2, <1>6, <2>2 DEF Closed
  <1>9. ASSUME NEW b \in Int, NEW t \in Types
        PROVE  (InMerged(b, t) \/ (cur.type = t /\ b \in Blocks(cur))
                  <=> InRegion(b, t, k - 1) \/ InGap(b, t, k - 1))'
    <2>1. /\ InRegion(b, t, k)
                <=> InRegion(b, t, k - 1) \/ (cur.type = t /\ b \in Blocks(regions[k]))
          /\ InGap(b, t, k)
                <=> InGap(b, t, k - 1) \/ (cur.type = t /\ b \in End(cur) .. regions[k].off - 1)
      BY <1>2, <1>6, <1>8, OneMore
    <2>2. b \in Blocks(cur') <=> \/ b \in Blocks(cur)
                                 \/ b \in End(cur) .. regions[k].off - 1
                                 \/ b \in Blocks(regions[k])
      BY <1>2, <1>3, <1>7, RegionFacts
    <2>3. InMerged(b, t) \/ (cur.type = t /\ b \in Blocks(cur))
             <=> InRegion(b, t, k - 1) \/ InGap(b, t, k - 1)
      BY <1>2 DEF LoopInv
    <2>4. /\ InMerged(b, t)' <=> InMerged(b, t)
          /\ InRegion(b, t, k - 1)' <=> InRegion(b, t, k)
          /\ InGap(b, t, k - 1)' <=> InGap(b, t, k)
      BY <1>1, <1>5 DEF InMerged, InRegion, InGap, Closed
    <2> QED
      BY <1>3, <2>1, <2>2, <2>3, <2>4
  <1>10. LoopInv'
    <2>1. \A j \in DOMAIN merged' : End(merged'[j]) <= cur'.off
      BY <1>1, <1>2, <1>3 DEF LoopInv
    <2>2. Ordered(merged)'
      BY <1>1, <1>2 DEF LoopInv, Ordered
    <2> QED
      BY <1>1, <1>3, <1>5, <1>6, <1>7, <1>9, <2>1, <2>2 DEF LoopInv
  <1> QED
    BY <1>1, <1>4, <1>10 DEF Inv

LEMMA AppendKeeps ==
  ASSUME Inv, MergeAppend
  PROVE  Inv'
  <1>1. /\ pc = "loop" /\ pc' = "loop" /\ k <= Len(regions) /\ ~Near(regions[k])
        /\ merged' = Append(merged, cur) /\ cur' = regions[k] /\ k' = k + 1
        /\ UNCHANGED <<regions, gap>>
    BY DEF MergeAppend
  <1>2. /\ LoopInv /\ k - 1 \in 1 .. Len(regions) - 1 /\ k \in Nat /\ k - 1 + 1 = k
        /\ Len(regions) \in Nat
        /\ regions[k - 1] \in Region /\ regions[k] \in Region /\ cur \in Region
        /\ End(cur) <= regions[k].off
    BY <1>1, LoopFacts
  <1>3. /\ merged' \in Seq(Region) /\ Ordered(merged')
        /\ \A j \in DOMAIN merged' : End(merged'[j]) <= regions[k].off
        /\ \A b, t : InMerged(b, t)' <=> InMerged(b, t) \/ (cur.type = t /\ b \in Blocks(cur))
    <2>1. merged \in Seq(Region) /\ Ordered(merged) /\ \A j \in DOMAIN merged : End(merged[j]) <= cur.off
      BY <1>2 DEF Inv, TypeOK, LoopInv
    <2>2. regions[k].off \in Nat
      BY <1>2, RegionFacts
    <2> DEFINE a == Append(merged, cur)
    <2>3. /\ a \in Seq(Region) /\ Ordered(a)
          /\ \A x \in Nat : End(cur) <= x => \A j \in DOMAIN a : End(a[j]) <= x
          /\ \A b, t : Holds(a, b, t) <=> Holds(merged, b, t) \/ (cur.type = t /\ b \in Blocks(cur))
      <3> HIDE DEF a
      <3>1. a = Append(merged, cur)
        BY DEF a
      <3> QED
        BY <1>2, <2>1, <3>1, Appended
    <2>4. merged' = a
      BY <1>1
    <2> HIDE DEF a
    <2> QED
      BY <1>2, <2>2, <2>3, <2>4 DEF InMerged
  <1>4. TypeOK' /\ Ordered(regions)'
    BY <1>1, <1>2, <1>3 DEF Inv, TypeOK
  <1>5. k' \in 2 .. Len(regions') + 1 /\ k' - 1 = k
    BY <1>1, <1>2
  <1>6. \A t \in Types : ~Closed(k - 1, t)
    <2>1. /\ gap \in Nat /\ End(cur) \in Nat /\ regions[k].off \in Nat
          /\ End(cur) = End(regions[k - 1]) /\ cur.type = regions[k - 1].type
      BY <1>2, RegionFacts DEF Inv, TypeOK, LoopInv
    <2>2. regions[k].off - End(cur) <= gap => regions[k].off <= End(cur) + gap
      BY <2>1
    <2> QED
      BY <1>1, <1>2, <2>1, <2>2 DEF Closed, Near
  <1>7. ASSUME NEW b \in Int, NEW t \in Types
        PROVE  (InMerged(b, t) \/ (cur.type = t /\ b \in Blocks(cur))
                  <=> InRegion(b, t, k - 1) \/ InGap(b, t, k - 1))'
    <2>1. /\ InRegion(b, t, k)
                <=> InRegion(b, t, k - 1) \/ (regions[k].type = t /\ b \in Blocks(regions[k]))
          /\ InGap(b, t, k) <=> InGap(b, t, k - 1)
      <3>1. /\ InRegion(b, t, k)
                  <=> InRegion(b, t, k - 1) \/ (regions[k].type = t /\ b \in Blocks(regions[k]))
            /\ InGap(b, t, k)
                  <=> \/ InGap(b, t, k - 1)
                      \/ Closed(k - 1, t) /\ b \in End(regions[k - 1]) .. regions[k].off - 1
        BY <1>2, OneMore
      <3> QED
        BY <1>6, <3>1
    <2>2. InMerged(b, t) \/ (cur.type = t /\ b \in Blocks(cur))
             <=> InRegion(b, t, k - 1) \/ InGap(b, t, k - 1)
      BY <1>2 DEF LoopInv
    <2>3. /\ InRegion(b, t, k - 1)' <=> InRegion(b, t, k)
          /\ InGap(b, t, k - 1)' <=> InGap(b, t, k)
      BY <1>1, <1>5 DEF InRegion, InGap, Closed
    <2> QED
      BY <1>1, <1>3, <2>1, <2>2, <2>3
  <1>8. LoopInv'
    <2>1. cur'.off <= regions'[k' - 1].off
      BY <1>1, <1>2, <1>5, RegionFacts
    <2> QED
      BY <1>1, <1>3, <1>5, <1>7, <2>1 DEF LoopInv
  <1> QED
    BY <1>1, <1>4, <1>8 DEF Inv

LEMMA LastKeeps ==
  ASSUME Inv, MergeLast
  PROVE  Inv'
  <1>1. /\ pc = "loop" /\ pc' = "check" /\ k > Len(regions) /\ merged' = Append(merged, cur)
        /\ UNCHANGED <<regions, gap, k, cur>>
    BY DEF MergeLast
  <1>2. /\ LoopInv /\ merged \in Seq(Region) /\ cur \in Region /\ Len(regions) \in Nat
        /\ k - 1 = Len(regions)
    BY <1>1 DEF Inv, TypeOK, LoopInv
  <1>3. /\ merged' \in Seq(Region) /\ Ordered(merged')
        /\ \A b, t : InMerged(b, t)' <=> InMerged(b, t) \/ (cur.type = t /\ b \in Blocks(cur))
    <2>1. Ordered(merged) /\ \A j \in DOMAIN merged : End(merged[j]) <= cur.off
      BY <1>2 DEF LoopInv
    <2> DEFINE a == Append(merged, cur)
    <2>2. /\ a \in Seq(Region) /\ Ordered(a)
          /\ \A b, t : Holds(a, b, t) <=> Holds(merged, b, t) \/ (cur.type = t /\ b \in Blocks(cur))
      <3> HIDE DEF a
      <3>1. a = Append(merged, cur)
        BY DEF a
      <3> QED
        BY <1>2, <2>1, <3>1, Appended
    <2>3. merged' = a
      BY <1>1
    <2> HIDE DEF a
    <2> QED
      BY <2>2, <2>3 DEF InMerged
  <1>4. TypeOK' /\ Ordered(regions)'
    BY <1>1, <1>3 DEF Inv, TypeOK
  <1>5. \A b, t : /\ InRegion(b, t, Len(regions))' <=> InRegion(b, t, Len(regions))
                  /\ InGap(b, t, Len(regions))' <=> InGap(b, t, Len(regions))
    BY <1>1 DEF InRegion, InGap, Closed
  <1>6. ResultInv'
    BY <1>1, <1>2, <1>3, <1>5 DEF ResultInv, LoopInv
  <1> QED
    BY <1>1, <1>4, <1>6 DEF Inv

LEMMA InvStep ==
  ASSUME Inv, [Next]_vars
  PROVE  Inv'
  <1>1. CASE MergeNothing
    <2>1. /\ regions = <<>> /\ merged' = regions /\ pc' = "check" /\ UNCHANGED <<regions, gap, k, cur>>
      BY <1>1 DEF MergeNothing
    <2>2. ResultInv'
      BY <2>1 DEF ResultInv, Ordered, InMerged, Holds, InRegion, InGap
    <2> QED
      BY <2>1, <2>2 DEF Inv, TypeOK
  <1>2. CASE MergeFirst \/ MergeJoin \/ MergeAppend \/ MergeLast
    BY <1>2, FirstKeeps, JoinKeeps, AppendKeeps, LastKeeps
  <1>3. CASE PrepareWiden
    <2>1. pc' = "call" /\ gap' \in Nat /\ UNCHANGED <<regions, k, cur, merged>>
      BY <1>3 DEF PrepareWiden, Inv, TypeOK
    <2> QED
      BY <2>1 DEF Inv, TypeOK
  <1>4. CASE PrepareReturn
    BY <1>4 DEF PrepareReturn, Inv, TypeOK, ResultInv, InMerged, InRegion, InGap, Closed
  <1>5. CASE UNCHANGED vars
    BY <1>5 DEF vars, Inv, TypeOK, LoopInv, ResultInv, InMerged, InRegion, InGap, Closed
  <1> QED
    BY <1>1, <1>2, <1>3, <1>4, <1>5 DEF Next, mergeRegions, prepareRegions

LEMMA InvHolds == Spec => []Inv
  BY InvInit, InvStep, PTL DEF Spec

\* For every list of changed regions, prepareRegions returns exactly the changed
\* blocks under their types and the gaps it may close (mergeRegions).
THEOREM MergeIsExact == Spec => []MergedExactly
  <1>1. Inv => MergedExactly
    <2> SUFFICES ASSUME Inv, pc = "done", NEW t \in Types
                 PROVE  BlocksOf(merged, t) = BlocksOf(regions, t) \cup ClosedGaps(t)
      BY DEF MergedExactly, Types
    <2>1. /\ ResultInv /\ merged \in Seq(Region) /\ regions \in Seq(Region)
          /\ Len(regions) \in Nat /\ DOMAIN regions = 1 .. Len(regions)
      BY DEF Inv, TypeOK
    <2>2. ASSUME NEW r \in Region, NEW b \in Blocks(r) PROVE b \in Int
      BY <2>2 DEF Blocks, Region, End
    <2>3. \A b : b \in BlocksOf(merged, t) <=> b \in Int /\ InMerged(b, t)
      BY <2>1, <2>2, ListFacts DEF BlocksOf, InMerged, Holds
    <2>4. \A b : b \in BlocksOf(regions, t) <=> b \in Int /\ InRegion(b, t, Len(regions))
      BY <2>1, <2>2, ListFacts DEF BlocksOf, InRegion
    <2>5. \A b : b \in ClosedGaps(t) <=> b \in Int /\ InGap(b, t, Len(regions))
      <3>1. \A b : b \in ClosedGaps(t) <=> InGap(b, t, Len(regions))
        BY DEF ClosedGaps, InGap, Closed
      <3>2. ASSUME NEW b, InGap(b, t, Len(regions)) PROVE b \in Int
        BY <3>2, <2>1 DEF InGap
      <3> QED
        BY <3>1, <3>2
    <2> QED
      BY <2>1, <2>3, <2>4, <2>5 DEF ResultInv
  <1> QED
    BY <1>1, InvHolds, PTL

\* What prepareRegions returns is ordered and free of overlaps: no two workers
\* of the delta-sync Job write the same block.
THEOREM MergeIsOrdered == Spec => []MergedOrdered
  <1>1. Inv => MergedOrdered
    BY DEF Inv, ResultInv, MergedOrdered
  <1> QED
    BY <1>1, InvHolds, PTL

=============================================================================
