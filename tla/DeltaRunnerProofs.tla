-------------------------- MODULE DeltaRunnerProofs --------------------------
(***************************************************************************)
(* Proofs about DeltaRunner, for every ordered list of regions, any number *)
(* of workers, retries of the Job, errors and crashes.                     *)
(***************************************************************************)
EXTENDS DeltaRunner, FiniteSetTheorems, TLAPS

\* What a block is to hold.
Wanted(b) == IF b \in BlocksOf(regions, "ZEROED") THEN "zero" ELSE "snapshot"

Ended == {r \in Index : go[r].st = "end"}

(***************************************************************************)
(* The parts of the inductive invariant.                                   *)
(***************************************************************************)

\* Job, pod and main goroutine go together.
PodInv ==
    /\ job = "active" => pods <= BackoffLimit
    /\ main \in {"spawn", "receive", "fsync"} => job = "active"
    /\ job = "complete" => main = "exit0"
    /\ job = "failed" => main = "start"
    /\ main = "start" => /\ go = [r \in Index |-> NoGoroutine] /\ results = {}
                         /\ next = 1 /\ failed = 0 /\ received = 0
    /\ main = "spawn" => \A r \in Index : r >= next => go[r] = NoGoroutine

\* Every goroutine that has ended has one result, in the channel or received,
\* and an error among them is not lost.
CountInv ==
    /\ IsFiniteSet(results)
    /\ Cardinality(Ended) = received + Cardinality(results)
    /\ \A res \in results : go[res.idx].st = "end" /\ res.err = go[res.idx].err
    /\ \A r \in Index : go[r].st = "end" /\ go[r].err =>
          failed > 0 \/ [idx |-> r, err |-> TRUE] \in results
    /\ main \in {"fsync", "exit0"} => \A r \in Index : go[r].st = "end" /\ ~go[r].err

\* The blocks a goroutine has behind it are in the page cache.
CopyAt(r) ==
    /\ go[r].st = "copy" => /\ go[r].done <= regions[r].len
                            /\ \A b \in Blocks(regions[r]) : b < At(r) => cache[b] = Wants(r)
    /\ go[r].st \in {"copy", "sleep"} => ~go[r].err
    /\ go[r].st \in {"report", "end"} /\ ~go[r].err =>
          \A b \in Blocks(regions[r]) : cache[b] = Wants(r)

CopyInv == \A r \in Index : CopyAt(r)

\* What is durable is not overwritten with anything else.
DiskInv ==
    /\ \A b \in JobBlocks : disk[b] = Wanted(b) => cache[b] = Wanted(b)
    /\ main = "exit0" => cache = disk /\ \A b \in JobBlocks : cache[b] = Wanted(b)

Inv == TypeOK /\ PodInv /\ CountInv /\ CopyInv /\ DiskInv

-----------------------------------------------------------------------------
(***************************************************************************)
(* Regions and their blocks.                                               *)
(***************************************************************************)

LEMMA IndexFacts ==
  /\ Len(regions) \in Nat /\ Index = 1 .. Len(regions)
  /\ IsFiniteSet(Index) /\ Cardinality(Index) = Len(regions)
  /\ \A r \in Index : /\ regions[r] \in Region /\ regions[r].off \in Nat /\ regions[r].len \in Nat
                      /\ regions[r].type \in {"REGULAR", "ZEROED"}
  <1>1. Len(regions) \in Nat /\ Index = 1 .. Len(regions) /\ \A r \in Index : regions[r] \in Region
    BY RunnerAssumption DEF Index
  <1>2. IsFiniteSet(1 .. Len(regions)) /\ Cardinality(1 .. Len(regions)) = Len(regions)
    <2>1. \A a, b \in Int : /\ IsFiniteSet(a .. b)
                            /\ Cardinality(a .. b) = IF a > b THEN 0 ELSE b - a + 1
      BY FS_Interval
    <2>2. 1 \in Int /\ Len(regions) \in Int
      BY <1>1
    <2>3. /\ IsFiniteSet(1 .. Len(regions))
          /\ Cardinality(1 .. Len(regions)) = IF 1 > Len(regions) THEN 0 ELSE Len(regions) - 1 + 1
      BY <2>1, <2>2
    <2> QED
      BY <1>1, <2>3
  <1> QED
    BY <1>1, <1>2 DEF Region

LEMMA BlockFacts ==
  ASSUME NEW r \in Index
  PROVE  \A b : b \in Blocks(regions[r])
            <=> b \in Int /\ regions[r].off <= b /\ b < regions[r].off + regions[r].len
  BY IndexFacts DEF Blocks, End

\* Two regions have no block in common.
LEMMA Disjoint ==
  ASSUME NEW r \in Index, NEW q \in Index, NEW b \in Blocks(regions[r]), b \in Blocks(regions[q])
  PROVE  r = q
  <1> SUFFICES ASSUME r # q PROVE FALSE
    OBVIOUS
  <1>1. \A x, y \in Index : x < y => End(regions[x]) <= regions[y].off
    BY RunnerAssumption DEF Ordered, Index
  <1>2. r < q \/ q < r
    BY IndexFacts
  <1>3. /\ b \in Int
        /\ regions[r].off <= b /\ b < End(regions[r])
        /\ regions[q].off <= b /\ b < End(regions[q])
    BY BlockFacts DEF End
  <1>4. /\ regions[r].off \in Int /\ End(regions[r]) \in Int
        /\ regions[q].off \in Int /\ End(regions[q]) \in Int
    BY IndexFacts DEF End
  <1>5. CASE r < q
    BY <1>1, <1>3, <1>4, <1>5
  <1>6. CASE q < r
    BY <1>1, <1>3, <1>4, <1>6
  <1> QED
    BY <1>2, <1>5, <1>6

\* A goroutine writes to its blocks what they are to hold.
LEMMA WantsWanted ==
  ASSUME NEW r \in Index, NEW b \in Blocks(regions[r])
  PROVE  b \in JobBlocks /\ Wants(r) = Wanted(b)
  <1>1. b \in BlocksOf(regions, regions[r].type)
    BY DEF BlocksOf, Index
  <1>2. b \in JobBlocks
    BY <1>1, IndexFacts DEF JobBlocks
  <1>3. CASE regions[r].type = "ZEROED"
    BY <1>1, <1>2, <1>3 DEF Wants, Wanted
  <1>4. CASE regions[r].type # "ZEROED"
    <2>1. b \notin BlocksOf(regions, "ZEROED")
      <3> SUFFICES ASSUME b \in BlocksOf(regions, "ZEROED") PROVE FALSE
        OBVIOUS
      <3>1. PICK q \in Index : regions[q].type = "ZEROED" /\ b \in Blocks(regions[q])
        BY DEF BlocksOf, Index
      <3> QED
        BY <1>4, <3>1, Disjoint
    <2> QED
      BY <1>2, <1>4, <2>1 DEF Wants, Wanted
  <1> QED
    BY <1>3, <1>4

LEMMA BlockOfRegion ==
  ASSUME NEW b \in JobBlocks
  PROVE  \E r \in Index : b \in Blocks(regions[r])
  BY DEF JobBlocks, BlocksOf, Index

LEMMA WantsType ==
  /\ \A r \in Index : Wants(r) \in Content
  /\ \A b : Wanted(b) \in Content /\ Wanted(b) # "old"
  BY DEF Wants, Wanted, Content

LEMMA EndedFacts ==
  /\ IsFiniteSet(Ended) /\ Cardinality(Ended) \in Nat /\ Cardinality(Ended) <= Len(regions)
  /\ Cardinality(Ended) = Len(regions) => Ended = Index
  <1>1. Ended \in SUBSET Index
    BY DEF Ended
  <1> QED
    BY <1>1, IndexFacts, FS_Subset, FS_CardinalityType

-----------------------------------------------------------------------------
LEMMA InvInit == Init => Inv
  <1> SUFFICES ASSUME Init PROVE Inv
    OBVIOUS
  <1>1. TypeOK
    <2>1. go \in [Index -> Goroutine]
      BY DEF Init, NoGoroutine, Goroutine
    <2> QED
      BY <2>1, IndexFacts, RunnerAssumption DEF Init, TypeOK, Content
  <1>2. PodInv
    BY RunnerAssumption DEF Init, PodInv
  <1>3. CountInv
    <2>1. Ended = {}
      BY DEF Init, Ended, NoGoroutine
    <2> QED
      BY <2>1, FS_EmptySet DEF Init, CountInv, NoGoroutine
  <1>4. CopyInv
    BY DEF Init, CopyInv, CopyAt, NoGoroutine
  <1>5. DiskInv
    BY WantsType DEF Init, DiskInv
  <1> QED
    BY <1>1, <1>2, <1>3, <1>4, <1>5 DEF Inv

\* The pod ends without success.
LEMMA PodFailsKeeps ==
  ASSUME Inv, job = "active", PodFails, cache' \in {cache, disk}, UNCHANGED disk,
         errors' \in 0 .. MaxErrors, crashes' \in 0 .. MaxCrashes
  PROVE  Inv'
  <1>1. TypeOK'
    <2>1. go' \in [Index -> Goroutine]
      BY DEF PodFails, NoGoroutine, Goroutine
    <2>2. pods' \in 0 .. BackoffLimit + 1 /\ job' \in {"active", "complete", "failed"}
      BY RunnerAssumption DEF PodFails, Inv, TypeOK, PodInv
    <2> QED
      BY <2>1, <2>2, IndexFacts DEF PodFails, Inv, TypeOK
  <1>2. PodInv'
    BY RunnerAssumption DEF PodFails, Inv, TypeOK, PodInv
  <1>3. CountInv'
    <2>1. Ended' = {}
      BY DEF PodFails, Ended, NoGoroutine
    <2> QED
      BY <2>1, FS_EmptySet DEF PodFails, CountInv, NoGoroutine
  <1>4. CopyInv'
    BY DEF PodFails, CopyInv, CopyAt, NoGoroutine
  <1>5. DiskInv'
    BY DEF Inv, PodFails, DiskInv
  <1> QED
    BY <1>1, <1>2, <1>3, <1>4, <1>5 DEF Inv

\* A step of the main goroutine that leaves goroutines and results alone.
LEMMA SameGo ==
  ASSUME Inv, UNCHANGED <<go, results, failed, received>>
  PROVE  /\ Ended' = Ended
         /\ \A r \in Index : At(r)' = At(r)
  BY DEF Ended, At

\* Start, Spawned and Exit0: only the main goroutine or the Job moves on.
LEMMA MainKeeps ==
  ASSUME Inv, Start \/ Spawned \/ Exit0
  PROVE  Inv'
  <1>1. UNCHANGED <<pods, next, go, results, failed, received, cache, disk, errors, crashes>>
    BY DEF Start, Spawned, Exit0, podVars
  <1>2. TypeOK'
    BY <1>1 DEF Inv, TypeOK, Start, Spawned, Exit0, podVars
  <1>3. PodInv'
    <2>1. CASE Start
      <3>1. \A r \in Index : go'[r] = NoGoroutine
        BY <1>1, <2>1 DEF Start, Inv, PodInv
      <3> QED
        BY <1>1, <2>1, <3>1 DEF Start, Inv, PodInv
    <2>2. CASE Spawned
      BY <1>1, <2>2 DEF Spawned, Inv, PodInv
    <2>3. CASE Exit0
      BY <1>1, <2>3 DEF Exit0, Inv, PodInv, podVars
    <2> QED
      BY <2>1, <2>2, <2>3
  <1>4. CountInv'
    BY <1>1, SameGo DEF Start, Spawned, Exit0, podVars, Inv, CountInv
  <1>5. CopyInv'
    BY <1>1, SameGo DEF Inv, CopyInv, CopyAt, Wants
  <1>6. DiskInv'
    BY <1>1 DEF Start, Spawned, Exit0, podVars, Inv, DiskInv
  <1> QED
    BY <1>2, <1>3, <1>4, <1>5, <1>6 DEF Inv

LEMMA GoroutineUpdate ==
  ASSUME NEW g \in Goroutine, NEW s \in {"none", "copy", "sleep", "report", "end"},
         NEW a \in 0 .. 3
  PROVE  [g EXCEPT !.st = s, !.attempt = a] \in Goroutine
  BY DEF Goroutine

LEMMA SpawnKeeps ==
  ASSUME Inv, Spawn
  PROVE  Inv'
  <1> DEFINE new == [NoGoroutine EXCEPT !.st = "copy", !.attempt = 1]
  <1>1. PICK n \in Index : n = next /\ go[n] = NoGoroutine
    BY IndexFacts DEF Inv, TypeOK, PodInv, Spawn
  <1>2. new.st = "copy" /\ new.done = 0 /\ ~new.err /\ new \in Goroutine
    <2>1. NoGoroutine \in Goroutine
      BY DEF NoGoroutine, Goroutine
    <2>2. new \in Goroutine
      <3>1. 1 \in 0 .. 3 /\ "copy" \in {"none", "copy", "sleep", "report", "end"}
        OBVIOUS
      <3> QED
        BY <2>1, <3>1, GoroutineUpdate, Zenon
    <2> QED
      BY <2>2 DEF NoGoroutine
  <1> HIDE DEF new
  <1>3. go' = [go EXCEPT ![n] = new] /\ go \in [Index -> Goroutine]
    BY <1>1 DEF Spawn, Inv, TypeOK, new
  <1>4. go'[n] = new /\ \A r \in Index : r # n => go'[r] = go[r]
    BY <1>1, <1>3
  <1>5. TypeOK'
    <2>1. go' \in [Index -> Goroutine]
      BY <1>2, <1>3
    <2>2. next' \in 1 .. Len(regions) + 1
      BY IndexFacts DEF Inv, TypeOK, Spawn
    <2> QED
      BY <2>1, <2>2 DEF Inv, TypeOK, Spawn
  <1>6. PodInv'
    <2>1. \A r \in Index : r >= next' => go'[r] = NoGoroutine
      BY <1>1, <1>4, IndexFacts DEF Inv, PodInv, TypeOK, Spawn
    <2> QED
      BY <2>1 DEF Inv, PodInv, Spawn
  <1>7. CountInv'
    <2>1. Ended' = Ended
      BY <1>1, <1>2, <1>4 DEF Ended, NoGoroutine
    <2>2. \A r \in Index : go'[r].st = "end" => r # n
      BY <1>2, <1>4
    <2>3. \A res \in results : res.idx \in Index /\ res.idx # n
      BY <1>1 DEF Inv, TypeOK, CountInv, NoGoroutine
    <2> QED
      BY <1>4, <2>1, <2>2, <2>3 DEF Inv, CountInv, Spawn
  <1>8. CopyInv'
    <2>1. ASSUME NEW r \in Index, r # n
          PROVE  go'[r] = go[r] /\ At(r)' = At(r)
      BY <1>4, <2>1 DEF At
    <2>2. /\ go'[n].st = "copy" /\ go'[n].done = 0 /\ ~go'[n].err
          /\ At(n)' = regions[n].off
      <3>1. go'[n].st = "copy" /\ go'[n].done = 0 /\ ~go'[n].err
        BY <1>2, <1>4
      <3>2. At(n)' = regions[n].off + go'[n].done
        BY DEF At
      <3> QED
        BY <3>1, <3>2, IndexFacts
    <2>3. /\ go'[n].done <= regions[n].len
          /\ \A b \in Blocks(regions[n]) : ~(b < At(n)')
      <3>1. regions[n].off \in Nat /\ regions[n].len \in Nat
        BY IndexFacts
      <3>2. \A b \in Blocks(regions[n]) : b \in Int /\ regions[n].off <= b
        BY BlockFacts
      <3> QED
        BY <2>2, <3>1, <3>2
    <2>4. cache' = cache
      BY DEF Spawn
    <2>5. ASSUME NEW r \in Index
          PROVE  CopyAt(r)'
      <3>1. CASE r = n
        BY <2>2, <2>3, <3>1 DEF CopyAt, Wants
      <3>2. CASE r # n
        BY <2>1, <2>4, <3>2 DEF Inv, CopyInv, CopyAt, Wants
      <3> QED
        BY <3>1, <3>2
    <2> QED
      BY <2>5 DEF CopyInv
  <1>9. DiskInv'
    BY DEF Inv, DiskInv, Spawn
  <1> QED
    BY <1>5, <1>6, <1>7, <1>8, <1>9 DEF Inv

-----------------------------------------------------------------------------
(***************************************************************************)
(* The steps of the goroutine of region r.                                 *)
(***************************************************************************)

LEMMA Running ==
  ASSUME Inv, NEW r \in Index, go[r].st \in {"copy", "sleep", "report"}
  PROVE  /\ main \in {"spawn", "receive"} /\ job = "active"
         /\ main = "spawn" => r < next
  <1>1. main # "start"
    BY DEF Inv, PodInv, NoGoroutine
  <1>2. main \notin {"fsync", "exit0"}
    BY DEF Inv, CountInv
  <1>3. main \in {"spawn", "receive"}
    BY <1>1, <1>2 DEF Inv, TypeOK
  <1>4. main = "spawn" => r < next
    <2> SUFFICES ASSUME main = "spawn", ~(r < next) PROVE FALSE
      OBVIOUS
    <2>1. r \in Int /\ next \in Int
      BY IndexFacts DEF Inv, TypeOK
    <2>2. go[r] = NoGoroutine
      BY <2>1 DEF Inv, PodInv
    <2> QED
      BY <2>2 DEF NoGoroutine
  <1> QED
    BY <1>3, <1>4 DEF Inv, PodInv

\* What holds whatever a goroutine does to itself and to the blocks of its region.
LEMMA RunFrame ==
  ASSUME Inv, NEW r \in Index, go[r].st \in {"copy", "sleep", "report"},
         NEW g \in Goroutine, go' = [go EXCEPT ![r] = g], CopyAt(r)',
         \/ cache' = cache
         \/ \E b \in Blocks(regions[r]) : cache' = [cache EXCEPT ![b] = Wants(r)],
         UNCHANGED <<job, pods, main, next, disk, failed, received, crashes>>,
         errors' \in 0 .. MaxErrors, results' \subseteq [idx : Index, err : BOOLEAN]
  PROVE  TypeOK' /\ PodInv' /\ CopyInv' /\ DiskInv'
  <1>1. go'[r] = g /\ \A q \in Index : q # r => go'[q] = go[q]
    BY DEF Inv, TypeOK
  <1>2. \A b \in Blocks(regions[r]) : b \in JobBlocks /\ Wants(r) = Wanted(b)
    BY WantsWanted
  <1>3. \A b \in JobBlocks : cache'[b] = cache[b] \/ cache'[b] = Wanted(b)
    BY <1>2 DEF Inv, TypeOK
  <1>4. ASSUME NEW q \in Index, q # r, NEW b \in Blocks(regions[q])
        PROVE  cache'[b] = cache[b]
    <2>1. b \notin Blocks(regions[r])
      BY <1>4, Disjoint
    <2>2. b \in JobBlocks
      BY WantsWanted
    <2> QED
      BY <2>1, <2>2 DEF Inv, TypeOK
  <1>5. TypeOK'
    <2>1. go' \in [Index -> Goroutine]
      BY DEF Inv, TypeOK
    <2>2. cache' \in [JobBlocks -> Content]
      BY <1>2, WantsType DEF Inv, TypeOK
    <2> QED
      BY <2>1, <2>2 DEF Inv, TypeOK
  <1>6. PodInv'
    <2>1. main = "spawn" => \A q \in Index : q >= next => go'[q] = NoGoroutine
      <3> SUFFICES ASSUME main = "spawn", NEW q \in Index, q >= next PROVE go'[q] = NoGoroutine
        OBVIOUS
      <3>1. q # r
        BY Running, IndexFacts DEF Inv, TypeOK
      <3> QED
        BY <1>1, <3>1 DEF Inv, PodInv
    <2> QED
      BY <2>1, Running DEF Inv, PodInv
  <1>7. CopyInv'
    <2> SUFFICES ASSUME NEW q \in Index, q # r PROVE CopyAt(q)'
      BY DEF CopyInv
    <2>1. go'[q] = go[q] /\ At(q)' = At(q)
      BY <1>1 DEF At
    <2>2. CopyAt(q)
      BY DEF Inv, CopyInv
    <2> QED
      BY <1>4, <2>1, <2>2 DEF CopyAt, Wants
  <1>8. DiskInv'
    <2>1. main' # "exit0"
      BY Running
    <2> QED
      BY <1>3, <2>1 DEF Inv, DiskInv
  <1> QED
    BY <1>5, <1>6, <1>7, <1>8

\* Nothing changes for the results when a goroutine goes on.
LEMMA RunCount ==
  ASSUME Inv, NEW r \in Index, go[r].st \in {"copy", "sleep", "report"},
         NEW g \in Goroutine, go' = [go EXCEPT ![r] = g], g.st # "end",
         UNCHANGED <<main, results, failed, received>>
  PROVE  CountInv'
  <1>1. go'[r] = g /\ \A q \in Index : q # r => go'[q] = go[q]
    BY DEF Inv, TypeOK
  <1>2. Ended' = Ended
    BY <1>1 DEF Ended
  <1>3. \A res \in results : res.idx \in Index /\ res.idx # r
    BY DEF Inv, TypeOK, CountInv
  <1>4. main' \notin {"fsync", "exit0"}
    BY Running
  <1>5. \A q \in Index : go'[q].st = "end" => q # r
    BY <1>1
  <1> QED
    BY <1>1, <1>2, <1>3, <1>4, <1>5 DEF Inv, CountInv

\* The block a copying goroutine is at is one of its region, the next one after
\* those it has behind it.
LEMMA AtFacts ==
  ASSUME Inv, NEW r \in Index, go[r].st = "copy", go[r].done < regions[r].len
  PROVE  /\ At(r) \in Blocks(regions[r])
         /\ \A b \in Blocks(regions[r]) : b < At(r) + 1 => b < At(r) \/ b = At(r)
  <1>1. go[r].done \in Nat /\ regions[r].off \in Nat /\ regions[r].len \in Nat
    BY IndexFacts DEF Inv, TypeOK, Goroutine
  <1>2. At(r) \in Int /\ regions[r].off <= At(r) /\ At(r) < regions[r].off + regions[r].len
    BY <1>1 DEF At
  <1> QED
    BY <1>1, <1>2, BlockFacts

LEMMA CopyBlockKeeps ==
  ASSUME Inv, NEW r \in Index, CopyBlock(r)
  PROVE  Inv'
  <1> DEFINE g == [go[r] EXCEPT !.done = @ + 1]
  <1>1. /\ g \in Goroutine /\ g.st = "copy" /\ g.done = go[r].done + 1 /\ g.err = go[r].err
        /\ go' = [go EXCEPT ![r] = g] /\ go'[r] = g
    <2>1. go \in [Index -> Goroutine] /\ go[r] \in Goroutine
      BY DEF Inv, TypeOK
    <2>2. g \in Goroutine /\ g.st = go[r].st /\ g.done = go[r].done + 1 /\ g.err = go[r].err
      BY <2>1 DEF Goroutine
    <2>3. go' = [go EXCEPT ![r] = g] /\ go[r].st = "copy"
      BY DEF CopyBlock
    <2> HIDE DEF g
    <2> QED
      BY <2>1, <2>2, <2>3
  <1> HIDE DEF g
  <1>2. /\ At(r) \in Blocks(regions[r]) /\ At(r) \in JobBlocks
        /\ \A b \in Blocks(regions[r]) : b < At(r) + 1 => b < At(r) \/ b = At(r)
    BY AtFacts, WantsWanted DEF CopyBlock
  <1>3. At(r)' = At(r) + 1
    <2>1. go[r].done \in Nat /\ regions[r].off \in Nat
      BY IndexFacts DEF Inv, TypeOK, Goroutine
    <2> QED
      BY <1>1, <2>1 DEF At
  <1>4. CopyAt(r)'
    <2>1. CopyAt(r) /\ go[r].st = "copy"
      BY DEF Inv, CopyInv, CopyBlock
    <2>2. \A b \in Blocks(regions[r]) : b < At(r)' => cache'[b] = Wants(r)
      <3> SUFFICES ASSUME NEW b \in Blocks(regions[r]), b < At(r)' PROVE cache'[b] = Wants(r)
        OBVIOUS
      <3>1. b \in JobBlocks /\ (b < At(r) \/ b = At(r))
        BY <1>2, <1>3, WantsWanted
      <3>2. b < At(r) => cache[b] = Wants(r)
        BY <2>1 DEF CopyAt
      <3>3. cache' = [cache EXCEPT ![At(r)] = Wants(r)] /\ cache \in [JobBlocks -> Content]
        BY DEF CopyBlock, Inv, TypeOK
      <3> QED
        BY <1>2, <3>1, <3>2, <3>3
    <2>3. go[r].done + 1 <= regions[r].len
      BY IndexFacts DEF CopyBlock, Inv, TypeOK, Goroutine
    <2> QED
      BY <1>1, <2>1, <2>2, <2>3 DEF CopyAt, Wants
  <1>5. TypeOK' /\ PodInv' /\ CopyInv' /\ DiskInv'
    BY <1>1, <1>2, <1>4, RunFrame DEF CopyBlock, Inv, TypeOK
  <1>6. CountInv'
    BY <1>1, RunCount DEF CopyBlock
  <1> QED
    BY <1>5, <1>6 DEF Inv

LEMMA CopyErrorKeeps ==
  ASSUME Inv, NEW r \in Index, CopyError(r)
  PROVE  Inv'
  <1> DEFINE g == [go[r] EXCEPT !.st = "sleep"]
  <1>1. /\ g \in Goroutine /\ g.st = "sleep" /\ g.err = go[r].err
        /\ go' = [go EXCEPT ![r] = g] /\ go'[r] = g
    BY DEF CopyError, Inv, TypeOK, Goroutine
  <1> HIDE DEF g
  <1>2. At(r) \in Blocks(regions[r])
    BY AtFacts DEF CopyError
  <1>3. CopyAt(r)'
    <2>1. CopyAt(r) /\ go[r].st = "copy"
      BY DEF Inv, CopyInv, CopyError
    <2> QED
      BY <1>1, <2>1 DEF CopyAt
  <1>4. errors' \in 0 .. MaxErrors
    BY RunnerAssumption DEF CopyError, Inv, TypeOK
  <1>5. TypeOK' /\ PodInv' /\ CopyInv' /\ DiskInv'
    <2>1. \/ cache' = cache
          \/ \E b \in Blocks(regions[r]) : cache' = [cache EXCEPT ![b] = Wants(r)]
      BY <1>2 DEF CopyError
    <2>2. results' \subseteq [idx : Index, err : BOOLEAN]
      BY DEF CopyError, Inv, TypeOK
    <2> QED
      BY <1>1, <1>3, <1>4, <2>1, <2>2, RunFrame DEF CopyError
  <1>6. CountInv'
    BY <1>1, RunCount DEF CopyError
  <1> QED
    BY <1>5, <1>6 DEF Inv

LEMMA WakeKeeps ==
  ASSUME Inv, NEW r \in Index, Wake(r)
  PROVE  Inv'
  <1> DEFINE g == IF go[r].attempt < 3
                    THEN [go[r] EXCEPT !.st = "copy", !.attempt = go[r].attempt + 1, !.done = 0]
                    ELSE [go[r] EXCEPT !.st = "report", !.err = TRUE]
  <1>1. /\ g \in Goroutine
        /\ \/ g.st = "copy" /\ g.done = 0 /\ g.err = go[r].err
           \/ g.st = "report" /\ g.err
        /\ go' = [go EXCEPT ![r] = g] /\ go'[r] = g
    <2>1. go \in [Index -> Goroutine] /\ go[r] \in Goroutine
      BY DEF Inv, TypeOK
    <2>3. ASSUME NEW x \in {"report"}
          PROVE  LET h == [go[r] EXCEPT !.st = x, !.err = TRUE]
                 IN  h \in Goroutine /\ h.st = "report" /\ h.err
      BY <2>1 DEF Goroutine
    <2>4. go[r].attempt < 3 => go[r].attempt + 1 \in 0 .. 3
      BY <2>1 DEF Goroutine
    <2>5. /\ g \in Goroutine
          /\ \/ g.st = "copy" /\ g.done = 0 /\ g.err = go[r].err
             \/ g.st = "report" /\ g.err
      <3>1. CASE go[r].attempt < 3
        <4> DEFINE h == [go[r] EXCEPT !.st = "copy", !.attempt = go[r].attempt + 1, !.done = 0]
        <4>1. h \in Goroutine /\ h.st = "copy" /\ h.done = 0 /\ h.err = go[r].err
          <5>1. PICK a \in 0 .. 3 : a = go[r].attempt + 1
            BY <2>4, <3>1
          <5>2. PICK x \in {"none", "copy", "sleep", "report", "end"} : x = "copy"
            OBVIOUS
          <5>3. PICK d \in Nat : d = 0
            OBVIOUS
          <5>4. PICK k \in Goroutine : k = go[r]
            BY <2>1
          <5>5. h = [k EXCEPT !.st = x, !.attempt = a, !.done = d]
            BY <5>1, <5>2, <5>3, <5>4
          <5> HIDE DEF h
          <5>6. h \in Goroutine
            BY <5>5 DEF Goroutine
          <5>7. h.st = x
            BY <5>5 DEF Goroutine
          <5>8. h.done = d
            BY <5>5 DEF Goroutine
          <5>9. h.err = k.err
            BY <5>5 DEF Goroutine
          <5> QED
            BY <5>2, <5>3, <5>4, <5>6, <5>7, <5>8, <5>9
        <4>2. g = h
          BY <3>1
        <4> QED
          BY <4>1, <4>2, Zenon
      <3>2. CASE ~(go[r].attempt < 3)
        <4> DEFINE h == [go[r] EXCEPT !.st = "report", !.err = TRUE]
        <4>1. h \in Goroutine /\ h.st = "report" /\ h.err
          BY <2>3, Zenon
        <4>2. g = h
          BY <3>2
        <4> QED
          BY <4>1, <4>2, Zenon
      <3> QED
        BY <3>1, <3>2
    <2>6. go' = [go EXCEPT ![r] = g]
      BY DEF Wake
    <2> HIDE DEF g
    <2> QED
      BY <2>1, <2>5, <2>6
  <1> HIDE DEF g
  <1>2. CopyAt(r)'
    <2>1. CopyAt(r) /\ go[r].st = "sleep"
      BY DEF Inv, CopyInv, Wake
    <2>2. CASE g.st = "report" /\ g.err
      BY <1>1, <2>2 DEF CopyAt
    <2>3. CASE g.st = "copy" /\ g.done = 0 /\ g.err = go[r].err
      <3>1. regions[r].off \in Nat /\ regions[r].len \in Nat
        BY IndexFacts
      <3>2. \A b \in Blocks(regions[r]) : b \in Int /\ regions[r].off <= b
        BY BlockFacts
      <3>3. At(r)' = regions[r].off + 0
        BY <1>1, <2>3 DEF At
      <3>4. \A b \in Blocks(regions[r]) : ~(b < At(r)')
        BY <3>1, <3>2, <3>3
      <3> QED
        BY <1>1, <2>1, <2>3, <3>1, <3>4 DEF CopyAt
    <2> QED
      BY <1>1, <2>2, <2>3
  <1>3. TypeOK' /\ PodInv' /\ CopyInv' /\ DiskInv'
    BY <1>1, <1>2, RunFrame DEF Wake, Inv, TypeOK
  <1>4. CountInv'
    BY <1>1, RunCount DEF Wake
  <1> QED
    BY <1>3, <1>4 DEF Inv

\* The goroutine has copied its whole region.
LEMMA CopyDoneKeeps ==
  ASSUME Inv, NEW r \in Index, CopyDone(r)
  PROVE  Inv'
  <1> DEFINE g == [go[r] EXCEPT !.st = "report"]
  <1>1. /\ g \in Goroutine /\ g.st = "report" /\ g.err = go[r].err
        /\ go' = [go EXCEPT ![r] = g] /\ go'[r] = g
    BY DEF CopyDone, Inv, TypeOK, Goroutine
  <1> HIDE DEF g
  <1>2. CopyAt(r)'
    <2>1. CopyAt(r) /\ go[r].st = "copy" /\ cache' = cache
      BY DEF Inv, CopyInv, CopyDone
    <2>2. \A b \in Blocks(regions[r]) : b < At(r)
      BY BlockFacts DEF At, CopyDone
    <2>3. \A b \in Blocks(regions[r]) : cache[b] = Wants(r)
      BY <2>1, <2>2 DEF CopyAt
    <2> QED
      BY <1>1, <2>1, <2>3 DEF CopyAt, Wants
  <1>3. TypeOK' /\ PodInv' /\ CopyInv' /\ DiskInv'
    BY <1>1, <1>2, RunFrame DEF CopyDone, Inv, TypeOK
  <1>4. CountInv'
    BY <1>1, RunCount DEF CopyDone
  <1> QED
    BY <1>3, <1>4 DEF Inv

LEMMA ReportKeeps ==
  ASSUME Inv, NEW r \in Index, Report(r)
  PROVE  Inv'
  <1> DEFINE g   == [go[r] EXCEPT !.st = "end"]
             res == [idx |-> r, err |-> go[r].err]
  <1>1. /\ g \in Goroutine /\ g.st = "end" /\ g.err = go[r].err
        /\ go' = [go EXCEPT ![r] = g] /\ go'[r] = g /\ go[r].err \in BOOLEAN
        /\ \A q \in Index : q # r => go'[q] = go[q]
    BY DEF Report, Inv, TypeOK, Goroutine
  <1> HIDE DEF g
  <1>2. /\ res \in [idx : Index, err : BOOLEAN] /\ res.idx = r /\ res.err = go[r].err
        /\ results' = results \cup {res}
    BY <1>1 DEF Report
  <1>3. CopyAt(r)'
    <2>1. CopyAt(r) /\ go[r].st = "report" /\ cache' = cache
      BY DEF Inv, CopyInv, Report
    <2> QED
      BY <1>1, <2>1 DEF CopyAt, Wants
  <1>4. TypeOK' /\ PodInv' /\ CopyInv' /\ DiskInv'
    <2>1. results' \subseteq [idx : Index, err : BOOLEAN]
      BY <1>2 DEF Inv, TypeOK
    <2> QED
      BY <1>1, <1>3, <2>1, RunFrame DEF Report, Inv, TypeOK
  <1>5. CountInv'
    <2>1. Ended' = Ended \cup {r} /\ r \notin Ended
      BY <1>1 DEF Ended, Report
    <2>2. res \notin results
      BY <1>2 DEF Inv, CountInv, Report
    <2>3. IsFiniteSet(results) /\ Cardinality(results) \in Nat
      BY FS_CardinalityType DEF Inv, CountInv
    <2>4. IsFiniteSet(results') /\ Cardinality(results') = Cardinality(results) + 1
      BY <1>2, <2>2, <2>3, FS_AddElement
    <2>5. Cardinality(Ended') = Cardinality(Ended) + 1
      BY <2>1, EndedFacts, FS_AddElement
    <2>6. Cardinality(Ended') = received' + Cardinality(results')
      <3>1. Cardinality(Ended) = received + Cardinality(results) /\ received' = received /\ received \in Nat
        BY DEF Inv, CountInv, TypeOK, Report
      <3> QED
        BY <2>3, <2>4, <2>5, <3>1
    <2>7. \A x \in results' : go'[x.idx].st = "end" /\ x.err = go'[x.idx].err
      <3> SUFFICES ASSUME NEW x \in results' PROVE go'[x.idx].st = "end" /\ x.err = go'[x.idx].err
        OBVIOUS
      <3>1. CASE x = res
        BY <1>1, <1>2, <3>1
      <3>2. CASE x # res
        <4>1. x \in results /\ x.idx \in Index /\ x.idx # r
          BY <1>2, <3>2 DEF Inv, TypeOK, CountInv, Report
        <4> QED
          BY <1>1, <4>1 DEF Inv, CountInv
      <3> QED
        BY <3>1, <3>2
    <2>8. \A q \in Index : go'[q].st = "end" /\ go'[q].err =>
             failed' > 0 \/ [idx |-> q, err |-> TRUE] \in results'
      <3> SUFFICES ASSUME NEW q \in Index, go'[q].st = "end", go'[q].err
                   PROVE  failed' > 0 \/ [idx |-> q, err |-> TRUE] \in results'
        OBVIOUS
      <3>1. CASE q = r
        <4>1. res = [idx |-> q, err |-> TRUE]
          BY <1>1, <3>1
        <4> QED
          BY <1>2, <4>1
      <3>2. CASE q # r
        BY <1>1, <1>2, <3>2 DEF Inv, CountInv, Report
      <3> QED
        BY <3>1, <3>2
    <2>9. main' \notin {"fsync", "exit0"}
      BY Running DEF Report
    <2> QED
      BY <2>4, <2>6, <2>7, <2>8, <2>9 DEF CountInv
  <1> QED
    BY <1>4, <1>5 DEF Inv

-----------------------------------------------------------------------------
(***************************************************************************)
(* The main goroutine collects the results.                                *)
(***************************************************************************)

LEMMA ReceiveKeeps ==
  ASSUME Inv, NEW res \in results, Receive(res)
  PROVE  Inv'
  <1>1. /\ UNCHANGED <<job, pods, main, next, go, cache, disk, errors, crashes>>
        /\ results' = results \ {res} /\ received' = received + 1 /\ main = "receive"
        /\ failed' = failed + (IF res.err THEN 1 ELSE 0)
    BY DEF Receive
  <1>2. Ended' = Ended /\ \A r \in Index : At(r)' = At(r)
    BY <1>1 DEF Ended, At
  <1>3. IsFiniteSet(results) /\ Cardinality(results) \in Nat /\ received \in Nat /\ failed \in Nat
    BY FS_CardinalityType DEF Inv, CountInv, TypeOK
  <1>4. IsFiniteSet(results') /\ Cardinality(results') = Cardinality(results) - 1
    BY <1>1, <1>3, FS_RemoveElement
  <1>5. Cardinality(results') \in Nat
    BY <1>4, FS_CardinalityType
  <1>6. Cardinality(Ended) = received' + Cardinality(results')
    BY <1>1, <1>3, <1>4 DEF Inv, CountInv
  <1>7. TypeOK'
    <2>1. received' \in 0 .. Len(regions)
      BY <1>1, <1>3, <1>5, <1>6, EndedFacts, IndexFacts
    <2>2. failed' \in 0 .. received'
      BY <1>1, <1>3 DEF Inv, TypeOK
    <2> QED
      BY <1>1, <2>1, <2>2 DEF Inv, TypeOK
  <1>8. PodInv'
    BY <1>1 DEF Inv, PodInv
  <1>9. CountInv'
    <2>1. \A r \in Index : go[r].st = "end" /\ go[r].err =>
             failed' > 0 \/ [idx |-> r, err |-> TRUE] \in results'
      <3> SUFFICES ASSUME NEW r \in Index, go[r].st = "end", go[r].err,
                          [idx |-> r, err |-> TRUE] \notin results'
                   PROVE  failed' > 0
        OBVIOUS
      <3>1. failed > 0 \/ [idx |-> r, err |-> TRUE] \in results
        BY DEF Inv, CountInv
      <3>2. CASE failed > 0
        BY <1>1, <1>3, <3>2
      <3>3. CASE [idx |-> r, err |-> TRUE] \in results
        <4>1. res = [idx |-> r, err |-> TRUE]
          BY <1>1, <3>3
        <4>2. res.err = TRUE
          BY <4>1
        <4> QED
          BY <1>1, <1>3, <4>2
      <3> QED
        BY <3>1, <3>2, <3>3
    <2> QED
      BY <1>1, <1>2, <1>4, <1>6, <2>1 DEF Inv, CountInv
  <1>10. CopyInv'
    BY <1>1, <1>2 DEF Inv, CopyInv, CopyAt, Wants
  <1>11. DiskInv'
    BY <1>1 DEF Inv, DiskInv
  <1> QED
    BY <1>7, <1>8, <1>9, <1>10, <1>11 DEF Inv

\* All results are in and none of them is an error: every goroutine has ended,
\* and every block is in the page cache.
LEMMA ReceivedSuccessKeeps ==
  ASSUME Inv, ReceivedSuccess
  PROVE  Inv'
  <1>1. /\ UNCHANGED <<job, pods, next, go, results, failed, received, cache, disk, errors, crashes>>
        /\ main = "receive" /\ main' = "fsync" /\ received = Len(regions) /\ failed = 0
    BY DEF ReceivedSuccess, ReceivedAll
  <1>2. IsFiniteSet(results) /\ Cardinality(results) \in Nat /\ Len(regions) \in Nat
    BY FS_CardinalityType, IndexFacts DEF Inv, CountInv
  <1>3. Cardinality(Ended) = Len(regions) /\ Cardinality(results) = 0
    BY <1>1, <1>2, EndedFacts DEF Inv, CountInv
  <1>4. results = {} /\ Ended = Index
    BY <1>2, <1>3, FS_EmptySet, EndedFacts
  <1>5. \A r \in Index : go[r].st = "end" /\ ~go[r].err
    BY <1>1, <1>4 DEF Inv, CountInv, Ended
  <1>6. TypeOK'
    BY <1>1 DEF Inv, TypeOK
  <1>7. PodInv'
    BY <1>1 DEF Inv, PodInv
  <1>8. CountInv'
    BY <1>1, <1>5, SameGo DEF Inv, CountInv
  <1>9. CopyInv'
    BY <1>1, SameGo DEF Inv, CopyInv, CopyAt, Wants
  <1>10. DiskInv'
    BY <1>1 DEF Inv, DiskInv
  <1> QED
    BY <1>6, <1>7, <1>8, <1>9, <1>10 DEF Inv

LEMMA FsyncKeeps ==
  ASSUME Inv, Fsync
  PROVE  Inv'
  <1>1. /\ UNCHANGED <<job, pods, next, go, results, failed, received, cache, errors, crashes>>
        /\ main = "fsync" /\ main' = "exit0" /\ disk' = cache
    BY DEF Fsync
  <1>2. ASSUME NEW b \in JobBlocks
        PROVE  cache[b] = Wanted(b)
    <2>1. PICK r \in Index : b \in Blocks(regions[r])
      BY BlockOfRegion
    <2>2. CopyAt(r) /\ go[r].st = "end" /\ ~go[r].err
      BY <1>1 DEF Inv, CopyInv, CountInv
    <2> QED
      BY <2>1, <2>2, WantsWanted DEF CopyAt
  <1>3. TypeOK'
    BY <1>1 DEF Inv, TypeOK
  <1>4. PodInv'
    BY <1>1 DEF Inv, PodInv
  <1>5. CountInv'
    BY <1>1, SameGo DEF Inv, CountInv
  <1>6. CopyInv'
    BY <1>1, SameGo DEF Inv, CopyInv, CopyAt, Wants
  <1>7. DiskInv'
    BY <1>1, <1>2 DEF DiskInv, Wanted
  <1> QED
    BY <1>3, <1>4, <1>5, <1>6, <1>7 DEF Inv

-----------------------------------------------------------------------------
(***************************************************************************)
(* The environment.                                                        *)
(***************************************************************************)

LEMMA WriteBackKeeps ==
  ASSUME Inv, NEW b \in JobBlocks, WriteBack(b)
  PROVE  Inv'
  <1>1. /\ UNCHANGED <<job, pods, main, next, go, results, failed, received, cache, errors, crashes>>
        /\ disk' = [disk EXCEPT ![b] = cache[b]] /\ disk[b] # cache[b]
    BY DEF WriteBack, podVars
  <1>2. TypeOK'
    BY <1>1 DEF Inv, TypeOK
  <1>3. PodInv'
    BY <1>1 DEF Inv, PodInv
  <1>4. CountInv'
    BY <1>1, SameGo DEF Inv, CountInv
  <1>5. CopyInv'
    BY <1>1, SameGo DEF Inv, CopyInv, CopyAt, Wants
  <1>6. DiskInv'
    <2>1. \A c \in JobBlocks : disk'[c] = disk[c] \/ disk'[c] = cache[c]
      BY <1>1 DEF Inv, TypeOK
    <2>2. main # "exit0"
      BY <1>1 DEF Inv, DiskInv
    <2> QED
      BY <1>1, <2>1, <2>2 DEF Inv, DiskInv, Wanted
  <1> QED
    BY <1>2, <1>3, <1>4, <1>5, <1>6 DEF Inv

LEMMA NodeCrashKeeps ==
  ASSUME Inv, NodeCrash
  PROVE  Inv'
  <1>1. /\ UNCHANGED <<job, pods, main, next, go, results, failed, received, disk, errors>>
        /\ job # "active" /\ cache' = disk /\ crashes' = crashes + 1 /\ crashes < MaxCrashes
    BY DEF NodeCrash, podVars
  <1>2. main \in {"start", "exit0"}
    BY <1>1 DEF Inv, PodInv, TypeOK
  <1>3. TypeOK'
    BY <1>1, RunnerAssumption DEF Inv, TypeOK
  <1>4. PodInv'
    BY <1>1 DEF Inv, PodInv
  <1>5. CountInv'
    BY <1>1, SameGo DEF Inv, CountInv
  <1>6. CASE main = "exit0"
    <2>1. cache' = cache
      BY <1>1, <1>6 DEF Inv, DiskInv
    <2>2. CopyInv'
      BY <1>1, <2>1, SameGo DEF Inv, CopyInv, CopyAt, Wants
    <2>3. DiskInv'
      BY <1>1, <2>1 DEF Inv, DiskInv, Wanted
    <2> QED
      BY <1>3, <1>4, <1>5, <2>2, <2>3 DEF Inv
  <1>7. CASE main = "start"
    <2>1. \A r \in Index : go'[r] = NoGoroutine
      BY <1>1, <1>7 DEF Inv, PodInv
    <2>2. CopyInv'
      BY <2>1 DEF CopyInv, CopyAt, NoGoroutine
    <2>3. DiskInv'
      BY <1>1, <1>7 DEF DiskInv, Wanted
    <2> QED
      BY <1>3, <1>4, <1>5, <2>2, <2>3 DEF Inv
  <1> QED
    BY <1>2, <1>6, <1>7

-----------------------------------------------------------------------------
LEMMA InvStep == Inv /\ [Next]_vars => Inv'
  <1> SUFFICES ASSUME Inv, [Next]_vars PROVE Inv'
    OBVIOUS
  <1>1. CASE Start \/ Spawned \/ Exit0
    BY <1>1, MainKeeps
  <1>2. CASE StartError
    <2>1. errors' \in 0 .. MaxErrors /\ crashes' \in 0 .. MaxCrashes
      BY <1>2, RunnerAssumption DEF StartError, Inv, TypeOK
    <2> QED
      BY <1>2, <2>1, PodFailsKeeps DEF StartError
  <1>3. CASE Spawn
    BY <1>3, SpawnKeeps
  <1>4. CASE \E res \in results : Receive(res)
    BY <1>4, ReceiveKeeps
  <1>5. CASE ReceivedFailure
    <2>1. job = "active" /\ errors' \in 0 .. MaxErrors /\ crashes' \in 0 .. MaxCrashes
      BY <1>5 DEF ReceivedFailure, Inv, TypeOK, PodInv
    <2> QED
      BY <1>5, <2>1, PodFailsKeeps DEF ReceivedFailure
  <1>6. CASE ReceivedSuccess
    BY <1>6, ReceivedSuccessKeeps
  <1>7. CASE Fsync
    BY <1>7, FsyncKeeps
  <1>8. CASE FsyncError
    <2>1. job = "active" /\ errors' \in 0 .. MaxErrors /\ crashes' \in 0 .. MaxCrashes
      BY <1>8, RunnerAssumption DEF FsyncError, Inv, TypeOK, PodInv
    <2> QED
      BY <1>8, <2>1, PodFailsKeeps DEF FsyncError
  <1>9. CASE \E r \in Index : Run(r)
    BY <1>9, CopyBlockKeeps, CopyErrorKeeps, WakeKeeps, CopyDoneKeeps, ReportKeeps DEF Run
  <1>10. CASE \E b \in JobBlocks : WriteBack(b)
    BY <1>10, WriteBackKeeps
  <1>11. CASE PodCrash
    <2>1. errors' \in 0 .. MaxErrors /\ crashes' \in 0 .. MaxCrashes
      BY <1>11, RunnerAssumption DEF PodCrash, Inv, TypeOK
    <2> QED
      BY <1>11, <2>1, PodFailsKeeps DEF PodCrash
  <1>12. CASE NodeCrash
    BY <1>12, NodeCrashKeeps
  <1>13. CASE UNCHANGED vars
    <2>1. UNCHANGED <<job, pods, main, next, go, results, failed, received, cache, disk, errors, crashes>>
      BY <1>13 DEF vars, podVars
    <2> QED
      BY <2>1, SameGo
      DEF Inv, TypeOK, PodInv, CountInv, CopyInv, CopyAt, Wants, DiskInv, Wanted
  <1> QED
    BY <1>1, <1>2, <1>3, <1>4, <1>5, <1>6, <1>7, <1>8, <1>9, <1>10, <1>11, <1>12, <1>13
    DEF Next, runDeltaSync

\* The inductive invariant holds in every reachable state.
THEOREM InvHolds == Spec => []Inv
  <1>1. Init => Inv
    BY InvInit
  <1>2. Inv /\ [Next]_vars => Inv'
    BY InvStep
  <1> QED
    BY <1>1, <1>2, PTL DEF Spec

\* A Job that has succeeded has all its regions on the disk, and the page cache
\* holds nothing else that a crash of the node could still take back
\* (runDeltaSync: results, then Sync, then exit code 0), for every list of
\* regions, every number of workers and any errors, retries and crashes.
THEOREM RunnerIsDurable == Spec => []SuccessIsDurable
  <1>1. Inv => SuccessIsDurable
    BY DEF Inv, PodInv, DiskInv, SuccessIsDurable, Copied, Wanted
  <1> QED
    BY <1>1, InvHolds, PTL

\* When the main goroutine syncs the target (runDeltaSync after its last result)
\* no goroutine of the pod writes to it any more.
THEOREM FsyncCoversAll == Spec => []QuietAtFsync
  <1>1. Inv => QuietAtFsync
    BY DEF Inv, CountInv, QuietAtFsync
  <1> QED
    BY <1>1, InvHolds, PTL

-----------------------------------------------------------------------------
(***************************************************************************)
(* The safety part of the refinement of DeltaJob.                          *)
(***************************************************************************)

\* A block that is durable stays so: write-back and fsync write what the page
\* cache holds, and that has not been overwritten with anything else.
LEMMA CopiedGrows ==
  ASSUME Inv, [Next]_vars
  PROVE  Copied \subseteq Copied'
  <1>1. \/ disk' = disk
        \/ disk' = cache
        \/ \E b \in JobBlocks : disk' = [disk EXCEPT ![b] = cache[b]]
    BY DEF Next, vars, runDeltaSync, Start, StartError, Spawn, Spawned, Receive, ReceivedFailure,
           ReceivedSuccess, Fsync, FsyncError, Exit0, Run, CopyBlock, CopyError, Wake, CopyDone,
           Report, WriteBack, PodCrash, NodeCrash
  <1>2. ASSUME NEW b \in JobBlocks, disk[b] = Wanted(b)
        PROVE  disk'[b] = Wanted(b)
    <2>1. cache[b] = Wanted(b)
      BY <1>2 DEF Inv, DiskInv
    <2> QED
      BY <1>1, <1>2, <2>1 DEF Inv, TypeOK
  <1> QED
    BY <1>2 DEF Copied, Wanted

LEMMA JobStep ==
  ASSUME Inv, [Next]_vars
  PROVE  [JobSpec!Next]_(JobSpec!vars)
  <1>1. Copied' \subseteq JobBlocks
    BY DEF Copied
  <1>2. CASE job' = job
    BY <1>1, <1>2, CopiedGrows DEF JobSpec!Next, JobSpec!Copy
  <1>3. CASE job' # job
    <2>1. CASE Exit0
      <3>1. Copied = JobBlocks
        BY <2>1 DEF Exit0, Inv, DiskInv, Copied, Wanted
      <3>2. job = "active" /\ job' = "complete" /\ Copied' = Copied
        BY <2>1 DEF Exit0, Copied
      <3> QED
        BY <3>1, <3>2 DEF JobSpec!Next, JobSpec!Complete
    <2>2. CASE PodFails /\ disk' = disk
      <3>1. job' = "failed" /\ Copied' = Copied /\ pods = BackoffLimit
        BY <1>3, <2>2 DEF PodFails, Copied
      <3>2. CASE job = "active"
        BY <3>1, <3>2 DEF JobSpec!Next, JobSpec!Fail
      <3>3. CASE job # "active"
        <4>1. CASE ReceivedFailure \/ FsyncError
          BY <3>3, <4>1 DEF ReceivedFailure, FsyncError, Inv, PodInv
        <4>2. CASE ~(ReceivedFailure \/ FsyncError)
          BY <1>3, <3>3, <4>2
          DEF Next, vars, runDeltaSync, Start, StartError, Spawn, Spawned, Receive,
              ReceivedSuccess, Fsync, Exit0, Run, CopyBlock, CopyError, Wake, CopyDone,
              Report, WriteBack, PodCrash, NodeCrash
        <4> QED
          BY <4>1, <4>2
      <3> QED
        BY <3>2, <3>3
    <2> QED
      BY <1>3, <2>1, <2>2
      DEF Next, vars, runDeltaSync, Start, StartError, Spawn, Spawned, Receive, ReceivedFailure,
          ReceivedSuccess, Fsync, FsyncError, Run, CopyBlock, CopyError, Wake, CopyDone,
          Report, WriteBack, PodCrash, NodeCrash
  <1> QED
    BY <1>2, <1>3

\* The runner in its pods takes only steps of the Job that the reconciler waits
\* for (DeltaJob): it never takes a durable block back and succeeds only when
\* all of them are durable (runDeltaSync, buildDeltaSyncJob).  That the Job
\* ends, the rest of ImplementsDeltaJob, is a liveness property.
THEOREM RunnerTakesJobSteps == Spec => JobSpec!Init /\ [][JobSpec!Next]_(JobSpec!vars)
  <1>1. Init => JobSpec!Init
    BY WantsType DEF Init, JobSpec!Init, Copied, Wanted
  <1>2. Inv /\ [Next]_vars => [JobSpec!Next]_(JobSpec!vars)
    BY JobStep
  <1> QED
    BY <1>1, <1>2, InvHolds, PTL DEF Spec

=============================================================================
