--------------------------- MODULE DeltaSyncProofs ---------------------------
(***************************************************************************)
(* The proofs about DeltaSync, for any number of VMs, disks, blocks,       *)
(* rounds, guest writes and aborted passes.                                *)
(*                                                                         *)
(*   - TypeOK.                                                             *)
(*   - Under Quiet (no fault but failing deletions, no ZEROED regions,     *)
(*     SnapshotPaths in the order of the DiskList): the invariant Sandwich,*)
(*     hence that the disks handed over hold what the sources hold, that no*)
(*     base runs ahead of its target, and that the delta sync implements   *)
(*     HandOver.                                                           *)
(*   - With every fault, up to a promotion from which the cache hid an     *)
(*     active Job: that no pod loses its snapshot or writes after the      *)
(*     hand-over, what a shutdown waits for, and that no target goes back  *)
(*     (the last one without ZEROED regions and with SnapshotPaths in      *)
(*     order).                                                             *)
(*   - With every fault: the bound on the rounds, the snapshots that are   *)
(*     lost, and what the clean-up leaves behind.                          *)
(***************************************************************************)
EXTENDS DeltaSyncInv, FiniteSetTheorems, TLAPS

-----------------------------------------------------------------------------
(***************************************************************************)
(* Types.                                                                  *)
(***************************************************************************)

\* The steps inside an iteration of a loop over the VMs have a VM.
InLoop == pc \in {"image", "spawn"} => i <= NumVM

LEMMA NoCopyType == NoCopy \in Copy
  BY DEF NoCopy, Copy, Data

LEMMA SnapshotType ==
  ASSUME TypeOK, NEW v \in VM
  PROVE  Snapshot(v) \in Copy
  BY DEF TypeOK, Snapshot, Copy

\* Updates of one field of a nested record.
LEMMA JobsFieldType ==
  ASSUME NEW f \in [VM -> VMStatus], NEW v \in VM, NEW d \in Disk
  PROVE  [f EXCEPT ![v].jobs = @ \cup {d}] \in [VM -> VMStatus]
  BY DEF VMStatus

LEMMA JobFieldType ==
  ASSUME NEW r \in Job
  PROVE  /\ \A x \in {"complete", "failed"} : [r EXCEPT !.st = x] \in Job
         /\ [r EXCEPT !.cache = "present"] \in Job
         /\ \A b \in Block : [r EXCEPT !.left = @ \ {b}] \in Job
  <1>1. ASSUME NEW x \in {"complete", "failed"} PROVE [r EXCEPT !.st = x] \in Job
    BY DEF Job
  <1>2. [r EXCEPT !.cache = "present"] \in Job
    BY DEF Job
  <1>3. ASSUME NEW b \in Block PROVE [r EXCEPT !.left = @ \ {b}] \in Job
    BY DEF Job
  <1> QED
    BY <1>1, <1>2, <1>3

LEMMA JobUpdateType ==
  ASSUME NEW f \in [VM -> [Disk -> Job]], NEW v \in VM, NEW d \in Disk, NEW r \in Job
  PROVE  [f EXCEPT ![v][d] = r] \in [VM -> [Disk -> Job]]
  OBVIOUS

LEMMA JobStType ==
  ASSUME NEW f \in [VM -> [Disk -> Job]], NEW v \in VM, NEW d \in Disk,
         NEW x \in {"complete", "failed"}
  PROVE  [f EXCEPT ![v][d].st = x] \in [VM -> [Disk -> Job]]
  <1>1. [f[v][d] EXCEPT !.st = x] \in Job
    BY JobFieldType
  <1>2. [f EXCEPT ![v][d].st = x] = [f EXCEPT ![v][d] = [f[v][d] EXCEPT !.st = x]]
    OBVIOUS
  <1> QED
    BY <1>1, <1>2, JobUpdateType

LEMMA JobCacheType ==
  ASSUME NEW f \in [VM -> [Disk -> Job]], NEW v \in VM, NEW d \in Disk
  PROVE  [f EXCEPT ![v][d].cache = "present"] \in [VM -> [Disk -> Job]]
  <1>1. [f[v][d] EXCEPT !.cache = "present"] \in Job
    BY JobFieldType
  <1>2. [f EXCEPT ![v][d].cache = "present"]
          = [f EXCEPT ![v][d] = [f[v][d] EXCEPT !.cache = "present"]]
    OBVIOUS
  <1> QED
    BY <1>1, <1>2, JobUpdateType

LEMMA JobLeftType ==
  ASSUME NEW f \in [VM -> [Disk -> Job]], NEW v \in VM, NEW d \in Disk, NEW b \in Block
  PROVE  [f EXCEPT ![v][d].left = @ \ {b}] \in [VM -> [Disk -> Job]]
  <1>1. [f[v][d] EXCEPT !.left = @ \ {b}] \in Job
    BY JobFieldType
  <1>2. [f EXCEPT ![v][d].left = @ \ {b}]
          = [f EXCEPT ![v][d] = [f[v][d] EXCEPT !.left = @ \ {b}]]
    OBVIOUS
  <1> QED
    BY <1>1, <1>2, JobUpdateType

LEMMA NoneType == NoJob \in Job /\ NoCM \in ConfigMap
  BY DEF NoJob, Job, NoCM, ConfigMap

\* What mergeRegions adds to the regions it is given are blocks.
LEMMA MergeType ==
  ASSUME NEW C \in SUBSET Block, NEW T \in SUBSET Block, NEW gap
  PROVE  mergeRegions(C, T, gap) \in SUBSET Block /\ T \subseteq mergeRegions(C, T, gap)
  BY DEF mergeRegions

LEMMA ConfigMapType ==
  ASSUME NEW s \in VMStatus, NEW d \in Disk, NEW gap,
         NEW Z \in Zeroed(ChangedRegions(s.pending, s.last, d))
  PROVE  buildDeltaSyncConfigMap(s, d, Z, gap) \in ConfigMap
  <1> DEFINE C == ChangedRegions(s.pending, s.last, d)
  <1>1. C \in SUBSET Block /\ Z \in SUBSET Block /\ C \ Z \in SUBSET Block
    BY DEF ChangedRegions, Zeroed
  <1> HIDE DEF C
  <1>2. mergeRegions(C, C \ Z, gap) \in SUBSET Block /\ mergeRegions(C, Z, gap) \in SUBSET Block
    BY <1>1, MergeType
  <1>3. s.rounds + 1 \in Nat
    BY DEF VMStatus
  <1>4. s.pending.data[DiskAt[d]] \in [Block -> Nat]
    BY ConstantsAssumption DEF VMStatus, Copy, Data
  <1>5. [b \in Block |-> IF b \in Z THEN s.pending.data[DiskAt[d]][b] ELSE 0] \in [Block -> Nat]
    BY <1>4
  <1>6. buildDeltaSyncConfigMap(s, d, Z, gap)
          = [round  |-> s.rounds + 1,
             blocks |-> mergeRegions(C, C \ Z, gap) \cup mergeRegions(C, Z, gap),
             zeroed |-> mergeRegions(C, Z, gap),
             zeros  |-> [b \in Block |-> IF b \in Z THEN s.pending.data[DiskAt[d]][b] ELSE 0]]
    BY DEF buildDeltaSyncConfigMap, C
  <1> DEFINE zs == [b \in Block |-> IF b \in Z THEN s.pending.data[DiskAt[d]][b] ELSE 0]
             bs == mergeRegions(C, C \ Z, gap) \cup mergeRegions(C, Z, gap)
             z  == mergeRegions(C, Z, gap)
             n  == s.rounds + 1
  <1>7. zs \in [Block -> Nat] /\ bs \in SUBSET Block /\ z \in SUBSET Block /\ n \in Nat
    BY <1>2, <1>3, <1>5
  <1>8. buildDeltaSyncConfigMap(s, d, Z, gap) = [round |-> n, blocks |-> bs, zeroed |-> z, zeros |-> zs]
    BY <1>6
  <1> HIDE DEF zs, bs, z, n
  <1> QED
    BY <1>7, <1>8 DEF ConfigMap

LEMMA NewJobType ==
  ASSUME TypeOK, i \in VM, NEW d \in Disk, NEW c \in {"absent", "present"}
  PROVE  buildDeltaSyncJob(loc[i].pending, d, c) \in Job
  <1>1. /\ loc[i] \in VMStatus /\ cm[i][d] \in ConfigMap
    BY DEF TypeOK
  <1>2. /\ loc[i].rounds + 1 \in Nat /\ loc[i].pending.id \in Nat
        /\ loc[i].pending.data[DiskAt[d]] \in [Block -> Nat]
    BY <1>1, ConstantsAssumption DEF VMStatus, Copy, Data
  <1>3. /\ cm[i][d].zeros \in [Block -> Nat] /\ cm[i][d].blocks \in SUBSET Block
    BY <1>1 DEF ConfigMap
  <1>4. [b \in Block |-> IF b \in cm[i][d].zeroed THEN cm[i][d].zeros[b]
                           ELSE loc[i].pending.data[DiskAt[d]][b]] \in [Block -> Nat]
    BY <1>2, <1>3
  <1> QED
    BY <1>2, <1>3, <1>4 DEF buildDeltaSyncJob, Job

LEMMA PodsType ==
  ASSUME TypeOK, NEW v \in VM, NEW D \in SUBSET Disk
  PROVE  [strays EXCEPT ![v] = @ \cup ActivePods(v, D)] \in [VM -> SUBSET Pod]
  <1>1. ASSUME NEW d \in D PROVE PodOf(v, d) \in Pod
    <2>1. job[v][d] \in Job
      BY DEF TypeOK
    <2> QED
      BY <2>1 DEF PodOf, Pod, Job
  <1>2. ActivePods(v, D) \in SUBSET Pod
    BY <1>1 DEF ActivePods
  <1> QED
    BY <1>2 DEF TypeOK

LEMMA DVStType ==
  ASSUME NEW f \in [VM -> [Disk -> DataVolume]], NEW v \in VM, NEW d \in Disk
  PROVE  [f EXCEPT ![v][d].st = "succeeded"] \in [VM -> [Disk -> DataVolume]]
  BY DEF DataVolume

LEMMA TypeInit == Init => TypeOK /\ InLoop
  <1> SUFFICES ASSUME Init PROVE TypeOK /\ InLoop
    OBVIOUS
  <1> USE ConstantsAssumption, NoCopyType DEF Init
  <1>1. st \in [VM -> VMStatus]
    BY DEF VMStatus, VMPhase
  <1>2. dv \in [VM -> [Disk -> DataVolume]]
    BY DEF NoDV, DataVolume
  <1>3. job \in [VM -> [Disk -> Job]]
    BY NoneType
  <1>4. NoCopy.data \in Data
    BY DEF Copy
  <1>5. /\ approved \in BOOLEAN /\ allDone \in BOOLEAN /\ created \in BOOLEAN
    OBVIOUS
  <1>6. i \in 1 .. NumVM + 1 /\ phase \in Phase /\ InLoop
    BY DEF InLoop, Phase
  <1>7. src \in [VM -> Data] /\ target \in [VM -> Data]
    BY <1>4 DEF Data
  <1>8. cm \in [VM -> [Disk -> ConfigMap]] /\ strays \in [VM -> SUBSET Pod]
    BY NoneType
  <1> QED
    BY <1>1, <1>2, <1>3, <1>5, <1>6, <1>7, <1>8 DEF TypeOK

\* The end of a pass keeps the types.
LEMMA EndPassType ==
  ASSUME TypeOK, NEW p \in Phase, NEW s \in [VM -> VMStatus], EndPass(p, s),
         approved' \in BOOLEAN, aborts' \in Nat,
         src' \in [VM -> Data], power' \in [VM -> {"ON", "STOPPING", "OFF"}],
         live' \in [VM -> SUBSET Nat], images' \in [VM -> SUBSET Nat],
         uuids' \in [VM -> Nat], UNCHANGED dataVars
  PROVE  (TypeOK /\ InLoop)'
  <1>1. i' \in 1 .. NumVM + 1
    BY ConstantsAssumption DEF EndPass
  <1> QED
    BY <1>1 DEF EndPass, TypeOK, InLoop, dataVars

\* The end of a pass that leaves Prism and the cluster alone.
LEMMA EndPassTypeFrame ==
  ASSUME TypeOK, NEW p \in Phase, NEW s \in [VM -> VMStatus], EndPass(p, s),
         UNCHANGED <<approved, prismVars, dataVars>>, aborts' \in Nat
  PROVE  (TypeOK /\ InLoop)'
  BY EndPassType DEF TypeOK, prismVars

\* The next VM of a loop.
LEMMA NextVMType ==
  ASSUME i \in VM, NextVM
  PROVE  i' \in 1 .. NumVM + 1 /\ pc' \in {"loop"} /\ InLoop'
  BY ConstantsAssumption DEF VM, NextVM, InLoop

LEMMA PreSyncType ==
  ASSUME TypeOK, InLoop, PreSync
  PROVE  (TypeOK /\ InLoop)'
  <1> USE ConstantsAssumption
  <1>1. CASE PreSyncSnapshot
    <2>1. i \in VM
      BY <1>1 DEF PreSyncSnapshot, TypeOK, VM
    <2>2. Snapshot(i) \in Copy
      BY <2>1, SnapshotType
    <2>3. loc' \in [VM -> VMStatus]
      <3>1. loc \in [VM -> VMStatus]
        BY DEF TypeOK
      <3> QED
        BY <1>1, <2>1, <2>2, <3>1 DEF PreSyncSnapshot, VMStatus
    <2>4. live' \in [VM -> SUBSET Nat] /\ uuids' \in [VM -> Nat]
      BY <1>1, <2>1 DEF PreSyncSnapshot, Snapshot, TypeOK
    <2>5. InLoop' /\ pc' \in {"image"}
      BY <1>1 DEF PreSyncSnapshot, InLoop
    <2> QED
      BY <1>1, <2>3, <2>4, <2>5 DEF PreSyncSnapshot, migVars, dataVars, TypeOK
  <1>2. CASE PreSyncImage
    <2>1. i \in VM
      BY <1>2 DEF PreSyncImage, TypeOK, InLoop, VM
    <2>2. Snapshot(i) \in Copy
      BY <2>1, SnapshotType
    <2>3. loc' \in [VM -> VMStatus]
      <3>1. loc \in [VM -> VMStatus]
        BY DEF TypeOK
      <3>2. loc' = [loc EXCEPT ![i].temp = Snapshot(i), ![i].phase = "WarmPreSync"]
        BY <1>2 DEF PreSyncImage
      <3> QED
        BY ONLY <2>1, <2>2, <3>1, <3>2 DEF VMStatus, VMPhase
    <2>4. images' \in [VM -> SUBSET Nat] /\ uuids' \in [VM -> Nat]
      BY <1>2, <2>1 DEF PreSyncImage, Snapshot, TypeOK
    <2>5. i' \in 1 .. NumVM + 1 /\ pc' \in {"loop"} /\ InLoop'
      BY <1>2, <2>1, NextVMType DEF PreSyncImage
    <2> QED
      BY <1>2, <2>3, <2>4, <2>5 DEF PreSyncImage, migVars, dataVars, TypeOK
  <1>3. CASE PreSyncImaged
    <2>1. i' \in 1 .. NumVM + 1 /\ pc' \in {"dvs"} /\ InLoop'
      BY <1>3 DEF PreSyncImaged, InLoop
    <2> QED
      BY <1>3, <2>1 DEF PreSyncImaged, migVars, prismVars, dataVars, TypeOK
  <1>4. CASE createDataVolumesFromTempImages
    <2>1. i \in VM /\ i' \in 1 .. NumVM + 1
      BY <1>4 DEF createDataVolumesFromTempImages, TypeOK, VM
    <2>2. loc' \in [VM -> VMStatus]
      <3>1. loc \in [VM -> VMStatus]
        BY DEF TypeOK
      <3> QED
        BY <1>4, <2>1, <3>1 DEF createDataVolumesFromTempImages, VMStatus, VMPhase
    <2>3. dv' \in [VM -> [Disk -> DataVolume]]
      <3>1. dv \in [VM -> [Disk -> DataVolume]] /\ loc[i].temp.data \in Data
        BY <2>1 DEF TypeOK, VMStatus, Copy
      <3> QED
        BY <1>4, <2>1, <3>1 DEF createDataVolumesFromTempImages, DataVolume, Data
    <2>4. created' \in BOOLEAN /\ InLoop'
      BY <1>4 DEF createDataVolumesFromTempImages, InLoop
    <2> QED
      BY <1>4, <2>1, <2>2, <2>3, <2>4
         DEF createDataVolumesFromTempImages, migVars, prismVars, TypeOK
  <1>5. CASE PreSyncPatch
    BY <1>5, EndPassTypeFrame DEF PreSyncPatch, TypeOK, Phase
  <1>6. CASE handleWarmSyncing
    <2>1. [v \in VM |-> [st[v] EXCEPT !.phase = "WarmSyncDone"]] \in [VM -> VMStatus]
      <3>1. st \in [VM -> VMStatus]
        BY DEF TypeOK
      <3> QED
        BY <3>1 DEF VMStatus, VMPhase
    <2> QED
      BY <1>6, <2>1, EndPassTypeFrame DEF handleWarmSyncing, TypeOK, Phase
  <1> QED
    BY <1>1, <1>2, <1>3, <1>4, <1>5, <1>6 DEF PreSync

\* The steps of runDeltaRound that take a snapshot.
LEMMA RoundSnapshotType ==
  ASSUME TypeOK, InLoop, RoundSnapshot
  PROVE  /\ i \in VM
         /\ Snapshot(i) \in Copy
         /\ uuids' \in [VM -> Nat]
         /\ [live EXCEPT ![i] = @ \cup {Snapshot(i).id}] \in [VM -> SUBSET Nat]
  <1>1. i \in VM
    BY ConstantsAssumption DEF RoundSnapshot, AtVM, TypeOK, VM
  <1>2. Snapshot(i) \in Copy
    BY <1>1, SnapshotType
  <1> QED
    BY <1>1, <1>2 DEF RoundSnapshot, Snapshot, TypeOK, Copy

LEMMA RoundStartType ==
  ASSUME TypeOK, InLoop, RoundConverge \/ RoundZero \/ RoundStart \/ RoundDeltaError
  PROVE  (TypeOK /\ InLoop)'
  <1> USE ConstantsAssumption
  <1>1. RoundSnapshot
    BY DEF RoundConverge, RoundZero, RoundStart, RoundDeltaError
  <1>2. i \in VM /\ Snapshot(i) \in Copy /\ uuids' \in [VM -> Nat]
    BY <1>1, RoundSnapshotType
  <1>3. [live EXCEPT ![i] = @ \cup {Snapshot(i).id}] \in [VM -> SUBSET Nat]
    BY <1>1, RoundSnapshotType
  <1>4. loc \in [VM -> VMStatus] /\ doneMark \in VMPhase
    BY DEF TypeOK, doneMark, VMPhase
  <1>5. CASE RoundConverge
    <2>1. loc' \in [VM -> VMStatus]
      <3>1. loc' = [loc EXCEPT ![i].last = Snapshot(i), ![i].phase = doneMark]
        BY <1>5 DEF RoundConverge
      <3> QED
        BY ONLY <1>2, <1>4, <3>1 DEF VMStatus
    <2>2. live' \in [VM -> SUBSET Nat]
      <3>1. PICK bad \in Undeleted({loc[i].last.id}) :
              live' = [live EXCEPT ![i] = (@ \ ({loc[i].last.id} \ bad)) \cup {Snapshot(i).id}]
        BY <1>5 DEF RoundConverge
      <3>2. Snapshot(i).id \in Nat /\ live \in [VM -> SUBSET Nat]
        BY <1>2 DEF Copy, TypeOK
      <3> QED
        BY <1>2, <3>1, <3>2
    <2>3. dropped' \in [VM -> SUBSET (Disk \X Block)]
      <3>1. dropped \in [VM -> SUBSET (Disk \X Block)]
        BY DEF TypeOK
      <3> QED
        BY <1>2, <1>5, <3>1 DEF RoundConverge
    <2>4. i' \in 1 .. NumVM + 1 /\ pc' \in {"loop"} /\ InLoop'
      BY <1>2, <1>5, NextVMType DEF RoundConverge
    <2> QED
      BY <1>2, <1>5, <2>1, <2>2, <2>3, <2>4 DEF RoundConverge, migVars, TypeOK
  <1>6. CASE RoundZero
    <2>1. loc' \in [VM -> VMStatus]
      <3>1. loc' = [loc EXCEPT ![i].pending = Snapshot(i), ![i].phase = doneMark]
        BY <1>6 DEF RoundZero
      <3> QED
        BY ONLY <1>2, <1>4, <3>1 DEF VMStatus
    <2>2. i' \in 1 .. NumVM + 1 /\ pc' \in {"loop"} /\ InLoop'
      BY <1>2, <1>6, NextVMType DEF RoundZero
    <2> QED
      BY <1>2, <1>3, <1>6, <2>1, <2>2 DEF RoundZero, migVars, dataVars, TypeOK
  <1>7. CASE RoundStart
    <2>1. loc' \in [VM -> VMStatus]
      <3>1. loc' = [loc EXCEPT ![i].pending = Snapshot(i), ![i].jobs = {}]
        BY <1>7 DEF RoundStart
      <3> QED
        BY ONLY <1>2, <1>4, <3>1 DEF VMStatus
    <2>2. pc' \in {"spawn"} /\ InLoop' /\ todo' \in SUBSET Disk
      BY <1>2, <1>7 DEF RoundStart, InLoop, VM
    <2> QED
      BY <1>2, <1>3, <1>7, <2>1, <2>2 DEF RoundStart, migVars, dataVars, TypeOK
  <1>8. CASE RoundDeltaError
    BY <1>2, <1>3, <1>8, EndPassType DEF RoundDeltaError, failMigration, Phase, TypeOK
  <1> QED
    BY <1>5, <1>6, <1>7, <1>8

LEMMA SpawnType ==
  ASSUME TypeOK, InLoop, NEW d \in Disk, CreateConfigMap(d) \/ CreateJob(d)
  PROVE  (TypeOK /\ InLoop)'
  <1> USE ConstantsAssumption
  <1>0. pc = "spawn"
    BY DEF CreateConfigMap, CreateJob
  <1>1. i \in VM
    BY <1>0 DEF InLoop, TypeOK, VM
  <1>2. /\ loc \in [VM -> VMStatus] /\ loc[i] \in VMStatus
        /\ cm \in [VM -> [Disk -> ConfigMap]] /\ job \in [VM -> [Disk -> Job]]
    BY <1>1 DEF TypeOK
  <1>3. CASE CreateConfigMap(d)
    <2>1. cm' \in [VM -> [Disk -> ConfigMap]]
      BY <1>1, <1>2, <1>3, ConfigMapType DEF CreateConfigMap
    <2>2. created' \in BOOLEAN /\ InLoop'
      BY <1>3 DEF CreateConfigMap, InLoop
    <2> QED
      BY <1>3, <2>1, <2>2 DEF CreateConfigMap, migVars, prismVars, TypeOK
  <1>4. CASE CreateJob(d)
    <2>1. job' \in [VM -> [Disk -> Job]] /\ strays' \in [VM -> SUBSET Pod]
      <3>1. CASE job[i][d].round = loc[i].rounds + 1
        BY <1>4, <3>1 DEF CreateJob, TypeOK
      <3>2. CASE job[i][d].round # loc[i].rounds + 1
        <4>1. PICK c \in {"present"} \cup (IF "lag" \in Faults THEN {"absent"} ELSE {}) :
                job' = [job EXCEPT ![i][d] = buildDeltaSyncJob(loc[i].pending, d, c)]
          BY <1>4, <3>2 DEF CreateJob
        <4>2. buildDeltaSyncJob(loc[i].pending, d, c) \in Job
          BY <1>1, NewJobType
        <4>3. strays' \in [VM -> SUBSET Pod]
          <5>1. strays' = [strays EXCEPT ![i] = @ \cup ActivePods(i, {d})]
            BY <1>4, <3>2 DEF CreateJob
          <5>2. ActivePods(i, {d}) \subseteq Pod /\ strays \in [VM -> SUBSET Pod]
            BY <1>1, PodsType DEF TypeOK
          <5> QED
            BY <1>1, <5>1, <5>2
        <4> QED
          BY <1>1, <1>2, <4>1, <4>2, <4>3, JobUpdateType
      <3> QED
        BY <3>1, <3>2
    <2>2. loc' \in [VM -> VMStatus]
      <3>1. loc' = [loc EXCEPT ![i].jobs = @ \cup {d}]
        BY <1>4 DEF CreateJob
      <3> QED
        BY <1>1, <1>2, <3>1, JobsFieldType
    <2>3. created' \in BOOLEAN /\ InLoop' /\ todo' \in SUBSET Disk
      BY <1>4 DEF CreateJob, InLoop, TypeOK
    <2> QED
      BY <1>4, <2>1, <2>2, <2>3 DEF CreateJob, migVars, prismVars, TypeOK
  <1> QED
    BY <1>3, <1>4

LEMMA RoundType ==
  ASSUME TypeOK, InLoop, runDeltaRound
  PROVE  (TypeOK /\ InLoop)'
  <1> USE ConstantsAssumption
  <1>1. CASE RoundSkip
    <2>1. i \in VM
      BY <1>1 DEF RoundSkip, AtVM, TypeOK, VM
    <2>2. i' \in 1 .. NumVM + 1 /\ pc' \in {"loop"} /\ InLoop'
      BY <1>1, <2>1, NextVMType DEF RoundSkip
    <2> QED
      BY <1>1, <2>2 DEF RoundSkip, migVars, prismVars, dataVars, TypeOK
  <1>2. CASE RoundConverge \/ RoundZero \/ RoundStart \/ RoundDeltaError
    BY <1>2, RoundStartType
  <1>3. CASE \E d \in Disk : CreateConfigMap(d) \/ CreateJob(d)
    BY <1>3, SpawnType
  <1>4. CASE RoundSpawned
    <2>1. i \in VM
      BY <1>4 DEF RoundSpawned, InLoop, TypeOK, VM
    <2>2. i' \in 1 .. NumVM + 1 /\ pc' \in {"loop"} /\ InLoop'
      BY <1>4, <2>1, NextVMType DEF RoundSpawned
    <2>3. loc' \in [VM -> VMStatus]
      <3>1. loc \in [VM -> VMStatus]
        BY DEF TypeOK
      <3> QED
        BY <1>4, <2>1, <3>1 DEF RoundSpawned, VMStatus, VMPhase
    <2>4. allDone' \in BOOLEAN
      BY <1>4 DEF RoundSpawned
    <2> QED
      BY <1>4, <2>2, <2>3, <2>4 DEF RoundSpawned, migVars, prismVars, dataVars, TypeOK
  <1>5. CASE RoundWait
    <2>1. i \in VM
      BY <1>5 DEF RoundWait, RoundPending, AtVM, TypeOK, VM
    <2>2. i' \in 1 .. NumVM + 1 /\ pc' \in {"loop"} /\ InLoop'
      BY <1>5, <2>1, NextVMType DEF RoundWait
    <2>3. allDone' \in BOOLEAN
      BY <1>5 DEF RoundWait
    <2> QED
      BY <1>5, <2>2, <2>3 DEF RoundWait, migVars, prismVars, dataVars, TypeOK
  <1>6. CASE RoundJobFailed
    BY <1>6, EndPassTypeFrame DEF RoundJobFailed, failMigration, Phase, TypeOK
  <1>7. CASE RoundPromote
    <2>1. i \in VM
      BY <1>7 DEF RoundPromote, RoundPending, AtVM, TypeOK, VM
    <2>2. i' \in 1 .. NumVM + 1 /\ pc' \in {"loop"} /\ InLoop'
      BY <1>7, <2>1, NextVMType DEF RoundPromote
    <2>3. /\ loc \in [VM -> VMStatus] /\ doneMark \in VMPhase /\ "DeltaIdle" \in VMPhase
          /\ loc[i].pending \in Copy
      BY <2>1 DEF TypeOK, doneMark, VMPhase, VMStatus
    <2>4. loc' \in [VM -> VMStatus]
      BY <1>7, <2>1, <2>3, NoCopyType DEF RoundPromote, VMStatus
    <2>5. job' \in [VM -> [Disk -> Job]] /\ strays' \in [VM -> SUBSET Pod]
      <3>1. PICK gone \in Deleted(loc[i].jobs) :
              /\ job' = [job EXCEPT ![i] = [d \in Disk |-> IF d \in gone THEN NoJob ELSE @[d]]]
              /\ strays' = [strays EXCEPT ![i] = @ \cup ActivePods(i, gone)]
        BY <1>7 DEF RoundPromote
      <3>2. gone \in SUBSET Disk
        BY <2>1, <2>3 DEF Deleted, VMStatus
      <3>3. strays' \in [VM -> SUBSET Pod]
        BY <2>1, <3>1, <3>2, PodsType
      <3>4. job' \in [VM -> [Disk -> Job]]
        BY <2>1, <3>1, NoneType DEF TypeOK
      <3> QED
        BY <3>3, <3>4
    <2>6. cm' \in [VM -> [Disk -> ConfigMap]]
      <3>1. cm \in [VM -> [Disk -> ConfigMap]]
        BY DEF TypeOK
      <3> QED
        BY <1>7, <2>1, <3>1, NoneType DEF RoundPromote
    <2>7. live' \in [VM -> SUBSET Nat]
      <3>1. PICK bad \in Undeleted({loc[i].last.id}) :
              live' = [live EXCEPT ![i] = @ \ ({loc[i].last.id} \ bad)]
        BY <1>7 DEF RoundPromote
      <3>2. live \in [VM -> SUBSET Nat]
        BY DEF TypeOK
      <3> QED
        BY <2>1, <3>1, <3>2
    <2>8. allDone' \in BOOLEAN
      BY <1>7 DEF RoundPromote
    <2> QED
      BY <1>7, <2>2, <2>4, <2>5, <2>6, <2>7, <2>8 DEF RoundPromote, migVars, TypeOK
  <1>8. CASE RoundPatch
    BY <1>8, EndPassTypeFrame DEF RoundPatch, TypeOK
  <1>9. CASE ConvergedPatch
    BY <1>9, EndPassTypeFrame DEF ConvergedPatch, TypeOK, Phase
  <1>10. CASE FinalCleanup
    <2>1. live \in [VM -> SUBSET Nat] /\ images \in [VM -> SUBSET Nat]
      BY DEF TypeOK
    <2>2. live' \in [VM -> SUBSET Nat]
      BY <1>10, <2>1 DEF FinalCleanup
    <2>3. images' \in [VM -> SUBSET Nat]
      BY <1>10, <2>1 DEF FinalCleanup
    <2>4. InLoop' /\ pc' \in {"patch"}
      BY <1>10 DEF FinalCleanup, InLoop
    <2> QED
      BY <1>10, <2>2, <2>3, <2>4 DEF FinalCleanup, migVars, dataVars, TypeOK
  <1>11. CASE FinalPatch
    BY <1>11, EndPassTypeFrame DEF FinalPatch, TypeOK, Phase
  <1> QED
    BY <1>1, <1>2, <1>3, <1>4, <1>5, <1>6, <1>7, <1>8, <1>9, <1>10, <1>11
       DEF runDeltaRound


LEMMA CutoverType ==
  ASSUME TypeOK, InLoop, Cutover
  PROVE  (TypeOK /\ InLoop)'
  <1>1. CASE handleReadyForCutover
    BY <1>1, EndPassTypeFrame DEF handleReadyForCutover, TypeOK, Phase
  <1>2. CASE WarmCutoverShutdown
    <2>1. [v \in VM |-> IF v \in On THEN [st[v] EXCEPT !.phase = "ShuttingDown"]
                                    ELSE st[v]] \in [VM -> VMStatus]
      <3>1. st \in [VM -> VMStatus]
        BY DEF TypeOK
      <3> QED
        BY <3>1 DEF VMStatus, VMPhase
    <2>2. power' \in [VM -> {"ON", "STOPPING", "OFF"}]
      BY <1>2 DEF WarmCutoverShutdown, TypeOK
    <2> QED
      BY <1>2, <2>1, <2>2, EndPassType DEF WarmCutoverShutdown, TypeOK
  <1>3. CASE WarmCutoverOff
    BY <1>3, EndPassTypeFrame DEF WarmCutoverOff, TypeOK, Phase
  <1> QED
    BY <1>1, <1>2, <1>3 DEF Cutover

LEMMA EnvironmentType ==
  ASSUME TypeOK, InLoop, Environment
  PROVE  (TypeOK /\ InLoop)'
  <1>1. CASE Approve
    <2>1. approved' \in BOOLEAN /\ InLoop'
      BY <1>1 DEF Approve, InLoop, passVars
    <2> QED
      BY <1>1, <2>1 DEF Approve, TypeOK, passVars, prismVars, dataVars
  <1>2. ASSUME NEW v \in VM, PowerOff(v)
        PROVE  (TypeOK /\ InLoop)'
    <2>1. power' \in [VM -> {"ON", "STOPPING", "OFF"}] /\ InLoop'
      BY <1>2 DEF PowerOff, TypeOK, InLoop, passVars
    <2> QED
      BY <1>2, <2>1 DEF PowerOff, TypeOK, migVars, passVars, dataVars
  <1>3. ASSUME NEW v \in VM, NEW d \in Disk, NEW b \in Block, GuestWrite(v, d, b)
        PROVE  (TypeOK /\ InLoop)'
    <2>1. src' \in [VM -> Data] /\ InLoop'
      BY <1>3 DEF GuestWrite, TypeOK, Data, InLoop, passVars
    <2> QED
      BY <1>3, <2>1 DEF GuestWrite, TypeOK, migVars, passVars, dataVars
  <1>4. ASSUME NEW v \in VM, NEW d \in Disk, CDIImport(v, d)
        PROVE  (TypeOK /\ InLoop)'
    <2>1. dv \in [VM -> [Disk -> DataVolume]] /\ target \in [VM -> Data]
      BY DEF TypeOK
    <2>2. dv' \in [VM -> [Disk -> DataVolume]]
      BY <1>4, <2>1, DVStType DEF CDIImport
    <2>3. dv[v][d].img \in [Block -> Nat]
      BY <2>1 DEF DataVolume
    <2>4. target' \in [VM -> Data] /\ InLoop'
      BY <1>4, <2>1, <2>3 DEF CDIImport, Data, InLoop, passVars
    <2> QED
      BY <1>4, <2>2, <2>4 DEF CDIImport, TypeOK, migVars, passVars, prismVars
  <1>5. ASSUME NEW v \in VM, NEW d \in Disk, RunJob(v, d)
        PROVE  (TypeOK /\ InLoop)'
    <2>1. /\ job \in [VM -> [Disk -> Job]] /\ target \in [VM -> Data]
          /\ dropped \in [VM -> SUBSET (Disk \X Block)]
      BY DEF TypeOK
    <2>2. ASSUME NEW b \in Block, JobWrite(v, d, b)
          PROVE  (TypeOK /\ InLoop)'
      <3>0. job' \in [VM -> [Disk -> Job]]
        BY <2>1, <2>2, JobLeftType DEF JobWrite
      <3>1. job[v][d].out[b] \in Nat
        BY <2>1 DEF Job
      <3>2. target' \in [VM -> Data] /\ InLoop'
        BY <2>1, <2>2, <3>1 DEF JobWrite, Data, InLoop, passVars
      <3>3. dropped' \in [VM -> SUBSET (Disk \X Block)]
        BY <2>1, <2>2 DEF JobWrite
      <3> QED
        BY <2>2, <3>0, <3>2, <3>3 DEF JobWrite, TypeOK, migVars, passVars, prismVars
    <2>3. CASE JobComplete(v, d)
      <3>1. job' \in [VM -> [Disk -> Job]] /\ InLoop'
        BY <2>1, <2>3, JobStType DEF JobComplete, InLoop, passVars
      <3> QED
        BY <2>3, <3>1 DEF JobComplete, TypeOK, migVars, passVars, prismVars
    <2> QED
      BY <1>5, <2>2, <2>3 DEF RunJob
  <1>6. ASSUME NEW v \in VM, NEW d \in Disk,
               JobFail(v, d) \/ JobExpire(v, d) \/ CacheSync(v, d)
        PROVE  (TypeOK /\ InLoop)'
    <2>1. job \in [VM -> [Disk -> Job]] /\ NoJob \in Job
      BY NoneType DEF TypeOK
    <2>2. job' \in [VM -> [Disk -> Job]]
      <3>1. CASE JobFail(v, d)
        BY <2>1, <3>1, JobStType DEF JobFail
      <3>2. CASE JobExpire(v, d)
        BY <2>1, <3>2 DEF JobExpire
      <3>3. CASE CacheSync(v, d)
        BY <2>1, <3>3, JobCacheType DEF CacheSync
      <3> QED
        BY <1>6, <3>1, <3>2, <3>3
    <2>3. UNCHANGED <<migVars, passVars, prismVars, dv, target, cm, strays, dropped, missed>>
      BY <1>6 DEF JobFail, JobExpire, CacheSync
    <2> QED
      BY <2>2, <2>3 DEF TypeOK, InLoop, migVars, passVars, prismVars
  <1>7. ASSUME NEW v \in VM, NEW p \in strays[v], RunStray(v, p)
        PROVE  (TypeOK /\ InLoop)'
    <2>1. p \in Pod /\ strays \in [VM -> SUBSET Pod]
      BY DEF TypeOK
    <2>2. strays' \in [VM -> SUBSET Pod] /\ target' \in [VM -> Data]
      <3>1. CASE StrayEnds(v, p)
        BY <2>1, <3>1 DEF StrayEnds, TypeOK
      <3>2. ASSUME NEW b \in Block, StrayWrite(v, p, b)
            PROVE  strays' \in [VM -> SUBSET Pod] /\ target' \in [VM -> Data]
        <4>1. /\ [p EXCEPT !.left = @ \ {b}] \in Pod
              /\ p.disk \in Disk /\ p.out[b] \in Nat
          BY <2>1 DEF Pod
        <4>2. strays' \in [VM -> SUBSET Pod]
          BY <2>1, <3>2, <4>1 DEF StrayWrite
        <4>3. target' \in [VM -> Data]
          BY <3>2, <4>1 DEF StrayWrite, TypeOK, Data
        <4> QED
          BY <4>2, <4>3
      <3> QED
        BY <1>7, <3>1, <3>2 DEF RunStray
    <2>3. UNCHANGED <<migVars, passVars, prismVars, dv, cm, job, dropped, missed>>
      BY <1>7 DEF RunStray, StrayEnds, StrayWrite
    <2> QED
      BY <2>2, <2>3 DEF TypeOK, InLoop, migVars, passVars, prismVars
  <1> QED
    BY <1>1, <1>2, <1>3, <1>4, <1>5, <1>6, <1>7 DEF Environment

LEMMA TypeStep == TypeOK /\ InLoop /\ [Next]_vars => (TypeOK /\ InLoop)'
  <1> SUFFICES ASSUME TypeOK, InLoop, [Next]_vars PROVE (TypeOK /\ InLoop)'
    OBVIOUS
  <1>1. CASE Reconcile
    BY <1>1, PreSyncType, RoundType, CutoverType DEF Reconcile
  <1>2. CASE PrismError
    BY <1>2, EndPassTypeFrame DEF PrismError, failMigration, TypeOK, Phase
  <1>3. CASE AbortPass
    BY <1>3, EndPassTypeFrame DEF AbortPass, TypeOK
  <1>4. CASE Environment
    BY <1>4, EnvironmentType
  <1>5. CASE UNCHANGED vars
    BY <1>5 DEF vars, migVars, passVars, prismVars, dataVars, TypeOK, InLoop
  <1> QED
    BY <1>1, <1>2, <1>3, <1>4, <1>5 DEF Next

\* Type correctness, for every value of the constants and every set of faults.
THEOREM TypeCorrect == Spec => []TypeOK
  <1>1. Spec => [](TypeOK /\ InLoop)
    BY TypeInit, TypeStep, PTL DEF Spec
  <1> QED
    BY <1>1, PTL

-----------------------------------------------------------------------------
(***************************************************************************)
(* The inductive invariant.                                                *)
(***************************************************************************)

Parts == PassInv /\ CutoverInv /\ ImportInv /\ TargetInv /\ StatusInv

\* Nothing of the round that s is in is there, and what is left of an older one
\* is over.
Over(s, v, d) ==
    /\ job[v][d].round <= s.rounds + 1 /\ cm[v][d].round <= s.rounds + 1
    /\ job[v][d].round # s.rounds + 1 /\ cm[v][d].round # s.rounds + 1
    /\ Finished(v, d)
    /\ job[v][d].st # "none" => job[v][d].cache = "present"

\* The types of what BlockInv compares.
LEMMA BlockTypes ==
  ASSUME TypeOK, NEW v \in VM, NEW d \in Disk, NEW b \in Block
  PROVE  /\ src[v][d][b] \in Nat /\ target[v][d][b] \in Nat
         /\ dv[v][d].img[b] \in Nat /\ job[v][d].out[b] \in Nat
  <1>1. src[v][d][b] \in Nat /\ target[v][d][b] \in Nat
    BY DEF TypeOK, Data
  <1>2. dv[v][d].img[b] \in Nat /\ job[v][d].out[b] \in Nat
    BY DEF TypeOK, DataVolume, Job
  <1> QED
    BY <1>1, <1>2

LEMMA StatusTypes ==
  ASSUME NEW s \in VMStatus, NEW d \in Disk, NEW b \in Block
  PROVE  /\ s.last.data[d][b] \in Nat /\ s.pending.data[d][b] \in Nat
         /\ s.temp.data[d][b] \in Nat
         /\ s.last.id \in Nat /\ s.pending.id \in Nat /\ s.rounds \in Nat
  <1>1. s.rounds \in Nat /\ s.last \in Copy /\ s.pending \in Copy /\ s.temp \in Copy
    BY DEF VMStatus
  <1> QED
    BY <1>1 DEF Copy, Data

LEMMA StatusesType ==
  ASSUME TypeOK, NEW v \in VM, NEW p \in Statuses(v)
  PROVE  p[1] \in VMStatus /\ p[2] \subseteq Disk
  BY DEF TypeOK, Statuses, Spawning

\* What StatusInv says of one block.
LEMMA StatusInvAt ==
  ASSUME StatusInv, NEW v \in VM, NEW p \in Statuses(v), NEW d \in Disk
  PROVE  /\ DiskInv(p[1], v, d, p[2])
         /\ \A b \in Block : BlockInv(p[1], v, d, b, p[2])
  BY DEF StatusInv, VMInv

LEMMA LocInvAt ==
  ASSUME StatusInv, NEW v \in VM, NEW d \in Disk
  PROVE  /\ DiskInv(loc[v], v, d, Spawning(v))
         /\ \A b \in Block : BlockInv(loc[v], v, d, b, Spawning(v))
  <1>1. <<loc[v], Spawning(v)>> \in Statuses(v)
    BY DEF Statuses
  <1> QED
    BY <1>1, StatusInvAt

-----------------------------------------------------------------------------
(***************************************************************************)
(* The environment.                                                        *)
(***************************************************************************)

LEMMA EnvFrame ==
  ASSUME Parts, UNCHANGED <<phase, st, passVars>>
  PROVE  /\ PassInv'
         /\ (\A v \in VM : power[v] = "OFF" => power'[v] = "OFF") => CutoverInv'
         /\ UNCHANGED <<src, dv>> => ImportInv'
         /\ \A v \in VM : Statuses(v)' = Statuses(v)
  <1>1. PassInv'
    BY DEF Parts, PassInv, doneMark, final, passVars
  <1>2. ASSUME \A v \in VM : power[v] = "OFF" => power'[v] = "OFF" PROVE CutoverInv'
    BY <1>2 DEF Parts, CutoverInv, MarkInv, passVars
  <1>3. ASSUME UNCHANGED <<src, dv>> PROVE ImportInv'
    BY <1>3 DEF Parts, ImportInv, passVars
  <1>4. \A v \in VM : Statuses(v)' = Statuses(v)
    BY DEF Statuses, Spawning, passVars
  <1> QED
    BY <1>1, <1>2, <1>3, <1>4

LEMMA JobWriteSafe ==
  ASSUME TypeOK, Parts,
         NEW v \in VM, NEW d \in Disk, NEW b \in Block, JobWrite(v, d, b)
  PROVE  Parts'
  <1>1. UNCHANGED <<phase, st, passVars, power, src, dv, cm>>
    BY DEF JobWrite, migVars, prismVars
  <1>2. /\ PassInv' /\ CutoverInv' /\ ImportInv'
        /\ \A w \in VM : Statuses(w)' = Statuses(w)
    BY <1>1, EnvFrame
  <1>3. ASSUME NEW w \in VM, NEW e \in Disk, NEW c \in Block
        PROVE  /\ target'[w][e][c] = IF w = v /\ e = d /\ c = b
                                       THEN job[v][d].out[b] ELSE target[w][e][c]
               /\ <<e, c>> \in dropped'[w] <=>
                     <<e, c>> \in dropped[w] /\ ~(w = v /\ e = d /\ c = b)
    <2>1. target \in [VM -> [Disk -> [Block -> Nat]]] /\ dropped \in [VM -> SUBSET (Disk \X Block)]
      BY DEF TypeOK, Data
    <2> QED
      BY <2>1 DEF JobWrite
  <1>30. ASSUME NEW w \in VM, NEW e \in Disk
         PROVE  /\ job'[w][e].st = job[w][e].st /\ job'[w][e].round = job[w][e].round
                /\ job'[w][e].out = job[w][e].out /\ job'[w][e].cache = job[w][e].cache
                /\ job'[w][e].left = IF w = v /\ e = d THEN job[w][e].left \ {b} ELSE job[w][e].left
    <2>1. job \in [VM -> [Disk -> Job]] /\ job[w][e] \in Job
      BY DEF TypeOK
    <2>2. job' = [job EXCEPT ![v][d] = [job[v][d] EXCEPT !.left = @ \ {b}]]
      BY <2>1 DEF JobWrite
    <2>3. job'[w][e] = IF w = v /\ e = d THEN [job[v][d] EXCEPT !.left = @ \ {b}] ELSE job[w][e]
      BY <2>1, <2>2
    <2> QED
      BY <2>1, <2>3 DEF Job
  <1>4. TargetInv'
    <2> SUFFICES ASSUME NEW w \in VM, NEW e \in Disk, NEW c \in Block
                 PROVE  target'[w][e][c] <= src'[w][e][c]
      BY DEF TargetInv
    <2>1. target[w][e][c] <= src[w][e][c]
      BY DEF Parts, TargetInv
    <2>2. BlockInv(loc[w], w, e, c, Spawning(w)) /\ DiskInv(loc[w], w, e, Spawning(w))
      BY LocInvAt DEF Parts
    <2> QED
      BY <1>1, <1>3, <2>1, <2>2, BlockTypes DEF BlockInv, DiskInv, JobWrite, Finished
  <1>5. ASSUME NEW w \in VM, NEW p \in Statuses(w), NEW e \in Disk
        PROVE  /\ DiskInv(p[1], w, e, p[2])'
               /\ \A c \in Block : BlockInv(p[1], w, e, c, p[2])'
    <2>1. DiskInv(p[1], w, e, p[2])
      BY StatusInvAt DEF Parts
    <2>2. DiskInv(p[1], w, e, p[2])'
      BY <1>1, <1>30, <2>1 DEF DiskInv, ChangedRegions, Finished
    <2>3. ASSUME NEW c \in Block PROVE BlockInv(p[1], w, e, c, p[2])'
      <3>1. BlockInv(p[1], w, e, c, p[2])
        BY StatusInvAt DEF Parts
      <3>2. p[1].last.data[e][c] \in Nat /\ p[1].pending.data[e][c] \in Nat
        BY StatusesType, StatusTypes
      <3>3. w = v /\ e = d => job[v][d].round = p[1].rounds + 1
        BY <2>1 DEF DiskInv, JobWrite, Finished
      <3> QED
        BY <1>1, <1>3, <1>30, <2>1, <3>1, <3>2, <3>3, BlockTypes DEF BlockInv, DiskInv, Finished, JobWrite
    <2> QED
      BY <2>2, <2>3
  <1>6. StatusInv'
    BY <1>2, <1>5 DEF StatusInv, VMInv
  <1> QED
    BY <1>2, <1>4, <1>6 DEF Parts

\* A Job changes its state: it stays the Job it was as long as it exists, and
\* it is finished only when its regions are written.
LEMMA JobStepSafe ==
  ASSUME TypeOK, Parts, NEW v \in VM, NEW d \in Disk,
         UNCHANGED <<phase, st, passVars, power, src, dv, cm, target, dropped>>,
         \A w \in VM, e \in Disk : w # v \/ e # d => job'[w][e] = job[w][e],
         job[v][d].st # "none",
         \/ /\ job'[v][d].out = job[v][d].out /\ job'[v][d].cache = job[v][d].cache
            /\ job'[v][d].round = job[v][d].round /\ job'[v][d].left = job[v][d].left
         \/ job'[v][d] = NoJob,
         Finished(v, d)' => Finished(v, d) \/ job[v][d].left = {},
         Finished(v, d) => Finished(v, d)'
  PROVE  Parts'
  <1>1. /\ PassInv' /\ CutoverInv' /\ ImportInv'
        /\ \A w \in VM : Statuses(w)' = Statuses(w)
    BY EnvFrame
  <1>2. TargetInv'
    BY DEF Parts, TargetInv
  <1>3. ASSUME NEW w \in VM, NEW p \in Statuses(w), NEW e \in Disk
        PROVE  /\ DiskInv(p[1], w, e, p[2])'
               /\ \A c \in Block : BlockInv(p[1], w, e, c, p[2])'
    <2>1. DiskInv(p[1], w, e, p[2])
      BY StatusInvAt DEF Parts
    <2>0. p[1].rounds \in Nat
      BY StatusesType DEF VMStatus
    <2>2. DiskInv(p[1], w, e, p[2])'
      BY <2>0, <2>1 DEF DiskInv, ChangedRegions, Finished, NoJob
    <2>3. ASSUME NEW c \in Block PROVE BlockInv(p[1], w, e, c, p[2])'
      <3>1. BlockInv(p[1], w, e, c, p[2])
        BY StatusInvAt DEF Parts
      <3> QED
        BY <2>0, <2>1, <3>1 DEF BlockInv, DiskInv, Finished, NoJob
    <2> QED
      BY <2>2, <2>3
  <1>4. StatusInv'
    BY <1>1, <1>3 DEF StatusInv, VMInv
  <1> QED
    BY <1>1, <1>2, <1>4 DEF Parts

LEMMA JobEndSafe ==
  ASSUME TypeOK, Quiet, Parts, NEW v \in VM, NEW d \in Disk,
         JobComplete(v, d) \/ JobFail(v, d) \/ JobExpire(v, d)
  PROVE  Parts'
  <1>1. UNCHANGED <<phase, st, passVars, power, src, dv, cm, target, dropped>>
    BY DEF JobComplete, JobFail, JobExpire, migVars, prismVars
  <1>2. job \in [VM -> [Disk -> Job]]
    BY DEF TypeOK
  <1>3. \A w \in VM, e \in Disk : w # v \/ e # d => job'[w][e] = job[w][e]
    BY <1>2 DEF JobComplete, JobFail, JobExpire
  <1>4. CASE JobComplete(v, d)
    <2>1. /\ job'[v][d].st = "complete" /\ job'[v][d].out = job[v][d].out
          /\ job'[v][d].cache = job[v][d].cache /\ job'[v][d].round = job[v][d].round
          /\ job'[v][d].left = job[v][d].left
      BY <1>2, <1>4 DEF JobComplete, Job
    <2> QED
      BY <1>1, <1>3, <1>4, <2>1, JobStepSafe DEF JobComplete, Finished
  <1>5. CASE JobFail(v, d)
    <2>1. /\ job'[v][d].st = "failed" /\ job'[v][d].out = job[v][d].out
          /\ job'[v][d].cache = job[v][d].cache /\ job'[v][d].round = job[v][d].round
          /\ job'[v][d].left = job[v][d].left
      BY <1>2, <1>5 DEF JobFail, Job
    <2> QED
      BY <1>1, <1>3, <1>5, <2>1, JobStepSafe DEF JobFail, Finished
  <1>6. CASE JobExpire(v, d)
    <2>1. job[v][d].st = "complete"
      BY <1>6 DEF JobExpire, Quiet, PathsInOrder
    <2>2. job'[v][d] = NoJob
      BY <1>2, <1>6 DEF JobExpire
    <2>3. Finished(v, d) /\ Finished(v, d)'
      BY <2>1, <2>2 DEF Finished, NoJob
    <2> QED
      BY <1>1, <1>3, <2>1, <2>2, <2>3, JobStepSafe
  <1> QED
    BY <1>4, <1>5, <1>6

\* Without cache lag a pass never misses a Job.
LEMMA NoCacheSync ==
  ASSUME Parts, NEW v \in VM, NEW d \in Disk
  PROVE  ~CacheSync(v, d)
  <1>1. DiskInv(loc[v], v, d, Spawning(v))
    BY LocInvAt DEF Parts
  <1> QED
    BY <1>1 DEF DiskInv, CacheSync

LEMMA CDIImportSafe ==
  ASSUME TypeOK, Parts, phase # "Failed", NEW v \in VM, NEW d \in Disk, CDIImport(v, d)
  PROVE  Parts'
  <1>1. UNCHANGED <<phase, st, passVars, power, src, cm, job, dropped>>
    BY DEF CDIImport, migVars, prismVars
  <1>2. /\ PassInv' /\ CutoverInv'
        /\ \A w \in VM : Statuses(w)' = Statuses(w)
    BY <1>1, EnvFrame
  <1>3. ASSUME NEW w \in VM, NEW e \in Disk
        PROVE  /\ dv'[w][e].img = dv[w][e].img
               /\ dv'[w][e].st = IF w = v /\ e = d THEN "succeeded" ELSE dv[w][e].st
    <2>1. dv \in [VM -> [Disk -> DataVolume]]
      BY DEF TypeOK
    <2> QED
      BY <2>1 DEF CDIImport, DataVolume
  <1>4. ASSUME NEW w \in VM, NEW e \in Disk
        PROVE  target'[w][e] = IF w = v /\ e = d THEN dv[v][d].img ELSE target[w][e]
    <2>1. target \in [VM -> [Disk -> [Block -> Nat]]]
      BY DEF TypeOK, Data
    <2> QED
      BY <2>1 DEF CDIImport
  <1>5. dv[v][d].st = "importing" /\ phase \in {"WarmPreSync", "WarmSyncing"}
    BY DEF CDIImport, Parts, ImportInv
  <1>6. ImportInv'
    BY <1>1, <1>3, <1>5 DEF Parts, ImportInv, passVars
  <1>7. TargetInv'
    <2> SUFFICES ASSUME NEW w \in VM, NEW e \in Disk, NEW c \in Block
                 PROVE  target'[w][e][c] <= src'[w][e][c]
      BY DEF TargetInv
    <2>1. target[w][e][c] <= src[w][e][c] /\ BlockInv(loc[w], w, e, c, Spawning(w))
      BY LocInvAt DEF Parts, TargetInv
    <2> QED
      BY <1>1, <1>4, <1>5, <2>1 DEF BlockInv
  <1>8. ASSUME NEW w \in VM, NEW p \in Statuses(w)
        PROVE  p[1].pending.id = 0 /\ p[1].phase # "FinalDeltaDone"
    BY <1>5 DEF Parts, CutoverInv, MarkInv, Statuses
  <1>9. ASSUME NEW w \in VM, NEW p \in Statuses(w), NEW e \in Disk
        PROVE  /\ DiskInv(p[1], w, e, p[2])'
               /\ \A c \in Block : BlockInv(p[1], w, e, c, p[2])'
    <2>1. DiskInv(p[1], w, e, p[2])
      BY StatusInvAt DEF Parts
    <2>2. DiskInv(p[1], w, e, p[2])'
      BY <1>1, <2>1 DEF DiskInv, ChangedRegions, Finished
    <2>3. ASSUME NEW c \in Block PROVE BlockInv(p[1], w, e, c, p[2])'
      <3>1. BlockInv(p[1], w, e, c, p[2])
        BY StatusInvAt DEF Parts
      <3> QED
        BY <1>1, <1>3, <1>4, <1>5, <1>8, <3>1 DEF BlockInv
    <2> QED
      BY <2>2, <2>3
  <1>10. StatusInv'
    BY <1>2, <1>9 DEF StatusInv, VMInv
  <1> QED
    BY <1>2, <1>6, <1>7, <1>10 DEF Parts

LEMMA GuestWriteSafe ==
  ASSUME TypeOK, Parts, phase # "Failed",
         NEW v \in VM, NEW d \in Disk, NEW b \in Block, GuestWrite(v, d, b)
  PROVE  Parts'
  <1>1. UNCHANGED <<phase, st, passVars, power, dv, cm, job, target, dropped>>
    BY DEF GuestWrite, migVars, dataVars
  <1>2. /\ PassInv' /\ CutoverInv'
        /\ \A w \in VM : Statuses(w)' = Statuses(w)
    BY <1>1, EnvFrame
  <1>3. ASSUME NEW w \in VM, NEW e \in Disk, NEW c \in Block
        PROVE  src[w][e][c] <= src'[w][e][c] /\ src'[w][e][c] \in Nat
    <2>1. src \in [VM -> [Disk -> [Block -> Nat]]]
      BY DEF TypeOK, Data
    <2> QED
      BY <2>1 DEF GuestWrite
  <1>4. phase \notin {"WarmFinalDelta", "CreatingVMs"}
    BY DEF Parts, CutoverInv, GuestWrite
  <1>5. ImportInv'
    <2>1. ASSUME phase = "WarmPreSync", NEW w \in VM, NEW e \in Disk, NEW c \in Block,
                 pc = "dvs" \/ w < i
          PROVE  /\ loc[w].last.data[e][c] <= loc[w].temp.data[e][c]
                 /\ loc[w].temp.data[e][c] <= src'[w][e][c]
      <3>1. /\ loc[w].last.data[e][c] <= loc[w].temp.data[e][c]
            /\ loc[w].temp.data[e][c] <= src[w][e][c]
        BY <2>1 DEF Parts, ImportInv
      <3>2. loc[w].temp.data[e][c] \in Nat
        BY StatusTypes DEF TypeOK
      <3> QED
        BY <1>3, <3>1, <3>2, BlockTypes
    <2> QED
      BY <1>1, <2>1 DEF Parts, ImportInv, passVars
  <1>6. TargetInv'
    <2> SUFFICES ASSUME NEW w \in VM, NEW e \in Disk, NEW c \in Block
                 PROVE  target'[w][e][c] <= src'[w][e][c]
      BY DEF TargetInv
    <2>1. target[w][e][c] <= src[w][e][c]
      BY DEF Parts, TargetInv
    <2> QED
      BY <1>1, <1>3, <2>1, BlockTypes
  <1>7. ASSUME NEW w \in VM, NEW p \in Statuses(w)
        PROVE  p[1].phase # "FinalDeltaDone"
    BY <1>4 DEF Parts, CutoverInv, MarkInv, Statuses
  <1>8. ASSUME NEW w \in VM, NEW p \in Statuses(w), NEW e \in Disk
        PROVE  /\ DiskInv(p[1], w, e, p[2])'
               /\ \A c \in Block : BlockInv(p[1], w, e, c, p[2])'
    <2>1. DiskInv(p[1], w, e, p[2])
      BY StatusInvAt DEF Parts
    <2>2. DiskInv(p[1], w, e, p[2])'
      BY <1>1, <2>1 DEF DiskInv, ChangedRegions, Finished
    <2>3. ASSUME NEW c \in Block PROVE BlockInv(p[1], w, e, c, p[2])'
      <3>1. BlockInv(p[1], w, e, c, p[2])
        BY StatusInvAt DEF Parts
      <3>2. p[1].last.data[e][c] \in Nat /\ p[1].pending.data[e][c] \in Nat
        BY StatusesType, StatusTypes
      <3> QED
        BY <1>1, <1>3, <1>4, <1>7, <3>1, <3>2, BlockTypes DEF BlockInv, Finished
    <2> QED
      BY <2>2, <2>3
  <1>9. StatusInv'
    BY <1>2, <1>8 DEF StatusInv, VMInv
  <1> QED
    BY <1>2, <1>5, <1>6, <1>9 DEF Parts

\* Steps that leave the data and the pass alone.
LEMMA IdleSafe ==
  ASSUME Parts, UNCHANGED <<phase, st, passVars, src, dv, cm, job, target, dropped>>,
         \A v \in VM : power[v] = "OFF" => power'[v] = "OFF"
  PROVE  Parts'
  <1>1. /\ PassInv' /\ CutoverInv' /\ ImportInv'
        /\ \A w \in VM : Statuses(w)' = Statuses(w)
    BY EnvFrame
  <1>2. TargetInv'
    BY DEF Parts, TargetInv
  <1>3. StatusInv'
    BY <1>1 DEF Parts, StatusInv, VMInv, DiskInv, BlockInv, Finished, ChangedRegions
  <1> QED
    BY <1>1, <1>2, <1>3 DEF Parts

LEMMA EnvironmentSafe ==
  ASSUME TypeOK, Quiet, Parts, StrayInv, phase # "Failed", Environment
  PROVE  Parts'
  <1>1. CASE Approve
    BY <1>1, IdleSafe DEF Approve, prismVars, dataVars
  <1>2. ASSUME NEW v \in VM, PowerOff(v) PROVE Parts'
    BY <1>2, IdleSafe DEF PowerOff, migVars, dataVars, TypeOK
  <1>3. \A v \in VM : strays[v] = {}
    BY DEF StrayInv
  <1> QED
    BY <1>1, <1>2, <1>3, GuestWriteSafe, CDIImportSafe, JobWriteSafe, JobEndSafe, NoCacheSync
       DEF Environment, RunJob

-----------------------------------------------------------------------------
(***************************************************************************)
(* The reconcile passes.                                                   *)
(***************************************************************************)

StatusAt(v) == \A p \in Statuses(v) : VMInv(p[1], v, p[2])

\* A status q that names the same snapshots and Jobs as s is as good as s, as
\* long as no data moves; skipping more deltas only weakens what is promised.
LEMMA Carried ==
  ASSUME NEW v \in VM, NEW s, NEW q, NEW D, VMInv(s, v, D),
         q.last = s.last, q.pending = s.pending, q.jobs = s.jobs, q.rounds = s.rounds,
         q.phase = "FinalDeltaDone" => s.phase = "FinalDeltaDone",
         phase' = "WarmFinalDelta" => phase = "WarmFinalDelta" \/ s.pending.id = 0,
         src'[v] = src[v], target'[v] = target[v], dv'[v] = dv[v],
         cm'[v] = cm[v], job'[v] = job[v], dropped[v] \subseteq dropped'[v]
  PROVE  VMInv(q, v, D)'
  <1> SUFFICES ASSUME NEW d \in Disk
               PROVE  DiskInv(q, v, d, D)' /\ \A b \in Block : BlockInv(q, v, d, b, D)'
    BY DEF VMInv
  <1>1. DiskInv(s, v, d, D) /\ \A b \in Block : BlockInv(s, v, d, b, D)
    BY DEF VMInv
  <1>2. DiskInv(q, v, d, D)'
    BY <1>1 DEF DiskInv, ChangedRegions, Finished
  <1>3. ASSUME NEW b \in Block PROVE BlockInv(q, v, d, b, D)'
    <2>1. BlockInv(s, v, d, b, D)
      BY <1>1
    <2> QED
      BY <2>1 DEF BlockInv, Finished
  <1> QED
    BY <1>2, <1>3

\* A step of the pass at VM v does not touch the others.
LEMMA OthersKept ==
  ASSUME StatusInv, NEW v \in VM, v = i,
         UNCHANGED <<phase, st, src, target>>,
         created => created',
         pc' = "spawn" => i' = i,
         \A w \in VM : w # v =>
            /\ loc'[w] = loc[w] /\ dv'[w] = dv[w] /\ cm'[w] = cm[w]
            /\ job'[w] = job[w] /\ dropped'[w] = dropped[w],
         StatusAt(v)'
  PROVE  StatusInv'
  <1> SUFFICES ASSUME NEW w \in VM, NEW p \in Statuses(w)' PROVE VMInv(p[1], w, p[2])'
    BY DEF StatusInv
  <1>1. CASE w = v
    BY <1>1 DEF StatusAt
  <1>2. CASE w # v
    <2>1. p \in Statuses(w)
      BY <1>2 DEF Statuses, Spawning
    <2>2. VMInv(p[1], w, p[2])
      BY <2>1 DEF StatusInv
    <2> QED
      BY <1>2, <2>2, Carried
  <1> QED
    BY <1>1, <1>2

\* The status the pass started from stays good while no data moves.
LEMMA OwnStatus ==
  ASSUME StatusInv, NEW v \in VM, UNCHANGED <<phase, st, src, target, dv, cm, job>>,
         dropped[v] \subseteq dropped'[v],
         created => created',
         \A p : p = <<loc'[v], Spawning(v)'>> => VMInv(p[1], v, p[2])'
  PROVE  StatusAt(v)'
  <1> SUFFICES ASSUME NEW p \in Statuses(v)' PROVE VMInv(p[1], v, p[2])'
    BY DEF StatusAt
  <1>1. CASE p = <<loc'[v], Spawning(v)'>>
    BY <1>1
  <1>2. CASE p # <<loc'[v], Spawning(v)'>>
    <2>1. p = <<st[v], {}>> /\ p \in Statuses(v)
      BY <1>2 DEF Statuses
    <2>2. VMInv(p[1], v, p[2])
      BY <2>1 DEF StatusInv
    <2> QED
      BY <2>2, Carried
  <1> QED
    BY <1>1, <1>2

\* The status p names the same snapshots and Jobs as s.
Repeats(p, s) ==
    /\ p[2] = s[2]
    /\ p[1].last = s[1].last /\ p[1].pending = s[1].pending /\ p[1].jobs = s[1].jobs
    /\ p[1].rounds = s[1].rounds
    /\ p[1].phase = "FinalDeltaDone" => s[1].phase = "FinalDeltaDone"

LEMMA Repeated ==
  ASSUME StatusInv, NEW v \in VM, NEW p, NEW s \in Statuses(v), Repeats(p, s),
         phase' = "WarmFinalDelta" => phase = "WarmFinalDelta" \/ s[1].pending.id = 0,
         UNCHANGED <<src, target, dv, cm, job, dropped>>
  PROVE  VMInv(p[1], v, p[2])'
  <1>1. VMInv(s[1], v, p[2])
    BY DEF StatusInv, Repeats
  <1> QED
    BY <1>1, Carried DEF Repeats

\* At the end of a pass the status that is persisted is the only one left.
LEMMA EndPassStatus ==
  ASSUME StatusInv, st' = loc', pc' = "loop",
         UNCHANGED <<src, target, dv, cm, job, dropped>>,
         \A v \in VM : \E s \in Statuses(v) :
            /\ Repeats(<<st'[v], {}>>, s)
            /\ phase' = "WarmFinalDelta" => phase = "WarmFinalDelta" \/ s[1].pending.id = 0
  PROVE  StatusInv'
  <1> SUFFICES ASSUME NEW v \in VM, NEW p \in Statuses(v)' PROVE VMInv(p[1], v, p[2])'
    BY DEF StatusInv
  <1>1. p = <<st'[v], {}>>
    BY DEF Statuses, Spawning
  <1>2. PICK s \in Statuses(v) :
            /\ Repeats(p, s)
            /\ phase' = "WarmFinalDelta" => phase = "WarmFinalDelta" \/ s[1].pending.id = 0
    BY <1>1
  <1> QED
    BY <1>2, Repeated

LEMMA PreSyncSnapshotSafe ==
  ASSUME TypeOK, Parts, PreSyncSnapshot
  PROVE  Parts'
  <1> PICK v \in VM : v = i
    BY ConstantsAssumption DEF PreSyncSnapshot, TypeOK, VM
  <1>1. loc \in [VM -> VMStatus] /\ Snapshot(v) \in Copy /\ v \in Nat
    BY SnapshotType DEF TypeOK, VM
  <1>2. /\ loc' = [loc EXCEPT ![v].last = Snapshot(v)] /\ pc = "loop" /\ pc' = "image"
        /\ phase = "WarmPreSync"
        /\ UNCHANGED <<phase, st, i, allDone, todo, created, src, power, dv, target,
                       cm, job, dropped>>
    BY DEF PreSyncSnapshot, migVars, dataVars
  <1>3. /\ \A w \in VM : w # v => loc'[w] = loc[w]
        /\ loc'[v].last.data = src[v] /\ loc'[v].pending = loc[v].pending
        /\ loc'[v].jobs = loc[v].jobs /\ loc'[v].phase = loc[v].phase
        /\ loc'[v].rounds = loc[v].rounds
    BY <1>1, <1>2 DEF VMStatus, Snapshot
  <1>4. ~created /\ \A d \in Disk : dv[v][d].st = "none"
    BY <1>2 DEF Parts, ImportInv
  <1>5. loc[v].pending.id = 0 /\ loc[v].phase # "FinalDeltaDone"
    BY <1>2 DEF Parts, CutoverInv, MarkInv
  <1>6. PassInv'
    BY <1>2 DEF Parts, PassInv
  <1>7. CutoverInv'
    <2> SUFFICES ASSUME NEW w \in VM PROVE MarkInv(loc[w])' /\ MarkInv(st[w])'
      BY <1>2 DEF CutoverInv
    <2>1. MarkInv(loc[w]) /\ MarkInv(st[w])
      BY DEF Parts, CutoverInv
    <2> QED
      BY <1>2, <1>3, <2>1 DEF MarkInv
  <1>8. ImportInv'
    BY <1>1, <1>2, <1>3, <1>4 DEF Parts, ImportInv
  <1>9. TargetInv'
    BY <1>2 DEF Parts, TargetInv
  <1>10. ASSUME NEW p, p = <<loc'[v], Spawning(v)'>> PROVE VMInv(p[1], v, p[2])'
    <2> SUFFICES ASSUME NEW d \in Disk
                 PROVE  /\ DiskInv(p[1], v, d, p[2])'
                        /\ \A b \in Block : BlockInv(p[1], v, d, b, p[2])'
      BY DEF VMInv
    <2>1. p[1] = loc'[v] /\ p[2] = {}
      BY <1>2, <1>10 DEF Spawning
    <2>2. DiskInv(loc[v], v, d, Spawning(v))
      BY LocInvAt DEF Parts
    <2>3. Over(loc[v], v, d)
      BY <1>5, <2>2 DEF DiskInv, Over
    <2>4. ASSUME NEW b \in Block PROVE BlockInv(p[1], v, d, b, p[2])'
      BY <1>2, <1>3, <1>4, <1>5, <2>1, BlockTypes DEF BlockInv
    <2>5. DiskInv(p[1], v, d, p[2])'
      BY <1>2, <1>3, <2>1, <2>3 DEF DiskInv, Over, Finished
    <2> QED
      BY <2>4, <2>5
  <1>11. StatusAt(v)'
    BY <1>2, <1>10, OwnStatus DEF Parts
  <1>12. StatusInv'
    BY <1>2, <1>3, <1>11, OthersKept DEF Parts
  <1> QED
    BY <1>6, <1>7, <1>8, <1>9, <1>12 DEF Parts

LEMMA PreSyncImageSafe ==
  ASSUME TypeOK, InLoop, Parts, PreSyncImage
  PROVE  Parts'
  <1> PICK v \in VM : v = i
    BY ConstantsAssumption DEF PreSyncImage, InLoop, TypeOK, VM
  <1>1. loc \in [VM -> VMStatus] /\ Snapshot(v) \in Copy /\ v \in Nat /\ NumVM \in Nat
    BY SnapshotType, ConstantsAssumption DEF TypeOK, VM
  <1>2. /\ loc' = [loc EXCEPT ![v].temp = Snapshot(v), ![v].phase = "WarmPreSync"]
        /\ pc = "image" /\ pc' = "loop" /\ i' = i + 1 /\ phase = "WarmPreSync"
        /\ UNCHANGED <<phase, st, allDone, todo, created, src, power, dv, target,
                       cm, job, dropped>>
    BY DEF PreSyncImage, NextVM, migVars, dataVars
  <1>3. /\ \A w \in VM : w # v => loc'[w] = loc[w]
        /\ loc'[v].last = loc[v].last /\ loc'[v].pending = loc[v].pending
        /\ loc'[v].jobs = loc[v].jobs /\ loc'[v].phase = "WarmPreSync"
        /\ loc'[v].temp.data = src[v] /\ loc'[v].rounds = loc[v].rounds
    BY <1>1, <1>2 DEF VMStatus, Snapshot
  <1>4. ~created /\ \A w \in VM, d \in Disk : dv[w][d].st = "none"
    BY <1>2 DEF Parts, ImportInv
  <1>5. PassInv'
    BY <1>2 DEF Parts, PassInv
  <1>6. CutoverInv'
    <2> SUFFICES ASSUME NEW w \in VM PROVE MarkInv(loc[w])' /\ MarkInv(st[w])'
      BY <1>2 DEF CutoverInv
    <2>1. MarkInv(loc[w]) /\ MarkInv(st[w])
      BY DEF Parts, CutoverInv
    <2> QED
      BY <1>2, <1>3, <2>1 DEF MarkInv
  <1>7. ASSUME NEW w \in VM, NEW d \in Disk, NEW b \in Block, w < i'
        PROVE  /\ loc'[w].last.data[d][b] <= loc'[w].temp.data[d][b]
               /\ loc'[w].temp.data[d][b] <= src[w][d][b]
    <2>1. CASE w = v
      <3>1. BlockInv(loc[v], v, d, b, Spawning(v))
        BY LocInvAt DEF Parts
      <3> QED
        BY <1>3, <2>1, <3>1, BlockTypes DEF BlockInv
    <2>2. CASE w # v
      <3>1. w < i
        BY <1>1, <1>2, <1>7, <2>2 DEF VM
      <3> QED
        BY <1>2, <1>3, <2>2, <3>1 DEF Parts, ImportInv
    <2> QED
      BY <2>1, <2>2
  <1>8. ImportInv'
    BY <1>2, <1>4, <1>7 DEF ImportInv
  <1>9. TargetInv'
    BY <1>2 DEF Parts, TargetInv
  <1>10. ASSUME NEW p, p = <<loc'[v], Spawning(v)'>> PROVE VMInv(p[1], v, p[2])'
    <2>1. PICK s \in Statuses(v) : s = <<loc[v], {}>>
      BY <1>2 DEF Spawning, Statuses
    <2>2. Repeats(p, s)
      BY <1>2, <1>3, <1>10, <2>1 DEF Repeats, Spawning
    <2> QED
      BY <1>2, <2>2, Repeated DEF Parts
  <1>11. StatusAt(v)'
    BY <1>2, <1>10, OwnStatus DEF Parts
  <1>12. StatusInv'
    BY <1>2, <1>3, <1>11, OthersKept DEF Parts
  <1> QED
    BY <1>5, <1>6, <1>8, <1>9, <1>12 DEF Parts

LEMMA PreSyncImagedSafe ==
  ASSUME TypeOK, Parts, PreSyncImaged
  PROVE  Parts'
  <1>1. /\ pc = "loop" /\ pc' = "dvs" /\ i = NumVM + 1 /\ i' = 1 /\ phase = "WarmPreSync"
        /\ UNCHANGED <<phase, st, loc, allDone, todo, created, src, power, dv, target,
                       cm, job, dropped>>
    BY DEF PreSyncImaged, migVars, prismVars, dataVars
  <1>2. \A v \in VM : v < i /\ ~(v < i')
    BY <1>1, ConstantsAssumption DEF VM
  <1>3. ~created /\ \A v \in VM, d \in Disk : dv[v][d].st = "none"
    BY <1>1 DEF Parts, ImportInv
  <1>4. PassInv'
    BY <1>1 DEF PassInv
  <1>5. CutoverInv' /\ TargetInv'
    BY <1>1 DEF Parts, CutoverInv, TargetInv, MarkInv
  <1>6. ImportInv'
    BY <1>1, <1>2, <1>3 DEF Parts, ImportInv
  <1>7. StatusInv'
    <2> SUFFICES ASSUME NEW v \in VM, NEW p \in Statuses(v)' PROVE VMInv(p[1], v, p[2])'
      BY DEF StatusInv
    <2>1. p \in Statuses(v)
      BY <1>1 DEF Statuses, Spawning
    <2> QED
      BY <1>1, <2>1, Repeated DEF Repeats, Parts
  <1> QED
    BY <1>4, <1>5, <1>6, <1>7 DEF Parts

LEMMA CreateDataVolumesSafe ==
  ASSUME TypeOK, Parts, createDataVolumesFromTempImages
  PROVE  Parts'
  <1> PICK v \in VM : v = i
    BY ConstantsAssumption DEF createDataVolumesFromTempImages, TypeOK, VM
  <1>1. loc \in [VM -> VMStatus] /\ dv \in [VM -> [Disk -> DataVolume]] /\ v \in Nat
    BY DEF TypeOK, VM
  <1>2. /\ loc' = [loc EXCEPT ![v].phase = "ImportingDisks"]
        /\ pc = "dvs" /\ pc' = "dvs" /\ i' = i + 1 /\ phase = "WarmPreSync" /\ created' = TRUE
        /\ UNCHANGED <<phase, st, allDone, todo, src, power, target, cm, job, dropped>>
    BY DEF createDataVolumesFromTempImages, migVars, prismVars
  <1>3. /\ \A w \in VM : w # v => loc'[w] = loc[w] /\ dv'[w] = dv[w]
        /\ loc'[v] = [loc[v] EXCEPT !.phase = "ImportingDisks"]
    BY <1>1, <1>2 DEF createDataVolumesFromTempImages
  <1>4. /\ loc'[v].last = loc[v].last /\ loc'[v].pending = loc[v].pending
        /\ loc'[v].temp = loc[v].temp /\ loc'[v].phase # "FinalDeltaDone"
        /\ loc'[v].phase # "DeltaConverged" /\ loc'[v].jobs = loc[v].jobs
        /\ loc'[v].rounds = loc[v].rounds
    BY <1>1, <1>3 DEF VMStatus
  <1>5. ASSUME NEW d \in Disk
        PROVE  dv'[v][d].st = "importing" /\ dv'[v][d].img = loc[v].temp.data[d]
    <2>1. dv[v][d].st = "none"
      BY <1>1, <1>2 DEF Parts, ImportInv
    <2> QED
      BY <1>1, <2>1 DEF createDataVolumesFromTempImages
  <1>6. PassInv'
    BY <1>2 DEF PassInv
  <1>7. CutoverInv'
    <2> SUFFICES ASSUME NEW w \in VM PROVE MarkInv(loc[w])' /\ MarkInv(st[w])'
      BY <1>2 DEF CutoverInv
    <2>1. MarkInv(loc[w]) /\ MarkInv(st[w])
      BY DEF Parts, CutoverInv
    <2> QED
      BY <1>2, <1>3, <1>4, <2>1 DEF MarkInv
  <1>8. ImportInv'
    <2>1. ASSUME NEW w \in VM, NEW d \in Disk PROVE w >= i' => dv'[w][d].st = "none"
      BY <1>1, <1>2, <1>3 DEF Parts, ImportInv, VM
    <2>2. ASSUME NEW w \in VM, NEW d \in Disk PROVE w < i' => dv'[w][d].st # "none"
      <3>1. CASE w = v
        BY <1>5, <3>1
      <3>2. CASE w # v
        BY <1>1, <1>2, <1>3, <3>2 DEF Parts, ImportInv, VM
      <3> QED
        BY <3>1, <3>2
    <2>3. ASSUME NEW w \in VM, NEW d \in Disk, NEW b \in Block
          PROVE  /\ loc'[w].last.data[d][b] <= loc'[w].temp.data[d][b]
                 /\ loc'[w].temp.data[d][b] <= src[w][d][b]
      BY <1>2, <1>3, <1>4 DEF Parts, ImportInv
    <2> QED
      BY <1>2, <2>1, <2>2, <2>3 DEF ImportInv
  <1>9. TargetInv'
    BY <1>2 DEF Parts, TargetInv
  <1>10. StatusAt(v)'
    <2> SUFFICES ASSUME NEW p \in Statuses(v)', NEW d \in Disk
                 PROVE  /\ DiskInv(p[1], v, d, p[2])'
                        /\ \A b \in Block : BlockInv(p[1], v, d, b, p[2])'
      BY DEF StatusAt, VMInv
    <2>1. p[1] = loc'[v] /\ p[2] = {} /\ Spawning(v) = {}
      BY <1>2 DEF Statuses, Spawning
    <2>2. DiskInv(loc[v], v, d, {})
      BY <2>1, LocInvAt DEF Parts
    <2>3. DiskInv(p[1], v, d, p[2])'
      BY <1>2, <1>4, <2>1, <2>2 DEF DiskInv, Finished
    <2>4. loc[v].pending.id = 0
      BY <1>2 DEF Parts, CutoverInv, MarkInv
    <2>5. ASSUME NEW b \in Block PROVE BlockInv(p[1], v, d, b, p[2])'
      <3>1. BlockInv(loc[v], v, d, b, Spawning(v))
        BY LocInvAt DEF Parts
      <3>2. /\ loc[v].last.data[d][b] <= loc[v].temp.data[d][b]
            /\ loc[v].temp.data[d][b] <= src[v][d][b]
        BY <1>2 DEF Parts, ImportInv
      <3> QED
        BY <1>2, <1>4, <1>5, <2>1, <2>4, <3>1, <3>2 DEF BlockInv
    <2> QED
      BY <2>3, <2>5
  <1>11. StatusInv'
    BY <1>2, <1>3, <1>10, OthersKept DEF Parts
  <1> QED
    BY <1>6, <1>7, <1>8, <1>9, <1>11 DEF Parts

\* The end of a pass.
LEMMA EndPassSafe ==
  ASSUME Parts, st' = loc', pc' = "loop", i' = 1, created' = FALSE,
         UNCHANGED <<src, target, dv, cm, job, dropped>>,
         \A v \in VM : MarkInv(st[v])',
         phase' \in {"WarmFinalDelta", "CreatingVMs"} => \A v \in VM : power'[v] = "OFF",
         phase' = "WarmPreSync" => \A v \in VM, d \in Disk : dv[v][d].st = "none",
         phase' = "WarmSyncing" => \A v \in VM, d \in Disk : dv[v][d].st # "none",
         phase' \notin {"WarmPreSync", "WarmSyncing"} =>
            \A v \in VM, d \in Disk : dv[v][d].st = "succeeded",
         \A v \in VM : \E s \in Statuses(v) :
            /\ Repeats(<<st'[v], {}>>, s)
            /\ phase' = "WarmFinalDelta" => phase = "WarmFinalDelta" \/ s[1].pending.id = 0
  PROVE  Parts'
  <1>1. \A v \in VM : ~(v < i')
    BY ConstantsAssumption DEF VM
  <1>2. PassInv'
    BY <1>1 DEF PassInv
  <1>3. CutoverInv'
    BY DEF CutoverInv, MarkInv
  <1>4. ImportInv'
    BY <1>1 DEF ImportInv
  <1>5. TargetInv'
    BY DEF Parts, TargetInv
  <1>6. StatusInv'
    BY EndPassStatus DEF Parts
  <1> QED
    BY <1>2, <1>3, <1>4, <1>5, <1>6 DEF Parts

\* A pass that persists its local statuses.
LEMMA PatchLocSafe ==
  ASSUME TypeOK, Parts, NEW x, EndPass(x, loc), pc # "spawn",
         UNCHANGED <<power, src, target, dv, cm, job, dropped>>,
         \A v \in VM : MarkInv(loc[v])',
         phase' = "WarmFinalDelta" => phase = "WarmFinalDelta",
         phase' = "CreatingVMs" => \A v \in VM : power[v] = "OFF",
         phase' # "WarmPreSync",
         phase' = "WarmSyncing" => \A v \in VM, d \in Disk : dv[v][d].st # "none",
         phase' # "WarmSyncing" => phase \notin {"WarmPreSync", "WarmSyncing"}
  PROVE  Parts'
  <1>1. /\ st' = loc /\ loc' = loc /\ pc' = "loop" /\ i' = 1 /\ created' = FALSE
    BY DEF EndPass
  <1>2. \A v \in VM : MarkInv(st[v])'
    BY <1>1 DEF MarkInv
  <1>3. phase' \in {"WarmFinalDelta", "CreatingVMs"} => \A v \in VM : power'[v] = "OFF"
    BY DEF Parts, CutoverInv
  <1>4. phase' # "WarmSyncing" => \A v \in VM, d \in Disk : dv[v][d].st = "succeeded"
    BY DEF Parts, ImportInv
  <1>5. \A v \in VM : <<loc[v], {}>> \in Statuses(v) /\ Repeats(<<st'[v], {}>>, <<loc[v], {}>>)
    BY <1>1 DEF Statuses, Spawning, Repeats
  <1> QED
    BY <1>1, <1>2, <1>3, <1>4, <1>5, EndPassSafe

LEMMA PreSyncPatchSafe ==
  ASSUME TypeOK, Parts, PreSyncPatch
  PROVE  Parts'
  <1>1. /\ EndPass("WarmSyncing", loc) /\ phase' = "WarmSyncing" /\ loc' = loc
        /\ phase = "WarmPreSync" /\ pc = "dvs" /\ i = NumVM + 1
        /\ UNCHANGED <<power, src, target, dv, cm, job, dropped>>
    BY DEF PreSyncPatch, EndPass, prismVars, dataVars
  <1>2. \A v \in VM : v < i
    BY <1>1, ConstantsAssumption DEF VM
  <1>3. \A v \in VM, d \in Disk : dv[v][d].st # "none"
    BY <1>1, <1>2 DEF Parts, ImportInv
  <1>4. \A v \in VM : MarkInv(loc[v])'
    BY <1>1 DEF Parts, CutoverInv, MarkInv
  <1> QED
    BY <1>1, <1>3, <1>4, PatchLocSafe

LEMMA WarmSyncingSafe ==
  ASSUME TypeOK, Parts, handleWarmSyncing
  PROVE  Parts'
  <1>1. /\ loc' = st' /\ pc' = "loop" /\ i' = 1 /\ created' = FALSE
        /\ phase = "WarmSyncing" /\ phase' \in {"WarmSyncing", "WarmDeltaSync"}
        /\ UNCHANGED <<power, src, target, dv, cm, job, dropped>>
    BY DEF handleWarmSyncing, EndPass, prismVars, dataVars
  <1>2. phase' = "WarmDeltaSync" => \A v \in VM, d \in Disk : dv[v][d].st = "succeeded"
    BY <1>1 DEF handleWarmSyncing, EndPass, Imported
  <1>3. ~created /\ \A v \in VM, d \in Disk : dv[v][d].st # "none"
    BY <1>1 DEF Parts, PassInv, ImportInv
  <1>4. ASSUME NEW v \in VM
        PROVE  /\ st'[v].last = st[v].last /\ st'[v].pending = st[v].pending
               /\ st'[v].jobs = st[v].jobs /\ st'[v].rounds = st[v].rounds
               /\ st'[v].phase = "WarmSyncDone" \/ st'[v].phase = st[v].phase
    <2>1. st[v] \in VMStatus
      BY DEF TypeOK
    <2>2. st'[v] = st[v] \/ st'[v] = [st[v] EXCEPT !.phase = "WarmSyncDone"]
      BY DEF handleWarmSyncing, EndPass
    <2> QED
      BY <2>1, <2>2 DEF VMStatus
  <1>5. \A v \in VM : st[v].pending.id = 0 /\ st[v].phase # "FinalDeltaDone"
    BY <1>1 DEF Parts, CutoverInv, MarkInv
  <1>6. \A v \in VM : MarkInv(st[v])'
    BY <1>1, <1>4, <1>5 DEF MarkInv
  <1>7. \A v \in VM : <<st[v], {}>> \in Statuses(v) /\ Repeats(<<st'[v], {}>>, <<st[v], {}>>)
    BY <1>3, <1>4 DEF Statuses, Repeats
  <1> QED
    BY <1>1, <1>2, <1>3, <1>6, <1>7, EndPassSafe

LEMMA RoundPatchSafe ==
  ASSUME TypeOK, Parts, RoundPatch
  PROVE  Parts'
  <1>1. /\ EndPass(phase, loc) /\ phase' = phase /\ loc' = loc
        /\ phase \in {"WarmDeltaSync", "WarmFinalDelta"} /\ pc = "loop"
        /\ UNCHANGED <<power, src, target, dv, cm, job, dropped>>
    BY DEF RoundPatch, AtEnd, EndPass, prismVars, dataVars
  <1>2. \A v \in VM : MarkInv(loc[v])'
    BY <1>1 DEF Parts, CutoverInv, MarkInv
  <1>3. PICK x : x = phase
    OBVIOUS
  <1> QED
    BY <1>1, <1>2, <1>3, PatchLocSafe

\* All VMs are done when the pass gets past the last one with allDone.
LEMMA AllMarked ==
  ASSUME Parts, phase \in {"WarmDeltaSync", "WarmFinalDelta"}, i = NumVM + 1, allDone
  PROVE  \A v \in VM : loc[v].phase = doneMark
  <1>1. \A v \in VM : v < i
    BY ConstantsAssumption DEF VM
  <1> QED
    BY <1>1 DEF Parts, PassInv

LEMMA ConvergedPatchSafe ==
  ASSUME TypeOK, Parts, ConvergedPatch
  PROVE  Parts'
  <1>1. PICK x : x = IF PauseBeforeCutover THEN "ReadyForCutover" ELSE "WarmCutover"
    OBVIOUS
  <1>2. /\ EndPass(x, loc) /\ phase' = x /\ loc' = loc
        /\ phase = "WarmDeltaSync" /\ pc = "loop" /\ i = NumVM + 1 /\ allDone
        /\ UNCHANGED <<power, src, target, dv, cm, job, dropped>>
    BY <1>1 DEF ConvergedPatch, AtEnd, EndPass, prismVars, dataVars, final
  <1>3. \A v \in VM : loc[v].phase = "DeltaConverged"
    BY <1>2, AllMarked DEF doneMark, final
  <1>4. x \in {"ReadyForCutover", "WarmCutover"}
    BY <1>1
  <1>5. \A v \in VM : MarkInv(loc[v])'
    BY <1>2, <1>3, <1>4 DEF Parts, CutoverInv, MarkInv
  <1> QED
    BY <1>2, <1>4, <1>5, PatchLocSafe

LEMMA FinalCleanupSafe ==
  ASSUME TypeOK, Parts, FinalCleanup
  PROVE  Parts'
  <1>1. /\ phase = "WarmFinalDelta" /\ pc = "loop" /\ pc' = "patch" /\ i = NumVM + 1 /\ allDone
        /\ UNCHANGED <<phase, st, loc, i, allDone, created, power, src, target, dv, cm,
                       job, dropped>>
    BY DEF FinalCleanup, AtEnd, final, migVars, dataVars
  <1>2. PassInv'
    BY <1>1 DEF Parts, PassInv, doneMark, final
  <1>3. CutoverInv' /\ ImportInv' /\ TargetInv'
    BY <1>1 DEF Parts, CutoverInv, MarkInv, ImportInv, TargetInv
  <1>4. StatusInv'
    <2> SUFFICES ASSUME NEW v \in VM, NEW p \in Statuses(v)' PROVE VMInv(p[1], v, p[2])'
      BY DEF StatusInv
    <2>1. p \in Statuses(v)
      BY <1>1 DEF Statuses, Spawning
    <2> QED
      BY <1>1, <2>1, Repeated DEF Repeats, Parts
  <1> QED
    BY <1>2, <1>3, <1>4 DEF Parts

LEMMA FinalPatchSafe ==
  ASSUME TypeOK, Parts, FinalPatch
  PROVE  Parts'
  <1>1. /\ EndPass("CreatingVMs", loc) /\ phase' = "CreatingVMs" /\ loc' = loc /\ pc = "patch"
        /\ UNCHANGED <<power, src, target, dv, cm, job, dropped>>
    BY DEF FinalPatch, EndPass, prismVars, dataVars
  <1>2. phase = "WarmFinalDelta" /\ i = NumVM + 1 /\ allDone
    BY <1>1 DEF Parts, PassInv
  <1>3. \A v \in VM : loc[v].phase = "FinalDeltaDone" /\ power[v] = "OFF"
    BY <1>2, AllMarked DEF doneMark, final, Parts, CutoverInv
  <1>4. \A v \in VM : MarkInv(loc[v])'
    BY <1>1, <1>3 DEF MarkInv
  <1> QED
    BY <1>1, <1>2, <1>3, <1>4, PatchLocSafe

LEMMA CutoverSafe ==
  ASSUME TypeOK, Parts, Cutover
  PROVE  Parts'
  <1>1. /\ phase \in {"ReadyForCutover", "WarmCutover"}
        /\ phase' \in {"WarmCutover", "WarmFinalDelta"}
        /\ phase' = "WarmFinalDelta" => \A v \in VM : power'[v] = "OFF"
        /\ loc' = st' /\ pc' = "loop" /\ i' = 1 /\ created' = FALSE
        /\ UNCHANGED <<src, target, dv, cm, job, dropped>>
    BY DEF Cutover, handleReadyForCutover, WarmCutoverShutdown, WarmCutoverOff, On, EndPass,
           prismVars, dataVars
  <1>2. ~created /\ \A v \in VM, d \in Disk : dv[v][d].st = "succeeded"
    BY <1>1 DEF Parts, PassInv, ImportInv
  <1>3. ASSUME NEW v \in VM
        PROVE  st'[v] = st[v] \/ st'[v] = [st[v] EXCEPT !.phase = "ShuttingDown"]
    BY DEF Cutover, handleReadyForCutover, WarmCutoverShutdown, WarmCutoverOff, EndPass
  <1>4. ASSUME NEW v \in VM
        PROVE  /\ st'[v].last = st[v].last /\ st'[v].pending = st[v].pending
               /\ st'[v].jobs = st[v].jobs /\ st'[v].rounds = st[v].rounds
               /\ st'[v].phase = "FinalDeltaDone" => st[v].phase = "FinalDeltaDone"
    <2>1. st[v] \in VMStatus
      BY DEF TypeOK
    <2> QED
      BY <1>3, <2>1 DEF VMStatus
  <1>5. \A v \in VM : st[v].pending.id = 0 /\ st[v].phase # "FinalDeltaDone"
    BY <1>1 DEF Parts, CutoverInv, MarkInv
  <1>6. \A v \in VM : MarkInv(st[v])'
    BY <1>1, <1>4, <1>5 DEF MarkInv
  <1>7. \A v \in VM : <<st[v], {}>> \in Statuses(v) /\ Repeats(<<st'[v], {}>>, <<st[v], {}>>)
    BY <1>2, <1>4 DEF Statuses, Repeats
  <1> QED
    BY <1>1, <1>2, <1>5, <1>6, <1>7, EndPassSafe

\* A pass that is aborted has created nothing: the statuses it started from
\* are still good.
LEMMA AbortSafe ==
  ASSUME TypeOK, Quiet, Parts, AbortPass
  PROVE  Parts'
  <1>1. /\ ~created /\ phase' = phase /\ st' = st /\ loc' = st' /\ pc' = "loop" /\ i' = 1
        /\ created' = FALSE
        /\ UNCHANGED <<power, src, target, dv, cm, job, dropped>>
    BY DEF AbortPass, Quiet, PathsInOrder, EndPass, prismVars, dataVars
  <1>2. \A v \in VM : MarkInv(st[v])'
    BY <1>1 DEF Parts, CutoverInv, MarkInv
  <1>3. phase' \in {"WarmFinalDelta", "CreatingVMs"} => \A v \in VM : power'[v] = "OFF"
    BY <1>1 DEF Parts, CutoverInv
  <1>4. \A v \in VM : <<st[v], {}>> \in Statuses(v) /\ Repeats(<<st'[v], {}>>, <<st[v], {}>>)
    BY <1>1 DEF Statuses, Repeats
  <1>5. /\ phase = "WarmPreSync" => \A v \in VM, d \in Disk : dv[v][d].st = "none"
        /\ phase = "WarmSyncing" => \A v \in VM, d \in Disk : dv[v][d].st # "none"
        /\ phase \notin {"WarmPreSync", "WarmSyncing"} =>
              \A v \in VM, d \in Disk : dv[v][d].st = "succeeded"
    BY <1>1 DEF Parts, ImportInv
  <1> QED
    BY <1>1, <1>2, <1>3, <1>4, <1>5, EndPassSafe

-----------------------------------------------------------------------------
(***************************************************************************)
(* The steps of runDeltaRound at VM v.                                     *)
(***************************************************************************)

LEMMA RoundFrame ==
  ASSUME Parts, NEW v \in VM, phase \in {"WarmDeltaSync", "WarmFinalDelta"},
         UNCHANGED <<phase, st, power, src, target, dv>>,
         \A w \in VM : w # v => loc'[w] = loc[w],
         MarkInv(loc[v])'
  PROVE  CutoverInv' /\ ImportInv' /\ TargetInv'
  <1>1. CutoverInv'
    <2> SUFFICES ASSUME NEW w \in VM PROVE MarkInv(loc[w])' /\ MarkInv(st[w])'
      BY DEF Parts, CutoverInv
    <2>1. MarkInv(loc[w]) /\ MarkInv(st[w])
      BY DEF Parts, CutoverInv
    <2>2. MarkInv(st[w])'
      BY <2>1 DEF MarkInv
    <2>3. MarkInv(loc[w])'
      <3>1. CASE w = v
        BY <3>1
      <3>2. CASE w # v
        BY <2>1, <3>2 DEF MarkInv
      <3> QED
        BY <3>1, <3>2
    <2> QED
      BY <2>2, <2>3
  <1>2. ImportInv'
    BY DEF Parts, ImportInv
  <1>3. TargetInv'
    BY DEF Parts, TargetInv
  <1> QED
    BY <1>1, <1>2, <1>3

\* The loop goes on: VM v is done, or allDone is not.
LEMMA NextVMPass ==
  ASSUME TypeOK, Parts, NEW v \in VM, v = i, NextVM,
         phase \in {"WarmDeltaSync", "WarmFinalDelta"}, phase' = phase,
         \A w \in VM : w # v => loc'[w] = loc[w],
         allDone' => allDone /\ loc'[v].phase = doneMark
  PROVE  PassInv'
  <1>1. ASSUME NEW w \in VM, allDone', w < i' PROVE loc'[w].phase = doneMark
    <2>1. CASE w = v
      BY <1>1, <2>1
    <2>2. CASE w # v
      <3>1. w < i
        BY <1>1, <2>2 DEF NextVM, VM
      <3> QED
        BY <1>1, <2>2, <3>1 DEF Parts, PassInv
    <2> QED
      BY <2>1, <2>2
  <1>2. doneMark' = doneMark
    BY DEF doneMark, final
  <1> QED
    BY <1>1, <1>2 DEF PassInv, NextVM

LEMMA SkipSafe ==
  ASSUME TypeOK, Parts, RoundSkip \/ RoundWait
  PROVE  Parts'
  <1> PICK v \in VM : v = i
    BY ConstantsAssumption DEF RoundSkip, RoundWait, RoundPending, AtVM, TypeOK, VM
  <1>1. /\ pc = "loop" /\ pc' = "loop" /\ NextVM /\ phase \in {"WarmDeltaSync", "WarmFinalDelta"}
        /\ UNCHANGED <<phase, st, loc, created, power, src, target, dv, cm, job, dropped>>
    BY DEF RoundSkip, RoundWait, RoundPending, AtVM, NextVM, migVars, prismVars, dataVars
  <1>2. allDone' => allDone /\ loc'[v].phase = doneMark
    BY DEF RoundSkip, RoundWait
  <1>3. PassInv'
    BY <1>1, <1>2, NextVMPass
  <1>4. MarkInv(loc[v])'
    BY <1>1 DEF Parts, CutoverInv, MarkInv
  <1>5. CutoverInv' /\ ImportInv' /\ TargetInv'
    BY <1>1, <1>4, RoundFrame
  <1>6. StatusInv'
    <2> SUFFICES ASSUME NEW w \in VM, NEW p \in Statuses(w)' PROVE VMInv(p[1], w, p[2])'
      BY DEF StatusInv
    <2>1. p \in Statuses(w)
      BY <1>1 DEF Statuses, Spawning
    <2> QED
      BY <1>1, <2>1, Repeated DEF Repeats, Parts
  <1> QED
    BY <1>3, <1>5, <1>6 DEF Parts

\* What is known of VM v when its round starts: every disk is imported, no
\* Job is left, and the new snapshot is what the disks hold.
LEMMA RoundSnapshotFacts ==
  ASSUME TypeOK, Parts, RoundSnapshot, NEW v \in VM, v = i
  PROVE  /\ phase \in {"WarmDeltaSync", "WarmFinalDelta"} /\ pc = "loop"
         /\ loc \in [VM -> VMStatus] /\ Snapshot(v) \in Copy
         /\ Snapshot(v).data = src[v] /\ Snapshot(v).id # 0
         /\ loc[v].pending.id = 0 /\ loc[v].phase # doneMark /\ loc[v].phase # "FinalDeltaDone"
         /\ \A d \in Disk : dv[v][d].st = "succeeded" /\ Over(loc[v], v, d)
  <1>1. phase \in {"WarmDeltaSync", "WarmFinalDelta"} /\ pc = "loop"
    BY DEF RoundSnapshot, AtVM
  <1>2. loc[v].pending.id = 0 /\ loc[v].phase # doneMark
    BY DEF RoundSnapshot
  <1>3. loc[v].phase # "FinalDeltaDone"
    BY <1>1, <1>2 DEF doneMark, final, Parts, CutoverInv, MarkInv
  <1>4. loc \in [VM -> VMStatus] /\ Snapshot(v) \in Copy
    BY SnapshotType DEF TypeOK
  <1>5. Snapshot(v).data = src[v] /\ Snapshot(v).id # 0
    BY DEF Snapshot, TypeOK
  <1>6. ASSUME NEW d \in Disk
        PROVE  dv[v][d].st = "succeeded" /\ Over(loc[v], v, d)
    <2>1. DiskInv(loc[v], v, d, Spawning(v))
      BY LocInvAt DEF Parts
    <2> QED
      BY <1>1, <1>2, <2>1 DEF DiskInv, Over, Parts, ImportInv
  <1> QED
    BY <1>1, <1>2, <1>3, <1>4, <1>5, <1>6

LEMMA ConvergeSafe ==
  ASSUME TypeOK, Parts, RoundConverge
  PROVE  Parts'
  <1> PICK v \in VM : v = i
    BY ConstantsAssumption DEF RoundConverge, RoundSnapshot, AtVM, TypeOK, VM
  <1>1. /\ phase \in {"WarmDeltaSync", "WarmFinalDelta"} /\ pc = "loop"
        /\ loc \in [VM -> VMStatus] /\ Snapshot(v) \in Copy /\ Snapshot(v).data = src[v]
        /\ loc[v].pending.id = 0
        /\ \A d \in Disk : dv[v][d].st = "succeeded" /\ Over(loc[v], v, d)
    BY RoundSnapshotFacts DEF RoundConverge
  <1>2. /\ loc' = [loc EXCEPT ![v].last = Snapshot(v), ![v].phase = "DeltaConverged"]
        /\ dropped' = [dropped EXCEPT ![v] = @ \cup {r \in Disk \X Block :
                           src[v][r[1]][r[2]] # loc[v].last.data[r[1]][r[2]]}]
        /\ phase = "WarmDeltaSync" /\ pc' = "loop" /\ NextVM /\ doneMark = "DeltaConverged"
        /\ UNCHANGED <<phase, st, allDone, created, power, src, target, dv, cm, job>>
    BY <1>1 DEF RoundConverge, NextVM, doneMark, final, migVars
  <1>3. /\ \A w \in VM : w # v => loc'[w] = loc[w] /\ dropped'[w] = dropped[w]
        /\ dropped[v] \subseteq dropped'[v]
        /\ \A d \in Disk, b \in Block : <<d, b>> \notin dropped'[v] =>
              <<d, b>> \notin dropped[v] /\ src[v][d][b] = loc[v].last.data[d][b]
    <2>1. dropped \in [VM -> SUBSET (Disk \X Block)]
      BY DEF TypeOK
    <2> QED
      BY <1>1, <1>2, <2>1
  <1>4. /\ loc'[v].last.data = src[v] /\ loc'[v].pending = loc[v].pending
        /\ loc'[v].jobs = loc[v].jobs /\ loc'[v].phase = "DeltaConverged"
        /\ loc'[v].rounds = loc[v].rounds
    BY <1>1, <1>2 DEF VMStatus
  <1>5. PassInv'
    BY <1>2, <1>3, <1>4, NextVMPass
  <1>6. MarkInv(loc[v])'
    BY <1>1, <1>2, <1>4 DEF MarkInv
  <1>7. CutoverInv' /\ ImportInv' /\ TargetInv'
    BY <1>1, <1>2, <1>3, <1>6, RoundFrame
  <1>8. ASSUME NEW p, p = <<loc'[v], Spawning(v)'>> PROVE VMInv(p[1], v, p[2])'
    <2> SUFFICES ASSUME NEW d \in Disk
                 PROVE  /\ DiskInv(p[1], v, d, p[2])'
                        /\ \A b \in Block : BlockInv(p[1], v, d, b, p[2])'
      BY DEF VMInv
    <2>1. p[1] = loc'[v] /\ p[2] = {}
      BY <1>2, <1>8 DEF Spawning
    <2>2. ASSUME NEW b \in Block PROVE BlockInv(p[1], v, d, b, p[2])'
      <3>1. BlockInv(loc[v], v, d, b, Spawning(v))
        BY LocInvAt DEF Parts
      <3>2. <<d, b>> \notin dropped'[v] => src[v][d][b] <= target[v][d][b]
        BY <1>1, <1>3, <3>1 DEF BlockInv
      <3>3. src[v][d][b] <= src[v][d][b]
        BY BlockTypes
      <3>4. /\ p[1].last.data = src[v] /\ p[1].pending.id = 0 /\ p[1].phase = "DeltaConverged"
            /\ dv'[v][d].st = "succeeded" /\ src' = src /\ target' = target
        BY <1>1, <1>2, <1>4, <2>1
      <3> QED
        BY <3>2, <3>3, <3>4 DEF BlockInv
    <2>3. DiskInv(p[1], v, d, p[2])'
      BY <1>1, <1>2, <1>4, <2>1 DEF DiskInv, Over, Finished
    <2> QED
      BY <2>2, <2>3
  <1>9. StatusAt(v)'
    BY <1>2, <1>3, <1>8, OwnStatus DEF Parts
  <1>10. StatusInv'
    BY <1>2, <1>3, <1>9, OthersKept DEF Parts
  <1> QED
    BY <1>5, <1>7, <1>10 DEF Parts

\* A block that the new snapshot and the base agree on is already there.
LEMMA Unchanged ==
  ASSUME TypeOK, Parts, RoundSnapshot, NEW v \in VM, v = i,
         NEW d \in Disk, NEW b \in Block, <<d, b>> \notin dropped[v],
         loc[v].last.data[d][b] = src[v][d][b]
  PROVE  target[v][d][b] = src[v][d][b]
  <1>1. dv[v][d].st = "succeeded"
    BY RoundSnapshotFacts
  <1>2. BlockInv(loc[v], v, d, b, Spawning(v))
    BY LocInvAt DEF Parts
  <1>3. src[v][d][b] <= target[v][d][b]
    BY <1>1, <1>2 DEF BlockInv
  <1>4. target[v][d][b] <= src[v][d][b]
    BY DEF Parts, TargetInv
  <1> QED
    BY <1>3, <1>4, BlockTypes

\* The pair of a status with the new snapshot pending and the disks D whose
\* Jobs are to be created.
LEMMA PendingPair ==
  ASSUME TypeOK, Quiet, Parts, RoundSnapshot, NEW v \in VM, v = i, NEW p,
         p[1].last = loc[v].last, p[1].pending = Snapshot(v), p[1].rounds = loc[v].rounds,
         p[2] \subseteq Disk,
         p[1].phase = "FinalDeltaDone" => p[2] = {},
         \A d \in Disk : d \notin p[2] => ChangedRegions(Snapshot(v), loc[v].last, d) = {},
         UNCHANGED <<phase, src, target, dv, cm, job, dropped>>
  PROVE  VMInv(p[1], v, p[2])'
  <1> SUFFICES ASSUME NEW d \in Disk
               PROVE  /\ DiskInv(p[1], v, d, p[2])'
                      /\ \A b \in Block : BlockInv(p[1], v, d, b, p[2])'
    BY DEF VMInv
  <1>1. /\ Snapshot(v).data = src[v] /\ Snapshot(v).id # 0
        /\ dv[v][d].st = "succeeded" /\ Over(loc[v], v, d)
    BY RoundSnapshotFacts
  <1>2. DiskInv(p[1], v, d, p[2])'
    BY <1>1 DEF DiskInv, Over, Finished
  <1>3. ASSUME NEW b \in Block PROVE BlockInv(p[1], v, d, b, p[2])'
    <2>1. BlockInv(loc[v], v, d, b, Spawning(v))
      BY LocInvAt DEF Parts
    <2>2. d \notin p[2] => loc[v].last.data[d][b] = src[v][d][b]
      BY <1>1 DEF ChangedRegions, Quiet, PathsInOrder
    <2>3. d \notin p[2] => <<d, b>> \in dropped[v] \/ target[v][d][b] = src[v][d][b]
      BY <2>2, Unchanged
    <2>4. target[v][d][b] <= src[v][d][b] /\ src[v][d][b] <= src[v][d][b]
      BY BlockTypes DEF Parts, TargetInv
    <2>5. loc[v].last.data[d][b] <= src[v][d][b]
      BY <2>1 DEF BlockInv
    <2>6. <<d, b>> \notin dropped[v] => loc[v].last.data[d][b] <= target[v][d][b]
      BY <1>1, <2>1 DEF BlockInv
    <2>7. job'[v][d].round # p[1].rounds + 1
      BY <1>1 DEF Over
    <2> QED
      BY <1>1, <2>3, <2>4, <2>5, <2>6, <2>7 DEF BlockInv
  <1> QED
    BY <1>2, <1>3

LEMMA ZeroSafe ==
  ASSUME TypeOK, Quiet, Parts, RoundZero
  PROVE  Parts'
  <1> PICK v \in VM : v = i
    BY ConstantsAssumption DEF RoundZero, RoundSnapshot, AtVM, TypeOK, VM
  <1>1. /\ RoundSnapshot /\ phase = "WarmFinalDelta"
        /\ loc \in [VM -> VMStatus] /\ Snapshot(v) \in Copy
    BY RoundSnapshotFacts DEF RoundZero, final
  <1>2. /\ loc' = [loc EXCEPT ![v].pending = Snapshot(v), ![v].phase = "FinalDeltaDone"]
        /\ pc' = "loop" /\ NextVM /\ doneMark = "FinalDeltaDone"
        /\ DeltaRegions(Snapshot(v), loc[v].last) = {}
        /\ UNCHANGED <<phase, st, allDone, created, power, src, target, dv, cm, job, dropped>>
    BY DEF RoundZero, NextVM, doneMark, final, migVars, dataVars
  <1>3. /\ \A w \in VM : w # v => loc'[w] = loc[w]
        /\ loc'[v].last = loc[v].last /\ loc'[v].pending = Snapshot(v)
        /\ loc'[v].phase = "FinalDeltaDone" /\ loc'[v].rounds = loc[v].rounds
    BY <1>1, <1>2 DEF VMStatus
  <1>4. PassInv'
    BY <1>1, <1>2, <1>3, NextVMPass
  <1>5. MarkInv(loc[v])'
    BY <1>1, <1>2, <1>3 DEF MarkInv
  <1>6. CutoverInv' /\ ImportInv' /\ TargetInv'
    BY <1>1, <1>2, <1>3, <1>5, RoundFrame
  <1>7. \A d \in Disk : ChangedRegions(Snapshot(v), loc[v].last, d) = {}
    <2> SUFFICES ASSUME NEW d \in Disk, NEW b \in ChangedRegions(Snapshot(v), loc[v].last, d)
                 PROVE  FALSE
      OBVIOUS
    <2>1. b \in Block
      BY DEF ChangedRegions
    <2>2. <<d, b>> \in DeltaRegions(Snapshot(v), loc[v].last)
      BY <2>1 DEF DeltaRegions
    <2> QED
      BY <1>2, <2>2
  <1>8. ASSUME NEW p, p = <<loc'[v], Spawning(v)'>> PROVE VMInv(p[1], v, p[2])'
    <2>1. p[1] = loc'[v] /\ p[2] = {}
      BY <1>2, <1>8 DEF Spawning
    <2> QED
      BY <1>1, <1>2, <1>3, <1>7, <2>1, PendingPair
  <1>9. StatusAt(v)'
    BY <1>2, <1>8, OwnStatus DEF Parts
  <1>10. StatusInv'
    BY <1>2, <1>3, <1>9, OthersKept DEF Parts
  <1> QED
    BY <1>4, <1>6, <1>10 DEF Parts

LEMMA StartSafe ==
  ASSUME TypeOK, Quiet, Parts, RoundStart
  PROVE  Parts'
  <1> PICK v \in VM : v = i
    BY ConstantsAssumption DEF RoundStart, RoundSnapshot, AtVM, TypeOK, VM
  <1>1. /\ RoundSnapshot /\ phase \in {"WarmDeltaSync", "WarmFinalDelta"}
        /\ loc \in [VM -> VMStatus] /\ Snapshot(v) \in Copy /\ Snapshot(v).id # 0
        /\ loc[v].phase # doneMark /\ loc[v].phase # "FinalDeltaDone"
    BY RoundSnapshotFacts DEF RoundStart
  <1>2. /\ loc' = [loc EXCEPT ![v].pending = Snapshot(v), ![v].jobs = {}]
        /\ todo' = {d \in Disk : ChangedRegions(Snapshot(v), loc[v].last, d) # {}}
        /\ pc' = "spawn"
        /\ UNCHANGED <<phase, st, i, allDone, created, power, src, target, dv, cm, job, dropped>>
    BY DEF RoundStart, migVars, dataVars
  <1>3. /\ \A w \in VM : w # v => loc'[w] = loc[w]
        /\ loc'[v].last = loc[v].last /\ loc'[v].pending = Snapshot(v)
        /\ loc'[v].phase = loc[v].phase /\ loc'[v].rounds = loc[v].rounds
    BY <1>1, <1>2 DEF VMStatus
  <1>4. PassInv'
    <2>1. \A w \in VM : w < i => w # v
      BY DEF VM
    <2>2. doneMark' = doneMark
      BY <1>2 DEF doneMark, final
    <2>3. allDone => \A w \in VM : w < i => loc'[w].phase = doneMark
      BY <1>1, <1>3, <2>1 DEF Parts, PassInv
    <2> QED
      BY <1>1, <1>2, <1>3, <2>2, <2>3 DEF PassInv
  <1>5. MarkInv(loc[v])'
    BY <1>1, <1>2, <1>3 DEF MarkInv, doneMark, final
  <1>6. CutoverInv' /\ ImportInv' /\ TargetInv'
    BY <1>1, <1>2, <1>3, <1>5, RoundFrame
  <1>7. ASSUME NEW p, p = <<loc'[v], Spawning(v)'>> PROVE VMInv(p[1], v, p[2])'
    <2>1. p[1] = loc'[v] /\ p[2] = {d \in Disk : ChangedRegions(Snapshot(v), loc[v].last, d) # {}}
      BY <1>2, <1>7 DEF Spawning
    <2> QED
      BY <1>1, <1>2, <1>3, <2>1, PendingPair
  <1>8. StatusAt(v)'
    BY <1>2, <1>7, OwnStatus DEF Parts
  <1>9. StatusInv'
    BY <1>2, <1>3, <1>8, OthersKept DEF Parts
  <1> QED
    BY <1>4, <1>6, <1>9 DEF Parts

\* The ConfigMap of disk d is created before its Job.
LEMMA CreateConfigMapSafe ==
  ASSUME TypeOK, InLoop, Parts, NEW d \in Disk, CreateConfigMap(d)
  PROVE  Parts'
  <1> PICK v \in VM : v = i
    BY ConstantsAssumption DEF CreateConfigMap, InLoop, TypeOK, VM
  <1> DEFINE C == ChangedRegions(loc[v].pending, loc[v].last, d)
  <1>1. /\ pc = "spawn" /\ d \in todo /\ created' = TRUE
        /\ UNCHANGED <<phase, st, pc, i, loc, allDone, todo, power, src, target, dv, job, dropped>>
    BY DEF CreateConfigMap, migVars, prismVars
  <1>2. phase \in {"WarmDeltaSync", "WarmFinalDelta"}
    BY <1>1 DEF Parts, PassInv
  <1>20. PICK Z \in Zeroed(C), gap \in MergeGaps :
            cm' = [cm EXCEPT ![v][d] = buildDeltaSyncConfigMap(loc[v], d, Z, gap)]
    BY DEF CreateConfigMap
  <1>21. /\ cm'[v][d].round = loc[v].rounds + 1 /\ C \subseteq cm'[v][d].blocks
    <2>1. cm'[v][d] = buildDeltaSyncConfigMap(loc[v], d, Z, gap)
      BY <1>20 DEF TypeOK
    <2>2. Z \subseteq C /\ C \subseteq Block
      BY DEF Zeroed, ChangedRegions
    <2>3. C \subseteq mergeRegions(C, C \ Z, gap) \cup mergeRegions(C, Z, gap)
      <3> HIDE DEF C
      <3> QED
        BY <2>2, MergeType
    <2>4. /\ buildDeltaSyncConfigMap(loc[v], d, Z, gap).round = loc[v].rounds + 1
          /\ buildDeltaSyncConfigMap(loc[v], d, Z, gap).blocks
                = mergeRegions(C, C \ Z, gap) \cup mergeRegions(C, Z, gap)
      BY DEF buildDeltaSyncConfigMap
    <2> QED
      BY <2>1, <2>3, <2>4
  <1>3. /\ \A w \in VM : w # v => cm'[w] = cm[w]
        /\ \A e \in Disk : e # d => cm'[v][e] = cm[v][e]
    BY <1>20 DEF TypeOK
  <1>4. PassInv'
    BY <1>1, <1>2 DEF Parts, PassInv, doneMark, final
  <1>5. MarkInv(loc[v])'
    BY <1>1 DEF Parts, CutoverInv, MarkInv
  <1>6. CutoverInv' /\ ImportInv' /\ TargetInv'
    BY <1>1, <1>2, <1>5, RoundFrame
  <1>7. StatusAt(v)'
    <2> SUFFICES ASSUME NEW p \in Statuses(v)', NEW e \in Disk
                 PROVE  /\ DiskInv(p[1], v, e, p[2])'
                        /\ \A b \in Block : BlockInv(p[1], v, e, b, p[2])'
      BY DEF StatusAt, VMInv
    <2>1. p[1] = loc[v] /\ p[2] = todo /\ Spawning(v) = todo
      BY <1>1 DEF Statuses, Spawning
    <2>2. DiskInv(loc[v], v, e, todo)
      BY <2>1, LocInvAt DEF Parts
    <2>4. loc[v].pending.id # 0 /\ loc[v].phase # "FinalDeltaDone"
      BY <1>1, <1>2 DEF Parts, PassInv, CutoverInv, MarkInv, doneMark, final
    <2>5. DiskInv(p[1], v, e, p[2])'
      <3>1. /\ p[1].pending.id # 0 /\ p[1].phase # "FinalDeltaDone" /\ job' = job
            /\ p[1].rounds \in Nat
        BY <1>1, <2>1, <2>4 DEF TypeOK, VMStatus
      <3>2. DiskInv(p[1], v, e, p[2])
        BY <2>1, <2>2
      <3>3. CASE e = d
        BY <1>1, <1>21, <2>1, <3>1, <3>2, <3>3 DEF DiskInv, ChangedRegions, Finished
      <3>4. CASE e # d
        BY <1>3, <3>1, <3>2, <3>4 DEF DiskInv, ChangedRegions, Finished
      <3> QED
        BY <3>3, <3>4
    <2>6. ASSUME NEW b \in Block PROVE BlockInv(p[1], v, e, b, p[2])'
      <3>1. BlockInv(loc[v], v, e, b, todo)
        BY <2>1, LocInvAt DEF Parts
      <3> QED
        BY <1>1, <1>3, <2>1, <2>4, <3>1 DEF BlockInv, Finished
    <2> QED
      BY <2>5, <2>6
  <1>8. StatusInv'
    BY <1>1, <1>3, <1>7, OthersKept DEF Parts
  <1> QED
    BY <1>4, <1>6, <1>8 DEF Parts

\* The Job of disk d has every block of the disk that the target lacks.
LEMMA CreateJobSafe ==
  ASSUME TypeOK, InLoop, Quiet, Parts, ZeroInv, NEW d \in Disk, CreateJob(d)
  PROVE  Parts'
  <1> PICK v \in VM : v = i
    BY ConstantsAssumption DEF CreateJob, InLoop, TypeOK, VM
  <1>1. /\ pc = "spawn" /\ d \in todo /\ cm[v][d].round = loc[v].rounds + 1 /\ created' = TRUE
        /\ loc' = [loc EXCEPT ![v].jobs = @ \cup {d}] /\ todo' = todo \ {d}
        /\ UNCHANGED <<phase, st, pc, i, allDone, power, src, target, dv, cm, dropped>>
    BY DEF CreateJob, migVars, prismVars
  <1>2. phase \in {"WarmDeltaSync", "WarmFinalDelta"}
    BY <1>1 DEF Parts, PassInv
  <1>3. loc \in [VM -> VMStatus] /\ job \in [VM -> [Disk -> Job]]
    BY DEF TypeOK
  <1>4. /\ \A w \in VM : w # v => loc'[w] = loc[w]
        /\ loc'[v].last = loc[v].last /\ loc'[v].pending = loc[v].pending
        /\ loc'[v].phase = loc[v].phase /\ loc'[v].jobs = loc[v].jobs \cup {d}
        /\ loc'[v].rounds = loc[v].rounds /\ loc[v].rounds \in Nat
    BY <1>1, <1>3 DEF VMStatus
  <1>5. Spawning(v) = todo /\ Spawning(v)' = todo'
    BY <1>1 DEF Spawning
  <1>6. DiskInv(loc[v], v, d, todo)
    BY <1>5, LocInvAt DEF Parts
  <1>7. /\ job[v][d].round # loc[v].rounds + 1
        /\ ChangedRegions(loc[v].pending, loc[v].last, d) \subseteq cm[v][d].blocks
    BY <1>1, <1>6 DEF DiskInv
  <1>8. job' = [job EXCEPT ![v][d] = buildDeltaSyncJob(loc[v].pending, d, "present")]
    BY <1>7 DEF CreateJob, Quiet, PathsInOrder
  <1>80. /\ DiskAt[d] = d /\ cm[v][d].zeroed = {} /\ loc[v].pending.data[d] \in [Block -> Nat]
    BY <1>3 DEF Quiet, PathsInOrder, ZeroInv, VMStatus, Copy, Data
  <1>9. /\ \A w \in VM : w # v => job'[w] = job[w]
        /\ \A e \in Disk : e # d => job'[v][e] = job[v][e]
        /\ job'[v][d].st = "active" /\ job'[v][d].cache = "present"
        /\ job'[v][d].round = loc[v].rounds + 1
        /\ job'[v][d].left = cm[v][d].blocks
        /\ \A b \in Block : job'[v][d].out[b] = loc[v].pending.data[d][b]
    BY <1>3, <1>8, <1>80 DEF buildDeltaSyncJob
  <1>10. /\ loc[v].pending.id # 0 /\ loc[v].phase # "FinalDeltaDone"
         /\ \A e \in Disk : dv[v][e].st = "succeeded"
    BY <1>1, <1>2 DEF Parts, PassInv, CutoverInv, MarkInv, doneMark, final, ImportInv
  <1>11. PassInv'
    <2>1. \A w \in VM : loc'[w].phase = loc[w].phase
      BY <1>4
    <2> QED
      BY <1>1, <1>2, <1>4, <2>1 DEF Parts, PassInv, doneMark, final
  <1>12. MarkInv(loc[v])'
    BY <1>1, <1>4 DEF Parts, CutoverInv, MarkInv
  <1>13. CutoverInv' /\ ImportInv' /\ TargetInv'
    BY <1>1, <1>2, <1>4, <1>12, RoundFrame
  <1>14. StatusAt(v)'
    <2> SUFFICES ASSUME NEW p \in Statuses(v)', NEW e \in Disk
                 PROVE  /\ DiskInv(p[1], v, e, p[2])'
                        /\ \A b \in Block : BlockInv(p[1], v, e, b, p[2])'
      BY DEF StatusAt, VMInv
    <2>1. p[1] = loc'[v] /\ p[2] = todo \ {d}
      BY <1>1, <1>5 DEF Statuses
    <2>2. DiskInv(loc[v], v, e, todo)
      BY <1>5, LocInvAt DEF Parts
    <2>3. DiskInv(p[1], v, e, p[2])'
      <3>1. CASE e = d
        BY <1>1, <1>4, <1>9, <1>10, <2>1, <3>1 DEF DiskInv, Finished
      <3>2. CASE e # d
        BY <1>1, <1>4, <1>9, <1>10, <2>1, <2>2, <3>2 DEF DiskInv, ChangedRegions, Finished
      <3> QED
        BY <3>1, <3>2
    <2>4. ASSUME NEW b \in Block PROVE BlockInv(p[1], v, e, b, p[2])'
      <3>1. BlockInv(loc[v], v, e, b, todo)
        BY <1>5, LocInvAt DEF Parts
      <3>2. CASE e # d
        BY <1>1, <1>4, <1>9, <2>1, <3>1, <3>2 DEF BlockInv, Finished
      <3>3. CASE e = d
        <4>1. \/ <<e, b>> \in dropped[v]
              \/ b \in cm[v][e].blocks
              \/ target[v][e][b] = loc[v].pending.data[e][b]
          <5>1. ASSUME b \notin cm[v][e].blocks, <<e, b>> \notin dropped[v]
                PROVE  target[v][e][b] = loc[v].pending.data[e][b]
            <6>1. loc[v].last.data[e][b] = loc[v].pending.data[e][b]
              BY <1>7, <3>3, <5>1 DEF ChangedRegions, Quiet, PathsInOrder
            <6>2. loc[v].last.data[e][b] <= target[v][e][b]
              BY <1>10, <3>1, <5>1 DEF BlockInv
            <6>3. target[v][e][b] <= loc[v].pending.data[e][b]
              BY <1>10, <3>1 DEF BlockInv
            <6>4. loc[v].pending.data[e][b] \in Nat
              BY <1>3, StatusTypes
            <6> QED
              BY <6>1, <6>2, <6>3, <6>4, BlockTypes
          <5> QED
            BY <5>1
        <4> QED
          BY <1>1, <1>4, <1>9, <1>10, <2>1, <3>1, <3>3, <4>1 DEF BlockInv, Finished
      <3> QED
        BY <3>2, <3>3
    <2> QED
      BY <2>3, <2>4
  <1>15. StatusInv'
    BY <1>1, <1>4, <1>9, <1>14, OthersKept DEF Parts
  <1> QED
    BY <1>11, <1>13, <1>15 DEF Parts

LEMMA SpawnedSafe ==
  ASSUME TypeOK, InLoop, Parts, RoundSpawned
  PROVE  Parts'
  <1> PICK v \in VM : v = i
    BY ConstantsAssumption DEF RoundSpawned, InLoop, TypeOK, VM
  <1>1. /\ pc = "spawn" /\ todo = {} /\ pc' = "loop" /\ NextVM /\ allDone' = FALSE
        /\ loc' = [loc EXCEPT ![v].phase = "DeltaSyncing"]
        /\ UNCHANGED <<phase, st, created, power, src, target, dv, cm, job, dropped>>
    BY DEF RoundSpawned, NextVM, migVars, prismVars, dataVars
  <1>2. phase \in {"WarmDeltaSync", "WarmFinalDelta"} /\ loc \in [VM -> VMStatus]
    BY <1>1 DEF Parts, PassInv, TypeOK
  <1>3. /\ \A w \in VM : w # v => loc'[w] = loc[w]
        /\ loc'[v].last = loc[v].last /\ loc'[v].pending = loc[v].pending
        /\ loc'[v].phase = "DeltaSyncing" /\ loc'[v].jobs = loc[v].jobs
        /\ loc'[v].rounds = loc[v].rounds
    BY <1>1, <1>2 DEF VMStatus
  <1>4. PassInv'
    BY <1>1, <1>2, <1>3, NextVMPass
  <1>5. MarkInv(loc[v])'
    BY <1>1, <1>2, <1>3 DEF MarkInv
  <1>6. CutoverInv' /\ ImportInv' /\ TargetInv'
    BY <1>1, <1>2, <1>3, <1>5, RoundFrame
  <1>7. ASSUME NEW p, p = <<loc'[v], Spawning(v)'>> PROVE VMInv(p[1], v, p[2])'
    <2>1. PICK s \in Statuses(v) : s = <<loc[v], {}>>
      BY <1>1 DEF Spawning, Statuses
    <2>2. Repeats(p, s)
      BY <1>1, <1>3, <1>7, <2>1 DEF Repeats, Spawning
    <2> QED
      BY <1>1, <2>2, Repeated DEF Parts
  <1>8. StatusAt(v)'
    BY <1>1, <1>7, OwnStatus DEF Parts
  <1>9. StatusInv'
    BY <1>1, <1>3, <1>8, OthersKept DEF Parts
  <1> QED
    BY <1>4, <1>6, <1>9 DEF Parts

\* All Jobs of the round are finished: the snapshot they synced becomes the base.
LEMMA PromoteSafe ==
  ASSUME TypeOK, Parts, RoundPromote
  PROVE  Parts'
  <1> PICK v \in VM : v = i
    BY ConstantsAssumption DEF RoundPromote, RoundPending, AtVM, TypeOK, VM
  <1>1. /\ pc = "loop" /\ pc' = "loop" /\ NextVM
        /\ phase \in {"WarmDeltaSync", "WarmFinalDelta"}
        /\ loc[v].pending.id # 0 /\ allDone' = (allDone /\ final)
        /\ \A d \in loc[v].jobs : ~JobShows(d, "active") /\ ~JobShows(d, "failed")
        /\ UNCHANGED <<phase, st, created, power, src, target, dv, dropped>>
    BY DEF RoundPromote, RoundPending, AtVM, NextVM, migVars
  <1>2. /\ loc \in [VM -> VMStatus] /\ cm \in [VM -> [Disk -> ConfigMap]]
        /\ job \in [VM -> [Disk -> Job]] /\ NoCopy \in Copy
    BY NoCopyType DEF TypeOK
  <1>3. PICK x \in VMPhase : x = IF final THEN "FinalDeltaDone" ELSE "DeltaIdle"
    BY DEF VMPhase
  <1>4. loc' = [loc EXCEPT ![v].last = loc[v].pending, ![v].pending = NoCopy,
                           ![v].jobs = {}, ![v].rounds = @ + 1, ![v].phase = x]
    BY <1>3 DEF RoundPromote, doneMark
  <1>5. /\ \A w \in VM : w # v => loc'[w] = loc[w]
        /\ loc'[v].last = loc[v].pending /\ loc'[v].pending = NoCopy
        /\ loc'[v].jobs = {} /\ loc'[v].phase = x
        /\ loc'[v].rounds = loc[v].rounds + 1 /\ loc[v].rounds \in Nat
    BY <1>2, <1>4 DEF VMStatus
  <1>6. /\ \A w \in VM : w # v => job'[w] = job[w] /\ cm'[w] = cm[w]
        /\ \A d \in Disk : /\ job'[v][d] = NoJob \/ job'[v][d] = job[v][d]
                           /\ cm'[v][d] = NoCM \/ cm'[v][d] = cm[v][d]
    BY <1>2 DEF RoundPromote
  <1>7. Spawning(v) = {} /\ Spawning(v)' = {}
    BY <1>1 DEF Spawning
  <1>8. ASSUME NEW d \in Disk
        PROVE  Finished(v, d) /\ Over(loc[v], v, d)'
    <2>1. DiskInv(loc[v], v, d, {})
      BY <1>7, LocInvAt DEF Parts
    <2>2. /\ job[v][d].st \in {"none", "active", "complete", "failed"}
          /\ job[v][d].round \in Nat /\ cm[v][d].round \in Nat
      BY <1>2 DEF Job, ConfigMap
    <2>3. Finished(v, d)
      BY <1>1, <2>1, <2>2 DEF JobShows, DiskInv, Finished
    <2>4. /\ job'[v][d].round <= loc[v].rounds + 1 /\ cm'[v][d].round <= loc[v].rounds + 1
          /\ job'[v][d].round \in Nat /\ cm'[v][d].round \in Nat
      BY <1>5, <1>6, <2>1, <2>2 DEF DiskInv, NoJob, NoCM
    <2>5. /\ job'[v][d].round <= loc'[v].rounds + 1 /\ cm'[v][d].round <= loc'[v].rounds + 1
          /\ job'[v][d].round # loc'[v].rounds + 1 /\ cm'[v][d].round # loc'[v].rounds + 1
      BY <1>5, <2>4
    <2>6. Finished(v, d)' /\ (job'[v][d].st # "none" => job'[v][d].cache = "present")
      BY <1>6, <2>1, <2>3 DEF DiskInv, Finished, NoJob
    <2> QED
      BY <2>3, <2>5, <2>6 DEF Over
  <1>9. PassInv'
    BY <1>1, <1>3, <1>5, NextVMPass DEF doneMark
  <1>10. NoCopy.id = 0
    BY DEF NoCopy
  <1>11. MarkInv(loc[v])'
    BY <1>1, <1>3, <1>5, <1>10 DEF MarkInv, final
  <1>12. CutoverInv' /\ ImportInv' /\ TargetInv'
    BY <1>1, <1>5, <1>11, RoundFrame
  <1>13. \A d \in Disk : dv[v][d].st = "succeeded"
    BY <1>1 DEF Parts, ImportInv
  <1>14. ASSUME NEW p, p = <<loc'[v], {}>> PROVE VMInv(p[1], v, p[2])'
    <2> SUFFICES ASSUME NEW d \in Disk
                 PROVE  /\ DiskInv(p[1], v, d, p[2])'
                        /\ \A b \in Block : BlockInv(p[1], v, d, b, p[2])'
      BY DEF VMInv
    <2>1. p[1] = loc'[v] /\ p[2] = {}
      BY <1>14
    <2>2. DiskInv(p[1], v, d, p[2])'
      BY <1>8, <2>1 DEF DiskInv, Over
    <2>3. ASSUME NEW b \in Block PROVE BlockInv(p[1], v, d, b, p[2])'
      <3>1. BlockInv(loc[v], v, d, b, {})
        BY <1>7, LocInvAt DEF Parts
      <3>2. /\ loc[v].pending.data[d][b] <= src[v][d][b]
            /\ <<d, b>> \in dropped[v] \/ target[v][d][b] = loc[v].pending.data[d][b]
            /\ phase = "WarmFinalDelta" => loc[v].pending.data[d][b] = src[v][d][b]
        BY <1>1, <1>8, <3>1 DEF BlockInv
      <3>3. target[v][d][b] <= target[v][d][b]
        BY BlockTypes
      <3>4. p[1].phase = "FinalDeltaDone" => phase = "WarmFinalDelta"
        BY <1>3, <1>5, <2>1 DEF final
      <3>5. p[1].last = loc[v].pending /\ p[1].pending.id = 0 /\ dv'[v][d].st = "succeeded"
        BY <1>1, <1>5, <1>10, <1>13, <2>1
      <3> QED
        BY <1>1, <3>2, <3>3, <3>4, <3>5 DEF BlockInv
    <2> QED
      BY <2>2, <2>3
  <1>15. ASSUME NEW p \in Statuses(v), p = <<st[v], {}>> PROVE VMInv(p[1], v, p[2])'
    <2> SUFFICES ASSUME NEW d \in Disk
                 PROVE  /\ DiskInv(p[1], v, d, p[2])'
                        /\ \A b \in Block : BlockInv(p[1], v, d, b, p[2])'
      BY DEF VMInv
    <2>0. DiskInv(p[1], v, d, p[2]) /\ p[1].rounds \in Nat /\ p[2] = {}
      BY <1>15, StatusInvAt, StatusesType DEF Parts, VMStatus
    <2>1. DiskInv(p[1], v, d, p[2])'
      BY <1>6, <1>8, <2>0 DEF DiskInv, Finished, Over, NoJob, NoCM
    <2>2. ASSUME NEW b \in Block PROVE BlockInv(p[1], v, d, b, p[2])'
      <3>1. BlockInv(p[1], v, d, b, p[2])
        BY StatusInvAt DEF Parts
      <3>2. /\ job'[v][d].round = p[1].rounds + 1 => job'[v][d] = job[v][d]
            /\ Finished(v, d)
        BY <1>6, <1>8, <2>0 DEF NoJob
      <3> QED
        BY <1>1, <2>0, <3>1, <3>2 DEF BlockInv
    <2> QED
      BY <2>1, <2>2
  <1>16. StatusAt(v)'
    <2> SUFFICES ASSUME NEW p \in Statuses(v)' PROVE VMInv(p[1], v, p[2])'
      BY DEF StatusAt
    <2>1. CASE p = <<loc'[v], {}>>
      BY <1>14, <2>1
    <2>2. CASE p # <<loc'[v], {}>>
      <3>1. pc' = "loop" /\ created' = created /\ st' = st
        BY <1>1
      <3>2. p = <<st[v], {}>> /\ p \in Statuses(v)
        BY <2>2, <3>1 DEF Statuses, Spawning
      <3> QED
        BY <1>15, <3>2
    <2> QED
      BY <2>1, <2>2
  <1>17. StatusInv'
    BY <1>1, <1>5, <1>6, <1>16, OthersKept DEF Parts
  <1> QED
    BY <1>9, <1>12, <1>17 DEF Parts

-----------------------------------------------------------------------------
LEMMA ReconcileSafe ==
  ASSUME TypeOK, InLoop, Quiet, Parts, ZeroInv, Reconcile, phase' # "Failed"
  PROVE  Parts'
  <1>1. CASE PreSync
    BY <1>1, PreSyncSnapshotSafe, PreSyncImageSafe, PreSyncImagedSafe, CreateDataVolumesSafe,
       PreSyncPatchSafe, WarmSyncingSafe DEF PreSync
  <1>2. CASE runDeltaRound
    <2>1. ~RoundDeltaError /\ ~RoundJobFailed
      BY DEF RoundDeltaError, RoundJobFailed, failMigration, EndPass
    <2> QED
      BY <1>2, <2>1, SkipSafe, ConvergeSafe, ZeroSafe, StartSafe, CreateConfigMapSafe,
         CreateJobSafe, SpawnedSafe, PromoteSafe, RoundPatchSafe, ConvergedPatchSafe,
         FinalCleanupSafe, FinalPatchSafe DEF runDeltaRound
  <1> QED
    BY <1>1, <1>2, CutoverSafe DEF Reconcile

\* A pod without a Job changes nothing but the target and what it has left.
LEMMA StrayFrame ==
  ASSUME NEW v \in VM, NEW p \in strays[v], RunStray(v, p)
  PROVE  /\ strays[v] # {} /\ UNCHANGED <<migVars, passVars, prismVars, dv, cm, job, dropped>>
         /\ UNCHANGED <<phase, st, approved, pc, i, loc, created, aborts, src, power, live, images, uuids>>
  BY DEF RunStray, StrayWrite, StrayEnds, migVars, passVars, prismVars

LEMMA ConfigMapsKept ==
  ASSUME Environment \/ UNCHANGED vars
  PROVE  UNCHANGED cm
  BY StrayFrame DEF Environment, Approve, PowerOff, GuestWrite, CDIImport, RunJob, JobWrite,
     JobComplete, JobFail, JobExpire, CacheSync, vars, dataVars

\* ConfigMaps change only when a round starts or ends, and so do the pods
\* without a Job but for what they do themselves.
LEMMA ClusterEffect ==
  ASSUME [Next]_vars
  PROVE  /\ UNCHANGED cm \/ RoundPromote \/ \E d \in Disk : CreateConfigMap(d)
         /\ \/ UNCHANGED strays \/ RoundPromote \/ \E d \in Disk : CreateJob(d)
            \/ \E v \in VM : strays[v] # {} /\ Environment
  <1>1. CASE PreSync \/ Cutover
    BY <1>1 DEF PreSync, PreSyncSnapshot, PreSyncImage, PreSyncImaged,
       createDataVolumesFromTempImages, PreSyncPatch, handleWarmSyncing, Cutover,
       handleReadyForCutover, WarmCutoverShutdown, WarmCutoverOff, dataVars
  <1>2. CASE runDeltaRound
    <2>1. ASSUME NEW d \in Disk, CreateConfigMap(d) PROVE UNCHANGED strays
      BY <2>1 DEF CreateConfigMap
    <2>2. ASSUME NEW d \in Disk, CreateJob(d) PROVE UNCHANGED cm
      BY <2>2 DEF CreateJob
    <2>3. CASE \/ RoundSkip \/ RoundConverge \/ RoundZero \/ RoundStart \/ RoundDeltaError
               \/ RoundSpawned \/ RoundWait \/ RoundJobFailed \/ RoundPatch \/ ConvergedPatch
               \/ FinalCleanup \/ FinalPatch
      BY <2>3 DEF RoundSkip, RoundConverge, RoundZero, RoundStart, RoundDeltaError, RoundSpawned,
         RoundWait, RoundJobFailed, RoundPatch, ConvergedPatch, FinalCleanup, FinalPatch, dataVars
    <2> QED
      BY <1>2, <2>1, <2>2, <2>3 DEF runDeltaRound
  <1>3. CASE PrismError \/ AbortPass \/ UNCHANGED vars
    BY <1>3 DEF PrismError, AbortPass, vars, dataVars
  <1>4. CASE Environment
    <2>1. UNCHANGED cm
      BY <1>4, ConfigMapsKept
    <2>2. UNCHANGED strays \/ \E v \in VM : strays[v] # {}
      BY <1>4, StrayFrame DEF Environment, Approve, PowerOff, GuestWrite, CDIImport, RunJob, JobWrite,
         JobComplete, JobFail, JobExpire, CacheSync, dataVars
    <2> QED
      BY <1>4, <2>1, <2>2
  <1> QED
    BY <1>1, <1>2, <1>3, <1>4 DEF Next, Reconcile

\* Without ZEROED regions no ConfigMap holds one.
LEMMA ZeroInvStep ==
  ASSUME TypeOK, InLoop, "zeroed" \notin Faults, ZeroInv, [Next]_vars
  PROVE  ZeroInv'
  <1>1. CASE UNCHANGED cm
    BY <1>1 DEF ZeroInv
  <1>2. CASE RoundPromote
    <2>1. i \in VM
      BY <1>2, ConstantsAssumption DEF RoundPromote, RoundPending, AtVM, TypeOK, VM
    <2> QED
      BY <1>2, <2>1 DEF RoundPromote, ZeroInv, TypeOK, NoCM
  <1>3. ASSUME NEW d \in Disk, CreateConfigMap(d) PROVE ZeroInv'
    <2>1. i \in VM
      BY <1>3, ConstantsAssumption DEF CreateConfigMap, InLoop, TypeOK, VM
    <2>2. PICK gap \in MergeGaps :
            cm' = [cm EXCEPT ![i][d] = buildDeltaSyncConfigMap(loc[i], d, {}, gap)]
      BY <1>3 DEF CreateConfigMap, Zeroed
    <2>3. buildDeltaSyncConfigMap(loc[i], d, {}, gap).zeroed = {}
      BY DEF buildDeltaSyncConfigMap, mergeRegions
    <2> QED
      BY <2>1, <2>2, <2>3 DEF ZeroInv, TypeOK
  <1> QED
    BY <1>1, <1>2, <1>3, ClusterEffect

\* No Job is active when it is deleted or when its disk gets the next one.
LEMMA StrayInvStep ==
  ASSUME TypeOK, InLoop, Parts, StrayInv, [Next]_vars
  PROVE  StrayInv'
  <1>1. CASE UNCHANGED strays
    BY <1>1 DEF StrayInv
  <1>2. CASE RoundPromote
    <2> PICK v \in VM : v = i
      BY <1>2, ConstantsAssumption DEF RoundPromote, RoundPending, AtVM, TypeOK, VM
    <2>1. PICK gone \in Deleted(loc[v].jobs) :
            strays' = [strays EXCEPT ![v] = @ \cup ActivePods(v, gone)]
      BY <1>2 DEF RoundPromote
    <2>2. gone \subseteq loc[v].jobs /\ loc[v].jobs \subseteq Disk
      BY DEF Deleted, TypeOK, VMStatus
    <2>3. ASSUME NEW d \in gone PROVE job[v][d].st # "active"
      <3>1. DiskInv(loc[v], v, d, Spawning(v))
        BY <2>2, LocInvAt DEF Parts
      <3> QED
        BY <1>2, <2>2, <3>1 DEF DiskInv, RoundPromote, JobShows
    <2>4. ActivePods(v, gone) = {}
      BY <2>3 DEF ActivePods
    <2> QED
      BY <2>1, <2>4 DEF StrayInv, TypeOK
  <1>3. ASSUME NEW d \in Disk, CreateJob(d) PROVE StrayInv'
    <2> PICK v \in VM : v = i
      BY <1>3, ConstantsAssumption DEF CreateJob, InLoop, TypeOK, VM
    <2>1. DiskInv(loc[v], v, d, Spawning(v))
      BY LocInvAt DEF Parts
    <2>2. CASE job[v][d].round = loc[v].rounds + 1
      BY <1>3, <2>2 DEF CreateJob, StrayInv
    <2>3. CASE job[v][d].round # loc[v].rounds + 1
      <3>1. ActivePods(v, {d}) = {}
        BY <2>1, <2>3 DEF ActivePods, DiskInv, Finished
      <3> QED
        <4>1. strays' = [strays EXCEPT ![v] = @ \cup ActivePods(v, {d})]
          BY <1>3, <2>3 DEF CreateJob
        <4> QED
          BY <3>1, <4>1 DEF StrayInv, TypeOK
    <2> QED
      BY <2>2, <2>3
  <1> QED
    BY <1>1, <1>2, <1>3, ClusterEffect DEF StrayInv

LEMMA SandwichInit ==
  ASSUME Init
  PROVE  Sandwich
  <1> USE ConstantsAssumption
  <1>1. \A v \in VM : ~(v < i)
    BY DEF Init, VM
  <1>2. \A v \in VM : /\ st[v].pending.id = 0 /\ st[v].phase = "Pending"
                      /\ \A d \in Disk, b \in Block : st[v].last.data[d][b] = 0
    BY DEF Init, NoCopy
  <1>3. \A v \in VM, d \in Disk : dv[v][d].st = "none" /\ job[v][d] = NoJob /\ cm[v][d] = NoCM
    BY DEF Init, NoDV
  <1>30. \A v \in VM : st[v].rounds = 0
    BY DEF Init
  <1>4. \A v \in VM, d \in Disk, b \in Block : src[v][d][b] = 1 /\ target[v][d][b] = 0
    BY DEF Init, NoCopy
  <1>5. PassInv /\ CutoverInv
    BY <1>1, <1>2 DEF Init, PassInv, CutoverInv, MarkInv
  <1>6. ImportInv
    BY <1>1, <1>3 DEF Init, ImportInv
  <1>7. TargetInv
    <2> SUFFICES ASSUME NEW v \in VM, NEW d \in Disk, NEW b \in Block
                 PROVE  target[v][d][b] <= src[v][d][b]
      BY DEF TargetInv
    <2> QED
      BY <1>4
  <1>8. StatusInv
    <2> SUFFICES ASSUME NEW v \in VM, NEW p \in Statuses(v), NEW d \in Disk
                 PROVE  /\ DiskInv(p[1], v, d, p[2])
                        /\ \A b \in Block : BlockInv(p[1], v, d, b, p[2])
      BY DEF StatusInv, VMInv
    <2>1. p[1] = st[v] /\ p[2] = {}
      <3>1. loc = st /\ pc = "loop"
        BY DEF Init
      <3> QED
        BY <3>1 DEF Statuses, Spawning
    <2>2. DiskInv(p[1], v, d, p[2])
      BY <1>2, <1>3, <1>30, <2>1 DEF DiskInv, Finished, NoJob, NoCM
    <2>3. ASSUME NEW b \in Block PROVE BlockInv(p[1], v, d, b, p[2])
      BY <1>2, <1>3, <1>4, <2>1 DEF BlockInv
    <2> QED
      BY <2>2, <2>3
  <1>9. ZeroInv /\ StrayInv
    BY <1>3 DEF Init, ZeroInv, StrayInv, NoCM
  <1> QED
    BY <1>5, <1>6, <1>7, <1>8, <1>9 DEF Sandwich, Init

\* A migration that has failed stays failed.
LEMMA FailedStays ==
  ASSUME pc = "loop", [Next]_vars, phase = "Failed"
  PROVE  phase' = "Failed" /\ pc' = "loop"
  <1>1. pc = "loop"
    OBVIOUS
  <1>2. ~PreSync /\ ~Cutover /\ ~PrismError
    BY <1>1 DEF PreSync, PreSyncSnapshot, PreSyncImage, PreSyncImaged,
       createDataVolumesFromTempImages, PreSyncPatch, handleWarmSyncing, Cutover,
       handleReadyForCutover, WarmCutoverShutdown, WarmCutoverOff, PrismError, AtVM
  <1>3. ~runDeltaRound
    BY <1>1 DEF runDeltaRound, RoundSkip, RoundConverge, RoundZero, RoundStart,
       RoundDeltaError, CreateConfigMap, CreateJob, RoundSpawned, RoundWait, RoundJobFailed,
       RoundPromote, RoundPatch, ConvergedPatch, FinalCleanup, FinalPatch, RoundSnapshot,
       RoundPending, AtVM, AtEnd
  <1>4. Environment => UNCHANGED <<phase, pc>>
    BY StrayFrame DEF Environment, Approve, PowerOff, GuestWrite, CDIImport, RunJob, JobWrite,
       JobComplete, JobFail, JobExpire, CacheSync, migVars, passVars
  <1>5. AbortPass => phase' = phase /\ pc' = "loop"
    BY DEF AbortPass, EndPass
  <1>6. UNCHANGED vars => UNCHANGED <<phase, pc>>
    BY DEF vars, migVars, passVars
  <1> QED
    BY <1>1, <1>2, <1>3, <1>4, <1>5, <1>6 DEF Next, Reconcile

\* A step to Failed is failMigration.
LEMMA FailedPass ==
  ASSUME Sandwich, [Next]_vars, phase # "Failed", phase' = "Failed"
  PROVE  pc' = "loop"
  <1>1. CASE Environment \/ UNCHANGED vars
    BY <1>1, StrayFrame DEF Environment, Approve, PowerOff, GuestWrite, CDIImport, RunJob, JobWrite,
       JobComplete, JobFail, JobExpire, CacheSync, vars, migVars
  <1>2. CASE PrismError \/ AbortPass
    BY <1>2 DEF PrismError, AbortPass, failMigration, EndPass
  <1>3. CASE PreSync \/ Cutover
    BY <1>3 DEF PreSync, PreSyncSnapshot, PreSyncImage, PreSyncImaged,
       createDataVolumesFromTempImages, PreSyncPatch, handleWarmSyncing, Cutover,
       handleReadyForCutover, WarmCutoverShutdown, WarmCutoverOff, EndPass, migVars
  <1>4. CASE runDeltaRound
    BY <1>4 DEF runDeltaRound, RoundSkip, RoundConverge, RoundZero, RoundStart,
       RoundDeltaError, CreateConfigMap, CreateJob, RoundSpawned, RoundWait, RoundJobFailed,
       RoundPromote, RoundPatch, ConvergedPatch, FinalCleanup, FinalPatch, EndPass,
       failMigration, migVars
  <1> QED
    BY <1>1, <1>2, <1>3, <1>4 DEF Next, Reconcile

LEMMA SandwichStep ==
  ASSUME Quiet
  PROVE  TypeOK /\ InLoop /\ Sandwich /\ [Next]_vars => Sandwich'
  <1> SUFFICES ASSUME TypeOK, InLoop, Sandwich, [Next]_vars PROVE Sandwich'
    OBVIOUS
  <1>1. CASE phase = "Failed"
    BY <1>1, FailedStays DEF Sandwich
  <1>2. CASE phase # "Failed" /\ phase' = "Failed"
    BY <1>2, FailedPass DEF Sandwich
  <1>3. CASE phase # "Failed" /\ phase' # "Failed"
    <2>1. Parts /\ ZeroInv /\ StrayInv
      BY <1>3 DEF Sandwich, Parts
    <2>2. Parts'
      <3>1. CASE Reconcile
        BY <1>3, <2>1, <3>1, ReconcileSafe
      <3>2. CASE PrismError
        BY <1>3, <3>2 DEF PrismError, failMigration, EndPass
      <3>3. CASE AbortPass
        BY <1>3, <2>1, <3>3, AbortSafe
      <3>4. CASE Environment
        BY <1>3, <2>1, <3>4, EnvironmentSafe
      <3>5. CASE UNCHANGED vars
        <4>1. UNCHANGED <<phase, st, passVars, src, dv, cm, job, target, dropped, power>>
          BY <3>5 DEF vars, migVars, prismVars, dataVars
        <4> QED
          BY <2>1, <4>1, IdleSafe
      <3> QED
        BY <3>1, <3>2, <3>3, <3>4, <3>5 DEF Next
    <2>3. ZeroInv' /\ StrayInv'
      BY <2>1, ZeroInvStep, StrayInvStep DEF Quiet
    <2> QED
      BY <1>3, <2>2, <2>3 DEF Sandwich, Parts
  <1> QED
    BY <1>1, <1>2, <1>3

LEMMA SandwichConsistent == Sandwich => FinalConsistent
  <1> SUFFICES ASSUME Sandwich, phase = "CreatingVMs",
                      NEW v \in VM, NEW d \in Disk, NEW b \in Block, <<d, b>> \notin dropped[v]
               PROVE  target[v][d][b] = src[v][d][b]
    BY DEF FinalConsistent
  <1>1. CutoverInv /\ StatusInv
    BY DEF Sandwich
  <1>2. loc[v].phase = "FinalDeltaDone"
    BY <1>1 DEF CutoverInv, MarkInv
  <1>3. BlockInv(loc[v], v, d, b, Spawning(v))
    BY <1>1, LocInvAt
  <1> QED
    BY <1>2, <1>3 DEF BlockInv

\* The invariant of the delta sync: base <= target <= pending snapshot <= source
\* holds along every migration, for any number of VMs, disks, blocks and rounds.
THEOREM SandwichHolds == Quiet => (Spec => []Sandwich)
  <1> SUFFICES ASSUME Quiet PROVE Spec => []Sandwich
    OBVIOUS
  <1>1. Init => TypeOK /\ InLoop /\ Sandwich
    BY TypeInit, SandwichInit
  <1>2. TypeOK /\ InLoop /\ Sandwich /\ [Next]_vars => (TypeOK /\ InLoop /\ Sandwich)'
    BY TypeStep, SandwichStep
  <1> QED
    BY <1>1, <1>2, PTL DEF Spec

\* Without the faults the operator does not handle, the disks handed to
\* CreatingVMs hold what the powered-off source holds, up to skipped deltas.
THEOREM FinalConsistency == Quiet => (Spec => []FinalConsistent)
  <1> SUFFICES ASSUME Quiet PROVE Spec => []FinalConsistent
    OBVIOUS
  <1>1. Spec => []Sandwich
    BY SandwichHolds
  <1> QED
    BY <1>1, SandwichConsistent, PTL

-----------------------------------------------------------------------------
(***************************************************************************)
(* What each step of a pass does to the VM it is at, field by field.       *)
(***************************************************************************)

\* Nothing but VM v is touched.
OnlyAt(v) ==
    /\ \A w \in VM : w # v => /\ loc'[w] = loc[w] /\ live'[w] = live[w]
                              /\ uuids'[w] = uuids[w] /\ images'[w] = images[w]
                              /\ job'[w] = job[w]
    /\ UNCHANGED <<phase, st, aborts>>

LEMMA PreSyncSnapshotEffect ==
  ASSUME TypeOK, PreSyncSnapshot
  PROVE  \E v \in VM :
           /\ v = i /\ OnlyAt(v)
           /\ phase = "WarmPreSync" /\ pc = "loop" /\ pc' = "image" /\ i' = i
           /\ loc[v].temp.id = 0 /\ loc[v].last.id = 0
           /\ loc'[v].last.id = uuids[v] + 1 /\ loc'[v].last.data = src[v]
           /\ loc'[v].temp = loc[v].temp
           /\ loc'[v].pending = loc[v].pending /\ loc'[v].jobs = loc[v].jobs
           /\ loc'[v].rounds = loc[v].rounds /\ loc'[v].phase = loc[v].phase
           /\ live'[v] = live[v] \cup {uuids[v] + 1} /\ uuids'[v] = uuids[v] + 1
           /\ images'[v] = images[v] /\ job'[v] = job[v]
  <1>1. PICK v \in VM : v = i
    BY ConstantsAssumption DEF PreSyncSnapshot, TypeOK, VM
  <1>2. /\ loc' = [loc EXCEPT ![v].last = Snapshot(v)]
        /\ live' = [live EXCEPT ![v] = @ \cup {uuids[v] + 1}]
        /\ uuids' = [uuids EXCEPT ![v] = @ + 1]
        /\ UNCHANGED <<phase, st, aborts, images, job>>
    BY <1>1 DEF PreSyncSnapshot, Snapshot, migVars, dataVars
  <1>3. Snapshot(v).id = uuids[v] + 1 /\ Snapshot(v).data = src[v]
    BY DEF Snapshot
  <1>4. loc \in [VM -> VMStatus] /\ live \in [VM -> SUBSET Nat] /\ uuids \in [VM -> Nat]
    BY DEF TypeOK
  <1>5. OnlyAt(v)
    BY <1>2, <1>4 DEF OnlyAt
  <1> QED
    BY <1>1, <1>2, <1>3, <1>4, <1>5 DEF PreSyncSnapshot, VMStatus

LEMMA PreSyncImageEffect ==
  ASSUME TypeOK, InLoop, PreSyncImage
  PROVE  \E v \in VM :
           /\ v = i /\ OnlyAt(v)
           /\ phase = "WarmPreSync" /\ pc = "image" /\ pc' = "loop" /\ i' = i + 1
           /\ loc'[v].temp.id = uuids[v] + 1 /\ loc'[v].temp.data = src[v]
           /\ loc'[v].last = loc[v].last
           /\ loc'[v].pending = loc[v].pending /\ loc'[v].jobs = loc[v].jobs
           /\ loc'[v].rounds = loc[v].rounds /\ loc'[v].phase = "WarmPreSync"
           /\ images'[v] = images[v] \cup {uuids[v] + 1} /\ uuids'[v] = uuids[v] + 1
           /\ live'[v] = live[v] /\ job'[v] = job[v]
  <1>1. PICK v \in VM : v = i
    BY ConstantsAssumption DEF PreSyncImage, TypeOK, InLoop, VM
  <1>2. /\ loc' = [loc EXCEPT ![v].temp = Snapshot(v), ![v].phase = "WarmPreSync"]
        /\ images' = [images EXCEPT ![v] = @ \cup {uuids[v] + 1}]
        /\ uuids' = [uuids EXCEPT ![v] = @ + 1]
        /\ UNCHANGED <<phase, st, aborts, live, job>>
    BY <1>1 DEF PreSyncImage, Snapshot, migVars, dataVars
  <1>3. Snapshot(v).id = uuids[v] + 1 /\ Snapshot(v).data = src[v]
    BY DEF Snapshot
  <1>4. loc \in [VM -> VMStatus] /\ images \in [VM -> SUBSET Nat] /\ uuids \in [VM -> Nat]
    BY DEF TypeOK
  <1>5. OnlyAt(v)
    BY <1>2, <1>4 DEF OnlyAt
  <1> QED
    BY <1>1, <1>2, <1>3, <1>4, <1>5 DEF PreSyncImage, NextVM, VMStatus

\* A step that changes nothing but where the pass is, and, when it creates
\* DataVolumes or has created the Jobs of a VM, the phase of that VM.
LEMMA MoveEffect ==
  ASSUME TypeOK, InLoop,
         \/ PreSyncImaged \/ createDataVolumesFromTempImages \/ RoundSkip \/ RoundWait
         \/ RoundSpawned \/ \E d \in Disk : CreateConfigMap(d)
  PROVE  /\ UNCHANGED <<phase, st, aborts, live, images, uuids, job>>
         /\ \A v \in VM : /\ loc'[v].last = loc[v].last /\ loc'[v].temp = loc[v].temp
                          /\ loc'[v].pending = loc[v].pending /\ loc'[v].jobs = loc[v].jobs
                          /\ loc'[v].rounds = loc[v].rounds
                          /\ \/ loc'[v] = loc[v]
                             \/ /\ v = i /\ pc \in {"dvs", "spawn"}
                                /\ loc'[v].phase \in {"ImportingDisks", "DeltaSyncing"}
         /\ \/ phase = "WarmPreSync" /\ pc' = "dvs"
            \/ pc \in {"loop", "spawn"} /\ pc' = "loop" /\ i' = i + 1
            \/ pc = "spawn" /\ pc' = "spawn" /\ i' = i /\ loc' = loc
  <1>0. loc \in [VM -> VMStatus]
    BY DEF TypeOK
  <1>1. CASE PreSyncImaged \/ RoundSkip \/ RoundWait \/ \E d \in Disk : CreateConfigMap(d)
    BY <1>1 DEF PreSyncImaged, RoundSkip, RoundWait, RoundPending, AtVM, CreateConfigMap, NextVM,
                migVars, prismVars, dataVars
  <1>2. CASE createDataVolumesFromTempImages
    <2>1. PICK v \in VM : v = i
      BY <1>2, ConstantsAssumption DEF createDataVolumesFromTempImages, TypeOK, VM
    <2>2. loc' = [loc EXCEPT ![v].phase = "ImportingDisks"]
      BY <1>2, <2>1 DEF createDataVolumesFromTempImages
    <2> QED
      BY <1>0, <1>2, <2>1, <2>2
      DEF createDataVolumesFromTempImages, VMStatus, migVars, prismVars
  <1>3. CASE RoundSpawned
    <2>1. PICK v \in VM : v = i
      BY <1>3, ConstantsAssumption DEF RoundSpawned, TypeOK, InLoop, VM
    <2>2. loc' = [loc EXCEPT ![v].phase = "DeltaSyncing"]
      BY <1>3, <2>1 DEF RoundSpawned
    <2> QED
      BY <1>0, <1>3, <2>1, <2>2
      DEF RoundSpawned, NextVM, VMStatus, migVars, prismVars, dataVars
  <1> QED
    BY <1>1, <1>2, <1>3

\* What every step that takes a snapshot of VM v has in common.
LEMMA RoundSnapshotEffect ==
  ASSUME TypeOK, RoundSnapshot
  PROVE  \E v \in VM : /\ v = i /\ phase \in {"WarmDeltaSync", "WarmFinalDelta"} /\ pc = "loop"
                       /\ loc[v].phase # doneMark /\ loc[v].pending.id = 0
                       /\ uuids' = [uuids EXCEPT ![v] = @ + 1]
                       /\ Snapshot(v).id = uuids[v] + 1
  <1>1. PICK v \in VM : v = i
    BY ConstantsAssumption DEF RoundSnapshot, AtVM, TypeOK, VM
  <1> QED
    BY <1>1 DEF RoundSnapshot, AtVM, Snapshot

LEMMA ConvergeEffect ==
  ASSUME TypeOK, RoundConverge
  PROVE  \E v \in VM :
           /\ v = i /\ OnlyAt(v)
           /\ phase = "WarmDeltaSync" /\ pc = "loop" /\ pc' = "loop" /\ i' = i + 1
           /\ loc[v].pending.id = 0
           /\ loc'[v].last.id = uuids[v] + 1 /\ loc'[v].last.data = src[v]
           /\ loc'[v].temp = loc[v].temp
           /\ loc'[v].pending = loc[v].pending /\ loc'[v].jobs = loc[v].jobs
           /\ loc'[v].rounds = loc[v].rounds /\ loc'[v].phase = "DeltaConverged"
           /\ \E bad \in SUBSET {loc[v].last.id} :
                 /\ live'[v] = (live[v] \ ({loc[v].last.id} \ bad)) \cup {uuids[v] + 1}
                 /\ "delete" \notin Faults => bad = {}
           /\ uuids'[v] = uuids[v] + 1 /\ images'[v] = images[v] /\ job'[v] = job[v]
  <1>1. PICK v \in VM :
          /\ v = i /\ phase \in {"WarmDeltaSync", "WarmFinalDelta"} /\ pc = "loop"
          /\ loc[v].phase # doneMark /\ loc[v].pending.id = 0
          /\ uuids' = [uuids EXCEPT ![v] = @ + 1] /\ Snapshot(v).id = uuids[v] + 1
    BY RoundSnapshotEffect DEF RoundConverge
  <1>2. /\ loc' = [loc EXCEPT ![v].last = Snapshot(v), ![v].phase = "DeltaConverged"]
        /\ phase = "WarmDeltaSync"
        /\ UNCHANGED <<phase, st, aborts, images, job>>
    BY <1>1 DEF RoundConverge, doneMark, final, migVars
  <1>3. PICK bad \in SUBSET {loc[v].last.id} :
          /\ live' = [live EXCEPT ![v] = (@ \ ({loc[v].last.id} \ bad)) \cup {uuids[v] + 1}]
          /\ "delete" \notin Faults => bad = {}
    BY <1>1 DEF RoundConverge, Undeleted
  <1>4. loc \in [VM -> VMStatus] /\ live \in [VM -> SUBSET Nat] /\ uuids \in [VM -> Nat]
    BY DEF TypeOK
  <1>5. OnlyAt(v)
    BY <1>1, <1>2, <1>3, <1>4 DEF OnlyAt
  <1>6. /\ loc'[v].last = Snapshot(v) /\ Snapshot(v).data = src[v] /\ loc'[v].temp = loc[v].temp
        /\ loc'[v].pending = loc[v].pending /\ loc'[v].jobs = loc[v].jobs
        /\ loc'[v].rounds = loc[v].rounds /\ loc'[v].phase = "DeltaConverged"
    BY <1>2, <1>4 DEF VMStatus, Snapshot
  <1>7. live'[v] = (live[v] \ ({loc[v].last.id} \ bad)) \cup {uuids[v] + 1}
    BY <1>3, <1>4
  <1>8. pc' = "loop" /\ i' = i + 1
    BY DEF RoundConverge, NextVM
  <1> QED
    BY <1>1, <1>2, <1>3, <1>4, <1>5, <1>6, <1>7, <1>8

LEMMA ZeroEffect ==
  ASSUME TypeOK, RoundZero
  PROVE  \E v \in VM :
           /\ v = i /\ OnlyAt(v)
           /\ phase = "WarmFinalDelta" /\ pc = "loop" /\ pc' = "loop" /\ i' = i + 1
           /\ loc[v].pending.id = 0 /\ loc[v].phase # "FinalDeltaDone"
           /\ loc'[v].pending.id = uuids[v] + 1 /\ loc'[v].pending.data = src[v]
           /\ loc'[v].temp = loc[v].temp
           /\ loc'[v].last = loc[v].last /\ loc'[v].jobs = loc[v].jobs
           /\ loc'[v].rounds = loc[v].rounds /\ loc'[v].phase = "FinalDeltaDone"
           /\ live'[v] = live[v] \cup {uuids[v] + 1}
           /\ uuids'[v] = uuids[v] + 1 /\ images'[v] = images[v] /\ job'[v] = job[v]
  <1>1. PICK v \in VM :
          /\ v = i /\ phase \in {"WarmDeltaSync", "WarmFinalDelta"} /\ pc = "loop"
          /\ loc[v].phase # doneMark /\ loc[v].pending.id = 0
          /\ uuids' = [uuids EXCEPT ![v] = @ + 1] /\ Snapshot(v).id = uuids[v] + 1
    BY RoundSnapshotEffect DEF RoundZero
  <1>2. /\ loc' = [loc EXCEPT ![v].pending = Snapshot(v), ![v].phase = "FinalDeltaDone"]
        /\ live' = [live EXCEPT ![v] = @ \cup {uuids[v] + 1}]
        /\ phase = "WarmFinalDelta" /\ doneMark = "FinalDeltaDone"
        /\ UNCHANGED <<phase, st, aborts, images, job>>
    BY <1>1 DEF RoundZero, doneMark, final, migVars, dataVars
  <1>3. loc \in [VM -> VMStatus] /\ live \in [VM -> SUBSET Nat] /\ uuids \in [VM -> Nat]
    BY DEF TypeOK
  <1>4. OnlyAt(v)
    BY <1>1, <1>2, <1>3 DEF OnlyAt
  <1>5. /\ loc'[v].pending = Snapshot(v) /\ Snapshot(v).data = src[v] /\ loc'[v].temp = loc[v].temp
        /\ loc'[v].last = loc[v].last /\ loc'[v].jobs = loc[v].jobs
        /\ loc'[v].rounds = loc[v].rounds /\ loc'[v].phase = "FinalDeltaDone"
    BY <1>2, <1>3 DEF VMStatus, Snapshot
  <1>6. live'[v] = live[v] \cup {uuids[v] + 1}
    BY <1>2, <1>3
  <1>7. pc' = "loop" /\ i' = i + 1
    BY DEF RoundZero, NextVM
  <1> QED
    BY <1>1, <1>2, <1>3, <1>4, <1>5, <1>6, <1>7

LEMMA StartEffect ==
  ASSUME TypeOK, RoundStart
  PROVE  \E v \in VM :
           /\ v = i /\ OnlyAt(v)
           /\ phase \in {"WarmDeltaSync", "WarmFinalDelta"}
           /\ pc = "loop" /\ pc' = "spawn" /\ i' = i
           /\ loc[v].pending.id = 0 /\ loc[v].phase # doneMark
           /\ phase = "WarmDeltaSync" => ~(loc[v].rounds >= MaxDeltaRounds)
           /\ loc'[v].pending.id = uuids[v] + 1 /\ loc'[v].pending.data = src[v]
           /\ loc'[v].temp = loc[v].temp
           /\ loc'[v].last = loc[v].last /\ loc'[v].jobs = {}
           /\ loc'[v].rounds = loc[v].rounds /\ loc'[v].phase = loc[v].phase
           /\ live'[v] = live[v] \cup {uuids[v] + 1}
           /\ uuids'[v] = uuids[v] + 1 /\ images'[v] = images[v] /\ job'[v] = job[v]
  <1>1. PICK v \in VM :
          /\ v = i /\ phase \in {"WarmDeltaSync", "WarmFinalDelta"} /\ pc = "loop"
          /\ loc[v].phase # doneMark /\ loc[v].pending.id = 0
          /\ uuids' = [uuids EXCEPT ![v] = @ + 1] /\ Snapshot(v).id = uuids[v] + 1
    BY RoundSnapshotEffect DEF RoundStart
  <1>2. /\ loc' = [loc EXCEPT ![v].pending = Snapshot(v), ![v].jobs = {}]
        /\ live' = [live EXCEPT ![v] = @ \cup {uuids[v] + 1}]
        /\ phase = "WarmDeltaSync" => ~(loc[v].rounds >= MaxDeltaRounds)
        /\ UNCHANGED <<phase, st, aborts, images, job>>
    BY <1>1 DEF RoundStart, Converges, final, migVars, dataVars
  <1>3. loc \in [VM -> VMStatus] /\ live \in [VM -> SUBSET Nat] /\ uuids \in [VM -> Nat]
    BY DEF TypeOK
  <1>4. OnlyAt(v)
    BY <1>1, <1>2, <1>3 DEF OnlyAt
  <1>5. /\ loc'[v].pending = Snapshot(v) /\ Snapshot(v).data = src[v] /\ loc'[v].temp = loc[v].temp
        /\ loc'[v].last = loc[v].last /\ loc'[v].jobs = {}
        /\ loc'[v].rounds = loc[v].rounds /\ loc'[v].phase = loc[v].phase
    BY <1>2, <1>3 DEF VMStatus, Snapshot
  <1>6. live'[v] = live[v] \cup {uuids[v] + 1}
    BY <1>2, <1>3
  <1>7. pc' = "spawn" /\ i' = i
    BY DEF RoundStart
  <1> QED
    BY <1>1, <1>2, <1>3, <1>4, <1>5, <1>6, <1>7

\* A Job of the round is kept, one of an older round gives way to a new one.
LEMMA NewJobEffect ==
  ASSUME TypeOK, InLoop, NEW d \in Disk, CreateJob(d)
  PROVE  \E v \in VM :
           /\ v = i
           /\ \A w \in VM : w # v => job'[w] = job[w]
           /\ \A e \in Disk : e # d => job'[v][e] = job[v][e]
           /\ \/ job' = job /\ job[v][d].round = loc[v].rounds + 1 /\ strays' = strays
              \/ /\ job[v][d].round # loc[v].rounds + 1
                 /\ strays' = [strays EXCEPT ![v] = @ \cup ActivePods(v, {d})]
                 /\ job'[v][d].st = "active" /\ job'[v][d].snap = loc[v].pending.id
                 /\ job'[v][d].round = loc[v].rounds + 1
                 /\ "lag" \notin Faults => job'[v][d].cache = "present"
                 /\ cm[v][d].zeroed = {} =>
                       \A b \in Block : job'[v][d].out[b] = loc[v].pending.data[DiskAt[d]][b]
  <1>1. PICK v \in VM : v = i
    BY ConstantsAssumption DEF CreateJob, TypeOK, InLoop, VM
  <1>2. job \in [VM -> [Disk -> Job]]
    BY DEF TypeOK
  <1>3. CASE job[v][d].round = loc[v].rounds + 1
    BY <1>1, <1>3 DEF CreateJob
  <1>4. CASE job[v][d].round # loc[v].rounds + 1
    <2>1. PICK c : /\ job' = [job EXCEPT ![v][d] = buildDeltaSyncJob(loc[v].pending, d, c)]
                   /\ "lag" \notin Faults => c = "present"
      BY <1>1, <1>4 DEF CreateJob
    <2>2. strays' = [strays EXCEPT ![v] = @ \cup ActivePods(v, {d})]
      BY <1>1, <1>4 DEF CreateJob
    <2>3. job'[v][d] = buildDeltaSyncJob(loc[v].pending, d, c)
      BY <1>2, <2>1
    <2>4. /\ \A w \in VM : w # v => job'[w] = job[w]
          /\ \A e \in Disk : e # d => job'[v][e] = job[v][e]
      BY <1>2, <2>1
    <2>5. /\ job'[v][d].st = "active" /\ job'[v][d].snap = loc[v].pending.id
          /\ job'[v][d].round = loc[v].rounds + 1 /\ job'[v][d].cache = c
          /\ \A b \in Block : b \notin cm[v][d].zeroed =>
                job'[v][d].out[b] = loc[v].pending.data[DiskAt[d]][b]
      BY <1>1, <2>3 DEF buildDeltaSyncJob
    <2> QED
      BY <1>1, <1>4, <2>1, <2>2, <2>4, <2>5
  <1> QED
    BY <1>3, <1>4

LEMMA CreateJobEffect ==
  ASSUME TypeOK, InLoop, NEW d \in Disk, CreateJob(d)
  PROVE  \E v \in VM :
           /\ v = i /\ OnlyAt(v)
           /\ pc = "spawn" /\ pc' = "spawn" /\ i' = i
           /\ loc'[v].last = loc[v].last /\ loc'[v].pending = loc[v].pending
           /\ loc'[v].temp = loc[v].temp /\ loc'[v].jobs = loc[v].jobs \cup {d}
           /\ loc'[v].rounds = loc[v].rounds /\ loc'[v].phase = loc[v].phase
           /\ live'[v] = live[v] /\ uuids'[v] = uuids[v] /\ images'[v] = images[v]
           /\ \A e \in Disk : e # d => job'[v][e] = job[v][e]
           /\ \/ job'[v][d] = job[v][d]
              \/ job'[v][d].st = "active" /\ job'[v][d].snap = loc[v].pending.id
  <1>1. PICK v \in VM : v = i
    BY ConstantsAssumption DEF CreateJob, TypeOK, InLoop, VM
  <1>3. /\ loc' = [loc EXCEPT ![v].jobs = @ \cup {d}]
        /\ pc = "spawn" /\ pc' = "spawn" /\ i' = i
        /\ UNCHANGED <<phase, st, aborts, live, uuids, images>>
    BY <1>1 DEF CreateJob, migVars, prismVars
  <1>4. loc \in [VM -> VMStatus] /\ job \in [VM -> [Disk -> Job]]
    BY DEF TypeOK
  <1>5. /\ \A w \in VM : w # v => job'[w] = job[w]
        /\ \A e \in Disk : e # d => job'[v][e] = job[v][e]
        /\ \/ job'[v][d] = job[v][d]
           \/ job'[v][d].st = "active" /\ job'[v][d].snap = loc[v].pending.id
    <2>1. CASE job[v][d].round = loc[v].rounds + 1
      BY <1>1, <2>1 DEF CreateJob
    <2>2. CASE job[v][d].round # loc[v].rounds + 1
      <3>1. PICK c : job' = [job EXCEPT ![v][d] = buildDeltaSyncJob(loc[v].pending, d, c)]
        BY <1>1, <2>2 DEF CreateJob
      <3>2. job'[v][d] = buildDeltaSyncJob(loc[v].pending, d, c)
        BY <1>4, <3>1
      <3>3. job'[v][d].st = "active" /\ job'[v][d].snap = loc[v].pending.id
        BY <3>2 DEF buildDeltaSyncJob
      <3> QED
        BY <1>4, <3>1, <3>3
    <2> QED
      BY <2>1, <2>2
  <1>6. OnlyAt(v)
    BY <1>3, <1>4, <1>5 DEF OnlyAt
  <1>7. /\ loc'[v].last = loc[v].last /\ loc'[v].pending = loc[v].pending
        /\ loc'[v].temp = loc[v].temp /\ loc'[v].jobs = loc[v].jobs \cup {d}
        /\ loc'[v].rounds = loc[v].rounds /\ loc'[v].phase = loc[v].phase
    BY <1>3, <1>4 DEF VMStatus
  <1> QED
    BY <1>1, <1>3, <1>5, <1>6, <1>7

LEMMA DeletedOf ==
  ASSUME NEW s, NEW gone \in Deleted(s)
  PROVE  gone \in SUBSET s /\ ("delete" \notin Faults => gone = s)
  BY DEF Deleted, Undeleted

LEMMA PromoteEffect ==
  ASSUME TypeOK, RoundPromote
  PROVE  \E v \in VM :
           /\ v = i /\ OnlyAt(v)
           /\ phase \in {"WarmDeltaSync", "WarmFinalDelta"}
           /\ pc = "loop" /\ pc' = "loop" /\ i' = i + 1
           /\ loc[v].pending.id # 0 /\ loc[v].phase # doneMark
           /\ loc'[v].last = loc[v].pending /\ loc'[v].pending = NoCopy
           /\ loc'[v].temp = loc[v].temp /\ loc'[v].jobs = {}
           /\ loc'[v].rounds = loc[v].rounds + 1
           /\ loc'[v].phase = IF phase = "WarmFinalDelta" THEN "FinalDeltaDone" ELSE "DeltaIdle"
           /\ \E bad \in SUBSET {loc[v].last.id} :
                 /\ live'[v] = live[v] \ ({loc[v].last.id} \ bad)
                 /\ "delete" \notin Faults => bad = {}
           /\ uuids'[v] = uuids[v] /\ images'[v] = images[v]
           /\ \A d \in loc[v].jobs : job[v][d].st = "active" => job[v][d].cache # "present"
           /\ \E gone \in SUBSET loc[v].jobs :
                 /\ job'[v] = [d \in Disk |-> IF d \in gone THEN NoJob ELSE job[v][d]]
                 /\ strays' = [strays EXCEPT ![v] = @ \cup ActivePods(v, gone)]
                 /\ "delete" \notin Faults => gone = loc[v].jobs
           /\ \E gone \in SUBSET loc[v].jobs :
                 /\ cm' = [cm EXCEPT ![v] = [d \in Disk |-> IF d \in gone THEN NoCM ELSE cm[v][d]]]
                 /\ "delete" \notin Faults => gone = loc[v].jobs
  <1>1. PICK v \in VM : v = i
    BY ConstantsAssumption DEF RoundPromote, RoundPending, AtVM, TypeOK, VM
  <1>2. /\ loc' = [loc EXCEPT ![v].last = loc[v].pending, ![v].pending = NoCopy,
                              ![v].jobs = {}, ![v].rounds = @ + 1,
                              ![v].phase = IF phase = "WarmFinalDelta" THEN "FinalDeltaDone"
                                                                       ELSE "DeltaIdle"]
        /\ UNCHANGED <<phase, st, aborts, images, uuids>>
    BY <1>1 DEF RoundPromote, doneMark, final, migVars
  <1>3. PICK bad \in SUBSET {loc[v].last.id} :
          /\ live' = [live EXCEPT ![v] = @ \ ({loc[v].last.id} \ bad)]
          /\ "delete" \notin Faults => bad = {}
    BY <1>1 DEF RoundPromote, Undeleted
  <1>4. PICK gone \in SUBSET loc[v].jobs :
          /\ job' = [job EXCEPT ![v] = [d \in Disk |-> IF d \in gone THEN NoJob ELSE job[v][d]]]
          /\ strays' = [strays EXCEPT ![v] = @ \cup ActivePods(v, gone)]
          /\ "delete" \notin Faults => gone = loc[v].jobs
    <2>1. PICK gone \in Deleted(loc[v].jobs) :
            /\ job' = [job EXCEPT ![v] = [d \in Disk |-> IF d \in gone THEN NoJob ELSE job[v][d]]]
            /\ strays' = [strays EXCEPT ![v] = @ \cup ActivePods(v, gone)]
      BY <1>1 DEF RoundPromote
    <2>2. gone \in SUBSET loc[v].jobs /\ ("delete" \notin Faults => gone = loc[v].jobs)
      BY DeletedOf
    <2> QED
      BY <2>1, <2>2, Zenon
  <1>10. \E x \in SUBSET loc[v].jobs :
            /\ cm' = [cm EXCEPT ![v] = [d \in Disk |-> IF d \in x THEN NoCM ELSE cm[v][d]]]
            /\ "delete" \notin Faults => x = loc[v].jobs
    <2>1. PICK x \in Deleted(loc[v].jobs) :
            cm' = [cm EXCEPT ![v] = [d \in Disk |-> IF d \in x THEN NoCM ELSE cm[v][d]]]
      BY <1>1 DEF RoundPromote
    <2>2. x \in SUBSET loc[v].jobs /\ ("delete" \notin Faults => x = loc[v].jobs)
      BY DeletedOf
    <2> QED
      BY <2>1, <2>2, Zenon
  <1>11. \A d \in loc[v].jobs : job[v][d].st = "active" => job[v][d].cache # "present"
    BY <1>1 DEF RoundPromote, JobShows
  <1>5. /\ loc \in [VM -> VMStatus] /\ live \in [VM -> SUBSET Nat] /\ uuids \in [VM -> Nat]
        /\ job \in [VM -> [Disk -> Job]]
    BY DEF TypeOK
  <1>6. /\ job'[v] = [d \in Disk |-> IF d \in gone THEN NoJob ELSE job[v][d]]
        /\ live'[v] = live[v] \ ({loc[v].last.id} \ bad)
    BY <1>3, <1>4, <1>5
  <1>7. OnlyAt(v)
    BY <1>2, <1>3, <1>4, <1>5 DEF OnlyAt
  <1>8. /\ loc'[v].last = loc[v].pending /\ loc'[v].pending = NoCopy
        /\ loc'[v].temp = loc[v].temp /\ loc'[v].jobs = {}
        /\ loc'[v].rounds = loc[v].rounds + 1
        /\ loc'[v].phase = IF phase = "WarmFinalDelta" THEN "FinalDeltaDone" ELSE "DeltaIdle"
    <2> DEFINE ph == IF phase = "WarmFinalDelta" THEN "FinalDeltaDone" ELSE "DeltaIdle"
    <2>1. loc[v] \in VMStatus
      BY <1>5
    <2>2. loc'[v] = [loc[v] EXCEPT !.last = loc[v].pending, !.pending = NoCopy, !.jobs = {},
                                   !.rounds = @ + 1, !.phase = ph]
      BY <1>2, <1>5
    <2> HIDE DEF ph
    <2>3. /\ loc'[v].last = loc[v].pending /\ loc'[v].pending = NoCopy
          /\ loc'[v].temp = loc[v].temp /\ loc'[v].jobs = {}
          /\ loc'[v].rounds = loc[v].rounds + 1 /\ loc'[v].phase = ph
      BY <2>1, <2>2 DEF VMStatus
    <2> QED
      BY <2>3 DEF ph
  <1>9. /\ phase \in {"WarmDeltaSync", "WarmFinalDelta"}
        /\ pc = "loop" /\ pc' = "loop" /\ i' = i + 1
        /\ loc[v].pending.id # 0 /\ loc[v].phase # doneMark
    BY <1>1 DEF RoundPromote, RoundPending, AtVM, NextVM
  <1> QED
    BY <1>1, <1>2, <1>3, <1>4, <1>6, <1>7, <1>8, <1>9, <1>10, <1>11

LEMMA FinalCleanupEffect ==
  ASSUME TypeOK, FinalCleanup
  PROVE  /\ phase = "WarmFinalDelta" /\ pc = "loop" /\ pc' = "patch" /\ i = NumVM + 1 /\ allDone
         /\ UNCHANGED <<phase, st, i, loc, allDone, aborts, uuids, job>>
         /\ \A v \in VM : /\ live[v] \ {loc[v].last.id, loc[v].pending.id} \subseteq live'[v]
                          /\ live'[v] \subseteq live[v]
                          /\ "delete" \notin Faults =>
                                /\ live'[v] = live[v] \ {loc[v].last.id, loc[v].pending.id}
                                /\ images'[v] = images[v] \ {loc[v].temp.id}
  <1>1. PICK bad \in SUBSET VM :
          /\ live' = [v \in VM |-> IF v \in bad THEN live[v]
                                     ELSE live[v] \ {loc[v].last.id, loc[v].pending.id}]
          /\ "delete" \notin Faults => bad = {}
    BY DEF FinalCleanup, Undeleted
  <1>2. PICK worse \in SUBSET VM :
          /\ images' = [v \in VM |-> IF v \in worse THEN images[v]
                                       ELSE images[v] \ {loc[v].temp.id}]
          /\ "delete" \notin Faults => worse = {}
    BY DEF FinalCleanup, Undeleted
  <1> QED
    BY <1>1, <1>2 DEF FinalCleanup, AtEnd, final, migVars, dataVars

(***************************************************************************)
(* The ends of a pass: lost, failed, or with its status patch.             *)
(***************************************************************************)
LEMMA LostEffect ==
  ASSUME AbortPass \/ PrismError \/ RoundJobFailed
  PROVE  /\ pc' = "loop" /\ i' = 1 /\ loc' = st /\ st' = st
         /\ UNCHANGED <<live, images, uuids, job>>
         /\ \/ phase' = phase /\ aborts' = aborts + 1
            \/ phase # "Failed" /\ phase' = "Failed" /\ aborts' = aborts
  BY DEF AbortPass, PrismError, RoundJobFailed, RoundPending, AtVM, failMigration, EndPass,
         prismVars, dataVars

LEMMA DeltaErrorEffect ==
  ASSUME TypeOK, RoundDeltaError
  PROVE  \E v \in VM :
           /\ v = i /\ phase \in {"WarmDeltaSync", "WarmFinalDelta"} /\ pc = "loop"
           /\ pc' = "loop" /\ i' = 1 /\ loc' = st /\ st' = st
           /\ phase' = "Failed" /\ UNCHANGED <<aborts, images, job>>
           /\ \A w \in VM : w # v => live'[w] = live[w] /\ uuids'[w] = uuids[w]
           /\ live'[v] = live[v] \cup {uuids[v] + 1} /\ uuids'[v] = uuids[v] + 1
  <1>1. PICK v \in VM :
          /\ v = i /\ phase \in {"WarmDeltaSync", "WarmFinalDelta"} /\ pc = "loop"
          /\ uuids' = [uuids EXCEPT ![v] = @ + 1] /\ Snapshot(v).id = uuids[v] + 1
    BY RoundSnapshotEffect DEF RoundDeltaError
  <1>2. live' = [live EXCEPT ![v] = @ \cup {uuids[v] + 1}]
    BY <1>1 DEF RoundDeltaError
  <1>3. live \in [VM -> SUBSET Nat] /\ uuids \in [VM -> Nat]
    BY DEF TypeOK
  <1> QED
    BY <1>1, <1>2, <1>3 DEF RoundDeltaError, failMigration, EndPass, dataVars

LEMMA PatchEffect ==
  ASSUME PreSyncPatch \/ RoundPatch \/ ConvergedPatch \/ FinalPatch
  PROVE  /\ pc' = "loop" /\ i' = 1 /\ st' = loc /\ loc' = loc
         /\ UNCHANGED <<aborts, live, images, uuids, job, dv>>
         /\ \/ phase = "WarmPreSync" /\ phase' = "WarmSyncing"
            \/ phase \in {"WarmDeltaSync", "WarmFinalDelta"} /\ phase' = phase
            \/ phase = "WarmDeltaSync" /\ phase' = "ReadyForCutover"
            \/ phase = "WarmDeltaSync" /\ phase' = "WarmCutover" /\ ~PauseBeforeCutover
            \/ pc = "patch" /\ phase' = "CreatingVMs"
  BY DEF PreSyncPatch, RoundPatch, ConvergedPatch, FinalPatch, AtEnd, final, EndPass, prismVars,
         dataVars

\* The passes that only mark the VMs.
LEMMA MarkEffect ==
  ASSUME TypeOK, \/ handleWarmSyncing \/ handleReadyForCutover
                 \/ WarmCutoverShutdown \/ WarmCutoverOff
  PROVE  /\ pc' = "loop" /\ i' = 1 /\ loc' = st'
         /\ UNCHANGED <<aborts, live, images, uuids, job, dv>>
         /\ \/ phase = "WarmSyncing" /\ phase' \in {"WarmSyncing", "WarmDeltaSync"}
            \/ phase = "ReadyForCutover" /\ phase' = "WarmCutover" /\ approved
            \/ phase = "WarmCutover" /\ phase' \in {"WarmCutover", "WarmFinalDelta"}
         /\ \A v \in VM : /\ st'[v].last = st[v].last /\ st'[v].temp = st[v].temp
                          /\ st'[v].pending = st[v].pending /\ st'[v].jobs = st[v].jobs
                          /\ st'[v].rounds = st[v].rounds
                          /\ \/ st'[v].phase = st[v].phase
                             \/ st'[v].phase \in {"WarmSyncDone", "ShuttingDown"}
  <1>1. st \in [VM -> VMStatus]
    BY DEF TypeOK
  <1>2. CASE handleReadyForCutover \/ WarmCutoverOff
    BY <1>2 DEF handleReadyForCutover, WarmCutoverOff, EndPass, prismVars, dataVars
  <1>3. CASE handleWarmSyncing
    <2>1. st' = [v \in VM |-> IF v \in Imported THEN [st[v] EXCEPT !.phase = "WarmSyncDone"]
                                                 ELSE st[v]]
      BY <1>3 DEF handleWarmSyncing, EndPass
    <2>2. \A v \in VM : /\ st'[v].last = st[v].last /\ st'[v].temp = st[v].temp
                        /\ st'[v].pending = st[v].pending /\ st'[v].jobs = st[v].jobs
                        /\ st'[v].rounds = st[v].rounds
                        /\ \/ st'[v].phase = st[v].phase
                           \/ st'[v].phase \in {"WarmSyncDone", "ShuttingDown"}
      BY <1>1, <2>1 DEF VMStatus
    <2> QED
      BY <1>3, <2>2 DEF handleWarmSyncing, EndPass, prismVars, dataVars
  <1>4. CASE WarmCutoverShutdown
    <2>1. PICK seen \in SUBSET On :
            /\ EndPass(phase, [v \in VM |-> IF v \in seen THEN [st[v] EXCEPT !.phase = "ShuttingDown"]
                                                          ELSE st[v]])
            /\ UNCHANGED <<aborts, live, images, uuids, dataVars>>
      BY <1>4 DEF WarmCutoverShutdown
    <2>2. st' = [v \in VM |-> IF v \in seen THEN [st[v] EXCEPT !.phase = "ShuttingDown"] ELSE st[v]]
      BY <2>1 DEF EndPass
    <2>3. \A v \in VM : /\ st'[v].last = st[v].last /\ st'[v].temp = st[v].temp
                        /\ st'[v].pending = st[v].pending /\ st'[v].jobs = st[v].jobs
                        /\ st'[v].rounds = st[v].rounds
                        /\ \/ st'[v].phase = st[v].phase
                           \/ st'[v].phase \in {"WarmSyncDone", "ShuttingDown"}
      BY <1>1, <2>2 DEF VMStatus
    <2> QED
      BY <1>4, <2>1, <2>3 DEF WarmCutoverShutdown, EndPass, dataVars
  <1> QED
    BY <1>2, <1>3, <1>4

\* The environment leaves the passes, the statuses and the snapshots alone, and
\* starts no Job.
LEMMA EnvironmentEffect ==
  ASSUME TypeOK, Environment \/ UNCHANGED vars
  PROVE  /\ UNCHANGED <<phase, st, passVars, live, images, uuids>>
         /\ \A v \in VM, d \in Disk :
               /\ job'[v][d].st = "active" => /\ job[v][d].st = "active"
                                              /\ job'[v][d].snap = job[v][d].snap
                                              /\ job'[v][d].round = job[v][d].round
                                              /\ job'[v][d].out = job[v][d].out
               /\ job'[v][d].st # "none" => /\ job[v][d].st # "none"
                                            /\ job[v][d].cache = "present" => job'[v][d].cache = "present"
  <1>1. job \in [VM -> [Disk -> Job]]
    BY DEF TypeOK
  <1>2. CASE \E v \in VM, d \in Disk : JobExpire(v, d)
    <2>1. PICK v \in VM, d \in Disk : job' = [job EXCEPT ![v][d] = NoJob]
      BY <1>2 DEF JobExpire
    <2>2. job'[v][d].st = "none"
      BY <1>1, <2>1 DEF NoJob
    <2>3. \A w \in VM, e \in Disk : <<w, e>> # <<v, d>> => job'[w][e] = job[w][e]
      BY <1>1, <2>1
    <2> QED
      BY <1>2, <2>2, <2>3 DEF JobExpire, migVars, prismVars
  <1>3. CASE \E v \in VM, d \in Disk : JobComplete(v, d) \/ JobFail(v, d)
    <2>1. PICK v \in VM, d \in Disk : JobComplete(v, d) \/ JobFail(v, d)
      BY <1>3
    <2>2. PICK x \in {"complete", "failed"} : job' = [job EXCEPT ![v][d].st = x]
      BY <2>1 DEF JobComplete, JobFail
    <2>3. /\ job'[v][d].st # "active" /\ job[v][d].st = "active"
          /\ job'[v][d].cache = job[v][d].cache
      BY <1>1, <2>1, <2>2 DEF Job, JobComplete, JobFail
    <2>4. \A w \in VM, e \in Disk : <<w, e>> # <<v, d>> => job'[w][e] = job[w][e]
      BY <1>1, <2>2
    <2> QED
      BY <2>1, <2>3, <2>4 DEF JobComplete, JobFail, migVars, prismVars
  <1>4. CASE \E v \in VM, d \in Disk : CacheSync(v, d)
    <2>1. PICK v \in VM, d \in Disk : CacheSync(v, d)
      BY <1>4
    <2>2. job' = [job EXCEPT ![v][d].cache = "present"]
      BY <2>1 DEF CacheSync
    <2>3. /\ job'[v][d].st = job[v][d].st /\ job'[v][d].snap = job[v][d].snap
          /\ job'[v][d].round = job[v][d].round /\ job'[v][d].out = job[v][d].out
          /\ job'[v][d].cache = "present"
      BY <1>1, <2>2 DEF Job
    <2>4. \A w \in VM, e \in Disk : <<w, e>> # <<v, d>> => job'[w][e] = job[w][e]
      BY <1>1, <2>2
    <2> QED
      BY <2>1, <2>3, <2>4 DEF CacheSync, migVars, prismVars
  <1>5. CASE \E v \in VM, d \in Disk, b \in Block : JobWrite(v, d, b)
    <2>1. PICK v \in VM, d \in Disk, b \in Block : JobWrite(v, d, b)
      BY <1>5
    <2>2. job' = [job EXCEPT ![v][d].left = @ \ {b}]
      BY <2>1 DEF JobWrite
    <2>3. /\ job'[v][d].st = job[v][d].st /\ job'[v][d].snap = job[v][d].snap
          /\ job'[v][d].round = job[v][d].round /\ job'[v][d].out = job[v][d].out
          /\ job'[v][d].cache = job[v][d].cache
      BY <1>1, <2>2 DEF Job
    <2>4. \A w \in VM, e \in Disk : <<w, e>> # <<v, d>> => job'[w][e] = job[w][e]
      BY <1>1, <2>2
    <2> QED
      BY <2>1, <2>3, <2>4 DEF JobWrite, migVars, prismVars
  <1>6. CASE \/ Approve \/ UNCHANGED vars
             \/ \E v \in VM : PowerOff(v)
             \/ \E v \in VM, d \in Disk : CDIImport(v, d) \/ \E b \in Block : GuestWrite(v, d, b)
    BY <1>6 DEF Approve, PowerOff, CDIImport, GuestWrite, vars, migVars, prismVars, dataVars
  <1>7. CASE \E v \in VM : \E p \in strays[v] : RunStray(v, p)
    BY <1>7, StrayFrame
  <1> QED
    BY <1>2, <1>3, <1>4, <1>5, <1>6, <1>7 DEF Environment, RunJob

-----------------------------------------------------------------------------
(***************************************************************************)
(* The number of rounds.                                                   *)
(***************************************************************************)

\* In which phase a step of a pass belongs.
StepInv ==
    /\ pc \in {"image", "dvs"} => phase = "WarmPreSync"
    /\ pc = "spawn" => phase \in {"WarmDeltaSync", "WarmFinalDelta"} /\ loc[i].phase # doneMark
    /\ pc = "patch" => phase = "WarmFinalDelta"

LEMMA StepInvInit == Init => StepInv
  BY DEF Init, StepInv

LEMMA StepInvStep ==
  ASSUME TypeOK, InLoop, StepInv, [Next]_vars
  PROVE  StepInv'
  <1>1. CASE PreSyncSnapshot
    BY <1>1, PreSyncSnapshotEffect DEF StepInv, OnlyAt
  <1>2. CASE PreSyncImage
    BY <1>2, PreSyncImageEffect DEF StepInv, OnlyAt
  <1>3. CASE \/ PreSyncImaged \/ createDataVolumesFromTempImages \/ RoundSkip \/ RoundWait
             \/ RoundSpawned \/ \E d \in Disk : CreateConfigMap(d)
    BY <1>3, MoveEffect DEF StepInv, doneMark, final
  <1>4. CASE RoundConverge
    BY <1>4, ConvergeEffect DEF StepInv, OnlyAt
  <1>5. CASE RoundZero
    BY <1>5, ZeroEffect DEF StepInv, OnlyAt
  <1>6. CASE RoundStart
    BY <1>6, StartEffect DEF StepInv, OnlyAt, doneMark, final
  <1>7. CASE \E d \in Disk : CreateJob(d)
    BY <1>7, CreateJobEffect DEF StepInv, OnlyAt, doneMark, final
  <1>8. CASE RoundPromote
    BY <1>8, PromoteEffect DEF StepInv, OnlyAt
  <1>9. CASE FinalCleanup
    BY <1>9, FinalCleanupEffect DEF StepInv
  <1>10. CASE AbortPass \/ PrismError \/ RoundJobFailed
    BY <1>10, LostEffect DEF StepInv
  <1>11. CASE RoundDeltaError
    BY <1>11, DeltaErrorEffect DEF StepInv
  <1>12. CASE PreSyncPatch \/ RoundPatch \/ ConvergedPatch \/ FinalPatch
    BY <1>12, PatchEffect DEF StepInv
  <1>13. CASE \/ handleWarmSyncing \/ handleReadyForCutover \/ WarmCutoverShutdown
              \/ WarmCutoverOff
    BY <1>13, MarkEffect DEF StepInv
  <1>14. CASE Environment \/ UNCHANGED vars
    BY <1>14, EnvironmentEffect DEF StepInv, passVars, doneMark, final
  <1> QED
    BY <1>1, <1>2, <1>3, <1>4, <1>5, <1>6, <1>7, <1>8, <1>9, <1>10, <1>11, <1>12, <1>13, <1>14
    DEF Next, Reconcile, PreSync, runDeltaRound, Cutover

\* A round is begun below the limit, and the one of the final delta once.
RoundsOf(s) ==
    /\ s.rounds <= MaxDeltaRounds + 1
    /\ phase \in {"WarmPreSync", "WarmSyncing"} => s.pending.id = 0
    /\ phase \notin {"WarmFinalDelta", "CreatingVMs", "Failed"} => s.rounds <= MaxDeltaRounds
    /\ phase = "WarmDeltaSync" /\ s.pending.id # 0 => s.rounds < MaxDeltaRounds
    /\ phase = "WarmFinalDelta" /\ s.phase # "FinalDeltaDone" => s.rounds <= MaxDeltaRounds

RoundsInv == \A v \in VM : RoundsOf(loc[v]) /\ RoundsOf(st[v])

LEMMA RoundsInvInit == Init => RoundsInv
  <1> SUFFICES ASSUME Init, NEW v \in VM PROVE RoundsOf(loc[v]) /\ RoundsOf(st[v])
    BY DEF RoundsInv
  <1>1. loc[v] = st[v] /\ st[v].rounds = 0 /\ st[v].pending.id = 0 /\ phase = "WarmPreSync"
    BY DEF Init, NoCopy
  <1> QED
    BY <1>1, ConstantsAssumption DEF RoundsOf

LEMMA RoundsInvStep ==
  ASSUME TypeOK, InLoop, StepInv, RoundsInv, [Next]_vars
  PROVE  RoundsInv'
  <1>0. /\ MaxDeltaRounds \in Nat
        /\ \A w \in VM : loc[w].rounds \in Nat /\ st[w].rounds \in Nat
    BY ConstantsAssumption DEF TypeOK, VMStatus
  <1> SUFFICES ASSUME NEW w \in VM PROVE RoundsOf(loc[w])' /\ RoundsOf(st[w])'
    BY DEF RoundsInv
  <1>a. RoundsOf(loc[w]) /\ RoundsOf(st[w])
    BY DEF RoundsInv
  <1>1. CASE PreSyncSnapshot
    BY <1>a, <1>1, PreSyncSnapshotEffect DEF RoundsOf, OnlyAt
  <1>2. CASE PreSyncImage
    BY <1>a, <1>2, PreSyncImageEffect DEF RoundsOf, OnlyAt
  <1>3. CASE \/ PreSyncImaged \/ createDataVolumesFromTempImages \/ RoundSkip \/ RoundWait
             \/ RoundSpawned \/ \E d \in Disk : CreateConfigMap(d)
    <2>1. /\ UNCHANGED <<phase, st>>
          /\ loc'[w].rounds = loc[w].rounds /\ loc'[w].pending = loc[w].pending
          /\ loc'[w].phase = loc[w].phase \/ (phase # "WarmFinalDelta" \/ loc[w].phase # "FinalDeltaDone")
      BY <1>3, MoveEffect DEF StepInv, doneMark, final
    <2> QED
      BY <1>a, <2>1 DEF RoundsOf
  <1>4. CASE RoundConverge
    BY <1>a, <1>4, ConvergeEffect DEF RoundsOf, OnlyAt
  <1>5. CASE RoundZero
    BY <1>a, <1>5, ZeroEffect DEF RoundsOf, OnlyAt
  <1>6. CASE RoundStart
    BY <1>0, <1>a, <1>6, StartEffect DEF RoundsOf, OnlyAt
  <1>7. CASE \E d \in Disk : CreateJob(d)
    BY <1>a, <1>7, CreateJobEffect DEF RoundsOf, OnlyAt
  <1>8. CASE RoundPromote
    <2>1. PICK v \in VM :
            /\ OnlyAt(v) /\ phase \in {"WarmDeltaSync", "WarmFinalDelta"}
            /\ loc[v].pending.id # 0 /\ loc[v].phase # doneMark
            /\ loc'[v].pending = NoCopy /\ loc'[v].rounds = loc[v].rounds + 1
            /\ loc'[v].phase = IF phase = "WarmFinalDelta" THEN "FinalDeltaDone" ELSE "DeltaIdle"
      BY <1>8, PromoteEffect
    <2>2. NoCopy.id = 0
      BY DEF NoCopy
    <2> QED
      BY <1>0, <1>a, <2>1, <2>2 DEF RoundsOf, OnlyAt, doneMark, final
  <1>9. CASE FinalCleanup
    BY <1>a, <1>9, FinalCleanupEffect DEF RoundsOf
  <1>10. CASE AbortPass \/ PrismError \/ RoundJobFailed
    BY <1>a, <1>10, LostEffect DEF RoundsOf
  <1>11. CASE RoundDeltaError
    BY <1>a, <1>11, DeltaErrorEffect DEF RoundsOf
  <1>12. CASE PreSyncPatch \/ RoundPatch \/ ConvergedPatch \/ FinalPatch
    BY <1>a, <1>12, PatchEffect DEF RoundsOf
  <1>13. CASE \/ handleWarmSyncing \/ handleReadyForCutover \/ WarmCutoverShutdown
              \/ WarmCutoverOff
    BY <1>a, <1>13, MarkEffect DEF RoundsOf
  <1>14. CASE Environment \/ UNCHANGED vars
    BY <1>a, <1>14, EnvironmentEffect DEF RoundsOf, passVars
  <1> QED
    BY <1>1, <1>2, <1>3, <1>4, <1>5, <1>6, <1>7, <1>8, <1>9, <1>10, <1>11, <1>12, <1>13, <1>14
    DEF Next, Reconcile, PreSync, runDeltaRound, Cutover

\* However fast the guest writes and whatever fails, is lost or restarts, a VM
\* goes through at most maxDeltaRounds rounds before the cutover and one after
\* it (the comparison of DeltaRounds in runDeltaRound).
THEOREM RoundsAreBounded == Spec => []RoundsBounded
  <1>1. Init => TypeOK /\ InLoop /\ StepInv /\ RoundsInv
    BY TypeInit, StepInvInit, RoundsInvInit
  <1>2. TypeOK /\ InLoop /\ StepInv /\ RoundsInv /\ [Next]_vars
          => (TypeOK /\ InLoop /\ StepInv /\ RoundsInv)'
    BY TypeStep, StepInvStep, RoundsInvStep
  <1>3. TypeOK /\ RoundsInv => RoundsBounded
    <2> SUFFICES ASSUME TypeOK, RoundsInv, NEW v \in VM
                 PROVE  st[v].rounds <= MaxDeltaRounds
                          + (IF phase \in {"WarmFinalDelta", "CreatingVMs", "Failed"} THEN 1 ELSE 0)
      BY DEF RoundsBounded
    <2>1. MaxDeltaRounds \in Nat /\ st[v].rounds \in Nat
      BY ConstantsAssumption DEF TypeOK, VMStatus
    <2> QED
      BY <2>1 DEF RoundsInv, RoundsOf
  <1> QED
    BY <1>1, <1>2, <1>3, PTL DEF Spec

-----------------------------------------------------------------------------
(***************************************************************************)
(* The snapshot that a Job reads.                                          *)
(***************************************************************************)

\* The VMs behind the pass carry the mark as long as allDone holds, and no VM
\* is marked FinalDeltaDone before the final delta.
DoneInv ==
    /\ phase \in {"WarmDeltaSync", "WarmFinalDelta"} /\ allDone =>
          \A v \in VM : v < i => loc[v].phase = doneMark
    /\ phase \notin {"WarmFinalDelta", "CreatingVMs", "Failed"} =>
          \A v \in VM : loc[v].phase # "FinalDeltaDone" /\ st[v].phase # "FinalDeltaDone"

LEMMA DoneInvInit == Init => DoneInv
  <1> SUFFICES ASSUME Init PROVE DoneInv
    OBVIOUS
  <1>1. \A v \in VM : loc[v].phase = "Pending" /\ st[v].phase = "Pending"
    BY DEF Init
  <1> QED
    BY <1>1 DEF Init, DoneInv

LEMMA DoneInvStep ==
  ASSUME TypeOK, InLoop, StepInv, DoneInv, [Next]_vars
  PROVE  DoneInv'
  <1>0. /\ i \in Int /\ VM \subseteq Int
        /\ \A v \in VM : ~(v < 1) /\ (v < i + 1 => v < i \/ v = i)
    BY ConstantsAssumption DEF TypeOK, VM
  <1>1. CASE PreSyncSnapshot
    BY <1>1, PreSyncSnapshotEffect DEF DoneInv, OnlyAt
  <1>2. CASE PreSyncImage
    BY <1>2, PreSyncImageEffect DEF DoneInv, OnlyAt
  <1>3. CASE PreSyncImaged \/ createDataVolumesFromTempImages
    <2>1. phase = "WarmPreSync" /\ UNCHANGED <<phase, st>>
      BY <1>3 DEF PreSyncImaged, createDataVolumesFromTempImages, migVars
    <2>2. \A v \in VM : loc'[v] = loc[v] \/ loc'[v].phase # "FinalDeltaDone"
      BY <1>3, MoveEffect
    <2> QED
      BY <2>1, <2>2 DEF DoneInv
  <1>4. CASE RoundSpawned
    <2>1. UNCHANGED <<phase, st>> /\ ~allDone'
      BY <1>4 DEF RoundSpawned, migVars
    <2>2. \A v \in VM : loc'[v] = loc[v] \/ loc'[v].phase # "FinalDeltaDone"
      BY <1>4, MoveEffect
    <2> QED
      BY <2>1, <2>2 DEF DoneInv
  <1>5. CASE RoundWait \/ \E d \in Disk : CreateConfigMap(d)
    <2>1. UNCHANGED <<phase, st, loc>> /\ (~allDone' \/ UNCHANGED <<allDone, i>>)
      BY <1>5 DEF RoundWait, CreateConfigMap, migVars
    <2> QED
      BY <2>1 DEF DoneInv, doneMark, final
  <1>6. CASE RoundSkip
    <2>1. UNCHANGED <<phase, st, loc, allDone>> /\ i' = i + 1 /\ loc[i].phase = doneMark
      BY <1>6 DEF RoundSkip, NextVM, migVars
    <2>2. doneMark' = doneMark
      BY <2>1 DEF doneMark, final
    <2> QED
      BY <1>0, <2>1, <2>2 DEF DoneInv
  <1>7. CASE RoundConverge
    <2>1. UNCHANGED allDone
      BY <1>7 DEF RoundConverge
    <2> QED
      BY <1>0, <1>7, <2>1, ConvergeEffect DEF DoneInv, OnlyAt, doneMark, final
  <1>8. CASE RoundZero
    <2>1. UNCHANGED allDone
      BY <1>8 DEF RoundZero
    <2> QED
      BY <1>0, <1>8, <2>1, ZeroEffect DEF DoneInv, OnlyAt, doneMark, final
  <1>9. CASE RoundStart
    <2>1. UNCHANGED allDone
      BY <1>9 DEF RoundStart
    <2> QED
      BY <1>0, <1>9, <2>1, StartEffect DEF DoneInv, OnlyAt, doneMark, final
  <1>10. CASE \E d \in Disk : CreateJob(d)
    <2>1. UNCHANGED allDone
      BY <1>10 DEF CreateJob
    <2> QED
      BY <1>0, <1>10, <2>1, CreateJobEffect DEF DoneInv, OnlyAt, doneMark, final
  <1>11. CASE RoundPromote
    <2>1. allDone' => allDone /\ phase = "WarmFinalDelta"
      BY <1>11 DEF RoundPromote, final
    <2>2. PICK v \in VM :
            /\ v = i /\ OnlyAt(v) /\ i' = i + 1
            /\ loc'[v].phase = IF phase = "WarmFinalDelta" THEN "FinalDeltaDone" ELSE "DeltaIdle"
      BY <1>11, PromoteEffect
    <2> QED
      BY <1>0, <2>1, <2>2 DEF DoneInv, OnlyAt, doneMark, final
  <1>12. CASE FinalCleanup
    BY <1>12, FinalCleanupEffect DEF DoneInv, doneMark, final
  <1>13. CASE AbortPass \/ PrismError \/ RoundJobFailed
    <2>1. st' = st /\ loc' = st /\ i' = 1 /\ phase' \in {phase, "Failed"}
      BY <1>13, LostEffect
    <2> QED
      BY <1>0, <2>1 DEF DoneInv
  <1>14. CASE RoundDeltaError
    BY <1>14, DeltaErrorEffect DEF DoneInv
  <1>15. CASE PreSyncPatch \/ RoundPatch \/ ConvergedPatch \/ FinalPatch
    BY <1>0, <1>15, PatchEffect DEF DoneInv
  <1>16. CASE \/ handleWarmSyncing \/ handleReadyForCutover \/ WarmCutoverShutdown
              \/ WarmCutoverOff
    BY <1>0, <1>16, MarkEffect DEF DoneInv
  <1>17. CASE Environment \/ UNCHANGED vars
    BY <1>17, EnvironmentEffect DEF DoneInv, passVars, doneMark, final
  <1> QED
    BY <1>1, <1>2, <1>3, <1>4, <1>5, <1>6, <1>7, <1>8, <1>9, <1>10, <1>11, <1>12, <1>13, <1>14,
       <1>15, <1>16, <1>17
    DEF Next, Reconcile, PreSync, runDeltaRound, Cutover

\* If the cache never lags, it shows every Job.
CacheInv ==
    "lag" \notin Faults =>
        \A v \in VM, d \in Disk : job[v][d].st # "none" => job[v][d].cache = "present"

LEMMA CacheInvInit == Init => CacheInv
  BY DEF Init, CacheInv, NoJob

\* Jobs appear and disappear by CreateJob, RoundPromote and on their own.
LEMMA JobFrame ==
  ASSUME [Next]_vars
  PROVE  \/ job' = job \/ RoundPromote \/ (\E d \in Disk : CreateJob(d))
         \/ Environment
  <1>1. CASE PreSync \/ Cutover
    BY <1>1 DEF PreSync, PreSyncSnapshot, PreSyncImage, PreSyncImaged,
       createDataVolumesFromTempImages, PreSyncPatch, handleWarmSyncing, Cutover,
       handleReadyForCutover, WarmCutoverShutdown, WarmCutoverOff, dataVars
  <1>2. CASE runDeltaRound
    <2>1. ASSUME NEW d \in Disk, CreateConfigMap(d) PROVE job' = job
      BY <2>1 DEF CreateConfigMap
    <2>2. CASE \/ RoundSkip \/ RoundConverge \/ RoundZero \/ RoundStart \/ RoundDeltaError
               \/ RoundSpawned \/ RoundWait \/ RoundJobFailed \/ RoundPatch \/ ConvergedPatch
               \/ FinalCleanup \/ FinalPatch
      BY <2>2 DEF RoundSkip, RoundConverge, RoundZero, RoundStart, RoundDeltaError, RoundSpawned,
         RoundWait, RoundJobFailed, RoundPatch, ConvergedPatch, FinalCleanup, FinalPatch, dataVars
    <2> QED
      BY <1>2, <2>1, <2>2 DEF runDeltaRound
  <1>3. CASE PrismError \/ AbortPass \/ UNCHANGED vars
    BY <1>3 DEF PrismError, AbortPass, vars, dataVars
  <1> QED
    BY <1>1, <1>2, <1>3 DEF Next, Reconcile

LEMMA CacheInvStep ==
  ASSUME TypeOK, InLoop, CacheInv, [Next]_vars
  PROVE  CacheInv'
  <1> SUFFICES ASSUME "lag" \notin Faults, NEW w \in VM, NEW e \in Disk, job'[w][e].st # "none"
               PROVE  job'[w][e].cache = "present"
    BY DEF CacheInv
  <1>1. job[w][e].st # "none" => job[w][e].cache = "present"
    BY DEF CacheInv
  <1>2. CASE job' = job
    BY <1>1, <1>2
  <1>3. CASE RoundPromote
    <2>1. PICK v \in VM :
            /\ OnlyAt(v)
            /\ \E gone \in SUBSET loc[v].jobs :
                  job'[v] = [d \in Disk |-> IF d \in gone THEN NoJob ELSE job[v][d]]
      BY <1>3, PromoteEffect
    <2>2. job'[w][e] = job[w][e] \/ job'[w][e] = NoJob
      BY <2>1 DEF OnlyAt
    <2> QED
      BY <1>1, <2>2 DEF NoJob
  <1>4. ASSUME NEW d \in Disk, CreateJob(d) PROVE job'[w][e].cache = "present"
    <2>1. PICK v \in VM :
           /\ \A x \in VM : x # v => job'[x] = job[x]
           /\ \A x \in Disk : x # d => job'[v][x] = job[v][x]
           /\ job' = job \/ job'[v][d].cache = "present"
      BY <1>4, NewJobEffect
    <2> QED
      BY <1>1, <2>1
  <1>5. CASE Environment
    BY <1>1, <1>5, EnvironmentEffect
  <1> QED
    BY <1>2, <1>3, <1>4, <1>5, JobFrame

\* Once the cache has hidden an active Job from a promotion, that stays so ...
LEMMA MissedStays ==
  ASSUME TypeOK, [Next]_vars
  PROVE  /\ missed => missed'
         /\ missed' = missed \/ RoundPromote
  <1>1. CASE PreSync \/ Cutover
    BY <1>1 DEF PreSync, PreSyncSnapshot, PreSyncImage, PreSyncImaged,
       createDataVolumesFromTempImages, PreSyncPatch, handleWarmSyncing, Cutover,
       handleReadyForCutover, WarmCutoverShutdown, WarmCutoverOff, dataVars
  <1>2. CASE runDeltaRound
    <2>1. ASSUME NEW d \in Disk, CreateConfigMap(d) \/ CreateJob(d) PROVE missed' = missed
      BY <2>1 DEF CreateConfigMap, CreateJob
    <2>2. CASE \/ RoundSkip \/ RoundConverge \/ RoundZero \/ RoundStart \/ RoundDeltaError
               \/ RoundSpawned \/ RoundWait \/ RoundJobFailed \/ RoundPatch \/ ConvergedPatch
               \/ FinalCleanup \/ FinalPatch
      BY <2>2 DEF RoundSkip, RoundConverge, RoundZero, RoundStart, RoundDeltaError, RoundSpawned,
         RoundWait, RoundJobFailed, RoundPatch, ConvergedPatch, FinalCleanup, FinalPatch, dataVars
    <2>3. CASE RoundPromote
      BY <2>3 DEF RoundPromote
    <2> QED
      BY <1>2, <2>1, <2>2, <2>3 DEF runDeltaRound
  <1>3. CASE PrismError \/ AbortPass \/ UNCHANGED vars
    BY <1>3 DEF PrismError, AbortPass, vars, dataVars
  <1>4. CASE Environment
    <2>1. ASSUME NEW v \in VM, NEW p \in strays[v], RunStray(v, p) PROVE missed' = missed
      BY <2>1 DEF RunStray, StrayEnds, StrayWrite
    <2>2. CASE \/ Approve
               \/ \E v \in VM : PowerOff(v)
               \/ \E v \in VM, d \in Disk, b \in Block : GuestWrite(v, d, b)
      BY <2>2 DEF Approve, PowerOff, GuestWrite, dataVars
    <2>3. ASSUME NEW v \in VM, NEW d \in Disk,
                 \/ CDIImport(v, d) \/ RunJob(v, d) \/ JobFail(v, d) \/ JobExpire(v, d)
                 \/ CacheSync(v, d)
          PROVE  missed' = missed
      BY <2>3 DEF CDIImport, RunJob, JobWrite, JobComplete, JobFail, JobExpire, CacheSync
    <2> QED
      BY <1>4, <2>1, <2>2, <2>3 DEF Environment
  <1> QED
    BY <1>1, <1>2, <1>3, <1>4 DEF Next, Reconcile

\* ... and otherwise the Jobs of a round that is promoted are not active.
LEMMA PromotedJobs ==
  ASSUME RoundPromote, ~missed'
  PROVE  ~missed /\ \A d \in loc[i].jobs : job[i][d].st # "active"
  BY DEF RoundPromote

\* If the cache never lags, it hides no Job from a promotion.
MissedInv == "lag" \notin Faults => ~missed

LEMMA MissedInvStep ==
  ASSUME TypeOK, InLoop, CacheInv, MissedInv, [Next]_vars
  PROVE  MissedInv'
  <1> SUFFICES ASSUME "lag" \notin Faults PROVE ~missed'
    BY DEF MissedInv
  <1>0. ~missed
    BY DEF MissedInv
  <1>1. CASE RoundPromote
    <2>1. PICK v \in VM :
            /\ v = i
            /\ \A d \in loc[v].jobs : job[v][d].st = "active" => job[v][d].cache # "present"
      BY <1>1, PromoteEffect
    <2>2. loc[v].jobs \subseteq Disk
      BY DEF TypeOK, VMStatus
    <2>3. \A d \in loc[i].jobs : job[i][d].st # "active"
      BY <2>1, <2>2 DEF CacheInv
    <2> QED
      BY <1>0, <1>1, <2>3 DEF RoundPromote
  <1>2. CASE ~RoundPromote
    BY <1>0, <1>2, MissedStays
  <1> QED
    BY <1>1, <1>2

\* A Job that the pass which promotes its round will see if it is active.
Reading(v, d) == ~missed /\ job[v][d].st = "active"

\* UUIDs are handed out in order, and none twice.
IdAt(v) ==
    /\ loc[v].last.id <= uuids[v] /\ loc[v].pending.id <= uuids[v]
    /\ st[v].last.id <= uuids[v] /\ st[v].pending.id <= uuids[v]
    /\ \A x \in live[v] : 1 <= x /\ x <= uuids[v]
    /\ \A d \in Disk : job[v][d].st = "active" => /\ 1 <= job[v][d].snap
                                                  /\ job[v][d].snap <= uuids[v]

\* The snapshot of an active Job is not one a status is about to delete: it is
\* not the base, and the pending one only if the status knows the Job.
KnownBy(s, v) ==
    \A d \in Disk : Reading(v, d) =>
        /\ job[v][d].snap # s.last.id
        /\ job[v][d].snap = s.pending.id => d \in s.jobs /\ s.phase # "FinalDeltaDone"

\* The snapshot for which the pass creates Jobs is new.
NewAt(v) ==
    pc = "spawn" /\ v = i => /\ loc[v].pending.id # 0 /\ loc[v].pending.id # loc[v].last.id
                             /\ loc[v].pending.id # st[v].last.id
                             /\ loc[v].pending.id # st[v].pending.id
                             /\ loc[v].pending.id \in live[v]

SourceAt(v) ==
    /\ KnownBy(loc[v], v) /\ KnownBy(st[v], v) /\ NewAt(v)
    /\ \A d \in Disk : Reading(v, d) => job[v][d].snap \in live[v]

SourceInv == \A v \in VM : IdAt(v) /\ SourceAt(v)

LEMMA SourceInvInit == Init => SourceInv
  <1> SUFFICES ASSUME Init, NEW v \in VM PROVE IdAt(v) /\ SourceAt(v)
    BY DEF SourceInv
  <1>1. /\ loc[v] = st[v] /\ st[v].last.id = 0 /\ st[v].pending.id = 0
        /\ live[v] = {} /\ uuids[v] = 0
        /\ \A d \in Disk : job[v][d].st = "none"
    BY DEF Init, NoCopy, NoJob
  <1>2. pc = "loop"
    BY DEF Init
  <1> QED
    BY <1>1, <1>2 DEF IdAt, SourceAt, NewAt, KnownBy, Reading

\* A step that does not touch VM v, nor begins to create its Jobs.
LEMMA SourceKept ==
  ASSUME NEW v \in VM, IdAt(v), SourceAt(v),
         loc'[v].last = loc[v].last, loc'[v].pending = loc[v].pending, loc'[v].jobs = loc[v].jobs,
         loc'[v].phase = loc[v].phase \/ loc'[v].phase # "FinalDeltaDone",
         st'[v] = st[v], live'[v] = live[v], job'[v] = job[v],
         uuids[v] \in Nat, uuids'[v] = uuids[v] \/ uuids'[v] = uuids[v] + 1,
         loc[v] \in VMStatus, st[v] \in VMStatus, live[v] \subseteq Nat, job[v] \in [Disk -> Job],
         (pc = "spawn" /\ v = i)' => pc = "spawn" /\ v = i, missed => missed'
  PROVE  IdAt(v)' /\ SourceAt(v)'
  <1>1. /\ loc[v].last.id \in Nat /\ loc[v].pending.id \in Nat
        /\ st[v].last.id \in Nat /\ st[v].pending.id \in Nat
        /\ \A d \in Disk : job[v][d].snap \in Nat
    BY DEF VMStatus, Copy, Job
  <1>2. IdAt(v)'
    BY <1>1 DEF IdAt
  <1>3. SourceAt(v)'
    BY DEF SourceAt, NewAt, KnownBy, Reading
  <1> QED
    BY <1>2, <1>3

LEMMA SourceTypes ==
  ASSUME TypeOK, NEW v \in VM
  PROVE  /\ loc[v] \in VMStatus /\ st[v] \in VMStatus
         /\ loc[v].last.id \in Nat /\ loc[v].pending.id \in Nat
         /\ st[v].last.id \in Nat /\ st[v].pending.id \in Nat
         /\ uuids[v] \in Nat /\ live[v] \subseteq Nat
         /\ job[v] \in [Disk -> Job] /\ \A d \in Disk : job[v][d].snap \in Nat
  BY DEF TypeOK, VMStatus, Copy, Job

LEMMA SourceInvStep ==
  ASSUME TypeOK, InLoop, StepInv, DoneInv, SourceInv, [Next]_vars
  PROVE  SourceInv'
  <1> SUFFICES ASSUME NEW w \in VM PROVE IdAt(w)' /\ SourceAt(w)'
    BY DEF SourceInv
  <1>0. /\ loc[w] \in VMStatus /\ st[w] \in VMStatus
        /\ loc[w].last.id \in Nat /\ loc[w].pending.id \in Nat
        /\ st[w].last.id \in Nat /\ st[w].pending.id \in Nat
        /\ uuids[w] \in Nat /\ live[w] \subseteq Nat
        /\ job[w] \in [Disk -> Job] /\ \A d \in Disk : job[w][d].snap \in Nat
    BY SourceTypes
  <1>m. missed => missed'
    BY MissedStays
  <1>a. IdAt(w) /\ SourceAt(w)
    BY DEF SourceInv
  <1>1. CASE PreSyncSnapshot
    <2>1. PICK v \in VM :
            /\ v = i /\ OnlyAt(v) /\ pc' = "image"
            /\ loc'[v].last.id = uuids[v] + 1
            /\ loc'[v].pending = loc[v].pending /\ loc'[v].jobs = loc[v].jobs
            /\ loc'[v].phase = loc[v].phase
            /\ live'[v] = live[v] \cup {uuids[v] + 1} /\ uuids'[v] = uuids[v] + 1
            /\ job'[v] = job[v]
      BY <1>1, PreSyncSnapshotEffect
    <2>2. CASE w = v
      <3>1. IdAt(w)'
        BY <1>0, <1>a, <2>1, <2>2 DEF IdAt, OnlyAt
      <3>2. SourceAt(w)'
        BY <1>0, <1>a, <2>1, <2>2, <1>m DEF IdAt, SourceAt, KnownBy, Reading, NewAt, OnlyAt
      <3> QED
        BY <3>1, <3>2
    <2>3. CASE w # v
      BY <1>0, <1>a, <2>1, <2>3, <1>m, SourceKept DEF OnlyAt
    <2> QED
      BY <2>2, <2>3
  <1>2. CASE PreSyncImage
    BY <1>0, <1>a, <1>2, PreSyncImageEffect, <1>m, SourceKept DEF OnlyAt
  <1>3. CASE \/ PreSyncImaged \/ createDataVolumesFromTempImages \/ RoundSkip \/ RoundWait
             \/ RoundSpawned \/ \E d \in Disk : CreateConfigMap(d)
    <2>1. /\ UNCHANGED <<st, live, uuids, job>>
          /\ loc'[w].last = loc[w].last /\ loc'[w].pending = loc[w].pending
          /\ loc'[w].jobs = loc[w].jobs
          /\ loc'[w].phase = loc[w].phase \/ loc'[w].phase # "FinalDeltaDone"
          /\ pc' = "spawn" => pc = "spawn" /\ i' = i
      BY <1>3, MoveEffect
    <2> QED
      BY <1>0, <1>a, <2>1, <1>m, SourceKept
  <1>4. CASE RoundConverge
    <2>1. PICK v \in VM :
            /\ v = i /\ OnlyAt(v) /\ pc' = "loop"
            /\ loc'[v].last.id = uuids[v] + 1
            /\ loc'[v].pending = loc[v].pending /\ loc'[v].jobs = loc[v].jobs
            /\ loc'[v].phase = "DeltaConverged"
            /\ \E bad \in SUBSET {loc[v].last.id} :
                  live'[v] = (live[v] \ ({loc[v].last.id} \ bad)) \cup {uuids[v] + 1}
            /\ uuids'[v] = uuids[v] + 1 /\ job'[v] = job[v]
      BY <1>4, ConvergeEffect
    <2>2. CASE w = v
      <3>1. IdAt(w)'
        BY <1>0, <1>a, <2>1, <2>2 DEF IdAt, OnlyAt
      <3>2. SourceAt(w)'
        BY <1>0, <1>a, <2>1, <2>2, <1>m DEF IdAt, SourceAt, KnownBy, Reading, NewAt, OnlyAt
      <3> QED
        BY <3>1, <3>2
    <2>3. CASE w # v
      BY <1>0, <1>a, <2>1, <2>3, <1>m, SourceKept DEF OnlyAt
    <2> QED
      BY <2>2, <2>3
  <1>5. CASE RoundZero
    <2>1. PICK v \in VM :
            /\ v = i /\ OnlyAt(v) /\ pc' = "loop"
            /\ loc'[v].pending.id = uuids[v] + 1
            /\ loc'[v].last = loc[v].last /\ loc'[v].jobs = loc[v].jobs
            /\ live'[v] = live[v] \cup {uuids[v] + 1}
            /\ uuids'[v] = uuids[v] + 1 /\ job'[v] = job[v]
      BY <1>5, ZeroEffect
    <2>2. CASE w = v
      <3>1. IdAt(w)'
        BY <1>0, <1>a, <2>1, <2>2 DEF IdAt, OnlyAt
      <3>2. SourceAt(w)'
        BY <1>0, <1>a, <2>1, <2>2, <1>m DEF IdAt, SourceAt, KnownBy, Reading, NewAt, OnlyAt
      <3> QED
        BY <3>1, <3>2
    <2>3. CASE w # v
      BY <1>0, <1>a, <2>1, <2>3, <1>m, SourceKept DEF OnlyAt
    <2> QED
      BY <2>2, <2>3
  <1>6. CASE RoundStart
    <2>1. PICK v \in VM :
            /\ v = i /\ OnlyAt(v) /\ i' = i
            /\ loc'[v].pending.id = uuids[v] + 1
            /\ loc'[v].last = loc[v].last /\ loc'[v].jobs = {}
            /\ loc'[v].phase = loc[v].phase
            /\ live'[v] = live[v] \cup {uuids[v] + 1}
            /\ uuids'[v] = uuids[v] + 1 /\ job'[v] = job[v]
      BY <1>6, StartEffect
    <2>2. CASE w = v
      <3>1. IdAt(w)'
        BY <1>0, <1>a, <2>1, <2>2 DEF IdAt, OnlyAt
      <3>2. SourceAt(w)'
        BY <1>0, <1>a, <2>1, <2>2, <1>m DEF IdAt, SourceAt, KnownBy, Reading, NewAt, OnlyAt
      <3> QED
        BY <3>1, <3>2
    <2>3. CASE w # v
      BY <1>0, <1>a, <2>1, <2>3, <1>m, SourceKept DEF OnlyAt
    <2> QED
      BY <2>2, <2>3
  <1>7. CASE \E d \in Disk : CreateJob(d)
    <2>1. PICK d \in Disk : CreateJob(d)
      BY <1>7
    <2>2. PICK v \in VM :
            /\ v = i /\ OnlyAt(v) /\ pc = "spawn" /\ pc' = "spawn" /\ i' = i
            /\ loc'[v].last = loc[v].last /\ loc'[v].pending = loc[v].pending
            /\ loc'[v].jobs = loc[v].jobs \cup {d} /\ loc'[v].phase = loc[v].phase
            /\ live'[v] = live[v] /\ uuids'[v] = uuids[v]
            /\ \A e \in Disk : e # d => job'[v][e] = job[v][e]
            /\ \/ job'[v][d] = job[v][d]
               \/ job'[v][d].st = "active" /\ job'[v][d].snap = loc[v].pending.id
      BY <2>1, CreateJobEffect
    <2>3. CASE w = v
      <3>1. loc[w].phase # "FinalDeltaDone"
        BY <2>2, <2>3 DEF StepInv, DoneInv, doneMark, final
      <3>2. loc[w].pending.id # 0 /\ loc[w].pending.id \in live[w]
        BY <1>a, <2>2, <2>3 DEF SourceAt, NewAt
      <3>3. IdAt(w)'
        BY <1>0, <1>a, <2>2, <2>3, <3>2 DEF IdAt, OnlyAt
      <3>4. SourceAt(w)'
        <4>1. ASSUME NEW e \in Disk, Reading(w, e)'
              PROVE  /\ job'[w][e].snap # loc'[w].last.id
                     /\ job'[w][e].snap = loc'[w].pending.id => e \in loc'[w].jobs /\ loc'[w].phase # "FinalDeltaDone"
                     /\ job'[w][e].snap # st'[w].last.id
                     /\ job'[w][e].snap = st'[w].pending.id => e \in st'[w].jobs /\ st'[w].phase # "FinalDeltaDone"
                     /\ job'[w][e].snap \in live'[w]
          <5>1. CASE e # d \/ job'[v][d] = job[v][d]
            <6>1. job'[w][e] = job[w][e]
              BY <2>2, <2>3, <5>1
            <6> QED
              BY <1>a, <2>2, <2>3, <4>1, <6>1, <1>m DEF SourceAt, KnownBy, Reading, OnlyAt
          <5>2. CASE e = d /\ job'[v][d].snap = loc[v].pending.id
            BY <1>a, <2>2, <2>3, <3>1, <3>2, <5>2 DEF SourceAt, NewAt, OnlyAt
          <5> QED
            BY <2>2, <5>1, <5>2
        <4>2. NewAt(w)'
          BY <1>a, <2>2, <2>3 DEF SourceAt, NewAt, OnlyAt
        <4> QED
          BY <4>1, <4>2, <1>m DEF SourceAt, KnownBy, Reading
      <3> QED
        BY <3>3, <3>4
    <2>4. CASE w # v
      BY <1>0, <1>a, <2>2, <2>4, <1>m, SourceKept DEF OnlyAt
    <2> QED
      BY <2>3, <2>4
  <1>8. CASE RoundPromote
    <2>1. PICK v \in VM :
            /\ v = i /\ OnlyAt(v) /\ pc' = "loop"
            /\ loc'[v].last = loc[v].pending /\ loc'[v].pending = NoCopy
            /\ \E bad \in SUBSET {loc[v].last.id} : live'[v] = live[v] \ ({loc[v].last.id} \ bad)
            /\ uuids'[v] = uuids[v]
            /\ \E gone \in SUBSET loc[v].jobs :
                  job'[v] = [d \in Disk |-> IF d \in gone THEN NoJob ELSE job[v][d]]
      BY <1>8, PromoteEffect
    <2>2. NoCopy.id = 0 /\ NoJob.st = "none"
      BY DEF NoCopy, NoJob
    <2>3. ASSUME NEW d \in Disk, job'[v][d].st = "active"
          PROVE  job'[v][d] = job[v][d] /\ (~missed' => d \notin loc[v].jobs)
      <3>1. job'[v][d] = job[v][d]
        BY <2>1, <2>2, <2>3
      <3> QED
        BY <1>8, <2>1, <2>3, <3>1, PromotedJobs
    <2>4. CASE w = v
      <3>1. IdAt(w)'
        BY <1>0, <1>a, <2>1, <2>2, <2>3, <2>4 DEF IdAt, OnlyAt
      <3>2. SourceAt(w)'
        BY <1>0, <1>a, <2>1, <2>2, <2>3, <2>4, <1>m DEF IdAt, SourceAt, KnownBy, Reading, NewAt, OnlyAt
      <3> QED
        BY <3>1, <3>2
    <2>5. CASE w # v
      BY <1>0, <1>a, <2>1, <2>5, <1>m, SourceKept DEF OnlyAt
    <2> QED
      BY <2>4, <2>5
  <1>9. CASE FinalCleanup
    <2>1. /\ phase = "WarmFinalDelta" /\ pc' = "patch" /\ i = NumVM + 1 /\ allDone
          /\ UNCHANGED <<st, loc, uuids, job>>
          /\ live[w] \ {loc[w].last.id, loc[w].pending.id} \subseteq live'[w]
          /\ live'[w] \subseteq live[w]
      BY <1>9, FinalCleanupEffect
    <2>2. loc[w].phase = "FinalDeltaDone"
      BY <2>1, ConstantsAssumption DEF DoneInv, doneMark, final, VM
    <2>3. IdAt(w)'
      BY <1>a, <2>1 DEF IdAt
    <2>4. SourceAt(w)'
      BY <1>a, <2>1, <2>2, <1>m DEF SourceAt, KnownBy, Reading, NewAt
    <2> QED
      BY <2>3, <2>4
  <1>10. CASE AbortPass \/ PrismError \/ RoundJobFailed
    <2>1. pc' = "loop" /\ loc' = st /\ UNCHANGED <<st, live, uuids, job>>
      BY <1>10, LostEffect
    <2> QED
      BY <1>a, <2>1, <1>m DEF IdAt, SourceAt, KnownBy, Reading, NewAt
  <1>11. CASE RoundDeltaError
    <2>1. PICK v \in VM :
            /\ pc' = "loop" /\ loc' = st /\ st' = st /\ UNCHANGED job
            /\ \A x \in VM : x # v => live'[x] = live[x] /\ uuids'[x] = uuids[x]
            /\ live'[v] = live[v] \cup {uuids[v] + 1} /\ uuids'[v] = uuids[v] + 1
      BY <1>11, DeltaErrorEffect
    <2>2. /\ live[w] \subseteq live'[w]
          /\ uuids'[w] = uuids[w] \/ uuids'[w] = uuids[w] + 1
          /\ \A x \in live'[w] : x \in live[w] \/ (x = uuids[w] + 1 /\ uuids'[w] = uuids[w] + 1)
      <3>1. CASE w = v
        BY <2>1, <3>1
      <3>2. CASE w # v
        BY <2>1, <3>2
      <3> QED
        BY <3>1, <3>2
    <2>3. IdAt(w)'
      BY <1>0, <1>a, <2>1, <2>2 DEF IdAt
    <2>4. SourceAt(w)'
      BY <1>a, <2>1, <2>2, <1>m DEF SourceAt, KnownBy, Reading, NewAt
    <2> QED
      BY <2>3, <2>4
  <1>12. CASE PreSyncPatch \/ RoundPatch \/ ConvergedPatch \/ FinalPatch
    <2>1. pc' = "loop" /\ st' = loc /\ loc' = loc /\ UNCHANGED <<live, uuids, job>>
      BY <1>12, PatchEffect
    <2> QED
      BY <1>a, <2>1, <1>m DEF IdAt, SourceAt, KnownBy, Reading, NewAt
  <1>13. CASE \/ handleWarmSyncing \/ handleReadyForCutover \/ WarmCutoverShutdown
              \/ WarmCutoverOff
    <2>1. /\ pc' = "loop" /\ loc' = st' /\ UNCHANGED <<live, uuids, job>>
          /\ st'[w].last = st[w].last /\ st'[w].pending = st[w].pending /\ st'[w].jobs = st[w].jobs
          /\ st'[w].phase = st[w].phase \/ st'[w].phase # "FinalDeltaDone"
      BY <1>13, MarkEffect
    <2> QED
      BY <1>a, <2>1, <1>m DEF IdAt, SourceAt, KnownBy, Reading, NewAt
  <1>14. CASE Environment \/ UNCHANGED vars
    <2>1. /\ UNCHANGED <<st, loc, pc, i, live, uuids>>
          /\ \A d \in Disk : job'[w][d].st = "active" => /\ job[w][d].st = "active"
                                                         /\ job'[w][d].snap = job[w][d].snap
      BY <1>14, EnvironmentEffect DEF passVars
    <2> QED
      BY <1>a, <2>1, <1>m DEF IdAt, SourceAt, KnownBy, Reading, NewAt
  <1> QED
    BY <1>1, <1>2, <1>3, <1>4, <1>5, <1>6, <1>7, <1>8, <1>9, <1>10, <1>11, <1>12, <1>13, <1>14
    DEF Next, Reconcile, PreSync, runDeltaRound, Cutover

-----------------------------------------------------------------------------
(***************************************************************************)
(* Snapshots that were lost.                                               *)
(***************************************************************************)

\* Between the passes that have an effect on the VMs nothing is pending.
IdleInv ==
    phase \notin {"WarmPreSync", "WarmDeltaSync", "WarmFinalDelta"} =>
        pc = "loop" /\ i = 1 /\ loc = st

LEMMA IdleInvStep ==
  ASSUME TypeOK, InLoop, StepInv, IdleInv, [Next]_vars
  PROVE  IdleInv'
  <1>1. CASE PreSyncSnapshot
    BY <1>1, PreSyncSnapshotEffect DEF IdleInv, OnlyAt
  <1>2. CASE PreSyncImage
    BY <1>2, PreSyncImageEffect DEF IdleInv, OnlyAt
  <1>3. CASE \/ PreSyncImaged \/ createDataVolumesFromTempImages \/ RoundSkip \/ RoundWait
             \/ RoundSpawned \/ \E d \in Disk : CreateConfigMap(d)
    BY <1>3 DEF StepInv, IdleInv, PreSyncImaged, createDataVolumesFromTempImages, RoundSkip,
                RoundWait, RoundPending, AtVM, RoundSpawned, CreateConfigMap, migVars
  <1>4. CASE RoundConverge
    BY <1>4, ConvergeEffect DEF IdleInv, OnlyAt
  <1>5. CASE RoundZero
    BY <1>5, ZeroEffect DEF IdleInv, OnlyAt
  <1>6. CASE RoundStart
    BY <1>6, StartEffect DEF IdleInv, OnlyAt
  <1>7. CASE \E d \in Disk : CreateJob(d)
    BY <1>7, CreateJobEffect DEF IdleInv, StepInv, OnlyAt
  <1>8. CASE RoundPromote
    BY <1>8, PromoteEffect DEF IdleInv, OnlyAt
  <1>9. CASE FinalCleanup
    BY <1>9, FinalCleanupEffect DEF IdleInv
  <1>10. CASE AbortPass \/ PrismError \/ RoundJobFailed
    BY <1>10, LostEffect DEF IdleInv
  <1>11. CASE RoundDeltaError
    BY <1>11, DeltaErrorEffect DEF IdleInv
  <1>12. CASE PreSyncPatch \/ RoundPatch \/ ConvergedPatch \/ FinalPatch
    BY <1>12, PatchEffect DEF IdleInv
  <1>13. CASE \/ handleWarmSyncing \/ handleReadyForCutover \/ WarmCutoverShutdown
              \/ WarmCutoverOff
    BY <1>13, MarkEffect DEF IdleInv
  <1>14. CASE Environment \/ UNCHANGED vars
    BY <1>14, EnvironmentEffect DEF IdleInv, passVars
  <1> QED
    BY <1>1, <1>2, <1>3, <1>4, <1>5, <1>6, <1>7, <1>8, <1>9, <1>10, <1>11, <1>12, <1>13, <1>14
    DEF Next, Reconcile, PreSync, runDeltaRound, Cutover

\* The snapshots of v that a status does not name.
Lost(s, v) == live[v] \ {s.last.id, s.pending.id}

\* The pass has not been at VM v yet.
Ahead(v) == (pc = "loop" /\ v >= i) \/ (pc \in {"image", "spawn"} /\ v > i)

\* A pass adds at most one snapshot of a VM to those that are lost if its
\* statuses are not persisted.
LeakAt(v) ==
    /\ IsFiniteSet(live[v])
    /\ Cardinality(Lost(loc[v], v)) <= aborts + (IF phase = "Failed" THEN 1 ELSE 0)
    /\ \E x : Lost(st[v], v) \subseteq Lost(loc[v], v) \cup {x}
    /\ Ahead(v) => loc[v].last.id = st[v].last.id /\ loc[v].pending.id = st[v].pending.id

LeakInv == \A v \in VM : LeakAt(v)

LEMMA OneMore ==
  ASSUME NEW S, NEW T, NEW x, IsFiniteSet(S), T \subseteq S \cup {x}
  PROVE  /\ IsFiniteSet(T) /\ Cardinality(T) \in Nat /\ Cardinality(S) \in Nat
         /\ Cardinality(T) <= Cardinality(S) + 1
  <1>1. Cardinality(S) \in Nat
    BY FS_CardinalityType
  <1>2. /\ IsFiniteSet(S \cup {x})
        /\ Cardinality(S \cup {x}) = Cardinality(S) \/ Cardinality(S \cup {x}) = Cardinality(S) + 1
    BY FS_AddElement
  <1>3. T \in SUBSET (S \cup {x})
    OBVIOUS
  <1>4. IsFiniteSet(T) /\ Cardinality(T) <= Cardinality(S \cup {x})
    BY <1>2, <1>3, FS_Subset
  <1>5. Cardinality(T) \in Nat
    BY <1>4, FS_CardinalityType
  <1> QED
    BY <1>1, <1>2, <1>4, <1>5

LEMMA LeakInvInit == Init => LeakInv /\ IdleInv
  <1> SUFFICES ASSUME Init PROVE LeakInv /\ IdleInv
    OBVIOUS
  <1>1. ASSUME NEW v \in VM PROVE LeakAt(v)
    <2>1. live[v] = {} /\ loc[v] = st[v] /\ aborts = 0 /\ phase = "WarmPreSync"
      BY DEF Init
    <2>2. Lost(loc[v], v) = {} /\ Lost(st[v], v) = {}
      BY <2>1 DEF Lost
    <2>3. IsFiniteSet({}) /\ Cardinality({}) = 0
      BY FS_EmptySet
    <2> QED
      BY <2>1, <2>2, <2>3 DEF LeakAt
  <1>2. IdleInv
    BY DEF Init, IdleInv
  <1> QED
    BY <1>1, <1>2 DEF LeakInv

\* A step of the pass that does not change what loc leaves unnamed.
LEMMA LeakKept ==
  ASSUME NEW v \in VM, LeakAt(v), NEW n, live'[v] \subseteq live[v] \cup {n},
         Lost(loc[v], v)' = Lost(loc[v], v),
         NEW x, Lost(st[v], v)' \subseteq Lost(loc[v], v) \cup {x},
         UNCHANGED <<phase, aborts>>,
         Ahead(v)' => /\ loc'[v].last.id = st'[v].last.id
                      /\ loc'[v].pending.id = st'[v].pending.id
  PROVE  LeakAt(v)'
  <1>1. IsFiniteSet(live'[v])
    BY OneMore DEF LeakAt
  <1> QED
    BY <1>1 DEF LeakAt

\* A step that is not about VM v.
LEMMA LeakElsewhere ==
  ASSUME NEW v \in VM, LeakAt(v), live'[v] = live[v], st'[v] = st[v],
         loc'[v].last = loc[v].last, loc'[v].pending = loc[v].pending,
         UNCHANGED <<phase, aborts>>, Ahead(v)' => Ahead(v)
  PROVE  LeakAt(v)'
  <1>1. Lost(loc[v], v)' = Lost(loc[v], v) /\ Lost(st[v], v)' = Lost(st[v], v)
    BY DEF Lost
  <1> QED
    BY <1>1 DEF LeakAt

LEMMA LeakInvStep ==
  ASSUME "delete" \notin Faults, TypeOK, InLoop, StepInv, IdleInv, SourceInv, LeakInv, [Next]_vars
  PROVE  LeakInv'
  <1> SUFFICES ASSUME NEW w \in VM PROVE LeakAt(w)'
    BY DEF LeakInv
  <1>0. /\ loc[w].last.id \in Nat /\ loc[w].pending.id \in Nat
        /\ st[w].last.id \in Nat /\ st[w].pending.id \in Nat
        /\ uuids[w] \in Nat /\ live[w] \subseteq Nat /\ w \in Int /\ i \in Int /\ w >= 1
        /\ 0 \notin live[w] /\ uuids[w] + 1 \notin live[w] /\ aborts \in Nat
        /\ loc[w].last.id # uuids[w] + 1 /\ loc[w].pending.id # uuids[w] + 1
        /\ st[w].last.id # uuids[w] + 1 /\ st[w].pending.id # uuids[w] + 1
    <2>1. /\ loc[w].last.id \in Nat /\ loc[w].pending.id \in Nat
          /\ st[w].last.id \in Nat /\ st[w].pending.id \in Nat
          /\ uuids[w] \in Nat /\ live[w] \subseteq Nat
      BY SourceTypes
    <2>2. w \in Int /\ i \in Int /\ w >= 1 /\ aborts \in Nat
      BY ConstantsAssumption DEF TypeOK, VM
    <2> QED
      BY <2>1, <2>2 DEF SourceInv, IdAt
  <1>a. LeakAt(w)
    BY DEF LeakInv
  <1>1. CASE PreSyncSnapshot
    <2>1. PICK v \in VM :
            /\ v = i /\ OnlyAt(v) /\ pc = "loop" /\ pc' = "image" /\ i' = i
            /\ loc[v].last.id = 0 /\ loc'[v].last.id = uuids[v] + 1
            /\ loc'[v].pending = loc[v].pending
            /\ live'[v] = live[v] \cup {uuids[v] + 1}
      BY <1>1, PreSyncSnapshotEffect
    <2>2. CASE w = v
      <3>1. Lost(loc[w], w)' = Lost(loc[w], w)
        BY <1>0, <2>1, <2>2 DEF Lost
      <3>2. Lost(st[w], w) = Lost(loc[w], w)
        BY <1>0, <1>a, <2>1, <2>2 DEF LeakAt, Lost, Ahead
      <3>3. Lost(st[w], w)' \subseteq Lost(st[w], w) \cup {uuids[w] + 1}
        BY <2>1, <2>2 DEF Lost, OnlyAt
      <3>4. ~Ahead(w)'
        BY <1>0, <2>1, <2>2 DEF Ahead
      <3> QED
        BY <1>a, <2>1, <2>2, <3>1, <3>2, <3>3, <3>4, LeakKept DEF OnlyAt
    <2>3. CASE w # v
      BY <1>0, <1>a, <2>1, <2>3, LeakElsewhere DEF OnlyAt, Ahead
    <2> QED
      BY <2>2, <2>3
  <1>2. CASE PreSyncImage
    <2>1. PICK v \in VM :
            /\ v = i /\ OnlyAt(v) /\ pc = "image" /\ pc' = "loop" /\ i' = i + 1
            /\ loc'[v].last = loc[v].last /\ loc'[v].pending = loc[v].pending
            /\ live'[v] = live[v]
      BY <1>2, PreSyncImageEffect
    <2>2. /\ loc'[w].last = loc[w].last /\ loc'[w].pending = loc[w].pending
          /\ live'[w] = live[w] /\ st'[w] = st[w] /\ UNCHANGED <<phase, aborts>>
      BY <2>1 DEF OnlyAt
    <2>3. Ahead(w)' => Ahead(w)
      BY <1>0, <2>1 DEF Ahead
    <2> QED
      BY <1>a, <2>2, <2>3, LeakElsewhere
  <1>3. CASE \/ PreSyncImaged \/ createDataVolumesFromTempImages \/ RoundSkip \/ RoundWait
             \/ RoundSpawned \/ \E d \in Disk : CreateConfigMap(d)
    <2>1. /\ UNCHANGED <<phase, st, aborts, live>>
          /\ loc'[w].last = loc[w].last /\ loc'[w].pending = loc[w].pending
          /\ \/ pc' = "dvs"
             \/ pc \in {"loop", "spawn"} /\ pc' = "loop" /\ i' = i + 1
             \/ pc = "spawn" /\ pc' = "spawn" /\ i' = i
      BY <1>3, MoveEffect
    <2>2. Ahead(w)' => Ahead(w)
      BY <1>0, <2>1 DEF Ahead
    <2> QED
      BY <1>a, <2>1, <2>2, LeakElsewhere
  <1>4. CASE RoundConverge
    <2>1. PICK v \in VM :
            /\ v = i /\ OnlyAt(v) /\ pc = "loop" /\ pc' = "loop" /\ i' = i + 1
            /\ loc[v].pending.id = 0
            /\ loc'[v].last.id = uuids[v] + 1 /\ loc'[v].pending = loc[v].pending
            /\ live'[v] = (live[v] \ {loc[v].last.id}) \cup {uuids[v] + 1}
      BY <1>4, ConvergeEffect
    <2>2. CASE w = v
      <3>1. Lost(loc[w], w)' = Lost(loc[w], w)
        BY <1>0, <2>1, <2>2 DEF Lost
      <3>2. Lost(st[w], w) = Lost(loc[w], w)
        BY <1>0, <1>a, <2>1, <2>2 DEF LeakAt, Lost, Ahead
      <3>3. Lost(st[w], w)' \subseteq Lost(st[w], w) \cup {uuids[w] + 1}
        BY <2>1, <2>2 DEF Lost, OnlyAt
      <3>4. ~Ahead(w)'
        BY <1>0, <2>1, <2>2 DEF Ahead
      <3> QED
        BY <1>a, <2>1, <2>2, <3>1, <3>2, <3>3, <3>4, LeakKept DEF OnlyAt
    <2>3. CASE w # v
      BY <1>0, <1>a, <2>1, <2>3, LeakElsewhere DEF OnlyAt, Ahead
    <2> QED
      BY <2>2, <2>3
  <1>5. CASE RoundZero \/ RoundStart
    <2>1. PICK v \in VM :
            /\ v = i /\ OnlyAt(v) /\ pc = "loop"
            /\ (pc' = "loop" /\ i' = i + 1) \/ (pc' = "spawn" /\ i' = i)
            /\ loc[v].pending.id = 0
            /\ loc'[v].pending.id = uuids[v] + 1 /\ loc'[v].last = loc[v].last
            /\ live'[v] = live[v] \cup {uuids[v] + 1}
      BY <1>5, ZeroEffect, StartEffect
    <2>2. CASE w = v
      <3>1. Lost(loc[w], w)' = Lost(loc[w], w)
        BY <1>0, <2>1, <2>2 DEF Lost
      <3>2. Lost(st[w], w) = Lost(loc[w], w)
        BY <1>0, <1>a, <2>1, <2>2 DEF LeakAt, Lost, Ahead
      <3>3. Lost(st[w], w)' \subseteq Lost(st[w], w) \cup {uuids[w] + 1}
        BY <2>1, <2>2 DEF Lost, OnlyAt
      <3>4. ~Ahead(w)'
        BY <1>0, <2>1, <2>2 DEF Ahead
      <3> QED
        BY <1>a, <2>1, <2>2, <3>1, <3>2, <3>3, <3>4, LeakKept DEF OnlyAt
    <2>3. CASE w # v
      BY <1>0, <1>a, <2>1, <2>3, LeakElsewhere DEF OnlyAt, Ahead
    <2> QED
      BY <2>2, <2>3
  <1>6. CASE \E d \in Disk : CreateJob(d)
    <2>1. PICK v \in VM :
            /\ v = i /\ OnlyAt(v) /\ pc = "spawn" /\ pc' = "spawn" /\ i' = i
            /\ loc'[v].last = loc[v].last /\ loc'[v].pending = loc[v].pending
            /\ live'[v] = live[v]
      BY <1>6, CreateJobEffect
    <2>2. /\ loc'[w].last = loc[w].last /\ loc'[w].pending = loc[w].pending
          /\ live'[w] = live[w] /\ st'[w] = st[w] /\ UNCHANGED <<phase, aborts>>
      BY <2>1 DEF OnlyAt
    <2> QED
      BY <1>a, <2>1, <2>2, LeakElsewhere DEF Ahead
  <1>7. CASE RoundPromote
    <2>1. PICK v \in VM :
            /\ v = i /\ OnlyAt(v) /\ pc = "loop" /\ pc' = "loop" /\ i' = i + 1
            /\ loc'[v].last = loc[v].pending /\ loc'[v].pending = NoCopy
            /\ live'[v] = live[v] \ {loc[v].last.id}
      BY <1>7, PromoteEffect
    <2>2. CASE w = v
      <3>1. Lost(loc[w], w)' = Lost(loc[w], w)
        BY <1>0, <2>1, <2>2 DEF Lost, NoCopy
      <3>2. Lost(st[w], w) = Lost(loc[w], w)
        BY <1>0, <1>a, <2>1, <2>2 DEF LeakAt, Lost, Ahead
      <3>3. Lost(st[w], w)' \subseteq Lost(st[w], w) \cup {uuids[w] + 1}
        BY <2>1, <2>2 DEF Lost, OnlyAt
      <3>4. ~Ahead(w)'
        BY <1>0, <2>1, <2>2 DEF Ahead
      <3>5. live'[w] \subseteq live[w] \cup {uuids[w] + 1}
        BY <2>1, <2>2
      <3> QED
        BY <1>a, <2>1, <3>1, <3>2, <3>3, <3>4, <3>5, LeakKept DEF OnlyAt
    <2>3. CASE w # v
      BY <1>0, <1>a, <2>1, <2>3, LeakElsewhere DEF OnlyAt, Ahead
    <2> QED
      BY <2>2, <2>3
  <1>8. CASE FinalCleanup
    <2>1. /\ pc' = "patch" /\ UNCHANGED <<phase, st, loc, aborts>>
          /\ live'[w] = live[w] \ {loc[w].last.id, loc[w].pending.id}
      BY <1>8, FinalCleanupEffect
    <2>2. Lost(loc[w], w)' = Lost(loc[w], w)
      BY <2>1 DEF Lost
    <2>3. Lost(st[w], w)' \subseteq Lost(st[w], w)
      BY <2>1 DEF Lost
    <2>4. PICK x : Lost(st[w], w) \subseteq Lost(loc[w], w) \cup {x}
      BY <1>a DEF LeakAt
    <2>5. ~Ahead(w)'
      BY <2>1 DEF Ahead
    <2>6. Lost(st[w], w)' \subseteq Lost(loc[w], w) \cup {x} /\ live'[w] \subseteq live[w] \cup {x}
      BY <2>1, <2>3, <2>4
    <2> QED
      BY <1>a, <2>1, <2>2, <2>5, <2>6, LeakKept
  <1>9. CASE AbortPass \/ PrismError \/ RoundJobFailed
    <2>1. /\ loc' = st /\ st' = st /\ UNCHANGED live
          /\ \/ phase' = phase /\ aborts' = aborts + 1
             \/ phase # "Failed" /\ phase' = "Failed" /\ aborts' = aborts
      BY <1>9, LostEffect
    <2>2. Lost(loc[w], w)' = Lost(st[w], w) /\ Lost(st[w], w)' = Lost(st[w], w)
      BY <2>1 DEF Lost
    <2>3. PICK x : Lost(st[w], w) \subseteq Lost(loc[w], w) \cup {x}
      BY <1>a DEF LeakAt
    <2>4. IsFiniteSet(Lost(loc[w], w))
      BY <1>a, FS_Subset DEF LeakAt, Lost
    <2>5. /\ Cardinality(Lost(st[w], w)) \in Nat /\ Cardinality(Lost(loc[w], w)) \in Nat
          /\ Cardinality(Lost(st[w], w)) <= Cardinality(Lost(loc[w], w)) + 1
      BY <2>3, <2>4, OneMore
    <2>6. Cardinality(Lost(st[w], w)) <= aborts' + (IF phase' = "Failed" THEN 1 ELSE 0)
      BY <1>0, <1>a, <2>1, <2>5 DEF LeakAt
    <2> QED
      BY <1>a, <2>1, <2>2, <2>6 DEF LeakAt
  <1>10. CASE RoundDeltaError
    <2>1. PICK v \in VM :
            /\ v = i /\ pc = "loop" /\ phase # "Failed" /\ loc' = st /\ st' = st
            /\ phase' = "Failed" /\ UNCHANGED aborts
            /\ \A x \in VM : x # v => live'[x] = live[x]
            /\ live'[v] = live[v] \cup {uuids[v] + 1}
      BY <1>10, DeltaErrorEffect
    <2>2. IsFiniteSet(Lost(loc[w], w))
      BY <1>a, FS_Subset DEF LeakAt, Lost
    <2>3. PICK x : Lost(st[w], w)' \subseteq Lost(loc[w], w) \cup {x} /\ live'[w] \subseteq live[w] \cup {x}
      <3>1. CASE w = v
        <4>1. Ahead(w)
          BY <1>0, <2>1, <3>1 DEF Ahead
        <4> QED
          BY <1>a, <2>1, <3>1, <4>1 DEF Lost, LeakAt
      <3>2. CASE w # v
        BY <1>a, <2>1, <3>2 DEF Lost, LeakAt
      <3> QED
        BY <3>1, <3>2
    <2>4. /\ IsFiniteSet(live'[w])
          /\ Cardinality(Lost(st[w], w)') <= Cardinality(Lost(loc[w], w)) + 1
          /\ Cardinality(Lost(st[w], w)') \in Nat /\ Cardinality(Lost(loc[w], w)) \in Nat
      BY <1>a, <2>2, <2>3, OneMore DEF LeakAt
    <2>5. Cardinality(Lost(st[w], w)') <= aborts' + (IF phase' = "Failed" THEN 1 ELSE 0)
      BY <1>0, <1>a, <2>1, <2>4 DEF LeakAt
    <2>6. Lost(loc[w], w)' = Lost(st[w], w)'
      BY <2>1 DEF Lost
    <2> QED
      BY <2>1, <2>4, <2>5, <2>6 DEF LeakAt
  <1>11. CASE PreSyncPatch \/ RoundPatch \/ ConvergedPatch \/ FinalPatch
    <2>1. /\ st' = loc /\ loc' = loc /\ UNCHANGED <<aborts, live>>
          /\ phase # "Failed" /\ phase' # "Failed"
      BY <1>11, PatchEffect DEF StepInv
    <2>2. Lost(loc[w], w)' = Lost(loc[w], w) /\ Lost(st[w], w)' = Lost(loc[w], w)
      BY <2>1 DEF Lost
    <2> QED
      BY <1>a, <2>1, <2>2 DEF LeakAt
  <1>12. CASE \/ handleWarmSyncing \/ handleReadyForCutover \/ WarmCutoverShutdown
              \/ WarmCutoverOff
    <2>1. /\ loc' = st' /\ UNCHANGED <<aborts, live>> /\ loc = st
          /\ phase # "Failed" /\ phase' # "Failed"
          /\ st'[w].last = st[w].last /\ st'[w].pending = st[w].pending
      BY <1>12, MarkEffect DEF IdleInv
    <2>2. Lost(loc[w], w)' = Lost(loc[w], w) /\ Lost(st[w], w)' = Lost(loc[w], w)
      BY <2>1 DEF Lost
    <2> QED
      BY <1>a, <2>1, <2>2 DEF LeakAt
  <1>13. CASE Environment \/ UNCHANGED vars
    <2>1. UNCHANGED <<phase, st, loc, pc, i, aborts, live>>
      BY <1>13, EnvironmentEffect DEF passVars
    <2> QED
      BY <1>a, <2>1, LeakElsewhere DEF Ahead
  <1> QED
    BY <1>1, <1>2, <1>3, <1>4, <1>5, <1>6, <1>7, <1>8, <1>9, <1>10, <1>11, <1>12, <1>13
    DEF Next, Reconcile, PreSync, runDeltaRound, Cutover

\* The snapshots of a VM that its status does not name are at most as many as
\* the passes that were aborted or have failed, whatever else goes wrong but the
\* deletion itself (EndPass with the statuses the pass started from).
THEOREM LeaksAreBounded == Spec => []LeakBounded
  <1>1. CASE "delete" \in Faults
    <2>1. LeakBounded
      BY <1>1 DEF LeakBounded
    <2> QED
      BY <2>1, PTL
  <1>2. CASE "delete" \notin Faults
    <2>1. Init => TypeOK /\ InLoop /\ StepInv /\ DoneInv /\ SourceInv /\ IdleInv /\ LeakInv
      BY TypeInit, StepInvInit, DoneInvInit, SourceInvInit, LeakInvInit
    <2>2. TypeOK /\ InLoop /\ StepInv /\ DoneInv /\ SourceInv /\ IdleInv /\ LeakInv
          /\ [Next]_vars
            => (TypeOK /\ InLoop /\ StepInv /\ DoneInv /\ SourceInv /\ IdleInv /\ LeakInv)'
      BY <1>2, TypeStep, StepInvStep, DoneInvStep, SourceInvStep, IdleInvStep, LeakInvStep
    <2>3. TypeOK /\ LeakInv => LeakBounded
      <3> SUFFICES ASSUME TypeOK, LeakInv, pc = "loop", i = 1, NEW v \in VM
                   PROVE  Cardinality(live[v] \ {st[v].last.id, st[v].pending.id})
                            <= aborts + (IF phase = "Failed" THEN 1 ELSE 0)
        BY DEF LeakBounded
      <3>1. v \in Int /\ v >= 1
        BY DEF VM
      <3>2. Ahead(v)
        BY <3>1 DEF Ahead
      <3>3. LeakAt(v)
        BY DEF LeakInv
      <3> QED
        BY <3>2, <3>3 DEF LeakAt, Lost
    <2> QED
      BY <2>1, <2>2, <2>3, PTL DEF Spec
  <1> QED
    BY <1>1, <1>2

-----------------------------------------------------------------------------
(***************************************************************************)
(* What follows from Sandwich, in a Quiet environment.                     *)
(***************************************************************************)

\* Sandwich for one block, as long as the migration has not failed.
LEMMA SandwichAt ==
  ASSUME Sandwich, phase # "Failed", NEW v \in VM, NEW d \in Disk
  PROVE  /\ DiskInv(loc[v], v, d, Spawning(v))
         /\ \A b \in Block : BlockInv(loc[v], v, d, b, Spawning(v))
  BY LocInvAt DEF Sandwich

\* The base of a persisted status is not newer than that of the pass.
BaseAt(v, d, b) == st[v].last.data[d][b] <= loc[v].last.data[d][b]

BaseInv == phase # "Failed" => \A v \in VM, d \in Disk, b \in Block : BaseAt(v, d, b)

LEMMA BaseTypes ==
  ASSUME TypeOK, NEW v \in VM, NEW d \in Disk, NEW b \in Block
  PROVE  /\ st[v].last.data[d][b] \in Nat /\ loc[v].last.data[d][b] \in Nat
         /\ loc[v].pending.data[d][b] \in Nat /\ src[v][d][b] \in Nat
  <1>1. st[v] \in VMStatus /\ loc[v] \in VMStatus
    BY DEF TypeOK
  <1> QED
    BY <1>1, StatusTypes, BlockTypes

LEMMA BaseInvStep ==
  ASSUME TypeOK, InLoop, StepInv, Sandwich, BaseInv, [Next]_vars, TypeOK'
  PROVE  BaseInv'
  <1> SUFFICES ASSUME phase' # "Failed", NEW w \in VM, NEW d \in Disk, NEW b \in Block
               PROVE  BaseAt(w, d, b)'
    BY DEF BaseInv
  <1>0. /\ st[w].last.data[d][b] \in Nat /\ loc[w].last.data[d][b] \in Nat
        /\ loc[w].pending.data[d][b] \in Nat /\ src[w][d][b] \in Nat
    BY BaseTypes
  <1>1. phase # "Failed"
    BY FailedStays DEF Sandwich
  <1>2. BaseAt(w, d, b)
    BY <1>1 DEF BaseInv
  <1>3. BlockInv(loc[w], w, d, b, Spawning(w))
    BY <1>1, SandwichAt
  <1>4. CASE PreSyncSnapshot \/ RoundConverge
    <2>1. PICK v \in VM : OnlyAt(v) /\ loc'[v].last.data = src[v]
      BY <1>4, PreSyncSnapshotEffect, ConvergeEffect
    <2>2. loc[w].last.data[d][b] <= src[w][d][b]
      BY <1>3 DEF BlockInv
    <2> QED
      BY <1>0, <1>2, <2>1, <2>2 DEF BaseAt, OnlyAt
  <1>5. CASE RoundPromote
    <2>1. PICK v \in VM : OnlyAt(v) /\ loc'[v].last = loc[v].pending /\ loc[v].pending.id # 0
      BY <1>5, PromoteEffect
    <2>2. loc[w].pending.id # 0 => loc[w].last.data[d][b] <= loc[w].pending.data[d][b]
      BY <1>3 DEF BlockInv
    <2> QED
      BY <1>0, <1>2, <2>1, <2>2 DEF BaseAt, OnlyAt
  <1>6. CASE PreSyncImage
    BY <1>2, <1>6, PreSyncImageEffect DEF BaseAt, OnlyAt
  <1>7. CASE \/ PreSyncImaged \/ createDataVolumesFromTempImages \/ RoundSkip \/ RoundWait
             \/ RoundSpawned \/ \E e \in Disk : CreateConfigMap(e)
    BY <1>2, <1>7, MoveEffect DEF BaseAt
  <1>8. CASE RoundZero \/ RoundStart
    <2>1. PICK v \in VM : OnlyAt(v) /\ loc'[v].last = loc[v].last
      BY <1>8, ZeroEffect, StartEffect
    <2> QED
      BY <1>2, <2>1 DEF BaseAt, OnlyAt
  <1>9. CASE \E e \in Disk : CreateJob(e)
    BY <1>2, <1>9, CreateJobEffect DEF BaseAt, OnlyAt
  <1>10. CASE FinalCleanup
    BY <1>2, <1>10, FinalCleanupEffect DEF BaseAt
  <1>11. CASE \/ AbortPass \/ PrismError \/ RoundJobFailed \/ RoundDeltaError
              \/ PreSyncPatch \/ RoundPatch \/ ConvergedPatch \/ FinalPatch
              \/ handleWarmSyncing \/ handleReadyForCutover \/ WarmCutoverShutdown
              \/ WarmCutoverOff
    <2>1. loc' = st'
      BY <1>11, LostEffect, DeltaErrorEffect, PatchEffect, MarkEffect
    <2>2. st'[w] \in VMStatus
      BY DEF TypeOK
    <2>3. st'[w].last.data[d][b] \in Nat
      BY <2>2, StatusTypes
    <2> QED
      BY <2>1, <2>3 DEF BaseAt
  <1>12. CASE Environment \/ UNCHANGED vars
    BY <1>2, <1>12, EnvironmentEffect DEF BaseAt, passVars
  <1> QED
    BY <1>4, <1>5, <1>6, <1>7, <1>8, <1>9, <1>10, <1>11, <1>12
    DEF Next, Reconcile, PreSync, runDeltaRound, Cutover

\* No promotion of a snapshot to the base runs ahead of the data: whatever base
\* a persisted status names, the target has got its content (the clean-up of
\* runDeltaRound comes after jobFinished of all Jobs).
THEOREM BaseIsReached == Quiet => (Spec => []BaseReachedTarget)
  <1> SUFFICES ASSUME Quiet PROVE Spec => []BaseReachedTarget
    OBVIOUS
  <1>1. Init => TypeOK /\ InLoop /\ StepInv /\ Sandwich /\ BaseInv
    <2> SUFFICES ASSUME Init PROVE TypeOK /\ InLoop /\ StepInv /\ Sandwich /\ BaseInv
      OBVIOUS
    <2>1. TypeOK /\ InLoop /\ StepInv /\ Sandwich
      BY TypeInit, StepInvInit, SandwichInit
    <2>2. loc = st
      BY DEF Init
    <2> QED
      BY <2>1, <2>2, BaseTypes DEF BaseInv, BaseAt
  <1>2. TypeOK /\ InLoop /\ StepInv /\ Sandwich /\ BaseInv /\ [Next]_vars
          => (TypeOK /\ InLoop /\ StepInv /\ Sandwich /\ BaseInv)'
    BY TypeStep, StepInvStep, SandwichStep, BaseInvStep
  <1>3. TypeOK /\ Sandwich /\ BaseInv => BaseReachedTarget
    <2> SUFFICES ASSUME TypeOK, Sandwich, BaseInv,
                        phase \in {"WarmDeltaSync", "ReadyForCutover", "WarmCutover", "WarmFinalDelta"},
                        NEW v \in VM, NEW d \in Disk, NEW b \in Block, <<d, b>> \notin dropped[v]
                 PROVE  st[v].last.data[d][b] <= target[v][d][b]
      BY DEF BaseReachedTarget
    <2>1. BlockInv(loc[v], v, d, b, Spawning(v)) /\ dv[v][d].st = "succeeded"
      BY SandwichAt DEF Sandwich, ImportInv
    <2>2. loc[v].last.data[d][b] <= target[v][d][b]
      BY <2>1 DEF BlockInv
    <2>3. BaseAt(v, d, b) /\ target[v][d][b] \in Nat
      BY BlockTypes DEF BaseInv
    <2> QED
      BY <2>2, <2>3, BaseTypes DEF BaseAt
  <1> QED
    BY <1>1, <1>2, <1>3, PTL DEF Spec

(***************************************************************************)
(* What is done to the disks and to the power of the sources.              *)
(***************************************************************************)

\* Only CDI and the pods write to the targets, and no pass writes to a source.
LEMMA DiskEffect ==
  ASSUME [Next]_vars
  PROVE  /\ \/ target' = target
            \/ \E v \in VM, d \in Disk : CDIImport(v, d)
            \/ \E v \in VM, d \in Disk, b \in Block : JobWrite(v, d, b)
            \/ \E v \in VM : strays[v] # {}
         /\ src' = src \/ \E v \in VM, d \in Disk, b \in Block : GuestWrite(v, d, b)
         /\ \/ dv' = dv \/ createDataVolumesFromTempImages
            \/ \E v \in VM, d \in Disk : CDIImport(v, d)
         /\ \/ power' = power \/ WarmCutoverShutdown \/ \E v \in VM : PowerOff(v)
         /\ approved => approved'
  <1>1. CASE PreSync
    <2>1. UNCHANGED <<target, src, power, approved>>
      BY <1>1 DEF PreSync, PreSyncSnapshot, PreSyncImage, PreSyncImaged,
           createDataVolumesFromTempImages, PreSyncPatch, handleWarmSyncing,
           migVars, prismVars, dataVars
    <2>2. dv' = dv \/ createDataVolumesFromTempImages
      BY <1>1 DEF PreSync, PreSyncSnapshot, PreSyncImage, PreSyncImaged, PreSyncPatch,
           handleWarmSyncing, dataVars
    <2> QED
      BY <2>1, <2>2
  <1>2. CASE runDeltaRound
    <2>1. CASE \/ RoundSkip \/ RoundConverge \/ RoundZero \/ RoundStart \/ RoundSpawned \/ RoundWait
               \/ RoundPromote \/ \E d \in Disk : CreateConfigMap(d) \/ CreateJob(d)
      <3>1. UNCHANGED <<target, src, power, approved, dv>>
        BY <2>1 DEF RoundSkip, RoundConverge, RoundZero, RoundStart, CreateConfigMap, CreateJob,
             RoundSpawned, RoundWait, RoundPromote, migVars, prismVars, dataVars
      <3> QED
        BY <3>1
    <2>2. CASE \/ RoundDeltaError \/ RoundJobFailed \/ RoundPatch \/ ConvergedPatch
               \/ FinalCleanup \/ FinalPatch
      <3>1. UNCHANGED <<target, src, power, approved, dv>>
        BY <2>2 DEF RoundDeltaError, RoundJobFailed, RoundPatch, ConvergedPatch, FinalCleanup,
             FinalPatch, migVars, prismVars, dataVars
      <3> QED
        BY <3>1
    <2> QED
      BY <1>2, <2>1, <2>2 DEF runDeltaRound
  <1>3. CASE Cutover \/ PrismError \/ AbortPass
    <2>1. UNCHANGED <<target, src, approved, dv>>
      BY <1>3 DEF Cutover, handleReadyForCutover, WarmCutoverShutdown, WarmCutoverOff, PrismError,
           AbortPass, prismVars, dataVars
    <2>2. power' = power \/ WarmCutoverShutdown
      BY <1>3 DEF Cutover, handleReadyForCutover, WarmCutoverOff, PrismError, AbortPass, prismVars
    <2> QED
      BY <2>1, <2>2
  <1>4. CASE Environment \/ UNCHANGED vars
    BY <1>4, StrayFrame DEF Environment, RunJob, Approve, PowerOff, GuestWrite, CDIImport, JobWrite,
         JobComplete, JobFail, JobExpire, CacheSync, vars, migVars, prismVars, dataVars
  <1> QED
    BY <1>1, <1>2, <1>3, <1>4 DEF Next, Reconcile

LEMMA ImportEffect ==
  ASSUME TypeOK, NEW v \in VM, NEW d \in Disk, CDIImport(v, d)
  PROVE  /\ dv[v][d].st = "importing" /\ target'[v][d] = dv[v][d].img
         /\ job' = job /\ dv'[v][d].st = "succeeded"
         /\ \A w \in VM, e \in Disk :
               <<w, e>> # <<v, d>> => target'[w][e] = target[w][e] /\ dv'[w][e] = dv[w][e]
  <1>1. /\ dv \in [VM -> [Disk -> DataVolume]] /\ target \in [VM -> [Disk -> [Block -> Nat]]]
    BY DEF TypeOK, Data
  <1>2. /\ dv' = [dv EXCEPT ![v][d].st = "succeeded"]
        /\ target' = [target EXCEPT ![v][d] = dv[v][d].img]
        /\ dv[v][d].st = "importing" /\ job' = job
    BY DEF CDIImport
  <1>3. dv'[v][d].st = "succeeded"
    BY <1>1, <1>2 DEF DataVolume
  <1>4. target'[v][d] = dv[v][d].img
    BY <1>1, <1>2
  <1>5. \A w \in VM, e \in Disk :
           <<w, e>> # <<v, d>> => target'[w][e] = target[w][e] /\ dv'[w][e] = dv[w][e]
    BY <1>1, <1>2
  <1> QED
    BY <1>2, <1>3, <1>4, <1>5

LEMMA JobWriteEffect ==
  ASSUME TypeOK, NEW v \in VM, NEW d \in Disk, NEW b \in Block, JobWrite(v, d, b)
  PROVE  /\ job[v][d].st = "active" /\ target'[v][d][b] = job[v][d].out[b]
         /\ dv' = dv
         /\ \A w \in VM, e \in Disk : /\ job'[w][e].st = job[w][e].st
                                      /\ job'[w][e].out = job[w][e].out
         /\ \A w \in VM, e \in Disk, c \in Block :
               <<w, e, c>> # <<v, d, b>> => target'[w][e][c] = target[w][e][c]
  <1>1. target \in [VM -> [Disk -> [Block -> Nat]]] /\ job \in [VM -> [Disk -> Job]]
    BY DEF TypeOK, Data
  <1>2. /\ target' = [target EXCEPT ![v][d][b] = job[v][d].out[b]]
        /\ job' = [job EXCEPT ![v][d].left = @ \ {b}]
        /\ job[v][d].st = "active" /\ dv' = dv
    BY DEF JobWrite
  <1>3. \A w \in VM, e \in Disk : job'[w][e].st = job[w][e].st /\ job'[w][e].out = job[w][e].out
    BY <1>1, <1>2 DEF Job
  <1>4. /\ target'[v][d][b] = job[v][d].out[b]
        /\ \A w \in VM, e \in Disk, c \in Block :
              <<w, e, c>> # <<v, d, b>> => target'[w][e][c] = target[w][e][c]
    BY <1>1, <1>2
  <1> QED
    BY <1>2, <1>3, <1>4

-----------------------------------------------------------------------------
(***************************************************************************)
(* Whatever fails: a pass that is lost after it has created a Job, a Job   *)
(* that the cache does not show or that has expired.                       *)
(***************************************************************************)

\* A block of a source never goes back.
LEMMA SourceGrows ==
  ASSUME TypeOK, [Next]_vars, NEW v \in VM, NEW d \in Disk, NEW b \in Block
  PROVE  src[v][d][b] <= src'[v][d][b] /\ src[v][d][b] \in Nat /\ src'[v][d][b] \in Nat
  <1>1. src \in [VM -> [Disk -> [Block -> Nat]]]
    BY DEF TypeOK, Data
  <1>2. CASE src' = src
    BY <1>1, <1>2
  <1>3. CASE \E w \in VM, e \in Disk, c \in Block : GuestWrite(w, e, c)
    <2>1. PICK w \in VM, e \in Disk, c \in Block : src' = [src EXCEPT ![w][e][c] = @ + 1]
      BY <1>3 DEF GuestWrite
    <2> QED
      BY <1>1, <2>1
  <1> QED
    BY <1>2, <1>3, DiskEffect

\* The contents that a step may put into the statuses of VM w.
FromOf(w) ==
    {loc[w].last.data, loc[w].pending.data, loc[w].temp.data, st[w].last.data,
     st[w].pending.data, st[w].temp.data, src[w], NoCopy.data}

LEMMA CopyOrigin ==
  ASSUME TypeOK, InLoop, [Next]_vars, NEW w \in VM
  PROVE  /\ loc'[w].last.data \in FromOf(w) /\ st'[w].last.data \in FromOf(w)
         /\ loc'[w].pending.data \in FromOf(w) /\ st'[w].pending.data \in FromOf(w)
         /\ loc'[w].temp.data \in FromOf(w) /\ st'[w].temp.data \in FromOf(w)
  <1>1. CASE PreSyncSnapshot
    BY <1>1, PreSyncSnapshotEffect DEF FromOf, OnlyAt
  <1>2. CASE PreSyncImage
    BY <1>2, PreSyncImageEffect DEF FromOf, OnlyAt
  <1>3. CASE \/ PreSyncImaged \/ createDataVolumesFromTempImages \/ RoundSkip \/ RoundWait
             \/ RoundSpawned \/ \E d \in Disk : CreateConfigMap(d)
    BY <1>3, MoveEffect DEF FromOf
  <1>4. CASE RoundConverge
    BY <1>4, ConvergeEffect DEF FromOf, OnlyAt
  <1>5. CASE RoundZero
    BY <1>5, ZeroEffect DEF FromOf, OnlyAt
  <1>6. CASE RoundStart
    BY <1>6, StartEffect DEF FromOf, OnlyAt
  <1>7. CASE \E d \in Disk : CreateJob(d)
    BY <1>7, CreateJobEffect DEF FromOf, OnlyAt
  <1>8. CASE RoundPromote
    BY <1>8, PromoteEffect DEF FromOf, OnlyAt
  <1>9. CASE FinalCleanup
    BY <1>9, FinalCleanupEffect DEF FromOf
  <1>10. CASE AbortPass \/ PrismError \/ RoundJobFailed
    BY <1>10, LostEffect DEF FromOf
  <1>11. CASE RoundDeltaError
    BY <1>11, DeltaErrorEffect DEF FromOf
  <1>12. CASE PreSyncPatch \/ RoundPatch \/ ConvergedPatch \/ FinalPatch
    BY <1>12, PatchEffect DEF FromOf
  <1>13. CASE \/ handleWarmSyncing \/ handleReadyForCutover \/ WarmCutoverShutdown
              \/ WarmCutoverOff
    BY <1>13, MarkEffect DEF FromOf
  <1>14. CASE Environment \/ UNCHANGED vars
    BY <1>14, EnvironmentEffect DEF FromOf, passVars
  <1> QED
    BY <1>1, <1>2, <1>3, <1>4, <1>5, <1>6, <1>7, <1>8, <1>9, <1>10, <1>11, <1>12, <1>13, <1>14
    DEF Next, Reconcile, PreSync, runDeltaRound, Cutover

\* What a status names is never ahead of the source.
CopyInv ==
    \A v \in VM, d \in Disk, b \in Block : \A x \in FromOf(v) : x[d][b] <= src[v][d][b]

LEMMA CopyInvInit == Init => CopyInv
  <1> SUFFICES ASSUME Init, NEW v \in VM, NEW d \in Disk, NEW b \in Block, NEW x \in FromOf(v)
               PROVE  x[d][b] <= src[v][d][b]
    BY DEF CopyInv
  <1>1. x \in {NoCopy.data, src[v]} /\ src[v][d][b] = 1
    BY DEF Init, FromOf
  <1>2. NoCopy.data[d][b] = 0
    BY DEF NoCopy
  <1> QED
    BY <1>1, <1>2

LEMMA FromTypes ==
  ASSUME TypeOK, NEW v \in VM, NEW x \in FromOf(v), NEW d \in Disk, NEW b \in Block
  PROVE  x[d][b] \in Nat
  <1>1. loc[v] \in VMStatus /\ st[v] \in VMStatus
    BY DEF TypeOK
  <1>2. NoCopy.data[d][b] = 0
    BY DEF NoCopy
  <1> QED
    BY <1>1, <1>2, StatusTypes, BlockTypes DEF FromOf

LEMMA CopyInvStep ==
  ASSUME TypeOK, InLoop, CopyInv, [Next]_vars
  PROVE  CopyInv'
  <1> SUFFICES ASSUME NEW v \in VM, NEW d \in Disk, NEW b \in Block, NEW x \in FromOf(v)'
               PROVE  x[d][b] <= src'[v][d][b]
    BY DEF CopyInv
  <1>1. src[v][d][b] <= src'[v][d][b] /\ src[v][d][b] \in Nat /\ src'[v][d][b] \in Nat
    BY SourceGrows
  <1>2. x \in FromOf(v) \/ x = src'[v]
    BY CopyOrigin DEF FromOf
  <1>3. CASE x = src'[v]
    BY <1>1, <1>3
  <1>4. CASE x \in FromOf(v)
    <2>1. x[d][b] <= src[v][d][b] /\ x[d][b] \in Nat
      BY <1>4, FromTypes DEF CopyInv
    <2> QED
      BY <1>1, <2>1
  <1> QED
    BY <1>2, <1>3, <1>4

\* The pass has not changed the status of a VM that it has not been at, and at
\* a VM whose Jobs it creates it has only begun the round.  The clean-up comes
\* after all VMs are done.
AgreeAt(v) ==
    /\ Ahead(v) => loc[v] = st[v]
    /\ pc = "spawn" /\ v = i =>
          /\ loc[v].pending.id # 0 /\ st[v].pending.id = 0
          /\ loc[v].last = st[v].last /\ loc[v].rounds = st[v].rounds
          /\ loc[v].phase = st[v].phase
    /\ pc = "patch" => allDone /\ v < i

AgreeInv == \A v \in VM : AgreeAt(v)

LEMMA AgreeInvStep ==
  ASSUME TypeOK, InLoop, AgreeInv, [Next]_vars
  PROVE  AgreeInv'
  <1> SUFFICES ASSUME NEW w \in VM PROVE AgreeAt(w)'
    BY DEF AgreeInv
  <1>0. AgreeAt(w) /\ w \in Int /\ i \in Int /\ uuids[w] \in Nat
    BY ConstantsAssumption DEF TypeOK, VM, AgreeInv
  <1>1. CASE PreSyncSnapshot
    BY <1>0, <1>1, PreSyncSnapshotEffect DEF AgreeAt, Ahead, OnlyAt
  <1>2. CASE PreSyncImage
    BY <1>0, <1>2, PreSyncImageEffect DEF AgreeAt, Ahead, OnlyAt
  <1>3. CASE \/ PreSyncImaged \/ createDataVolumesFromTempImages \/ RoundSkip \/ RoundWait
             \/ RoundSpawned \/ \E d \in Disk : CreateConfigMap(d)
    BY <1>0, <1>3, MoveEffect DEF AgreeAt, Ahead
  <1>4. CASE RoundConverge
    BY <1>0, <1>4, ConvergeEffect DEF AgreeAt, Ahead, OnlyAt
  <1>5. CASE RoundZero
    BY <1>0, <1>5, ZeroEffect DEF AgreeAt, Ahead, OnlyAt
  <1>6. CASE RoundStart
    <2>1. PICK v \in VM :
            /\ v = i /\ OnlyAt(v) /\ pc = "loop" /\ pc' = "spawn" /\ i' = i
            /\ loc[v].pending.id = 0 /\ loc'[v].pending.id = uuids[v] + 1
            /\ loc'[v].last = loc[v].last
            /\ loc'[v].rounds = loc[v].rounds /\ loc'[v].phase = loc[v].phase
      BY <1>6, StartEffect
    <2> QED
      BY <1>0, <2>1 DEF AgreeAt, Ahead, OnlyAt
  <1>7. CASE \E d \in Disk : CreateJob(d)
    BY <1>0, <1>7, CreateJobEffect DEF AgreeAt, Ahead, OnlyAt
  <1>8. CASE RoundPromote
    <2>1. PICK v \in VM : v = i /\ OnlyAt(v) /\ pc = "loop" /\ pc' = "loop" /\ i' = i + 1
      BY <1>8, PromoteEffect
    <2> QED
      BY <1>0, <2>1 DEF AgreeAt, Ahead, OnlyAt
  <1>9. CASE FinalCleanup
    BY <1>0, <1>9, FinalCleanupEffect, ConstantsAssumption DEF AgreeAt, Ahead, VM
  <1>10. CASE AbortPass \/ PrismError \/ RoundJobFailed
    BY <1>10, LostEffect DEF AgreeAt
  <1>11. CASE RoundDeltaError
    BY <1>11, DeltaErrorEffect DEF AgreeAt
  <1>12. CASE PreSyncPatch \/ RoundPatch \/ ConvergedPatch \/ FinalPatch
    BY <1>12, PatchEffect DEF AgreeAt
  <1>13. CASE \/ handleWarmSyncing \/ handleReadyForCutover \/ WarmCutoverShutdown
              \/ WarmCutoverOff
    BY <1>13, MarkEffect DEF AgreeAt
  <1>14. CASE Environment \/ UNCHANGED vars
    BY <1>0, <1>14, EnvironmentEffect DEF AgreeAt, Ahead, passVars
  <1> QED
    BY <1>1, <1>2, <1>3, <1>4, <1>5, <1>6, <1>7, <1>8, <1>9, <1>10, <1>11, <1>12, <1>13, <1>14
    DEF Next, Reconcile, PreSync, runDeltaRound, Cutover

\* The regions in which content x differs from the base it is compared with.
Delta(x, base) == {r \in Disk \X Block : x[DiskAt[r[1]]][r[2]] # base[DiskAt[r[1]]][r[2]]}

LEMMA DeltaOf ==
  ASSUME NEW new, NEW base
  PROVE  DeltaRegions(new, base) = Delta(new.data, base.data)
  BY DEF DeltaRegions, ChangedRegions, Delta

\* A delta only grows with the content that is compared.
LEMMA DeltaGrows ==
  ASSUME NEW x, NEW y, NEW base,
         \A d \in Disk, b \in Block :
            /\ base[d][b] \in Nat /\ x[d][b] \in Nat /\ y[d][b] \in Nat
            /\ base[d][b] <= x[d][b] /\ x[d][b] <= y[d][b]
  PROVE  /\ Delta(x, base) \subseteq Delta(y, base)
         /\ Cardinality(Delta(x, base)) \in Nat /\ Cardinality(Delta(y, base)) \in Nat
         /\ Cardinality(Delta(x, base)) <= Cardinality(Delta(y, base))
  <1>1. \A d \in Disk : DiskAt[d] \in Disk
    BY ConstantsAssumption
  <1>2. ASSUME NEW r \in Disk \X Block, x[DiskAt[r[1]]][r[2]] # base[DiskAt[r[1]]][r[2]]
        PROVE  y[DiskAt[r[1]]][r[2]] # base[DiskAt[r[1]]][r[2]]
    <2> DEFINE d == DiskAt[r[1]]
               b == r[2]
    <2>1. d \in Disk /\ b \in Block
      BY <1>1
    <2>2. /\ base[d][b] \in Nat /\ x[d][b] \in Nat /\ y[d][b] \in Nat
          /\ base[d][b] <= x[d][b] /\ x[d][b] <= y[d][b] /\ x[d][b] # base[d][b]
      BY <1>2, <2>1
    <2> HIDE DEF d, b
    <2>3. y[d][b] # base[d][b]
      BY <2>2
    <2> QED
      BY <2>3 DEF d, b
  <1>3. Delta(x, base) \subseteq Delta(y, base)
    BY <1>2 DEF Delta
  <1>4. IsFiniteSet(Disk \X Block)
    BY ConstantsAssumption, FS_Product
  <1>5. Delta(y, base) \in SUBSET (Disk \X Block) /\ Delta(x, base) \in SUBSET Delta(y, base)
    BY <1>3 DEF Delta
  <1>6. IsFiniteSet(Delta(y, base))
    BY <1>4, <1>5, FS_Subset
  <1>7. IsFiniteSet(Delta(x, base)) /\ Cardinality(Delta(x, base)) <= Cardinality(Delta(y, base))
    BY <1>5, <1>6, FS_Subset
  <1> QED
    BY <1>3, <1>6, <1>7, FS_CardinalityType

\* The round that a pass takes up for disk d, if it finds content x, base and n
\* rounds behind it: d has changed, and the VM does not converge.
Due(x, base, n, d, ph) ==
    /\ \E b \in Block : <<d, b>> \in Delta(x, base)
    /\ ph = "WarmDeltaSync" => n < MaxDeltaRounds /\ Cardinality(Delta(x, base)) > Threshold

LEMMA DueKept ==
  ASSUME NEW x, NEW y, NEW base, NEW n, NEW d, NEW ph, Due(x, base, n, d, ph),
         \A e \in Disk, b \in Block :
            /\ base[e][b] \in Nat /\ x[e][b] \in Nat /\ y[e][b] \in Nat
            /\ base[e][b] <= x[e][b] /\ x[e][b] <= y[e][b]
  PROVE  Due(y, base, n, d, ph)
  <1>1. /\ Delta(x, base) \subseteq Delta(y, base)
        /\ Cardinality(Delta(x, base)) \in Nat /\ Cardinality(Delta(y, base)) \in Nat
        /\ Cardinality(Delta(x, base)) <= Cardinality(Delta(y, base))
    BY DeltaGrows
  <1>2. Threshold \in Nat
    BY ConstantsAssumption
  <1> QED
    BY <1>1, <1>2 DEF Due

\* There is a Job of disk d that the next pass finds active or, if deletions do
\* not fail, a Job or a ConfigMap at all.
Held(v, d) ==
    \/ Reading(v, d)
    \/ "delete" \notin Faults /\ (job[v][d].st # "none" \/ cm[v][d] # NoCM)

\* A status knows of it: it names the Job, or the Job is among those that the
\* pass will create, or the next pass will find a round due and find it there.
Owned(s, v, d, D) ==
    IF s.pending.id = 0 THEN Due(src[v], s.last.data, s.rounds, d, phase)
                        ELSE d \in s.jobs \cup D

HeldAt(v, d) ==
    /\ Held(v, d) => phase \in {"WarmDeltaSync", "WarmFinalDelta", "Failed"}
    /\ Held(v, d) /\ phase # "Failed" =>
          /\ loc[v].phase # doneMark /\ st[v].phase # doneMark
          /\ Owned(loc[v], v, d, Spawning(v)) /\ Owned(st[v], v, d, {})
    /\ d \in Spawning(v) => Due(src[v], st[v].last.data, st[v].rounds, d, phase)

HeldInv == \A v \in VM, d \in Disk : HeldAt(v, d)

LEMMA HeldInvInit == Init => HeldInv
  <1> SUFFICES ASSUME Init, NEW v \in VM, NEW d \in Disk PROVE HeldAt(v, d)
    BY DEF HeldInv
  <1>1. job[v][d].st = "none" /\ cm[v][d] = NoCM /\ pc = "loop"
    BY DEF Init, NoJob
  <1> QED
    BY <1>1 DEF HeldAt, Held, Reading, Spawning

\* Only the creation of ConfigMap and Job makes a disk held, and a promotion
\* releases the disks whose Jobs the status names.
LEMMA HeldOrigin ==
  ASSUME TypeOK, InLoop, [Next]_vars, NEW w \in VM, NEW e \in Disk, Held(w, e)'
  PROVE  /\ \/ Held(w, e)
            \/ w = i /\ pc = "spawn" /\ e \in todo /\ (CreateConfigMap(e) \/ CreateJob(e))
         /\ ~(RoundPromote /\ w = i /\ e \in loc[w].jobs)
  <1>0. job \in [VM -> [Disk -> Job]] /\ cm \in [VM -> [Disk -> ConfigMap]]
    BY DEF TypeOK
  <1>m. missed => missed'
    BY MissedStays
  <1>1. CASE RoundPromote
    <2>1. PICK v \in VM :
           /\ v = i /\ OnlyAt(v)
           /\ \E gone \in SUBSET loc[v].jobs :
                 /\ job'[v] = [d \in Disk |-> IF d \in gone THEN NoJob ELSE job[v][d]]
                 /\ "delete" \notin Faults => gone = loc[v].jobs
           /\ \E gone \in SUBSET loc[v].jobs :
                 /\ cm' = [cm EXCEPT ![v] = [d \in Disk |-> IF d \in gone THEN NoCM ELSE cm[v][d]]]
                 /\ "delete" \notin Faults => gone = loc[v].jobs
      BY <1>1, PromoteEffect
    <2>2. CASE w = v
      <3>1. /\ job'[w][e] \in {job[w][e], NoJob}
            /\ "delete" \notin Faults /\ e \in loc[w].jobs => job'[w][e] = NoJob
        BY <2>1, <2>2
      <3>2. /\ cm'[w][e] \in {cm[w][e], NoCM}
            /\ "delete" \notin Faults /\ e \in loc[w].jobs => cm'[w][e] = NoCM
        <4>1. PICK gone \in SUBSET loc[v].jobs :
                /\ cm' = [cm EXCEPT ![v] = [d \in Disk |-> IF d \in gone THEN NoCM ELSE cm[v][d]]]
                /\ "delete" \notin Faults => gone = loc[v].jobs
          BY <2>1
        <4>2. cm'[w][e] = IF e \in gone THEN NoCM ELSE cm[w][e]
          BY <1>0, <2>2, <4>1
        <4> QED
          BY <2>2, <4>1, <4>2
      <3>3. NoJob.st = "none"
        BY DEF NoJob
      <3>4. Held(w, e)
        BY <3>1, <3>2, <3>3, <1>m DEF Held, Reading
      <3>5. ASSUME e \in loc[w].jobs PROVE FALSE
        <4>1. CASE "delete" \notin Faults
          BY <3>1, <3>2, <3>3, <3>5, <4>1, <1>m DEF Held, Reading
        <4>2. CASE Reading(w, e)'
          <5>1. job[w][e].st = "active" /\ ~missed'
            BY <3>1, <3>3, <4>2 DEF Reading
          <5> QED
            BY <1>1, <2>1, <2>2, <3>5, <5>1, PromotedJobs
        <4> QED
          BY <4>1, <4>2 DEF Held
      <3> QED
        BY <3>4, <3>5
    <2>3. CASE w # v
      <3>1. job'[w] = job[w] /\ cm'[w] = cm[w]
        BY <1>0, <2>1, <2>3 DEF OnlyAt
      <3> QED
        BY <2>1, <2>3, <3>1, <1>m DEF Held, Reading
    <2> QED
      BY <2>2, <2>3
  <1>2. ASSUME NEW d \in Disk, CreateConfigMap(d)
        PROVE  Held(w, e) \/ (w = i /\ pc = "spawn" /\ e \in todo /\ CreateConfigMap(e))
    <2>1. PICK v \in VM : v = i
      BY <1>2, ConstantsAssumption DEF CreateConfigMap, TypeOK, InLoop, VM
    <2>2. /\ \E x : cm' = [cm EXCEPT ![v][d] = x]
          /\ job' = job /\ pc = "spawn" /\ d \in todo
      BY <1>2, <2>1 DEF CreateConfigMap
    <2>3. <<w, e>> # <<v, d>> => cm'[w][e] = cm[w][e]
      BY <1>0, <2>2
    <2>4. CASE w = v /\ e = d
      BY <1>2, <2>1, <2>2, <2>4
    <2>5. CASE w # v \/ e # d
      BY <2>2, <2>3, <2>5, <1>m DEF Held, Reading
    <2> QED
      BY <2>4, <2>5
  <1>3. ASSUME NEW d \in Disk, CreateJob(d)
        PROVE  Held(w, e) \/ (w = i /\ pc = "spawn" /\ e \in todo /\ CreateJob(e))
    <2>1. PICK v \in VM : /\ v = i /\ OnlyAt(v)
                          /\ \A x \in Disk : x # d => job'[v][x] = job[v][x]
      BY <1>3, CreateJobEffect
    <2>2. cm' = cm /\ pc = "spawn" /\ d \in todo
      BY <1>3 DEF CreateJob
    <2>3. CASE w = v /\ e = d
      BY <1>3, <2>1, <2>2, <2>3
    <2>4. CASE w # v \/ e # d
      <3>1. job'[w][e] = job[w][e]
        BY <2>1, <2>4 DEF OnlyAt
      <3> QED
        BY <2>2, <3>1, <1>m DEF Held, Reading
    <2> QED
      BY <2>3, <2>4
  <1>4. ASSUME job' = job, cm' = cm PROVE Held(w, e)
    BY <1>4, <1>m DEF Held, Reading
  <1>5. ASSUME Environment, cm' = cm PROVE Held(w, e)
    BY <1>5, EnvironmentEffect, <1>m DEF Held, Reading
  <1>6. CASE ~RoundPromote
    BY <1>2, <1>3, <1>4, <1>5, <1>6, JobFrame, ClusterEffect
  <1> QED
    BY <1>1, <1>6

\* A round that was due stays due while the guest writes.
LEMMA DueStep ==
  ASSUME TypeOK, CopyInv, [Next]_vars, NEW w \in VM, NEW base \in FromOf(w), NEW n, NEW d, NEW ph,
         Due(src[w], base, n, d, ph)
  PROVE  Due(src'[w], base, n, d, ph)
  <1>1. ASSUME NEW e \in Disk, NEW b \in Block
        PROVE  /\ base[e][b] \in Nat /\ src[w][e][b] \in Nat /\ src'[w][e][b] \in Nat
               /\ base[e][b] <= src[w][e][b] /\ src[w][e][b] <= src'[w][e][b]
    BY FromTypes, SourceGrows DEF CopyInv
  <1> QED
    BY <1>1, DueKept

\* A step that leaves what the statuses say of VM w as it is.
LEMMA HeldKept ==
  ASSUME TypeOK, CopyInv, [Next]_vars, NEW w \in VM, NEW e \in Disk, HeldAt(w, e),
         Held(w, e)' => Held(w, e),
         UNCHANGED phase, st'[w] = st[w],
         loc'[w].last = loc[w].last, loc'[w].pending = loc[w].pending,
         loc'[w].rounds = loc[w].rounds,
         loc'[w].phase = loc[w].phase \/ loc'[w].phase \notin {"DeltaConverged", "FinalDeltaDone"},
         e \in loc[w].jobs \cup Spawning(w) => e \in loc'[w].jobs \cup Spawning(w)',
         e \in Spawning(w)' => e \in Spawning(w)
  PROVE  HeldAt(w, e)'
  <1>1. /\ doneMark' = doneMark
        /\ loc'[w].phase = loc[w].phase \/ loc'[w].phase # doneMark
    BY DEF doneMark, final
  <1>2. loc[w].last.data \in FromOf(w) /\ st[w].last.data \in FromOf(w)
    BY DEF FromOf
  <1>3. Held(w, e)' /\ phase' # "Failed" => Owned(loc[w], w, e, Spawning(w))' /\ Owned(st[w], w, e, {})'
    <2> SUFFICES ASSUME Held(w, e)', phase' # "Failed"
                 PROVE  Owned(loc[w], w, e, Spawning(w))' /\ Owned(st[w], w, e, {})'
      OBVIOUS
    <2>1. Owned(loc[w], w, e, Spawning(w)) /\ Owned(st[w], w, e, {})
      BY DEF HeldAt
    <2> QED
      BY <1>2, <2>1, DueStep DEF Owned
  <1>4. e \in Spawning(w)' => Due(src'[w], st'[w].last.data, st'[w].rounds, e, phase')
    BY <1>2, DueStep DEF HeldAt
  <1> QED
    BY <1>1, <1>3, <1>4 DEF HeldAt

\* A pass that ends without its patch, and one that fails.
LEMMA HeldLost ==
  ASSUME TypeOK, CopyInv, [Next]_vars, NEW w \in VM, NEW e \in Disk, HeldAt(w, e),
         Held(w, e)' => Held(w, e), phase' \in {phase, "Failed"}, pc' = "loop",
         st' = st, loc' = st
  PROVE  HeldAt(w, e)'
  <1>1. Spawning(w)' = {}
    BY DEF Spawning
  <1>2. st[w].last.data \in FromOf(w)
    BY DEF FromOf
  <1>3. ASSUME Held(w, e)', phase' # "Failed"
        PROVE  Owned(st[w], w, e, {})' /\ st[w].phase # doneMark'
    <2>1. Owned(st[w], w, e, {}) /\ phase' = phase /\ st[w].phase # doneMark
      BY <1>3 DEF HeldAt
    <2> QED
      BY <1>2, <2>1, DueStep DEF Owned, doneMark, final
  <1> QED
    BY <1>1, <1>3 DEF HeldAt, Owned

\* A pass that persists its statuses and stays in its phase.
LEMMA HeldPatched ==
  ASSUME TypeOK, CopyInv, [Next]_vars, NEW w \in VM, NEW e \in Disk, HeldAt(w, e),
         Held(w, e)' => Held(w, e), phase' = phase, pc # "spawn", pc' = "loop",
         st' = loc, loc' = loc
  PROVE  HeldAt(w, e)'
  <1>1. Spawning(w)' = {} /\ Spawning(w) = {}
    BY DEF Spawning
  <1>2. loc[w].last.data \in FromOf(w)
    BY DEF FromOf
  <1>3. ASSUME Held(w, e)', phase' # "Failed"
        PROVE  Owned(loc[w], w, e, {})' /\ loc[w].phase # doneMark'
    <2>1. Owned(loc[w], w, e, {}) /\ loc[w].phase # doneMark
      BY <1>1, <1>3 DEF HeldAt
    <2> QED
      BY <1>2, <2>1, DueStep DEF Owned, doneMark, final
  <1> QED
    BY <1>1, <1>3 DEF HeldAt, Owned

LEMMA HeldInvStep ==
  ASSUME TypeOK, InLoop, StepInv, DoneInv, CopyInv, AgreeInv, HeldInv, [Next]_vars
  PROVE  HeldInv'
  <1> SUFFICES ASSUME NEW w \in VM, NEW e \in Disk PROVE HeldAt(w, e)'
    BY DEF HeldInv
  <1>0. HeldAt(w, e) /\ AgreeAt(w)
    BY DEF HeldInv, AgreeInv
  <1>a. /\ Held(w, e)' => \/ Held(w, e)
                          \/ w = i /\ pc = "spawn" /\ e \in todo /\ (CreateConfigMap(e) \/ CreateJob(e))
        /\ Held(w, e)' => ~(RoundPromote /\ w = i /\ e \in loc[w].jobs)
    BY HeldOrigin
  <1>b. w \in Int /\ i \in Int /\ w <= NumVM /\ NumVM \in Int
    BY ConstantsAssumption DEF TypeOK, VM
  <1>c. loc[w].last.data \in FromOf(w) /\ st[w].last.data \in FromOf(w)
    BY DEF FromOf
  <1>1. CASE PreSync
    <2>1. phase \in {"WarmPreSync", "WarmSyncing"} /\ pc' # "spawn"
      BY <1>1 DEF PreSync, PreSyncSnapshot, PreSyncImage, PreSyncImaged,
           createDataVolumesFromTempImages, PreSyncPatch, handleWarmSyncing, EndPass, NextVM
    <2>2. ~Held(w, e)'
      BY <1>0, <1>a, <2>1 DEF HeldAt, StepInv
    <2> QED
      BY <2>1, <2>2 DEF HeldAt, Spawning
  <1>2. CASE Cutover
    <2>1. phase \in {"ReadyForCutover", "WarmCutover"} /\ pc' = "loop"
      BY <1>2 DEF Cutover, handleReadyForCutover, WarmCutoverShutdown, WarmCutoverOff, EndPass
    <2>2. ~Held(w, e)'
      BY <1>0, <1>a, <2>1 DEF HeldAt, StepInv
    <2> QED
      BY <2>1, <2>2 DEF HeldAt, Spawning
  <1>3. CASE AbortPass \/ PrismError \/ RoundJobFailed \/ RoundDeltaError
    <2>1. /\ phase' \in {phase, "Failed"} /\ pc' = "loop" /\ st' = st /\ loc' = st
          /\ UNCHANGED cm
      BY <1>3, LostEffect, DeltaErrorEffect
      DEF AbortPass, PrismError, RoundJobFailed, RoundDeltaError, dataVars
    <2>2. Held(w, e)' => Held(w, e)
      BY <1>3, <2>1, LostEffect, DeltaErrorEffect, MissedStays DEF Held, Reading
    <2> QED
      BY <1>0, <2>1, <2>2, HeldLost
  <1>4. CASE RoundPatch
    <2>1. /\ phase' = phase /\ pc = "loop" /\ pc' = "loop" /\ st' = loc /\ loc' = loc
      BY <1>4 DEF RoundPatch, AtEnd, EndPass
    <2>2. Held(w, e)' => Held(w, e)
      BY <1>a, <2>1
    <2> QED
      BY <1>0, <2>1, <2>2, HeldPatched
  <1>5. CASE ConvergedPatch \/ FinalPatch
    <2>1. pc # "spawn" /\ pc' = "loop"
      BY <1>5 DEF ConvergedPatch, FinalPatch, AtEnd, EndPass
    <2>2. phase \in {"WarmDeltaSync", "WarmFinalDelta"} /\ loc[w].phase = doneMark
      <3>1. CASE ConvergedPatch
        BY <1>b, <3>1 DEF ConvergedPatch, AtEnd, DoneInv
      <3>2. CASE FinalPatch
        BY <1>0, <3>2 DEF FinalPatch, AgreeAt, StepInv, DoneInv
      <3> QED
        BY <1>5, <3>1, <3>2
    <2>3. ~Held(w, e)'
      BY <1>0, <1>a, <2>1, <2>2 DEF HeldAt
    <2> QED
      BY <2>1, <2>3 DEF HeldAt, Spawning
  <1>6. CASE FinalCleanup \/ RoundSkip \/ RoundWait
    <2>1. UNCHANGED <<phase, st, loc>> /\ pc = "loop" /\ pc' # "spawn"
      BY <1>6 DEF FinalCleanup, AtEnd, RoundSkip, RoundWait, RoundPending, AtVM, NextVM, migVars
    <2>2. Spawning(w) = {} /\ Spawning(w)' = {} /\ (Held(w, e)' => Held(w, e))
      BY <1>a, <2>1 DEF Spawning
    <2> QED
      BY <1>0, <2>1, <2>2, HeldKept
  <1>7. CASE RoundSpawned
    <2>1. /\ UNCHANGED <<phase, st>> /\ pc = "spawn" /\ pc' = "loop" /\ todo = {}
          /\ loc'[w].last = loc[w].last /\ loc'[w].pending = loc[w].pending
          /\ loc'[w].rounds = loc[w].rounds /\ loc'[w].jobs = loc[w].jobs
          /\ loc'[w] = loc[w] \/ loc'[w].phase \in {"ImportingDisks", "DeltaSyncing"}
      BY <1>7, MoveEffect DEF RoundSpawned, NextVM
    <2>2. Spawning(w) = {} /\ Spawning(w)' = {} /\ (Held(w, e)' => Held(w, e))
      BY <1>a, <2>1 DEF Spawning
    <2> QED
      BY <1>0, <2>1, <2>2, HeldKept
  <1>8. CASE \E d \in Disk : CreateConfigMap(d)
    <2>1. UNCHANGED <<phase, st, loc, pc, i, todo, src>> /\ pc = "spawn"
      BY <1>8 DEF CreateConfigMap, migVars, prismVars
    <2>2. Spawning(w)' = Spawning(w)
      BY <2>1 DEF Spawning
    <2>3. CASE Held(w, e)' => Held(w, e)
      BY <1>0, <2>1, <2>2, <2>3, HeldKept
    <2>4. CASE w = i /\ e \in todo
      <3>1. e \in Spawning(w) /\ phase \in {"WarmDeltaSync", "WarmFinalDelta"}
        BY <2>1, <2>4 DEF Spawning, StepInv
      <3>2. loc[w].phase # doneMark /\ st[w].phase # doneMark
        BY <1>0, <2>1, <2>4 DEF StepInv, AgreeAt
      <3>3. Owned(loc[w], w, e, Spawning(w)) /\ Owned(st[w], w, e, {})
        BY <1>0, <2>1, <2>4, <3>1 DEF AgreeAt, HeldAt, Owned
      <3>4. doneMark' = doneMark
        BY <2>1 DEF doneMark, final
      <3> QED
        BY <1>0, <2>1, <2>2, <3>1, <3>2, <3>3, <3>4 DEF HeldAt, Owned
    <2> QED
      BY <1>a, <2>3, <2>4
  <1>9. CASE \E d \in Disk : CreateJob(d)
    <2>1. PICK d \in Disk : CreateJob(d)
      BY <1>9
    <2>2. PICK v \in VM :
           /\ v = i /\ OnlyAt(v) /\ pc = "spawn" /\ pc' = "spawn" /\ i' = i
           /\ loc'[v].last = loc[v].last /\ loc'[v].pending = loc[v].pending
           /\ loc'[v].jobs = loc[v].jobs \cup {d}
           /\ loc'[v].rounds = loc[v].rounds /\ loc'[v].phase = loc[v].phase
      BY <2>1, CreateJobEffect
    <2>3. todo' = todo \ {d} /\ cm' = cm /\ d \in todo
      BY <2>1 DEF CreateJob
    <2>5. /\ e \in loc[w].jobs \cup Spawning(w) => e \in loc'[w].jobs \cup Spawning(w)'
          /\ e \in Spawning(w)' => e \in Spawning(w)
      BY <2>2, <2>3 DEF Spawning, OnlyAt
    <2>6. /\ loc'[w].last = loc[w].last /\ loc'[w].pending = loc[w].pending
          /\ loc'[w].rounds = loc[w].rounds /\ loc'[w].phase = loc[w].phase
          /\ UNCHANGED phase /\ st'[w] = st[w]
      BY <2>2 DEF OnlyAt
    <2>4. CASE Held(w, e)' => Held(w, e)
      BY <1>0, <2>4, <2>5, <2>6, HeldKept
    <2>7. CASE w = i /\ e \in todo /\ (CreateConfigMap(e) \/ CreateJob(e))
      <3>1. e = d
        <4>1. created' = TRUE /\ todo' = todo \ {d} /\ d \in todo
          BY <2>1 DEF CreateJob
        <4>2. CreateConfigMap(e) => todo' = todo
          BY DEF CreateConfigMap
        <4>3. CreateJob(e) => todo' = todo \ {e}
          BY DEF CreateJob
        <4> QED
          BY <2>7, <4>1, <4>2, <4>3
      <3>2. e \in Spawning(w) /\ phase \in {"WarmDeltaSync", "WarmFinalDelta"} /\ e \in loc'[w].jobs
        BY <2>2, <2>7, <3>1 DEF Spawning, StepInv
      <3>3. /\ loc[w].phase # doneMark /\ st[w].phase # doneMark
            /\ loc[w].pending.id # 0 /\ st[w].pending.id = 0
        BY <1>0, <2>2, <2>7 DEF StepInv, AgreeAt
      <3>4. Due(src'[w], st[w].last.data, st[w].rounds, e, phase)
        BY <1>0, <1>c, <3>2, DueStep DEF HeldAt
      <3>5. Owned(loc[w], w, e, Spawning(w))' /\ Owned(st[w], w, e, {})'
        BY <2>6, <3>2, <3>3, <3>4 DEF Owned
      <3>6. doneMark' = doneMark
        BY <2>6 DEF doneMark, final
      <3> QED
        BY <2>6, <3>2, <3>3, <3>4, <3>5, <3>6 DEF HeldAt
    <2> QED
      BY <1>a, <2>4, <2>7
  <1>10. CASE RoundConverge \/ RoundZero \/ RoundStart \/ RoundPromote
    <2>1. PICK v \in VM :
            /\ v = i /\ OnlyAt(v) /\ pc = "loop" /\ pc' \in {"loop", "spawn"}
            /\ pc' = "spawn" => i' = i
            /\ phase \in {"WarmDeltaSync", "WarmFinalDelta"}
      BY <1>10, ConvergeEffect, ZeroEffect, StartEffect, PromoteEffect
    <2>2. /\ Spawning(w) = {} /\ (w # v => Spawning(w)' = {})
          /\ Held(w, e)' => Held(w, e)
          /\ phase' = phase /\ st' = st
      BY <1>a, <2>1 DEF Spawning, OnlyAt
    <2>3. CASE w # v
      <3>1. loc'[w] = loc[w]
        BY <2>1, <2>3 DEF OnlyAt
      <3> QED
        BY <1>0, <2>2, <2>3, <3>1, HeldKept
    <2>4. ASSUME Held(w, e), w = v, loc[w].pending.id = 0
          PROVE  Due(src[w], loc[w].last.data, loc[w].rounds, e, phase)
      BY <1>0, <2>1, <2>4 DEF HeldAt, Owned
    <2>5. /\ Snapshot(w).data = src[w]
          /\ DeltaRegions(Snapshot(w), loc[w].last) = Delta(src[w], loc[w].last.data)
      BY DeltaOf DEF Snapshot
    <2>6. CASE w = v /\ RoundConverge
      <3>1. loc[w].pending.id = 0 /\ phase = "WarmDeltaSync" /\ pc' = "loop"
        BY <2>1, <2>6, ConvergeEffect
      <3>2. /\ Cardinality(Delta(src[w], loc[w].last.data)) \in Nat /\ Threshold \in Nat
            /\ MaxDeltaRounds \in Nat /\ loc[w].rounds \in Nat
        <4>1. \A d \in Disk, b \in Block :
                /\ loc[w].last.data[d][b] \in Nat /\ src[w][d][b] \in Nat
                /\ loc[w].last.data[d][b] <= src[w][d][b] /\ src[w][d][b] <= src[w][d][b]
          BY <1>c, FromTypes, BlockTypes DEF CopyInv
        <4>2. Cardinality(Delta(src[w], loc[w].last.data)) \in Nat
          BY <4>1, DeltaGrows
        <4> QED
          BY <4>2, ConstantsAssumption DEF TypeOK, VMStatus
      <3>3. Converges(w)
        BY <2>1, <2>6 DEF RoundConverge
      <3>4. ~Held(w, e)
        BY <2>4, <2>5, <2>6, <3>1, <3>2, <3>3 DEF Converges, Due
      <3> QED
        BY <2>2, <3>1, <3>4 DEF HeldAt, Spawning
    <2>7. CASE w = v /\ RoundZero
      <3>1. loc[w].pending.id = 0 /\ pc' = "loop"
        BY <2>1, <2>7, ZeroEffect
      <3>2. Delta(src[w], loc[w].last.data) = {}
        BY <2>1, <2>5, <2>7 DEF RoundZero
      <3>3. ~Held(w, e)
        BY <2>4, <2>7, <3>1, <3>2 DEF Due
      <3> QED
        BY <2>2, <3>1, <3>3 DEF HeldAt, Spawning
    <2>8. CASE w = v /\ RoundPromote
      <3>1. loc[w].pending.id # 0 /\ pc' = "loop"
        BY <2>1, <2>8, PromoteEffect
      <3>2. ~Held(w, e)'
        BY <1>0, <1>a, <2>1, <2>2, <2>8, <3>1 DEF HeldAt, Owned
      <3> QED
        BY <3>1, <3>2 DEF HeldAt, Spawning
    <2>9. CASE w = v /\ RoundStart
      <3>1. /\ loc[w].pending.id = 0 /\ loc[w].phase # doneMark /\ pc' = "spawn" /\ i' = i
            /\ loc'[w].pending.id # 0 /\ loc'[w].phase = loc[w].phase
        <4>1. uuids[w] \in Nat
          BY DEF TypeOK
        <4> QED
          BY <2>1, <2>9, <4>1, StartEffect
      <3>2. loc[w] = st[w]
        BY <1>0, <1>b, <2>1, <2>9 DEF AgreeAt, Ahead
      <3>3. todo' = {d \in Disk : ChangedRegions(Snapshot(w), loc[w].last, d) # {}}
        BY <2>1, <2>9 DEF RoundStart
      <3>4. Spawning(w)' = todo'
        BY <2>1, <2>9, <3>1 DEF Spawning
      <3>5. e \in todo' <=> \E b \in Block : <<e, b>> \in Delta(src[w], loc[w].last.data)
        <4>1. ASSUME NEW b \in Block
              PROVE  b \in ChangedRegions(Snapshot(w), loc[w].last, e)
                       <=> <<e, b>> \in Delta(src[w], loc[w].last.data)
          BY <2>5 DEF ChangedRegions, Delta
        <4>2. ChangedRegions(Snapshot(w), loc[w].last, e) \subseteq Block
          BY DEF ChangedRegions
        <4>3. e \in todo' <=> ChangedRegions(Snapshot(w), loc[w].last, e) # {}
          BY <3>3
        <4> QED
          BY <4>1, <4>2, <4>3
      <3>6. phase = "WarmDeltaSync" =>
               /\ loc[w].rounds < MaxDeltaRounds
               /\ Cardinality(Delta(src[w], loc[w].last.data)) > Threshold
        <4>1. /\ Cardinality(Delta(src[w], loc[w].last.data)) \in Nat /\ Threshold \in Nat
              /\ MaxDeltaRounds \in Nat /\ loc[w].rounds \in Nat
          <5>1. \A d \in Disk, b \in Block :
                  /\ loc[w].last.data[d][b] \in Nat /\ src[w][d][b] \in Nat
                  /\ loc[w].last.data[d][b] <= src[w][d][b] /\ src[w][d][b] <= src[w][d][b]
            BY <1>c, FromTypes, BlockTypes DEF CopyInv
          <5>2. Cardinality(Delta(src[w], loc[w].last.data)) \in Nat
            BY <5>1, DeltaGrows
          <5> QED
            BY <5>2, ConstantsAssumption DEF TypeOK, VMStatus
        <4>2. phase = "WarmDeltaSync" => ~Converges(w)
          BY <2>1, <2>9 DEF RoundStart, final
        <4> QED
          BY <2>5, <4>1, <4>2 DEF Converges
      <3>7. e \in Spawning(w)' => Due(src'[w], st'[w].last.data, st'[w].rounds, e, phase')
        <4>1. e \in todo' => Due(src[w], loc[w].last.data, loc[w].rounds, e, phase)
          BY <3>5, <3>6 DEF Due
        <4> QED
          BY <1>c, <2>2, <3>2, <3>4, <4>1, DueStep
      <3>8. Held(w, e)' => e \in Spawning(w)'
        BY <2>2, <2>4, <2>9, <3>1, <3>4, <3>5 DEF Due
      <3>9. Held(w, e)' => Owned(st[w], w, e, {})' /\ Owned(loc[w], w, e, Spawning(w))'
        BY <2>2, <3>1, <3>2, <3>7, <3>8 DEF Owned
      <3>10. doneMark' = doneMark
        BY <2>2 DEF doneMark, final
      <3> QED
        BY <2>1, <2>2, <3>1, <3>2, <3>7, <3>9, <3>10 DEF HeldAt
    <2> QED
      BY <1>10, <2>3, <2>6, <2>7, <2>8, <2>9
  <1>11. CASE Environment \/ UNCHANGED vars
    <2>1. UNCHANGED <<phase, st, passVars>>
      BY <1>11, EnvironmentEffect
    <2>2. Spawning(w)' = Spawning(w) /\ loc' = loc
      BY <2>1 DEF Spawning, passVars
    <2>3. Held(w, e)' => Held(w, e)
      BY <1>11, EnvironmentEffect, ConfigMapsKept, MissedStays DEF Held, Reading
    <2> QED
      BY <1>0, <2>1, <2>2, <2>3, HeldKept
  <1> QED
    BY <1>1, <1>2, <1>3, <1>4, <1>5, <1>6, <1>7, <1>8, <1>9, <1>10, <1>11
    DEF Next, Reconcile, runDeltaRound

\* How a Job comes to be active.
LEMMA JobOrigin ==
  ASSUME TypeOK, InLoop, [Next]_vars, NEW w \in VM, NEW e \in Disk, job'[w][e].st = "active"
  PROVE  \/ /\ job[w][e].st = "active"
            /\ job'[w][e].round = job[w][e].round /\ job'[w][e].out = job[w][e].out
         \/ /\ CreateJob(e) /\ w = i /\ pc = "spawn" /\ e \in todo
            /\ job'[w][e].round = loc[w].rounds + 1
            /\ cm[w][e].zeroed = {} =>
                  \A b \in Block : job'[w][e].out[b] = loc[w].pending.data[DiskAt[e]][b]
  <1>1. CASE RoundPromote
    <2>1. PICK v \in VM :
           /\ OnlyAt(v)
           /\ \E gone \in SUBSET loc[v].jobs :
                 job'[v] = [d \in Disk |-> IF d \in gone THEN NoJob ELSE job[v][d]]
      BY <1>1, PromoteEffect
    <2>2. job'[w][e] \in {job[w][e], NoJob}
      BY <2>1 DEF OnlyAt
    <2> QED
      BY <2>2 DEF NoJob
  <1>2. ASSUME NEW d \in Disk, CreateJob(d), job'[w][e] # job[w][e]
        PROVE  /\ CreateJob(e) /\ w = i /\ pc = "spawn" /\ e \in todo
               /\ job'[w][e].round = loc[w].rounds + 1
               /\ cm[w][e].zeroed = {} =>
                     \A b \in Block : job'[w][e].out[b] = loc[w].pending.data[DiskAt[e]][b]
    <2>1. PICK v \in VM :
           /\ v = i
           /\ \A x \in VM : x # v => job'[x] = job[x]
           /\ \A x \in Disk : x # d => job'[v][x] = job[v][x]
           /\ \/ job' = job
              \/ /\ job'[v][d].round = loc[v].rounds + 1
                 /\ cm[v][d].zeroed = {} =>
                       \A b \in Block : job'[v][d].out[b] = loc[v].pending.data[DiskAt[d]][b]
      BY <1>2, NewJobEffect
    <2>2. pc = "spawn" /\ d \in todo
      BY <1>2 DEF CreateJob
    <2>3. w = v /\ e = d
      BY <1>2, <2>1
    <2> QED
      BY <1>2, <2>1, <2>2, <2>3
  <1>3. CASE job' = job
    BY <1>3
  <1>4. CASE Environment
    BY <1>4, EnvironmentEffect
  <1> QED
    BY <1>1, <1>2, <1>3, <1>4, JobFrame

\* Only a promotion counts a round.
LEMMA RoundsOrigin ==
  ASSUME TypeOK, InLoop, [Next]_vars, NEW w \in VM
  PROVE  /\ loc'[w].rounds \in {loc[w].rounds, st[w].rounds} \/ (RoundPromote /\ w = i)
         /\ st'[w].rounds \in {loc[w].rounds, st[w].rounds}
  <1>1. CASE PreSyncSnapshot
    BY <1>1, PreSyncSnapshotEffect DEF OnlyAt
  <1>2. CASE PreSyncImage
    BY <1>2, PreSyncImageEffect DEF OnlyAt
  <1>3. CASE \/ PreSyncImaged \/ createDataVolumesFromTempImages \/ RoundSkip \/ RoundWait
             \/ RoundSpawned \/ \E d \in Disk : CreateConfigMap(d)
    BY <1>3, MoveEffect
  <1>4. CASE RoundConverge
    BY <1>4, ConvergeEffect DEF OnlyAt
  <1>5. CASE RoundZero
    BY <1>5, ZeroEffect DEF OnlyAt
  <1>6. CASE RoundStart
    BY <1>6, StartEffect DEF OnlyAt
  <1>7. CASE \E d \in Disk : CreateJob(d)
    BY <1>7, CreateJobEffect DEF OnlyAt
  <1>8. CASE RoundPromote
    <2>1. PICK v \in VM : v = i /\ OnlyAt(v)
      BY <1>8, PromoteEffect
    <2> QED
      BY <1>8, <2>1 DEF OnlyAt
  <1>9. CASE FinalCleanup
    BY <1>9, FinalCleanupEffect
  <1>10. CASE AbortPass \/ PrismError \/ RoundJobFailed
    BY <1>10, LostEffect
  <1>11. CASE RoundDeltaError
    BY <1>11, DeltaErrorEffect
  <1>12. CASE PreSyncPatch \/ RoundPatch \/ ConvergedPatch \/ FinalPatch
    BY <1>12, PatchEffect
  <1>13. CASE \/ handleWarmSyncing \/ handleReadyForCutover \/ WarmCutoverShutdown
              \/ WarmCutoverOff
    BY <1>13, MarkEffect
  <1>14. CASE Environment \/ UNCHANGED vars
    BY <1>14, EnvironmentEffect DEF passVars
  <1> QED
    BY <1>1, <1>2, <1>3, <1>4, <1>5, <1>6, <1>7, <1>8, <1>9, <1>10, <1>11, <1>12, <1>13, <1>14
    DEF Next, Reconcile, PreSync, runDeltaRound, Cutover

\* An active Job is one of the round that the statuses are in.
CurrentAt(v, d) ==
    Reading(v, d) /\ phase # "Failed" => /\ job[v][d].round = loc[v].rounds + 1
                                         /\ job[v][d].round = st[v].rounds + 1

CurrentInv == \A v \in VM, d \in Disk : CurrentAt(v, d)

LEMMA CurrentInvStep ==
  ASSUME TypeOK, InLoop, StepInv, AgreeInv, HeldInv, CurrentInv, [Next]_vars
  PROVE  CurrentInv'
  <1> SUFFICES ASSUME NEW w \in VM, NEW e \in Disk, Reading(w, e)', phase' # "Failed"
               PROVE  /\ job'[w][e].round = loc'[w].rounds + 1
                      /\ job'[w][e].round = st'[w].rounds + 1
    BY DEF CurrentInv, CurrentAt
  <1>1. phase # "Failed"
    <2>1. phase = "Failed" => pc = "loop"
      BY DEF StepInv, TypeOK
    <2> QED
      BY <2>1, FailedStays
  <1>2. AgreeAt(w) /\ HeldAt(w, e) /\ CurrentAt(w, e)
    BY DEF AgreeInv, HeldInv, CurrentInv
  <1>3. ~missed /\ job'[w][e].st = "active" /\ Held(w, e)'
    BY MissedStays DEF Reading, Held
  <1>4. CASE /\ job[w][e].st = "active" /\ job'[w][e].round = job[w][e].round
    <2>1. /\ job'[w][e].round = loc[w].rounds + 1
          /\ job'[w][e].round = st[w].rounds + 1
      BY <1>1, <1>2, <1>3, <1>4 DEF CurrentAt, Reading
    <2>2. ~(RoundPromote /\ w = i)
      <3> SUFFICES ASSUME RoundPromote, w = i PROVE FALSE
        OBVIOUS
      <3>1. pc = "loop" /\ loc[w].pending.id # 0
        BY DEF RoundPromote, RoundPending, AtVM
      <3>2. Held(w, e)
        BY <1>3, <1>4 DEF Held, Reading
      <3>3. e \in loc[w].jobs
        BY <1>1, <1>2, <3>1, <3>2 DEF HeldAt, Owned, Spawning
      <3> QED
        BY <1>3, <3>3, HeldOrigin
    <2> QED
      BY <2>1, <2>2, RoundsOrigin
  <1>5. CASE CreateJob(e) /\ w = i /\ pc = "spawn" /\ job'[w][e].round = loc[w].rounds + 1
    <2>1. loc[w].rounds = st[w].rounds /\ ~RoundPromote
      BY <1>2, <1>5 DEF AgreeAt, RoundPromote, RoundPending, AtVM
    <2> QED
      BY <1>5, <2>1, RoundsOrigin
  <1> QED
    BY <1>3, <1>4, <1>5, JobOrigin

\* Unless the cache has hidden an active Job from a promotion, no pod is left
\* without its Job.
NoStrays == ~missed => StrayInv

LEMMA NoStraysStep ==
  ASSUME TypeOK, InLoop, StepInv, CurrentInv, NoStrays, [Next]_vars
  PROVE  NoStrays'
  <1> SUFFICES ASSUME ~missed' PROVE StrayInv'
    BY DEF NoStrays
  <1>m. ~missed
    BY MissedStays
  <1>0. StrayInv /\ strays \in [VM -> SUBSET Pod]
    BY <1>m DEF NoStrays, TypeOK
  <1>1. CASE UNCHANGED strays
    BY <1>0, <1>1 DEF StrayInv
  <1>2. CASE RoundPromote
    <2>1. PICK v \in VM :
           /\ v = i
           /\ \E gone \in SUBSET loc[v].jobs : strays' = [strays EXCEPT ![v] = @ \cup ActivePods(v, gone)]
      BY <1>2, PromoteEffect
    <2>2. PICK gone \in SUBSET loc[v].jobs : strays' = [strays EXCEPT ![v] = @ \cup ActivePods(v, gone)]
      BY <2>1
    <2>4. \A d \in gone : job[v][d].st # "active"
      BY <1>2, <2>1, PromotedJobs
    <2>5. ActivePods(v, gone) = {}
      BY <2>4 DEF ActivePods
    <2> QED
      BY <1>0, <2>2, <2>5 DEF StrayInv
  <1>3. ASSUME NEW d \in Disk, CreateJob(d) PROVE StrayInv'
    <2>1. PICK v \in VM :
           /\ v = i
           /\ \/ strays' = strays
              \/ /\ job[v][d].round # loc[v].rounds + 1
                 /\ strays' = [strays EXCEPT ![v] = @ \cup ActivePods(v, {d})]
      BY <1>3, NewJobEffect
    <2>2. CASE strays' = strays
      BY <1>0, <2>2 DEF StrayInv
    <2>3. CASE /\ job[v][d].round # loc[v].rounds + 1
               /\ strays' = [strays EXCEPT ![v] = @ \cup ActivePods(v, {d})]
      <3>1. phase # "Failed"
        BY <1>3 DEF CreateJob, StepInv
      <3>2. job[v][d].st # "active"
        BY <1>m, <2>3, <3>1 DEF CurrentInv, CurrentAt, Reading
      <3>3. ActivePods(v, {d}) = {}
        BY <3>2 DEF ActivePods
      <3> QED
        BY <1>0, <2>3, <3>3 DEF StrayInv
    <2> QED
      BY <2>1, <2>2, <2>3
  <1> QED
    BY <1>0, <1>1, <1>2, <1>3, ClusterEffect DEF StrayInv

\* The invariant behind the theorems that allow for lost passes.
OwnerInv ==
    /\ TypeOK /\ InLoop /\ StepInv /\ DoneInv /\ CopyInv /\ AgreeInv
    /\ CacheInv /\ MissedInv /\ HeldInv /\ CurrentInv /\ NoStrays

LEMMA OwnerInvInit == Init => OwnerInv
  <1> SUFFICES ASSUME Init PROVE AgreeInv /\ MissedInv /\ CurrentInv /\ NoStrays
    BY TypeInit, StepInvInit, DoneInvInit, CopyInvInit, CacheInvInit, HeldInvInit DEF OwnerInv
  <1>1. AgreeInv
    BY DEF Init, AgreeInv, AgreeAt
  <1>2. \A v \in VM, d \in Disk : job[v][d].st = "none"
    BY DEF Init, NoJob
  <1>3. NoStrays
    BY DEF Init, NoStrays, StrayInv
  <1>4. MissedInv
    BY DEF Init, MissedInv
  <1> QED
    BY <1>1, <1>2, <1>3, <1>4 DEF CurrentInv, CurrentAt, Reading

LEMMA OwnerInvStep == OwnerInv /\ [Next]_vars => OwnerInv'
  BY TypeStep, StepInvStep, DoneInvStep, CopyInvStep, AgreeInvStep, CacheInvStep, MissedInvStep,
     HeldInvStep, CurrentInvStep, NoStraysStep DEF OwnerInv

\* When the VirtualMachines are created no delta-sync pod is left to write to
\* their disks, not even one of a pass that was lost before it persisted the
\* Job's name: the base of a lost round is not given up before its Jobs are
\* found again (the AlreadyExists of runDeltaRound) and removed.  This holds with
\* every fault, up to a promotion from which the cache hid an active Job.
THEOREM HandOverExclusive == Spec => []NoWriterAtHandOver
  <1>1. OwnerInv => NoWriterAtHandOver
    <2> SUFFICES ASSUME OwnerInv, phase = "CreatingVMs", ~missed, NEW v \in VM
                 PROVE  strays[v] = {} /\ \A d \in Disk : job[v][d].st # "active"
      BY DEF NoWriterAtHandOver
    <2>1. strays[v] = {}
      BY DEF OwnerInv, NoStrays, StrayInv
    <2>2. ASSUME NEW d \in Disk PROVE job[v][d].st # "active"
      <3>1. HeldAt(v, d)
        BY DEF OwnerInv, HeldInv
      <3> QED
        BY <3>1 DEF HeldAt, Held, Reading
    <2> QED
      BY <2>1, <2>2
  <1> QED
    BY <1>1, OwnerInvInit, OwnerInvStep, PTL DEF Spec

\* A pod never reads from a snapshot that was deleted under it, whatever fails,
\* is lost or expires, up to a promotion from which the cache hid an active Job
\* (the clean-up of runDeltaRound, and its DeleteVMSnapshot at convergence).
THEOREM JobsKeepTheirSource == Spec => []JobSourceExists
  <1>1. Init => OwnerInv /\ SourceInv
    BY OwnerInvInit, SourceInvInit
  <1>2. OwnerInv /\ SourceInv /\ [Next]_vars => (OwnerInv /\ SourceInv)'
    <2>1. OwnerInv => TypeOK /\ InLoop /\ StepInv /\ DoneInv
      BY DEF OwnerInv
    <2> QED
      BY <2>1, OwnerInvStep, SourceInvStep
  <1>3. OwnerInv /\ SourceInv => JobSourceExists
    <2> SUFFICES ASSUME OwnerInv, SourceInv, ~missed, NEW v \in VM
                 PROVE  /\ \A d \in Disk : job[v][d].st = "active" => job[v][d].snap \in live[v]
                        /\ strays[v] = {}
      BY DEF JobSourceExists
    <2>1. SourceAt(v) /\ StrayInv
      BY DEF OwnerInv, SourceInv, NoStrays
    <2> QED
      BY <2>1 DEF SourceAt, Reading, StrayInv
  <1> QED
    BY <1>1, <1>2, <1>3, PTL DEF Spec

(***************************************************************************)
(* The targets.                                                            *)
(***************************************************************************)

\* A DataVolume that has succeeded stays so.
LEMMA DVEffect ==
  ASSUME TypeOK, [Next]_vars, NEW w \in VM, NEW e \in Disk
  PROVE  /\ dv[w][e].st = "succeeded" => dv'[w][e].st = "succeeded"
         /\ dv'[w][e].img \in {dv[w][e].img, loc[w].temp.data[e]}
  <1>0. dv \in [VM -> [Disk -> DataVolume]]
    BY DEF TypeOK
  <1>1. CASE dv' = dv
    BY <1>1
  <1>2. CASE createDataVolumesFromTempImages
    <2>1. PICK v \in VM : v = i
      BY <1>2, ConstantsAssumption DEF createDataVolumesFromTempImages, TypeOK, VM
    <2>2. dv' = [dv EXCEPT ![v] =
              [d \in Disk |-> IF dv[v][d].st = "none"
                                THEN [st |-> "importing", img |-> loc[v].temp.data[d]]
                                ELSE dv[v][d]]]
      BY <1>2, <2>1 DEF createDataVolumesFromTempImages
    <2> QED
      BY <1>0, <2>2
  <1>3. CASE \E v \in VM, d \in Disk : CDIImport(v, d)
    <2>1. PICK v \in VM, d \in Disk : dv' = [dv EXCEPT ![v][d].st = "succeeded"]
      BY <1>3 DEF CDIImport
    <2>2. dv'[v][d].st = "succeeded" /\ dv'[v][d].img = dv[v][d].img
      BY <1>0, <2>1 DEF DataVolume
    <2>3. <<w, e>> # <<v, d>> => dv'[w][e] = dv[w][e]
      BY <1>0, <2>1
    <2> QED
      BY <2>2, <2>3
  <1> QED
    BY <1>1, <1>2, <1>3, DiskEffect

\* The phases after WarmSyncing are reached with every disk imported.
ReadyInv ==
    phase \notin {"WarmPreSync", "WarmSyncing", "Failed"} =>
        \A v \in VM, d \in Disk : dv[v][d].st = "succeeded"

LEMMA ReadyInvStep ==
  ASSUME TypeOK, InLoop, StepInv, IdleInv, ReadyInv, [Next]_vars
  PROVE  ReadyInv'
  <1> SUFFICES ASSUME phase' \notin {"WarmPreSync", "WarmSyncing", "Failed"},
                      NEW w \in VM, NEW e \in Disk
               PROVE  dv'[w][e].st = "succeeded"
    BY DEF ReadyInv
  <1>1. dv[w][e].st = "succeeded" => dv'[w][e].st = "succeeded"
    BY DVEffect
  <1>2. CASE phase \notin {"WarmPreSync", "WarmSyncing", "Failed"}
    BY <1>1, <1>2 DEF ReadyInv
  <1>3. phase # "Failed"
    BY FailedStays DEF IdleInv
  <1>4. CASE phase \in {"WarmPreSync", "WarmSyncing"}
    <2>1. handleWarmSyncing /\ Imported = VM
      <3>1. CASE PreSync
        BY <1>4, <3>1 DEF PreSync, PreSyncSnapshot, PreSyncImage, PreSyncImaged,
             createDataVolumesFromTempImages, PreSyncPatch, handleWarmSyncing, EndPass, migVars
      <3>2. ~runDeltaRound \/ phase' \in {phase, "Failed"}
        BY <1>4 DEF runDeltaRound, RoundSkip, RoundConverge, RoundZero, RoundStart,
           RoundDeltaError, CreateConfigMap, CreateJob, RoundSpawned, RoundWait, RoundJobFailed,
           RoundPromote, RoundPatch, ConvergedPatch, FinalCleanup, FinalPatch, RoundSnapshot,
           RoundPending, AtVM, AtEnd, StepInv
      <3>3. ~Cutover
        BY <1>4 DEF Cutover, handleReadyForCutover, WarmCutoverShutdown, WarmCutoverOff
      <3>4. PrismError \/ AbortPass \/ Environment \/ UNCHANGED vars => phase' \in {phase, "Failed"}
        BY LostEffect, EnvironmentEffect
      <3> QED
        BY <1>4, <3>1, <3>2, <3>3, <3>4 DEF Next, Reconcile
    <2> QED
      BY <1>1, <2>1 DEF Imported
  <1> QED
    BY <1>2, <1>3, <1>4

\* How a disk comes to be among those whose Job is to be created.
LEMMA SpawnOrigin ==
  ASSUME TypeOK, InLoop, StepInv, [Next]_vars, NEW w \in VM, NEW e \in Disk, e \in Spawning(w)'
  PROVE  \/ /\ e \in Spawning(w) /\ loc'[w].pending = loc[w].pending
            /\ job'[w][e].st = "active" => job[w][e].st = "active" /\ job'[w][e].out = job[w][e].out
         \/ /\ loc'[w].pending.data = src[w] /\ UNCHANGED <<job, target>>
  <1>0. pc' = "spawn" /\ w = i' /\ e \in todo'
    BY DEF Spawning
  <1>1. CASE RoundStart
    <2>1. UNCHANGED <<job, target>>
      BY <1>1 DEF RoundStart, dataVars
    <2> QED
      BY <1>0, <1>1, <2>1, StartEffect
  <1>2. CASE \E d \in Disk : CreateConfigMap(d)
    <2>1. pc = "spawn" /\ UNCHANGED <<loc, i, todo, job>>
      BY <1>2 DEF CreateConfigMap
    <2> QED
      BY <1>0, <2>1 DEF Spawning
  <1>3. CASE \E d \in Disk : CreateJob(d)
    <2>1. PICK d \in Disk : CreateJob(d)
      BY <1>3
    <2>2. PICK v \in VM :
           /\ v = i /\ OnlyAt(v) /\ pc = "spawn" /\ i' = i /\ loc'[v].pending = loc[v].pending
           /\ \A x \in Disk : x # d => job'[v][x] = job[v][x]
      BY <2>1, CreateJobEffect
    <2>3. todo' = todo \ {d}
      BY <2>1 DEF CreateJob
    <2> QED
      BY <1>0, <2>2, <2>3 DEF Spawning
  <1>4. CASE Environment \/ UNCHANGED vars
    <2>1. UNCHANGED passVars
      BY <1>4, EnvironmentEffect
    <2>2. e \in Spawning(w) /\ loc' = loc
      BY <1>0, <2>1 DEF Spawning, passVars
    <2>3. job'[w][e].st = "active" => job[w][e].st = "active" /\ job'[w][e].out = job[w][e].out
      BY <1>4, EnvironmentEffect
    <2> QED
      BY <2>2, <2>3
  <1>5. ~PreSync
    BY <1>0 DEF PreSync, PreSyncSnapshot, PreSyncImage, PreSyncImaged,
       createDataVolumesFromTempImages, PreSyncPatch, handleWarmSyncing, EndPass, NextVM
  <1>6. ~Cutover /\ ~PrismError /\ ~AbortPass
    BY <1>0 DEF Cutover, handleReadyForCutover, WarmCutoverShutdown, WarmCutoverOff, PrismError,
       AbortPass, failMigration, EndPass
  <1>7. /\ ~RoundSkip /\ ~RoundConverge /\ ~RoundZero /\ ~RoundDeltaError /\ ~RoundSpawned
        /\ ~RoundWait /\ ~RoundJobFailed /\ ~RoundPromote /\ ~RoundPatch /\ ~ConvergedPatch
        /\ ~FinalCleanup /\ ~FinalPatch
    BY <1>0 DEF RoundSkip, RoundConverge, RoundZero, RoundDeltaError, RoundSpawned, RoundWait,
       RoundJobFailed, RoundPromote, RoundPatch, ConvergedPatch, FinalCleanup, FinalPatch,
       failMigration, EndPass, NextVM
  <1> QED
    BY <1>1, <1>2, <1>3, <1>4, <1>5, <1>6, <1>7 DEF Next, Reconcile, runDeltaRound

\* Nothing that is written to a target is older than what is there: neither
\* what an active Job writes, be it left by a lost pass, nor what the Jobs of a
\* round that is being started will write.
FreshAt(v, d, b) ==
    /\ target[v][d][b] <= src[v][d][b]
    /\ dv[v][d].img[b] <= src[v][d][b]
    /\ job[v][d].st = "active" => /\ target[v][d][b] <= job[v][d].out[b]
                                  /\ job[v][d].out[b] <= src[v][d][b]
    /\ d \in Spawning(v) =>
          /\ target[v][d][b] <= loc[v].pending.data[d][b]
          /\ job[v][d].st = "active" => job[v][d].out[b] <= loc[v].pending.data[d][b]
    /\ dv[v][d].st # "succeeded" => target[v][d][b] = 0 /\ job[v][d].st # "active"

FreshInv == ~missed => \A v \in VM, d \in Disk, b \in Block : FreshAt(v, d, b)

LEMMA FreshInvInit == Init => FreshInv
  <1> SUFFICES ASSUME Init, NEW v \in VM, NEW d \in Disk, NEW b \in Block PROVE FreshAt(v, d, b)
    BY DEF FreshInv
  <1>1. /\ target[v][d][b] = 0 /\ src[v][d][b] = 1 /\ dv[v][d].img[b] = 0
        /\ job[v][d].st = "none" /\ pc = "loop"
    BY DEF Init, NoCopy, NoJob, NoDV
  <1> QED
    BY <1>1 DEF FreshAt, Spawning

LEMMA FreshInvStep ==
  ASSUME OwnerInv, ReadyInv, FreshInv, ZeroInv, [Next]_vars, \A d \in Disk : DiskAt[d] = d
  PROVE  /\ FreshInv'
         /\ ~missed => \A v \in VM, d \in Disk, b \in Block : target'[v][d][b] >= target[v][d][b]
  <1>m. missed => missed'
    BY MissedStays DEF OwnerInv
  <1> SUFFICES ASSUME ~missed, NEW w \in VM, NEW e \in Disk, NEW c \in Block
               PROVE  FreshAt(w, e, c)' /\ target'[w][e][c] >= target[w][e][c]
    BY <1>m DEF FreshInv
  <1>a. TypeOK /\ InLoop /\ StepInv /\ CopyInv /\ FreshAt(w, e, c)
    BY DEF OwnerInv, FreshInv
  <1>b. /\ target[w][e][c] \in Nat /\ dv[w][e].img[c] \in Nat /\ job[w][e].out[c] \in Nat
        /\ src[w][e][c] \in Nat /\ src'[w][e][c] \in Nat /\ src[w][e][c] <= src'[w][e][c]
    BY <1>a, BlockTypes, SourceGrows
  <1>c. /\ loc[w].pending.data[e][c] \in Nat /\ loc[w].pending.data[e][c] <= src[w][e][c]
        /\ loc[w].temp.data[e][c] \in Nat /\ loc[w].temp.data[e][c] <= src[w][e][c]
    <2>1. loc[w].pending.data \in FromOf(w) /\ loc[w].temp.data \in FromOf(w)
      BY DEF FromOf
    <2> QED
      BY <1>a, <2>1, FromTypes DEF CopyInv
  <1>d. \A v \in VM : strays[v] = {}
    BY DEF OwnerInv, NoStrays, StrayInv
  <1>e. e \in Spawning(w) => dv[w][e].st = "succeeded"
    BY <1>a DEF Spawning, StepInv, ReadyInv
  \* The DataVolume.
  <1>1. /\ dv'[w][e].img[c] <= src'[w][e][c]
        /\ dv[w][e].st = "succeeded" => dv'[w][e].st = "succeeded"
    BY <1>a, <1>b, <1>c, DVEffect DEF FreshAt
  \* The Job.
  <1>2. job'[w][e].st = "active" =>
           \/ job[w][e].st = "active" /\ job'[w][e].out = job[w][e].out
           \/ /\ e \in Spawning(w) /\ target' = target
              /\ job'[w][e].out[c] = loc[w].pending.data[e][c]
    <2>1. CreateJob(e) /\ w = i => e \in Spawning(w) /\ target' = target
      BY DEF CreateJob, Spawning
    <2>2. cm[w][e].zeroed = {}
      BY DEF ZeroInv
    <2> QED
      BY <1>a, <2>1, <2>2, JobOrigin
  \* The target.
  <1>4. \/ target'[w][e][c] = target[w][e][c]
        \/ /\ dv[w][e].st # "succeeded" /\ target'[w][e][c] = dv[w][e].img[c]
           /\ dv'[w][e].st = "succeeded" /\ job' = job
        \/ /\ job[w][e].st = "active" /\ target'[w][e][c] = job[w][e].out[c]
           /\ job'[w][e].out = job[w][e].out
    <2>1. CASE \E v \in VM, d \in Disk : CDIImport(v, d)
      BY <1>a, <2>1, ImportEffect
    <2>2. CASE \E v \in VM, d \in Disk, b \in Block : JobWrite(v, d, b)
      BY <1>a, <2>2, JobWriteEffect
    <2> QED
      BY <1>d, <2>1, <2>2, DiskEffect
  <1>5. /\ target'[w][e][c] \in Nat /\ target'[w][e][c] >= target[w][e][c]
        /\ target'[w][e][c] <= src'[w][e][c]
    BY <1>a, <1>b, <1>4 DEF FreshAt
  <1>6. ASSUME job'[w][e].st = "active"
        PROVE  target'[w][e][c] <= job'[w][e].out[c] /\ job'[w][e].out[c] <= src'[w][e][c]
    <2>1. CASE job[w][e].st = "active" /\ job'[w][e].out = job[w][e].out
      BY <1>a, <1>b, <1>4, <2>1 DEF FreshAt
    <2>2. CASE /\ e \in Spawning(w) /\ target' = target
               /\ job'[w][e].out[c] = loc[w].pending.data[e][c]
      BY <1>a, <1>b, <1>c, <2>2 DEF FreshAt
    <2> QED
      BY <1>2, <1>6, <2>1, <2>2
  <1>7. ASSUME e \in Spawning(w)'
        PROVE  /\ target'[w][e][c] <= loc'[w].pending.data[e][c]
               /\ job'[w][e].st = "active" => job'[w][e].out[c] <= loc'[w].pending.data[e][c]
    <2>1. CASE /\ e \in Spawning(w) /\ loc'[w].pending = loc[w].pending
               /\ job'[w][e].st = "active" => job[w][e].st = "active" /\ job'[w][e].out = job[w][e].out
      <3>1. dv[w][e].st = "succeeded"
        BY <1>e, <2>1
      <3>2. target'[w][e][c] <= loc[w].pending.data[e][c]
        BY <1>a, <1>b, <1>c, <1>4, <2>1, <3>1 DEF FreshAt
      <3>3. job'[w][e].st = "active" => job'[w][e].out[c] <= loc[w].pending.data[e][c]
        BY <1>a, <1>b, <1>c, <2>1 DEF FreshAt
      <3> QED
        BY <2>1, <3>2, <3>3
    <2>2. CASE /\ loc'[w].pending.data = src[w] /\ UNCHANGED <<job, target>>
      BY <1>a, <2>2 DEF FreshAt
    <2> QED
      BY <1>a, <1>7, <2>1, <2>2, SpawnOrigin
  <1>8. ASSUME dv'[w][e].st # "succeeded"
        PROVE  target'[w][e][c] = 0 /\ job'[w][e].st # "active"
    <2>1. dv[w][e].st # "succeeded" /\ e \notin Spawning(w) /\ job[w][e].st # "active"
      BY <1>a, <1>e, <1>1, <1>8 DEF FreshAt
    <2>2. target'[w][e][c] = 0
      BY <1>a, <1>4, <1>8, <2>1 DEF FreshAt
    <2> QED
      BY <1>2, <2>1, <2>2
  <1> QED
    BY <1>1, <1>5, <1>6, <1>7, <1>8 DEF FreshAt

\* No Job, import or retry puts older content on a target disk than is already
\* there, up to the end of the migration and after its failure, whatever is
\* lost, expires or is not deleted: runDeltaRound gives a new Job the newest
\* snapshot and keeps a Job that it finds under the name.  From a promotion on
\* from which the cache hid an active Job, its pod may write over a later round;
\* with "zeroed" a gap is zeroed.
THEOREM TargetsNeverRegress ==
  PathsInOrder /\ "zeroed" \notin Faults => (Spec => TargetNeverRegresses)
  <1> SUFFICES ASSUME PathsInOrder, "zeroed" \notin Faults PROVE Spec => TargetNeverRegresses
    OBVIOUS
  <1> DEFINE FInv == OwnerInv /\ IdleInv /\ ReadyInv /\ ZeroInv /\ FreshInv
  <1>1. Init => FInv
    <2>1. Init => ZeroInv /\ ReadyInv
      BY DEF Init, ReadyInv, ZeroInv, NoCM
    <2> QED
      BY <2>1, OwnerInvInit, LeakInvInit, FreshInvInit
  <1>2. FInv /\ [Next]_vars => FInv'
    <2>1. OwnerInv => TypeOK /\ InLoop /\ StepInv
      BY DEF OwnerInv
    <2> QED
      BY <2>1, OwnerInvStep, IdleInvStep, ReadyInvStep, ZeroInvStep, FreshInvStep DEF PathsInOrder
  <1>3. FInv /\ [Next]_vars
          => [~missed => \A v \in VM, d \in Disk, b \in Block : target'[v][d][b] >= target[v][d][b]]_vars
    BY FreshInvStep DEF PathsInOrder
  <1> HIDE DEF FInv
  <1> QED
    BY <1>1, <1>2, <1>3, PTL DEF Spec, TargetNeverRegresses

(***************************************************************************)
(* The cutover.                                                            *)
(***************************************************************************)

\* WarmCutover is reached with the approval, if one is required.
ApprovedInv == PauseBeforeCutover /\ phase = "WarmCutover" => approved

LEMMA ApprovedInvStep ==
  ASSUME TypeOK, InLoop, StepInv, ApprovedInv, [Next]_vars
  PROVE  ApprovedInv'
  <1>0. approved => approved'
    BY DiskEffect
  <1>1. CASE \/ PreSyncSnapshot \/ PreSyncImage \/ RoundConverge \/ RoundZero \/ RoundStart
             \/ RoundPromote \/ \E d \in Disk : CreateJob(d)
    <2>1. phase' = phase
      BY <1>1 DEF PreSyncSnapshot, PreSyncImage, RoundConverge, RoundZero, RoundStart,
                  RoundPromote, CreateJob, migVars
    <2> QED
      BY <1>0, <2>1 DEF ApprovedInv
  <1>2. CASE \/ PreSyncImaged \/ createDataVolumesFromTempImages \/ RoundSkip \/ RoundWait
             \/ RoundSpawned \/ \E d \in Disk : CreateConfigMap(d)
    BY <1>0, <1>2, MoveEffect DEF ApprovedInv
  <1>3. CASE FinalCleanup
    BY <1>0, <1>3, FinalCleanupEffect DEF ApprovedInv
  <1>4. CASE AbortPass \/ PrismError \/ RoundJobFailed
    BY <1>0, <1>4, LostEffect DEF ApprovedInv
  <1>5. CASE RoundDeltaError
    BY <1>5, DeltaErrorEffect DEF ApprovedInv
  <1>6. CASE PreSyncPatch \/ RoundPatch \/ ConvergedPatch \/ FinalPatch
    BY <1>6, PatchEffect DEF ApprovedInv
  <1>7. CASE \/ handleWarmSyncing \/ handleReadyForCutover \/ WarmCutoverShutdown
             \/ WarmCutoverOff
    BY <1>0, <1>7, MarkEffect DEF ApprovedInv
  <1>8. CASE Environment \/ UNCHANGED vars
    BY <1>0, <1>8, EnvironmentEffect DEF ApprovedInv
  <1> QED
    BY <1>1, <1>2, <1>3, <1>4, <1>5, <1>6, <1>7, <1>8
    DEF Next, Reconcile, PreSync, runDeltaRound, Cutover

\* A source is asked to shut down only in WarmCutover, and it stays off.
LEMMA PowerEffect ==
  ASSUME TypeOK, [Next]_vars, NEW v \in VM
  PROVE  /\ power[v] = "ON" /\ power'[v] # "ON" => phase = "WarmCutover"
         /\ power[v] = "OFF" => power'[v] = "OFF"
         /\ phase = "CreatingVMs" /\ power[v] = "OFF" => power'[v] = power[v]
  <1>0. power \in [VM -> {"ON", "STOPPING", "OFF"}]
    BY DEF TypeOK
  <1>1. CASE power' = power
    BY <1>1
  <1>2. CASE WarmCutoverShutdown
    <2>1. PICK ask \in SUBSET On : power' = [w \in VM |-> IF w \in ask THEN "STOPPING" ELSE power[w]]
      BY <1>2 DEF WarmCutoverShutdown
    <2> QED
      BY <1>2, <2>1 DEF WarmCutoverShutdown, On
  <1>3. CASE \E w \in VM : PowerOff(w)
    <2>1. PICK w \in VM : power[w] = "STOPPING" /\ power' = [power EXCEPT ![w] = "OFF"]
      BY <1>3 DEF PowerOff
    <2> QED
      BY <1>0, <2>1
  <1> QED
    BY <1>1, <1>2, <1>3, DiskEffect

\* handleWarmCutover asks a source to shut down only with the approval it needs,
\* with every disk of every VM imported and with no pod writing to a target.
\* Only a Job that the cache hid from the promotion of its round may still be
\* active then.
THEOREM ShutdownsAtCutover == Spec => ShutdownOnlyAtCutover
  <1> DEFINE SInv == OwnerInv /\ IdleInv /\ ReadyInv /\ ApprovedInv
  <1>1. Init => SInv
    BY OwnerInvInit, LeakInvInit DEF Init, ReadyInv, ApprovedInv
  <1>2. SInv /\ [Next]_vars => SInv'
    <2>1. OwnerInv => TypeOK /\ InLoop /\ StepInv
      BY DEF OwnerInv
    <2> QED
      BY <2>1, OwnerInvStep, IdleInvStep, ReadyInvStep, ApprovedInvStep
  <1>3. SInv /\ [Next]_vars
          => [\A v \in VM : power[v] = "ON" /\ power'[v] # "ON" =>
                /\ PauseBeforeCutover => approved
                /\ \A w \in VM, d \in Disk : dv[w][d].st = "succeeded"
                /\ ~missed => \A w \in VM : /\ strays[w] = {}
                                            /\ \A d \in Disk : job[w][d].st # "active"]_vars
    <2> SUFFICES ASSUME SInv, [Next]_vars, NEW v \in VM, power[v] = "ON", power'[v] # "ON"
                 PROVE  /\ PauseBeforeCutover => approved
                        /\ \A w \in VM, d \in Disk : dv[w][d].st = "succeeded"
                        /\ ~missed => \A w \in VM : /\ strays[w] = {}
                                                    /\ \A d \in Disk : job[w][d].st # "active"
      OBVIOUS
    <2>1. phase = "WarmCutover"
      BY PowerEffect DEF OwnerInv
    <2>2. \A w \in VM, d \in Disk : dv[w][d].st = "succeeded"
      BY <2>1 DEF ReadyInv
    <2>3. ASSUME ~missed, NEW w \in VM
          PROVE  strays[w] = {} /\ \A d \in Disk : job[w][d].st # "active"
      <3>1. ASSUME NEW d \in Disk PROVE job[w][d].st # "active"
        <4>1. HeldAt(w, d)
          BY DEF OwnerInv, HeldInv
        <4> QED
          BY <2>1, <2>3, <4>1 DEF HeldAt, Held, Reading
      <3> QED
        BY <2>3, <3>1 DEF OwnerInv, NoStrays, StrayInv
    <2> QED
      BY <2>1, <2>2, <2>3 DEF ApprovedInv
  <1> HIDE DEF SInv
  <1> QED
    BY <1>1, <1>2, <1>3, PTL DEF Spec, ShutdownOnlyAtCutover

(***************************************************************************)
(* What is left behind.                                                    *)
(***************************************************************************)

\* A Job that is gone has left nothing of itself.
GoneInv == \A v \in VM, d \in Disk : job[v][d].st = "none" => job[v][d] = NoJob

LEMMA GoneInvStep ==
  ASSUME TypeOK, InLoop, GoneInv, [Next]_vars
  PROVE  GoneInv'
  <1> SUFFICES ASSUME NEW w \in VM, NEW e \in Disk, job'[w][e].st = "none"
               PROVE  job'[w][e] = NoJob
    BY DEF GoneInv
  <1>0. /\ job \in [VM -> [Disk -> Job]]
        /\ job[w][e].st = "none" => job[w][e] = NoJob
    BY DEF TypeOK, GoneInv
  <1>1. CASE job' = job
    BY <1>0, <1>1
  <1>2. CASE RoundPromote
    <2>1. PICK v \in VM :
           /\ OnlyAt(v)
           /\ \E gone \in SUBSET loc[v].jobs :
                 job'[v] = [d \in Disk |-> IF d \in gone THEN NoJob ELSE job[v][d]]
      BY <1>2, PromoteEffect
    <2>2. job'[w][e] \in {job[w][e], NoJob}
      BY <2>1 DEF OnlyAt
    <2> QED
      BY <1>0, <2>2
  <1>3. ASSUME NEW d \in Disk, CreateJob(d) PROVE job'[w][e] = NoJob
    <2>1. PICK v \in VM :
           /\ OnlyAt(v)
           /\ \A x \in Disk : x # d => job'[v][x] = job[v][x]
           /\ job'[v][d] = job[v][d] \/ job'[v][d].st = "active"
      BY <1>3, CreateJobEffect
    <2> QED
      BY <1>0, <2>1 DEF OnlyAt
  <1>4. ASSUME NEW v \in VM, NEW d \in Disk,
               JobExpire(v, d) \/ JobComplete(v, d) \/ JobFail(v, d) \/ CacheSync(v, d)
                  \/ \E b \in Block : JobWrite(v, d, b)
        PROVE  job'[w][e] = NoJob
    <2>1. CASE JobExpire(v, d)
      BY <1>0, <2>1 DEF JobExpire
    <2>2. CASE JobComplete(v, d) \/ JobFail(v, d)
      <3>1. PICK x \in {"complete", "failed"} : job' = [job EXCEPT ![v][d].st = x]
        BY <2>2 DEF JobComplete, JobFail
      <3>2. job'[v][d].st # "none"
        BY <1>0, <3>1 DEF Job
      <3>3. <<w, e>> # <<v, d>> => job'[w][e] = job[w][e]
        BY <1>0, <3>1
      <3> QED
        BY <1>0, <3>2, <3>3
    <2>3. CASE CacheSync(v, d)
      <3>1. job' = [job EXCEPT ![v][d].cache = "present"] /\ job[v][d].st # "none"
        BY <2>3 DEF CacheSync
      <3>2. job'[v][d].st # "none"
        BY <1>0, <3>1 DEF Job
      <3>3. <<w, e>> # <<v, d>> => job'[w][e] = job[w][e]
        BY <1>0, <3>1
      <3> QED
        BY <1>0, <3>2, <3>3
    <2>4. CASE \E b \in Block : JobWrite(v, d, b)
      <3>1. PICK left : job' = [job EXCEPT ![v][d].left = left] /\ job[v][d].st = "active"
        BY <2>4 DEF JobWrite
      <3>2. job'[v][d].st # "none"
        BY <1>0, <3>1 DEF Job
      <3>3. <<w, e>> # <<v, d>> => job'[w][e] = job[w][e]
        BY <1>0, <3>1
      <3> QED
        BY <1>0, <3>2, <3>3
    <2> QED
      BY <1>4, <2>1, <2>2, <2>3, <2>4
  <1>5. CASE Environment
    <2>1. \/ \E v \in VM, d \in Disk :
                JobExpire(v, d) \/ JobComplete(v, d) \/ JobFail(v, d) \/ CacheSync(v, d)
                   \/ \E b \in Block : JobWrite(v, d, b)
          \/ job' = job
      BY <1>5, StrayFrame DEF Environment, RunJob, Approve, PowerOff, GuestWrite, CDIImport, dataVars
    <2> QED
      BY <1>1, <1>4, <2>1
  <1> QED
    BY <1>1, <1>2, <1>3, <1>5, JobFrame

\* Without aborts and failed deletions every snapshot and every image that
\* exists is one the status of the pass names; 0 names none.
CleanAt(v) ==
    /\ live[v] \subseteq {loc[v].last.id, loc[v].pending.id} \ {0}
    /\ images[v] \subseteq {loc[v].temp.id} \ {0}
    /\ pc = "image" /\ v = i => loc[v].temp.id = 0
    /\ pc = "patch" \/ phase = "CreatingVMs" => live[v] = {} /\ images[v] = {}

CleanInv == aborts = 0 /\ phase # "Failed" => \A v \in VM : CleanAt(v)

LEMMA CleanInvStep ==
  ASSUME "delete" \notin Faults, TypeOK, InLoop, StepInv, IdleInv, CleanInv,
         [Next]_vars
  PROVE  CleanInv'
  <1> SUFFICES ASSUME aborts' = 0, phase' # "Failed", NEW w \in VM
               PROVE  CleanAt(w)'
    BY DEF CleanInv
  <1>1. phase # "Failed"
    BY FailedStays DEF IdleInv
  <1>2. aborts \in Nat /\ uuids[w] \in Nat
    BY DEF TypeOK
  <1>3. CASE PreSyncSnapshot
    <2>1. PICK v \in VM :
           /\ v = i /\ OnlyAt(v)
           /\ phase = "WarmPreSync" /\ pc = "loop" /\ pc' = "image" /\ i' = i
           /\ loc[v].temp.id = 0 /\ loc[v].last.id = 0
           /\ loc'[v].last.id = uuids[v] + 1
           /\ loc'[v].temp = loc[v].temp
           /\ loc'[v].pending = loc[v].pending
           /\ live'[v] = live[v] \cup {uuids[v] + 1} /\ images'[v] = images[v]
      BY <1>3, PreSyncSnapshotEffect
    <2>2. CleanAt(w)
      BY <1>1, <2>1 DEF CleanInv, OnlyAt
    <2> QED
      BY <1>2, <2>1, <2>2 DEF CleanAt, OnlyAt
  <1>4. CASE PreSyncImage
    <2>1. PICK v \in VM :
           /\ v = i /\ OnlyAt(v)
           /\ phase = "WarmPreSync" /\ pc = "image" /\ pc' = "loop"
           /\ loc'[v].temp.id = uuids[v] + 1 /\ loc'[v].last = loc[v].last
           /\ loc'[v].pending = loc[v].pending
           /\ images'[v] = images[v] \cup {uuids[v] + 1} /\ live'[v] = live[v]
      BY <1>4, PreSyncImageEffect
    <2>2. CleanAt(w)
      BY <1>1, <2>1 DEF CleanInv, OnlyAt
    <2> QED
      BY <1>2, <2>1, <2>2 DEF CleanAt, OnlyAt
  <1>5. CASE \/ PreSyncImaged \/ createDataVolumesFromTempImages \/ RoundSkip \/ RoundWait
             \/ RoundSpawned \/ \E d \in Disk : CreateConfigMap(d)
    <2>1. /\ UNCHANGED <<phase, aborts, live, images>> /\ pc' \in {"dvs", "loop", "spawn"}
          /\ loc'[w].last = loc[w].last /\ loc'[w].temp = loc[w].temp
          /\ loc'[w].pending = loc[w].pending
      BY <1>5, MoveEffect
    <2>2. CleanAt(w)
      BY <1>1, <2>1 DEF CleanInv
    <2> QED
      BY <2>1, <2>2 DEF CleanAt
  <1>6. CASE RoundConverge
    <2>1. PICK v \in VM :
           /\ OnlyAt(v) /\ phase = "WarmDeltaSync" /\ pc' = "loop"
           /\ loc[v].pending.id = 0
           /\ loc'[v].last.id = uuids[v] + 1 /\ loc'[v].temp = loc[v].temp
           /\ loc'[v].pending = loc[v].pending
           /\ \E bad \in SUBSET {loc[v].last.id} :
                 /\ live'[v] = (live[v] \ ({loc[v].last.id} \ bad)) \cup {uuids[v] + 1}
                 /\ "delete" \notin Faults => bad = {}
           /\ images'[v] = images[v]
      BY <1>6, ConvergeEffect
    <2>2. CleanAt(w)
      BY <1>1, <2>1 DEF CleanInv, OnlyAt
    <2>3. live'[v] = (live[v] \ {loc[v].last.id}) \cup {uuids[v] + 1}
      BY <2>1
    <2> QED
      BY <1>2, <2>1, <2>2, <2>3 DEF CleanAt, OnlyAt
  <1>7. CASE RoundZero \/ RoundStart
    <2>1. PICK v \in VM :
           /\ OnlyAt(v) /\ phase \in {"WarmDeltaSync", "WarmFinalDelta"} /\ pc' \in {"loop", "spawn"}
           /\ loc[v].pending.id = 0
           /\ loc'[v].pending.id = uuids[v] + 1 /\ loc'[v].temp = loc[v].temp
           /\ loc'[v].last = loc[v].last
           /\ live'[v] = live[v] \cup {uuids[v] + 1} /\ images'[v] = images[v]
      BY <1>7, ZeroEffect, StartEffect
    <2>2. CleanAt(w)
      BY <1>1, <2>1 DEF CleanInv, OnlyAt
    <2> QED
      BY <1>2, <2>1, <2>2 DEF CleanAt, OnlyAt
  <1>8. CASE \E d \in Disk : CreateJob(d)
    <2>1. PICK v \in VM :
           /\ OnlyAt(v) /\ pc' = "spawn" /\ pc = "spawn"
           /\ loc'[v].last = loc[v].last /\ loc'[v].pending = loc[v].pending
           /\ loc'[v].temp = loc[v].temp
           /\ live'[v] = live[v] /\ images'[v] = images[v]
      BY <1>8, CreateJobEffect
    <2>2. CleanAt(w)
      BY <1>1, <2>1 DEF CleanInv, OnlyAt
    <2> QED
      BY <2>1, <2>2 DEF CleanAt, OnlyAt
  <1>9. CASE RoundPromote
    <2>1. PICK v \in VM :
           /\ OnlyAt(v) /\ phase \in {"WarmDeltaSync", "WarmFinalDelta"} /\ pc' = "loop"
           /\ loc'[v].last = loc[v].pending
           /\ loc'[v].temp = loc[v].temp
           /\ \E bad \in SUBSET {loc[v].last.id} :
                 /\ live'[v] = live[v] \ ({loc[v].last.id} \ bad)
                 /\ "delete" \notin Faults => bad = {}
           /\ images'[v] = images[v]
      BY <1>9, PromoteEffect
    <2>2. CleanAt(w)
      BY <1>1, <2>1 DEF CleanInv, OnlyAt
    <2>3. live'[v] = live[v] \ {loc[v].last.id}
      BY <2>1
    <2> QED
      BY <2>1, <2>2, <2>3 DEF CleanAt, OnlyAt
  <1>10. CASE FinalCleanup
    <2>1. /\ UNCHANGED <<phase, loc, aborts>> /\ pc' = "patch"
          /\ live'[w] = live[w] \ {loc[w].last.id, loc[w].pending.id}
          /\ images'[w] = images[w] \ {loc[w].temp.id}
      BY <1>10, FinalCleanupEffect
    <2>2. CleanAt(w)
      BY <1>1, <2>1 DEF CleanInv
    <2> QED
      BY <2>1, <2>2 DEF CleanAt
  <1>11. CASE \/ AbortPass \/ PrismError \/ RoundJobFailed \/ RoundDeltaError
    BY <1>2, <1>11, LostEffect, DeltaErrorEffect
  <1>12. CASE PreSyncPatch \/ RoundPatch \/ ConvergedPatch \/ FinalPatch
    <2>1. /\ pc' = "loop" /\ UNCHANGED <<aborts, live, images, loc>>
          /\ phase' = "CreatingVMs" => pc = "patch"
      BY <1>12, PatchEffect
    <2>2. CleanAt(w)
      BY <1>1, <2>1 DEF CleanInv
    <2> QED
      BY <2>1, <2>2 DEF CleanAt
  <1>13. CASE \/ handleWarmSyncing \/ handleReadyForCutover \/ WarmCutoverShutdown
              \/ WarmCutoverOff
    <2>1. /\ pc' = "loop" /\ loc' = st' /\ UNCHANGED <<aborts, live, images>>
          /\ phase \in {"WarmSyncing", "ReadyForCutover", "WarmCutover"}
          /\ phase' # "CreatingVMs"
          /\ st'[w].last = st[w].last /\ st'[w].temp = st[w].temp
          /\ st'[w].pending = st[w].pending
      BY <1>13, MarkEffect
    <2>2. CleanAt(w) /\ loc = st
      BY <1>1, <2>1 DEF CleanInv, IdleInv
    <2> QED
      BY <2>1, <2>2 DEF CleanAt
  <1>14. CASE Environment \/ UNCHANGED vars
    <2>1. UNCHANGED <<phase, st, passVars, live, images, uuids>>
      BY <1>14, EnvironmentEffect
    <2>2. CleanAt(w)
      BY <1>1, <2>1 DEF CleanInv, passVars
    <2> QED
      BY <2>1, <2>2 DEF CleanAt, passVars
  <1> QED
    BY <1>3, <1>4, <1>5, <1>6, <1>7, <1>8, <1>9, <1>10, <1>11, <1>12, <1>13, <1>14
    DEF Next, Reconcile, PreSync, runDeltaRound, Cutover

\* Without aborted passes and failed deletions the hand-over leaves no snapshot,
\* image, ConfigMap or Job behind, however the cache lags and whatever expires
\* (the clean-up of handleWarmFinalDelta and of each round).
THEOREM HandOverIsClean == Spec => []CleanHandOver
  <1>1. CASE "delete" \in Faults
    <2>1. CleanHandOver
      BY <1>1 DEF CleanHandOver
    <2> QED
      BY <2>1, PTL
  <1>2. CASE "delete" \notin Faults
    <2> DEFINE CInv == OwnerInv /\ IdleInv /\ GoneInv /\ CleanInv
    <2>1. Init => CInv
      <3> SUFFICES ASSUME Init PROVE GoneInv /\ CleanInv
        BY OwnerInvInit, LeakInvInit
      <3>1. /\ \A v \in VM : live[v] = {} /\ images[v] = {}
            /\ \A v \in VM, d \in Disk : job[v][d] = NoJob
            /\ pc = "loop" /\ phase = "WarmPreSync"
        BY DEF Init
      <3> QED
        BY <3>1 DEF GoneInv, CleanInv, CleanAt
    <2>2. CInv /\ [Next]_vars => CInv'
      <3>1. OwnerInv => TypeOK /\ InLoop /\ StepInv
        BY DEF OwnerInv
      <3> QED
        BY <1>2, <3>1, OwnerInvStep, IdleInvStep, GoneInvStep, CleanInvStep
    <2>3. CInv => CleanHandOver
      <3> SUFFICES ASSUME CInv, phase = "CreatingVMs", aborts = 0, NEW v \in VM
                   PROVE  /\ live[v] = {} /\ images[v] = {}
                          /\ \A d \in Disk : cm[v][d] = NoCM /\ job[v][d] = NoJob
        BY DEF CleanHandOver
      <3>1. CleanAt(v)
        BY DEF CleanInv
      <3>2. ASSUME NEW d \in Disk PROVE cm[v][d] = NoCM /\ job[v][d] = NoJob
        <4>1. HeldAt(v, d)
          BY DEF OwnerInv, HeldInv
        <4> QED
          BY <1>2, <4>1 DEF HeldAt, Held, GoneInv
      <3> QED
        BY <3>1, <3>2 DEF CleanAt
    <2> HIDE DEF CInv
    <2> QED
      BY <2>1, <2>2, <2>3, PTL DEF Spec
  <1> QED
    BY <1>1, <1>2

-----------------------------------------------------------------------------
(***************************************************************************)
(* A hand-over is final.                                                   *)
(***************************************************************************)

\* The sources stay off once WarmCutoverOff has found them off.
OffInv == phase \in {"WarmFinalDelta", "CreatingVMs"} => \A v \in VM : power[v] = "OFF"

LEMMA OffInvStep ==
  ASSUME TypeOK, InLoop, StepInv, OffInv, [Next]_vars
  PROVE  OffInv'
  <1> SUFFICES ASSUME phase' \in {"WarmFinalDelta", "CreatingVMs"}, NEW w \in VM
               PROVE  power'[w] = "OFF"
    BY DEF OffInv
  <1>1. power[w] = "OFF" => power'[w] = "OFF"
    BY PowerEffect
  <1>2. CASE phase \in {"WarmFinalDelta", "CreatingVMs"}
    BY <1>1, <1>2 DEF OffInv
  <1>3. CASE phase \notin {"WarmFinalDelta", "CreatingVMs"}
    <2>1. CASE \/ PreSyncSnapshot \/ PreSyncImage \/ RoundConverge \/ RoundZero \/ RoundStart
               \/ RoundPromote \/ \E d \in Disk : CreateJob(d)
      <3>1. phase' = phase
        BY <2>1 DEF PreSyncSnapshot, PreSyncImage, RoundConverge, RoundZero, RoundStart,
                    RoundPromote, CreateJob, migVars
      <3> QED
        BY <1>3, <3>1
    <2>2. CASE \/ PreSyncImaged \/ createDataVolumesFromTempImages \/ RoundSkip \/ RoundWait
               \/ RoundSpawned \/ \E d \in Disk : CreateConfigMap(d)
      BY <1>3, <2>2, MoveEffect
    <2>3. CASE FinalCleanup
      BY <1>3, <2>3, FinalCleanupEffect
    <2>4. CASE \/ AbortPass \/ PrismError \/ RoundJobFailed \/ RoundDeltaError
      BY <1>3, <2>4, LostEffect, DeltaErrorEffect
    <2>5. CASE PreSyncPatch \/ RoundPatch \/ ConvergedPatch
      BY <1>3, <2>5 DEF PreSyncPatch, RoundPatch, ConvergedPatch, AtEnd, EndPass
    <2>6. CASE FinalPatch
      BY <1>3, <2>6 DEF FinalPatch, StepInv
    <2>7. CASE handleWarmSyncing \/ handleReadyForCutover \/ WarmCutoverShutdown
      BY <1>3, <2>7 DEF handleWarmSyncing, handleReadyForCutover, WarmCutoverShutdown, EndPass
    <2>8. CASE WarmCutoverOff
      <3>1. power[w] = "OFF"
        BY <2>8 DEF WarmCutoverOff, On
      <3> QED
        BY <1>1, <3>1
    <2>9. CASE Environment \/ UNCHANGED vars
      BY <1>3, <2>9, EnvironmentEffect
    <2> QED
      BY <2>1, <2>2, <2>3, <2>4, <2>5, <2>6, <2>7, <2>8, <2>9
      DEF Next, Reconcile, PreSync, runDeltaRound, Cutover
  <1> QED
    BY <1>2, <1>3

\* What the hand-over leaves: no pass, no Job, no import and no running source.
FrozenInv == OwnerInv /\ IdleInv /\ ReadyInv /\ OffInv

LEMMA FrozenInvInit == Init => FrozenInv
  <1> SUFFICES ASSUME Init PROVE ReadyInv /\ OffInv
    BY OwnerInvInit, LeakInvInit DEF FrozenInv
  <1> QED
    BY DEF Init, ReadyInv, OffInv

LEMMA FrozenInvStep == FrozenInv /\ [Next]_vars => FrozenInv'
  BY OwnerInvStep, IdleInvStep, ReadyInvStep, OffInvStep DEF FrozenInv, OwnerInv

\* Nothing is written any more once the disks are handed over.
LEMMA HandedOverIsFrozen ==
  ASSUME FrozenInv, [Next]_vars, phase = "CreatingVMs", "lag" \notin Faults
  PROVE  phase' = "CreatingVMs" /\ UNCHANGED <<power, src, target, dropped>>
  <1>m. ~missed
    BY DEF FrozenInv, OwnerInv, MissedInv
  <1>0. pc = "loop" /\ i = 1
    BY DEF FrozenInv, IdleInv
  <1>1. ~Reconcile /\ ~PrismError /\ ~AbortPass
    <2>1. ~PreSync /\ ~Cutover /\ ~PrismError /\ ~AbortPass
      BY <1>0 DEF PreSync, PreSyncSnapshot, PreSyncImage, PreSyncImaged,
           createDataVolumesFromTempImages, PreSyncPatch, handleWarmSyncing, Cutover,
           handleReadyForCutover, WarmCutoverShutdown, WarmCutoverOff, PrismError, AtVM, AbortPass
    <2>2. ~runDeltaRound
      BY <1>0 DEF runDeltaRound, RoundSkip, RoundConverge, RoundZero, RoundStart, RoundDeltaError,
           RoundSnapshot, RoundPending, AtVM, AtEnd, CreateConfigMap, CreateJob, RoundSpawned,
           RoundWait, RoundJobFailed, RoundPromote, RoundPatch, ConvergedPatch, FinalCleanup,
           FinalPatch
    <2> QED
      BY <2>1, <2>2 DEF Reconcile
  <1>2. Environment \/ UNCHANGED vars
    BY <1>1 DEF Next
  <1>3. \A v \in VM : power[v] = "OFF"
    BY DEF FrozenInv, OffInv
  <1>4. ASSUME NEW v \in VM, NEW d \in Disk
        PROVE  job[v][d].st # "active" /\ dv[v][d].st = "succeeded"
    <2>1. HeldAt(v, d)
      BY DEF FrozenInv, OwnerInv, HeldInv
    <2> QED
      BY <1>m, <2>1 DEF FrozenInv, ReadyInv, HeldAt, Held, Reading
  <1>a. \A v \in VM : strays[v] = {}
    BY <1>m DEF FrozenInv, OwnerInv, NoStrays, StrayInv
  <1>5. /\ \A v \in VM : ~PowerOff(v)
        /\ \A v \in VM, d \in Disk : ~CDIImport(v, d)
        /\ \A v \in VM, d \in Disk, b \in Block : ~GuestWrite(v, d, b) /\ ~JobWrite(v, d, b)
    BY <1>3, <1>4 DEF PowerOff, CDIImport, GuestWrite, JobWrite
  <1>6. CASE UNCHANGED vars
    BY <1>6 DEF vars, migVars, prismVars, dataVars
  <1>7. CASE Environment
    <2>1. \/ Approve
          \/ \E v \in VM, d \in Disk :
                JobComplete(v, d) \/ JobFail(v, d) \/ JobExpire(v, d) \/ CacheSync(v, d)
      BY <1>a, <1>5, <1>7 DEF Environment, RunJob
    <2> QED
      BY <2>1 DEF Approve, JobComplete, JobFail, JobExpire, CacheSync, migVars, prismVars, dataVars
  <1> QED
    BY <1>2, <1>6, <1>7

\* A hand-over is final as long as the cache shows every Job: neither the
\* sources nor the targets are written any more.  The pod of a lost or forgotten
\* round has ended by then (HandOverExclusive), every import has ended and every
\* guest is off.
THEOREM HandOversAreFinal == "lag" \notin Faults => (Spec => HandOverFinal)
  <1> SUFFICES ASSUME "lag" \notin Faults PROVE Spec => HandOverFinal
    OBVIOUS
  <1>1. FrozenInv /\ [Next]_vars => [phase = "CreatingVMs" => UNCHANGED <<src, target>>]_vars
    BY HandedOverIsFrozen
  <1> QED
    BY <1>1, FrozenInvInit, FrozenInvStep, PTL DEF Spec, HandOverFinal

-----------------------------------------------------------------------------
(***************************************************************************)
(* The delta sync implements HandOver.                                     *)
(***************************************************************************)

\* The target disks of v hold what its source disks hold.
SyncedVM(v) == \A d \in Disk, b \in Block : <<d, b>> \notin dropped[v] => target[v][d][b] = src[v][d][b]

\* The disks are handed over by FinalPatch alone, when all sources are off and
\* all targets synced.
LEMMA HandsOver ==
  ASSUME TypeOK, InLoop, StepInv, IdleInv, Sandwich, [Next]_vars,
         phase # "CreatingVMs", phase' = "CreatingVMs"
  PROVE  /\ phase = "WarmFinalDelta" /\ UNCHANGED <<power, src, target, dropped>>
         /\ \A v \in VM : power[v] = "OFF" /\ SyncedVM(v)
  <1>1. FinalPatch
    <2>1. CASE \/ PreSyncSnapshot \/ PreSyncImage \/ RoundConverge \/ RoundZero \/ RoundStart
               \/ RoundPromote \/ \E d \in Disk : CreateJob(d)
      <3>1. phase' = phase
        BY <2>1 DEF PreSyncSnapshot, PreSyncImage, RoundConverge, RoundZero, RoundStart,
                    RoundPromote, CreateJob, migVars
      <3> QED
        BY <3>1
    <2>2. CASE \/ PreSyncImaged \/ createDataVolumesFromTempImages \/ RoundSkip \/ RoundWait
               \/ RoundSpawned \/ \E d \in Disk : CreateConfigMap(d)
      BY <2>2, MoveEffect
    <2>3. CASE FinalCleanup
      BY <2>3, FinalCleanupEffect
    <2>4. CASE \/ AbortPass \/ PrismError \/ RoundJobFailed \/ RoundDeltaError
      BY <2>4, LostEffect, DeltaErrorEffect
    <2>5. CASE PreSyncPatch \/ RoundPatch \/ ConvergedPatch
      BY <2>5 DEF PreSyncPatch, RoundPatch, ConvergedPatch, AtEnd, EndPass
    <2>6. CASE \/ handleWarmSyncing \/ handleReadyForCutover \/ WarmCutoverShutdown
               \/ WarmCutoverOff
      BY <2>6, MarkEffect
    <2>7. CASE Environment \/ UNCHANGED vars
      BY <2>7, EnvironmentEffect
    <2> QED
      BY <2>1, <2>2, <2>3, <2>4, <2>5, <2>6, <2>7
      DEF Next, Reconcile, PreSync, runDeltaRound, Cutover
  <1>2. pc = "patch" /\ UNCHANGED <<power, src, target, dropped>>
    BY <1>1 DEF FinalPatch, prismVars, dataVars
  <1>3. phase = "WarmFinalDelta"
    BY <1>2 DEF StepInv
  <1>4. PassInv /\ CutoverInv
    BY <1>3 DEF Sandwich
  <1>5. i = NumVM + 1 /\ allDone
    BY <1>2, <1>4 DEF PassInv
  <1>6. ASSUME NEW v \in VM PROVE power[v] = "OFF" /\ SyncedVM(v)
    <2>1. v < i
      BY <1>5, ConstantsAssumption DEF VM
    <2>2. loc[v].phase = "FinalDeltaDone"
      BY <1>3, <1>4, <1>5, <2>1 DEF PassInv, doneMark, final
    <2>3. ASSUME NEW d \in Disk, NEW b \in Block
          PROVE  <<d, b>> \in dropped[v] \/ target[v][d][b] = src[v][d][b]
      <3>1. BlockInv(loc[v], v, d, b, Spawning(v))
        BY <1>3, SandwichAt
      <3> QED
        BY <2>2, <3>1 DEF BlockInv
    <2> QED
      BY <1>3, <1>4, <2>3 DEF CutoverInv, SyncedVM
  <1> QED
    BY <1>2, <1>3, <1>6

LEMMA ContractStep ==
  ASSUME TypeOK, InLoop, StepInv, IdleInv, FrozenInv, Sandwich, [Next]_vars, "lag" \notin Faults
  PROVE  [Contract!Next]_(Contract!vars)
  <1> DEFINE S == CASE phase = "CreatingVMs" -> "handed"
                    [] phase = "Failed" -> "failed"
                    [] OTHER -> "copying"
             R == {v \in VM : power[v] # "OFF"}
             Y == {v \in VM : \A d \in Disk, b \in Block :
                                 <<d, b>> \notin dropped[v] => target[v][d][b] = src[v][d][b]}
  <1>1. R' \subseteq R
    BY PowerEffect
  <1>2. Y' \subseteq VM
    OBVIOUS
  <1>3. CASE phase = "CreatingVMs"
    <2>1. phase' = "CreatingVMs" /\ UNCHANGED <<power, src, target, dropped>>
      BY <1>3, HandedOverIsFrozen
    <2>2. S' = S /\ R' = R /\ Y' = Y
      BY <1>3, <2>1
    <2> QED
      BY <2>2 DEF Contract!vars
  <1>4. CASE phase # "CreatingVMs" /\ phase' = "CreatingVMs"
    <2>1. /\ phase = "WarmFinalDelta" /\ UNCHANGED <<power, src, target, dropped>>
          /\ \A v \in VM : power[v] = "OFF" /\ SyncedVM(v)
      BY <1>4, HandsOver
    <2>2. S = "copying" /\ S' = "handed" /\ R' = R /\ Y' = Y
      BY <1>4, <2>1
    <2>3. R = {} /\ Y = VM
      BY <2>1 DEF SyncedVM
    <2>4. Contract!HandOver
      BY <2>2, <2>3 DEF Contract!HandOver
    <2> QED
      BY <2>4 DEF Contract!Next
  <1>5. CASE phase # "CreatingVMs" /\ phase' # "CreatingVMs"
    <2>1. S # "handed" /\ S' \in {"copying", "failed"}
      BY <1>5
    <2>2. S = "failed" => S' = "failed"
      BY <1>5, FailedStays DEF Sandwich
    <2>3. S \in {"copying", "failed"}
      BY <1>5
    <2>4. CASE S' = S
      BY <1>1, <1>2, <2>1, <2>4 DEF Contract!Work, Contract!Next
    <2>5. CASE S' # S
      <3>1. S = "copying" /\ S' = "failed"
        BY <2>1, <2>2, <2>3, <2>5
      <3> QED
        BY <1>1, <1>2, <3>1 DEF Contract!Fail, Contract!Next
    <2> QED
      BY <2>4, <2>5
  <1> QED
    BY <1>3, <1>4, <1>5

\* The delta sync keeps the promise the creation of the VirtualMachines relies
\* on: handleWarmFinalDelta hands over when every source is off and every target
\* holds what its source holds (but for what a convergence dropped), and neither
\* changes afterwards.
THEOREM HandOverIsImplemented == Quiet => (Spec => ImplementsHandOver)
  <1> SUFFICES ASSUME Quiet PROVE Spec => ImplementsHandOver
    OBVIOUS
  <1> DEFINE CInv == TypeOK /\ InLoop /\ StepInv /\ IdleInv /\ FrozenInv /\ Sandwich
  <1>1. Init => CInv /\ Contract!Init
    <2> SUFFICES ASSUME Init PROVE Contract!Init
      BY TypeInit, StepInvInit, LeakInvInit, FrozenInvInit, SandwichInit
    <2>1. phase = "WarmPreSync" /\ \A v \in VM : power[v] = "ON"
      BY DEF Init
    <2> QED
      BY <2>1 DEF Contract!Init
  <1>2. CInv /\ [Next]_vars => CInv'
    BY TypeStep, StepInvStep, IdleInvStep, FrozenInvStep, SandwichStep
  <1>3. CInv /\ [Next]_vars => [Contract!Next]_(Contract!vars)
    BY ContractStep DEF Quiet
  <1> HIDE DEF CInv
  <1> QED
    BY <1>1, <1>2, <1>3, PTL DEF Spec, ImplementsHandOver, Contract!Spec

=============================================================================
