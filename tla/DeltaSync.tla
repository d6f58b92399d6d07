------------------------------ MODULE DeltaSync ------------------------------
(***************************************************************************)
(* The warm migration with changed-block tracking (CBT): the reconciler    *)
(* phases WarmPreSync .. WarmFinalDelta of controllers/cbt_sync.go and     *)
(* controllers/ahvmigration_controller.go, together with the systems they  *)
(* drive: Prism (source disks, snapshots, images, power), CDI (import of   *)
(* the pre-copy images) and the delta-sync Jobs.                           *)
(*                                                                         *)
(* A disk block is abstracted to the version of its content: a guest write *)
(* gives the block a version it never had.  A snapshot, an image and a PVC *)
(* are functions from disk and block to version; version 0 is a block of   *)
(* zeros that was never written, on the target.                            *)
(*                                                                         *)
(* A reconcile pass is not atomic.  It works on a local copy (loc) of the  *)
(* persisted VM statuses (st) and persists it with one status patch at the *)
(* end; the guest, CDI and the Jobs run between its steps, and an aborted  *)
(* pass (crash, API error, lost patch) loses loc and keeps its effects.    *)
(* Between two passes pc = "loop", i = 1 and loc = st.                     *)
(***************************************************************************)
EXTENDS Integers, FiniteSets

CONSTANTS
    NumVM,               \* number of entries of spec.vms
    Disk,                \* positions in the DiskList of a VM
    Block,               \* blocks of a disk, by their offset
    DiskAt,              \* disk whose path is at a position of SnapshotPaths
    Threshold,           \* deltaSyncThresholdBytes, in blocks
    MergeGaps,           \* gaps, in blocks, that prepareRegions may end with
    MaxDeltaRounds,      \* spec.source.cbt.maxDeltaRounds
    PauseBeforeCutover,  \* spec.source.pauseBeforeCutover
    Faults,              \* the faults of the environment, see below
    MaxVersion,          \* bound: writes of the guest to one block
    MaxAborts            \* bound: aborted reconcile passes

(***************************************************************************)
(* lost_create : a pass may abort after it has created a DataVolume, a     *)
(*               ConfigMap or a Job.                                       *)
(* ttl         : a failed Job may be removed by ttlSecondsAfterFinished    *)
(*               before a pass has seen it.                                *)
(* lag         : the informer cache may not show a new Job yet.            *)
(* delete      : the deletion of a snapshot, an image, a Job or a          *)
(*               ConfigMap may fail.                                       *)
(* zeroed      : Prism reports some changed regions as ZEROED.             *)
(* Aborts before the first creation of a pass, failing Jobs and failing    *)
(* Prism requests need no fault: they may always happen.                   *)
(***************************************************************************)
ASSUME ConstantsAssumption ==
    /\ NumVM \in Nat \ {0}
    /\ IsFiniteSet(Disk)
    /\ Block \subseteq Nat /\ IsFiniteSet(Block)
    /\ DiskAt \in [Disk -> Disk]
    /\ Threshold \in Nat
    /\ MergeGaps \subseteq Nat /\ MergeGaps # {}
    /\ MaxDeltaRounds \in Nat \ {0}
    /\ PauseBeforeCutover \in BOOLEAN
    /\ Faults \subseteq {"lost_create", "ttl", "lag", "delete", "zeroed"}
    /\ MaxVersion \in Nat
    /\ MaxAborts \in Nat

VARIABLES
    \* The AHVMigration object in the API server.
    phase,      \* status.phase
    st,         \* status.vms
    approved,   \* annotation cutover-approved=true
    \* The reconcile pass in progress.
    pc,         \* the step of the handler it is at
    i,          \* index of the VM it is at
    loc,        \* newVMStatuses
    allDone,    \* allDone of runDeltaRound
    todo,       \* disks whose Job is still to be created
    created,    \* the pass has created a DataVolume, ConfigMap or Job
    aborts,     \* number of aborted passes
    \* Prism.
    src,        \* content of the disks of the source VMs
    power,      \* power state of the source VMs
    live,       \* ids of the snapshots that exist
    images,     \* ids of the images that exist
    uuids,      \* number of ids handed out
    \* The target cluster.
    dv,         \* DataVolumes
    target,     \* content of the PVCs
    cm,         \* the newest ConfigMap of every disk
    job,        \* the newest delta-sync Job of every disk
    strays,     \* pods of Jobs that no status names any more
    \* History, read by no action.
    dropped,    \* blocks whose delta a promotion skipped
    missed      \* a round was promoted with an active Job that the cache hid

migVars   == <<phase, st, approved>>
passVars  == <<pc, i, loc, allDone, todo, created, aborts>>
prismVars == <<src, power, live, images, uuids>>
dataVars  == <<dv, target, cm, job, strays, dropped, missed>>
vars      == <<migVars, passVars, prismVars, dataVars>>

VM == 1 .. NumVM

Phase == {"WarmPreSync", "WarmSyncing", "WarmDeltaSync", "ReadyForCutover",
          "WarmCutover", "WarmFinalDelta", "CreatingVMs", "Failed"}

VMPhase == {"Pending", "WarmPreSync", "ImportingDisks", "WarmSyncDone",
            "DeltaSyncing", "DeltaIdle", "DeltaConverged", "ShuttingDown",
            "FinalDeltaDone"}

Data == [Disk -> [Block -> Nat]]

\* A snapshot or a set of images: its UUID (0 for "") and what it holds.
Copy == [id : Nat, data : Data]

NoCopy == [id |-> 0, data |-> [d \in Disk |-> [b \in Block |-> 0]]]

\* Phase, TempImageRefs, LastSnapshotUUID/SnapshotPaths,
\* PendingSnapshotUUID/PendingSnapshotPaths, SyncJobRefs and DeltaRounds.
VMStatus == [phase : VMPhase, temp : Copy, last : Copy, pending : Copy,
             jobs : SUBSET Disk, rounds : Nat]

DataVolume == [st : {"none", "importing", "succeeded"}, img : [Block -> Nat]]

NoDV == [st |-> "none", img |-> [b \in Block |-> 0]]

\* A ConfigMap: the round in its name, the blocks of its regions, those of them
\* in ZEROED regions, and what these blocks hold once zeros are written to them.
ConfigMap == [round : Nat, blocks : SUBSET Block, zeroed : SUBSET Block,
              zeros : [Block -> Nat]]

NoCM == [round |-> 0, blocks |-> {}, zeroed |-> {}, zeros |-> [b \in Block |-> 0]]

\* A Job: its state, the round in its name, the snapshot it reads, what it
\* writes to a block, the blocks it has not written yet, and whether the
\* informer cache shows it.
Job == [st : {"none", "active", "complete", "failed"}, round : Nat, snap : Nat,
        out : [Block -> Nat], left : SUBSET Block, cache : {"absent", "present"}]

NoJob == [st |-> "none", round |-> 0, snap |-> 0, out |-> [b \in Block |-> 0],
          left |-> {}, cache |-> "absent"]

\* A pod whose Job was deleted, or is left behind under the name of an older round.
Pod == [disk : Disk, snap : Nat, out : [Block -> Nat], left : SUBSET Block]

TypeOK ==
    /\ phase \in Phase
    /\ st \in [VM -> VMStatus]
    /\ approved \in BOOLEAN
    /\ pc \in {"loop", "image", "dvs", "spawn", "patch"}
    /\ i \in 1 .. NumVM + 1
    /\ loc \in [VM -> VMStatus]
    /\ allDone \in BOOLEAN
    /\ todo \in SUBSET Disk
    /\ created \in BOOLEAN
    /\ aborts \in Nat
    /\ src \in [VM -> Data]
    /\ power \in [VM -> {"ON", "STOPPING", "OFF"}]
    /\ live \in [VM -> SUBSET Nat]
    /\ images \in [VM -> SUBSET Nat]
    /\ uuids \in [VM -> Nat]
    /\ dv \in [VM -> [Disk -> DataVolume]]
    /\ target \in [VM -> Data]
    /\ cm \in [VM -> [Disk -> ConfigMap]]
    /\ job \in [VM -> [Disk -> Job]]
    /\ strays \in [VM -> SUBSET Pod]
    /\ dropped \in [VM -> SUBSET (Disk \X Block)]
    /\ missed \in BOOLEAN

Init ==
    /\ phase = "WarmPreSync"
    /\ st = [v \in VM |-> [phase |-> "Pending", temp |-> NoCopy, last |-> NoCopy,
                           pending |-> NoCopy, jobs |-> {}, rounds |-> 0]]
    /\ approved = FALSE
    /\ pc = "loop"
    /\ i = 1
    /\ loc = st
    /\ allDone = TRUE
    /\ todo = {}
    /\ created = FALSE
    /\ aborts = 0
    /\ src = [v \in VM |-> [d \in Disk |-> [b \in Block |-> 1]]]
    /\ power = [v \in VM |-> "ON"]
    /\ live = [v \in VM |-> {}]
    /\ images = [v \in VM |-> {}]
    /\ uuids = [v \in VM |-> 0]
    /\ dv = [v \in VM |-> [d \in Disk |-> NoDV]]
    /\ target = [v \in VM |-> NoCopy.data]
    /\ cm = [v \in VM |-> [d \in Disk |-> NoCM]]
    /\ job = [v \in VM |-> [d \in Disk |-> NoJob]]
    /\ strays = [v \in VM |-> {}]
    /\ dropped = [v \in VM |-> {}]
    /\ missed = FALSE

-----------------------------------------------------------------------------
(***************************************************************************)
(* The frame of a reconcile pass.                                          *)
(***************************************************************************)

final == phase = "WarmFinalDelta"

\* Mutant: the VM is given the name of the next phase of the migration.
doneMarkRenamed == IF final THEN "FinalDeltaDone" ELSE "ReadyForCutover"

doneMark == IF final THEN "FinalDeltaDone" ELSE "DeltaConverged"

\* runDeltaRound is at a VM, or past the last one.
AtVM  == phase \in {"WarmDeltaSync", "WarmFinalDelta"} /\ pc = "loop" /\ i <= NumVM
AtEnd == phase \in {"WarmDeltaSync", "WarmFinalDelta"} /\ pc = "loop" /\ i = NumVM + 1

\* The pass goes on with the next VM.
NextVM ==
    /\ i' = i + 1
    /\ pc' = "loop"

\* The pass is over: p and s are persisted, the local state is forgotten.
EndPass(p, s) ==
    /\ phase' = p
    /\ st' = s
    /\ loc' = s
    /\ pc' = "loop"
    /\ i' = 1
    /\ allDone' = TRUE
    /\ todo' = {}
    /\ created' = FALSE

\* failMigration patches the phase onto the object the pass had read: what
\* the pass has learned since (loc) is not persisted.
failMigration == EndPass("Failed", st)

\* The pass ends without its status patch: a crash of the operator, an API
\* error that the handler returns, or a patch that fails.
AbortPass ==
    /\ aborts < MaxAborts
    /\ <<pc, i>> # <<"loop", 1>>
    /\ created => "lost_create" \in Faults
    /\ EndPass(phase, st)
    /\ aborts' = aborts + 1
    /\ UNCHANGED <<approved, prismVars, dataVars>>

\* A Prism request fails where the handler gives up on it: NewPrismClient at
\* the start of a pass, or the requests for the VM the pass is at.
PrismError ==
    /\ \/ /\ phase \in {"WarmPreSync", "WarmDeltaSync", "WarmCutover", "WarmFinalDelta"}
          /\ pc = "loop" /\ i = 1
       \/ phase = "WarmPreSync" /\ pc \in {"loop", "image"} /\ i <= NumVM
       \/ AtVM /\ loc[i].phase # doneMark /\ loc[i].pending.id = 0
    /\ failMigration
    /\ UNCHANGED <<approved, aborts, prismVars, dataVars>>

\* Mutant: nothing is deleted.
UndeletedAll(s) == {s}

\* The possible sets of objects in s whose best-effort deletion fails.
Undeleted(s) == IF "delete" \in Faults THEN SUBSET s ELSE {{}}

\* The possible sets of objects in s whose best-effort deletion succeeds.
Deleted(s) == {s \ bad : bad \in Undeleted(s)}

-----------------------------------------------------------------------------
(***************************************************************************)
(* WarmPreSync: base snapshot, images, DataVolumes.                        *)
(***************************************************************************)

\* CreateVMSnapshot and GetVMSnapshotPaths: a crash-consistent copy of all
\* disks of the VM.
Snapshot(v) == [id |-> uuids[v] + 1, data |-> src[v]]

\* The base snapshot snap0, before any image of the VM.
PreSyncSnapshot ==
    /\ phase = "WarmPreSync" /\ pc = "loop" /\ i <= NumVM
    /\ loc[i].temp.id = 0 /\ loc[i].last.id = 0
    /\ loc' = [loc EXCEPT ![i].last = Snapshot(i)]
    /\ live' = [live EXCEPT ![i] = @ \cup {Snapshot(i).id}]
    /\ uuids' = [uuids EXCEPT ![i] = @ + 1]
    /\ pc' = "image"
    /\ UNCHANGED <<migVars, i, allDone, todo, created, aborts, src, power,
                   images, dataVars>>

\* CreateImageFromDisk for every disk of the running VM.
PreSyncImage ==
    /\ phase = "WarmPreSync" /\ pc = "image"
    /\ loc' = [loc EXCEPT ![i].temp = Snapshot(i), ![i].phase = "WarmPreSync"]
    /\ images' = [images EXCEPT ![i] = @ \cup {Snapshot(i).id}]
    /\ uuids' = [uuids EXCEPT ![i] = @ + 1]
    /\ NextVM
    /\ UNCHANGED <<migVars, allDone, todo, created, aborts, src, power, live,
                   dataVars>>

\* All VMs are imaged: go on with their DataVolumes.
PreSyncImaged ==
    /\ phase = "WarmPreSync" /\ pc = "loop" /\ i = NumVM + 1
    /\ pc' = "dvs"
    /\ i' = 1
    /\ UNCHANGED <<migVars, loc, allDone, todo, created, aborts, prismVars,
                   dataVars>>

\* createDataVolumesFromTempImages for one VM: a DataVolume that exists is
\* kept, whatever image it imports.
createDataVolumesFromTempImages ==
    /\ phase = "WarmPreSync" /\ pc = "dvs" /\ i <= NumVM
    /\ dv' = [dv EXCEPT ![i] =
                [d \in Disk |-> IF @[d].st = "none"
                                  THEN [st |-> "importing", img |-> loc[i].temp.data[d]]
                                  ELSE @[d]]]
    /\ loc' = [loc EXCEPT ![i].phase = "ImportingDisks"]
    /\ created' = TRUE
    /\ i' = i + 1
    /\ UNCHANGED <<migVars, pc, allDone, todo, aborts, prismVars, target, cm,
                   job, strays, dropped, missed>>

\* The status patch of handleWarmPreSync.
PreSyncPatch ==
    /\ phase = "WarmPreSync" /\ pc = "dvs" /\ i = NumVM + 1
    /\ EndPass("WarmSyncing", loc)
    /\ UNCHANGED <<approved, aborts, prismVars, dataVars>>

\* The VMs whose DataVolumes have all succeeded.
Imported == {v \in VM : \A d \in Disk : dv[v][d].st = "succeeded"}

\* handleWarmSyncing marks these VMs, and goes on when it has marked all.
handleWarmSyncing ==
    /\ phase = "WarmSyncing"
    /\ EndPass(IF Imported = VM THEN "WarmDeltaSync" ELSE phase,
               [v \in VM |-> IF v \in Imported THEN [st[v] EXCEPT !.phase = "WarmSyncDone"]
                                               ELSE st[v]])
    /\ UNCHANGED <<approved, aborts, prismVars, dataVars>>

-----------------------------------------------------------------------------
(***************************************************************************)
(* WarmDeltaSync and WarmFinalDelta: runDeltaRound, one VM after another.  *)
(***************************************************************************)

\* ChangedRegions between the paths at position d of two snapshots.
ChangedRegions(new, base, d) ==
    {b \in Block : new.data[DiskAt[d]][b] # base.data[DiskAt[d]][b]}

\* The regions of all positions: their number stands for totalBytes.
DeltaRegions(new, base) ==
    {r \in Disk \X Block : r[2] \in ChangedRegions(new, base, r[1])}

\* A VM that already carries the mark is skipped.
RoundSkip ==
    /\ AtVM
    /\ loc[i].phase = doneMark
    /\ NextVM
    /\ UNCHANGED <<migVars, loc, allDone, todo, created, aborts, prismVars,
                   dataVars>>

\* A new snapshot has been taken and compared with the base; changed_regions
\* needs a base that still exists.
RoundSnapshot ==
    /\ AtVM
    /\ loc[i].phase # doneMark
    /\ loc[i].pending.id = 0
    /\ uuids' = [uuids EXCEPT ![i] = @ + 1]

\* Mutant: the number of rounds is not limited.
ConvergesBySize(v) == Cardinality(DeltaRegions(Snapshot(v), loc[v].last)) <= Threshold

Converges(v) ==
    \/ Cardinality(DeltaRegions(Snapshot(v), loc[v].last)) <= Threshold
    \/ loc[v].rounds >= MaxDeltaRounds

\* Convergence: the new snapshot becomes the base, its delta is not synced.
RoundConverge ==
    /\ RoundSnapshot
    /\ loc[i].last.id \in live[i]
    /\ ~final /\ Converges(i)
    /\ \E bad \in Undeleted({loc[i].last.id}) :
          live' = [live EXCEPT ![i] = (@ \ ({loc[i].last.id} \ bad)) \cup {Snapshot(i).id}]
    /\ dropped' = [dropped EXCEPT ![i] =
          @ \cup {r \in Disk \X Block : src[i][r[1]][r[2]] # loc[i].last.data[r[1]][r[2]]}]
    /\ loc' = [loc EXCEPT ![i].last = Snapshot(i), ![i].phase = doneMark]
    /\ NextVM
    /\ UNCHANGED <<migVars, allDone, todo, created, aborts, src, power, images,
                   dv, target, cm, job, strays, missed>>

\* Final round with nothing to sync: the VM is done without a Job.
RoundZero ==
    /\ RoundSnapshot
    /\ loc[i].last.id \in live[i]
    /\ final /\ DeltaRegions(Snapshot(i), loc[i].last) = {}
    /\ live' = [live EXCEPT ![i] = @ \cup {Snapshot(i).id}]
    /\ loc' = [loc EXCEPT ![i].pending = Snapshot(i), ![i].phase = doneMark]
    /\ NextVM
    /\ UNCHANGED <<migVars, allDone, todo, created, aborts, src, power, images,
                   dataVars>>

\* There is a delta to sync: Jobs for the disks that have changed regions.
RoundStart ==
    /\ RoundSnapshot
    /\ loc[i].last.id \in live[i]
    /\ IF final THEN DeltaRegions(Snapshot(i), loc[i].last) # {} ELSE ~Converges(i)
    /\ live' = [live EXCEPT ![i] = @ \cup {Snapshot(i).id}]
    /\ loc' = [loc EXCEPT ![i].pending = Snapshot(i), ![i].jobs = {}]
    /\ todo' = {d \in Disk : ChangedRegions(Snapshot(i), loc[i].last, d) # {}}
    /\ pc' = "spawn"
    /\ UNCHANGED <<migVars, i, allDone, created, aborts, src, power, images,
                   dataVars>>

\* changed_regions fails: an API error, or a base that no longer exists.  The
\* snapshot just taken stays behind.
RoundDeltaError ==
    /\ RoundSnapshot
    /\ live' = [live EXCEPT ![i] = @ \cup {Snapshot(i).id}]
    /\ failMigration
    /\ UNCHANGED <<approved, aborts, src, power, images, dataVars>>

\* Mutant: the length of the merged region is not extended to the last one.
mergeRegionsShort(C, T, gap) ==
    {b \in T : \A lo \in T : lo < b => b - lo - 1 > gap}

\* mergeRegions: the regions T of one type among the changed ones C, and the
\* blocks between two neighbours of this type that are at most gap apart.
mergeRegions(C, T, gap) ==
    T \cup {b \in Block : \E lo, hi \in T :
                  /\ lo < b /\ b < hi
                  /\ hi - lo - 1 <= gap
                  /\ \A c \in C : c <= lo \/ hi <= c}

\* buildDeltaSyncConfigMap with the merged regions of disk d.  A ZEROED region
\* gives a changed block the content it has in the snapshot, zeros; what lies in
\* a gap is zeroed as well.
buildDeltaSyncConfigMap(s, d, Z, gap) ==
    LET C == ChangedRegions(s.pending, s.last, d)
        zeroed == mergeRegions(C, Z, gap)
    IN  [round  |-> s.rounds + 1,
         blocks |-> mergeRegions(C, C \ Z, gap) \cup zeroed,
         zeroed |-> zeroed,
         zeros  |-> [b \in Block |-> IF b \in Z THEN s.pending.data[DiskAt[d]][b] ELSE 0]]

\* The possible sets of ZEROED regions among the changed ones.
Zeroed(C) == IF "zeroed" \in Faults THEN SUBSET C ELSE {{}}

\* The name of ConfigMap and Job is that of VM, disk and round.  One that is
\* there is kept (AlreadyExists), with the regions and the path it was given.
CreateConfigMap(d) ==
    /\ pc = "spawn" /\ d \in todo
    /\ cm[i][d].round # loc[i].rounds + 1
    /\ \E Z \in Zeroed(ChangedRegions(loc[i].pending, loc[i].last, d)), gap \in MergeGaps :
          cm' = [cm EXCEPT ![i][d] = buildDeltaSyncConfigMap(loc[i], d, Z, gap)]
    /\ created' = TRUE
    /\ UNCHANGED <<migVars, pc, i, loc, allDone, todo, aborts, prismVars, dv,
                   target, job, strays, dropped, missed>>

\* buildDeltaSyncJob: a Job that reads disk d of a snapshot and takes its
\* regions from the ConfigMap of the same name.
buildDeltaSyncJob(snapshot, d, c) ==
    [st |-> "active", round |-> loc[i].rounds + 1, snap |-> snapshot.id,
     out |-> [b \in Block |-> IF b \in cm[i][d].zeroed THEN cm[i][d].zeros[b]
                                 ELSE snapshot.data[DiskAt[d]][b]],
     left |-> cm[i][d].blocks, cache |-> c]

\* The pod of the Job of disk d.
PodOf(v, d) == [disk |-> d, snap |-> job[v][d].snap, out |-> job[v][d].out,
                left |-> job[v][d].left]

\* The pods of those Jobs of the disks in D that are active.
ActivePods(v, D) == {PodOf(v, d) : d \in {e \in D : job[v][e].st = "active"}}

\* Mutant: the Job is given the path of the base snapshot.
CreateJobFromBase(d) ==
    /\ pc = "spawn" /\ d \in todo
    /\ cm[i][d].round = loc[i].rounds + 1
    /\ job[i][d].round # loc[i].rounds + 1
    /\ job' = [job EXCEPT ![i][d] = buildDeltaSyncJob(loc[i].last, d, "present")]
    /\ loc' = [loc EXCEPT ![i].jobs = @ \cup {d}]
    /\ todo' = todo \ {d}
    /\ created' = TRUE
    /\ UNCHANGED <<migVars, pc, i, allDone, aborts, prismVars, dv, target, cm,
                   strays, dropped, missed>>

\* A Job of an older round that is still there is not looked at any more.
CreateJob(d) ==
    /\ pc = "spawn" /\ d \in todo
    /\ cm[i][d].round = loc[i].rounds + 1
    /\ IF job[i][d].round = loc[i].rounds + 1
         THEN UNCHANGED <<job, strays>>
         ELSE /\ \E c \in {"present"} \cup (IF "lag" \in Faults THEN {"absent"} ELSE {}) :
                    job' = [job EXCEPT ![i][d] = buildDeltaSyncJob(loc[i].pending, d, c)]
              /\ strays' = [strays EXCEPT ![i] = @ \cup ActivePods(i, {d})]
    /\ loc' = [loc EXCEPT ![i].jobs = @ \cup {d}]
    /\ todo' = todo \ {d}
    /\ created' = TRUE
    /\ UNCHANGED <<migVars, pc, i, allDone, aborts, prismVars, dv, target, cm,
                   dropped, missed>>

\* Mutant: allDone is not cleared when Jobs are started.
RoundSpawnedDone ==
    /\ pc = "spawn" /\ todo = {}
    /\ loc' = [loc EXCEPT ![i].phase = "DeltaSyncing"]
    /\ NextVM
    /\ UNCHANGED <<migVars, allDone, todo, created, aborts, prismVars, dataVars>>

RoundSpawned ==
    /\ pc = "spawn" /\ todo = {}
    /\ loc' = [loc EXCEPT ![i].phase = "DeltaSyncing"]
    /\ allDone' = FALSE
    /\ NextVM
    /\ UNCHANGED <<migVars, todo, created, aborts, prismVars, dataVars>>

\* A round is under way: the state of its Jobs as the cache shows it.
RoundPending ==
    /\ AtVM
    /\ loc[i].phase # doneMark
    /\ loc[i].pending.id # 0

\* Mutant: a Job that is still active counts as finished.
JobShowsFailure(d, state) ==
    job[i][d].st = state /\ job[i][d].cache = "present" /\ state = "failed"

JobShows(d, state) == job[i][d].st = state /\ job[i][d].cache = "present"

RoundWait ==
    /\ RoundPending
    /\ \E d \in loc[i].jobs : JobShows(d, "active")
    /\ \A d \in loc[i].jobs : ~JobShows(d, "failed")
    /\ allDone' = FALSE
    /\ NextVM
    /\ UNCHANGED <<migVars, loc, todo, created, aborts, prismVars, dataVars>>

RoundJobFailed ==
    /\ RoundPending
    /\ \E d \in loc[i].jobs : JobShows(d, "failed")
    /\ failMigration
    /\ UNCHANGED <<approved, aborts, prismVars, dataVars>>

\* Every Job is complete or not to be found: clean up, promote the snapshot.  A
\* Job is deleted with background propagation: if it is active after all, its
\* pod goes on for a while.  Deletions that fail are ignored.
RoundPromote ==
    /\ RoundPending
    /\ \A d \in loc[i].jobs : ~JobShows(d, "active") /\ ~JobShows(d, "failed")
    /\ \E gone \in Deleted(loc[i].jobs) :
          /\ job' = [job EXCEPT ![i] = [d \in Disk |-> IF d \in gone THEN NoJob ELSE @[d]]]
          /\ strays' = [strays EXCEPT ![i] = @ \cup ActivePods(i, gone)]
    /\ \E gone \in Deleted(loc[i].jobs) :
          cm' = [cm EXCEPT ![i] = [d \in Disk |-> IF d \in gone THEN NoCM ELSE @[d]]]
    /\ \E bad \in Undeleted({loc[i].last.id}) :
          live' = [live EXCEPT ![i] = @ \ ({loc[i].last.id} \ bad)]
    /\ loc' = [loc EXCEPT ![i].last = loc[i].pending, ![i].pending = NoCopy,
                          ![i].jobs = {}, ![i].rounds = @ + 1,
                          ![i].phase = IF final THEN doneMark ELSE "DeltaIdle"]
    /\ allDone' = (allDone /\ final)
    /\ missed' = (missed \/ \E d \in loc[i].jobs : job[i][d].st = "active")
    /\ NextVM
    /\ UNCHANGED <<migVars, todo, created, aborts, src, power, images, uuids,
                   dv, target, dropped>>

\* The status patch while some VM is not done.
RoundPatch ==
    /\ AtEnd /\ ~allDone
    /\ EndPass(phase, loc)
    /\ UNCHANGED <<approved, aborts, prismVars, dataVars>>

\* All VMs have converged: wait for the approval or cut over.
ConvergedPatch ==
    /\ AtEnd /\ allDone /\ ~final
    /\ EndPass(IF PauseBeforeCutover THEN "ReadyForCutover" ELSE "WarmCutover", loc)
    /\ UNCHANGED <<approved, aborts, prismVars, dataVars>>

\* Mutant: the pending snapshot of a VM without a final delta is forgotten.
FinalCleanupLast ==
    /\ AtEnd /\ allDone /\ final
    /\ live' = [v \in VM |-> live[v] \ {loc[v].last.id}]
    /\ images' = [v \in VM |-> images[v] \ {loc[v].temp.id}]
    /\ pc' = "patch"
    /\ UNCHANGED <<migVars, i, loc, allDone, todo, created, aborts, src, power,
                   uuids, dataVars>>

\* All VMs are final: their snapshots and pre-copy images are deleted ...
FinalCleanup ==
    /\ AtEnd /\ allDone /\ final
    /\ \E bad \in Undeleted(VM) :
          live' = [v \in VM |-> IF v \in bad THEN live[v]
                                  ELSE live[v] \ {loc[v].last.id, loc[v].pending.id}]
    /\ \E bad \in Undeleted(VM) :
          images' = [v \in VM |-> IF v \in bad THEN images[v]
                                    ELSE images[v] \ {loc[v].temp.id}]
    /\ pc' = "patch"
    /\ UNCHANGED <<migVars, i, loc, allDone, todo, created, aborts, src, power,
                   uuids, dataVars>>

\* ... and the migration moves on to the creation of the VirtualMachines.
FinalPatch ==
    /\ pc = "patch"
    /\ EndPass("CreatingVMs", loc)
    /\ UNCHANGED <<approved, aborts, prismVars, dataVars>>

-----------------------------------------------------------------------------
(***************************************************************************)
(* ReadyForCutover and WarmCutover.                                        *)
(***************************************************************************)

\* Mutant: the annotation is not looked at.
ReadyForCutoverAlways ==
    /\ phase = "ReadyForCutover"
    /\ EndPass("WarmCutover", st)
    /\ UNCHANGED <<approved, aborts, prismVars, dataVars>>

handleReadyForCutover ==
    /\ phase = "ReadyForCutover"
    /\ approved
    /\ EndPass("WarmCutover", st)
    /\ UNCHANGED <<approved, aborts, prismVars, dataVars>>

\* Mutant: a VM counts as off once it was asked to shut down.
OnUnasked == {v \in VM : power[v] = "ON"}

\* Prism reports a VM as ON until its guest has shut down.
On == {v \in VM : power[v] # "OFF"}

\* Mutant: a VM that is marked ShuttingDown is not asked again.
WarmCutoverShutdownOnce ==
    /\ phase = "WarmCutover"
    /\ \E seen \in SUBSET On : \E ask \in SUBSET {v \in seen : st[v].phase # "ShuttingDown"} :
          /\ power' = [v \in VM |-> IF v \in ask THEN "STOPPING" ELSE power[v]]
          /\ EndPass(phase, [v \in VM |-> IF v \in seen
                                             THEN [st[v] EXCEPT !.phase = "ShuttingDown"]
                                             ELSE st[v]])
    /\ UNCHANGED <<approved, aborts, src, live, images, uuids, dataVars>>

\* handleWarmCutover asks every VM that it sees ON to shut down.  The power
\* query of a VM (one not in seen) or its shutdown request (one not in ask) may
\* fail: that is logged and left to a later pass.
WarmCutoverShutdown ==
    /\ phase = "WarmCutover"
    /\ \E seen \in SUBSET On : \E ask \in SUBSET seen :
          /\ power' = [v \in VM |-> IF v \in ask THEN "STOPPING" ELSE power[v]]
          /\ EndPass(phase, [v \in VM |-> IF v \in seen
                                             THEN [st[v] EXCEPT !.phase = "ShuttingDown"]
                                             ELSE st[v]])
    /\ UNCHANGED <<approved, aborts, src, live, images, uuids, dataVars>>

\* All VMs are off.
WarmCutoverOff ==
    /\ phase = "WarmCutover"
    /\ On = {}
    /\ EndPass("WarmFinalDelta", st)
    /\ UNCHANGED <<approved, aborts, prismVars, dataVars>>

-----------------------------------------------------------------------------
(***************************************************************************)
(* The environment: guest, operator's user, CDI and the delta-sync Jobs.   *)
(***************************************************************************)

GuestWrite(v, d, b) ==
    /\ power[v] # "OFF"
    /\ src[v][d][b] <= MaxVersion
    /\ src' = [src EXCEPT ![v][d][b] = @ + 1]
    /\ UNCHANGED <<migVars, passVars, power, live, images, uuids, dataVars>>

PowerOff(v) ==
    /\ power[v] = "STOPPING"
    /\ power' = [power EXCEPT ![v] = "OFF"]
    /\ UNCHANGED <<migVars, passVars, src, live, images, uuids, dataVars>>

Approve ==
    /\ PauseBeforeCutover /\ ~approved
    /\ approved' = TRUE
    /\ UNCHANGED <<phase, st, passVars, prismVars, dataVars>>

CDIImport(v, d) ==
    /\ dv[v][d].st = "importing"
    /\ dv' = [dv EXCEPT ![v][d].st = "succeeded"]
    /\ target' = [target EXCEPT ![v][d] = dv[v][d].img]
    /\ UNCHANGED <<migVars, passVars, prismVars, cm, job, strays, dropped, missed>>

\* runDeltaSync writes one block of its regions.
JobWrite(v, d, b) ==
    /\ job[v][d].st = "active"
    /\ b \in job[v][d].left
    /\ job' = [job EXCEPT ![v][d].left = @ \ {b}]
    /\ target' = [target EXCEPT ![v][d][b] = job[v][d].out[b]]
    /\ dropped' = [dropped EXCEPT ![v] = @ \ {<<d, b>>}]
    /\ UNCHANGED <<migVars, passVars, prismVars, dv, cm, strays, missed>>

\* It exits with 0 once every region is written.
JobComplete(v, d) ==
    /\ job[v][d].st = "active"
    /\ job[v][d].left = {}
    /\ job' = [job EXCEPT ![v][d].st = "complete"]
    /\ UNCHANGED <<migVars, passVars, prismVars, dv, target, cm, strays, dropped, missed>>

\* Its retries (backoffLimit) are used up.
JobFail(v, d) ==
    /\ job[v][d].st = "active"
    /\ job' = [job EXCEPT ![v][d].st = "failed"]
    /\ UNCHANGED <<migVars, passVars, prismVars, dv, target, cm, strays, dropped, missed>>

\* ttlSecondsAfterFinished has passed.
JobExpire(v, d) ==
    /\ \/ job[v][d].st = "complete"
       \/ job[v][d].st = "failed" /\ "ttl" \in Faults
    /\ job' = [job EXCEPT ![v][d] = NoJob]
    /\ UNCHANGED <<migVars, passVars, prismVars, dv, target, cm, strays, dropped, missed>>

\* A pod without a Job writes on ...
StrayWrite(v, p, b) ==
    /\ b \in p.left
    /\ strays' = [strays EXCEPT ![v] = (@ \ {p}) \cup {[p EXCEPT !.left = @ \ {b}]}]
    /\ target' = [target EXCEPT ![v][p.disk][b] = p.out[b]]
    /\ UNCHANGED <<migVars, passVars, prismVars, dv, cm, job, dropped, missed>>

\* ... until it is through or stopped by the garbage collector.
StrayEnds(v, p) ==
    /\ strays' = [strays EXCEPT ![v] = @ \ {p}]
    /\ UNCHANGED <<migVars, passVars, prismVars, dv, target, cm, job, dropped, missed>>

\* The informer cache catches up with a Job.
CacheSync(v, d) ==
    /\ job[v][d].st # "none" /\ job[v][d].cache = "absent"
    /\ job' = [job EXCEPT ![v][d].cache = "present"]
    /\ UNCHANGED <<migVars, passVars, prismVars, dv, target, cm, strays, dropped, missed>>

-----------------------------------------------------------------------------
PreSync ==
    \/ PreSyncSnapshot
    \/ PreSyncImage
    \/ PreSyncImaged
    \/ createDataVolumesFromTempImages
    \/ PreSyncPatch
    \/ handleWarmSyncing

runDeltaRound ==
    \/ RoundSkip
    \/ RoundConverge
    \/ RoundZero
    \/ RoundStart
    \/ RoundDeltaError
    \/ \E d \in Disk : CreateConfigMap(d) \/ CreateJob(d)
    \/ RoundSpawned
    \/ RoundWait
    \/ RoundJobFailed
    \/ RoundPromote
    \/ RoundPatch
    \/ ConvergedPatch
    \/ FinalCleanup
    \/ FinalPatch

Cutover ==
    \/ handleReadyForCutover
    \/ WarmCutoverShutdown
    \/ WarmCutoverOff

Reconcile == PreSync \/ runDeltaRound \/ Cutover

RunJob(v, d) == (\E b \in Block : JobWrite(v, d, b)) \/ JobComplete(v, d)

RunStray(v, p) == StrayEnds(v, p) \/ \E b \in Block : StrayWrite(v, p, b)

Environment ==
    \/ Approve
    \/ \E v \in VM : PowerOff(v)
    \/ \E v \in VM : \E p \in strays[v] : RunStray(v, p)
    \/ \E v \in VM, d \in Disk : \/ \E b \in Block : GuestWrite(v, d, b)
                                 \/ CDIImport(v, d)
                                 \/ RunJob(v, d)
                                 \/ JobFail(v, d)
                                 \/ JobExpire(v, d)
                                 \/ CacheSync(v, d)

Next == Reconcile \/ PrismError \/ AbortPass \/ Environment

Spec == Init /\ [][Next]_vars

(***************************************************************************)
(* A pass that has begun goes on, and the next one follows it: handlers    *)
(* requeue themselves (RequeueAfter).  CDI, the Jobs, the guests that were *)
(* asked to shut down and the user who has to approve are assumed to act.  *)
(***************************************************************************)
Fairness ==
    /\ WF_vars(Reconcile)
    /\ WF_vars(Approve)
    /\ \A v \in VM : WF_vars(PowerOff(v))
    /\ \A v \in VM, d \in Disk : WF_vars(CDIImport(v, d)) /\ WF_vars(RunJob(v, d))

FairSpec == Spec /\ Fairness

-----------------------------------------------------------------------------
(***************************************************************************)
(* Properties.                                                             *)
(***************************************************************************)

\* The disks handed to CreatingVMs hold what the powered-off source holds,
\* except for blocks whose delta a convergence skipped and no later Job wrote
\* (runDeltaRound, final = true: "disks consistent with shutdown state").
FinalConsistent ==
    phase = "CreatingVMs" =>
        \A v \in VM, d \in Disk, b \in Block :
            <<d, b>> \notin dropped[v] => target[v][d][b] = src[v][d][b]

\* RPO=0 as the specification of the delta sync has it: the target is
\* byte-consistent with the powered-off source when WarmFinalDelta is over.
RPOZero == phase = "CreatingVMs" => target = src

\* Whatever base a VM's status names, the target has already got its content:
\* no promotion runs ahead of the data (the round's clean-up promotes only
\* after the Jobs), but for the blocks a convergence skipped.
BaseReachedTarget ==
    phase \in {"WarmDeltaSync", "ReadyForCutover", "WarmCutover", "WarmFinalDelta"} =>
        \A v \in VM, d \in Disk, b \in Block :
            <<d, b>> \notin dropped[v] => st[v].last.data[d][b] <= target[v][d][b]

\* As long as the cache has not hidden an active Job from the pass that promoted
\* its round, the snapshot that a pod of a delta-sync Job reads over NFS is never
\* deleted under it.
JobSourceExists ==
    ~missed =>
        \A v \in VM : /\ \A d \in Disk : job[v][d].st = "active" => job[v][d].snap \in live[v]
                      /\ \A p \in strays[v] : p.snap \in live[v]

\* When the VirtualMachines are created no delta-sync pod writes to their disks
\* any more, whether its Job still exists or was deleted, unless the cache has
\* hidden an active Job from the pass that promoted its round.
NoWriterAtHandOver ==
    phase = "CreatingVMs" /\ ~missed =>
        \A v \in VM : strays[v] = {} /\ \A d \in Disk : job[v][d].st # "active"

\* A migration without an aborted pass and without failed deletions hands over
\* with no snapshot, image, ConfigMap or Job left behind.
CleanHandOver ==
    phase = "CreatingVMs" /\ aborts = 0 /\ "delete" \notin Faults =>
        \A v \in VM : /\ live[v] = {} /\ images[v] = {}
                      /\ \A d \in Disk : cm[v][d] = NoCM /\ job[v][d] = NoJob

\* A snapshot that the status does not name is one a lost or failed pass has
\* left behind: no VM loses more of them than there were such passes
\* (failMigration and aborted passes forget what they have created).
LeakBounded ==
    pc = "loop" /\ i = 1 /\ "delete" \notin Faults /\ phase # "CreatingVMs" =>
        \A v \in VM : Cardinality(live[v] \ {st[v].last.id, st[v].pending.id})
                        <= aborts + (IF phase = "Failed" THEN 1 ELSE 0)

\* However fast the guest writes, a VM goes through at most maxDeltaRounds
\* rounds before the cutover and one after it.
RoundsBounded ==
    \A v \in VM : st[v].rounds <= MaxDeltaRounds + (IF phase \in {"WarmFinalDelta", "CreatingVMs", "Failed"} THEN 1 ELSE 0)

\* A block of the target never goes back to older content, whichever Jobs,
\* imports and retries write it, unless the cache has hidden an active Job from
\* the pass that promoted its round.
TargetNeverRegresses ==
    [][~missed => \A v \in VM, d \in Disk, b \in Block : target'[v][d][b] >= target[v][d][b]]_vars

\* Once the disks are handed over neither end of the copy changes any more: no
\* guest writes to a source, no late import and no Job of a repeated or
\* forgotten round (the clean-up of runDeltaRound) writes to a target.
HandOverFinal == [][phase = "CreatingVMs" => UNCHANGED <<src, target>>]_vars

\* A source VM is asked to shut down only when the cutover was approved (if
\* approval is required), every disk of every VM is imported and, unless the
\* cache has hidden an active Job, nothing writes to a target.
ShutdownOnlyAtCutover ==
    [][\A v \in VM : power[v] = "ON" /\ power'[v] # "ON" =>
          /\ PauseBeforeCutover => approved
          /\ \A w \in VM, d \in Disk : dv[w][d].st = "succeeded"
          /\ ~missed => \A w \in VM : /\ strays[w] = {}
                                      /\ \A d \in Disk : job[w][d].st # "active"]_vars

\* The delta sync keeps the promise of HandOver: CreatingVMs is entered when
\* all sources are off and all targets equal them (but for the blocks whose
\* delta a convergence skipped), and no write to either follows.
Contract == INSTANCE HandOver WITH
    stage   <- CASE phase = "CreatingVMs" -> "handed"
                 [] phase = "Failed" -> "failed"
                 [] OTHER -> "copying",
    running <- {v \in VM : power[v] # "OFF"},
    synced  <- {v \in VM : \A d \in Disk, b \in Block :
                              <<d, b>> \notin dropped[v] => target[v][d][b] = src[v][d][b]}

ImplementsHandOver == Contract!Spec

\* Every migration ends: it is handed over or it fails.
Terminates == <>(phase \in {"CreatingVMs", "Failed"})

=============================================================================
