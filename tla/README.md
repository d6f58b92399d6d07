# A TLA+ model of the AHV-to-OVE migration operator

The operator moves virtual machines from Nutanix AHV to OpenShift
Virtualization. One custom resource, `AHVMigration`, names the VMs and the mode
of the migration; a controller drives it through phases, one reconcile pass
after another, until it is `Completed` or `Failed`.

What makes this hard is not a single pass but what happens between two of them.
A pass changes the world (snapshots, images, DataVolumes, Jobs, power,
VirtualMachines) and then records what it did in one status patch. The operator
may crash, or the patch may fail, after any of these changes; the source guest
keeps writing; CDI, Jobs and KubeVirt work at their own pace; Prism requests
fail. The models keep all of this control and reduce disk content to version
numbers.

## 1. The system and its parts

| Part | State | Operations | Modelled in |
|---|---|---|---|
| Reconciler phase machine (`controllers/ahvmigration_controller.go`) | `status.phase`, `status.vms` | one handler per phase, `failMigration` | `Migration` (without CBT), `DeltaSync` (CBT phases) |
| CBT delta sync (`controllers/cbt_sync.go`) | base and pending snapshot, Job references, rounds of every VM | `runDeltaRound`, for `WarmDeltaSync` and `WarmFinalDelta` | `DeltaSync` |
| Guest preparation (`controllers/guest_prep.go`) | VM phase `GuestPrepped`/`GuestPrepFailed` | `handleGuestPrepping`; SSH and WinRM sessions | `Migration` (several VMs), `GuestPrep` (one VM and its session) |
| delta-sync runner (`deltasync.go`) | none; writes the PVC | copy the regions of one disk with concurrent workers | `DeltaRunner`, as a `DeltaJob` |
| Changed-region lists (`cbt_sync.go:104-155`) | none | merge, widen | `Regions` |
| Prism client (`controllers/prism_client.go`) | none; Prism holds snapshots, images, power | create, poll, list, delete, shut down | `PrismClient`, `DiskPaths`; the rest as the handlers see it |
| CDI resources (`cdi_resources.go`) | DataVolumes, found by name | build, name | `Migration`, `DeltaSync`, `Names` |
| KubeVirt resources (`kubevirt_resources.go`) | VirtualMachines and their NICs | build, resolve networks, switch networks | `Migration`, `Networks`, `Names` |
| API types, `main.go`, console plugin, manifests | | | only the fields that steer control, and the approval annotation |

The parts meet in shared objects. The controller and the user share the
annotations `cutover-approved` and `test-approved`; the controller, CDI and the
Jobs share DataVolumes and their PVCs; the controller and KubeVirt share
VirtualMachines; migrations in one namespace share the names of its objects.
The controller has one worker, so two passes never overlap; concurrency comes
from the environment, from the goroutines of the delta-sync runner, and from
the goroutine that dials a guest.

## 2. Modules

| Module | What it holds |
|---|---|
| `DeltaSync` | model of the CBT path, its properties, and mutated definitions used to test the properties |
| `DeltaSyncInv` | `Sandwich`, the inductive invariant of disk contents, and `Quiet`, the assumption under which it holds |
| `DeltaSyncProofs` | proofs: types, `Sandwich` and what follows from it, what holds with lost passes, expired Jobs and failing deletions, and the refinement of `HandOver` |
| `MCDeltaSync` | constants for TLC |
| `Migration` | model of all phases without CBT, and its properties |
| `MigrationProofs` | proofs: its invariants, and the refinement of `HandOver` |
| `MCMigration` | sets of `AHVMigration` specs for TLC |
| `HandOver` | abstract specification: what a migration that stops its sources promises; `DeltaSync` and `Migration` implement it |
| `RegionList` | regions, and the blocks a list of them stands for |
| `Regions`, `MCRegions` | `mergeRegions` and `prepareRegions` |
| `RegionsProofs` | proofs: what `mergeRegions` returns |
| `DeltaJob` | abstract specification of a delta-sync Job, as the reconciler uses it |
| `DeltaRunner`, `MCDeltaRunner` | the runner in the pods of a Job; implements `DeltaJob` |
| `DeltaRunnerProofs` | proofs: durability, fsync, and the steps of `DeltaJob` |
| `DiskPaths`, `MCDiskPaths` | the three lists of disks that are used by position |
| `PrismClient` | the calls of several requests |
| `PrismProofs` | proofs for `DiskPaths` and `PrismClient` |
| `GuestPrep`, `GuestPrepProofs` | one preparation with its SSH or WinRM session; proofs |
| `Networks`, `MCNetworks`, `NetworksProofs` | the NICs of a VirtualMachine, in test and production; proofs |
| `Names`, `MCNames`, `NamesProofs` | several migrations in one namespace; proofs |

### DeltaSync

It begins in `WarmPreSync` and ends in `CreatingVMs` (hand-over) or `Failed`.

A pass is split at every API call that another actor can observe. `loc` is
`newVMStatuses`, the copy of `status.vms` the pass works on; `st` is what is
persisted; `pc` and `i` say where the pass is. `EndPass(p, s)` is the status
patch; `AbortPass` ends a pass without it: `loc` is forgotten, the effects stay.

A snapshot is a UUID and the content of all disks (`Copy`). Guest writes give a
block a higher version, so "older" and "newer" content is `<`. `SnapshotPaths` is
a snapshot together with `DiskAt`, the disk whose path is at a position: the
code sorts paths by bus, DataVolumes by `DiskList`.

Blocks have their offset. A ConfigMap holds the blocks of the merged regions:
`mergeRegions` adds those that lie in a gap between two neighbours of one type,
and a gap between two ZEROED regions is zeroed with them. (`Regions` has the
loops of this function; here is what they compute.) The gap that
`prepareRegions` ends with is any of `MergeGaps`.

ConfigMaps and Jobs carry the round of their name. `job` and `cm` are the newest
of a disk; one that survives its deletion stays until an object of a later round
takes its place. A deletion runs in the background: the pod of an active Job that is
deleted, or left behind under an older name, moves to `strays`. It may go on
writing (`StrayWrite`) or be stopped (`StrayEnds`) at any time.

| Actions | Code |
|---|---|
| `PreSyncSnapshot`, `PreSyncImage`, `createDataVolumesFromTempImages`, `PreSyncPatch` | `handleWarmPreSync` |
| `handleWarmSyncing`, `handleReadyForCutover`, `WarmCutoverShutdown`, `WarmCutoverOff` | the handlers of these phases |
| `RoundSkip`, `RoundConverge`, `RoundZero`, `RoundStart`, `CreateConfigMap`, `CreateJob`, `RoundSpawned` | first half of `runDeltaRound`, per VM |
| `RoundWait`, `RoundJobFailed`, `RoundPromote` | second half: a round is pending |
| `RoundPatch`, `ConvergedPatch`, `FinalCleanup`, `FinalPatch` | end of `runDeltaRound` |
| `PrismError`, `RoundDeltaError`, `AbortPass` | error returns, crashes |
| `GuestWrite`, `PowerOff`, `Approve`, `CDIImport`, `JobWrite`, `JobComplete`, `JobFail`, `JobExpire`, `StrayWrite`, `StrayEnds`, `CacheSync` | environment |

`Faults` switches on what the code does not survive, so that the same model
shows both what holds and what does not:

* `lost_create`: a pass is aborted after it created a DataVolume, ConfigMap or Job;
* `ttl`: a failed Job is removed by its TTL before a pass sees it;
* `lag`: the informer cache does not show a new Job yet;
* `delete`: deletions of snapshots, images, Jobs and ConfigMaps fail, which the
  code ignores;
* `zeroed`: Prism reports some of the changed regions as ZEROED.

Always on, in every run: aborts before the first creation of a pass, failing
Jobs, failing Prism requests, expiry of complete Jobs.

`dropped` is a history variable: the blocks that differed between the old and
the new base when a convergence promoted a snapshot without syncing it. So is
`missed`: a round was promoted while one of its Jobs was active, because the
cache did not show the Job and a Job that is not found counts as complete
(`cbt_sync.go:397`). From then on the pod of that Job reads a snapshot that may be
deleted and writes whatever is handed over in the meantime; what is promised
about pods is promised up to there.

### Migration

It runs from the empty phase to `Completed` or `Failed`. The spec is chosen in
the initial state and never changes. One action is one pass of a handler. A pass
handles the VMs in order: it may stop after any VM `n` (crash or returned
error), it may fail the migration there, and it may lose its patch at the end
(`Finish`, `Lose`, `failMigration`). Treating the rest of a pass as one step is
sound here because in these handlers the data of one VM is only read once per
pass; the CBT path, where that is not so, has the finer model. Within one VM the
images of a running source are taken at one instant; the properties speak only
of copies taken from stopped sources.

A DataVolume is known by VM and disk index, as in `dvName`, and one that exists
or is still being deleted is not created again. An image or a DataVolume holds a
disk position and a version, so that a copy of the wrong disk can be told from a
stale one. `createDataVolumes` imports the image a disk was cloned from
(version 0), and nothing for a bare disk. `images` counts the images in Prism
that a status names and those that none names any more.

Faults: `final_sync` (a patch of `WarmFinalSync` is lost after it created
DataVolumes), `image` (`CreateImageFromDisk` fails in `PreparingImages`),
`prism_create` (`GetVMByName` fails in `CreatingVMs`), `delete` (`DeleteImage` of
the pre-copy images fails in `WarmFinalSync`, which is only logged), `hidden`
(`handleTestPending` cannot read a VirtualMachine or its instance), `forbidden`
(it can read no instance at all: `config/rbac/role.yaml` as shipped grants
`virtualmachines` only).

### Regions and DeltaRunner

`Regions` takes one step per turn of the two loops, so that what they compute is
a question about reachable states and no recursive definition is needed. The
reference is the set of blocks that a list stands for (`BlocksOf`). Prism is
taken to list regions in order, as the code does.

`DeltaRunner` has the main goroutine, one goroutine per region, the semaphore
and the channel `results`. A write goes to the page cache (`cache`); `disk` is
what is durable. Around the runner is the Job: a pod that fails or is killed is
replaced until `BackoffLimit` is reached, and each new pod starts from the
beginning. `DeltaSync` uses the Job as `JobWrite`, `JobComplete`, `JobFail`;
that is what `DeltaJob` says, with the blocks that are durable as its state.

### PrismClient and DiskPaths

One behaviour of `PrismClient` is one call. Between its requests the snapshot or
image may end, the guest may shut down and time may pass; any request may fail,
or succeed with its answer lost, or never be answered: the HTTP client has no
timeout (`prism_client.go:79`). Time is counted in pauses of 10 seconds.

`DiskPaths` builds the lists a CBT migration uses by position: `DiskList` (in
the order of `disk_list`), `SnapshotPaths` of the base and of a new snapshot (in
bus order), and the images, one turn of a loop after another.
`snapshot_file_list` comes in any order and holds CDROMs and files of other VMs.
The code skips a vdisk that names no VM or another one; that the vdisk of a CDROM
names none is the word of its comments (`prism_client.go:347`, `381`), and the
constant `CDROMsAttached` says whether it is so.
`sort.SliceStable` is described by its result (`StableOrder`): the arrangement
of the indices that is in bus order and keeps the order of equal ones.

### GuestPrep

A pass is `start`, `dial`, `session` or `winrm`, `script`, `record`. The
goroutine of `sshDialWithContext`, its channel and its connection are kept per
pass, since they outlive it. A pass is lost by a crash or a failing patch.

### Networks and Names

`Networks` keeps `hasTestTarget`, `resolveNetwork` and the three builders of NIC
lists; the source's NICs may be edited between the passes that read them.

In `Names` an object has a name, made of what is left of the migration's name
and the indices, and `for`, what it was made for. All code paths look an object
up by its name alone; `for` is only read by the properties.

### The two abstract specifications

`HandOver` has three variables: the stage, the sources that still run, and the
VMs whose targets equal their sources. `DeltaSync` maps `phase` and, for
`synced`, target against source outside `dropped`; `Migration` maps the phases
from `CreatingVMs` on to "handed" and compares DataVolumes with sources. Both
are checked as properties (`ImplementsHandOver`). The modes of `Migration` that
promise no consistent copy (no shutdown, or no final sync) are left out.

## 3. Properties and runs

### Passing runs

`delta_sync` (2 VMs, 1 disk of 3 blocks each, gaps of 0 and 1 blocks closed, 1
round before the cutover, writes of the guests at any 2 points, 1 abort): the VMs
converge at different times, and regions of changed blocks grow over unchanged
ones.

* `Sandwich`: the inductive invariant of section 4;
* `FinalConsistent`: at hand-over the targets equal the powered-off sources, but
  for blocks in `dropped`;
* `BaseReachedTarget`: a base named in a status has reached the target;
* `CleanHandOver`: no snapshot, image, ConfigMap or Job is left behind;
* `LeakBounded`: lost and failed passes leave at most one snapshot each that no
  status names;
* `RoundsBounded`: `maxDeltaRounds` rounds before the cutover and one after it;
* `ShutdownOnlyAtCutover`: a source is shut down only after approval, with every
  disk of every VM imported and, unless `missed`, nothing writing to a target;
* `ImplementsHandOver`; `TypeOK`.

`delta_faults` (1 VM, 1 disk, 2 rounds before the cutover, 2 writes, 1 abort; all
faults but `zeroed`). Unless `missed`,

* `JobSourceExists`: the snapshot a pod reads is not deleted under it;
* `NoWriterAtHandOver`: no pod, with or without its Job, writes to a disk that was
  handed over;
* `TargetNeverRegresses`: no write makes a target block older;

and always `Terminates`: every migration is handed over or fails. With `zeroed`
the third does not hold: zeros in a gap are older than what they replace.

Two variants of `delta_faults` pass too, to be run by hand: the three safety
properties with two disks,
`MaxVersion` and `MaxDeltaRounds` 1 (8.6 million states), and `Terminates` with
two VMs, `Faults = {"ttl"}`, `MaxVersion` and `MaxDeltaRounds` 1.

`migration` (2 VMs, 2 disks, 1 write per disk, 1 lost pass, the modes of
`AllSpecs`, failing image deletions, the role as shipped):

* `CopyConsistent`: in cold migrations and warm ones with final sync, past the
  import each DataVolume holds the final content of its own disk;
* `PreppedBeforeCopy`: nothing is copied before the preparation has succeeded;
* `NoTwin`: source and target of a VM never run together;
* `TestIsolated`: not on the production network before the test is approved;
* `AllMigrated`: `Completed` means every VM and every disk;
* `ShutdownAllowed`: when a source may be shut down;
* `OrphansBounded`: images that no status names any more are at most one per disk
  for each lost or failed pass, and one if deletions fail, however often the
  final sync is repeated;
* `ImplementsHandOver`, in the modes that stop the sources;
* `Terminates`, `TypeOK`.

`regions` (all ordered lists of up to 4 regions on 8 blocks):

* `MergedExactly`: the blocks that were changed and the closed gaps, under their
  type, and nothing else;
* `MergedOrdered`: no overlap, so no two workers write the same block.

`delta_runner` (3 regions, 2 workers, 1 replaced pod, 3 errors, 1 crash):

* `ImplementsDeltaJob`, with its fairness: the Job ends, and only with success
  when all blocks are durable;
* `SuccessIsDurable`: a node crash after success loses nothing;
* `QuietAtFsync`: no goroutine writes once the results are in.

`disk_paths`: `PathsOfDisks`, all lists agree at every position, if no request
fails, `disk_list` is in bus order and no CDROM names its VM.

`prism_client` (4 attempts in place of 60): `SuccessIsReal`, what a call reports
is so; `ReturnsIfAnswered`, a call whose requests are answered returns, even if
Prism never finishes. A request that hangs holds the call, and the only worker of
the controller, for ever: `Returns`, the property
without that hypothesis, fails.

`guest_prep` (two lost passes):

* `SuccessIsReal`: the migration goes on only after exit code 0;
* `ConnectionClosed`: a connection stays open only if its dial outlived the
  deadline;
* `DialerEnds`: the goroutine never waits for a reader;
* `WinRMReturns`: a hanging guest does not block the operator (WinRM).

`networks`: `SwitchIsDirect`, with or without a test a completed VM has the same
networks and addresses; `TestIsRehearsal`, the test differs in the networks only.

`names` (2 migrations, 2 VMs each, 2 rounds): with names that differ in the
characters that are kept, `OwnObjects` and `DeltasWritten`.

The `TypeOK` of these seven modules documents their state; the runs spend their
time on the properties above.

### Runs that show a disagreement

| Run | Property | What happens |
|---|---|---|
| `delta_rpo` | `RPOZero` | A delta at or below the threshold is never written to the target |
| `delta_zeroed` | `FinalConsistent` | Unchanged data between two ZEROED regions is zeroed, without any failure |

`PROJECT.json` quotes, for each, the line of the repository it contradicts.

### Further configurations

Each of these `.cfg` files makes TLC show another place where the code does not
do what a comment or document says. They are kept to be run by hand (`tlc -config
X.cfg M`, with the module `M` of the first column) and after a change to the
code in question. Where no file is named, the second column says what to change in
another one.

| Module, configuration | Property | What happens, and what the repository says |
|---|---|---|
| `MCDeltaSync`, `delta_lost_create` | `FinalConsistent` | A repeated pass keeps the Job or DataVolume of the lost one (`cbt_sync.go:376`, `ahvmigration_controller.go:347`; `cbt_sync.go:469`: "disks consistent with shutdown state") |
| `MCDeltaSync` | `FinalConsistent`, in `delta_lost_create` with `Faults = {"ttl"}` | An expired failed Job counts as done (`cbt_sync.go:397`: "TTL で消えた = 完了扱い") |
| `MCDeltaSync`, `delta_disk_order` | `FinalConsistent` | Bus order and disk order differ (`prism_client.go:344`: "ディスク順で返す") |
| `MCDeltaSync` | `HandOverFinal` as `PROPERTY`, in `delta_lost_create` with `Faults = {"lag"}` | A Job that the cache does not show yet counts as done and is deleted; its pod writes on after the hand-over (`cbt_sync.go:397`, `419`) |
| `MCMigration`, `migration_test_vlan` | `SwitchStopped` | With the role as shipped the networks are switched while a test instance still runs (`ahvmigration_controller.go:919`: "VMI が消えるまで待つ") |
| `MCMigration`, `migration_final_sync` | `Terminates` | A lost patch makes new DataVolumes look like old ones (`ahvmigration_controller.go:556`) |
| `MCMigration`, `migration_guest_prep` | `AllMigrated` | Preparation in the default mode skips the DataVolumes (`guest_prep.go:121`) |
| `MCMigration`, `migration_skipped_vm` | `AllMigrated` | A Prism error skips a VM (`ahvmigration_controller.go:789`) |
| `MCMigration`, `migration_image_failed` | `CopyConsistent` | A disk whose image failed is left out and the next one moves up (`ahvmigration_controller.go:209`: "まだやっていない disk のみ") |
| `MCMigration`, `migration_images_left` | `ImagesDeleted` | Images of a cold migration stay in Prism (`ahvmigration_types.go:297`: "移行完了後に削除") |
| `MCRegions`, `regions_zeroed_gap` | `ZeroesOnlyZeroed` | A gap between two ZEROED regions is zeroed (`cbt_sync.go:28`: "正しさに影響しない") |
| `MCRegions`, `regions_too_many` | `FitsConfigMap` | Alternating types never fit (`cbt_sync.go:129`: "ConfigMap に収まる件数まで圧縮する") |
| `MCDiskPaths`, `disk_paths_dropped` | `PathsOfDisks` | A failing request drops a disk, the others move up (`prism_client.go:381`) |
| `MCDiskPaths`, `disk_image_uuid` | `ImagesOfDisks` | The UUID of an image is used as that of a disk (`prism_client.go:584`: "bare disk の vdisk UUID") |
| `MCDiskPaths` | `PathsOfDisks`, in `disk_paths` with `CDROMsAttached = TRUE` | A CDROM that names its VM takes a position in the paths (`prism_client.go:391`) |
| `PrismClient` | `Returns`, in `prism_client` | A request without an answer never ends (`prism_client.go:79`) |
| `PrismClient`, `prism_no_pause` | `GivesUpLate` | 60 attempts without a pause (`prism_client.go:655`: "10秒待ちリトライ") |
| `GuestPrep`, `guest_prep_timeout` | `ScriptTimeout` | An SSH script that hangs has no timeout (`README.md:310`: "SSH script timeout") |
| `MCNetworks`, `networks_edited` | `TestedIsSwitched` | A NIC removed from the source is removed from the tested VM (`ahvmigration_types.go:226`) |
| `MCNames`, `names_dv` | `OwnObjects` | Names that agree in 40 characters share DataVolumes |
| `MCNames`, `names_job` | `DeltasWritten` | Names that agree in 30 characters share Jobs |
| `MCNames`, `names_vm` | `OwnObjects` | An existing VirtualMachine is taken for the migrated one (`README.md:360`: "All VMs migrated successfully") |

### Bounds

* Two versions above the initial one are enough to have a write before and after
  each of two snapshots; of two VMs, one can be done while the other is not.
* One abort suffices for a retry to meet the remains of the lost pass. A second
  abort repeats the same from a state of the same kind.
* `MaxDeltaRounds` 1 reaches the limit, and with two writes both the convergence
  it forces and a final round that begins from a promoted base; 2, in
  `delta_faults`, lets the pod or Job of one round meet those of two later ones.
  The theorems of section 4 cover any number of rounds.
* One block per disk where gaps play no role; `delta_sync` and `delta_zeroed` have
  three, the fewest with a gap between two regions. `MaxWrites` (`FewWrites`)
  bounds the writes to all blocks of `delta_sync` together to two: two regions of
  one VM with a gap between them, the same block twice, or one write for each VM.
  The theorems of section 4 cover any number of blocks and writes, and any gaps.
* `delta_faults` has one VM and one disk: with more of them all faults at once are
  beyond the time of a run, but for the two variants above.
* `AllSpecs` combines the features that meet in a handler. Preparation is not
  combined with a test, nor a pause with a missing final sync: they touch
  different phases.
* `regions`: four regions are two pairs of neighbours, enough for every order of
  types and gaps; a limit of 2 regions and gaps of 1, 4 and 16 blocks make the
  list too long, short enough after widening, and never short enough.
* `delta_runner`: three errors are the fewest that fail a region; three regions
  with two workers make one wait for the semaphore.
* `prism_client`: the number of attempts only scales the loop.
* `guest_prep`: two lost passes leave two dials of earlier passes behind.
* `names`: two rounds, since a Job of the first may be met in the second.

Deadlock is not checked: a migration that is over really stops.

### Fairness

`WF(Reconcile)`: every handler asks to be called again until the phase is
terminal, and controller-runtime retries a pass that returned an error. Since a
pass that changes nothing is a stuttering step, weak fairness also says that a
request that keeps failing (a power query, a shutdown request) succeeds at some
time. It also says that every request of a pass to Prism is answered, which is an
assumption on the environment: the client has no timeout. For the approvals, the shutdown of a guest that was asked, the import by
CDI, the deletion of DataVolumes, the stop of an instance and the progress of a
Job, fairness is an assumption on the environment: without them the code waits
by design. There is no fairness on failures, and their number is bounded by
`MaxAborts` and `MaxLost`.

The other modules assume no more than running code: in
`DeltaRunner` the goroutines go on (a sleeping one wakes up); in
`PrismClient` the steps between requests are taken and time passes, but Prism
need neither answer nor finish, and that it answers is the hypothesis of
`ReturnsIfAnswered`; in
`GuestPrep` the pass, its goroutine and the deadline go on, but a dial, a script
or a connection may hang for ever.

## 4. Proofs

The theorems hold for every value of the constants that the `ASSUME` of the
module admits: any number of VMs, disks, blocks, rounds, versions, lost passes,
regions, workers, migrations. Where a theorem has a further hypothesis, it
excludes a fault or a mode in which the code does not do this; the last column
names the run or configuration that shows it.

### DeltaSync (`DeltaSyncProofs`)

| Theorem | Property | Hypothesis | Needed because of |
|---|---|---|---|
| `TypeCorrect` | `TypeOK` | none | |
| `RoundsAreBounded` | `RoundsBounded` | none | |
| `JobsKeepTheirSource` | `JobSourceExists` | none (the property itself ends with `missed`) | |
| `LeaksAreBounded` | `LeakBounded` | none (the property itself excludes failing deletions) | |
| `HandOverExclusive` | `NoWriterAtHandOver` | none (as above) | |
| `HandOversAreFinal` | `HandOverFinal` | no `lag` | `delta_lost_create` with `lag` |
| `ShutdownsAtCutover` | `ShutdownOnlyAtCutover` | none (as above) | |
| `HandOverIsClean` | `CleanHandOver` | none (the property itself excludes failing deletions and aborted passes) | |
| `TargetsNeverRegress` | `TargetNeverRegresses` | `PathsInOrder`, no `zeroed` (as above for `missed`) | `delta_disk_order` with `MaxVersion` 2, `delta_zeroed` |
| `SandwichHolds`, `FinalConsistency` | `Sandwich`, `FinalConsistent` | `Quiet` | `delta_lost_create`, also with `ttl`, `delta_zeroed`, `delta_disk_order` |
| `BaseIsReached` | `BaseReachedTarget` | `Quiet` | the same |
| `HandOverIsImplemented` | `ImplementsHandOver` | `Quiet` | the same |

"None" means with all faults of section 2. `PathsInOrder`: `SnapshotPaths` is in
`DiskList` order. `Quiet`: `PathsInOrder`, and of the faults only failing
deletions: no ZEROED regions either. `delta_zeroed` refutes each of the properties
in whose row it is named, if it is put in place of its own. Without the guard
`~missed` the four properties that have it fail with `lag`.

`FinalConsistent` is not inductive: it says nothing before the last phase. The
invariant `Sandwich` says, for every block of every VM,

    last <= target <= pending <= src

and that a block which is still below the pending snapshot lies in the regions
of a Job that has not finished, or is about to be created. It is stated for the
statuses of the pass (`loc`) and, as long as the pass can be aborted, for the
persisted ones (`st`): an abort makes those current again. Its parts:

* `PassInv`: phase, step and position of the pass fit;
* `CutoverInv`: which marks a status may carry in a phase, and that sources are
  off in `WarmFinalDelta`;
* `ImportInv`: DataVolumes in the phases of the pre-copy, and the images between
  base and source;
* `TargetInv`, `StatusInv`: the sandwich itself, and that a ConfigMap or Job left
  behind by a failing deletion is of an older round and over;
* `ZeroInv`, `StrayInv`: no ConfigMap makes its Job zero anything, and no pod is
  without its Job.

A gap that `mergeRegions` closes does no harm then: a block in it is the same in
base and pending snapshot, and the target lies between the two.

The initial state satisfies it and each action preserves it, one lemma per
action and part. At hand-over every VM carries `FinalDeltaDone`, which by
`StatusInv` gives target = source outside `dropped`: that is `FinalConsistency`.
`BaseIsReached` adds `BaseInv`: the persisted base is not newer than that of the
pass.

With lost creations and expired Jobs `Sandwich` does not hold, and the remaining
theorems do without it. Three of them count:

* `RoundsInv` counts the rounds of the persisted and of the current status, and
  says that a round is pending in `WarmDeltaSync` only below the limit;
* `SourceInv` says that identifiers are never handed out twice and, unless
  `missed`, that an active Job reads a snapshot that exists. A pass deletes bases, and pending snapshots
  once the round is over: so the snapshot of an active Job is not the base of the
  persisted or the current status, and it is the pending one only of a status
  that names the Job and therefore waits for it;
* `LeakInv` bounds the snapshots that neither status names by the aborts so far;
  the status of the pass and the persisted one differ by at most one snapshot.

The others follow the Jobs that a lost pass leaves behind. Nothing names such a
Job, so why is it never left running? Because the persisted base is still the old
one: the disk still differs from it, so the next pass does not converge, starts a
round that includes the disk again, and meets the Job under its name
(`AlreadyExists`). From then on the status names it, and `RoundPromote` waits for
it, provided that the cache shows it: otherwise `missed` is set, and nothing more
is claimed. So a Job that is deleted, or left behind by a failing deletion, is
over, and no pod is left without its Job (`NoStrays`).
This is `OwnerInv`, with the parts

* `CacheInv`, `MissedInv`: without `lag` the cache shows every Job, and `missed`
  stays false;
* `CopyInv`: what a status names is never ahead of the source;
* `AgreeInv`: for the VMs the pass has not reached, and for the one whose Jobs it
  is creating, the pass and the persisted status agree on base and rounds;
* `CurrentInv`: an active Job is one of the round that the persisted status is
  about to begin or is in;
* `HeldInv`: a disk with an active Job (or, if deletions do not fail, with any Job
  or ConfigMap) belongs to a VM that is not done, and in both statuses it is either among the Jobs named (or about to be
  created), or no round is pending and one is `Due`: the delta contains the disk,
  is above the threshold, and the rounds are not used up. `DueKept` shows that
  guest writes cannot undo this, since versions only grow (`DeltaGrows`).

`HandOverExclusive` is `HeldInv` and `NoStrays` at hand-over. `HandOverFinal` says more: once the
disks are handed over nothing is written any more, to a source or to a target. It
is proved only; no run lists it. For these and the others it is joined by

* `ReadyInv`: past `WarmSyncing` every import has ended;
* `ApprovedInv`: in `WarmCutover` a required approval is there
  (`ShutdownsAtCutover`);
* `OffInv`: from `WarmFinalDelta` on all sources are off (`HandOversAreFinal`);
* `FreshInv`: unless `missed`, an import, a Job, or a Job that may still be created, holds nothing
  older than the block it would write (`TargetsNeverRegress`);
* `GoneInv`, `CleanInv`: what exists in Prism is named in a status, as long as
  nothing was aborted (`HandOverIsClean`).

### Migration (`MigrationProofs`)

| Theorem | Property | Hypothesis | Needed because of |
|---|---|---|---|
| `TypesHold` | `TypeOK` | none | |
| `PreparationComesFirst` | `PreppedBeforeCopy` | none | |
| `OrphansAreBounded` | `OrphansBounded` | none | |
| `NoTwinRuns` | `NoTwin` | none | |
| `TestStaysIsolated` | `TestIsolated` | none | |
| `ShutdownsAreAllowed` | `ShutdownAllowed` | none | |
| `CompletedIsMigrated` | `AllMigrated` | `Whole`, no fault `prism_create` | `migration_guest_prep`, `migration_skipped_vm`, `migration_image_failed` |
| `CopiesAreConsistent` | `CopyConsistent` | no fault `image` | `migration_image_failed` |
| `HandOverIsImplemented` | `ImplementsHandOver` | no fault `image` | `migration_image_failed` |

"None" means with all six faults; the run `migration` has `delete` and
`forbidden`, the two under which all its properties hold. `SwitchStopped` has no
theorem: with the role as shipped it is false (`migration_test_vlan`). The
invariants:

* `PreparedInv`: a phase that copies is entered when all scripts have succeeded;
* `TwinInv`: from `WarmFinalSync` or the import on all sources are off, and a
  target runs, or is told to, only if its source is off;
* `OrphansInv`: orphans against lost passes, and that a failing deletion adds one
  set only once, when a VM is staged; a staged VM is not imaged again;
* `IsolationInv`: which VirtualMachines were ever told to run, and
  on which network, by phase;
* `FlowInv`: the mode decides on the path of phases, and `WarmCutover` is reached
  with the approval and a complete pre-copy;
* `VolumesInv`, `MadeInv`: a status names the images of all disks or of none, the
  import begins with a DataVolume for every disk that is not being deleted;
* `ColdInv`, `FinalInv`, `ImportInv`: images are taken of stopped sources only,
  DataVolumes are made of them, and none of the DataVolumes of the pre-copy
  survives into the import. The difficulty is `WarmFinalSync`, where new and old
  DataVolumes have the same names and a lost patch repeats the deletion or the
  creation.

For the refinement, a step that enters `CreatingVMs` must be the abstract
hand-over, which needs `ImportInv`; after it, sources and DataVolumes are left
alone.

### The other modules

* `RegionsProofs`: `MergeIsExact`, `MergeIsOrdered`, for ordered lists of any
  length. `LoopInv` is the invariant of the loop of `mergeRegions`.
* `DeltaRunnerProofs`: `RunnerIsDurable`, `FsyncCoversAll`, and
  `RunnerTakesJobSteps`, the safety part of `ImplementsDeltaJob`. `CountInv` says
  that each goroutine that has ended has exactly one result, sent or received, so
  that the main goroutine, which has all results, has outlived them; `CopyInv`
  and `DiskInv`, what a goroutine without an error has written, in the cache and
  on the disk, over all pods of the Job.
* `PrismProofs`: `ListsAgree` (`PathsOfDisks`) if no request fails
  (`disk_paths_dropped` otherwise), no CDROM names its VM (`CDROMsAttached`) and the
  disks of the VM are listed in bus order (`delta_disk_order`), each with the UUID
  of an image or a vdisk. Its heart is that two ordered lists of the same entries
  are the same list (`PathsInv`), so the order of `snapshot_file_list` does not
  matter. `ReportedIsReal` (`SuccessIsReal` of `PrismClient`) without a
  hypothesis, for any number of attempts.
* `GuestPrepProofs`: `PreparationIsReal`, `ConnectionsAreClosed`, for any number
  of lost passes. `OwnerInv`: before its deadline, the connection of a pass is
  open only while the pass is there to close it.
* `NetworksProofs`: `SwitchesAreDirect`, `TestsAreRehearsals`, for any lists of
  mappings and NICs. The first mapping that names a network is the least index,
  which exists because the natural numbers are well-founded.
* `NamesProofs`: `DeltasAreWritten` if no two migrations agree in the 30
  characters `deltaSyncName` keeps (`names_job` otherwise), whatever other names
  collide; `ObjectsAreOwn` if they do not agree in the 40 characters `dvName`
  keeps (`names_dv`) and no VirtualMachine name is used twice or was taken before
  (`names_vm`), whatever the names of Jobs. The invariant: every object has the
  name of what it was made for, a Job that is done has written, and an object of
  a name in use exists until its owner deletes it.

### Only model-checked

* Liveness: `Terminates`, `ReturnsIfAnswered`, `DialerEnds`, `WinRMReturns`, and the
  fairness part of `ImplementsDeltaJob`. They need fairness and `ENABLED`.

No safety property of a passing run is left to TLC alone.

## 5. What is not modelled

* HTTP, JSON, authentication and URLs; `WaitVMOff`, which nothing calls.
* Sizes (`dvStorageSize`, the 50 GB default), storage classes, CPU, memory,
  firmware and disk bus: they are layout and steer no control.
* The text of scripts; a script that goes on in the guest after its session was
  lost, while a later pass starts another one, is only counted.
* VMs without a disk: `PreparingImages` never ends for them.
* A stale cache of the `AHVMigration` itself: a pass is taken to read the latest
  status.
* Overlapping changed regions: Prism is taken to list disjoint ones in order.
* DataVolumes that fail: the handlers do not look for it and wait.
* Edits of the spec during a migration, and VMs powered on again by hand.
* Generated deep copies, the manager's set-up, manifests, and of the console
  plugin everything but the approval annotations.

## 6. Plan

Done: the models of all parts, the two abstract specifications and their runs;
the proofs of section 4, which cover every safety property of the passing runs.
What would come next follows changes of the code: once a retried pass compares
the Job it finds with the one it wants, the fault `lost_create` can leave the
hypothesis `Quiet`; once Jobs are recorded as done before they expire, so can
`ttl`; once `mergeRegions` leaves gaps between ZEROED regions open, so can
`zeroed`; once paths and DataVolumes use one order, so can `PathsInOrder`. A Job
that is looked up without the cache would make `lag` harmless, and a role that
grants `virtualmachineinstances` makes `SwitchStopped` a property worth proving.
