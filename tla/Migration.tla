------------------------------ MODULE Migration ------------------------------
(***************************************************************************)
(* The phase machine of one AHVMigration without CBT, from the empty phase *)
(* to Completed or Failed: Reconcile of                                    *)
(* controllers/ahvmigration_controller.go and handleGuestPrepping of       *)
(* controllers/guest_prep.go, with the source VMs (Prism), the             *)
(* DataVolumes (CDI) and the VirtualMachines (KubeVirt) they act on.  The  *)
(* CBT phases between WarmPreSync and CreatingVMs are module DeltaSync.    *)
(*                                                                         *)
(* A disk is abstracted to a position and a version of its content; a      *)
(* guest write gives it a new version.  One action is one reconcile pass.  *)
(* A pass handles the VMs in order and ends with one status patch: it may  *)
(* get no further than VM n, and its patch may be lost.                    *)
(***************************************************************************)
EXTENDS Integers, Sequences

CONSTANTS
    NumVM,       \* number of entries of spec.vms
    NumDisk,     \* disks of a VM
    Bare,        \* positions of the disks without a backing image
    Specs,       \* the AHVMigration specs that are looked at
    Faults,      \* the faults of the environment, see below
    MaxVersion,  \* bound: writes of the guests to one disk
    MaxLost      \* bound: passes whose status patch is lost

VM   == 1 .. NumVM
Disk == 1 .. NumDisk

(***************************************************************************)
(* final_sync   : the patch of handleWarmFinalSync may be lost after it    *)
(*                has created DataVolumes.                                 *)
(* image        : CreateImageFromDisk may fail in PreparingImages.         *)
(* prism_create : GetVMByName may fail in handleCreateVMs.                 *)
(* delete       : DeleteImage may fail in handleWarmFinalSync.             *)
(* hidden       : handleTestPending may fail to read a VirtualMachine or   *)
(*                a VirtualMachineInstance.                                *)
(* forbidden    : it may read no VirtualMachineInstance at all, as in the  *)
(*                shipped config/rbac/role.yaml.                           *)
(*                                                                         *)
(* A spec is warmMigration, shutdownBeforeMigration, warmFinalFullSync,    *)
(* pauseBeforeCutover, the VMs with a guest preparation, and the VMs whose *)
(* networks are mapped to a testTarget.                                    *)
(***************************************************************************)
ASSUME MigrationAssumption ==
    /\ NumVM \in Nat \ {0}
    /\ NumDisk \in Nat \ {0}
    /\ Bare \subseteq Disk
    /\ Specs \subseteq [warm : BOOLEAN, shutdown : BOOLEAN, finalSync : BOOLEAN,
                        pause : BOOLEAN, prep : SUBSET VM, test : SUBSET VM]
    /\ Faults \subseteq {"final_sync", "image", "prism_create", "delete", "hidden", "forbidden"}
    /\ MaxVersion \in Nat
    /\ MaxLost \in Nat

VARIABLES
    spec,       \* spec of the AHVMigration, never changed
    phase,      \* status.phase
    st,         \* status.vms
    approvals,  \* the annotations cutover-approved and test-approved
    lost,       \* number of passes whose patch was lost
    src,        \* content of the source disks
    power,      \* power state of the source VMs
    dv,         \* DataVolumes, by the disk index in their name
    vm,         \* VirtualMachines and their instances
    images,     \* sets of Prism images of the VMs, see Imaging
    prepped     \* history: VMs whose preparation script has succeeded

vars == <<spec, phase, st, approvals, lost, src, power, dv, vm, images, prepped>>

Phase == {"", "Pending", "GuestPrepping", "PreparingImages", "WarmPreSync",
          "WarmSyncing", "ReadyForCutover", "WarmCutover", "WarmFinalSync",
          "ImportingDisks", "CreatingVMs", "TestRunning", "TestPending",
          "SwitchingNetwork", "Completed", "Failed"}

VMPhase == {"", "Pending", "GuestPrepped", "GuestPrepFailed", "ShuttingDown",
            "CreatingImages", "ImagesReady", "WarmPreSync", "ImportingDisks",
            "WarmSyncDone", "FinalSyncImaged", "ReadyForVM", "VMCreated"}

\* What an image or a DataVolume holds: a version of a source disk, or zeros.
Content == [disk : 0 .. NumDisk, ver : Nat]
Blank   == [disk |-> 0, ver |-> 0]

\* Phase, TempImageRefs, number of DataVolumeRefs and whether VMRef is set.
VMStatus == [phase : VMPhase, temp : Seq(Content), refs : Nat, vmref : BOOLEAN]

DataVolume == [st : {"none", "importing", "succeeded", "deleting"}, holds : Content]

VirtualMachine == [made : BOOLEAN, running : BOOLEAN, net : {"test", "prod"},
                   vmi : {"none", "test", "prod"}]

TypeOK ==
    /\ spec \in Specs
    /\ phase \in Phase
    /\ st \in [VM -> VMStatus]
    /\ approvals \subseteq {"cutover", "test"}
    /\ lost \in Nat
    /\ src \in [VM -> [Disk -> Nat]]
    /\ power \in [VM -> {"ON", "STOPPING", "OFF"}]
    /\ dv \in [VM -> [Disk -> DataVolume]]
    /\ vm \in [VM -> VirtualMachine]
    /\ images \in [VM -> [named : BOOLEAN, orphans : Nat]]
    /\ prepped \subseteq VM

Init ==
    /\ spec \in Specs
    /\ phase = ""
    /\ st = [v \in VM |-> [phase |-> "", temp |-> <<>>, refs |-> 0, vmref |-> FALSE]]
    /\ approvals = {}
    /\ lost = 0
    /\ src = [v \in VM |-> [k \in Disk |-> 0]]
    /\ power = [v \in VM |-> "ON"]
    /\ dv = [v \in VM |-> [k \in Disk |-> [st |-> "none", holds |-> Blank]]]
    /\ vm = [v \in VM |-> [made |-> FALSE, running |-> FALSE, net |-> "prod", vmi |-> "none"]]
    /\ images = [v \in VM |-> [named |-> FALSE, orphans |-> 0]]
    /\ prepped = {}

-----------------------------------------------------------------------------
(***************************************************************************)
(* The end of a reconcile pass.                                            *)
(***************************************************************************)

\* The pass ends without its status patch: a crash, or an API error.
Lose ==
    /\ lost < MaxLost
    /\ lost' = lost + 1
    /\ UNCHANGED <<phase, st>>

\* The pass has got as far as VM n: if that is the last one, p and s are
\* persisted, unless the patch is lost.
Finish(n, p, s) ==
    \/ n = NumVM /\ phase' = p /\ st' = s /\ UNCHANGED lost
    \/ Lose

\* The pass gives up after VM n: failMigration persists nothing but the phase.
failMigration(n) ==
    /\ n < NumVM
    /\ phase' = "Failed"
    /\ UNCHANGED <<st, lost>>

Upto == 0 .. NumVM

\* A pass fails before it has changed anything: NewPrismClient fails, or the
\* first Prism request the handler gives up on.
PrismError ==
    /\ phase \in {"Pending", "PreparingImages", "WarmPreSync", "WarmCutover",
                  "WarmFinalSync", "CreatingVMs", "SwitchingNetwork"}
    /\ failMigration(0)
    /\ UNCHANGED <<spec, approvals, src, power, dv, vm, images, prepped>>

-----------------------------------------------------------------------------
(***************************************************************************)
(* DataVolumes.  Their name is made of migration, VM and disk index: one   *)
(* that is there, or not gone yet, is kept.                                *)
(***************************************************************************)

NewDataVolumes(v, contents) ==
    [k \in Disk |-> IF k <= Len(contents) /\ dv[v][k].st = "none"
                      THEN [st |-> "importing", holds |-> contents[k]]
                      ELSE dv[v][k]]

\* Both functions that create DataVolumes, as far as VM n.
CreateDataVolumes(n, contents) ==
    dv' = [v \in VM |-> IF v <= n THEN NewDataVolumes(v, contents[v]) ELSE dv[v]]

\* Mutant: the reference to the last DataVolume is lost.
ImportingShort(s, contents) ==
    [v \in VM |-> [s[v] EXCEPT !.phase = "ImportingDisks", !.refs = Len(contents[v]) - 1]]

\* The statuses once a VM has DataVolumes for its contents.
Importing(s, contents) ==
    [v \in VM |-> [s[v] EXCEPT !.phase = "ImportingDisks", !.refs = Len(contents[v])]]

\* createDataVolumes imports the image a disk was once cloned from, and nothing
\* for a bare disk.
backing == [v \in VM |-> [k \in Disk |-> IF k \in Bare THEN Blank
                                           ELSE [disk |-> k, ver |-> 0]]]

temps(s) == [v \in VM |-> s[v].temp]

\* Mutant: the index of the next disk.
ImagesNext(v) == [k \in Disk |-> [disk |-> k + 1, ver |-> src[v][k]]]

\* CreateImageFromDisk for all disks of a VM.
Images(v) == [k \in Disk |-> [disk |-> k, ver |-> src[v][k]]]

\* The disks whose image requests succeed, in order.
Imaged ==
    IF "image" \in Faults
      THEN {f \in UNION {[1 .. m -> Disk] : m \in 0 .. NumDisk} :
              \A a, b \in DOMAIN f : a < b => f[a] < f[b]}
      ELSE {[k \in Disk |-> k]}

\* The images of a VM when some requests may fail: the list closes up.
SomeImages(v) == {[j \in DOMAIN f |-> Images(v)[f[j]]] : f \in Imaged}

\* The pass has made images of the VMs in vs and deleted those their statuses
\* named, but for the VMs in left.  The status names the new ones if it is
\* persisted, and the old ones are forgotten; otherwise nobody knows of the new.
Imaging(vs, left) ==
    LET kept   == phase' # "Failed" /\ lost' = lost
        old(v) == v \in left /\ images[v].named
    IN  images' = [v \in VM |->
           IF v \in vs
             THEN [named   |-> kept \/ old(v),
                   orphans |-> images[v].orphans + IF kept /\ ~old(v) THEN 0 ELSE 1]
             ELSE images[v]]

\* The VMs whose DataVolumes have all succeeded.
Imported == {v \in VM : \A k \in 1 .. st[v].refs : dv[v][k].st = "succeeded"}

Mark(vs, p) == [v \in VM |-> IF v \in vs THEN [st[v] EXCEPT !.phase = p] ELSE st[v]]

-----------------------------------------------------------------------------
(***************************************************************************)
(* Start, and guest preparation.                                           *)
(***************************************************************************)

handleInit ==
    /\ phase = ""
    /\ Finish(NumVM, "Pending", st)
    /\ UNCHANGED <<spec, approvals, src, power, dv, vm, images, prepped>>

nextPhaseAfterGuestPrep ==
    IF spec.warm THEN "WarmPreSync"
    ELSE IF spec.shutdown THEN "PreparingImages" ELSE "ImportingDisks"

handlePending ==
    /\ phase = "Pending"
    /\ LET fresh  == Mark(VM, "Pending")
           direct == spec.prep = {} /\ nextPhaseAfterGuestPrep = "ImportingDisks"
       IN  IF direct
             THEN \E n \in Upto : /\ CreateDataVolumes(n, backing)
                                  /\ Finish(n, "ImportingDisks", Importing(fresh, backing))
             ELSE /\ Finish(NumVM, IF spec.prep # {} THEN "GuestPrepping"
                                     ELSE nextPhaseAfterGuestPrep, fresh)
                  /\ UNCHANGED dv
    /\ UNCHANGED <<spec, approvals, src, power, vm, images, prepped>>

\* Mutant: a failed script does not fail the migration.
GuestPrepRunOn ==
    /\ phase = "GuestPrepping"
    /\ \E bad \in SUBSET {v \in spec.prep : st[v].phase # "GuestPrepped"} :
          /\ prepped' = prepped \cup (spec.prep \ bad)
          /\ Finish(NumVM, nextPhaseAfterGuestPrep, Mark(VM, "GuestPrepped"))
    /\ UNCHANGED <<spec, approvals, src, power, dv, vm, images>>

\* The scripts of the VMs up to n that still need one; those of bad fail.
GuestPrepRun ==
    /\ phase = "GuestPrepping"
    /\ \A v \in spec.prep : st[v].phase # "GuestPrepFailed"
    /\ \E n \in Upto :
       LET run == {v \in spec.prep : v <= n /\ st[v].phase # "GuestPrepped"}
       IN \E bad \in SUBSET run :
             LET s == [v \in VM |-> [st[v] EXCEPT !.phase =
                          IF v \in bad THEN "GuestPrepFailed" ELSE "GuestPrepped"]]
             IN  /\ prepped' = prepped \cup (run \ bad)
                 /\ \/ bad = {} /\ Finish(n, nextPhaseAfterGuestPrep, s)
                    \/ bad # {} /\ n < NumVM /\ Lose
                    \* Two patches: the statuses (an error is ignored), then Failed.
                    \/ /\ bad # {} /\ n = NumVM
                       /\ st' \in {st, s}
                       /\ \/ phase' = "Failed" /\ UNCHANGED lost
                          \/ lost < MaxLost /\ lost' = lost + 1 /\ UNCHANGED phase
    /\ UNCHANGED <<spec, approvals, src, power, dv, vm, images>>

\* An earlier pass recorded a failed script and was lost before it had failed
\* the migration.
GuestPrepFailed ==
    /\ phase = "GuestPrepping"
    /\ \E v \in spec.prep : st[v].phase = "GuestPrepFailed"
    /\ failMigration(0)
    /\ UNCHANGED <<spec, approvals, src, power, dv, vm, images, prepped>>

-----------------------------------------------------------------------------
(***************************************************************************)
(* Cold migration: shut down, then image the disks.                        *)
(***************************************************************************)

\* Mutant: a VM counts as off once it was asked to shut down.
OnUnasked == {v \in VM : power[v] = "ON"}

\* Prism reports a VM as ON until its guest has shut down.
On == {v \in VM : power[v] # "OFF"}

\* What handlePrepareImages may make of one VM.  A power query, a shutdown
\* request or the wait for an image may fail: a later pass repeats it.
PrepareVM(v) ==
    LET result(pw, s, ready) == [power |-> pw, st |-> s, ready |-> ready]
    IN  {result(power[v], st[v], FALSE)} \cup
        IF v \in On
          THEN {result(pw, [st[v] EXCEPT !.phase = "ShuttingDown"], FALSE) :
                   pw \in {power[v], "STOPPING"}}
        ELSE IF st[v].temp = <<>>
          THEN {result("OFF", [st[v] EXCEPT !.phase = "CreatingImages", !.temp = t], FALSE) :
                   t \in SomeImages(v)}
          ELSE {result("OFF", [st[v] EXCEPT !.phase = "ImagesReady"], TRUE)}

handlePrepareImages ==
    /\ phase = "PreparingImages"
    /\ \E n \in Upto, out \in [VM -> UNION {PrepareVM(v) : v \in VM}] :
          LET s == [v \in VM |-> out[v].st]
          IN  /\ \A v \in VM : out[v] \in PrepareVM(v)
              /\ IF \A v \in VM : out[v].ready
                   THEN /\ CreateDataVolumes(n, temps(s))
                        /\ Finish(n, "ImportingDisks", Importing(s, temps(s)))
                        /\ UNCHANGED <<power, images>>
                   ELSE /\ power' = [v \in VM |-> IF v <= n THEN out[v].power ELSE power[v]]
                        /\ Finish(n, phase, s) \/ failMigration(n)
                        /\ Imaging({v \in 1 .. n : s[v].temp # st[v].temp}, {})
                        /\ UNCHANGED dv
    /\ UNCHANGED <<spec, approvals, src, vm, prepped>>

-----------------------------------------------------------------------------
(***************************************************************************)
(* Warm migration: image and import, shut down, image and import again.    *)
(***************************************************************************)

\* TempImageRefs is empty in every pass: only the patch that leaves the phase
\* persists it.
handleWarmPreSync ==
    /\ phase = "WarmPreSync"
    /\ LET s == [v \in VM |-> [st[v] EXCEPT !.temp = Images(v)]]
       IN  \E n \in Upto : /\ CreateDataVolumes(n, temps(s))
                           /\ Finish(n, "WarmSyncing", Importing(s, temps(s)))
    /\ Imaging(VM, {})
    /\ UNCHANGED <<spec, approvals, src, power, vm, prepped>>

\* The pass ends among the images of VM n.
WarmPreSyncFails ==
    /\ phase = "WarmPreSync"
    /\ \E n \in VM : /\ failMigration(n - 1) \/ Lose
                     /\ Imaging(1 .. n, {})
    /\ UNCHANGED <<spec, approvals, src, power, dv, vm, prepped>>

handleWarmSyncing ==
    /\ phase = "WarmSyncing"
    /\ Finish(NumVM, IF Imported # VM THEN phase
                     ELSE IF spec.pause THEN "ReadyForCutover" ELSE "WarmCutover",
              Mark(Imported, "WarmSyncDone"))
    /\ UNCHANGED <<spec, approvals, src, power, dv, vm, images, prepped>>

\* Mutant: the annotation is not looked at.
ReadyForCutoverAlways ==
    /\ phase = "ReadyForCutover"
    /\ Finish(NumVM, "WarmCutover", st)
    /\ UNCHANGED <<spec, approvals, src, power, dv, vm, images, prepped>>

handleReadyForCutover ==
    /\ phase = "ReadyForCutover"
    /\ "cutover" \in approvals
    /\ Finish(NumVM, "WarmCutover", st)
    /\ UNCHANGED <<spec, approvals, src, power, dv, vm, images, prepped>>

\* The power query of a VM (one not in seen) or its shutdown request (one not
\* in ask) may fail.
handleWarmCutover ==
    /\ phase = "WarmCutover"
    /\ \/ \E seen \in SUBSET On, n \in Upto : \E ask \in SUBSET {v \in seen : v <= n} :
             /\ On # {}
             /\ power' = [v \in VM |-> IF v \in ask THEN "STOPPING" ELSE power[v]]
             /\ Finish(n, phase, Mark(seen, "ShuttingDown"))
       \/ /\ On = {}
          /\ Finish(NumVM, IF spec.finalSync THEN "WarmFinalSync" ELSE "CreatingVMs", st)
          /\ UNCHANGED power
    /\ UNCHANGED <<spec, approvals, src, dv, vm, images, prepped>>

\* Mutant: TempImageRefs still names the images of the pre-copy.
FinalSyncStageOldImages ==
    /\ phase = "WarmFinalSync"
    /\ \E v \in VM : st[v].phase # "FinalSyncImaged"
    /\ dv' = [v \in VM |-> [k \in Disk |-> [dv[v][k] EXCEPT !.st = "deleting"]]]
    /\ Finish(NumVM, phase, Mark(VM, "FinalSyncImaged"))
    /\ UNCHANGED <<spec, approvals, src, power, vm, images, prepped>>

\* Mutant: a VM that is staged is imaged again while its DataVolumes go away.
FinalSyncStageAgain ==
    /\ phase = "WarmFinalSync"
    /\ \E v \in VM, k \in Disk : dv[v][k].st # "none"
    /\ dv' = [v \in VM |-> [k \in Disk |-> [dv[v][k] EXCEPT !.st = "deleting"]]]
    /\ Finish(NumVM, phase, [v \in VM |-> [st[v] EXCEPT !.phase = "FinalSyncImaged",
                                                        !.temp = Images(v)]])
    /\ \E left \in IF "delete" \in Faults THEN SUBSET VM ELSE {{}} : Imaging(VM, left)
    /\ UNCHANGED <<spec, approvals, src, power, vm, prepped>>

\* Image the stopped disks again and delete the DataVolumes of the pre-copy.
FinalSyncStage ==
    /\ phase = "WarmFinalSync"
    /\ \E n \in Upto :
       LET stage == {v \in VM : st[v].phase # "FinalSyncImaged"}
           gone(v, k) == v \in stage /\ v <= n /\ k <= st[v].refs /\ dv[v][k].st # "none"
       IN  /\ stage # {}
           /\ dv' = [v \in VM |-> [k \in Disk |-> IF gone(v, k)
                                     THEN [dv[v][k] EXCEPT !.st = "deleting"] ELSE dv[v][k]]]
           /\ \/ Finish(n, phase,
                    [v \in VM |-> IF v \in stage
                        THEN [st[v] EXCEPT !.phase = "FinalSyncImaged", !.temp = Images(v)]
                        ELSE st[v]])
              \/ failMigration(n)
           \* A pass that stops among the images or DataVolumes of VM n + 1 has
           \* not come to its old images.
           /\ \E more \in IF phase' # "Failed" /\ lost' = lost THEN {n} ELSE {n, n + 1},
                 left \in IF "delete" \in Faults THEN SUBSET VM ELSE {{}} :
                 Imaging(stage \cap 1 .. more, left \cup {n + 1})
    /\ UNCHANGED <<spec, approvals, src, power, vm, prepped>>

\* All old DataVolumes are gone: create them anew.
FinalSyncCreate ==
    /\ phase = "WarmFinalSync"
    /\ \A v \in VM : /\ st[v].phase = "FinalSyncImaged"
                     /\ \A k \in 1 .. st[v].refs : dv[v][k].st = "none"
    /\ \E n \in Upto : /\ n \in {0, NumVM} \/ "final_sync" \in Faults
                       /\ CreateDataVolumes(n, temps(st))
                       /\ Finish(n, "ImportingDisks", Importing(st, temps(st)))
                       /\ n > 0 /\ "final_sync" \notin Faults => lost' = lost
    /\ UNCHANGED <<spec, approvals, src, power, vm, images, prepped>>

-----------------------------------------------------------------------------
(***************************************************************************)
(* Import, creation of the VirtualMachines, test migration.                *)
(***************************************************************************)

\* Mutant: the import of one VM is enough.
WaitImportAny ==
    /\ phase = "ImportingDisks"
    /\ Finish(NumVM, IF Imported # {} THEN "CreatingVMs" ELSE phase,
              Mark(Imported, "ReadyForVM"))
    /\ UNCHANGED <<spec, approvals, src, power, dv, vm, images, prepped>>

handleWaitImport ==
    /\ phase = "ImportingDisks"
    /\ Finish(NumVM, IF Imported = VM THEN "CreatingVMs" ELSE phase,
              Mark(Imported, "ReadyForVM"))
    /\ UNCHANGED <<spec, approvals, src, power, dv, vm, images, prepped>>

hasTestTarget == spec.test # {}

\* Mutant: the testTarget of the mapping is not used.
buildVirtualMachineProd(v) ==
    [made |-> TRUE, running |-> FALSE, vmi |-> "none", net |-> "prod"]

\* A VM is created stopped, on the test network if its networks have one.
buildVirtualMachine(v) ==
    [made |-> TRUE, running |-> FALSE, vmi |-> "none",
     net |-> IF hasTestTarget /\ v \in spec.test THEN "test" ELSE "prod"]

\* A VM whose GetVMByName fails (one in skip) gets an error in its status.
handleCreateVMs ==
    /\ phase = "CreatingVMs"
    /\ \E n \in Upto, skip \in IF "prism_create" \in Faults THEN SUBSET VM ELSE {{}} :
          /\ vm' = [v \in VM |-> IF v <= n /\ v \notin skip /\ ~vm[v].made
                                   THEN buildVirtualMachine(v) ELSE vm[v]]
          /\ Finish(n, IF hasTestTarget THEN "TestRunning" ELSE "Completed",
                    [v \in VM |-> IF v \in skip THEN st[v]
                        ELSE [st[v] EXCEPT !.phase = "VMCreated", !.vmref = TRUE]])
    /\ UNCHANGED <<spec, approvals, src, power, dv, images, prepped>>

\* The VMs that have a VirtualMachine the pass knows of.
Known == {v \in VM : st[v].vmref}

\* spec.running is set for the VMs whose read and patch succeed (those in ok).
handleTestRunning ==
    /\ phase = "TestRunning"
    /\ \E ok \in SUBSET Known :
          vm' = [v \in VM |-> IF v \in ok THEN [vm[v] EXCEPT !.running = TRUE] ELSE vm[v]]
    /\ IF "test" \in approvals THEN Finish(NumVM, "TestPending", st)
                               ELSE UNCHANGED <<phase, st, lost>>
    /\ UNCHANGED <<spec, approvals, src, power, dv, images, prepped>>

\* A VM is stopped, as far as its reads succeed: of a VM in noVM neither object
\* is looked at, of one in noVMI the instance is not found.
Stopped(v, noVM, noVMI) ==
    \/ v \in noVM
    \/ ~vm[v].running /\ (v \in noVMI \/ vm[v].vmi = "none")

\* Mutant: the VMs are not told to stop.
TestPendingWaits ==
    /\ phase = "TestPending"
    /\ \A v \in Known : Stopped(v, {}, {})
    /\ Finish(NumVM, "SwitchingNetwork", st)
    /\ UNCHANGED <<spec, approvals, src, power, dv, vm, images, prepped>>

handleTestPending ==
    /\ phase = "TestPending"
    /\ \E noVM \in IF "hidden" \in Faults THEN SUBSET VM ELSE {{}},
          noVMI \in IF "forbidden" \in Faults THEN {VM}
                   ELSE IF "hidden" \in Faults THEN SUBSET VM ELSE {{}} :
          IF \A v \in Known : Stopped(v, noVM, noVMI)
            THEN Finish(NumVM, "SwitchingNetwork", st) /\ UNCHANGED vm
            ELSE /\ \E ok \in SUBSET (Known \ noVM) :
                       vm' = [v \in VM |-> IF v \in ok THEN [vm[v] EXCEPT !.running = FALSE]
                                                       ELSE vm[v]]
                 /\ UNCHANGED <<phase, st, lost>>
    /\ UNCHANGED <<spec, approvals, src, power, dv, images, prepped>>

handleSwitchingNetwork ==
    /\ phase = "SwitchingNetwork"
    /\ \E n \in Upto :
          /\ vm' = [v \in VM |-> IF v <= n /\ v \in Known
                                   THEN [vm[v] EXCEPT !.net = "prod", !.running = TRUE]
                                   ELSE vm[v]]
          /\ Finish(n, "Completed", st) \/ failMigration(n)
    /\ UNCHANGED <<spec, approvals, src, power, dv, images, prepped>>

-----------------------------------------------------------------------------
(***************************************************************************)
(* The environment: guests, users, CDI and KubeVirt.                       *)
(***************************************************************************)

GuestWrite(v, k) ==
    /\ power[v] # "OFF"
    /\ src[v][k] < MaxVersion
    /\ src' = [src EXCEPT ![v][k] = @ + 1]
    /\ UNCHANGED <<spec, phase, st, approvals, lost, power, dv, vm, images, prepped>>

PowerOff(v) ==
    /\ power[v] = "STOPPING"
    /\ power' = [power EXCEPT ![v] = "OFF"]
    /\ UNCHANGED <<spec, phase, st, approvals, lost, src, dv, vm, images, prepped>>

Approve(a) ==
    /\ a \notin approvals
    /\ IF a = "cutover" THEN spec.pause ELSE hasTestTarget
    /\ approvals' = approvals \cup {a}
    /\ UNCHANGED <<spec, phase, st, lost, src, power, dv, vm, images, prepped>>

CDIImport(v, k) ==
    /\ dv[v][k].st = "importing"
    /\ dv' = [dv EXCEPT ![v][k].st = "succeeded"]
    /\ UNCHANGED <<spec, phase, st, approvals, lost, src, power, vm, images, prepped>>

\* The finalizers of a deleted DataVolume are done.
DataVolumeGone(v, k) ==
    /\ dv[v][k].st = "deleting"
    /\ dv' = [dv EXCEPT ![v][k] = [st |-> "none", holds |-> Blank]]
    /\ UNCHANGED <<spec, phase, st, approvals, lost, src, power, vm, images, prepped>>

\* KubeVirt starts an instance from the template, and stops it.
StartVMI(v) ==
    /\ vm[v].running /\ vm[v].vmi = "none"
    /\ vm' = [vm EXCEPT ![v].vmi = vm[v].net]
    /\ UNCHANGED <<spec, phase, st, approvals, lost, src, power, dv, images, prepped>>

StopVMI(v) ==
    /\ ~vm[v].running /\ vm[v].vmi # "none"
    /\ vm' = [vm EXCEPT ![v].vmi = "none"]
    /\ UNCHANGED <<spec, phase, st, approvals, lost, src, power, dv, images, prepped>>

-----------------------------------------------------------------------------
Reconcile ==
    \/ handleInit
    \/ handlePending
    \/ GuestPrepRun
    \/ GuestPrepFailed
    \/ handlePrepareImages
    \/ handleWarmPreSync
    \/ WarmPreSyncFails
    \/ handleWarmSyncing
    \/ handleReadyForCutover
    \/ handleWarmCutover
    \/ FinalSyncStage
    \/ FinalSyncCreate
    \/ handleWaitImport
    \/ handleCreateVMs
    \/ handleTestRunning
    \/ handleTestPending
    \/ handleSwitchingNetwork

Environment ==
    \/ \E a \in {"cutover", "test"} : Approve(a)
    \/ \E v \in VM : PowerOff(v) \/ StartVMI(v) \/ StopVMI(v)
    \/ \E v \in VM, k \in Disk : GuestWrite(v, k) \/ CDIImport(v, k) \/ DataVolumeGone(v, k)

Next == Reconcile \/ PrismError \/ Environment

Spec == Init /\ [][Next]_vars

(***************************************************************************)
(* Every handler requeues itself until the migration is over, and a pass   *)
(* that changes nothing is repeated.  CDI, KubeVirt, the guests that were  *)
(* asked to shut down and the user who has to approve are assumed to act.  *)
(***************************************************************************)
Fairness ==
    /\ WF_vars(Reconcile)
    /\ \A a \in {"cutover", "test"} : WF_vars(Approve(a))
    /\ \A v \in VM : WF_vars(PowerOff(v)) /\ WF_vars(StopVMI(v))
    /\ \A v \in VM, k \in Disk : WF_vars(CDIImport(v, k)) /\ WF_vars(DataVolumeGone(v, k))

FairSpec == Spec /\ Fairness

-----------------------------------------------------------------------------
(***************************************************************************)
(* Properties.                                                             *)
(***************************************************************************)

\* The phases after the import.
HandedOver == {"CreatingVMs", "TestRunning", "TestPending", "SwitchingNetwork", "Completed"}

\* The modes that copy sources which were stopped before: cold migration, and
\* warm migration with the final sync.
StopsSources == IF spec.warm THEN spec.finalSync ELSE spec.shutdown

\* In these modes, once the migration is past the import, every disk of every
\* VM has a DataVolume that holds the final content of exactly that disk
\* (handleWarmFinalSync: RPO=0).
CopyConsistent ==
    phase \in HandedOver /\ StopsSources =>
        \A v \in VM, k \in Disk :
            dv[v][k] = [st |-> "succeeded", holds |-> [disk |-> k, ver |-> src[v][k]]]

\* Nothing is copied from a VM before its preparation script has succeeded
\* (handleGuestPrepping before every phase that makes images or DataVolumes).
PreppedBeforeCopy ==
    \A v \in spec.prep :
        st[v].temp # <<>> \/ (\E k \in Disk : dv[v][k].st # "none") => v \in prepped

\* Source and target of a VM never run at the same time: in the modes that
\* shut the source down, an instance exists only of a VM whose source is off.
NoTwin ==
    spec.warm \/ spec.shutdown =>
        \A v \in VM : vm[v].vmi # "none" => power[v] = "OFF"

\* A VM with a test network is not on the production network before the test
\* was approved (handleTestRunning, handleSwitchingNetwork).
TestIsolated ==
    \A v \in spec.test : vm[v].vmi = "prod" => "test" \in approvals

\* The networks are switched only when no instance of the test is left: the
\* comment in handleTestPending says that it waits until the instance is gone.
SwitchStopped ==
    phase = "SwitchingNetwork" => \A v \in VM : vm[v].vmi # "test"

\* Completed means that every VM was migrated: it has a VirtualMachine, and all
\* its disks were imported.
AllMigrated ==
    phase = "Completed" =>
        \A v \in VM : vm[v].made /\ \A k \in Disk : dv[v][k].st = "succeeded"

\* Images in Prism that no status names are left by a lost or failed pass, and
\* of one VM at most one set each: a pass that is repeated does not pile them
\* up.  If deletions fail, the final sync leaves one set more, that of the
\* pre-copy, however often it is repeated.
OrphansBounded ==
    \A v \in VM : images[v].orphans <= lost + (IF phase = "Failed" THEN 1 ELSE 0)
                                            + (IF "delete" \in Faults THEN 1 ELSE 0)

\* The images named in TempImageRefs are temporary: they are deleted when the
\* migration is completed.
ImagesDeleted == phase = "Completed" => \A v \in VM : ~images[v].named

\* A source VM is shut down only if the spec asks for it, after its own
\* preparation, and in a warm migration after the approval (if there is to be
\* one) and when a complete pre-copy of every VM exists.
ShutdownAllowed ==
    [][\A v \in VM : power[v] = "ON" /\ power'[v] # "ON" =>
          /\ spec.warm \/ spec.shutdown
          /\ v \in spec.prep => v \in prepped
          /\ spec.warm => /\ spec.pause => "cutover" \in approvals
                          /\ \A w \in VM, k \in Disk : dv[w][k].st = "succeeded"]_vars

\* A migration that copies stopped sources keeps the promise of HandOver: it leaves
\* the import when all sources are off and all DataVolumes hold their final
\* content, and from then on neither changes.  The other modes hand over nothing
\* that HandOver speaks of.
Contract == INSTANCE HandOver WITH
    stage   <- CASE StopsSources /\ phase \in HandedOver -> "handed"
                 [] StopsSources /\ phase = "Failed" -> "failed"
                 [] OTHER -> "copying",
    running <- On,
    synced  <- {v \in VM : \A k \in Disk :
                  dv[v][k] = [st |-> "succeeded", holds |-> [disk |-> k, ver |-> src[v][k]]]}

ImplementsHandOver == Contract!Spec

\* Every migration completes or fails.
Terminates == <>(phase \in {"Completed", "Failed"})

=============================================================================
