-------------------------------- MODULE Names --------------------------------
(***************************************************************************)
(* Several migrations into one target namespace.  Every object is found    *)
(* again by its name alone: dvName (controllers/cdi_resources.go) keeps 40 *)
(* characters of the migration's name, deltaSyncName (cbt_sync.go) keeps   *)
(* 30, and a VirtualMachine has the name the user gives it                 *)
(* (kubevirt_resources.go).  An object that exists is taken for one's own. *)
(*                                                                         *)
(* There is one worker, so passes of two migrations do not overlap: one    *)
(* action is one pass, for all VMs of a migration.  The status patch of a  *)
(* pass that creates objects may be lost: the pass is then repeated.  The  *)
(* VMs of a migration go through their rounds of delta sync together.      *)
(***************************************************************************)
EXTENDS Integers, Sequences, FiniteSets

CONSTANTS
    Mig,         \* the migrations
    NumVM,       \* VMs of a migration
    NumDisk,     \* disks of a VM
    Cut30,       \* migration -> the first 30 characters of its name
    Cut40,       \* migration -> the first 40 characters of its name
    TargetName,  \* migration -> names of its VirtualMachines
    Existing,    \* names of VirtualMachines that were there before
    MaxRounds    \* bound: rounds of delta sync of a migration

VM   == 1 .. NumVM
Disk == 1 .. NumDisk

ASSUME NamesAssumption ==
    /\ NumVM \in Nat \ {0} /\ NumDisk \in Nat \ {0} /\ MaxRounds \in Nat \ {0}
    /\ DOMAIN Cut30 = Mig /\ DOMAIN Cut40 = Mig
    /\ \A m \in Mig : DOMAIN TargetName[m] = VM

VARIABLES
    step,      \* phase of every migration
    rounds,    \* rounds of delta sync it has finished
    refs,      \* SyncJobRefs, with what the round has to write
    objects,   \* objects of the namespace: name, purpose, and if they are done
    written,   \* history: the deltas a Job has written
    promoted   \* history: the deltas a migration takes for written

vars == <<step, rounds, refs, objects, written, promoted>>

\* Mutant: the index of the VM is left out.
dvNameNoVM(m, v, d) == <<"dv", Cut40[m], 1, d>>

dvName(m, v, d) == <<"dv", Cut40[m], v, d>>

\* Mutant: the index of the VM is left out.
deltaSyncNameNoVM(m, v, d, r) == <<"delta", Cut30[m], 1, d, r>>

deltaSyncName(m, v, d, r) == <<"delta", Cut30[m], v, d, r>>

vmTargetName(m, v) == <<"vm", TargetName[m][v]>>

\* What an object was made for.  A Job is for a delta: a disk and a round.
Volume(m, v, d)   == [name |-> dvName(m, v, d), for |-> <<m, v, d>>, done |-> FALSE]
Delta(m, v, d, r) == [name |-> deltaSyncName(m, v, d, r), for |-> <<m, v, d, r>>, done |-> FALSE]
Machine(m, v)     == [name |-> vmTargetName(m, v), for |-> <<m, v>>, done |-> TRUE]

Named(n) == {o \in objects : o.name = n}

TypeOK ==
    /\ step \in [Mig -> {"Pending", "WarmSyncing", "WarmDeltaSync", "CreatingVMs", "Completed"}]
    /\ rounds \in [Mig -> 0 .. MaxRounds]
    /\ \A m \in Mig : refs[m] \subseteq {m} \X VM \X Disk \X (1 .. MaxRounds)
    /\ \A n \in {o.name : o \in objects} : Cardinality(Named(n)) = 1
    /\ written \cup promoted \subseteq Mig \X VM \X Disk \X (1 .. MaxRounds)

Init ==
    /\ step = [m \in Mig |-> "Pending"]
    /\ rounds = [m \in Mig |-> 0]
    /\ refs = [m \in Mig |-> {}]
    /\ objects = {[name |-> <<"vm", n>>, for |-> <<>>, done |-> TRUE] : n \in Existing}
    /\ written = {}
    /\ promoted = {}

-----------------------------------------------------------------------------
\* The order of the loops over VMs and disks.
Before(x, y) == x[2] < y[2] \/ (x[2] = y[2] /\ Len(x) > 2 /\ x[3] < y[3])

\* Objects are created one after the other, VM by VM and disk by disk, unless
\* one of their name exists.
Create(wanted) ==
    objects' = objects \cup
        {w \in wanted : Named(w.name) = {} /\ \A u \in wanted : u.name = w.name => ~Before(u.for, w.for)}

createDataVolumes(m) ==
    /\ step[m] = "Pending"
    /\ Create({Volume(m, v, d) : v \in VM, d \in Disk})
    /\ step' \in {step, [step EXCEPT ![m] = "WarmSyncing"]}
    /\ UNCHANGED <<rounds, refs, written, promoted>>

\* All DataVolumes of these names have succeeded.
handleWarmSyncing(m) ==
    /\ step[m] = "WarmSyncing"
    /\ \A v \in VM, d \in Disk : \E o \in Named(dvName(m, v, d)) : o.done
    /\ step' = [step EXCEPT ![m] = "WarmDeltaSync"]
    /\ UNCHANGED <<rounds, refs, objects, written, promoted>>

\* A round begins: a Job for every disk with a delta.
RoundStart(m) ==
    /\ step[m] = "WarmDeltaSync" /\ refs[m] = {} /\ rounds[m] < MaxRounds
    /\ \E changed \in (SUBSET (VM \X Disk)) \ {{}} :
          LET r == rounds[m] + 1
          IN  /\ refs' \in {refs, [refs EXCEPT ![m] = {<<m, c[1], c[2], r>> : c \in changed}]}
              /\ Create({Delta(m, c[1], c[2], r) : c \in changed})
    /\ UNCHANGED <<step, rounds, written, promoted>>

RefNames(m) == {deltaSyncName(m, c[2], c[3], c[4]) : c \in refs[m]}

\* The round ends when all Jobs of these names are complete or gone; they are
\* deleted, and the new snapshot becomes the base.
RoundPromote(m) ==
    /\ refs[m] # {}
    /\ \A n \in RefNames(m) : \A o \in Named(n) : o.done
    /\ objects' = {o \in objects : o.name \notin RefNames(m)}
    /\ promoted' = promoted \cup refs[m]
    /\ refs' = [refs EXCEPT ![m] = {}]
    /\ rounds' = [rounds EXCEPT ![m] = @ + 1]
    /\ UNCHANGED <<step, written>>

\* The guest has written little enough, or the rounds are used up.
Converge(m) ==
    /\ step[m] = "WarmDeltaSync" /\ refs[m] = {}
    /\ step' = [step EXCEPT ![m] = "CreatingVMs"]
    /\ UNCHANGED <<rounds, refs, objects, written, promoted>>

handleCreateVMs(m) ==
    /\ step[m] = "CreatingVMs"
    /\ Create({Machine(m, v) : v \in VM})
    /\ step' \in {step, [step EXCEPT ![m] = "Completed"]}
    /\ UNCHANGED <<rounds, refs, written, promoted>>

\* CDI has imported a DataVolume, or a Job has written its delta.
Done(o) ==
    /\ ~o.done
    /\ objects' = (objects \ {o}) \cup {[o EXCEPT !.done = TRUE]}
    /\ written' = IF Len(o.for) = 4 THEN written \cup {o.for} ELSE written
    /\ UNCHANGED <<step, rounds, refs, promoted>>

Next ==
    \/ \E m \in Mig : \/ createDataVolumes(m)
                      \/ handleWarmSyncing(m)
                      \/ RoundStart(m)
                      \/ RoundPromote(m)
                      \/ Converge(m)
                      \/ handleCreateVMs(m)
    \/ \E o \in objects : Done(o)

Spec == Init /\ [][Next]_vars

-----------------------------------------------------------------------------
(***************************************************************************)
(* Properties.                                                             *)
(***************************************************************************)

\* A migration that is completed has its own VirtualMachines on its own
\* DataVolumes, whatever other migrations and users of the namespace do.
OwnObjects ==
    \A m \in Mig : step[m] = "Completed" =>
        \A v \in VM : /\ \E o \in Named(vmTargetName(m, v)) : o.for = <<m, v>>
                      /\ \A d \in Disk : \E o \in Named(dvName(m, v, d)) : o.for = <<m, v, d>>

\* A delta that a migration takes for written was written, by a Job of its own
\* for that disk and that round.
DeltasWritten == promoted \subseteq written

=============================================================================
