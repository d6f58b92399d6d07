------------------------------ MODULE DiskPaths ------------------------------
(***************************************************************************)
(* Which disk is where: the lists of disks that a warm migration with CBT  *)
(* uses by position.  GetVMByUUID makes the DiskList of a VM, in whose     *)
(* order the images and DataVolumes are made; GetVMSnapshotPaths           *)
(* (controllers/prism_client.go) lists the disks of a snapshot, once for   *)
(* the base and once for the round.  runDeltaRound pairs them by position. *)
(*                                                                         *)
(* A disk stands for all that belongs to it: its vdisk, its file in a      *)
(* snapshot, its image.                                                    *)
(***************************************************************************)
EXTENDS Integers, SequencesExt

CONSTANTS
    DeviceLists,   \* disk_lists of a VM that are looked at
    Foreign,       \* other files of a snapshot_file_list
    RequestFails,  \* a virtual_disks request for an attached disk may fail
    CDROMsAttached \* the vdisk of a CDROM may name its VM and an address too

\* A device: what it is, where its data comes from, and its disk_address, as a
\* rank in the order of bus and index.
Device == [id : STRING, cdrom : BOOLEAN, backing : {"image", "bare", "none"}, addr : Nat]

ASSUME DiskPathsAssumption ==
    /\ \A l \in DeviceLists : l \in Seq(Device)
    /\ RequestFails \in BOOLEAN
    /\ CDROMsAttached \in BOOLEAN

VARIABLES
    devices,    \* disk_list of the VM
    diskList,   \* vmInfo.DiskList
    pc,         \* the step of the migration
    files,      \* snapshot_file_list of the snapshot at hand
    k,          \* the entry at which the loop is that runs over a list
    found,      \* its result so far
    base, new,  \* SnapshotPaths and PendingSnapshotPaths
    images      \* TempImageRefs, and with them the DataVolumes

vars == <<devices, diskList, pc, files, k, found, base, new, images>>

Ids(list) == [j \in DOMAIN list |-> list[j].id]

\* The files of a snapshot: the VM's own, CDROMs included, and others.
Files == {devices[j].id : j \in DOMAIN devices} \cup Foreign

Entry(f) == CHOOSE j \in DOMAIN devices : devices[j].id = f

\* What the code looks at is the VM and the address a virtual disk names, not
\* whether it is a CDROM: those of the VM's DISKs name it, those of its CDROMs
\* may; other files have no virtual disk, or one of another VM.
Attached(f) == f \notin Foreign /\ (devices[Entry(f)].cdrom => CDROMsAttached)

TypeOK ==
    /\ devices \in DeviceLists
    /\ diskList \in Seq([id : STRING, uuid : {"image", "vdisk", ""}])
    /\ pc \in {"info", "list", "query", "image", "count", "sync", "failed"}
    /\ files \in Seq(Files)
    /\ k \in Nat
    /\ \A s \in {found, base, new, images} : s \in Seq(STRING)

Init ==
    /\ devices \in DeviceLists
    /\ diskList = <<>>
    /\ pc = "info"
    /\ files = <<>>
    /\ k = 1
    /\ found = <<>>
    /\ base = <<>>
    /\ new = <<>>
    /\ images = <<>>

-----------------------------------------------------------------------------
\* The entry of the DiskList for a device: the UUID is that of the image the
\* disk was cloned from, if there is one, else that of the vdisk.
DiskInfo(dev) ==
    [id |-> dev.id, uuid |-> CASE dev.backing = "image" -> "image"
                               [] dev.backing = "bare" -> "vdisk"
                               [] OTHER -> ""]

\* One turn of the loop over the disk_list: a CDROM is left out.
AddDisk ==
    /\ pc = "info" /\ k <= Len(devices)
    /\ diskList' = IF devices[k].cdrom THEN diskList
                                      ELSE Append(diskList, DiskInfo(devices[k]))
    /\ k' = k + 1
    /\ UNCHANGED <<devices, pc, files, found, base, new, images>>

GetVMByUUID ==
    /\ pc = "info" /\ k > Len(devices)
    /\ pc' = "list"
    /\ UNCHANGED <<devices, diskList, files, k, found, base, new, images>>

\* The snapshot lists its files in some order.
ListFiles ==
    /\ pc = "list"
    /\ files' \in SetToSeqs(Files)
    /\ k' = 1
    /\ found' = <<>>
    /\ pc' = "query"
    /\ UNCHANGED <<devices, diskList, base, new, images>>

QueryDisk ==
    /\ pc = "query" /\ k <= Len(files)
    /\ Attached(files[k])
    /\ found' = Append(found, files[k])
    /\ k' = k + 1
    /\ UNCHANGED <<devices, diskList, pc, files, base, new, images>>

\* The file is not a disk of the VM, or the request for it fails.
QuerySkip ==
    /\ pc = "query" /\ k <= Len(files)
    /\ Attached(files[k]) => RequestFails
    /\ k' = k + 1
    /\ UNCHANGED <<devices, diskList, pc, files, found, base, new, images>>

\* Mutant: the order of the snapshot_file_list is kept.
InFileOrder(s) == s

\* less of sort.SliceStable: by bus and index.
BusLess(f, g) == devices[Entry(f)].addr < devices[Entry(g)].addr

\* q lists the indices of s in bus order, equal ones in the order they had.
StableOrder(s, q) ==
    \A a, b \in 1 .. Len(s) :
        a < b => \/ BusLess(s[q[a]], s[q[b]])
                 \/ ~BusLess(s[q[b]], s[q[a]]) /\ q[a] < q[b]

InBusOrder(s) ==
    LET q == CHOOSE q \in [1 .. Len(s) -> 1 .. Len(s)] : StableOrder(s, q)
    IN  [j \in 1 .. Len(s) |-> s[q[j]]]

\* GetVMSnapshotPaths returns, to handleWarmPreSync first.
ReturnPaths ==
    /\ pc = "query" /\ k > Len(files) /\ found # <<>>
    /\ IF base = <<>> THEN base' = InBusOrder(found) /\ pc' = "image" /\ UNCHANGED new
                      ELSE new' = InBusOrder(found) /\ pc' = "count" /\ UNCHANGED base
    /\ k' = 1
    /\ UNCHANGED <<devices, diskList, files, found, images>>

NoPaths ==
    /\ pc = "query" /\ k > Len(files) /\ found = <<>>
    /\ pc' = "failed"
    /\ UNCHANGED <<devices, diskList, files, k, found, base, new, images>>

HasUUID(d) == d.uuid # ""

\* handleWarmPreSync: an image, and later a DataVolume, for every disk that
\* has a UUID.
CreateImage ==
    /\ pc = "image" /\ k <= Len(diskList)
    /\ images' = IF HasUUID(diskList[k]) THEN Append(images, diskList[k].id) ELSE images
    /\ k' = k + 1
    /\ UNCHANGED <<devices, diskList, pc, files, found, base, new>>

\* CreateImageFromDisk fails.
ImageError ==
    /\ pc = "image" /\ k <= Len(diskList)
    /\ HasUUID(diskList[k])
    /\ pc' = "failed"
    /\ UNCHANGED <<devices, diskList, files, k, found, base, new, images>>

ImagesCreated ==
    /\ pc = "image" /\ k > Len(diskList)
    /\ pc' = "list"
    /\ UNCHANGED <<devices, diskList, files, k, found, base, new, images>>

\* runDeltaRound: the number of disks must not have changed.
CountDisks ==
    /\ pc = "count"
    /\ pc' = IF Len(new) = Len(base) THEN "sync" ELSE "failed"
    /\ UNCHANGED <<devices, diskList, files, k, found, base, new, images>>

Next ==
    \/ AddDisk
    \/ GetVMByUUID
    \/ ListFiles
    \/ QueryDisk
    \/ QuerySkip
    \/ ReturnPaths
    \/ NoPaths
    \/ CreateImage
    \/ ImageError
    \/ ImagesCreated
    \/ CountDisks

Spec == Init /\ [][Next]_vars

-----------------------------------------------------------------------------
(***************************************************************************)
(* Properties.                                                             *)
(***************************************************************************)

\* When a delta is computed, position d of both path lists and of the
\* DataVolumes is the disk at position d of the DiskList ("snapshot_file_path
\* in disk order"), wherever CDROMs and files of other VMs are listed.
PathsOfDisks ==
    pc = "sync" => base = Ids(diskList) /\ new = base /\ images = base

\* CreateImageFromDisk is asked for disks of the VM, by their own UUID.
ImagesOfDisks ==
    pc = "image" => \A j \in DOMAIN diskList : diskList[j].uuid # "image"

=============================================================================
