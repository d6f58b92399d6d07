----------------------------- MODULE PrismProofs -----------------------------
(***************************************************************************)
(* The proofs about the two modules of controllers/prism_client.go: the    *)
(* lists of disks of DiskPaths agree position by position, and a call of   *)
(* PrismClient that reports success has had it.                            *)
(***************************************************************************)
EXTENDS DiskPaths, FiniteSetTheorems, SequenceTheorems, WellFoundedInduction, TLAPS

-----------------------------------------------------------------------------
(***************************************************************************)
(* Disks in order: every request is answered, and no virtual disk of a     *)
(* CDROM names its VM; the devices of a VM have UUIDs of their own; its    *)
(* disks have a backing, and addresses that rise along the disk_list.      *)
(***************************************************************************)
Ordered(l) ==
    /\ \A a, b \in DOMAIN l : a # b => l[a].id # l[b].id
    /\ \A a, b \in DOMAIN l : a < b /\ ~l[a].cdrom /\ ~l[b].cdrom => l[a].addr < l[b].addr
    /\ \A a \in DOMAIN l : l[a].id \notin Foreign
    /\ \A a \in DOMAIN l : ~l[a].cdrom => l[a].backing # "none"

DisksInOrder ==
    /\ ~RequestFails
    /\ ~CDROMsAttached
    /\ IsFiniteSet(Foreign)
    /\ \A l \in DeviceLists : Ordered(l)

\* The disks among the first n devices.
DisksUpTo(n) == {devices[j].id : j \in {m \in 1 .. n : ~devices[m].cdrom}}

Disks == DisksUpTo(Len(devices))

\* A list of disks, in strict bus order, that has the disks in S and no others.
Enumerates(s, S) ==
    /\ s \in Seq(S)
    /\ \A f \in S : \E j \in 1 .. Len(s) : s[j] = f
    /\ \A a, b \in 1 .. Len(s) : a < b => BusLess(s[a], s[b])

\* Every turn of the loop over the disk_list keeps the list in order.
ListInv ==
    /\ devices \in DeviceLists
    /\ k \in Nat \ {0}
    /\ diskList \in Seq({DiskInfo(dev) : dev \in Device})
    /\ \A j \in 1 .. Len(diskList) : HasUUID(diskList[j])
    /\ pc = "info" => k <= Len(devices) + 1 /\ Enumerates(Ids(diskList), DisksUpTo(k - 1))
    /\ pc # "info" => Enumerates(Ids(diskList), Disks)

\* The loop of GetVMSnapshotPaths has found the attached files before k, each
\* of them once.
FoundInv ==
    pc = "query" =>
        /\ files \in SetToSeqs(Files)
        /\ k <= Len(files) + 1
        /\ found \in Seq(Disks)
        /\ \A a, b \in 1 .. Len(found) : a # b => found[a] # found[b]
        /\ \A f \in Disks : (\E j \in 1 .. k - 1 : files[j] = f) <=> (\E a \in 1 .. Len(found) : found[a] = f)

\* What was taken over from the loops so far.
TakenInv ==
    /\ base = <<>> \/ base = Ids(diskList)
    /\ pc = "info" => base = <<>>
    /\ pc \in {"image", "count", "sync"} => base = Ids(diskList)
    /\ pc \in {"count", "sync"} => new = Ids(diskList) /\ images = Ids(diskList)
    /\ pc \in {"info", "list", "query"} /\ base = <<>> => images = <<>>
    /\ pc = "image" => /\ images = SubSeq(Ids(diskList), 1, k - 1)
                       /\ k <= Len(diskList) + 1
    /\ pc \in {"list", "query"} /\ base # <<>> => images = Ids(diskList)

PathsInv == ListInv /\ FoundInv /\ TakenInv
-----------------------------------------------------------------------------
(***************************************************************************)
(* Lists in bus order.                                                     *)
(***************************************************************************)

\* A function on an interval is a sequence of that length.
LEMMA FunctionIsSeq ==
  ASSUME NEW T, NEW n \in Nat, NEW f \in [1 .. n -> T]
  PROVE  f \in Seq(T) /\ Len(f) = n
<1>1. f \in Seq(T) BY SeqDef
<1>2. DOMAIN f = 1 .. n OBVIOUS
<1> QED BY <1>1, <1>2

\* A set of natural numbers that is not empty has a least element.
LEMMA LeastElement ==
    ASSUME NEW S \in SUBSET Nat, S # {} PROVE \E x \in S : \A y \in S : x <= y
<1> DEFINE R == {p \in Nat \X Nat : p[1] < p[2]}
<1>1. IsWellFoundedOn(R, Nat) BY NatLessThanWellFounded DEF OpToRel
<1>2. PICK x \in S : \A y \in S : ~(<<y, x>> \in R) BY <1>1, WFMin
<1>3. ASSUME NEW y \in S PROVE x <= y
  <2>1. x \in Nat /\ y \in Nat /\ <<y, x>> \notin R BY <1>2, <1>3
  <2>2. ~(y < x) BY <2>1
  <2> QED BY <2>1, <2>2
<1> QED BY <1>2, <1>3

\* BusLess is a strict order on the files in S.
Strict(S) == \A f, g \in S : ~(BusLess(f, g) /\ BusLess(g, f))

\* A list in strict bus order names no disk twice.
LEMMA EnumeratesOnce ==
    ASSUME NEW S, NEW s, Enumerates(s, S), Strict(S),
           NEW a \in 1 .. Len(s), NEW b \in 1 .. Len(s), s[a] = s[b]
    PROVE  a = b
<1>1. s \in Seq(S) /\ s[a] \in S /\ s[b] \in S BY DEF Enumerates
<1>2. ~BusLess(s[a], s[b]) /\ ~BusLess(s[b], s[a]) BY <1>1 DEF Strict
<1>3. ~(a < b) /\ ~(b < a) BY <1>2 DEF Enumerates
<1> QED BY <1>3

\* A list that names each element of a set once is as long as the set is large.
LEMMA ListLength ==
    ASSUME NEW S, NEW s \in Seq(S),
           \A f \in S : \E j \in 1 .. Len(s) : s[j] = f,
           \A a, b \in 1 .. Len(s) : s[a] = s[b] => a = b
    PROVE  IsFiniteSet(S) /\ Cardinality(S) = Len(s)
<1>1. s \in [1 .. Len(s) -> S] /\ Len(s) \in Nat OBVIOUS
<1>2. s \in Bijection(1 .. Len(s), S) BY <1>1 DEF Bijection, Injection, Surjection, IsInjective
<1>3. ExistsBijection(1 .. Len(s), S) BY <1>2 DEF ExistsBijection
<1>4. IsFiniteSet(1 .. Len(s)) /\ Cardinality(1 .. Len(s)) = Len(s)
  <2>1. IsFiniteSet(1 .. Len(s)) /\ Cardinality(1 .. Len(s)) = IF 1 > Len(s) THEN 0 ELSE Len(s) - 1 + 1
    BY <1>1, FS_Interval
  <2> QED BY <1>1, <2>1
<1> QED BY <1>3, <1>4, FS_Bijection

\* There is only one list of the disks of a set in bus order.
LEMMA OneOrder ==
    ASSUME NEW S, NEW s, NEW t, Strict(S), Enumerates(s, S), Enumerates(t, S)
    PROVE  s = t
<1>1. s \in Seq(S) /\ t \in Seq(S) BY DEF Enumerates
<1>2. Len(s) = Len(t)
  <2>1. \A a, b \in 1 .. Len(s) : s[a] = s[b] => a = b BY EnumeratesOnce
  <2>2. \A a, b \in 1 .. Len(t) : t[a] = t[b] => a = b BY EnumeratesOnce
  <2>3. Cardinality(S) = Len(s) BY <1>1, <2>1, ListLength DEF Enumerates
  <2>4. Cardinality(S) = Len(t) BY <1>1, <2>2, ListLength DEF Enumerates
  <2> QED BY <2>3, <2>4
<1> DEFINE D == {j \in 1 .. Len(s) : s[j] # t[j]}
<1>3. D = {}
  <2>1. SUFFICES ASSUME D # {} PROVE FALSE OBVIOUS
  <2>2. D \in SUBSET Nat OBVIOUS
  <2>3. PICK m \in D : \A y \in D : m <= y BY <2>1, <2>2, LeastElement
  <2> HIDE DEF D
  <2>4. m \in 1 .. Len(s) /\ s[m] # t[m] /\ \A j \in 1 .. Len(s) : s[j] # t[j] => m <= j BY <2>3 DEF D
  <2>5. s[m] \in S /\ t[m] \in S BY <1>1, <1>2, <2>4
  <2>6. PICK x \in 1 .. Len(t) : t[x] = s[m] BY <2>5 DEF Enumerates
  <2>7. PICK y \in 1 .. Len(s) : s[y] = t[m] BY <2>5 DEF Enumerates
  <2>8. m < x
    <3>1. x # m BY <2>4, <2>6
    <3>2. ASSUME x < m PROVE FALSE
      <4>1. s[x] = t[x] BY <1>2, <2>4, <3>2
      <4>2. x = m BY <1>2, <2>4, <2>6, <4>1, EnumeratesOnce
      <4> QED BY <3>1, <4>2
    <3> QED BY <2>4, <3>1, <3>2
  <2>9. m < y
    <3>1. y # m BY <2>4, <2>7
    <3>2. ASSUME y < m PROVE FALSE
      <4>1. s[y] = t[y] BY <2>4, <3>2
      <4>2. t[y] = t[m] /\ y \in 1 .. Len(t) /\ m \in 1 .. Len(t) BY <1>2, <2>4, <2>7, <4>1
      <4>3. y = m BY <4>2, EnumeratesOnce
      <4> QED BY <3>1, <4>3
    <3> QED BY <2>4, <3>1, <3>2
  <2>10. BusLess(t[m], t[x]) BY <1>2, <2>4, <2>8 DEF Enumerates
  <2>11. BusLess(s[m], s[y]) BY <2>4, <2>9 DEF Enumerates
  <2> QED BY <2>5, <2>6, <2>7, <2>10, <2>11 DEF Strict
<1> HIDE DEF D
<1>4. \A j \in 1 .. Len(s) : s[j] = t[j] BY <1>3 DEF D
<1> QED BY <1>1, <1>2, <1>4, SeqEqual

\* sort.SliceStable brings the disks, found in any order, into bus order.
LEMMA SortedList ==
    ASSUME NEW S, NEW s \in Seq(S), NEW t, Strict(S), Enumerates(t, S),
           \A f \in S : \E j \in 1 .. Len(s) : s[j] = f,
           \A a, b \in 1 .. Len(s) : a # b => s[a] # s[b]
    PROVE  InBusOrder(s) = t
<1> DEFINE N == 1 .. Len(s)
<1>1. t \in Seq(S) /\ Len(s) \in Nat BY DEF Enumerates
<1>2. Len(s) = Len(t)
  <2>1. \A a, b \in 1 .. Len(t) : t[a] = t[b] => a = b BY EnumeratesOnce
  <2>2. Cardinality(S) = Len(t) BY <1>1, <2>1, ListLength DEF Enumerates
  <2>3. Cardinality(S) = Len(s) BY ListLength
  <2> QED BY <2>2, <2>3
<1>3. \E q \in [N -> N] : StableOrder(s, q)
  <2> DEFINE p == [a \in N |-> CHOOSE x \in N : s[x] = t[a]]
  <2>1. ASSUME NEW a \in N PROVE p[a] \in N /\ s[p[a]] = t[a]
    <3>1. t[a] \in S BY <1>1, <1>2
    <3>2. \E x \in N : s[x] = t[a] BY <3>1
    <3> QED BY <3>2
  <2>2. p \in [N -> N] BY <2>1
  <2> HIDE DEF p
  <2>3. StableOrder(s, p) BY <1>2, <2>1 DEF StableOrder, Enumerates
  <2> QED BY <2>2, <2>3
<1> DEFINE q == CHOOSE q \in [1 .. Len(s) -> 1 .. Len(s)] : StableOrder(s, q)
           r == [j \in 1 .. Len(s) |-> s[q[j]]]
<1>4. q \in [N -> N] /\ StableOrder(s, q) BY <1>3
<1>5. InBusOrder(s) = r BY DEF InBusOrder
<1> HIDE DEF q
<1>6. \A a, b \in N : a # b => q[a] # q[b]
  <2>1. SUFFICES ASSUME NEW a \in N, NEW b \in N, a < b PROVE q[a] # q[b] OBVIOUS
  <2>2. q[a] \in N /\ q[b] \in N BY <1>4
  <2>3. s[q[a]] \in S /\ s[q[b]] \in S BY <2>2, ElementOfSeq
  <2>4. CASE q[a] < q[b] BY <2>2, <2>4
  <2>5. CASE BusLess(s[q[a]], s[q[b]]) BY <2>3, <2>5 DEF Strict
  <2> QED BY <1>4, <2>1, <2>4, <2>5 DEF StableOrder
<1>7. \A x \in N : \E a \in N : q[a] = x
  <2>1. q \in Injection(N, N) BY <1>4, <1>6 DEF Injection, IsInjective
  <2>2. IsFiniteSet(N) BY <1>1, FS_Interval
  <2>3. q \in Surjection(N, N) BY <2>1, <2>2, FS_Injection
  <2> QED BY <2>3 DEF Surjection
<1>8. Enumerates(r, S)
  <2>1. r \in [N -> S] BY <1>4
  <2>2. r \in Seq(S) /\ Len(r) = Len(s) BY <1>1, <2>1, FunctionIsSeq
  <2>3. ASSUME NEW f \in S PROVE \E j \in 1 .. Len(r) : r[j] = f
    <3>1. PICK x \in N : s[x] = f OBVIOUS
    <3>2. PICK a \in N : q[a] = x BY <1>7
    <3> QED BY <2>2, <3>1, <3>2
  <2>4. ASSUME NEW a \in N, NEW b \in N, a < b PROVE BusLess(r[a], r[b])
    <3>0. q[a] \in N /\ q[b] \in N BY <1>4
    <3>1. q[a] # q[b] BY <1>6, <2>4
    <3>2. s[q[a]] \in S /\ s[q[b]] \in S /\ s[q[a]] # s[q[b]] BY <3>0, <3>1, ElementOfSeq
    <3>3. PICK x \in 1 .. Len(t) : t[x] = s[q[a]] BY <3>2 DEF Enumerates
    <3>4. PICK y \in 1 .. Len(t) : t[y] = s[q[b]] BY <3>2 DEF Enumerates
    <3>5. x # y BY <3>2, <3>3, <3>4
    <3>6. BusLess(t[x], t[y]) \/ BusLess(t[y], t[x]) BY <3>5 DEF Enumerates
    <3>7. BusLess(s[q[a]], s[q[b]]) BY <1>4, <2>4, <3>3, <3>4, <3>6 DEF StableOrder
    <3> QED BY <2>4, <3>7
  <2> HIDE DEF r
  <2> QED BY <2>2, <2>3, <2>4 DEF Enumerates
<1> HIDE DEF r
<1> QED BY <1>5, <1>8, OneOrder

-----------------------------------------------------------------------------
(***************************************************************************)
(* The disks of a VM.                                                      *)
(***************************************************************************)

\* Entry finds the device that has the id.
LEMMA EntryOf ==
    ASSUME DisksInOrder, devices \in DeviceLists, NEW j \in 1 .. Len(devices)
    PROVE  Entry(devices[j].id) = j
<1>1. devices \in Seq(Device) /\ Ordered(devices) BY DiskPathsAssumption DEF DisksInOrder
<1>2. j \in DOMAIN devices BY <1>1
<1>3. \A m \in DOMAIN devices : devices[m].id = devices[j].id => m = j BY <1>1, <1>2 DEF Ordered
<1> QED BY <1>2, <1>3 DEF Entry

\* Of the disks, the one that comes first in the disk_list has the lower address.
LEMMA BusLessByIndex ==
    ASSUME DisksInOrder, devices \in DeviceLists,
           NEW a \in 1 .. Len(devices), NEW b \in 1 .. Len(devices),
           ~devices[a].cdrom, ~devices[b].cdrom
    PROVE  BusLess(devices[a].id, devices[b].id) <=> a < b
<1>1. devices \in Seq(Device) /\ Ordered(devices) BY DiskPathsAssumption DEF DisksInOrder
<1>2. DOMAIN devices = 1 .. Len(devices) /\ devices[a].addr \in Nat /\ devices[b].addr \in Nat
  <2>1. devices[a] \in Device /\ devices[b] \in Device BY <1>1, ElementOfSeq
  <2> QED BY <1>1, <2>1 DEF Device
<1>3. a < b => devices[a].addr < devices[b].addr BY <1>1, <1>2 DEF Ordered
<1>4. b < a => devices[b].addr < devices[a].addr BY <1>1, <1>2 DEF Ordered
<1>5. Entry(devices[a].id) = a /\ Entry(devices[b].id) = b BY EntryOf
<1> QED BY <1>2, <1>3, <1>4, <1>5 DEF BusLess

LEMMA DisksStrict ==
    ASSUME DisksInOrder, devices \in DeviceLists PROVE Strict(Disks)
<1>1. devices \in Seq(Device) BY DiskPathsAssumption
<1>2. SUFFICES ASSUME NEW f \in Disks, NEW g \in Disks, BusLess(f, g), BusLess(g, f) PROVE FALSE
  BY DEF Strict
<1>3. PICK a \in 1 .. Len(devices) : ~devices[a].cdrom /\ f = devices[a].id BY DEF Disks, DisksUpTo
<1>4. PICK b \in 1 .. Len(devices) : ~devices[b].cdrom /\ g = devices[b].id BY DEF Disks, DisksUpTo
<1>5. a < b /\ b < a BY <1>2, <1>3, <1>4, BusLessByIndex
<1> QED BY <1>5

\* The files that GetVMSnapshotPaths takes for the VM's are its disks.
LEMMA AttachedIsDisk ==
    ASSUME DisksInOrder, devices \in DeviceLists, NEW f \in Files
    PROVE  Attached(f) <=> f \in Disks
<1>1. devices \in Seq(Device) /\ Ordered(devices) BY DiskPathsAssumption DEF DisksInOrder
<1>2. DOMAIN devices = 1 .. Len(devices) BY <1>1
<1>3. CASE f \in Foreign
  BY <1>1, <1>2, <1>3 DEF Attached, Disks, DisksUpTo, Ordered
<1>4. CASE f \notin Foreign
  <2>1. PICK j \in 1 .. Len(devices) : f = devices[j].id BY <1>2, <1>4 DEF Files
  <2>2. Entry(f) = j BY <2>1, EntryOf
  <2>3. f \in Disks => ~devices[j].cdrom
    <3>1. SUFFICES ASSUME f \in Disks PROVE ~devices[j].cdrom OBVIOUS
    <3>2. PICK m \in 1 .. Len(devices) : ~devices[m].cdrom /\ f = devices[m].id
      BY <3>1 DEF Disks, DisksUpTo
    <3>3. m = j BY <1>1, <1>2, <2>1, <3>2 DEF Ordered
    <3> QED BY <3>2, <3>3
  <2>4. ~devices[j].cdrom => f \in Disks BY <2>1 DEF Disks, DisksUpTo
  <2> QED BY <1>4, <2>2, <2>3, <2>4 DEF Attached, DisksInOrder
<1> QED BY <1>3, <1>4

\* A snapshot lists every file.
LEMMA EveryFileListed ==
    ASSUME DisksInOrder, devices \in DeviceLists, NEW s \in SetToSeqs(Files)
    PROVE  /\ s \in Seq(Files)
           /\ \A a, b \in 1 .. Len(s) : a # b => s[a] # s[b]
           /\ \A f \in Files : \E j \in 1 .. Len(s) : s[j] = f
<1> DEFINE n == Cardinality(Files)
<1>1. devices \in Seq(Device) BY DiskPathsAssumption
<1>2. IsFiniteSet(Files)
  <2> DEFINE I == {devices[j].id : j \in DOMAIN devices}
             g == [j \in DOMAIN devices |-> devices[j].id]
  <2>1. IsFiniteSet(DOMAIN devices)
    <3>1. DOMAIN devices = 1 .. Len(devices) /\ Len(devices) \in Nat BY <1>1
    <3> QED BY <3>1, FS_Interval
  <2>2. g \in Surjection(DOMAIN devices, I) BY DEF Surjection
  <2>3. IsFiniteSet(I) BY <2>1, <2>2, FS_Surjection
  <2> QED BY <2>3, FS_Union DEF Files, DisksInOrder
<1>3. n \in Nat BY <1>2, FS_CardinalityType
<1>4. /\ s \in [1 .. n -> Files]
      /\ \A a, b \in 1 .. n : a # b => s[a] # s[b]
  BY DEF SetToSeqs
<1>5. s \in Seq(Files) /\ Len(s) = n BY <1>3, <1>4, FunctionIsSeq
<1>6. s \in Injection(1 .. n, Files) BY <1>4 DEF Injection, IsInjective
<1>7. Cardinality(1 .. n) = n
  <2>1. Cardinality(1 .. n) = IF 1 > n THEN 0 ELSE n - 1 + 1 BY <1>3, FS_Interval
  <2> QED BY <1>3, <2>1
<1>8. s \in Surjection(1 .. n, Files) BY <1>2, <1>6, <1>7, FS_Injection
<1> QED BY <1>4, <1>5, <1>8 DEF Surjection

\* DisksInOrder gives every disk a UUID.
LEMMA DiskHasUUID ==
    ASSUME NEW dev \in Device, dev.backing # "none"
    PROVE  /\ HasUUID(DiskInfo(dev))
           /\ DiskInfo(dev).id = dev.id
<1>1. dev.backing = "image" \/ dev.backing = "bare" BY DEF Device
<1>2. CASE dev.backing = "image"
  <2>1. DiskInfo(dev) = [id |-> dev.id, uuid |-> "image"] BY <1>2 DEF DiskInfo
  <2>2. DiskInfo(dev).uuid = "image" BY <2>1
  <2>3. HasUUID(DiskInfo(dev)) BY <2>2, Zenon DEF HasUUID
  <2>4. DiskInfo(dev).id = dev.id BY <2>1
  <2> QED BY <2>3, <2>4
<1>3. CASE dev.backing = "bare"
  <2>1. DiskInfo(dev) = [id |-> dev.id, uuid |-> "vdisk"] BY <1>3 DEF DiskInfo
  <2>2. DiskInfo(dev).uuid = "vdisk" BY <2>1
  <2>3. HasUUID(DiskInfo(dev)) BY <2>2, Zenon DEF HasUUID
  <2>4. DiskInfo(dev).id = dev.id BY <2>1
  <2> QED BY <2>3, <2>4
<1> QED BY <1>1, <1>2, <1>3

-----------------------------------------------------------------------------
(***************************************************************************)
(* PathsInv is inductive.                                                  *)
(***************************************************************************)

LEMMA ListTypes ==
    ASSUME ListInv
    PROVE  /\ diskList \in Seq({DiskInfo(dev) : dev \in Device})
           /\ Ids(diskList) = [j \in 1 .. Len(diskList) |-> diskList[j].id]
           /\ devices \in Seq(Device)
<1>1. diskList \in Seq({DiskInfo(dev) : dev \in Device}) BY DEF ListInv
<1>2. DOMAIN diskList = 1 .. Len(diskList) BY <1>1
<1> QED BY <1>1, <1>2, DiskPathsAssumption DEF Ids, ListInv

LEMMA PathsInit == DisksInOrder /\ Init => PathsInv
<1> SUFFICES ASSUME DisksInOrder, Init PROVE PathsInv OBVIOUS
<1>1. devices \in Seq(Device) BY DiskPathsAssumption DEF Init
<1>2. diskList = <<>> /\ k = 1 /\ pc = "info" /\ devices \in DeviceLists BY DEF Init
<1>3. Len(diskList) = 0 /\ diskList \in Seq({DiskInfo(dev) : dev \in Device}) BY <1>2
<1>4. Ids(diskList) = <<>> BY <1>2 DEF Ids
<1>5. DisksUpTo(k - 1) = {} BY <1>2 DEF DisksUpTo
<1>6. Enumerates(Ids(diskList), DisksUpTo(k - 1)) BY <1>4, <1>5 DEF Enumerates
<1>7. ListInv BY <1>1, <1>2, <1>3, <1>6 DEF ListInv
<1>8. FoundInv BY <1>2 DEF FoundInv
<1>9. TakenInv BY <1>2 DEF TakenInv, Init
<1> QED BY <1>7, <1>8, <1>9 DEF PathsInv

\* The next disk of the disk_list comes after those already listed.
LEMMA NextDisk ==
    ASSUME DisksInOrder, devices \in DeviceLists, NEW n \in 1 .. Len(devices),
           NEW s, Enumerates(s, DisksUpTo(n - 1))
    PROVE  Enumerates(IF devices[n].cdrom THEN s ELSE Append(s, devices[n].id), DisksUpTo(n))
<1>1. devices \in Seq(Device) BY DiskPathsAssumption
<1>2. CASE devices[n].cdrom
  <2>1. {m \in 1 .. n : ~devices[m].cdrom} = {m \in 1 .. n - 1 : ~devices[m].cdrom} BY <1>2
  <2>2. DisksUpTo(n) = DisksUpTo(n - 1) BY <2>1 DEF DisksUpTo
  <2> QED BY <1>2, <2>2
<1>3. CASE ~devices[n].cdrom
  <2> DEFINE t == Append(s, devices[n].id)
  <2>1. DisksUpTo(n) = DisksUpTo(n - 1) \cup {devices[n].id}
    <3>1. {m \in 1 .. n : ~devices[m].cdrom} = {m \in 1 .. n - 1 : ~devices[m].cdrom} \cup {n} BY <1>3
    <3> QED BY <3>1 DEF DisksUpTo
  <2>2. s \in Seq(DisksUpTo(n - 1)) BY DEF Enumerates
  <2>3. s \in Seq(DisksUpTo(n)) BY <2>1, <2>2
  <2>4. /\ t \in Seq(DisksUpTo(n)) /\ Len(t) = Len(s) + 1 /\ t[Len(s) + 1] = devices[n].id
        /\ \A j \in 1 .. Len(s) : t[j] = s[j]
    BY <2>1, <2>3
  <2>5. ASSUME NEW f \in DisksUpTo(n) PROVE \E j \in 1 .. Len(t) : t[j] = f
    <3>1. CASE f = devices[n].id BY <2>2, <2>4, <3>1
    <3>2. CASE f \in DisksUpTo(n - 1)
      <4>1. PICK j \in 1 .. Len(s) : s[j] = f BY <3>2 DEF Enumerates
      <4> QED BY <2>2, <2>4, <4>1
    <3> QED BY <2>1, <3>1, <3>2
  <2>6. ASSUME NEW a \in 1 .. Len(t), NEW b \in 1 .. Len(t), a < b PROVE BusLess(t[a], t[b])
    <3>1. a \in 1 .. Len(s) /\ t[a] = s[a] BY <2>2, <2>4, <2>6
    <3>2. CASE b \in 1 .. Len(s) BY <2>4, <2>6, <3>1, <3>2 DEF Enumerates
    <3>3. CASE b = Len(s) + 1
      <4>1. s[a] \in DisksUpTo(n - 1) BY <2>2, <3>1, ElementOfSeq
      <4>2. PICK m \in 1 .. n - 1 : ~devices[m].cdrom /\ s[a] = devices[m].id BY <4>1 DEF DisksUpTo
      <4>3. m \in 1 .. Len(devices) /\ m < n BY <1>1
      <4>4. BusLess(devices[m].id, devices[n].id) BY <1>3, <4>2, <4>3, BusLessByIndex
      <4> QED BY <2>4, <3>1, <3>3, <4>2, <4>4
    <3> QED BY <2>2, <2>4, <3>2, <3>3
  <2> HIDE DEF t
  <2>7. Enumerates(t, DisksUpTo(n)) BY <2>4, <2>5, <2>6 DEF Enumerates
  <2> QED BY <1>3, <2>7 DEF t
<1> QED BY <1>2, <1>3

\* The order of a list only depends on the devices.
LEMMA EnumeratesFrame ==
    ASSUME NEW s, NEW n, devices' = devices
    PROVE  /\ DisksUpTo(n)' = DisksUpTo(n) /\ Disks' = Disks /\ Files' = Files
           /\ \A S : Enumerates(s, S) => Enumerates(s, S)'
<1>1. DisksUpTo(n)' = DisksUpTo(n) /\ Disks' = Disks /\ Files' = Files BY DEF DisksUpTo, Disks, Files
<1>2. \A f, g : BusLess(f, g)' = BusLess(f, g) BY DEF BusLess, Entry
<1> QED BY <1>1, <1>2 DEF Enumerates

\* A turn of the loop over the disk_list.
LEMMA AddDiskStep ==
    ASSUME DisksInOrder, PathsInv, AddDisk PROVE PathsInv'
<1>1. ListInv /\ TakenInv BY DEF PathsInv
<1>2. /\ pc = "info" /\ pc' = "info" /\ k \in 1 .. Len(devices) /\ k' = k + 1
      /\ devices' = devices /\ base' = base /\ images' = images
  <2>1. k \in Nat \ {0} BY <1>1 DEF ListInv
  <2>2. devices \in Seq(Device) BY <1>1, ListTypes
  <2> QED BY <2>1, <2>2 DEF AddDisk
<1>3. /\ diskList \in Seq({DiskInfo(dev) : dev \in Device})
      /\ Ids(diskList) = [j \in 1 .. Len(diskList) |-> diskList[j].id]
      /\ devices \in Seq(Device) /\ devices \in DeviceLists
  BY <1>1, ListTypes DEF ListInv
<1>4. devices[k] \in Device BY <1>2, <1>3, ElementOfSeq
<1>5. Enumerates(Ids(diskList), DisksUpTo(k - 1)) BY <1>1, <1>2 DEF ListInv
<1>6. FoundInv' BY <1>2 DEF FoundInv
<1>7. TakenInv'
  <2>1. base = <<>> /\ images = <<>> BY <1>1, <1>2 DEF TakenInv
  <2> QED BY <1>2, <2>1 DEF TakenInv
<1>8. ~devices[k].cdrom => HasUUID(DiskInfo(devices[k])) /\ DiskInfo(devices[k]).id = devices[k].id
  <2>1. k \in DOMAIN devices BY <1>2, <1>3
  <2>2. ~devices[k].cdrom => devices[k].backing # "none" BY <1>3, <2>1 DEF DisksInOrder, Ordered
  <2> QED BY <1>4, <2>2, DiskHasUUID
<1>9. /\ diskList' \in Seq({DiskInfo(dev) : dev \in Device})
      /\ \A j \in 1 .. Len(diskList') : HasUUID(diskList'[j])
      /\ Ids(diskList') = IF devices[k].cdrom THEN Ids(diskList) ELSE Append(Ids(diskList), devices[k].id)
  <2>1. \A j \in 1 .. Len(diskList) : HasUUID(diskList[j]) BY <1>1 DEF ListInv
  <2>2. CASE devices[k].cdrom BY <1>3, <2>1, <2>2 DEF AddDisk
  <2>3. CASE ~devices[k].cdrom
    <3>1. diskList' = Append(diskList, DiskInfo(devices[k])) BY <2>3 DEF AddDisk
    <3>2. /\ diskList' \in Seq({DiskInfo(dev) : dev \in Device}) /\ Len(diskList') = Len(diskList) + 1
          /\ diskList'[Len(diskList) + 1] = DiskInfo(devices[k])
          /\ \A j \in 1 .. Len(diskList) : diskList'[j] = diskList[j]
      BY <1>3, <1>4, <3>1
    <3>3. Ids(diskList') = [j \in 1 .. Len(diskList) + 1 |-> diskList'[j].id] BY <3>2 DEF Ids
    <3>4. Ids(diskList) \in Seq({DiskInfo(dev).id : dev \in Device}) /\ Len(Ids(diskList)) = Len(diskList)
      <4>1. Ids(diskList) \in [1 .. Len(diskList) -> {DiskInfo(dev).id : dev \in Device}] BY <1>3
      <4> QED BY <1>3, <4>1, FunctionIsSeq
    <3>5. Append(Ids(diskList), devices[k].id) =
            [j \in 1 .. Len(diskList) + 1 |-> IF j = Len(diskList) + 1 THEN devices[k].id ELSE Ids(diskList)[j]]
      BY <1>4, <1>8, <2>3, <3>4
    <3>6. \A j \in 1 .. Len(diskList) + 1 : j = Len(diskList) + 1 \/ j \in 1 .. Len(diskList) BY <1>3
    <3>7. Ids(diskList') = Append(Ids(diskList), devices[k].id)
      BY <1>3, <1>8, <2>3, <3>2, <3>3, <3>5, <3>6
    <3>8. \A j \in 1 .. Len(diskList') : HasUUID(diskList'[j]) BY <1>8, <2>1, <2>3, <3>2, <3>6
    <3> QED BY <2>3, <3>2, <3>7, <3>8
  <2> QED BY <2>2, <2>3
<1>10. Enumerates(Ids(diskList'), DisksUpTo(k)) BY <1>2, <1>3, <1>5, <1>9, NextDisk
<1>11. ListInv'
  <2>1. (DisksUpTo(k - 1))' = DisksUpTo(k) BY <1>2 DEF DisksUpTo
  <2>2. (Ids(diskList))' = Ids(diskList') BY DEF Ids
  <2>3. \A s : Enumerates(s, DisksUpTo(k)) => Enumerates(s, DisksUpTo(k - 1))'
    <3>1. \A f, g : BusLess(f, g)' = BusLess(f, g) BY <1>2 DEF BusLess, Entry
    <3> QED BY <2>1, <3>1 DEF Enumerates
  <2>4. Enumerates(Ids(diskList), DisksUpTo(k - 1))' BY <1>10, <2>2, <2>3
  <2>5. \A j \in 1 .. Len(diskList') : HasUUID(diskList[j])' BY <1>9 DEF HasUUID
  <2> QED BY <1>2, <1>3, <1>9, <2>4, <2>5 DEF ListInv
<1> QED BY <1>6, <1>7, <1>11 DEF PathsInv

\* After the loop over the disk_list the DiskList does not change any more.
LEMMA ListFrame ==
    ASSUME ListInv, devices' = devices, diskList' = diskList, k' \in Nat \ {0},
           pc # "info", pc' # "info"
    PROVE  ListInv'
<1>1. Enumerates(Ids(diskList), Disks) BY DEF ListInv
<1>2. Disks' = Disks /\ \A s, S : Enumerates(s, S) => Enumerates(s, S)' BY EnumeratesFrame
<1>3. Ids(diskList)' = Ids(diskList) BY DEF Ids
<1>4. Enumerates(Ids(diskList), Disks)' BY <1>1, <1>2, <1>3
<1>5. (\A j \in 1 .. Len(diskList) : HasUUID(diskList[j]))' BY DEF ListInv, HasUUID
<1> QED BY <1>4, <1>5 DEF ListInv

\* GetVMByUUID returns.
LEMMA InfoStep ==
    ASSUME DisksInOrder, PathsInv, GetVMByUUID PROVE PathsInv'
<1>1. ListInv /\ TakenInv BY DEF PathsInv
<1>2. /\ pc = "info" /\ pc' = "list" /\ k > Len(devices) /\ k' = k
      /\ devices' = devices /\ diskList' = diskList /\ base' = base /\ images' = images
  BY DEF GetVMByUUID
<1>3. devices \in Seq(Device) BY <1>1, ListTypes
<1>4. k - 1 = Len(devices) BY <1>1, <1>2, <1>3 DEF ListInv
<1>5. Enumerates(Ids(diskList), Disks) BY <1>1, <1>2, <1>4 DEF ListInv, Disks
<1>6. Disks' = Disks /\ \A s, S : Enumerates(s, S) => Enumerates(s, S)' BY <1>2, EnumeratesFrame
<1>7. Ids(diskList)' = Ids(diskList) BY <1>2 DEF Ids
<1>8. Enumerates(Ids(diskList), Disks)' BY <1>5, <1>6, <1>7
<1>9. (\A j \in 1 .. Len(diskList) : HasUUID(diskList[j]))' BY <1>1, <1>2 DEF ListInv, HasUUID
<1>10. ListInv' BY <1>1, <1>2, <1>8, <1>9 DEF ListInv
<1>11. FoundInv' BY <1>2 DEF FoundInv
<1>12. TakenInv' BY <1>1, <1>2, <1>7 DEF TakenInv
<1> QED BY <1>10, <1>11, <1>12 DEF PathsInv

\* A snapshot has been read, its loop begins.
LEMMA ListFilesStep ==
    ASSUME DisksInOrder, PathsInv, ListFiles PROVE PathsInv'
<1>1. ListInv /\ TakenInv BY DEF PathsInv
<1>2. /\ pc = "list" /\ pc' = "query" /\ k' = 1 /\ found' = <<>> /\ files' \in SetToSeqs(Files)
      /\ devices' = devices /\ diskList' = diskList /\ base' = base /\ images' = images
  BY DEF ListFiles
<1>3. ListInv' BY <1>1, <1>2, ListFrame
<1>4. Disks' = Disks /\ Files' = Files /\ Ids(diskList)' = Ids(diskList)
  BY <1>2, EnumeratesFrame DEF Ids
<1>5. files' \in Seq(Files) BY <1>1, <1>2, EveryFileListed DEF ListInv
<1>6. FoundInv'
  <2>1. Len(files') \in Nat BY <1>5
  <2>2. found' \in Seq(Disks) /\ Len(found') = 0 BY <1>2
  <2>3. \A f \in Disks : ~(\E j \in 1 .. k' - 1 : files'[j] = f) /\ ~(\E a \in 1 .. Len(found') : found'[a] = f)
    BY <1>2, <2>2
  <2> QED BY <1>2, <1>4, <2>1, <2>2, <2>3 DEF FoundInv
<1>7. TakenInv' BY <1>1, <1>2, <1>4 DEF TakenInv
<1> QED BY <1>3, <1>6, <1>7 DEF PathsInv

\* A turn of the loop of GetVMSnapshotPaths: the file is taken if and only if it
\* is a disk of the VM.
LEMMA QueryStep ==
    ASSUME DisksInOrder, PathsInv, QueryDisk \/ QuerySkip PROVE PathsInv'
<1>1. ListInv /\ TakenInv /\ FoundInv BY DEF PathsInv
<1>2. /\ pc = "query" /\ pc' = "query" /\ k <= Len(files) /\ k' = k + 1 /\ files' = files
      /\ devices' = devices /\ diskList' = diskList /\ base' = base /\ images' = images
  BY DEF QueryDisk, QuerySkip
<1>3. k \in Nat \ {0} /\ devices \in DeviceLists BY <1>1 DEF ListInv
<1>4. ListInv' BY <1>1, <1>2, <1>3, ListFrame
<1>5. Disks' = Disks /\ Files' = Files /\ Ids(diskList)' = Ids(diskList)
  BY <1>2, EnumeratesFrame DEF Ids
<1>6. TakenInv' BY <1>1, <1>2, <1>5 DEF TakenInv
<1>7. /\ files \in SetToSeqs(Files)
      /\ found \in Seq(Disks)
      /\ \A a, b \in 1 .. Len(found) : a # b => found[a] # found[b]
      /\ \A f \in Disks : (\E j \in 1 .. k - 1 : files[j] = f) <=> (\E a \in 1 .. Len(found) : found[a] = f)
  BY <1>1, <1>2 DEF FoundInv
<1>8. /\ files \in Seq(Files)
      /\ \A a, b \in 1 .. Len(files) : a # b => files[a] # files[b]
  BY <1>3, <1>7, EveryFileListed
<1>9. k \in 1 .. Len(files) BY <1>2, <1>3, <1>8
<1>10. files[k] \in Files BY <1>8, <1>9, ElementOfSeq
<1>11. Attached(files[k]) <=> files[k] \in Disks BY <1>3, <1>10, AttachedIsDisk
<1>12. \A j \in 1 .. k : j = k \/ j \in 1 .. k - 1 BY <1>3
<1>13. CASE files[k] \in Disks
  <2>1. found' = Append(found, files[k])
    <3>1. ~QuerySkip BY <1>11, <1>13 DEF QuerySkip, DisksInOrder
    <3> QED BY <3>1 DEF QueryDisk
  <2>2. /\ found' \in Seq(Disks) /\ Len(found') = Len(found) + 1 /\ found'[Len(found) + 1] = files[k]
        /\ \A a \in 1 .. Len(found) : found'[a] = found[a]
    BY <1>7, <1>13, <2>1
  <2>3. \A a \in 1 .. Len(found') : a = Len(found) + 1 \/ a \in 1 .. Len(found) BY <1>7, <2>2
  <2>4. \A a \in 1 .. Len(found) : found[a] # files[k]
    <3>1. SUFFICES ASSUME NEW a \in 1 .. Len(found), found[a] = files[k] PROVE FALSE OBVIOUS
    <3>2. PICK j \in 1 .. k - 1 : files[j] = files[k] BY <1>7, <1>13, <3>1
    <3>3. j \in 1 .. Len(files) /\ j # k BY <1>3, <1>9
    <3> QED BY <1>8, <1>9, <3>2, <3>3
  <2>5. \A a, b \in 1 .. Len(found') : a # b => found'[a] # found'[b] BY <1>7, <2>2, <2>3, <2>4
  <2>6. ASSUME NEW f \in Disks
        PROVE (\E j \in 1 .. k' - 1 : files[j] = f) <=> (\E a \in 1 .. Len(found') : found'[a] = f)
    <3>1. k' - 1 = k /\ k \in 1 .. k /\ \A j \in 1 .. k - 1 : j \in 1 .. k BY <1>2, <1>3
    <3>2. (\E j \in 1 .. k : files[j] = f) <=> (f = files[k] \/ \E j \in 1 .. k - 1 : files[j] = f)
      BY <1>12, <3>1
    <3>3. Len(found) + 1 \in 1 .. Len(found') /\ \A a \in 1 .. Len(found) : a \in 1 .. Len(found')
      BY <1>7, <2>2
    <3>4. (\E a \in 1 .. Len(found') : found'[a] = f) <=> (f = files[k] \/ \E a \in 1 .. Len(found) : found[a] = f)
      BY <2>2, <2>3, <3>3
    <3> QED BY <1>7, <3>1, <3>2, <3>4
  <2>7. FoundInv' BY <1>2, <1>5, <1>7, <1>9, <2>2, <2>5, <2>6 DEF FoundInv
  <2> QED BY <1>4, <1>6, <2>7 DEF PathsInv
<1>14. CASE files[k] \notin Disks
  <2>1. found' = found BY <1>11, <1>14 DEF QueryDisk, QuerySkip
  <2>2. ASSUME NEW f \in Disks
        PROVE (\E j \in 1 .. k' - 1 : files[j] = f) <=> (\E j \in 1 .. k - 1 : files[j] = f)
    <3>1. k' - 1 = k /\ \A j \in 1 .. k - 1 : j \in 1 .. k BY <1>2, <1>3
    <3> QED BY <1>12, <1>14, <3>1
  <2>3. FoundInv' BY <1>2, <1>5, <1>7, <1>9, <2>1, <2>2 DEF FoundInv
  <2> QED BY <1>4, <1>6, <2>3 DEF PathsInv
<1> QED BY <1>13, <1>14

\* The loop is over: the paths it has found, in bus order, are those of the
\* DiskList.
LEMMA FoundAll ==
    ASSUME DisksInOrder, PathsInv, pc = "query", k > Len(files)
    PROVE  InBusOrder(found) = Ids(diskList)
<1>1. ListInv /\ FoundInv BY DEF PathsInv
<1>2. k \in Nat \ {0} /\ devices \in DeviceLists /\ Enumerates(Ids(diskList), Disks) BY <1>1 DEF ListInv
<1>3. /\ files \in SetToSeqs(Files) /\ k <= Len(files) + 1
      /\ found \in Seq(Disks)
      /\ \A a, b \in 1 .. Len(found) : a # b => found[a] # found[b]
      /\ \A f \in Disks : (\E j \in 1 .. k - 1 : files[j] = f) <=> (\E a \in 1 .. Len(found) : found[a] = f)
  BY <1>1 DEF FoundInv
<1>4. files \in Seq(Files) /\ \A f \in Files : \E j \in 1 .. Len(files) : files[j] = f
  BY <1>2, <1>3, EveryFileListed
<1>5. k - 1 = Len(files) BY <1>2, <1>3, <1>4
<1>6. Disks \subseteq Files
  <2>1. devices \in Seq(Device) BY <1>2, DiskPathsAssumption
  <2> QED BY <2>1 DEF Disks, DisksUpTo, Files
<1>7. \A f \in Disks : \E a \in 1 .. Len(found) : found[a] = f BY <1>3, <1>4, <1>5, <1>6
<1>8. Strict(Disks) BY <1>2, DisksStrict
<1> QED BY <1>2, <1>3, <1>7, <1>8, SortedList

LEMMA ReturnPathsStep ==
    ASSUME DisksInOrder, PathsInv, ReturnPaths PROVE PathsInv'
<1>1. ListInv /\ TakenInv /\ FoundInv BY DEF PathsInv
<1>2. /\ pc = "query" /\ k > Len(files) /\ k' = 1 /\ pc' \in {"image", "count"} /\ found # <<>>
      /\ devices' = devices /\ diskList' = diskList /\ images' = images
  BY DEF ReturnPaths
<1>3. ListInv' BY <1>1, <1>2, ListFrame
<1>4. FoundInv' BY <1>2 DEF FoundInv
<1>5. InBusOrder(found) = Ids(diskList) BY <1>2, FoundAll
<1>6. Ids(diskList)' = Ids(diskList) BY <1>2 DEF Ids
<1>7. CASE base = <<>>
  <2>1. base' = Ids(diskList) /\ pc' = "image" BY <1>5, <1>7 DEF ReturnPaths
  <2>2. images = <<>> BY <1>1, <1>2, <1>7 DEF TakenInv
  <2>3. SubSeq(Ids(diskList), 1, k' - 1) = <<>>
    <3>1. Ids(diskList) \in Seq(Disks) BY <1>1, <1>2 DEF ListInv, Enumerates
    <3>2. k' - 1 = 0 BY <1>2
    <3> QED BY <3>1, <3>2
  <2>4. diskList' \in Seq({DiskInfo(dev) : dev \in Device}) BY <1>1, <1>2, ListTypes
  <2>5. Len(diskList') \in Nat BY <2>4
  <2>6. k' <= Len(diskList') + 1 BY <1>2, <2>5
  <2>7. TakenInv' BY <1>2, <1>6, <2>1, <2>2, <2>3, <2>6 DEF TakenInv
  <2> QED BY <1>3, <1>4, <2>7 DEF PathsInv
<1>8. CASE base # <<>>
  <2>1. new' = Ids(diskList) /\ base' = base /\ pc' = "count" BY <1>5, <1>8 DEF ReturnPaths
  <2>2. images = Ids(diskList) /\ base = Ids(diskList) BY <1>1, <1>2, <1>8 DEF TakenInv
  <2>3. TakenInv' BY <1>2, <1>6, <2>1, <2>2 DEF TakenInv
  <2> QED BY <1>3, <1>4, <2>3 DEF PathsInv
<1> QED BY <1>7, <1>8

\* A turn of the loop of handleWarmPreSync.
LEMMA CreateImageStep ==
    ASSUME DisksInOrder, PathsInv, CreateImage PROVE PathsInv'
<1>1. ListInv /\ TakenInv BY DEF PathsInv
<1>2. /\ pc = "image" /\ pc' = "image" /\ k <= Len(diskList) /\ k' = k + 1
      /\ devices' = devices /\ diskList' = diskList /\ base' = base
  BY DEF CreateImage
<1>3. k \in Nat \ {0} /\ diskList \in Seq({DiskInfo(dev) : dev \in Device}) BY <1>1 DEF ListInv
<1>4. ListInv' BY <1>1, <1>2, <1>3, ListFrame
<1>5. FoundInv' BY <1>2 DEF FoundInv
<1>6. Ids(diskList)' = Ids(diskList) BY <1>2 DEF Ids
<1>7. k \in 1 .. Len(diskList) BY <1>2, <1>3
<1>8. images' = Append(images, diskList[k].id)
  <2>1. HasUUID(diskList[k]) BY <1>1, <1>7 DEF ListInv
  <2> QED BY <2>1 DEF CreateImage
<1>9. SubSeq(Ids(diskList), 1, k) = Append(SubSeq(Ids(diskList), 1, k - 1), diskList[k].id)
  <2> DEFINE ids == Ids(diskList)
  <2>1. ids = [j \in 1 .. Len(diskList) |-> diskList[j].id] BY <1>1, ListTypes
  <2>2. ids \in Seq(Disks) BY <1>1, <1>2 DEF ListInv, Enumerates
  <2>3. Len(ids) = Len(diskList) /\ ids[k] = diskList[k].id BY <1>3, <1>7, <2>1, <2>2
  <2> HIDE DEF ids
  <2>4. SubSeq(ids, 1, k) = Append(SubSeq(ids, 1, k - 1), ids[k]) BY <1>7, <2>2, <2>3
  <2> QED BY <2>3, <2>4 DEF ids
<1>10. images' = SubSeq(Ids(diskList), 1, k' - 1)
  <2>1. images = SubSeq(Ids(diskList), 1, k - 1) BY <1>1, <1>2 DEF TakenInv
  <2>2. k' - 1 = k BY <1>2, <1>3
  <2> QED BY <1>8, <1>9, <2>1, <2>2
<1>11. k' <= Len(diskList') + 1 BY <1>2, <1>3
<1>12. TakenInv' BY <1>1, <1>2, <1>6, <1>10, <1>11 DEF TakenInv
<1> QED BY <1>4, <1>5, <1>12 DEF PathsInv

LEMMA ImagesCreatedStep ==
    ASSUME DisksInOrder, PathsInv, ImagesCreated PROVE PathsInv'
<1>1. ListInv /\ TakenInv BY DEF PathsInv
<1>2. /\ pc = "image" /\ pc' = "list" /\ k > Len(diskList) /\ k' = k
      /\ devices' = devices /\ diskList' = diskList /\ base' = base /\ images' = images
  BY DEF ImagesCreated
<1>3. k \in Nat \ {0} /\ diskList \in Seq({DiskInfo(dev) : dev \in Device}) BY <1>1 DEF ListInv
<1>4. ListInv' BY <1>1, <1>2, <1>3, ListFrame
<1>5. FoundInv' BY <1>2 DEF FoundInv
<1>6. Ids(diskList)' = Ids(diskList) BY <1>2 DEF Ids
<1>7. images = Ids(diskList)
  <2> DEFINE ids == Ids(diskList)
  <2>1. ids = [j \in 1 .. Len(diskList) |-> diskList[j].id] BY <1>1, ListTypes
  <2>2. ids \in Seq(Disks) BY <1>1, <1>2 DEF ListInv, Enumerates
  <2>3. Len(ids) = Len(diskList) BY <1>3, <2>1, <2>2
  <2>4. k - 1 = Len(diskList) BY <1>1, <1>2, <1>3 DEF TakenInv
  <2> HIDE DEF ids
  <2>5. SubSeq(ids, 1, Len(ids)) = ids BY <2>2
  <2> QED BY <1>1, <1>2, <2>3, <2>4, <2>5 DEF TakenInv, ids
<1>8. base = Ids(diskList) BY <1>1, <1>2 DEF TakenInv
<1>9. TakenInv' BY <1>2, <1>6, <1>7, <1>8 DEF TakenInv
<1> QED BY <1>4, <1>5, <1>9 DEF PathsInv

\* The steps that only move on or give up.
LEMMA EndStep ==
    ASSUME DisksInOrder, PathsInv, NoPaths \/ ImageError \/ CountDisks \/ UNCHANGED vars
    PROVE  PathsInv'
<1>1. ListInv /\ TakenInv /\ FoundInv BY DEF PathsInv
<1>2. devices' = devices /\ diskList' = diskList /\ base' = base /\ images' = images
      /\ k' = k /\ new' = new /\ files' = files /\ found' = found
  BY DEF NoPaths, ImageError, CountDisks, vars
<1>3. k \in Nat \ {0} BY <1>1 DEF ListInv
<1>4. Disks' = Disks /\ Files' = Files /\ Ids(diskList)' = Ids(diskList)
  BY <1>2, EnumeratesFrame DEF Ids
<1>5. CASE UNCHANGED vars
  <2>1. pc' = pc BY <1>5 DEF vars
  <2>2. ListInv'
    <3>1. CASE pc # "info" BY <1>1, <1>2, <1>3, <2>1, <3>1, ListFrame
    <3>2. CASE pc = "info"
      <4>1. DisksUpTo(k - 1)' = DisksUpTo(k - 1) BY <1>2 DEF DisksUpTo
      <4>2. \A s, S : Enumerates(s, S) => Enumerates(s, S)' BY <1>2, EnumeratesFrame
      <4>3. Enumerates(Ids(diskList), DisksUpTo(k - 1)) BY <1>1, <3>2 DEF ListInv
      <4>4. Enumerates(Ids(diskList), DisksUpTo(k - 1))' BY <1>4, <4>1, <4>2, <4>3
      <4>5. (\A j \in 1 .. Len(diskList) : HasUUID(diskList[j]))' BY <1>1, <1>2 DEF ListInv, HasUUID
      <4> QED BY <1>1, <1>2, <2>1, <3>2, <4>4, <4>5 DEF ListInv
    <3> QED BY <3>1, <3>2
  <2>3. FoundInv' BY <1>1, <1>2, <1>4, <2>1 DEF FoundInv
  <2>4. TakenInv' BY <1>1, <1>2, <1>4, <2>1 DEF TakenInv
  <2> QED BY <2>2, <2>3, <2>4 DEF PathsInv
<1>6. CASE NoPaths \/ ImageError
  <2>1. pc # "info" /\ pc' = "failed" BY <1>6 DEF NoPaths, ImageError
  <2>2. ListInv' BY <1>1, <1>2, <1>3, <2>1, ListFrame
  <2>3. FoundInv' /\ TakenInv' BY <1>1, <1>2, <1>4, <2>1 DEF FoundInv, TakenInv
  <2> QED BY <2>2, <2>3 DEF PathsInv
<1>7. CASE CountDisks
  <2>1. pc = "count" /\ pc' \in {"sync", "failed"} BY <1>7 DEF CountDisks
  <2>2. ListInv' BY <1>1, <1>2, <1>3, <2>1, ListFrame
  <2>3. FoundInv' /\ TakenInv' BY <1>1, <1>2, <1>4, <2>1 DEF FoundInv, TakenInv
  <2> QED BY <2>2, <2>3 DEF PathsInv
<1> QED BY <1>5, <1>6, <1>7

\* GetVMByUUID, GetVMSnapshotPaths and handleWarmPreSync make lists that agree:
\* when runDeltaRound pairs them by position, position d of both path lists and
\* of the DataVolumes is the disk at position d of the DiskList, for every VM
\* whose disks are in order and any order of files in its snapshots.
THEOREM ListsAgree == DisksInOrder => (Spec => []PathsOfDisks)
<1> SUFFICES ASSUME DisksInOrder PROVE Spec => []PathsOfDisks OBVIOUS
<1>1. Init => PathsInv BY PathsInit
<1>2. PathsInv /\ [Next]_vars => PathsInv'
  <2> SUFFICES ASSUME PathsInv, [Next]_vars PROVE PathsInv' OBVIOUS
  <2>1. CASE AddDisk BY <2>1, AddDiskStep
  <2>2. CASE GetVMByUUID BY <2>2, InfoStep
  <2>3. CASE ListFiles BY <2>3, ListFilesStep
  <2>4. CASE QueryDisk \/ QuerySkip BY <2>4, QueryStep
  <2>5. CASE ReturnPaths BY <2>5, ReturnPathsStep
  <2>6. CASE CreateImage BY <2>6, CreateImageStep
  <2>7. CASE ImagesCreated BY <2>7, ImagesCreatedStep
  <2>8. CASE NoPaths \/ ImageError \/ CountDisks \/ UNCHANGED vars BY <2>8, EndStep
  <2> QED BY <2>1, <2>2, <2>3, <2>4, <2>5, <2>6, <2>7, <2>8 DEF Next
<1>3. PathsInv => PathsOfDisks
  BY DEF PathsInv, TakenInv, PathsOfDisks
<1> QED BY <1>1, <1>2, <1>3, PTL DEF Spec

-----------------------------------------------------------------------------
(***************************************************************************)
(* The calls of PrismClient.                                               *)
(***************************************************************************)
CONSTANTS Calls, MaxAttempts, MaxTime

VARIABLES call, step, attempt, rested, result, object, power, clock

Client == INSTANCE PrismClient WITH pc <- step

\* A call takes the requests of its own function; it has a result once it is
\* done; success was seen in Prism, where neither completion nor a shutdown is
\* undone.
ClientInv ==
    /\ step \in {"post", "poll", "pause", "state", "pe", "get", "put", "v2", "done"}
    /\ power \in {"ON", "STOPPING", "OFF"}
    /\ step \in {"post", "poll", "pause"} => call # "ShutdownVM"
    /\ step \in {"state", "pe", "get", "put", "v2"} => call = "ShutdownVM"
    /\ result # "none" => step = "done"
    /\ Client!SuccessIsReal

\* What CreateVMSnapshot, CreateImageFromDisk, WaitImageReady and ShutdownVM
\* report as done is done, whichever requests or answers are lost, whenever
\* Prism ends its work and whatever number of attempts is allowed.
THEOREM ReportedIsReal == Client!Spec => []Client!SuccessIsReal
<1>1. Client!Init => ClientInv
  BY DEF Client!Init, ClientInv, Client!SuccessIsReal
<1>2. ClientInv /\ [Client!Next]_(Client!vars) => ClientInv'
  <2> SUFFICES ASSUME ClientInv, [Client!Next]_(Client!vars) PROVE ClientInv' OBVIOUS
  <2> USE DEF ClientInv, Client!SuccessIsReal, Client!Return
  <2>1. CASE Client!Post BY <2>1 DEF Client!Post
  <2>2. CASE Client!PostError BY <2>2 DEF Client!PostError
  <2>3. CASE Client!PollEnds BY <2>3 DEF Client!PollEnds
  <2>4. CASE Client!PollError BY <2>4 DEF Client!PollError
  <2>5. CASE Client!PollAgain BY <2>5 DEF Client!PollAgain
  <2>6. CASE Client!PauseEnds BY <2>6 DEF Client!PauseEnds
  <2>7. CASE Client!GiveUp BY <2>7 DEF Client!GiveUp
  <2>8. CASE Client!Cancel BY <2>8 DEF Client!Cancel
  <2>9. CASE Client!GetVMPowerState BY <2>9 DEF Client!GetVMPowerState
  <2>10. CASE Client!GetIntent BY <2>10 DEF Client!GetIntent
  <2>11. CASE Client!SetPowerState BY <2>11 DEF Client!SetPowerState, Client!ShutdownRequested
  <2>12. CASE Client!PutNotSupported BY <2>12 DEF Client!PutNotSupported
  <2>13. CASE Client!ShutdownError BY <2>13 DEF Client!ShutdownError, Client!ShutdownRequested
  <2>14. CASE Client!ObjectEnds BY <2>14 DEF Client!ObjectEnds
  <2>15. CASE Client!PowerOff BY <2>15 DEF Client!PowerOff
  <2>16. CASE Client!Tick BY <2>16 DEF Client!Tick
  <2>17. CASE UNCHANGED Client!vars BY <2>17 DEF Client!vars
  <2> QED
    BY <2>1, <2>2, <2>3, <2>4, <2>5, <2>6, <2>7, <2>8, <2>9, <2>10, <2>11, <2>12, <2>13,
       <2>14, <2>15, <2>16, <2>17
    DEF Client!Next, Client!Poll, Client!ShutdownVM
<1>3. ClientInv => Client!SuccessIsReal BY DEF ClientInv
<1> QED BY <1>1, <1>2, <1>3, PTL DEF Client!Spec

=============================================================================
