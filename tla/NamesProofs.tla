----------------------------- MODULE NamesProofs -----------------------------
(***************************************************************************)
(* Migrations that share a namespace do not meet if what is left of their  *)
(* names is different: for any number of migrations, VMs, disks and rounds.*)
(* Which part of a name has to differ is said theorem by theorem.          *)
(***************************************************************************)
EXTENDS Names, TLAPS

\* No two migrations agree in the characters that deltaSyncName keeps.
JobNamesDiffer == \A m, n \in Mig : Cut30[m] = Cut30[n] => m = n

\* No two migrations agree in the characters that dvName keeps.
VolumeNamesDiffer == \A m, n \in Mig : Cut40[m] = Cut40[n] => m = n

\* Every VirtualMachine has a name that no other one has or had before.
MachineNamesDiffer ==
    /\ \A m, n \in Mig, v, w \in VM : TargetName[m][v] = TargetName[n][w] => m = n /\ v = w
    /\ \A m \in Mig, v \in VM : TargetName[m][v] \notin Existing

-----------------------------------------------------------------------------
(***************************************************************************)
(* The inductive invariants.                                               *)
(***************************************************************************)

Step == {"Pending", "WarmSyncing", "WarmDeltaSync", "CreatingVMs", "Completed"}

StateInv ==
    /\ step \in [Mig -> Step]
    /\ rounds \in [Mig -> Nat]
    /\ refs \in [Mig -> SUBSET (Mig \X VM \X Disk \X Nat)]
    /\ \A m \in Mig : \A c \in refs[m] : c[1] = m

IsVolume(o) ==
    \E m \in Mig, v \in VM, d \in Disk : o.name = dvName(m, v, d) /\ o.for = <<m, v, d>>

IsMachine(o) == \E m \in Mig, v \in VM : o.name = vmTargetName(m, v) /\ o.for = <<m, v>>

IsExisting(o) == \E n \in Existing : o.name = <<"vm", n>>

\* A Job that is done has written its delta.
IsDelta(o, w) ==
    \E m \in Mig, v \in VM, d \in Disk, r \in Nat :
        /\ o.name = deltaSyncName(m, v, d, r)
        /\ o.for = <<m, v, d, r>>
        /\ o.done => <<m, v, d, r>> \in w

IsRecord(o) == \E N, F : o \in [name : N, for : F, done : BOOLEAN]

Kind(o, w) == IsVolume(o) \/ IsMachine(o) \/ IsExisting(o) \/ IsDelta(o, w)

\* Every object has the name of what it was made for.
ObjectsInv == \A o \in objects : IsRecord(o) /\ Kind(o, written)

\* As long as a status names a Job, an object of that name exists: nobody else
\* deletes it.
JobsInv ==
    /\ \A m \in Mig : \A c \in refs[m] : Named(deltaSyncName(m, c[2], c[3], c[4])) # {}
    /\ DeltasWritten

\* DataVolumes and VirtualMachines of a migration exist from the pass on that
\* creates them.
OwnInv ==
    \A m \in Mig :
        /\ step[m] # "Pending" => \A v \in VM, d \in Disk : Named(dvName(m, v, d)) # {}
        /\ step[m] = "Completed" => \A v \in VM : Named(vmTargetName(m, v)) # {}

-----------------------------------------------------------------------------
(***************************************************************************)
(* Names.                                                                  *)
(***************************************************************************)

\* The prefix of a name tells what kind of object it is for.
LEMMA KindsDiffer ==
    ASSUME NEW m, NEW v, NEW d, NEW n, NEW w, NEW e, NEW r
    PROVE  /\ dvName(m, v, d) # deltaSyncName(n, w, e, r)
           /\ dvName(m, v, d) # vmTargetName(n, w)
           /\ deltaSyncName(n, w, e, r) # vmTargetName(m, v)
           /\ dvName(m, v, d) # <<"vm", n>>
           /\ deltaSyncName(n, w, e, r) # <<"vm", m>>
<1>1. dvName(m, v, d)[1] = "dv" BY DEF dvName
<1>2. deltaSyncName(n, w, e, r)[1] = "delta" BY DEF deltaSyncName
<1>3. vmTargetName(n, w)[1] = "vm" /\ vmTargetName(m, v)[1] = "vm" BY DEF vmTargetName
<1>4. <<"vm", n>>[1] = "vm" /\ <<"vm", m>>[1] = "vm" OBVIOUS
<1> QED BY <1>1, <1>2, <1>3, <1>4

\* deltaSyncName keeps VM, disk and round apart, and the migrations if their
\* first 30 characters differ.
LEMMA JobNamesInjective ==
    ASSUME JobNamesDiffer, NEW m \in Mig, NEW n \in Mig, NEW v, NEW w, NEW d, NEW e, NEW r, NEW s,
           deltaSyncName(m, v, d, r) = deltaSyncName(n, w, e, s)
    PROVE  m = n /\ v = w /\ d = e /\ r = s
<1>1. Cut30[m] = Cut30[n] /\ v = w /\ d = e /\ r = s BY DEF deltaSyncName
<1> QED BY <1>1 DEF JobNamesDiffer

\* dvName keeps VM and disk apart, and the migrations if their first 40
\* characters differ.
LEMMA VolumeNamesInjective ==
    ASSUME VolumeNamesDiffer, NEW m \in Mig, NEW n \in Mig, NEW v, NEW w, NEW d, NEW e,
           dvName(m, v, d) = dvName(n, w, e)
    PROVE  m = n /\ v = w /\ d = e
<1>1. Cut40[m] = Cut40[n] /\ v = w /\ d = e BY DEF dvName
<1> QED BY <1>1 DEF VolumeNamesDiffer

LEMMA MachineNamesInjective ==
    ASSUME MachineNamesDiffer, NEW m \in Mig, NEW n \in Mig, NEW v \in VM, NEW w \in VM
    PROVE  /\ vmTargetName(m, v) = vmTargetName(n, w) => m = n /\ v = w
           /\ \A x \in Existing : vmTargetName(m, v) # <<"vm", x>>
<1>1. ASSUME vmTargetName(m, v) = vmTargetName(n, w) PROVE m = n /\ v = w
  <2>1. TargetName[m][v] = TargetName[n][w] BY <1>1 DEF vmTargetName
  <2> QED BY <2>1 DEF MachineNamesDiffer
<1>2. ASSUME NEW x \in Existing, vmTargetName(m, v) = <<"vm", x>> PROVE FALSE
  <2>1. TargetName[m][v] = x BY <1>2 DEF vmTargetName
  <2> QED BY <2>1 DEF MachineNamesDiffer
<1> QED BY <1>1, <1>2
-----------------------------------------------------------------------------
(***************************************************************************)
(* Create.                                                                 *)
(***************************************************************************)

\* What exists stays, and what is new was wanted.
LEMMA CreateAdds ==
    ASSUME NEW wanted, Create(wanted)
    PROVE  /\ objects \subseteq objects'
           /\ objects' \subseteq objects \cup wanted
BY DEF Create

\* If no two wanted objects share a name, each of them has an object of its
\* name afterwards.
LEMMA CreateMakes ==
    ASSUME NEW wanted, Create(wanted), NEW w \in wanted,
           \A u \in wanted : u.name = w.name => u = w,
           ~Before(w.for, w.for)
    PROVE  Named(w.name)' # {}
<1>1. CASE Named(w.name) = {}
  <2>1. w \in objects' BY <1>1 DEF Create
  <2> QED BY <2>1 DEF Named
<1>2. CASE Named(w.name) # {}
  BY <1>2, CreateAdds DEF Named
<1> QED BY <1>1, <1>2

\* An object that stays in place keeps its name in use.
LEMMA NamedStays ==
    ASSUME NEW n, Named(n) # {}, objects \subseteq objects'
    PROVE  Named(n)' # {}
BY DEF Named

\* The records that make up objects.
LEMMA WantedRecord ==
    ASSUME NEW n, NEW f, NEW b \in BOOLEAN PROVE IsRecord([name |-> n, for |-> f, done |-> b])
BY [name |-> n, for |-> f, done |-> b] \in [name : {n}, for : {f}, done : BOOLEAN] DEF IsRecord

\* Every object that a pass wants has the shape of ObjectsInv.
LEMMA WantedObjects ==
    ASSUME NEW m \in Mig, NEW v \in VM, NEW d \in Disk, NEW r \in Nat, NEW w
    PROVE  /\ IsRecord(Volume(m, v, d)) /\ Kind(Volume(m, v, d), w)
           /\ IsRecord(Delta(m, v, d, r)) /\ Kind(Delta(m, v, d, r), w)
           /\ IsRecord(Machine(m, v)) /\ Kind(Machine(m, v), w)
<1>1. IsRecord(Volume(m, v, d)) /\ IsVolume(Volume(m, v, d))
  BY WantedRecord DEF IsVolume, Volume
<1>2. IsRecord(Delta(m, v, d, r)) /\ IsDelta(Delta(m, v, d, r), w)
  BY WantedRecord DEF IsDelta, Delta
<1>3. IsRecord(Machine(m, v)) /\ IsMachine(Machine(m, v))
  BY WantedRecord DEF IsMachine, Machine
<1> QED BY <1>1, <1>2, <1>3 DEF Kind

\* Creating wanted objects keeps ObjectsInv.
LEMMA CreateObjects ==
    ASSUME ObjectsInv, NEW wanted, Create(wanted), UNCHANGED written,
           \A w \in wanted : IsRecord(w) /\ Kind(w, written)
    PROVE  ObjectsInv'
<1>1. \A o \in objects' : IsRecord(o) /\ Kind(o, written)
  BY CreateAdds DEF ObjectsInv
<1> QED BY <1>1 DEF ObjectsInv, IsRecord, Kind, IsVolume, IsMachine, IsExisting, IsDelta

\* The orders of the loops are strict on what they create.
LEMMA NotBeforeItself ==
    ASSUME NEW m, NEW v \in VM, NEW d \in Disk, NEW r
    PROVE  ~Before(<<m, v>>, <<m, v>>) /\ ~Before(<<m, v, d>>, <<m, v, d>>)
             /\ ~Before(<<m, v, d, r>>, <<m, v, d, r>>)
<1>1. v \in Int /\ d \in Int BY NamesAssumption DEF VM, Disk
<1> QED BY <1>1 DEF Before

-----------------------------------------------------------------------------
(***************************************************************************)
(* The state.                                                              *)
(***************************************************************************)

LEMMA StateInit == Init => StateInv /\ ObjectsInv
<1> SUFFICES ASSUME Init PROVE StateInv /\ ObjectsInv
  OBVIOUS
<1>1. StateInv BY DEF Init, StateInv, Step
<1>2. ASSUME NEW o \in objects PROVE IsRecord(o) /\ Kind(o, written)
  <2>1. PICK n \in Existing : o = [name |-> <<"vm", n>>, for |-> <<>>, done |-> TRUE]
    BY <1>2 DEF Init
  <2>2. IsRecord(o) BY <2>1, WantedRecord
  <2>3. IsExisting(o) BY <2>1 DEF IsExisting
  <2> QED BY <2>2, <2>3 DEF Kind
<1> QED BY <1>1, <1>2 DEF ObjectsInv

LEMMA StateNext ==
    ASSUME StateInv, [Next]_vars PROVE StateInv'
<1> USE DEF StateInv, Step
<1>1. ASSUME NEW m \in Mig, createDataVolumes(m) PROVE StateInv'
  BY <1>1 DEF createDataVolumes
<1>2. ASSUME NEW m \in Mig, handleWarmSyncing(m) PROVE StateInv'
  BY <1>2 DEF handleWarmSyncing
<1>3. ASSUME NEW m \in Mig, RoundStart(m) PROVE StateInv'
  <2>1. PICK changed \in (SUBSET (VM \X Disk)) \ {{}} :
          refs' \in {refs, [refs EXCEPT ![m] = {<<m, c[1], c[2], rounds[m] + 1>> : c \in changed}]}
    BY <1>3 DEF RoundStart
  <2>2. {<<m, c[1], c[2], rounds[m] + 1>> : c \in changed} \in SUBSET (Mig \X VM \X Disk \X Nat)
    OBVIOUS
  <2>3. \A x \in {<<m, c[1], c[2], rounds[m] + 1>> : c \in changed} : x[1] = m
    OBVIOUS
  <2>4. refs' \in [Mig -> SUBSET (Mig \X VM \X Disk \X Nat)]
    BY <2>1, <2>2
  <2>5. \A n \in Mig : \A c \in refs'[n] : c[1] = n
    BY <2>1, <2>3
  <2> QED BY <1>3, <2>4, <2>5 DEF RoundStart
<1>4. ASSUME NEW m \in Mig, RoundPromote(m) PROVE StateInv'
  BY <1>4 DEF RoundPromote
<1>5. ASSUME NEW m \in Mig, Converge(m) PROVE StateInv'
  BY <1>5 DEF Converge
<1>6. ASSUME NEW m \in Mig, handleCreateVMs(m) PROVE StateInv'
  BY <1>6 DEF handleCreateVMs
<1>7. ASSUME NEW o \in objects, Done(o) PROVE StateInv'
  BY <1>7 DEF Done
<1>8. CASE UNCHANGED vars
  BY <1>8 DEF vars
<1> QED BY <1>1, <1>2, <1>3, <1>4, <1>5, <1>6, <1>7, <1>8 DEF Next

-----------------------------------------------------------------------------
(***************************************************************************)
(* Objects have the names of what they were made for.                      *)
(***************************************************************************)

\* More written deltas do no harm.
LEMMA KindMonotone ==
    ASSUME NEW o, NEW w, NEW x, w \subseteq x, Kind(o, w) PROVE Kind(o, x)
<1>1. IsDelta(o, w) => IsDelta(o, x) BY DEF IsDelta
<1> QED BY <1>1 DEF Kind

\* Kind depends on the state in no other way than by its arguments.
LEMMA ObjectsFrom ==
    ASSUME \A o \in objects' : IsRecord(o) /\ Kind(o, written') PROVE ObjectsInv'
BY DEF ObjectsInv, IsRecord, Kind, IsVolume, IsMachine, IsExisting, IsDelta

\* An object that is done is of the same kind, and a Job then has written.
LEMMA DoneObject ==
    ASSUME ObjectsInv, NEW o \in objects, Done(o)
    PROVE  LET p == [o EXCEPT !.done = TRUE]
           IN  p.name = o.name /\ IsRecord(p) /\ Kind(p, written')
<1> DEFINE p == [o EXCEPT !.done = TRUE]
<1>1. IsRecord(o) /\ Kind(o, written) BY DEF ObjectsInv
<1>2. PICK N, F : o \in [name : N, for : F, done : BOOLEAN] BY <1>1 DEF IsRecord
<1>3. p.name = o.name /\ p.for = o.for /\ p.done = TRUE /\ p \in [name : N, for : F, done : BOOLEAN]
  BY <1>2
<1> HIDE DEF p
<1>4. p.name = o.name /\ p.for = o.for /\ p.done = TRUE /\ IsRecord(p)
  BY <1>3 DEF IsRecord
<1>5. IsVolume(o) => Kind(p, written') BY <1>4 DEF IsVolume, Kind
<1>6. IsMachine(o) => Kind(p, written') BY <1>4 DEF IsMachine, Kind
<1>7. IsExisting(o) => Kind(p, written') BY <1>4 DEF IsExisting, Kind
<1>8. ASSUME IsDelta(o, written) PROVE Kind(p, written')
  <2>1. PICK m \in Mig, v \in VM, d \in Disk, r \in Nat :
          o.name = deltaSyncName(m, v, d, r) /\ o.for = <<m, v, d, r>>
    BY <1>8 DEF IsDelta
  <2>2. Len(o.for) = 4 BY <2>1
  <2>3. <<m, v, d, r>> \in written' BY <2>1, <2>2 DEF Done
  <2>4. IsDelta(p, written') BY <2>1, <2>3, <1>4 DEF IsDelta
  <2> QED BY <2>4 DEF Kind
<1>9. Kind(p, written') BY <1>1, <1>5, <1>6, <1>7, <1>8 DEF Kind
<1> QED BY <1>4, <1>9 DEF p

LEMMA ObjectsNext ==
    ASSUME StateInv, ObjectsInv, [Next]_vars PROVE ObjectsInv'
<1>1. ASSUME NEW m \in Mig, createDataVolumes(m) PROVE ObjectsInv'
  <2>1. Create({Volume(m, v, d) : v \in VM, d \in Disk}) /\ UNCHANGED written
    BY <1>1 DEF createDataVolumes
  <2>2. \A w \in {Volume(m, v, d) : v \in VM, d \in Disk} : IsRecord(w) /\ Kind(w, written)
    BY WantedObjects, 0 \in Nat
  <2> QED BY <2>1, <2>2, CreateObjects
<1>2. ASSUME NEW m \in Mig, RoundStart(m) PROVE ObjectsInv'
  <2>1. PICK changed \in (SUBSET (VM \X Disk)) \ {{}} :
          Create({Delta(m, c[1], c[2], rounds[m] + 1) : c \in changed})
    BY <1>2 DEF RoundStart
  <2>2. rounds[m] + 1 \in Nat BY DEF StateInv
  <2>3. \A c \in changed : c[1] \in VM /\ c[2] \in Disk OBVIOUS
  <2>4. \A w \in {Delta(m, c[1], c[2], rounds[m] + 1) : c \in changed} : IsRecord(w) /\ Kind(w, written)
    BY WantedObjects, <2>2, <2>3
  <2>5. UNCHANGED written BY <1>2 DEF RoundStart
  <2> QED BY <2>1, <2>4, <2>5, CreateObjects
<1>3. ASSUME NEW m \in Mig, handleCreateVMs(m) PROVE ObjectsInv'
  <2>1. Create({Machine(m, v) : v \in VM}) /\ UNCHANGED written
    BY <1>3 DEF handleCreateVMs
  <2>2. 1 \in Disk BY NamesAssumption DEF Disk
  <2>3. \A w \in {Machine(m, v) : v \in VM} : IsRecord(w) /\ Kind(w, written)
    BY WantedObjects, <2>2, 0 \in Nat
  <2> QED BY <2>1, <2>3, CreateObjects
<1>4. ASSUME NEW m \in Mig, RoundPromote(m) PROVE ObjectsInv'
  <2>1. objects' \subseteq objects /\ written' = written BY <1>4 DEF RoundPromote
  <2> QED BY <2>1, ObjectsFrom DEF ObjectsInv
<1>5. ASSUME NEW o \in objects, Done(o) PROVE ObjectsInv'
  <2>1. written \subseteq written' BY <1>5 DEF Done
  <2>2. ASSUME NEW x \in objects' PROVE IsRecord(x) /\ Kind(x, written')
    <3>1. CASE x \in objects BY <3>1, <2>1, KindMonotone DEF ObjectsInv
    <3>2. CASE x = [o EXCEPT !.done = TRUE] BY <3>2, <1>5, DoneObject
    <3> QED BY <2>2, <3>1, <3>2, <1>5 DEF Done
  <2> QED BY <2>2, ObjectsFrom
<1>6. CASE \/ \E m \in Mig : handleWarmSyncing(m) \/ Converge(m)
           \/ UNCHANGED vars
  <2>1. objects' = objects /\ written' = written
    BY <1>6 DEF handleWarmSyncing, Converge, vars
  <2> QED BY <2>1, ObjectsFrom DEF ObjectsInv
<1> QED BY <1>1, <1>2, <1>3, <1>4, <1>5, <1>6 DEF Next

-----------------------------------------------------------------------------
(***************************************************************************)
(* Deltas.                                                                 *)
(***************************************************************************)

\* Only the promotion of a round deletes objects, and only Jobs.
LEMMA NamesStay ==
    ASSUME StateInv, ObjectsInv, [Next]_vars, NEW n, Named(n) # {},
           \A m \in Mig : RoundPromote(m) => n \notin RefNames(m)
    PROVE  Named(n)' # {}
<1>1. CASE \E m \in Mig : createDataVolumes(m) \/ handleCreateVMs(m)
  <2>1. objects \subseteq objects' BY <1>1, CreateAdds DEF createDataVolumes, handleCreateVMs
  <2> QED BY <2>1, NamedStays
<1>2. CASE \E m \in Mig : RoundStart(m)
  <2>1. objects \subseteq objects' BY <1>2, CreateAdds DEF RoundStart
  <2> QED BY <2>1, NamedStays
<1>3. CASE \E m \in Mig : RoundPromote(m)
  BY <1>3 DEF RoundPromote, Named
<1>4. ASSUME NEW o \in objects, Done(o) PROVE Named(n)' # {}
  <2> DEFINE p == [o EXCEPT !.done = TRUE]
  <2>1. p.name = o.name BY <1>4, DoneObject
  <2>2. objects' = (objects \ {o}) \cup {p} BY <1>4 DEF Done
  <2> HIDE DEF p
  <2>3. PICK x \in objects : x.name = n BY DEF Named
  <2>4. CASE x = o
    <3>1. p \in objects' /\ p.name = n BY <2>1, <2>2, <2>3, <2>4
    <3> QED BY <3>1 DEF Named
  <2>5. CASE x # o
    <3>1. x \in objects' BY <2>2, <2>5
    <3> QED BY <3>1, <2>3 DEF Named
  <2> QED BY <2>4, <2>5
<1>5. CASE \/ \E m \in Mig : handleWarmSyncing(m) \/ Converge(m)
           \/ UNCHANGED vars
  <2>1. objects' = objects BY <1>5 DEF handleWarmSyncing, Converge, vars
  <2> QED BY <2>1, NamedStays
<1> QED BY <1>1, <1>2, <1>3, <1>4, <1>5 DEF Next

\* With job names that differ, an object that has the name of a delta's Job is
\* that Job.
LEMMA JobOfName ==
    ASSUME JobNamesDiffer, ObjectsInv, NEW o \in objects,
           NEW m \in Mig, NEW v, NEW d, NEW r, o.name = deltaSyncName(m, v, d, r), o.done
    PROVE  <<m, v, d, r>> \in written
<1>1. Kind(o, written) BY DEF ObjectsInv
<1>2. ~IsVolume(o) BY KindsDiffer DEF IsVolume
<1>3. ~IsMachine(o) BY KindsDiffer DEF IsMachine
<1>4. ~IsExisting(o) BY KindsDiffer DEF IsExisting
<1>5. IsDelta(o, written) BY <1>1, <1>2, <1>3, <1>4 DEF Kind
<1>6. PICK n \in Mig, w \in VM, e \in Disk, s \in Nat :
        o.name = deltaSyncName(n, w, e, s) /\ (o.done => <<n, w, e, s>> \in written)
  BY <1>5 DEF IsDelta
<1>7. deltaSyncName(m, v, d, r) = deltaSyncName(n, w, e, s) BY <1>6
<1>8. m = n /\ v = w /\ d = e /\ r = s BY <1>7, JobNamesInjective
<1> QED BY <1>6, <1>8

\* The promotion of one migration deletes no Job of another.
LEMMA RefNamesApart ==
    ASSUME JobNamesDiffer, NEW m \in Mig, NEW n \in Mig, m # n, NEW v, NEW d, NEW r
    PROVE  deltaSyncName(m, v, d, r) \notin RefNames(n)
<1> SUFFICES ASSUME deltaSyncName(m, v, d, r) \in RefNames(n) PROVE FALSE
  OBVIOUS
<1>1. PICK c \in refs[n] : deltaSyncName(m, v, d, r) = deltaSyncName(n, c[2], c[3], c[4])
  BY DEF RefNames
<1> QED BY <1>1, JobNamesInjective

\* A round that starts has a Job for every delta, new or kept.
LEMMA RoundStartMakes ==
    ASSUME StateInv, JobNamesDiffer, NEW m \in Mig, NEW r \in Nat,
           NEW changed \in SUBSET (VM \X Disk), NEW c \in changed,
           Create({Delta(m, x[1], x[2], r) : x \in changed})
    PROVE  \E o \in objects' : o.name = deltaSyncName(m, c[1], c[2], r)
<1> DEFINE wanted == {Delta(m, x[1], x[2], r) : x \in changed}
           w == Delta(m, c[1], c[2], r)
<1>1. w \in wanted OBVIOUS
<1>2. w.name = deltaSyncName(m, c[1], c[2], r) /\ w.for = <<m, c[1], c[2], r>> BY DEF Delta
<1>3. c[1] \in VM /\ c[2] \in Disk OBVIOUS
<1>4. ~Before(w.for, w.for) BY <1>2, <1>3, NotBeforeItself
<1>5. ASSUME NEW u \in wanted, u.name = w.name PROVE u = w
  <2>1. PICK x \in changed : u = Delta(m, x[1], x[2], r) OBVIOUS
  <2>2. u.name = deltaSyncName(m, x[1], x[2], r) BY <2>1 DEF Delta
  <2>3. deltaSyncName(m, x[1], x[2], r) = deltaSyncName(m, c[1], c[2], r) BY <1>2, <1>5, <2>2
  <2>4. x[1] = c[1] /\ x[2] = c[2] BY <2>3, JobNamesInjective
  <2> QED BY <2>1, <2>4
<1>6. Create(wanted) OBVIOUS
<1> HIDE DEF wanted, w
<1>7. Named(w.name)' # {} BY <1>1, <1>4, <1>5, <1>6, CreateMakes
<1> QED BY <1>2, <1>7 DEF Named

LEMMA JobsNext ==
    ASSUME JobNamesDiffer, StateInv, ObjectsInv, JobsInv, [Next]_vars PROVE JobsInv'
<1>1. ASSUME NEW m \in Mig, RoundStart(m) PROVE JobsInv'
  <2>1. PICK changed \in (SUBSET (VM \X Disk)) \ {{}} :
          /\ refs' \in {refs, [refs EXCEPT ![m] = {<<m, c[1], c[2], rounds[m] + 1>> : c \in changed}]}
          /\ Create({Delta(m, c[1], c[2], rounds[m] + 1) : c \in changed})
    BY <1>1 DEF RoundStart
  <2>2. rounds[m] + 1 \in Nat BY DEF StateInv
  <2>3. ASSUME NEW n \in Mig, NEW c \in refs'[n]
        PROVE  Named(deltaSyncName(n, c[2], c[3], c[4]))' # {}
    <3>1. CASE c \in refs[n]
      <4>1. objects \subseteq objects' BY <2>1, CreateAdds
      <4> QED BY <3>1, <4>1, NamedStays DEF JobsInv
    <3>2. CASE c \notin refs[n]
      <4>1. n = m /\ c \in {<<m, x[1], x[2], rounds[m] + 1>> : x \in changed}
        BY <2>1, <2>3, <3>2 DEF StateInv
      <4>2. PICK x \in changed : c = <<m, x[1], x[2], rounds[m] + 1>> BY <4>1
      <4>3. \E o \in objects' : o.name = deltaSyncName(m, x[1], x[2], rounds[m] + 1)
        <5>1. changed \in SUBSET (VM \X Disk) OBVIOUS
        <5>2. Create({Delta(m, y[1], y[2], rounds[m] + 1) : y \in changed}) BY <2>1
        <5> QED BY <2>2, <5>1, <5>2, RoundStartMakes
      <4>4. c[2] = x[1] /\ c[3] = x[2] /\ c[4] = rounds[m] + 1 BY <4>2
      <4>5. \E o \in objects' : o.name = deltaSyncName(n, c[2], c[3], c[4]) BY <4>1, <4>3, <4>4
      <4> QED BY <4>5 DEF Named, deltaSyncName
    <3> QED BY <3>1, <3>2
  <2>4. UNCHANGED <<written, promoted>> BY <1>1 DEF RoundStart
  <2> QED BY <2>3, <2>4 DEF JobsInv, DeltasWritten, Named, deltaSyncName
<1>2. ASSUME NEW m \in Mig, RoundPromote(m) PROVE JobsInv'
  <2>1. refs[m] \subseteq written
    <3> SUFFICES ASSUME NEW c \in refs[m] PROVE c \in written
      OBVIOUS
    <3>1. c \in Mig \X VM \X Disk \X Nat /\ c[1] = m BY DEF StateInv
    <3>2. c = <<m, c[2], c[3], c[4]>> BY <3>1
    <3>3. PICK o \in objects : o.name = deltaSyncName(m, c[2], c[3], c[4])
      BY DEF JobsInv, Named
    <3>4. o.name \in RefNames(m) BY <3>3 DEF RefNames
    <3>5. o.done BY <1>2, <3>4 DEF RoundPromote, Named
    <3> QED BY <3>2, <3>3, <3>5, JobOfName
  <2>2. DeltasWritten' BY <1>2, <2>1 DEF RoundPromote, JobsInv, DeltasWritten
  <2>3. ASSUME NEW n \in Mig, NEW c \in refs'[n]
        PROVE  Named(deltaSyncName(n, c[2], c[3], c[4]))' # {}
    <3>1. n # m /\ c \in refs[n] BY <1>2, <2>3 DEF RoundPromote, StateInv
    <3>2. Named(deltaSyncName(n, c[2], c[3], c[4])) # {} BY <3>1 DEF JobsInv
    <3>3. deltaSyncName(n, c[2], c[3], c[4]) \notin RefNames(m) BY <3>1, RefNamesApart
    <3> QED BY <1>2, <3>2, <3>3 DEF RoundPromote, Named
  <2> QED BY <2>2, <2>3 DEF JobsInv, Named, deltaSyncName
<1>3. CASE \/ \E m \in Mig : \/ createDataVolumes(m) \/ handleWarmSyncing(m)
                             \/ Converge(m) \/ handleCreateVMs(m)
           \/ \E o \in objects : Done(o)
           \/ UNCHANGED vars
  <2>1. refs' = refs /\ promoted' = promoted /\ written \subseteq written'
    <3>1. CASE \E m \in Mig : createDataVolumes(m) BY <3>1 DEF createDataVolumes
    <3>2. CASE \E m \in Mig : handleWarmSyncing(m) BY <3>2 DEF handleWarmSyncing
    <3>3. CASE \E m \in Mig : Converge(m) BY <3>3 DEF Converge
    <3>4. CASE \E m \in Mig : handleCreateVMs(m) BY <3>4 DEF handleCreateVMs
    <3>5. CASE \E o \in objects : Done(o) BY <3>5 DEF Done
    <3>6. CASE UNCHANGED vars BY <3>6 DEF vars
    <3> QED BY <1>3, <3>1, <3>2, <3>3, <3>4, <3>5, <3>6
  <2>2. ASSUME NEW n \in Mig, NEW c \in refs'[n]
        PROVE  Named(deltaSyncName(n, c[2], c[3], c[4]))' # {}
    <3>1. Named(deltaSyncName(n, c[2], c[3], c[4])) # {} BY <2>1, <2>2 DEF JobsInv
    <3>2. CASE \E m \in Mig : RoundPromote(m)
      <4>1. refs' # refs BY <3>2 DEF RoundPromote, StateInv
      <4> QED BY <2>1, <4>1
    <3>3. CASE ~\E m \in Mig : RoundPromote(m)
      BY <3>1, <3>3, NamesStay
    <3> QED BY <3>2, <3>3
  <2> QED BY <2>1, <2>2 DEF JobsInv, DeltasWritten, Named, deltaSyncName
<1> QED BY <1>1, <1>2, <1>3 DEF Next

\* A delta that a migration takes for written has been written by a Job of its
\* own (RoundPromote), if no two migrations agree in the 30 characters of their
\* names that deltaSyncName keeps; names of DataVolumes and VirtualMachines may
\* collide.
THEOREM DeltasAreWritten == JobNamesDiffer /\ Spec => []DeltasWritten
<1> SUFFICES ASSUME JobNamesDiffer PROVE Spec => []DeltasWritten
  OBVIOUS
<1> DEFINE Inv == StateInv /\ ObjectsInv /\ JobsInv
<1>1. Init => Inv
  <2>1. Init => JobsInv BY DEF Init, JobsInv, DeltasWritten
  <2> QED BY <2>1, StateInit
<1>2. Inv /\ [Next]_vars => Inv' BY StateNext, ObjectsNext, JobsNext
<1>3. Inv => DeltasWritten BY DEF JobsInv
<1> QED BY <1>1, <1>2, <1>3, PTL DEF Spec

-----------------------------------------------------------------------------
(***************************************************************************)
(* DataVolumes and VirtualMachines.                                        *)
(***************************************************************************)

\* createDataVolumes leaves an object of every name it uses.
LEMMA VolumesMade ==
    ASSUME VolumeNamesDiffer, NEW m \in Mig, NEW v \in VM, NEW d \in Disk,
           Create({Volume(m, x, y) : x \in VM, y \in Disk})
    PROVE  \E o \in objects' : o.name = dvName(m, v, d)
<1> DEFINE wanted == {Volume(m, x, y) : x \in VM, y \in Disk}
           w == Volume(m, v, d)
<1>1. w \in wanted OBVIOUS
<1>2. w.name = dvName(m, v, d) /\ w.for = <<m, v, d>> BY DEF Volume
<1>3. ~Before(w.for, w.for) BY <1>2, NotBeforeItself
<1>4. ASSUME NEW u \in wanted, u.name = w.name PROVE u = w
  <2>1. PICK x \in VM, y \in Disk : u = Volume(m, x, y) OBVIOUS
  <2>2. dvName(m, x, y) = dvName(m, v, d) BY <1>2, <1>4, <2>1 DEF Volume
  <2>3. x = v /\ y = d BY <2>2, VolumeNamesInjective
  <2> QED BY <2>1, <2>3
<1>5. Create(wanted) OBVIOUS
<1> HIDE DEF wanted, w
<1>6. Named(w.name)' # {} BY <1>1, <1>3, <1>4, <1>5, CreateMakes
<1> QED BY <1>2, <1>6 DEF Named

\* handleCreateVMs leaves an object of every name it uses.
LEMMA MachinesMade ==
    ASSUME MachineNamesDiffer, NEW m \in Mig, NEW v \in VM,
           Create({Machine(m, x) : x \in VM})
    PROVE  \E o \in objects' : o.name = vmTargetName(m, v)
<1> DEFINE wanted == {Machine(m, x) : x \in VM}
           w == Machine(m, v)
<1>1. w \in wanted OBVIOUS
<1>2. w.name = vmTargetName(m, v) /\ w.for = <<m, v>> BY DEF Machine
<1>3. 1 \in Disk BY NamesAssumption DEF Disk
<1>4. ~Before(w.for, w.for) BY <1>2, <1>3, NotBeforeItself
<1>5. ASSUME NEW u \in wanted, u.name = w.name PROVE u = w
  <2>1. PICK x \in VM : u = Machine(m, x) OBVIOUS
  <2>2. vmTargetName(m, x) = vmTargetName(m, v) BY <1>2, <1>5, <2>1 DEF Machine
  <2>3. x = v BY <2>2, MachineNamesInjective
  <2> QED BY <2>1, <2>3
<1>6. Create(wanted) OBVIOUS
<1> HIDE DEF wanted, w
<1>7. Named(w.name)' # {} BY <1>1, <1>4, <1>5, <1>6, CreateMakes
<1> QED BY <1>2, <1>7 DEF Named

\* DataVolumes and VirtualMachines are never deleted: the names of deleted
\* objects are those of Jobs.
LEMMA OwnNamesStay ==
    ASSUME StateInv, ObjectsInv, [Next]_vars, NEW m \in Mig, NEW v \in VM, NEW d \in Disk
    PROVE  /\ Named(dvName(m, v, d)) # {} => Named(dvName(m, v, d))' # {}
           /\ Named(vmTargetName(m, v)) # {} => Named(vmTargetName(m, v))' # {}
<1>1. \A n \in Mig : dvName(m, v, d) \notin RefNames(n) /\ vmTargetName(m, v) \notin RefNames(n)
  BY KindsDiffer DEF RefNames
<1>2. ASSUME NEW n, Named(n) # {}, \A k \in Mig : n \notin RefNames(k)
      PROVE  \E o \in objects' : o.name = n
  <2>1. Named(n)' # {} BY <1>2, NamesStay
  <2> QED BY <2>1 DEF Named
<1>3. Named(dvName(m, v, d)) # {} => \E o \in objects' : o.name = dvName(m, v, d)
  BY <1>1, <1>2
<1>4. Named(vmTargetName(m, v)) # {} => \E o \in objects' : o.name = vmTargetName(m, v)
  BY <1>1, <1>2
<1> QED BY <1>3, <1>4 DEF Named, dvName, vmTargetName

LEMMA OwnNext ==
    ASSUME VolumeNamesDiffer, MachineNamesDiffer, StateInv, ObjectsInv, OwnInv, [Next]_vars
    PROVE  OwnInv'
<1> SUFFICES ASSUME NEW m \in Mig
             PROVE  /\ step'[m] # "Pending" =>
                         \A v \in VM, d \in Disk : \E o \in objects' : o.name = dvName(m, v, d)
                    /\ step'[m] = "Completed" =>
                         \A v \in VM : \E o \in objects' : o.name = vmTargetName(m, v)
  BY DEF OwnInv, Named, dvName, vmTargetName
<1> DEFINE Volumes == \A v \in VM, d \in Disk : \E o \in objects' : o.name = dvName(m, v, d)
           Machines == \A v \in VM : \E o \in objects' : o.name = vmTargetName(m, v)
<1>1. 1 \in Disk BY NamesAssumption DEF Disk
<1>2. step[m] # "Pending" => Volumes
  <2>1. step[m] # "Pending" => \A v \in VM, d \in Disk : Named(dvName(m, v, d))' # {}
    BY OwnNamesStay DEF OwnInv
  <2> QED BY <2>1 DEF Named, dvName
<1>3. step[m] = "Completed" => Machines
  <2>1. step[m] = "Completed" => \A v \in VM : Named(vmTargetName(m, v))' # {}
    BY <1>1, OwnNamesStay DEF OwnInv
  <2> QED BY <2>1 DEF Named, vmTargetName
<1> HIDE DEF Volumes, Machines
<1>4. ASSUME NEW n \in Mig, createDataVolumes(n)
      PROVE  (step'[m] # "Pending" => Volumes) /\ (step'[m] = "Completed" => Machines)
  <2>1. n = m => Volumes BY <1>4, VolumesMade DEF createDataVolumes, Volumes
  <2>2. step'[m] = step[m] \/ (n = m /\ step'[m] = "WarmSyncing")
    BY <1>4 DEF createDataVolumes, StateInv
  <2> QED BY <1>2, <1>3, <2>1, <2>2
<1>5. ASSUME NEW n \in Mig, handleCreateVMs(n)
      PROVE  (step'[m] # "Pending" => Volumes) /\ (step'[m] = "Completed" => Machines)
  <2>1. n = m => Machines BY <1>5, MachinesMade DEF handleCreateVMs, Machines
  <2>2. step'[m] = step[m] \/ (n = m /\ step[m] = "CreatingVMs")
    BY <1>5 DEF handleCreateVMs, StateInv
  <2> QED BY <1>2, <1>3, <2>1, <2>2
<1>6. ASSUME NEW n \in Mig, handleWarmSyncing(n) \/ Converge(n)
      PROVE  (step'[m] # "Pending" => Volumes) /\ (step'[m] = "Completed" => Machines)
  <2>1. \/ step'[m] = step[m]
        \/ step[m] = "WarmSyncing" /\ step'[m] = "WarmDeltaSync"
        \/ step[m] = "WarmDeltaSync" /\ step'[m] = "CreatingVMs"
    BY <1>6 DEF handleWarmSyncing, Converge, StateInv
  <2> QED BY <1>2, <1>3, <2>1
<1>7. ASSUME step' = step
      PROVE  (step'[m] # "Pending" => Volumes) /\ (step'[m] = "Completed" => Machines)
  BY <1>2, <1>3, <1>7
<1>8. (step'[m] # "Pending" => Volumes) /\ (step'[m] = "Completed" => Machines)
  BY <1>4, <1>5, <1>6, <1>7 DEF Next, RoundStart, RoundPromote, Done, vars
<1> QED BY <1>8 DEF Volumes, Machines

\* An object with the name of a migration's DataVolume or VirtualMachine is
\* that one.
LEMMA OwnIsOwn ==
    ASSUME VolumeNamesDiffer, MachineNamesDiffer, StateInv, ObjectsInv, OwnInv
    PROVE  OwnObjects
<1> SUFFICES ASSUME NEW m \in Mig, step[m] = "Completed", NEW v \in VM
             PROVE  /\ \E o \in Named(vmTargetName(m, v)) : o.for = <<m, v>>
                    /\ \A d \in Disk : \E o \in Named(dvName(m, v, d)) : o.for = <<m, v, d>>
  BY DEF OwnObjects
<1>1. \E o \in Named(vmTargetName(m, v)) : o.for = <<m, v>>
  <2>1. PICK o \in objects : o.name = vmTargetName(m, v) BY DEF OwnInv, Named
  <2>2. Kind(o, written) BY DEF ObjectsInv
  <2>3. ~IsVolume(o) BY <2>1, KindsDiffer DEF IsVolume
  <2>4. ~IsDelta(o, written) BY <2>1, KindsDiffer DEF IsDelta
  <2>5. ~IsExisting(o) BY <2>1, MachineNamesInjective DEF IsExisting
  <2>6. PICK n \in Mig, w \in VM : o.name = vmTargetName(n, w) /\ o.for = <<n, w>>
    BY <2>2, <2>3, <2>4, <2>5 DEF Kind, IsMachine
  <2>7. vmTargetName(m, v) = vmTargetName(n, w) BY <2>1, <2>6
  <2>8. m = n /\ v = w BY <2>7, MachineNamesInjective
  <2> QED BY <2>1, <2>6, <2>8 DEF Named
<1>2. ASSUME NEW d \in Disk PROVE \E o \in Named(dvName(m, v, d)) : o.for = <<m, v, d>>
  <2>1. PICK o \in objects : o.name = dvName(m, v, d) BY DEF OwnInv, Named
  <2>2. Kind(o, written) BY DEF ObjectsInv
  <2>3. ~IsMachine(o) BY <2>1, KindsDiffer DEF IsMachine
  <2>4. ~IsDelta(o, written) BY <2>1, KindsDiffer DEF IsDelta
  <2>5. ~IsExisting(o) BY <2>1, KindsDiffer DEF IsExisting
  <2>6. PICK n \in Mig, w \in VM, e \in Disk : o.name = dvName(n, w, e) /\ o.for = <<n, w, e>>
    BY <2>2, <2>3, <2>4, <2>5 DEF Kind, IsVolume
  <2>7. dvName(m, v, d) = dvName(n, w, e) BY <2>1, <2>6
  <2>8. m = n /\ v = w /\ d = e BY <2>7, VolumeNamesInjective
  <2> QED BY <2>1, <2>6, <2>8 DEF Named
<1> QED BY <1>1, <1>2

\* A completed migration has its own VirtualMachines on its own DataVolumes
\* (createDataVolumes, handleCreateVMs), if no two migrations agree in the 40
\* characters that dvName keeps and the names of VirtualMachines are not used
\* twice; names of Jobs may collide.
THEOREM ObjectsAreOwn == VolumeNamesDiffer /\ MachineNamesDiffer /\ Spec => []OwnObjects
<1> SUFFICES ASSUME VolumeNamesDiffer, MachineNamesDiffer PROVE Spec => []OwnObjects
  OBVIOUS
<1> DEFINE Inv == StateInv /\ ObjectsInv /\ OwnInv
<1>1. Init => Inv
  <2>1. Init => OwnInv BY DEF Init, OwnInv
  <2> QED BY <2>1, StateInit
<1>2. Inv /\ [Next]_vars => Inv' BY StateNext, ObjectsNext, OwnNext
<1>3. Inv => OwnObjects BY OwnIsOwn
<1> QED BY <1>1, <1>2, <1>3, PTL DEF Spec

=============================================================================
