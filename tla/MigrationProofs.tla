--------------------------- MODULE MigrationProofs ---------------------------
(***************************************************************************)
(* Proofs about the phase machine of a migration without CBT, for any      *)
(* number of VMs and disks and any set of AHVMigration specs.              *)
(***************************************************************************)
EXTENDS Migration, TLAPS

-----------------------------------------------------------------------------
(***************************************************************************)
(* Types.                                                                  *)
(***************************************************************************)

LEMMA SpecFields ==
  ASSUME TypeOK
  PROVE  /\ spec.warm \in BOOLEAN /\ spec.shutdown \in BOOLEAN
         /\ spec.finalSync \in BOOLEAN /\ spec.pause \in BOOLEAN
         /\ spec.prep \subseteq VM /\ spec.test \subseteq VM
  BY MigrationAssumption DEF TypeOK

LEMMA Uptos == \A n \in Upto : n \in Nat /\ n <= NumVM /\ 0 \in Upto /\ NumVM \in Upto
  BY MigrationAssumption DEF Upto

\* The images of a VM are a sequence, one for each disk.
LEMMA ImagesType ==
  ASSUME TypeOK, NEW v \in VM
  PROVE  /\ Images(v) \in Seq(Content) /\ Len(Images(v)) = NumDisk /\ Images(v) # <<>>
         /\ \A k \in Disk : Images(v)[k] = [disk |-> k, ver |-> src[v][k]]
  <1>1. NumDisk \in Nat \ {0} /\ Disk = 1 .. NumDisk
    BY MigrationAssumption DEF Disk
  <1>2. \A k \in Disk : src[v][k] \in Nat
    BY DEF TypeOK
  <1>3. \A k \in Disk : [disk |-> k, ver |-> src[v][k]] \in Content
    BY <1>1, <1>2 DEF Content
  <1>4. Images(v) \in [1 .. NumDisk -> Content]
    BY <1>1, <1>3 DEF Images
  <1>5. Images(v) \in Seq(Content) /\ Len(Images(v)) = NumDisk
    BY <1>1, <1>4
  <1>6. Images(v) # <<>>
    BY <1>1, <1>5
  <1> QED
    BY <1>5, <1>6 DEF Images

LEMMA BackingType ==
  ASSUME NEW v \in VM
  PROVE  backing[v] \in Seq(Content) /\ Len(backing[v]) = NumDisk
  <1>1. NumDisk \in Nat \ {0} /\ Disk = 1 .. NumDisk
    BY MigrationAssumption DEF Disk
  <1>2. \A k \in Disk : (IF k \in Bare THEN Blank ELSE [disk |-> k, ver |-> 0]) \in Content
    BY <1>1 DEF Content, Blank
  <1>3. backing[v] = [k \in Disk |-> IF k \in Bare THEN Blank ELSE [disk |-> k, ver |-> 0]]
    BY DEF backing
  <1>4. backing[v] \in [1 .. NumDisk -> Content]
    BY <1>1, <1>2, <1>3
  <1> QED
    BY <1>1, <1>4

\* The images of a VM of which some could not be made.
LEMMA SomeImagesType ==
  ASSUME TypeOK, NEW v \in VM, NEW t \in SomeImages(v)
  PROVE  t \in Seq(Content) /\ ("image" \notin Faults => t = Images(v))
  <1>1. PICK f \in Imaged : t = [j \in DOMAIN f |-> Images(v)[f[j]]]
    BY DEF SomeImages
  <1>2. NumDisk \in Nat \ {0} /\ Disk = 1 .. NumDisk
    BY MigrationAssumption DEF Disk
  <1>3. Images(v) \in [Disk -> Content]
    <2>1. \A k \in Disk : src[v][k] \in Nat
      BY DEF TypeOK
    <2>2. \A k \in Disk : [disk |-> k, ver |-> src[v][k]] \in Content
      BY <1>2, <2>1 DEF Content
    <2> QED
      BY <2>2 DEF Images
  <1>4. CASE "image" \in Faults
    <2>1. PICK m \in 0 .. NumDisk : f \in [1 .. m -> Disk]
      BY <1>4 DEF Imaged
    <2>2. t \in [1 .. m -> Content]
      BY <1>1, <1>3, <2>1
    <2>3. m \in Nat
      BY <1>2
    <2> QED
      BY <1>4, <2>2, <2>3
  <1>5. CASE "image" \notin Faults
    <2>1. f = [k \in Disk |-> k]
      BY <1>5 DEF Imaged
    <2>2. t = [k \in Disk |-> Images(v)[k]]
      BY <1>1, <2>1
    <2>3. t = Images(v)
      BY <1>3, <2>2
    <2> QED
      BY <2>3, ImagesType
  <1> QED
    BY <1>4, <1>5

\* The updates of the statuses.
LEMMA StatusUpdate ==
  ASSUME NEW s \in VMStatus, NEW p \in VMPhase, NEW t \in Seq(Content), NEW r \in Nat
  PROVE  /\ [s EXCEPT !.phase = p] \in VMStatus
         /\ [s EXCEPT !.temp = t] \in VMStatus
         /\ [s EXCEPT !.phase = p, !.temp = t] \in VMStatus
         /\ [s EXCEPT !.phase = p, !.refs = r] \in VMStatus
         /\ [s EXCEPT !.phase = p, !.vmref = TRUE] \in VMStatus
  BY DEF VMStatus

LEMMA MarkFields ==
  ASSUME TypeOK, NEW vs, NEW p \in VMPhase
  PROVE  /\ Mark(vs, p) \in [VM -> VMStatus]
         /\ \A v \in VM : /\ Mark(vs, p)[v].phase = IF v \in vs THEN p ELSE st[v].phase
                          /\ Mark(vs, p)[v].temp = st[v].temp
                          /\ Mark(vs, p)[v].refs = st[v].refs
                          /\ Mark(vs, p)[v].vmref = st[v].vmref
  <1>1. st \in [VM -> VMStatus]
    BY DEF TypeOK
  <1>2. \A v \in VM : [st[v] EXCEPT !.phase = p] \in VMStatus
    BY <1>1 DEF VMStatus
  <1>3. Mark(vs, p) \in [VM -> VMStatus]
    BY <1>1, <1>2 DEF Mark
  <1> QED
    BY <1>1, <1>3 DEF Mark, VMStatus

LEMMA ImportingFields ==
  ASSUME NEW s \in [VM -> VMStatus], NEW c \in [VM -> Seq(Content)]
  PROVE  /\ Importing(s, c) \in [VM -> VMStatus]
         /\ \A v \in VM : /\ Importing(s, c)[v].phase = "ImportingDisks"
                          /\ Importing(s, c)[v].temp = s[v].temp
                          /\ Importing(s, c)[v].refs = Len(c[v])
                          /\ Importing(s, c)[v].vmref = s[v].vmref
  <1>1. \A v \in VM : Len(c[v]) \in Nat
    OBVIOUS
  <1>2. \A v \in VM : [s[v] EXCEPT !.phase = "ImportingDisks", !.refs = Len(c[v])] \in VMStatus
    BY <1>1 DEF VMStatus, VMPhase
  <1>3. Importing(s, c) \in [VM -> VMStatus]
    BY <1>2 DEF Importing
  <1> QED
    BY <1>1, <1>3 DEF Importing, VMStatus

LEMMA TempsType ==
  ASSUME NEW s \in [VM -> VMStatus]
  PROVE  temps(s) \in [VM -> Seq(Content)] /\ \A v \in VM : temps(s)[v] = s[v].temp
  BY DEF temps, VMStatus

\* A DataVolume that is there is kept, and every disk with a content gets one.
LEMMA CreateEffect ==
  ASSUME TypeOK, NEW n \in Upto, NEW c \in [VM -> Seq(Content)], CreateDataVolumes(n, c)
  PROVE  /\ dv' \in [VM -> [Disk -> DataVolume]]
         /\ \A v \in VM, k \in Disk :
               \/ dv'[v][k] = dv[v][k]
               \/ /\ v <= n /\ k <= Len(c[v]) /\ dv[v][k].st = "none"
                  /\ dv'[v][k] = [st |-> "importing", holds |-> c[v][k]]
         /\ \A v \in VM, k \in Disk : v <= n /\ k <= Len(c[v]) => dv'[v][k].st # "none"
  <1>1. dv \in [VM -> [Disk -> DataVolume]]
    BY DEF TypeOK
  <1>2. \A v \in VM, k \in Disk : k <= Len(c[v]) => c[v][k] \in Content
    BY MigrationAssumption DEF Disk
  <1>3. \A v \in VM, k \in Disk :
           k <= Len(c[v]) => [st |-> "importing", holds |-> c[v][k]] \in DataVolume
    BY <1>2 DEF DataVolume
  <1>4. \A v \in VM : NewDataVolumes(v, c[v]) \in [Disk -> DataVolume]
    BY <1>1, <1>3 DEF NewDataVolumes
  <1>5. dv' \in [VM -> [Disk -> DataVolume]]
    BY <1>1, <1>4 DEF CreateDataVolumes
  <1>6. \A v \in VM, k \in Disk :
           dv'[v][k] = IF v <= n /\ k <= Len(c[v]) /\ dv[v][k].st = "none"
                         THEN [st |-> "importing", holds |-> c[v][k]] ELSE dv[v][k]
    BY DEF CreateDataVolumes, NewDataVolumes
  <1>7. ASSUME NEW v \in VM, NEW k \in Disk
        PROVE  /\ \/ dv'[v][k] = dv[v][k]
                  \/ /\ v <= n /\ k <= Len(c[v]) /\ dv[v][k].st = "none"
                     /\ dv'[v][k] = [st |-> "importing", holds |-> c[v][k]]
               /\ v <= n /\ k <= Len(c[v]) => dv'[v][k].st # "none"
    <2>1. CASE v <= n /\ k <= Len(c[v]) /\ dv[v][k].st = "none"
      BY <1>6, <2>1
    <2>2. CASE ~(v <= n /\ k <= Len(c[v]) /\ dv[v][k].st = "none")
      BY <1>6, <2>2
    <2> QED
      BY <2>1, <2>2
  <1> QED
    BY <1>5, <1>7

LEMMA FinishType ==
  ASSUME TypeOK, NEW n, NEW p \in Phase, NEW s \in [VM -> VMStatus], Finish(n, p, s)
  PROVE  phase' \in Phase /\ st' \in [VM -> VMStatus] /\ lost' \in Nat
  BY DEF TypeOK, Finish, Lose

LEMMA FailType ==
  ASSUME TypeOK, NEW n, failMigration(n)
  PROVE  phase' \in Phase /\ st' \in [VM -> VMStatus] /\ lost' \in Nat
  BY DEF TypeOK, failMigration, Phase

\* The images a pass has made are orphans if it is lost or fails, and those of the
\* pre-copy if the final sync cannot delete them.
Orphaned ==
    \A v \in VM : \/ images'[v] = images[v]
                  \/ /\ phase' # "Failed" /\ lost' = lost
                     /\ images'[v].orphans = images[v].orphans
                  \/ /\ phase' = "Failed" \/ lost' # lost
                     /\ images'[v].orphans = images[v].orphans + 1
                  \/ /\ "delete" \in Faults /\ phase = "WarmFinalSync"
                     /\ phase' = phase /\ lost' = lost
                     /\ st[v].phase # "FinalSyncImaged" /\ st'[v].phase = "FinalSyncImaged"
                     /\ images'[v].orphans = images[v].orphans + 1

LEMMA ImagingLeft ==
  ASSUME TypeOK, NEW vs, NEW left, Imaging(vs, left)
  PROVE  /\ images' \in [VM -> [named : BOOLEAN, orphans : Nat]]
         /\ \A v \in VM :
               \/ images'[v] = images[v]
               \/ /\ v \in vs /\ phase' # "Failed" /\ lost' = lost
                  /\ images'[v].orphans = images[v].orphans
               \/ /\ phase' = "Failed" \/ lost' # lost
                  /\ images'[v].orphans = images[v].orphans + 1
               \/ /\ v \in vs /\ v \in left /\ phase' # "Failed" /\ lost' = lost
                  /\ images'[v].orphans = images[v].orphans + 1
  <1> DEFINE kept == phase' # "Failed" /\ lost' = lost
             old(v) == v \in left /\ images[v].named
             name(v) == kept \/ old(v)
             count(v) == images[v].orphans + IF kept /\ ~old(v) THEN 0 ELSE 1
  <1>1. images \in [VM -> [named : BOOLEAN, orphans : Nat]]
    BY DEF TypeOK
  <1>2. images' = [v \in VM |->
           IF v \in vs THEN [named |-> name(v), orphans |-> count(v)] ELSE images[v]]
    BY DEF Imaging
  <1>3. ASSUME NEW v \in VM
        PROVE  name(v) \in BOOLEAN /\ count(v) \in Nat
    <2>1. images[v].orphans \in Nat
      BY <1>1
    <2> QED
      BY <2>1
  <1>4. ASSUME NEW v \in VM
        PROVE  /\ kept /\ ~old(v) => count(v) = images[v].orphans
               /\ ~(kept /\ ~old(v)) => count(v) = images[v].orphans + 1
    <2>1. images[v].orphans \in Nat
      BY <1>1
    <2> QED
      BY <2>1
  <1>5. \A v \in VM : images'[v] =
           IF v \in vs THEN [named |-> name(v), orphans |-> count(v)] ELSE images[v]
    BY <1>2
  <1> HIDE DEF name, count
  <1>6. images' \in [VM -> [named : BOOLEAN, orphans : Nat]]
    BY <1>1, <1>2, <1>3
  <1>7. \A v \in VM : v \in vs => images'[v].orphans = count(v)
    <2>1. \A v \in VM : v \in vs => images'[v] = [named |-> name(v), orphans |-> count(v)]
      BY <1>5
    <2>2. \A a, b : [named |-> a, orphans |-> b].orphans = b
      OBVIOUS
    <2> QED
      BY <2>1, <2>2
  <1>8. \A v \in VM : v \notin vs => images'[v] = images[v]
    BY <1>5
  <1> QED
    BY <1>4, <1>6, <1>7, <1>8

LEMMA ImagingEffect ==
  ASSUME TypeOK, NEW vs, Imaging(vs, {})
  PROVE  images' \in [VM -> [named : BOOLEAN, orphans : Nat]] /\ Orphaned
  BY ImagingLeft DEF Orphaned

-----------------------------------------------------------------------------
(***************************************************************************)
(* What each handler does, VM by VM.                                       *)
(***************************************************************************)

\* The rest of a status but its phase is kept.
Kept(v) == st'[v].temp = st[v].temp /\ st'[v].refs = st[v].refs /\ st'[v].vmref = st[v].vmref

\* The pass is lost, or it ends in phase p.
Ends(p) == Lose \/ (phase' = p /\ lost' = lost)

LEMMA InitEffect ==
  ASSUME TypeOK, handleInit
  PROVE  /\ phase \notin Phase \ {""}
         /\ st' = st /\ Ends("Pending")
         /\ UNCHANGED <<spec, approvals, src, power, dv, vm, images, prepped>>
         /\ TypeOK'
  <1>1. st' = st /\ Ends("Pending")
    BY DEF handleInit, Finish, Ends, Lose
  <1>2. UNCHANGED <<spec, approvals, src, power, dv, vm, images, prepped>>
    BY DEF handleInit
  <1>3. phase \notin Phase \ {""}
    BY DEF handleInit
  <1>4. "Pending" \in Phase
    BY DEF Phase
  <1>5. phase \in Phase /\ lost \in Nat
    BY DEF TypeOK
  <1>6. phase' \in Phase /\ lost' \in Nat
    BY <1>1, <1>4, <1>5 DEF Ends, Lose
  <1>7. TypeOK'
    BY <1>1, <1>2, <1>6 DEF TypeOK
  <1> QED
    BY <1>1, <1>2, <1>3, <1>7

Direct == spec.prep = {} /\ nextPhaseAfterGuestPrep = "ImportingDisks"

LEMMA PendingEffect ==
  ASSUME TypeOK, handlePending
  PROVE  /\ phase = "Pending"
         /\ UNCHANGED <<spec, approvals, src, power, vm, images, prepped>>
         /\ \/ /\ ~Direct /\ dv' = dv
               /\ Ends(IF spec.prep # {} THEN "GuestPrepping" ELSE nextPhaseAfterGuestPrep)
               /\ \A v \in VM : Kept(v) /\ (st' = st \/ st'[v].phase = "Pending")
               /\ phase' # phase => \A v \in VM : st'[v].phase = "Pending"
            \/ /\ Direct /\ Ends("ImportingDisks")
               /\ \A v \in VM, k \in Disk :
                     dv'[v][k] = dv[v][k] \/ (dv[v][k].st = "none" /\ dv'[v][k].st = "importing")
               /\ \A v \in VM : /\ st'[v].temp = st[v].temp /\ st'[v].vmref = st[v].vmref
                                /\ st' = st \/ st'[v].phase = "ImportingDisks"
               /\ phase' # phase => \A v \in VM : /\ st'[v].refs = NumDisk
                                                  /\ \A k \in Disk : dv'[v][k].st # "none"
         /\ TypeOK'
  <1> DEFINE fresh == Mark(VM, "Pending")
  <1>0. phase = "Pending" /\ UNCHANGED <<spec, approvals, src, power, vm, images, prepped>>
    BY DEF handlePending
  <1>1. /\ fresh \in [VM -> VMStatus]
        /\ \A v \in VM : /\ fresh[v].phase = "Pending" /\ fresh[v].temp = st[v].temp
                         /\ fresh[v].refs = st[v].refs /\ fresh[v].vmref = st[v].vmref
    BY MarkFields DEF VMPhase
  <1>2. /\ backing \in [VM -> Seq(Content)] /\ \A v \in VM : Len(backing[v]) = NumDisk
    <2>1. backing = [v \in VM |-> backing[v]]
      BY DEF backing
    <2> QED
      BY <2>1, BackingType
  <1>3. /\ Importing(fresh, backing) \in [VM -> VMStatus]
        /\ \A v \in VM : /\ Importing(fresh, backing)[v].phase = "ImportingDisks"
                         /\ Importing(fresh, backing)[v].temp = st[v].temp
                         /\ Importing(fresh, backing)[v].refs = NumDisk
                         /\ Importing(fresh, backing)[v].vmref = st[v].vmref
    BY <1>1, <1>2, ImportingFields
  <1>4. nextPhaseAfterGuestPrep \in Phase /\ nextPhaseAfterGuestPrep # "Pending"
    BY DEF nextPhaseAfterGuestPrep, Phase
  <1>5. CASE Direct
    <2>1. PICK n \in Upto : /\ CreateDataVolumes(n, backing)
                            /\ Finish(n, "ImportingDisks", Importing(fresh, backing))
      BY <1>5 DEF handlePending, Direct
    <2>2. /\ dv' \in [VM -> [Disk -> DataVolume]]
          /\ \A v \in VM, k \in Disk :
               \/ dv'[v][k] = dv[v][k]
               \/ /\ dv[v][k].st = "none"
                  /\ dv'[v][k] = [st |-> "importing", holds |-> backing[v][k]]
          /\ \A v \in VM, k \in Disk : v <= n /\ k <= Len(backing[v]) => dv'[v][k].st # "none"
      BY <1>2, <2>1, CreateEffect
    <2>3. phase' \in Phase /\ st' \in [VM -> VMStatus] /\ lost' \in Nat
      <3>1. "ImportingDisks" \in Phase
        BY DEF Phase
      <3> QED
        BY <1>3, <2>1, <3>1, FinishType
    <2>4. TypeOK'
      BY <1>0, <2>2, <2>3 DEF TypeOK
    <2>5. ASSUME NEW v \in VM, NEW k \in Disk
          PROVE  dv'[v][k] = dv[v][k] \/ (dv[v][k].st = "none" /\ dv'[v][k].st = "importing")
      <3>1. CASE dv'[v][k] = [st |-> "importing", holds |-> backing[v][k]] /\ dv[v][k].st = "none"
        BY <3>1
      <3> QED
        BY <2>2, <3>1
    <2>6. CASE Lose
      BY <1>0, <1>5, <2>4, <2>5, <2>6 DEF Ends, Lose
    <2>7. CASE n = NumVM /\ phase' = "ImportingDisks" /\ st' = Importing(fresh, backing) /\ lost' = lost
      <3>1. \A v \in VM, k \in Disk : v <= n /\ k <= Len(backing[v])
        BY <1>2, <2>7, MigrationAssumption DEF VM, Disk
      <3>2. \A v \in VM, k \in Disk : dv'[v][k].st # "none"
        BY <2>2, <3>1
      <3> HIDE DEF fresh
      <3> QED
        BY <1>0, <1>3, <1>5, <2>4, <2>5, <2>7, <3>2 DEF Ends
    <2> QED
      BY <2>1, <2>6, <2>7 DEF Finish
  <1>6. CASE ~Direct
    <2> DEFINE p == IF spec.prep # {} THEN "GuestPrepping" ELSE nextPhaseAfterGuestPrep
    <2>1. Finish(NumVM, p, fresh) /\ dv' = dv
      BY <1>6 DEF handlePending, Direct
    <2>2. p \in Phase
      BY <1>4 DEF Phase
    <2>3. phase' \in Phase /\ st' \in [VM -> VMStatus] /\ lost' \in Nat
      BY <1>1, <2>1, <2>2, FinishType
    <2>4. TypeOK'
      BY <1>0, <2>1, <2>3 DEF TypeOK
    <2> HIDE DEF fresh, p
    <2>5. \/ Lose
          \/ phase' = p /\ st' = fresh /\ lost' = lost
      BY <2>1 DEF Finish
    <2>6. Ends(p)
      BY <2>5 DEF Ends
    <2>7. \A v \in VM : Kept(v) /\ (st' = st \/ st'[v].phase = "Pending")
      BY <1>1, <2>5 DEF Kept, Lose
    <2>8. phase' # phase => \A v \in VM : st'[v].phase = "Pending"
      BY <1>1, <2>5 DEF Lose
    <2> QED
      BY <1>0, <1>6, <2>1, <2>4, <2>6, <2>7, <2>8 DEF p
  <1> QED
    BY <1>5, <1>6

\* The scripts that succeed are recorded, and the next phase is reached when
\* all have.
LEMMA GuestPrepEffect ==
  ASSUME TypeOK, GuestPrepRun
  PROVE  /\ phase = "GuestPrepping" /\ UNCHANGED <<spec, approvals, src, power, dv, vm, images>>
         /\ phase' \in {"GuestPrepping", "Failed", nextPhaseAfterGuestPrep}
         /\ lost' = lost \/ (lost' = lost + 1 /\ phase' = phase)
         /\ \A v \in VM : /\ Kept(v)
                          /\ st'[v].phase \in {st[v].phase, "GuestPrepped", "GuestPrepFailed"}
         /\ prepped \subseteq prepped'
         /\ \A v \in spec.prep : st'[v].phase = "GuestPrepped" =>
                                    st[v].phase = "GuestPrepped" \/ v \in prepped'
         /\ phase' = nextPhaseAfterGuestPrep =>
               \A v \in spec.prep : st[v].phase = "GuestPrepped" \/ v \in prepped'
         /\ TypeOK'
  <1>0. /\ phase = "GuestPrepping" /\ UNCHANGED <<spec, approvals, src, power, dv, vm, images>>
        /\ spec.prep \subseteq VM /\ st \in [VM -> VMStatus] /\ lost \in Nat /\ prepped \subseteq VM
    BY SpecFields DEF GuestPrepRun, TypeOK
  <1>1. PICK n \in Upto :
          LET run == {v \in spec.prep : v <= n /\ st[v].phase # "GuestPrepped"}
          IN \E bad \in SUBSET run :
             LET s == [v \in VM |-> [st[v] EXCEPT !.phase =
                          IF v \in bad THEN "GuestPrepFailed" ELSE "GuestPrepped"]]
             IN  /\ prepped' = prepped \cup (run \ bad)
                 /\ \/ bad = {} /\ Finish(n, nextPhaseAfterGuestPrep, s)
                    \/ bad # {} /\ n < NumVM /\ Lose
                    \/ /\ bad # {} /\ n = NumVM
                       /\ st' \in {st, s}
                       /\ \/ phase' = "Failed" /\ UNCHANGED lost
                          \/ lost < MaxLost /\ lost' = lost + 1 /\ UNCHANGED phase
    BY DEF GuestPrepRun
  <1> DEFINE run == {v \in spec.prep : v <= n /\ st[v].phase # "GuestPrepped"}
  <1>2. PICK bad \in SUBSET run :
             LET s == [v \in VM |-> [st[v] EXCEPT !.phase =
                          IF v \in bad THEN "GuestPrepFailed" ELSE "GuestPrepped"]]
             IN  /\ prepped' = prepped \cup (run \ bad)
                 /\ \/ bad = {} /\ Finish(n, nextPhaseAfterGuestPrep, s)
                    \/ bad # {} /\ n < NumVM /\ Lose
                    \/ /\ bad # {} /\ n = NumVM
                       /\ st' \in {st, s}
                       /\ \/ phase' = "Failed" /\ UNCHANGED lost
                          \/ lost < MaxLost /\ lost' = lost + 1 /\ UNCHANGED phase
    BY <1>1
  <1> DEFINE s == [v \in VM |-> [st[v] EXCEPT !.phase =
                          IF v \in bad THEN "GuestPrepFailed" ELSE "GuestPrepped"]]
  <1>3. /\ prepped' = prepped \cup (run \ bad)
        /\ \/ st' = s /\ n = NumVM
           \/ st' = st /\ (phase' = phase \/ phase' = "Failed")
        /\ \/ phase' = phase /\ lost' = lost + 1
           \/ phase' \in {"Failed", nextPhaseAfterGuestPrep} /\ lost' = lost
        /\ phase' = nextPhaseAfterGuestPrep /\ phase' # "Failed" /\ phase' # phase => bad = {}
    BY <1>2 DEF Finish, Lose
  <1>4. /\ s \in [VM -> VMStatus]
        /\ \A v \in VM : /\ s[v].phase = IF v \in bad THEN "GuestPrepFailed" ELSE "GuestPrepped"
                         /\ s[v].temp = st[v].temp
                         /\ s[v].refs = st[v].refs /\ s[v].vmref = st[v].vmref
    <2>1. ASSUME NEW v \in VM
          PROVE  /\ s[v] \in VMStatus
                 /\ s[v].phase = IF v \in bad THEN "GuestPrepFailed" ELSE "GuestPrepped"
                 /\ s[v].temp = st[v].temp /\ s[v].refs = st[v].refs /\ s[v].vmref = st[v].vmref
      <3>1. PICK p \in VMPhase : p = IF v \in bad THEN "GuestPrepFailed" ELSE "GuestPrepped"
        BY DEF VMPhase
      <3>2. s[v] = [st[v] EXCEPT !.phase = p] /\ st[v] \in VMStatus
        BY <1>0, <3>1
      <3> HIDE DEF s
      <3>3. s[v] \in VMStatus
        BY <3>2 DEF VMStatus
      <3>4. s[v].phase = p /\ s[v].temp = st[v].temp /\ s[v].refs = st[v].refs /\ s[v].vmref = st[v].vmref
        BY <3>2 DEF VMStatus
      <3> QED
        BY <3>1, <3>3, <3>4
    <2> QED
      BY <2>1
  <1>5. /\ nextPhaseAfterGuestPrep \in Phase
        /\ nextPhaseAfterGuestPrep \notin {"GuestPrepping", "Failed"}
        /\ "Failed" \in Phase
    BY DEF nextPhaseAfterGuestPrep, Phase
  <1>6. ASSUME NEW v \in spec.prep, n = NumVM
        PROVE  v <= n
    BY <1>0, <1>6, MigrationAssumption DEF VM
  <1> HIDE DEF s
  <1>7. ASSUME NEW v \in VM
        PROVE  Kept(v) /\ st'[v].phase \in {st[v].phase, "GuestPrepped", "GuestPrepFailed"}
    BY <1>3, <1>4 DEF Kept
  <1>8. \A v \in spec.prep : st'[v].phase = "GuestPrepped" =>
                                st[v].phase = "GuestPrepped" \/ v \in prepped'
    BY <1>0, <1>3, <1>4, <1>6
  <1>9. phase' = nextPhaseAfterGuestPrep =>
           \A v \in spec.prep : st[v].phase = "GuestPrepped" \/ v \in prepped'
    BY <1>0, <1>3, <1>5, <1>6
  <1>10. phase' \in Phase /\ st' \in [VM -> VMStatus] /\ lost' \in Nat /\ prepped' \subseteq VM
    BY <1>0, <1>3, <1>4, <1>5 DEF TypeOK
  <1>11. TypeOK'
    BY <1>0, <1>10 DEF TypeOK
  <1> QED
    BY <1>0, <1>3, <1>7, <1>8, <1>9, <1>11

\* The passes that fail before they have changed anything.
LEMMA FailEffect ==
  ASSUME TypeOK, PrismError \/ GuestPrepFailed
  PROVE  /\ phase # "Failed" /\ phase' = "Failed" /\ st' = st /\ lost' = lost
         /\ UNCHANGED <<spec, approvals, src, power, dv, vm, images, prepped>>
         /\ TypeOK'
  <1>1. /\ phase # "Failed" /\ phase' = "Failed" /\ st' = st /\ lost' = lost
        /\ UNCHANGED <<spec, approvals, src, power, dv, vm, images, prepped>>
    BY DEF PrismError, GuestPrepFailed, failMigration
  <1> QED
    BY <1>1 DEF TypeOK, Phase

\* What handlePrepareImages may make of a VM.
LEMMA PrepareCases ==
  ASSUME NEW v \in VM, NEW r \in PrepareVM(v)
  PROVE  \/ r.power = power[v] /\ r.st = st[v] /\ r.ready = FALSE
         \/ /\ power[v] # "OFF" /\ r.power \in {power[v], "STOPPING"}
            /\ r.st = [st[v] EXCEPT !.phase = "ShuttingDown"] /\ r.ready = FALSE
         \/ /\ power[v] = "OFF" /\ st[v].temp = <<>> /\ r.power = "OFF" /\ r.ready = FALSE
            /\ \E t \in SomeImages(v) :
                  r.st = [st[v] EXCEPT !.phase = "CreatingImages", !.temp = t]
         \/ /\ power[v] = "OFF" /\ st[v].temp # <<>> /\ r.power = "OFF" /\ r.ready = TRUE
            /\ r.st = [st[v] EXCEPT !.phase = "ImagesReady"]
  <1>1. CASE r = [power |-> power[v], st |-> st[v], ready |-> FALSE]
    BY <1>1
  <1>2. CASE power[v] # "OFF" /\
             \E pw \in {power[v], "STOPPING"} :
                r = [power |-> pw, st |-> [st[v] EXCEPT !.phase = "ShuttingDown"], ready |-> FALSE]
    <2> DEFINE q == [st[v] EXCEPT !.phase = "ShuttingDown"]
    <2>1. PICK pw \in {power[v], "STOPPING"} : r = [power |-> pw, st |-> q, ready |-> FALSE]
      BY <1>2
    <2> HIDE DEF q
    <2>2. r.power = pw /\ r.st = q /\ r.ready = FALSE
      BY <2>1
    <2> QED
      BY <1>2, <2>2 DEF q
  <1>3. CASE power[v] = "OFF" /\ st[v].temp = <<>> /\
             \E t \in SomeImages(v) :
                r = [power |-> "OFF",
                     st |-> [st[v] EXCEPT !.phase = "CreatingImages", !.temp = t], ready |-> FALSE]
    <2>1. PICK t \in SomeImages(v) :
                r = [power |-> "OFF",
                     st |-> [st[v] EXCEPT !.phase = "CreatingImages", !.temp = t], ready |-> FALSE]
      BY <1>3
    <2> DEFINE q == [st[v] EXCEPT !.phase = "CreatingImages", !.temp = t]
    <2>2. r = [power |-> "OFF", st |-> q, ready |-> FALSE]
      BY <2>1
    <2> HIDE DEF q
    <2>3. r.power = "OFF" /\ r.st = q /\ r.ready = FALSE
      BY <2>2
    <2> QED
      BY <1>3, <2>3 DEF q
  <1>4. CASE power[v] = "OFF" /\ st[v].temp # <<>> /\
             r = [power |-> "OFF", st |-> [st[v] EXCEPT !.phase = "ImagesReady"], ready |-> TRUE]
    BY <1>4
  <1> QED
    BY <1>1, <1>2, <1>3, <1>4 DEF PrepareVM, On

\* The same, field by field.
LEMMA PrepareFields ==
  ASSUME TypeOK, NEW v \in VM, NEW r \in PrepareVM(v)
  PROVE  /\ r.st \in VMStatus /\ r.st.refs = st[v].refs /\ r.st.vmref = st[v].vmref
         /\ r.power \in {"ON", "STOPPING", "OFF"}
         /\ r.power = power[v] \/ (power[v] # "OFF" /\ r.power = "STOPPING")
         /\ \/ r.st.temp = st[v].temp
            \/ power[v] = "OFF" /\ st[v].temp = <<>> /\ r.st.temp \in SomeImages(v)
         /\ r.ready => power[v] = "OFF" /\ st[v].temp # <<>> /\ r.st.temp = st[v].temp
  <1>1. st[v] \in VMStatus /\ power[v] \in {"ON", "STOPPING", "OFF"}
    BY DEF TypeOK
  <1>2. ASSUME NEW p \in VMPhase
        PROVE  /\ [st[v] EXCEPT !.phase = p] \in VMStatus
               /\ [st[v] EXCEPT !.phase = p].temp = st[v].temp
               /\ [st[v] EXCEPT !.phase = p].refs = st[v].refs
               /\ [st[v] EXCEPT !.phase = p].vmref = st[v].vmref
    BY <1>1 DEF VMStatus
  <1>3. ASSUME NEW t \in SomeImages(v)
        PROVE  /\ [st[v] EXCEPT !.phase = "CreatingImages", !.temp = t] \in VMStatus
               /\ [st[v] EXCEPT !.phase = "CreatingImages", !.temp = t].temp = t
               /\ [st[v] EXCEPT !.phase = "CreatingImages", !.temp = t].refs = st[v].refs
               /\ [st[v] EXCEPT !.phase = "CreatingImages", !.temp = t].vmref = st[v].vmref
    <2>1. t \in Seq(Content) /\ "CreatingImages" \in VMPhase
      BY SomeImagesType DEF VMPhase
    <2> QED
      BY <1>1, <2>1 DEF VMStatus
  <1>4. "ShuttingDown" \in VMPhase /\ "ImagesReady" \in VMPhase
    BY DEF VMPhase
  <1>5. CASE r.power = power[v] /\ r.st = st[v] /\ r.ready = FALSE
    BY <1>1, <1>5
  <1>6. CASE /\ power[v] # "OFF" /\ r.power \in {power[v], "STOPPING"}
             /\ r.st = [st[v] EXCEPT !.phase = "ShuttingDown"] /\ r.ready = FALSE
    BY <1>1, <1>2, <1>4, <1>6
  <1>7. CASE /\ power[v] = "OFF" /\ st[v].temp = <<>> /\ r.power = "OFF" /\ r.ready = FALSE
             /\ \E t \in SomeImages(v) :
                  r.st = [st[v] EXCEPT !.phase = "CreatingImages", !.temp = t]
    BY <1>1, <1>3, <1>7
  <1>8. CASE /\ power[v] = "OFF" /\ st[v].temp # <<>> /\ r.power = "OFF" /\ r.ready = TRUE
             /\ r.st = [st[v] EXCEPT !.phase = "ImagesReady"]
    BY <1>1, <1>2, <1>4, <1>8
  <1> QED
    BY <1>5, <1>6, <1>7, <1>8, PrepareCases

\* DataVolumes are created for the images c, and none is touched that is there.
Creates(c) ==
    \A v \in VM, k \in Disk :
        \/ dv'[v][k] = dv[v][k]
        \/ /\ k <= Len(c[v]) /\ dv[v][k].st = "none"
           /\ dv'[v][k] = [st |-> "importing", holds |-> c[v][k]]

\* ... and all of them are.
CreatesAll(c) == \A v \in VM, k \in Disk : k <= Len(c[v]) => dv'[v][k].st # "none"

LEMMA CreatesFields ==
  ASSUME NEW c, Creates(c)
  PROVE  \A v \in VM, k \in Disk :
            \/ dv'[v][k] = dv[v][k]
            \/ /\ dv[v][k].st = "none" /\ dv'[v][k].st = "importing"
               /\ dv'[v][k].holds = c[v][k]
  <1> SUFFICES ASSUME NEW v \in VM, NEW k \in Disk, dv'[v][k] # dv[v][k]
               PROVE  /\ dv[v][k].st = "none" /\ dv'[v][k].st = "importing"
                      /\ dv'[v][k].holds = c[v][k]
    OBVIOUS
  <1>1. dv[v][k].st = "none" /\ dv'[v][k] = [st |-> "importing", holds |-> c[v][k]]
    BY DEF Creates
  <1> QED
    BY <1>1

\* A pass that creates DataVolumes and leaves the phase with them.
LEMMA CreatePass ==
  ASSUME TypeOK, NEW n \in Upto, NEW s \in [VM -> VMStatus], NEW c \in [VM -> Seq(Content)],
         NEW p \in Phase, p # phase,
         CreateDataVolumes(n, c), Finish(n, p, Importing(s, c))
  PROVE  /\ Ends(p) /\ Creates(c)
         /\ phase' # phase => /\ CreatesAll(c) /\ n = NumVM
                              /\ \A v \in VM : /\ st'[v].phase = "ImportingDisks"
                                               /\ st'[v].temp = s[v].temp
                                               /\ st'[v].refs = Len(c[v])
                                               /\ st'[v].vmref = s[v].vmref
         /\ phase' = phase => st' = st /\ lost' = lost + 1
         /\ n = 0 => \A v \in VM, k \in Disk : dv'[v][k] = dv[v][k]
         /\ phase' \in Phase /\ st' \in [VM -> VMStatus] /\ lost' \in Nat
         /\ dv' \in [VM -> [Disk -> DataVolume]]
  <1>1. /\ dv' \in [VM -> [Disk -> DataVolume]]
        /\ \A v \in VM, k \in Disk :
               \/ dv'[v][k] = dv[v][k]
               \/ /\ v <= n /\ k <= Len(c[v]) /\ dv[v][k].st = "none"
                  /\ dv'[v][k] = [st |-> "importing", holds |-> c[v][k]]
        /\ \A v \in VM, k \in Disk : v <= n /\ k <= Len(c[v]) => dv'[v][k].st # "none"
    BY CreateEffect
  <1>2. /\ Importing(s, c) \in [VM -> VMStatus]
        /\ \A v \in VM : /\ Importing(s, c)[v].phase = "ImportingDisks"
                         /\ Importing(s, c)[v].temp = s[v].temp
                         /\ Importing(s, c)[v].refs = Len(c[v])
                         /\ Importing(s, c)[v].vmref = s[v].vmref
    BY ImportingFields
  <1>3. phase' \in Phase /\ st' \in [VM -> VMStatus] /\ lost' \in Nat
    BY <1>2, FinishType
  <1>4. \/ /\ lost' = lost + 1 /\ phase' = phase /\ st' = st /\ Lose
        \/ n = NumVM /\ phase' = p /\ st' = Importing(s, c) /\ lost' = lost
    BY DEF Finish, Lose
  <1>5. \A v \in VM : v <= NumVM /\ ~(v <= 0)
    BY MigrationAssumption DEF VM
  <1>6. Creates(c)
    BY <1>1 DEF Creates
  <1>7. phase' # phase => CreatesAll(c) /\ n = NumVM
    BY <1>1, <1>4, <1>5 DEF CreatesAll
  <1>8. Ends(p)
    BY <1>4 DEF Ends
  <1>9. n = 0 => \A v \in VM, k \in Disk : dv'[v][k] = dv[v][k]
    BY <1>1, <1>5
  <1> QED
    BY <1>1, <1>2, <1>3, <1>4, <1>6, <1>7, <1>8, <1>9

\* Either all VMs have their images and the DataVolumes are created, or VMs are
\* shut down and imaged.
LEMMA PrepareImagesEffect ==
  ASSUME TypeOK, handlePrepareImages
  PROVE  /\ phase = "PreparingImages" /\ UNCHANGED <<spec, approvals, src, vm, prepped>>
         /\ Orphaned
         /\ \A v \in VM : power'[v] = power[v] \/ (power[v] # "OFF" /\ power'[v] = "STOPPING")
         /\ \/ /\ \A v \in VM : power[v] = "OFF" /\ st[v].temp # <<>> /\ power'[v] = "OFF"
               /\ Ends("ImportingDisks") /\ Creates(temps(st))
               /\ phase' # phase => /\ CreatesAll(temps(st))
                                    /\ \A v \in VM : /\ st'[v].temp = st[v].temp
                                                     /\ st'[v].refs = Len(st[v].temp)
                                                     /\ st'[v].vmref = st[v].vmref
               /\ phase' = phase => st' = st
            \/ /\ dv' = dv /\ phase' \in {phase, "Failed"}
               /\ lost' = lost \/ (lost' = lost + 1 /\ phase' = phase)
               /\ \A v \in VM : /\ st'[v].refs = st[v].refs /\ st'[v].vmref = st[v].vmref
                                /\ \/ st'[v].temp = st[v].temp
                                   \/ power[v] = "OFF" /\ st'[v].temp \in SomeImages(v)
         /\ TypeOK'
  <1>1. PICK n \in Upto, out \in [VM -> UNION {PrepareVM(v) : v \in VM}] :
          LET s == [v \in VM |-> out[v].st]
          IN  /\ \A v \in VM : out[v] \in PrepareVM(v)
              /\ IF \A v \in VM : out[v].ready
                   THEN /\ CreateDataVolumes(n, temps(s))
                        /\ Finish(n, "ImportingDisks", Importing(s, temps(s)))
                        /\ UNCHANGED <<power, images>>
                   ELSE /\ power' = [v \in VM |-> IF v <= n THEN out[v].power ELSE power[v]]
                        /\ Finish(n, phase, s) \/ failMigration(n)
                        /\ Imaging({v \in 1 .. n : s[v].temp # st[v].temp}, {})
                        /\ UNCHANGED dv
    BY DEF handlePrepareImages
  <1> DEFINE s == [v \in VM |-> out[v].st]
  <1>2. /\ phase = "PreparingImages" /\ UNCHANGED <<spec, approvals, src, vm, prepped>>
    BY DEF handlePrepareImages
  <1>3. \A v \in VM : out[v] \in PrepareVM(v)
    BY <1>1
  <1>4. /\ s \in [VM -> VMStatus]
        /\ \A v \in VM :
             /\ s[v] = out[v].st /\ s[v].refs = st[v].refs /\ s[v].vmref = st[v].vmref
             /\ out[v].power \in {"ON", "STOPPING", "OFF"}
             /\ out[v].power = power[v] \/ (power[v] # "OFF" /\ out[v].power = "STOPPING")
             /\ \/ s[v].temp = st[v].temp
                \/ power[v] = "OFF" /\ s[v].temp \in SomeImages(v)
             /\ out[v].ready => power[v] = "OFF" /\ st[v].temp # <<>> /\ s[v].temp = st[v].temp
    BY <1>3, PrepareFields
  <1>5. power \in [VM -> {"ON", "STOPPING", "OFF"}] /\ st \in [VM -> VMStatus] /\ lost \in Nat
    BY DEF TypeOK
  <1>6. CASE \A v \in VM : out[v].ready
    <2>1. /\ CreateDataVolumes(n, temps(s))
          /\ Finish(n, "ImportingDisks", Importing(s, temps(s)))
          /\ UNCHANGED <<power, images>>
      BY <1>1, <1>6
    <2> HIDE DEF s
    <2>2. temps(s) = temps(st)
      BY <1>4, <1>5, <1>6 DEF temps
    <2>3. /\ temps(st) \in [VM -> Seq(Content)] /\ \A v \in VM : temps(st)[v] = st[v].temp
      BY <1>5, TempsType
    <2>4. "ImportingDisks" \in Phase /\ "ImportingDisks" # phase
      BY <1>2 DEF Phase
    <2>5. /\ Ends("ImportingDisks") /\ Creates(temps(st))
          /\ phase' # phase => /\ CreatesAll(temps(st))
                               /\ \A v \in VM : /\ st'[v].temp = s[v].temp
                                                /\ st'[v].refs = Len(temps(st)[v])
                                                /\ st'[v].vmref = s[v].vmref
          /\ phase' = phase => st' = st
          /\ phase' \in Phase /\ st' \in [VM -> VMStatus] /\ lost' \in Nat
          /\ dv' \in [VM -> [Disk -> DataVolume]]
      <3>1. /\ CreateDataVolumes(n, temps(st))
            /\ Finish(n, "ImportingDisks", Importing(s, temps(st)))
        BY <2>1, <2>2
      <3>2. temps(st) \in [VM -> Seq(Content)] /\ s \in [VM -> VMStatus]
        BY <1>4, <2>3
      <3> QED
        BY <2>4, <3>1, <3>2, CreatePass
    <2>6. TypeOK'
      BY <1>2, <2>1, <2>5 DEF TypeOK
    <2>7. Orphaned
      BY <2>1 DEF Orphaned
    <2> QED
      BY <1>2, <1>4, <1>6, <2>1, <2>3, <2>5, <2>6, <2>7
  <1>7. CASE ~\A v \in VM : out[v].ready
    <2>1. /\ power' = [v \in VM |-> IF v <= n THEN out[v].power ELSE power[v]]
          /\ Finish(n, phase, s) \/ failMigration(n)
          /\ Imaging({v \in 1 .. n : s[v].temp # st[v].temp}, {})
          /\ UNCHANGED dv
      BY <1>1, <1>7
    <2> HIDE DEF s
    <2>2. images' \in [VM -> [named : BOOLEAN, orphans : Nat]] /\ Orphaned
      BY <2>1, ImagingEffect
    <2>3. \/ lost' = lost + 1 /\ phase' = phase /\ st' = st
          \/ phase' = phase /\ st' = s /\ lost' = lost
          \/ phase' = "Failed" /\ st' = st /\ lost' = lost
      BY <2>1 DEF Finish, Lose, failMigration
    <2>4. power' \in [VM -> {"ON", "STOPPING", "OFF"}]
      BY <1>4, <1>5, <2>1
    <2>5. \A v \in VM : power'[v] = power[v] \/ (power[v] # "OFF" /\ power'[v] = "STOPPING")
      BY <1>4, <1>5, <2>1
    <2>6. /\ phase' \in Phase /\ st' \in [VM -> VMStatus] /\ lost' \in Nat
      <3>1. "Failed" \in Phase /\ phase \in Phase
        BY DEF Phase, TypeOK
      <3> QED
        BY <1>4, <1>5, <2>3, <3>1
    <2>7. TypeOK'
      BY <1>2, <2>1, <2>2, <2>4, <2>6 DEF TypeOK
    <2>8. \A v \in VM : /\ st'[v].refs = st[v].refs /\ st'[v].vmref = st[v].vmref
                        /\ \/ st'[v].temp = st[v].temp
                           \/ power[v] = "OFF" /\ st'[v].temp \in SomeImages(v)
      BY <1>4, <2>3
    <2> QED
      BY <1>2, <2>1, <2>2, <2>3, <2>5, <2>7, <2>8
  <1> QED
    BY <1>6, <1>7

LEMMA WarmPreSyncEffect ==
  ASSUME TypeOK, handleWarmPreSync
  PROVE  /\ phase = "WarmPreSync" /\ UNCHANGED <<spec, approvals, src, power, vm, prepped>>
         /\ Orphaned /\ Ends("WarmSyncing")
         /\ \A v \in VM, k \in Disk :
               dv'[v][k] = dv[v][k] \/ (dv[v][k].st = "none" /\ dv'[v][k].st = "importing")
         /\ phase' = phase => st' = st
         /\ phase' # phase => \A v \in VM : /\ st'[v].phase = "ImportingDisks"
                                            /\ st'[v].temp = Images(v) /\ st'[v].refs = NumDisk
                                            /\ st'[v].vmref = st[v].vmref
                                            /\ \A k \in Disk : dv'[v][k].st # "none"
         /\ TypeOK'
  <1> DEFINE s == [v \in VM |-> [st[v] EXCEPT !.temp = Images(v)]]
  <1>0. /\ phase = "WarmPreSync" /\ UNCHANGED <<spec, approvals, src, power, vm, prepped>>
        /\ Imaging(VM, {})
    BY DEF handleWarmPreSync
  <1>1. PICK n \in Upto : /\ CreateDataVolumes(n, temps(s))
                          /\ Finish(n, "WarmSyncing", Importing(s, temps(s)))
    BY DEF handleWarmPreSync
  <1>2. /\ s \in [VM -> VMStatus]
        /\ \A v \in VM : s[v].temp = Images(v) /\ s[v].vmref = st[v].vmref
    <2>1. ASSUME NEW v \in VM
          PROVE  s[v] \in VMStatus /\ s[v].temp = Images(v) /\ s[v].vmref = st[v].vmref
      <3>1. st[v] \in VMStatus /\ Images(v) \in Seq(Content)
        BY ImagesType DEF TypeOK
      <3>2. s[v] = [st[v] EXCEPT !.temp = Images(v)]
        OBVIOUS
      <3> HIDE DEF s
      <3>3. s[v] \in VMStatus
        BY <3>1, <3>2 DEF VMStatus
      <3>4. s[v].temp = Images(v) /\ s[v].vmref = st[v].vmref
        BY <3>1, <3>2 DEF VMStatus
      <3> QED
        BY <3>3, <3>4
    <2> QED
      BY <2>1
  <1> HIDE DEF s
  <1>3. /\ temps(s) \in [VM -> Seq(Content)] /\ \A v \in VM : temps(s)[v] = Images(v)
    BY <1>2, TempsType
  <1>4. "WarmSyncing" \in Phase /\ "WarmSyncing" # phase
    BY <1>0 DEF Phase
  <1>5. /\ Ends("WarmSyncing") /\ Creates(temps(s))
        /\ phase' # phase => /\ CreatesAll(temps(s))
                             /\ \A v \in VM : /\ st'[v].phase = "ImportingDisks"
                                              /\ st'[v].temp = s[v].temp
                                              /\ st'[v].refs = Len(temps(s)[v])
                                              /\ st'[v].vmref = s[v].vmref
        /\ phase' = phase => st' = st
        /\ phase' \in Phase /\ st' \in [VM -> VMStatus] /\ lost' \in Nat
        /\ dv' \in [VM -> [Disk -> DataVolume]]
    BY <1>1, <1>2, <1>3, <1>4, CreatePass
  <1>6. images' \in [VM -> [named : BOOLEAN, orphans : Nat]] /\ Orphaned
    BY <1>0, ImagingEffect
  <1>7. TypeOK'
    BY <1>0, <1>5, <1>6 DEF TypeOK
  <1>8. ASSUME NEW v \in VM, NEW k \in Disk
        PROVE  /\ dv'[v][k] = dv[v][k] \/ (dv[v][k].st = "none" /\ dv'[v][k].st = "importing")
               /\ phase' # phase => dv'[v][k].st # "none"
    <2>1. Len(temps(s)[v]) = NumDisk /\ k <= NumDisk
      BY <1>3, ImagesType, MigrationAssumption DEF Disk
    <2>2. phase' # phase => dv'[v][k].st # "none"
      BY <1>5, <2>1 DEF CreatesAll
    <2>3. CASE dv'[v][k] = [st |-> "importing", holds |-> temps(s)[v][k]] /\ dv[v][k].st = "none"
      BY <2>2, <2>3
    <2> QED
      BY <1>5, <2>2, <2>3 DEF Creates
  <1>9. \A v \in VM : Len(temps(s)[v]) = NumDisk
    BY <1>3, ImagesType
  <1> QED
    BY <1>0, <1>2, <1>5, <1>6, <1>7, <1>8, <1>9

LEMMA WarmPreSyncFailsEffect ==
  ASSUME TypeOK, WarmPreSyncFails
  PROVE  /\ phase = "WarmPreSync" /\ st' = st
         /\ UNCHANGED <<spec, approvals, src, power, dv, vm, prepped>> /\ Orphaned
         /\ Lose \/ (phase' = "Failed" /\ lost' = lost)
         /\ TypeOK'
  <1>1. PICK n \in VM : (failMigration(n - 1) \/ Lose) /\ Imaging(1 .. n, {})
    BY DEF WarmPreSyncFails
  <1>2. phase = "WarmPreSync" /\ UNCHANGED <<spec, approvals, src, power, dv, vm, prepped>>
    BY DEF WarmPreSyncFails
  <1>3. images' \in [VM -> [named : BOOLEAN, orphans : Nat]] /\ Orphaned
    BY <1>1, ImagingEffect
  <1>4. st' = st /\ (Lose \/ (phase' = "Failed" /\ lost' = lost))
    BY <1>1 DEF failMigration, Lose
  <1>5. "Failed" \in Phase /\ phase \in Phase /\ lost \in Nat
    BY DEF Phase, TypeOK
  <1>6. phase' \in Phase /\ lost' \in Nat
    BY <1>4, <1>5 DEF Lose
  <1>7. TypeOK'
    BY <1>2, <1>3, <1>4, <1>6 DEF TypeOK
  <1> QED
    BY <1>2, <1>3, <1>4, <1>7

\* All DataVolumes that the status of v counts are there.
DisksOf(v) == \A k \in 1 .. st[v].refs : dv[v][k].st = "succeeded"

LEMMA WarmSyncingEffect ==
  ASSUME TypeOK, handleWarmSyncing
  PROVE  /\ phase = "WarmSyncing"
         /\ UNCHANGED <<spec, approvals, src, power, dv, vm, images, prepped>>
         /\ \A v \in VM : Kept(v) /\ st'[v].phase \in {st[v].phase, "WarmSyncDone"}
         /\ lost' = lost \/ (lost' = lost + 1 /\ phase' = phase)
         /\ \/ phase' = phase
            \/ /\ \A v \in VM : DisksOf(v)
               /\ phase' = IF spec.pause THEN "ReadyForCutover" ELSE "WarmCutover"
         /\ TypeOK'
  <1> DEFINE p == IF Imported # VM THEN phase
                  ELSE IF spec.pause THEN "ReadyForCutover" ELSE "WarmCutover"
  <1>0. /\ phase = "WarmSyncing"
        /\ UNCHANGED <<spec, approvals, src, power, dv, vm, images, prepped>>
        /\ Finish(NumVM, p, Mark(Imported, "WarmSyncDone"))
    BY DEF handleWarmSyncing
  <1>1. "WarmSyncDone" \in VMPhase /\ p \in Phase
    BY <1>0 DEF VMPhase, Phase
  <1>2. /\ Mark(Imported, "WarmSyncDone") \in [VM -> VMStatus]
        /\ \A v \in VM : /\ Mark(Imported, "WarmSyncDone")[v].phase \in {st[v].phase, "WarmSyncDone"}
                         /\ Mark(Imported, "WarmSyncDone")[v].temp = st[v].temp
                         /\ Mark(Imported, "WarmSyncDone")[v].refs = st[v].refs
                         /\ Mark(Imported, "WarmSyncDone")[v].vmref = st[v].vmref
    BY <1>1, MarkFields
  <1>3. phase' \in Phase /\ st' \in [VM -> VMStatus] /\ lost' \in Nat
    BY <1>0, <1>1, <1>2, FinishType
  <1>4. TypeOK'
    BY <1>0, <1>3 DEF TypeOK
  <1>5. \/ lost' = lost + 1 /\ phase' = phase /\ st' = st
        \/ lost' = lost /\ phase' = p /\ st' = Mark(Imported, "WarmSyncDone")
    BY <1>0 DEF Finish, Lose
  <1>6. \A v \in VM : Kept(v) /\ st'[v].phase \in {st[v].phase, "WarmSyncDone"}
    BY <1>2, <1>5 DEF Kept
  <1>7. Imported = VM => \A v \in VM : DisksOf(v)
    BY DEF Imported, DisksOf
  <1> QED
    BY <1>0, <1>4, <1>5, <1>6, <1>7

LEMMA ReadyForCutoverEffect ==
  ASSUME TypeOK, handleReadyForCutover
  PROVE  /\ phase = "ReadyForCutover" /\ "cutover" \in approvals /\ st' = st /\ Ends("WarmCutover")
         /\ UNCHANGED <<spec, approvals, src, power, dv, vm, images, prepped>>
         /\ TypeOK'
  <1>1. /\ phase = "ReadyForCutover" /\ "cutover" \in approvals /\ st' = st /\ Ends("WarmCutover")
        /\ UNCHANGED <<spec, approvals, src, power, dv, vm, images, prepped>>
    BY DEF handleReadyForCutover, Finish, Ends, Lose
  <1>2. "WarmCutover" \in Phase /\ phase \in Phase /\ lost \in Nat
    BY DEF Phase, TypeOK
  <1>3. phase' \in Phase /\ lost' \in Nat
    BY <1>1, <1>2 DEF Ends, Lose
  <1>4. TypeOK'
    BY <1>1, <1>3 DEF TypeOK
  <1> QED
    BY <1>1, <1>4

LEMMA WarmCutoverEffect ==
  ASSUME TypeOK, handleWarmCutover
  PROVE  /\ phase = "WarmCutover" /\ UNCHANGED <<spec, approvals, src, dv, vm, images, prepped>>
         /\ \A v \in VM : power'[v] = power[v] \/ (power[v] # "OFF" /\ power'[v] = "STOPPING")
         /\ \A v \in VM : Kept(v) /\ st'[v].phase \in {st[v].phase, "ShuttingDown"}
         /\ lost' = lost \/ (lost' = lost + 1 /\ phase' = phase)
         /\ \/ phase' = phase
            \/ /\ \A v \in VM : power[v] = "OFF" /\ power'[v] = "OFF"
               /\ phase' = IF spec.finalSync THEN "WarmFinalSync" ELSE "CreatingVMs"
         /\ TypeOK'
  <1>0. /\ phase = "WarmCutover" /\ UNCHANGED <<spec, approvals, src, dv, vm, images, prepped>>
        /\ power \in [VM -> {"ON", "STOPPING", "OFF"}] /\ st \in [VM -> VMStatus]
        /\ phase \in Phase /\ lost \in Nat
    BY DEF handleWarmCutover, TypeOK
  <1>1. CASE \E seen \in SUBSET On, n \in Upto : \E ask \in SUBSET {v \in seen : v <= n} :
               /\ power' = [v \in VM |-> IF v \in ask THEN "STOPPING" ELSE power[v]]
               /\ Finish(n, phase, Mark(seen, "ShuttingDown"))
    <2>1. PICK seen \in SUBSET On, n \in Upto : \E ask \in SUBSET {v \in seen : v <= n} :
               /\ power' = [v \in VM |-> IF v \in ask THEN "STOPPING" ELSE power[v]]
               /\ Finish(n, phase, Mark(seen, "ShuttingDown"))
      BY <1>1
    <2>2. PICK ask \in SUBSET On :
               /\ power' = [v \in VM |-> IF v \in ask THEN "STOPPING" ELSE power[v]]
               /\ Finish(n, phase, Mark(seen, "ShuttingDown"))
      BY <2>1
    <2>3. "ShuttingDown" \in VMPhase
      BY DEF VMPhase
    <2>4. /\ Mark(seen, "ShuttingDown") \in [VM -> VMStatus]
          /\ \A v \in VM : /\ Mark(seen, "ShuttingDown")[v].phase \in {st[v].phase, "ShuttingDown"}
                           /\ Mark(seen, "ShuttingDown")[v].temp = st[v].temp
                           /\ Mark(seen, "ShuttingDown")[v].refs = st[v].refs
                           /\ Mark(seen, "ShuttingDown")[v].vmref = st[v].vmref
      BY <2>3, MarkFields
    <2>5. phase' \in Phase /\ st' \in [VM -> VMStatus] /\ lost' \in Nat
      BY <1>0, <2>2, <2>4, FinishType
    <2>6. power' \in [VM -> {"ON", "STOPPING", "OFF"}]
      BY <1>0, <2>2
    <2>7. \A v \in VM : power'[v] = power[v] \/ (power[v] # "OFF" /\ power'[v] = "STOPPING")
      BY <1>0, <2>2 DEF On
    <2>8. TypeOK'
      BY <1>0, <2>5, <2>6 DEF TypeOK
    <2>9. /\ phase' = phase /\ (lost' = lost \/ lost' = lost + 1)
          /\ st' = st \/ st' = Mark(seen, "ShuttingDown")
      BY <2>2 DEF Finish, Lose
    <2>10. \A v \in VM : Kept(v) /\ st'[v].phase \in {st[v].phase, "ShuttingDown"}
      BY <2>4, <2>9 DEF Kept
    <2> QED
      BY <1>0, <2>7, <2>8, <2>9, <2>10
  <1>2. CASE /\ On = {} /\ UNCHANGED power
             /\ Finish(NumVM, IF spec.finalSync THEN "WarmFinalSync" ELSE "CreatingVMs", st)
    <2> DEFINE p == IF spec.finalSync THEN "WarmFinalSync" ELSE "CreatingVMs"
    <2>1. p \in Phase
      BY DEF Phase
    <2>2. phase' \in Phase /\ st' \in [VM -> VMStatus] /\ lost' \in Nat
      BY <1>0, <1>2, <2>1, FinishType
    <2>3. TypeOK'
      BY <1>0, <1>2, <2>2 DEF TypeOK
    <2>4. \A v \in VM : power[v] = "OFF" /\ power'[v] = "OFF"
      BY <1>2 DEF On
    <2>5. /\ st' = st
          /\ (lost' = lost + 1 /\ phase' = phase) \/ (lost' = lost /\ phase' = p)
      BY <1>2 DEF Finish, Lose
    <2> QED
      BY <1>0, <1>2, <2>3, <2>4, <2>5 DEF Kept
  <1> QED
    BY <1>1, <1>2 DEF handleWarmCutover

LEMMA FinalSyncStageEffect ==
  ASSUME TypeOK, FinalSyncStage
  PROVE  /\ phase = "WarmFinalSync" /\ UNCHANGED <<spec, approvals, src, power, vm, prepped>>
         /\ Orphaned /\ phase' \in {phase, "Failed"}
         /\ lost' = lost \/ (lost' = lost + 1 /\ phase' = phase)
         /\ \A v \in VM, k \in Disk :
               \/ dv'[v][k] = dv[v][k]
               \/ /\ st[v].phase # "FinalSyncImaged"
                  /\ dv[v][k].st # "none" /\ dv'[v][k].st = "deleting"
         /\ \A v \in VM :
               \/ st'[v] = st[v]
               \/ /\ st'[v].phase = "FinalSyncImaged" /\ st'[v].temp = Images(v)
                  /\ st'[v].refs = st[v].refs /\ st'[v].vmref = st[v].vmref
                  /\ \A k \in Disk : k <= st[v].refs => dv'[v][k].st \in {"none", "deleting"}
         /\ TypeOK'
  <1> DEFINE stage == {v \in VM : st[v].phase # "FinalSyncImaged"}
             gone(v, k, n) == v \in stage /\ v <= n /\ k <= st[v].refs /\ dv[v][k].st # "none"
             s == [v \in VM |-> IF v \in stage
                        THEN [st[v] EXCEPT !.phase = "FinalSyncImaged", !.temp = Images(v)]
                        ELSE st[v]]
  <1>0. /\ phase = "WarmFinalSync" /\ UNCHANGED <<spec, approvals, src, power, vm, prepped>>
        /\ st \in [VM -> VMStatus] /\ dv \in [VM -> [Disk -> DataVolume]]
        /\ phase \in Phase /\ lost \in Nat
    BY DEF FinalSyncStage, TypeOK
  <1>1. PICK n \in Upto :
           /\ dv' = [v \in VM |-> [k \in Disk |-> IF gone(v, k, n)
                                     THEN [dv[v][k] EXCEPT !.st = "deleting"] ELSE dv[v][k]]]
           /\ Finish(n, phase, s) \/ failMigration(n)
           /\ \E more \in IF phase' # "Failed" /\ lost' = lost THEN {n} ELSE {n, n + 1},
                 left \in IF "delete" \in Faults THEN SUBSET VM ELSE {{}} :
                 Imaging(stage \cap 1 .. more, left \cup {n + 1})
    BY DEF FinalSyncStage
  <1>2. /\ s \in [VM -> VMStatus]
        /\ \A v \in VM : \/ s[v] = st[v] /\ v \notin stage
                         \/ /\ s[v].phase = "FinalSyncImaged" /\ s[v].temp = Images(v)
                            /\ s[v].refs = st[v].refs /\ s[v].vmref = st[v].vmref /\ v \in stage
    <2>1. ASSUME NEW v \in VM
          PROVE  /\ s[v] \in VMStatus
                 /\ \/ s[v] = st[v] /\ v \notin stage
                    \/ /\ s[v].phase = "FinalSyncImaged" /\ s[v].temp = Images(v)
                       /\ s[v].refs = st[v].refs /\ s[v].vmref = st[v].vmref /\ v \in stage
      <3>1. st[v] \in VMStatus /\ Images(v) \in Seq(Content) /\ "FinalSyncImaged" \in VMPhase
        BY <1>0, ImagesType DEF VMPhase
      <3>2. [st[v] EXCEPT !.phase = "FinalSyncImaged", !.temp = Images(v)] \in VMStatus
        BY <3>1 DEF VMStatus
      <3>3. CASE v \in stage
        <4>1. s[v] = [st[v] EXCEPT !.phase = "FinalSyncImaged", !.temp = Images(v)]
          BY <3>3
        <4> HIDE DEF s, stage
        <4>2. /\ s[v].phase = "FinalSyncImaged" /\ s[v].temp = Images(v)
              /\ s[v].refs = st[v].refs /\ s[v].vmref = st[v].vmref
          BY <3>1, <4>1 DEF VMStatus
        <4> QED
          BY <3>2, <3>3, <4>1, <4>2
      <3>4. CASE v \notin stage
        BY <3>1, <3>4
      <3> QED
        BY <3>3, <3>4
    <2> QED
      BY <2>1
  <1>3. dv' \in [VM -> [Disk -> DataVolume]]
    <2>1. \A v \in VM, k \in Disk : [dv[v][k] EXCEPT !.st = "deleting"] \in DataVolume
      BY <1>0 DEF DataVolume
    <2> QED
      BY <1>0, <1>1, <2>1
  <1>4. ASSUME NEW v \in VM, NEW k \in Disk
        PROVE  \/ dv'[v][k] = dv[v][k] /\ ~gone(v, k, n)
               \/ dv'[v][k].st = "deleting" /\ gone(v, k, n)
    <2>1. [dv[v][k] EXCEPT !.st = "deleting"].st = "deleting"
      BY <1>0 DEF DataVolume
    <2> QED
      BY <1>1, <2>1
  <1> HIDE DEF s
  <1>7. \/ lost' = lost + 1 /\ phase' = phase /\ st' = st
        \/ lost' = lost /\ phase' = phase /\ st' = s /\ n = NumVM
        \/ lost' = lost /\ phase' = "Failed" /\ st' = st
    BY <1>1 DEF Finish, Lose, failMigration
  <1>6. images' \in [VM -> [named : BOOLEAN, orphans : Nat]] /\ Orphaned
    <2>1. PICK more \in IF phase' # "Failed" /\ lost' = lost THEN {n} ELSE {n, n + 1},
               left \in IF "delete" \in Faults THEN SUBSET VM ELSE {{}} :
             Imaging(stage \cap 1 .. more, left \cup {n + 1})
      BY <1>1
    <2> HIDE DEF stage
    <2>2. /\ images' \in [VM -> [named : BOOLEAN, orphans : Nat]]
          /\ \A v \in VM :
               \/ images'[v] = images[v]
               \/ /\ v \in stage \cap 1 .. more /\ phase' # "Failed" /\ lost' = lost
                  /\ images'[v].orphans = images[v].orphans
               \/ /\ phase' = "Failed" \/ lost' # lost
                  /\ images'[v].orphans = images[v].orphans + 1
               \/ /\ v \in stage \cap 1 .. more /\ v \in left \cup {n + 1}
                  /\ phase' # "Failed" /\ lost' = lost
                  /\ images'[v].orphans = images[v].orphans + 1
      BY <2>1, ImagingLeft
    <2>3. ASSUME NEW v \in VM, v \in stage, v \in left \cup {n + 1},
                 phase' # "Failed", lost' = lost
          PROVE  /\ "delete" \in Faults /\ phase' = phase
                 /\ st[v].phase # "FinalSyncImaged" /\ st'[v].phase = "FinalSyncImaged"
      <3>1. phase' = phase /\ st' = s /\ n = NumVM
        BY <1>0, <1>7, <2>3
      <3>2. v # n + 1
        BY <3>1, MigrationAssumption DEF VM
      <3>3. "delete" \in Faults
        BY <2>1, <2>3, <3>2
      <3>4. st[v].phase # "FinalSyncImaged"
        BY <2>3 DEF stage
      <3> QED
        BY <1>2, <2>3, <3>1, <3>3, <3>4
    <2> QED
      BY <1>0, <2>2, <2>3 DEF Orphaned
  <1>8. "Failed" \in Phase
    BY DEF Phase
  <1>9. phase' \in Phase /\ st' \in [VM -> VMStatus] /\ lost' \in Nat
    BY <1>0, <1>2, <1>7, <1>8
  <1>10. TypeOK'
    BY <1>0, <1>3, <1>6, <1>9 DEF TypeOK
  <1>11. \A v \in VM : v <= NumVM
    BY MigrationAssumption DEF VM
  <1>12. ASSUME NEW v \in VM
         PROVE  \/ st'[v] = st[v]
                \/ /\ st'[v].phase = "FinalSyncImaged" /\ st'[v].temp = Images(v)
                   /\ st'[v].refs = st[v].refs /\ st'[v].vmref = st[v].vmref
                   /\ \A k \in Disk : k <= st[v].refs => dv'[v][k].st \in {"none", "deleting"}
    BY <1>2, <1>4, <1>7, <1>11
  <1>13. \A v \in VM, k \in Disk :
               \/ dv'[v][k] = dv[v][k]
               \/ /\ st[v].phase # "FinalSyncImaged"
                  /\ dv[v][k].st # "none" /\ dv'[v][k].st = "deleting"
    BY <1>4
  <1> QED
    BY <1>0, <1>6, <1>7, <1>10, <1>12, <1>13

LEMMA FinalSyncCreateEffect ==
  ASSUME TypeOK, FinalSyncCreate
  PROVE  /\ phase = "WarmFinalSync"
         /\ UNCHANGED <<spec, approvals, src, power, vm, images, prepped>>
         /\ \A v \in VM : /\ st[v].phase = "FinalSyncImaged"
                          /\ \A k \in 1 .. st[v].refs : dv[v][k].st = "none"
         /\ Ends("ImportingDisks") /\ Creates(temps(st))
         /\ phase' # phase => /\ CreatesAll(temps(st))
                              /\ \A v \in VM : /\ st'[v].phase = "ImportingDisks"
                                               /\ st'[v].temp = st[v].temp
                                               /\ st'[v].refs = Len(st[v].temp)
                                               /\ st'[v].vmref = st[v].vmref
         /\ phase' = phase => st' = st
         /\ phase' = phase /\ "final_sync" \notin Faults =>
               \A v \in VM, k \in Disk : dv'[v][k] = dv[v][k]
         /\ TypeOK'
  <1>0. /\ phase = "WarmFinalSync"
        /\ UNCHANGED <<spec, approvals, src, power, vm, images, prepped>>
        /\ \A v \in VM : /\ st[v].phase = "FinalSyncImaged"
                         /\ \A k \in 1 .. st[v].refs : dv[v][k].st = "none"
    BY DEF FinalSyncCreate
  <1>1. PICK n \in Upto :
           /\ n \in {0, NumVM} \/ "final_sync" \in Faults
           /\ CreateDataVolumes(n, temps(st))
           /\ Finish(n, "ImportingDisks", Importing(st, temps(st)))
           /\ n > 0 /\ "final_sync" \notin Faults => lost' = lost
    BY DEF FinalSyncCreate
  <1>2. st \in [VM -> VMStatus] /\ lost \in Nat
    BY DEF TypeOK
  <1>3. temps(st) \in [VM -> Seq(Content)] /\ \A v \in VM : temps(st)[v] = st[v].temp
    BY <1>2, TempsType
  <1>4. "ImportingDisks" \in Phase /\ "ImportingDisks" # phase
    BY <1>0 DEF Phase
  <1>5. /\ Ends("ImportingDisks") /\ Creates(temps(st))
        /\ phase' # phase => /\ CreatesAll(temps(st))
                             /\ \A v \in VM : /\ st'[v].phase = "ImportingDisks"
                                              /\ st'[v].temp = st[v].temp
                                              /\ st'[v].refs = Len(temps(st)[v])
                                              /\ st'[v].vmref = st[v].vmref
        /\ phase' = phase => st' = st /\ lost' = lost + 1
        /\ n = 0 => \A v \in VM, k \in Disk : dv'[v][k] = dv[v][k]
        /\ phase' \in Phase /\ st' \in [VM -> VMStatus] /\ lost' \in Nat
        /\ dv' \in [VM -> [Disk -> DataVolume]]
    BY <1>1, <1>2, <1>3, <1>4, CreatePass
  <1>6. TypeOK'
    BY <1>0, <1>5 DEF TypeOK
  <1>7. n = 0 \/ n > 0
    BY Uptos
  <1>8. phase' = phase /\ "final_sync" \notin Faults =>
           \A v \in VM, k \in Disk : dv'[v][k] = dv[v][k]
    BY <1>1, <1>2, <1>5, <1>7
  <1> QED
    BY <1>0, <1>3, <1>5, <1>6, <1>8

LEMMA WaitImportEffect ==
  ASSUME TypeOK, handleWaitImport
  PROVE  /\ phase = "ImportingDisks"
         /\ UNCHANGED <<spec, approvals, src, power, dv, vm, images, prepped>>
         /\ \A v \in VM : Kept(v)
         /\ lost' = lost \/ (lost' = lost + 1 /\ phase' = phase)
         /\ phase' = phase \/ (phase' = "CreatingVMs" /\ \A v \in VM : DisksOf(v))
         /\ TypeOK'
  <1> DEFINE p == IF Imported = VM THEN "CreatingVMs" ELSE phase
  <1>0. /\ phase = "ImportingDisks"
        /\ UNCHANGED <<spec, approvals, src, power, dv, vm, images, prepped>>
        /\ Finish(NumVM, p, Mark(Imported, "ReadyForVM"))
    BY DEF handleWaitImport
  <1>1. "ReadyForVM" \in VMPhase /\ p \in Phase
    BY <1>0 DEF VMPhase, Phase
  <1>2. /\ Mark(Imported, "ReadyForVM") \in [VM -> VMStatus]
        /\ \A v \in VM : /\ Mark(Imported, "ReadyForVM")[v].temp = st[v].temp
                         /\ Mark(Imported, "ReadyForVM")[v].refs = st[v].refs
                         /\ Mark(Imported, "ReadyForVM")[v].vmref = st[v].vmref
    BY <1>1, MarkFields
  <1>3. phase' \in Phase /\ st' \in [VM -> VMStatus] /\ lost' \in Nat
    BY <1>0, <1>1, <1>2, FinishType
  <1>4. TypeOK'
    BY <1>0, <1>3 DEF TypeOK
  <1>5. \/ lost' = lost + 1 /\ phase' = phase /\ st' = st
        \/ lost' = lost /\ phase' = p /\ st' = Mark(Imported, "ReadyForVM")
    BY <1>0 DEF Finish, Lose
  <1>6. \A v \in VM : Kept(v)
    BY <1>2, <1>5 DEF Kept
  <1>7. Imported = VM => \A v \in VM : DisksOf(v)
    BY DEF Imported, DisksOf
  <1> QED
    BY <1>0, <1>4, <1>5, <1>6, <1>7

LEMMA CreateVMsEffect ==
  ASSUME TypeOK, handleCreateVMs
  PROVE  /\ phase = "CreatingVMs" /\ UNCHANGED <<spec, approvals, src, power, dv, images, prepped>>
         /\ Ends(IF hasTestTarget THEN "TestRunning" ELSE "Completed")
         /\ phase' = phase => st' = st
         /\ \A v \in VM : /\ st'[v].temp = st[v].temp /\ st'[v].refs = st[v].refs
                          /\ vm'[v] = vm[v] \/ (~vm[v].made /\ vm'[v] = buildVirtualMachine(v))
                          /\ (st[v].vmref => st'[v].vmref) /\ (st'[v].vmref => st[v].vmref \/ vm'[v].made)
                          /\ phase' # phase /\ "prism_create" \notin Faults =>
                                st'[v].vmref /\ vm'[v].made
         /\ TypeOK'
  <1> DEFINE p == IF hasTestTarget THEN "TestRunning" ELSE "Completed"
  <1>0. /\ phase = "CreatingVMs" /\ UNCHANGED <<spec, approvals, src, power, dv, images, prepped>>
        /\ st \in [VM -> VMStatus] /\ vm \in [VM -> VirtualMachine]
        /\ phase \in Phase /\ lost \in Nat
    BY DEF handleCreateVMs, TypeOK
  <1>1. PICK n \in Upto, skip \in IF "prism_create" \in Faults THEN SUBSET VM ELSE {{}} :
          /\ vm' = [v \in VM |-> IF v <= n /\ v \notin skip /\ ~vm[v].made
                                   THEN buildVirtualMachine(v) ELSE vm[v]]
          /\ Finish(n, p, [v \in VM |-> IF v \in skip THEN st[v]
                        ELSE [st[v] EXCEPT !.phase = "VMCreated", !.vmref = TRUE]])
    BY DEF handleCreateVMs
  <1> DEFINE s == [v \in VM |-> IF v \in skip THEN st[v]
                        ELSE [st[v] EXCEPT !.phase = "VMCreated", !.vmref = TRUE]]
  <1>2. /\ s \in [VM -> VMStatus]
        /\ \A v \in VM : /\ s[v].temp = st[v].temp /\ s[v].refs = st[v].refs
                         /\ s[v].vmref = (v \notin skip \/ st[v].vmref)
    <2>1. ASSUME NEW v \in VM
          PROVE  /\ s[v] \in VMStatus /\ s[v].temp = st[v].temp /\ s[v].refs = st[v].refs
                 /\ s[v].vmref = (v \notin skip \/ st[v].vmref)
      <3>1. st[v] \in VMStatus /\ "VMCreated" \in VMPhase /\ st[v].vmref \in BOOLEAN
        BY <1>0 DEF VMPhase, VMStatus
      <3>2. CASE v \in skip
        BY <3>1, <3>2
      <3>3. CASE v \notin skip
        <4>1. s[v] = [st[v] EXCEPT !.phase = "VMCreated", !.vmref = TRUE]
          BY <3>3
        <4> HIDE DEF s
        <4>2. s[v] \in VMStatus
          BY <3>1, <4>1 DEF VMStatus
        <4>3. s[v].temp = st[v].temp /\ s[v].refs = st[v].refs /\ s[v].vmref = TRUE
          BY <3>1, <4>1 DEF VMStatus
        <4> QED
          BY <3>3, <4>2, <4>3
      <3> QED
        BY <3>2, <3>3
    <2> QED
      BY <2>1
  <1>3. \A v \in VM : buildVirtualMachine(v) \in VirtualMachine /\ buildVirtualMachine(v).made = TRUE
    <2>1. ASSUME NEW v \in VM, NEW x \in {"test", "prod"}
          PROVE  LET r == [made |-> TRUE, running |-> FALSE, vmi |-> "none", net |-> x]
                 IN  r \in VirtualMachine /\ r.made = TRUE
      BY DEF VirtualMachine
    <2> QED
      BY <2>1 DEF buildVirtualMachine
  <1>4. vm' \in [VM -> VirtualMachine]
    BY <1>0, <1>1, <1>3
  <1> HIDE DEF s
  <1>5. \/ lost' = lost + 1 /\ lost < MaxLost /\ phase' = phase /\ st' = st
        \/ lost' = lost /\ phase' = p /\ st' = s /\ n = NumVM
    BY <1>1 DEF Finish, Lose, s
  <1>6. p \in Phase /\ p # phase
    BY <1>0 DEF Phase
  <1>7. phase' \in Phase /\ st' \in [VM -> VMStatus] /\ lost' \in Nat
    BY <1>0, <1>2, <1>5, <1>6
  <1>8. TypeOK'
    BY <1>0, <1>4, <1>7 DEF TypeOK
  <1>9. Ends(p)
    BY <1>5 DEF Ends, Lose
  <1>10. ASSUME NEW v \in VM
         PROVE  /\ st'[v].temp = st[v].temp /\ st'[v].refs = st[v].refs
                /\ vm'[v] = vm[v] \/ (~vm[v].made /\ vm'[v] = buildVirtualMachine(v))
                /\ (st[v].vmref => st'[v].vmref) /\ (st'[v].vmref => st[v].vmref \/ vm'[v].made)
                /\ phase' # phase /\ "prism_create" \notin Faults => st'[v].vmref /\ vm'[v].made
    <2>1. v <= NumVM
      BY MigrationAssumption DEF VM
    <2>2. vm'[v] = IF v <= n /\ v \notin skip /\ ~vm[v].made THEN buildVirtualMachine(v) ELSE vm[v]
      BY <1>1
    <2>3. st'[v].temp = st[v].temp /\ st'[v].refs = st[v].refs
      BY <1>2, <1>5
    <2>4. lost' = lost /\ v \notin skip => vm'[v].made
      BY <1>3, <1>5, <2>1, <2>2, <1>0
    <2>5. (st[v].vmref => st'[v].vmref) /\ (st'[v].vmref => st[v].vmref \/ vm'[v].made)
      BY <1>2, <1>5, <2>4, Zenon
    <2>6. "prism_create" \notin Faults => v \notin skip
      OBVIOUS
    <2> QED
      BY <1>2, <1>5, <1>6, <2>2, <2>3, <2>4, <2>5, <2>6
  <1>11. phase' = phase => st' = st
    BY <1>5, <1>6
  <1> HIDE DEF p
  <1>12. Ends(IF hasTestTarget THEN "TestRunning" ELSE "Completed")
    BY <1>9 DEF p
  <1> QED
    BY <1>0, <1>8, <1>10, <1>11, <1>12

\* The updates of the VirtualMachines.
LEMMA SetRunning ==
  ASSUME NEW m \in VirtualMachine, NEW b \in BOOLEAN
  PROVE  /\ [m EXCEPT !.running = b] \in VirtualMachine
         /\ [m EXCEPT !.running = b].made = m.made /\ [m EXCEPT !.running = b].net = m.net
         /\ [m EXCEPT !.running = b].vmi = m.vmi /\ [m EXCEPT !.running = b].running = b
  BY DEF VirtualMachine

LEMMA SetInstance ==
  ASSUME NEW m \in VirtualMachine, NEW i \in {"none", "test", "prod"}
  PROVE  /\ [m EXCEPT !.vmi = i] \in VirtualMachine
         /\ [m EXCEPT !.vmi = i].made = m.made /\ [m EXCEPT !.vmi = i].net = m.net
         /\ [m EXCEPT !.vmi = i].vmi = i /\ [m EXCEPT !.vmi = i].running = m.running
  BY DEF VirtualMachine

LEMMA SetSwitched ==
  ASSUME NEW m \in VirtualMachine
  PROVE  /\ [m EXCEPT !.net = "prod", !.running = TRUE] \in VirtualMachine
         /\ [m EXCEPT !.net = "prod", !.running = TRUE].made = m.made
         /\ [m EXCEPT !.net = "prod", !.running = TRUE].net = "prod"
         /\ [m EXCEPT !.net = "prod", !.running = TRUE].vmi = m.vmi
         /\ [m EXCEPT !.net = "prod", !.running = TRUE].running = TRUE
  BY DEF VirtualMachine

LEMMA TestRunningEffect ==
  ASSUME TypeOK, handleTestRunning
  PROVE  /\ phase = "TestRunning" /\ UNCHANGED <<spec, approvals, src, power, dv, images, prepped>>
         /\ st' = st
         /\ lost' = lost \/ (lost' = lost + 1 /\ phase' = phase)
         /\ phase' = phase \/ (phase' = "TestPending" /\ "test" \in approvals)
         /\ \A v \in VM : \/ vm'[v] = vm[v]
                          \/ /\ st[v].vmref /\ vm'[v].made = vm[v].made
                             /\ vm'[v].net = vm[v].net /\ vm'[v].vmi = vm[v].vmi
         /\ TypeOK'
  <1>0. /\ phase = "TestRunning" /\ UNCHANGED <<spec, approvals, src, power, dv, images, prepped>>
        /\ vm \in [VM -> VirtualMachine] /\ phase \in Phase /\ lost \in Nat /\ st \in [VM -> VMStatus]
    BY DEF handleTestRunning, TypeOK
  <1>1. /\ st' = st
        /\ \/ lost' = lost /\ phase' = phase
           \/ lost' = lost + 1 /\ phase' = phase
           \/ lost' = lost /\ phase' = "TestPending" /\ "test" \in approvals
    BY DEF handleTestRunning, Finish, Lose
  <1>2. PICK ok \in SUBSET Known :
          vm' = [v \in VM |-> IF v \in ok THEN [vm[v] EXCEPT !.running = TRUE] ELSE vm[v]]
    BY DEF handleTestRunning
  <1>3. \A v \in VM : /\ [vm[v] EXCEPT !.running = TRUE] \in VirtualMachine
                      /\ [vm[v] EXCEPT !.running = TRUE].made = vm[v].made
                      /\ [vm[v] EXCEPT !.running = TRUE].net = vm[v].net
                      /\ [vm[v] EXCEPT !.running = TRUE].vmi = vm[v].vmi
    BY <1>0, SetRunning
  <1>4. vm' \in [VM -> VirtualMachine]
    BY <1>0, <1>2, <1>3
  <1>5. \A v \in VM : \/ vm'[v] = vm[v]
                      \/ /\ st[v].vmref /\ vm'[v].made = vm[v].made
                         /\ vm'[v].net = vm[v].net /\ vm'[v].vmi = vm[v].vmi
    BY <1>2, <1>3 DEF Known
  <1>6. "TestPending" \in Phase
    BY DEF Phase
  <1>7. phase' \in Phase /\ lost' \in Nat
    BY <1>0, <1>1, <1>6
  <1>8. TypeOK'
    BY <1>0, <1>1, <1>4, <1>7 DEF TypeOK
  <1> QED
    BY <1>0, <1>1, <1>5, <1>8

LEMMA TestPendingEffect ==
  ASSUME TypeOK, handleTestPending
  PROVE  /\ phase = "TestPending" /\ UNCHANGED <<spec, approvals, src, power, dv, images, prepped>>
         /\ st' = st
         /\ lost' = lost \/ (lost' = lost + 1 /\ phase' = phase)
         /\ \/ phase' = phase
            \/ phase' = "SwitchingNetwork" /\ vm' = vm
         /\ \A v \in VM : \/ vm'[v] = vm[v]
                          \/ /\ vm'[v].made = vm[v].made /\ ~vm'[v].running
                             /\ vm'[v].net = vm[v].net /\ vm'[v].vmi = vm[v].vmi
         /\ TypeOK'
  <1>0. /\ phase = "TestPending" /\ UNCHANGED <<spec, approvals, src, power, dv, images, prepped>>
        /\ vm \in [VM -> VirtualMachine] /\ phase \in Phase /\ lost \in Nat /\ st \in [VM -> VMStatus]
    BY DEF handleTestPending, TypeOK
  <1>1. PICK noVM \in IF "hidden" \in Faults THEN SUBSET VM ELSE {{}},
             noVMI \in IF "forbidden" \in Faults THEN {VM}
                       ELSE IF "hidden" \in Faults THEN SUBSET VM ELSE {{}} :
          IF \A v \in Known : Stopped(v, noVM, noVMI)
            THEN Finish(NumVM, "SwitchingNetwork", st) /\ UNCHANGED vm
            ELSE /\ \E ok \in SUBSET (Known \ noVM) :
                       vm' = [v \in VM |-> IF v \in ok THEN [vm[v] EXCEPT !.running = FALSE]
                                                       ELSE vm[v]]
                 /\ UNCHANGED <<phase, st, lost>>
    BY DEF handleTestPending
  <1>2. \A v \in VM : /\ [vm[v] EXCEPT !.running = FALSE] \in VirtualMachine
                      /\ [vm[v] EXCEPT !.running = FALSE].made = vm[v].made
                      /\ [vm[v] EXCEPT !.running = FALSE].net = vm[v].net
                      /\ [vm[v] EXCEPT !.running = FALSE].vmi = vm[v].vmi
                      /\ [vm[v] EXCEPT !.running = FALSE].running = FALSE
    BY <1>0, SetRunning
  <1>3. "SwitchingNetwork" \in Phase
    BY DEF Phase
  <1>4. CASE \A v \in Known : Stopped(v, noVM, noVMI)
    <2>1. Finish(NumVM, "SwitchingNetwork", st) /\ vm' = vm
      BY <1>1, <1>4
    <2>2. /\ st' = st
          /\ \/ lost' = lost + 1 /\ phase' = phase
             \/ lost' = lost /\ phase' = "SwitchingNetwork"
      BY <2>1 DEF Finish, Lose
    <2>4. phase' \in Phase /\ lost' \in Nat
      BY <1>0, <1>3, <2>2
    <2>5. TypeOK'
      BY <1>0, <2>1, <2>2, <2>4 DEF TypeOK
    <2> QED
      BY <1>0, <2>1, <2>2, <2>5
  <1>5. CASE ~(\A v \in Known : Stopped(v, noVM, noVMI))
    <2>1. /\ UNCHANGED <<phase, st, lost>>
          /\ \E ok \in SUBSET (Known \ noVM) :
                       vm' = [v \in VM |-> IF v \in ok THEN [vm[v] EXCEPT !.running = FALSE]
                                                       ELSE vm[v]]
      BY <1>1, <1>5
    <2>2. PICK ok : vm' = [v \in VM |-> IF v \in ok THEN [vm[v] EXCEPT !.running = FALSE]
                                                       ELSE vm[v]]
      BY <2>1
    <2>3. vm' \in [VM -> VirtualMachine]
      BY <1>0, <1>2, <2>2
    <2>4. \A v \in VM : \/ vm'[v] = vm[v]
                        \/ /\ vm'[v].made = vm[v].made /\ ~vm'[v].running
                           /\ vm'[v].net = vm[v].net /\ vm'[v].vmi = vm[v].vmi
      BY <1>2, <2>2
    <2>5. TypeOK'
      BY <1>0, <2>1, <2>3 DEF TypeOK
    <2> QED
      BY <1>0, <2>1, <2>4, <2>5
  <1> QED
    BY <1>4, <1>5

LEMMA SwitchingEffect ==
  ASSUME TypeOK, handleSwitchingNetwork
  PROVE  /\ phase = "SwitchingNetwork"
         /\ UNCHANGED <<spec, approvals, src, power, dv, images, prepped>>
         /\ st' = st /\ phase' \in {phase, "Completed", "Failed"}
         /\ lost' = lost \/ (lost' = lost + 1 /\ phase' = phase)
         /\ \A v \in VM : \/ vm'[v] = vm[v]
                          \/ /\ st[v].vmref /\ vm'[v].made = vm[v].made
                             /\ vm'[v].net = "prod" /\ vm'[v].running /\ vm'[v].vmi = vm[v].vmi
         /\ TypeOK'
  <1>0. /\ phase = "SwitchingNetwork"
        /\ UNCHANGED <<spec, approvals, src, power, dv, images, prepped>>
        /\ vm \in [VM -> VirtualMachine] /\ phase \in Phase /\ lost \in Nat /\ st \in [VM -> VMStatus]
    BY DEF handleSwitchingNetwork, TypeOK
  <1>1. PICK n \in Upto :
          /\ vm' = [v \in VM |-> IF v <= n /\ v \in Known
                                   THEN [vm[v] EXCEPT !.net = "prod", !.running = TRUE]
                                   ELSE vm[v]]
          /\ Finish(n, "Completed", st) \/ failMigration(n)
    BY DEF handleSwitchingNetwork
  <1>2. \A v \in VM : /\ [vm[v] EXCEPT !.net = "prod", !.running = TRUE] \in VirtualMachine
                      /\ [vm[v] EXCEPT !.net = "prod", !.running = TRUE].made = vm[v].made
                      /\ [vm[v] EXCEPT !.net = "prod", !.running = TRUE].net = "prod"
                      /\ [vm[v] EXCEPT !.net = "prod", !.running = TRUE].vmi = vm[v].vmi
                      /\ [vm[v] EXCEPT !.net = "prod", !.running = TRUE].running = TRUE
    BY <1>0, SetSwitched
  <1>3. vm' \in [VM -> VirtualMachine]
    BY <1>0, <1>1, <1>2
  <1>4. \A v \in VM : \/ vm'[v] = vm[v]
                      \/ /\ st[v].vmref /\ vm'[v].made = vm[v].made
                         /\ vm'[v].net = "prod" /\ vm'[v].running /\ vm'[v].vmi = vm[v].vmi
    BY <1>1, <1>2 DEF Known
  <1>5. /\ st' = st
        /\ \/ lost' = lost + 1 /\ phase' = phase
           \/ lost' = lost /\ phase' \in {"Completed", "Failed"}
    BY <1>1 DEF Finish, Lose, failMigration
  <1>6. "Completed" \in Phase /\ "Failed" \in Phase
    BY DEF Phase
  <1>7. phase' \in Phase /\ lost' \in Nat
    BY <1>0, <1>5, <1>6
  <1>8. TypeOK'
    BY <1>0, <1>3, <1>5, <1>7 DEF TypeOK
  <1> QED
    BY <1>0, <1>4, <1>5, <1>8

\* What the environment may do in one step: approve, finish a shutdown, write to a
\* disk of a VM that is not off, import or remove a DataVolume, and start or stop an
\* instance.
LEMMA EnvironmentEffect ==
  ASSUME TypeOK, Environment
  PROVE  /\ UNCHANGED <<spec, phase, st, lost, images, prepped>>
         /\ approvals \subseteq approvals'
         /\ \A v \in VM : power'[v] = power[v] \/ (power[v] = "STOPPING" /\ power'[v] = "OFF")
         /\ \A v \in VM : power[v] = "OFF" => src'[v] = src[v]
         /\ \A v \in VM, k \in Disk :
               \/ dv'[v][k] = dv[v][k]
               \/ /\ dv[v][k].st = "importing" /\ dv'[v][k].st = "succeeded"
                  /\ dv'[v][k].holds = dv[v][k].holds
               \/ dv[v][k].st = "deleting" /\ dv'[v][k].st = "none"
         /\ \A v \in VM :
               \/ vm'[v] = vm[v]
               \/ /\ vm'[v].made = vm[v].made /\ vm'[v].running = vm[v].running
                  /\ vm'[v].net = vm[v].net
                  /\ \/ vm[v].running /\ vm'[v].vmi = vm[v].net
                     \/ vm'[v].vmi = "none"
         /\ TypeOK'
  <1>0. /\ power \in [VM -> {"ON", "STOPPING", "OFF"}] /\ src \in [VM -> [Disk -> Nat]]
        /\ dv \in [VM -> [Disk -> DataVolume]] /\ vm \in [VM -> VirtualMachine]
        /\ approvals \subseteq {"cutover", "test"}
    BY DEF TypeOK
  <1>1. ASSUME NEW a \in {"cutover", "test"}, Approve(a)
        PROVE  /\ UNCHANGED <<spec, phase, st, lost, src, power, dv, vm, images, prepped>>
               /\ approvals \subseteq approvals' /\ TypeOK'
    <2>1. /\ UNCHANGED <<spec, phase, st, lost, src, power, dv, vm, images, prepped>>
          /\ approvals' = approvals \cup {a}
      BY <1>1 DEF Approve
    <2>2. approvals' \subseteq {"cutover", "test"} /\ approvals \subseteq approvals'
      BY <1>0, <2>1
    <2> QED
      BY <2>1, <2>2 DEF TypeOK
  <1>2. ASSUME NEW w \in VM, PowerOff(w)
        PROVE  /\ UNCHANGED <<spec, phase, st, approvals, lost, src, dv, vm, images, prepped>>
               /\ \A v \in VM : \/ power'[v] = power[v]
                                \/ power[v] = "STOPPING" /\ power'[v] = "OFF"
               /\ TypeOK'
    <2>1. /\ UNCHANGED <<spec, phase, st, approvals, lost, src, dv, vm, images, prepped>>
          /\ power[w] = "STOPPING" /\ power' = [power EXCEPT ![w] = "OFF"]
      BY <1>2 DEF PowerOff
    <2>2. /\ power' \in [VM -> {"ON", "STOPPING", "OFF"}]
          /\ \A v \in VM : \/ power'[v] = power[v]
                           \/ power[v] = "STOPPING" /\ power'[v] = "OFF"
      BY <1>0, <2>1
    <2> QED
      BY <2>1, <2>2 DEF TypeOK
  <1>3. ASSUME NEW w \in VM, StartVMI(w) \/ StopVMI(w)
        PROVE  /\ UNCHANGED <<spec, phase, st, approvals, lost, src, power, dv, images, prepped>>
               /\ \A v \in VM :
                    \/ vm'[v] = vm[v]
                    \/ /\ vm'[v].made = vm[v].made /\ vm'[v].running = vm[v].running
                       /\ vm'[v].net = vm[v].net
                       /\ \/ vm[v].running /\ vm'[v].vmi = vm[v].net
                          \/ vm'[v].vmi = "none"
               /\ TypeOK'
    <2>1. UNCHANGED <<spec, phase, st, approvals, lost, src, power, dv, images, prepped>>
      BY <1>3 DEF StartVMI, StopVMI
    <2>2. PICK i \in {"none", "test", "prod"} :
             /\ vm' = [vm EXCEPT ![w].vmi = i]
             /\ (vm[w].running /\ i = vm[w].net) \/ i = "none"
      <3>1. vm[w].net \in {"test", "prod"}
        BY <1>0 DEF VirtualMachine
      <3>2. CASE StartVMI(w)
        BY <3>1, <3>2 DEF StartVMI
      <3>3. CASE StopVMI(w)
        BY <3>3 DEF StopVMI
      <3> QED
        BY <1>3, <3>2, <3>3
    <2>3. vm' = [v \in VM |-> IF v = w THEN [vm[v] EXCEPT !.vmi = i] ELSE vm[v]]
      BY <1>0, <2>2
    <2>4. \A v \in VM : /\ [vm[v] EXCEPT !.vmi = i] \in VirtualMachine
                        /\ [vm[v] EXCEPT !.vmi = i].made = vm[v].made
                        /\ [vm[v] EXCEPT !.vmi = i].net = vm[v].net
                        /\ [vm[v] EXCEPT !.vmi = i].vmi = i
                        /\ [vm[v] EXCEPT !.vmi = i].running = vm[v].running
      <3>1. \A v \in VM : vm[v] \in VirtualMachine
        BY <1>0
      <3> QED
        BY <3>1, SetInstance, Zenon
    <2>5. vm' \in [VM -> VirtualMachine]
      BY <1>0, <2>3, <2>4
    <2>6. ASSUME NEW v \in VM
          PROVE  \/ vm'[v] = vm[v]
                 \/ /\ vm'[v].made = vm[v].made /\ vm'[v].running = vm[v].running
                    /\ vm'[v].net = vm[v].net
                    /\ \/ vm[v].running /\ vm'[v].vmi = vm[v].net
                       \/ vm'[v].vmi = "none"
      <3>1. CASE v # w
        BY <2>3, <3>1
      <3>2. CASE v = w
        <4>1. vm'[v] = [vm[v] EXCEPT !.vmi = i]
          BY <2>3, <3>2
        <4> QED
          BY <2>2, <2>4, <3>2, <4>1
      <3> QED
        BY <3>1, <3>2
    <2>7. TypeOK'
      BY <2>1, <2>5 DEF TypeOK
    <2> QED
      BY <2>1, <2>6, <2>7
  <1>4. ASSUME NEW w \in VM, NEW j \in Disk, GuestWrite(w, j)
        PROVE  /\ UNCHANGED <<spec, phase, st, approvals, lost, power, dv, vm, images, prepped>>
               /\ \A v \in VM : power[v] = "OFF" => src'[v] = src[v]
               /\ TypeOK'
    <2>1. /\ UNCHANGED <<spec, phase, st, approvals, lost, power, dv, vm, images, prepped>>
          /\ power[w] # "OFF" /\ src' = [src EXCEPT ![w][j] = src[w][j] + 1]
      BY <1>4 DEF GuestWrite
    <2>2. src[w][j] + 1 \in Nat
      BY <1>0
    <2>3. src' \in [VM -> [Disk -> Nat]]
      BY <1>0, <2>1, <2>2
    <2>4. \A v \in VM : power[v] = "OFF" => src'[v] = src[v]
      BY <1>0, <2>1
    <2>5. TypeOK'
      BY <2>1, <2>3 DEF TypeOK
    <2> QED
      BY <2>1, <2>4, <2>5
  <1>5. ASSUME NEW w \in VM, NEW j \in Disk, CDIImport(w, j) \/ DataVolumeGone(w, j)
        PROVE  /\ UNCHANGED <<spec, phase, st, approvals, lost, src, power, vm, images, prepped>>
               /\ \A v \in VM, k \in Disk :
                    \/ dv'[v][k] = dv[v][k]
                    \/ /\ dv[v][k].st = "importing" /\ dv'[v][k].st = "succeeded"
                       /\ dv'[v][k].holds = dv[v][k].holds
                    \/ dv[v][k].st = "deleting" /\ dv'[v][k].st = "none"
               /\ TypeOK'
    <2>1. UNCHANGED <<spec, phase, st, approvals, lost, src, power, vm, images, prepped>>
      BY <1>5 DEF CDIImport, DataVolumeGone
    <2>2. dv[w][j] \in DataVolume
      BY <1>0
    <2>3. PICK d \in DataVolume :
             /\ dv' = [dv EXCEPT ![w][j] = d]
             /\ \/ /\ dv[w][j].st = "importing" /\ d.st = "succeeded"
                   /\ d.holds = dv[w][j].holds
                \/ dv[w][j].st = "deleting" /\ d.st = "none"
      <3>1. CASE CDIImport(w, j)
        <4>1. PICK d : d = [dv[w][j] EXCEPT !.st = "succeeded"]
          OBVIOUS
        <4>2. d \in DataVolume /\ d.st = "succeeded" /\ d.holds = dv[w][j].holds
          BY <2>2, <4>1 DEF DataVolume
        <4>3. dv[w][j].st = "importing" /\ dv' = [dv EXCEPT ![w][j] = d]
          BY <1>0, <3>1, <4>1 DEF CDIImport
        <4> QED
          BY <4>2, <4>3
      <3>2. CASE DataVolumeGone(w, j)
        <4>1. PICK d : d = [st |-> "none", holds |-> Blank]
          OBVIOUS
        <4>2. Blank \in Content
          BY MigrationAssumption DEF Blank, Content
        <4>3. d \in DataVolume /\ d.st = "none"
          BY <4>1, <4>2 DEF DataVolume
        <4>4. dv[w][j].st = "deleting" /\ dv' = [dv EXCEPT ![w][j] = d]
          BY <3>2, <4>1 DEF DataVolumeGone
        <4> QED
          BY <4>3, <4>4
      <3> QED
        BY <1>5, <3>1, <3>2
    <2>4. /\ dv' \in [VM -> [Disk -> DataVolume]]
          /\ \A v \in VM, k \in Disk : IF v = w /\ k = j THEN dv'[v][k] = d
                                                         ELSE dv'[v][k] = dv[v][k]
      BY <1>0, <2>3
    <2>5. \A v \in VM, k \in Disk :
             \/ dv'[v][k] = dv[v][k]
             \/ /\ dv[v][k].st = "importing" /\ dv'[v][k].st = "succeeded"
                /\ dv'[v][k].holds = dv[v][k].holds
             \/ dv[v][k].st = "deleting" /\ dv'[v][k].st = "none"
      BY <2>3, <2>4
    <2>6. TypeOK'
      BY <2>1, <2>4 DEF TypeOK
    <2> QED
      BY <2>1, <2>5, <2>6
  <1>6. CASE \E a \in {"cutover", "test"} : Approve(a)
    BY <1>1, <1>6
  <1>7. CASE \E v \in VM : PowerOff(v)
    BY <1>2, <1>7
  <1>8. CASE \E v \in VM : StartVMI(v) \/ StopVMI(v)
    BY <1>3, <1>8
  <1>9. CASE \E v \in VM, k \in Disk : GuestWrite(v, k)
    BY <1>4, <1>9
  <1>10. CASE \E v \in VM, k \in Disk : CDIImport(v, k) \/ DataVolumeGone(v, k)
    BY <1>5, <1>10
  <1> QED
    BY <1>6, <1>7, <1>8, <1>9, <1>10 DEF Environment

-----------------------------------------------------------------------------
(***************************************************************************)
(* Type correctness.                                                       *)
(***************************************************************************)

LEMMA TypeInit == Init => TypeOK
  <1> SUFFICES ASSUME Init PROVE TypeOK
    OBVIOUS
  <1>1. spec \in Specs /\ lost \in Nat /\ approvals \subseteq {"cutover", "test"} /\ prepped \subseteq VM
    BY DEF Init
  <1>2. phase \in Phase
    BY DEF Init, Phase
  <1>3. st \in [VM -> VMStatus]
    <2>1. [phase |-> "", temp |-> <<>>, refs |-> 0, vmref |-> FALSE] \in VMStatus
      <3>1. "" \in VMPhase
        BY Zenon DEF VMPhase
      <3>2. ASSUME NEW p \in VMPhase
            PROVE  [phase |-> p, temp |-> <<>>, refs |-> 0, vmref |-> FALSE] \in VMStatus
        BY DEF VMStatus
      <3> QED
        BY <3>1, <3>2, Zenon
    <2>2. ASSUME NEW x \in VMStatus, st = [v \in VM |-> x]
          PROVE  st \in [VM -> VMStatus]
      BY <2>2
    <2> QED
      BY <2>1, <2>2, Zenon DEF Init
  <1>4. src \in [VM -> [Disk -> Nat]] /\ power \in [VM -> {"ON", "STOPPING", "OFF"}]
    BY Zenon DEF Init
  <1>5. dv \in [VM -> [Disk -> DataVolume]]
    <2>1. Blank \in Content
      BY MigrationAssumption DEF Blank, Content
    <2>2. [st |-> "none", holds |-> Blank] \in DataVolume
      BY <2>1 DEF DataVolume
    <2> QED
      BY <2>2, Zenon DEF Init
  <1>6. vm \in [VM -> VirtualMachine]
    <2>1. [made |-> FALSE, running |-> FALSE, net |-> "prod", vmi |-> "none"] \in VirtualMachine
      BY DEF VirtualMachine
    <2> QED
      BY <2>1, Zenon DEF Init
  <1>7. images \in [VM -> [named : BOOLEAN, orphans : Nat]]
    <2>1. [named |-> FALSE, orphans |-> 0] \in [named : BOOLEAN, orphans : Nat]
      OBVIOUS
    <2> QED
      BY <2>1, Zenon DEF Init
  <1> QED
    BY <1>1, <1>2, <1>3, <1>4, <1>5, <1>6, <1>7 DEF TypeOK

LEMMA TypeStep == TypeOK /\ [Next]_vars => TypeOK'
  <1> SUFFICES ASSUME TypeOK, [Next]_vars PROVE TypeOK'
    OBVIOUS
  <1>1. CASE UNCHANGED vars
    BY <1>1 DEF vars, TypeOK
  <1>2. CASE Reconcile
    BY <1>2, InitEffect, PendingEffect, GuestPrepEffect, FailEffect, PrepareImagesEffect,
       WarmPreSyncEffect, WarmPreSyncFailsEffect, WarmSyncingEffect, ReadyForCutoverEffect,
       WarmCutoverEffect, FinalSyncStageEffect, FinalSyncCreateEffect, WaitImportEffect,
       CreateVMsEffect, TestRunningEffect, TestPendingEffect, SwitchingEffect, Zenon
       DEF Reconcile
  <1>3. CASE PrismError \/ Environment
    BY <1>3, FailEffect, EnvironmentEffect, Zenon
  <1> QED
    BY <1>1, <1>2, <1>3 DEF Next

\* The state of a migration is always well formed: TypeOK is an invariant of every
\* migration, with every fault of the environment.
THEOREM TypesHold == Spec => []TypeOK
  BY TypeInit, TypeStep, PTL DEF Spec

-----------------------------------------------------------------------------
(***************************************************************************)
(* Preparation before copy.                                                *)
(***************************************************************************)

LEMMA AfterPrep ==
  ASSUME TypeOK
  PROVE  /\ nextPhaseAfterGuestPrep \in {"WarmPreSync", "PreparingImages", "ImportingDisks"}
         /\ nextPhaseAfterGuestPrep = "WarmPreSync" <=> spec.warm
         /\ nextPhaseAfterGuestPrep = "PreparingImages" <=> ~spec.warm /\ spec.shutdown
         /\ nextPhaseAfterGuestPrep = "ImportingDisks" <=> ~spec.warm /\ ~spec.shutdown
  BY SpecFields DEF nextPhaseAfterGuestPrep

\* The phases after the preparation.
Copying == {"PreparingImages", "WarmPreSync", "WarmSyncing", "ReadyForCutover", "WarmCutover",
            "WarmFinalSync", "ImportingDisks", "CreatingVMs", "TestRunning", "TestPending",
            "SwitchingNetwork", "Completed"}

\* The handlers of these phases.
CopyStep ==
    \/ handlePrepareImages \/ handleWarmPreSync \/ WarmPreSyncFails \/ handleWarmSyncing
    \/ handleReadyForCutover \/ handleWarmCutover \/ FinalSyncStage \/ FinalSyncCreate
    \/ handleWaitImport \/ handleCreateVMs \/ handleTestRunning \/ handleTestPending
    \/ handleSwitchingNetwork

\* All of them have run before the migration enters a phase that copies, and before
\* there is a copy of any VM.  A status says so only of a VM whose script succeeded.
PreparedInv ==
    /\ phase \in Copying => spec.prep \subseteq prepped
    /\ \A v \in VM : st[v].temp # <<>> \/ (\E k \in Disk : dv[v][k].st # "none") =>
                        spec.prep \subseteq prepped
    /\ phase = "GuestPrepping" =>
          \A v \in spec.prep : st[v].phase = "GuestPrepped" => v \in prepped

LEMMA CopyStepPhases ==
  ASSUME TypeOK, CopyStep
  PROVE  phase \in Copying /\ phase' # "GuestPrepping" /\ spec' = spec /\ prepped' = prepped
  <1>1. ASSUME NEW p \in Copying, Ends(p), phase \in Copying
        PROVE  phase' # "GuestPrepping"
    BY <1>1 DEF Ends, Lose, Copying
  <1>2. CASE handlePrepareImages
    <2>1. /\ phase = "PreparingImages" /\ spec' = spec /\ prepped' = prepped
          /\ Ends("ImportingDisks") \/ phase' \in {phase, "Failed"}
      BY <1>2, PrepareImagesEffect
    <2> QED
      BY <1>1, <2>1 DEF Copying
  <1>3. CASE handleWarmPreSync
    <2>1. phase = "WarmPreSync" /\ spec' = spec /\ prepped' = prepped /\ Ends("WarmSyncing")
      BY <1>3, WarmPreSyncEffect
    <2> QED
      BY <1>1, <2>1 DEF Copying
  <1>4. CASE WarmPreSyncFails
    BY <1>4, WarmPreSyncFailsEffect DEF Copying, Lose
  <1>5. CASE handleWarmSyncing
    BY <1>5, WarmSyncingEffect DEF Copying
  <1>6. CASE handleReadyForCutover
    <2>1. phase = "ReadyForCutover" /\ spec' = spec /\ prepped' = prepped /\ Ends("WarmCutover")
      BY <1>6, ReadyForCutoverEffect
    <2> QED
      BY <1>1, <2>1 DEF Copying
  <1>7. CASE handleWarmCutover
    BY <1>7, WarmCutoverEffect DEF Copying
  <1>8. CASE FinalSyncStage
    BY <1>8, FinalSyncStageEffect DEF Copying
  <1>9. CASE FinalSyncCreate
    <2>1. phase = "WarmFinalSync" /\ spec' = spec /\ prepped' = prepped /\ Ends("ImportingDisks")
      BY <1>9, FinalSyncCreateEffect
    <2> QED
      BY <1>1, <2>1 DEF Copying
  <1>10. CASE handleWaitImport
    BY <1>10, WaitImportEffect DEF Copying
  <1>11. CASE handleCreateVMs
    <2>1. /\ phase = "CreatingVMs" /\ spec' = spec /\ prepped' = prepped
          /\ Ends(IF hasTestTarget THEN "TestRunning" ELSE "Completed")
      BY <1>11, CreateVMsEffect
    <2> QED
      BY <1>1, <2>1 DEF Copying
  <1>12. CASE handleTestRunning
    BY <1>12, TestRunningEffect DEF Copying
  <1>13. CASE handleTestPending
    BY <1>13, TestPendingEffect DEF Copying
  <1>14. CASE handleSwitchingNetwork
    BY <1>14, SwitchingEffect DEF Copying
  <1> QED
    BY <1>2, <1>3, <1>4, <1>5, <1>6, <1>7, <1>8, <1>9, <1>10, <1>11, <1>12, <1>13, <1>14
       DEF CopyStep

LEMMA PreparedInit == Init => PreparedInv
  <1> SUFFICES ASSUME Init PROVE PreparedInv
    OBVIOUS
  <1>1. phase \notin Copying /\ phase # "GuestPrepping"
    BY Zenon DEF Init, Copying
  <1>2. \A v \in VM : st[v].temp = <<>> /\ \A k \in Disk : dv[v][k].st = "none"
    BY Zenon DEF Init
  <1> QED
    BY <1>1, <1>2 DEF PreparedInv

LEMMA PreparedStep == TypeOK /\ PreparedInv /\ [Next]_vars => PreparedInv'
  <1> SUFFICES ASSUME TypeOK, PreparedInv, [Next]_vars PROVE PreparedInv'
    OBVIOUS
  <1>1. CASE CopyStep
    BY <1>1, CopyStepPhases DEF PreparedInv
  <1>2. CASE handleInit
    <2>1. /\ phase' = phase \/ phase' = "Pending"
          /\ UNCHANGED <<spec, st, dv, prepped>>
      BY <1>2, InitEffect DEF Ends, Lose
    <2> QED
      BY <2>1 DEF PreparedInv, Copying
  <1>3. CASE handlePending
    <2>1. CASE spec.prep = {}
      BY <1>3, <2>1, PendingEffect DEF PreparedInv
    <2>2. CASE spec.prep # {}
      <3>1. /\ UNCHANGED <<spec, dv, prepped>> /\ phase = "Pending"
            /\ phase' \in {phase, "GuestPrepping"}
            /\ \A v \in VM : st'[v].temp = st[v].temp
            /\ phase' # phase => \A v \in VM : st'[v].phase = "Pending"
        BY <1>3, <2>2, PendingEffect DEF Direct, Ends, Lose, Kept
      <3>2. spec.prep \subseteq VM
        BY SpecFields
      <3> QED
        BY <3>1, <3>2 DEF PreparedInv, Copying
    <2> QED
      BY <2>1, <2>2
  <1>4. CASE GuestPrepRun
    <2>1. /\ phase = "GuestPrepping" /\ spec' = spec /\ dv' = dv /\ prepped \subseteq prepped'
          /\ phase' \in {phase, "Failed", nextPhaseAfterGuestPrep}
          /\ \A v \in VM : st'[v].temp = st[v].temp
          /\ \A v \in spec.prep : st'[v].phase = "GuestPrepped" =>
                                    st[v].phase = "GuestPrepped" \/ v \in prepped'
          /\ phase' = nextPhaseAfterGuestPrep =>
               \A v \in spec.prep : st[v].phase = "GuestPrepped" \/ v \in prepped'
      BY <1>4, GuestPrepEffect DEF Kept
    <2>2. \A v \in spec.prep : st[v].phase = "GuestPrepped" => v \in prepped'
      BY <2>1 DEF PreparedInv
    <2>3. phase' \in Copying => spec'.prep \subseteq prepped'
      BY <2>1, <2>2, AfterPrep DEF Copying
    <2> QED
      BY <2>1, <2>2, <2>3 DEF PreparedInv
  <1>5. CASE PrismError \/ GuestPrepFailed
    <2>1. phase' = "Failed" /\ UNCHANGED <<spec, st, dv, prepped>>
      BY <1>5, FailEffect
    <2> QED
      BY <2>1 DEF PreparedInv, Copying
  <1>6. CASE Environment
    <2>1. /\ UNCHANGED <<spec, phase, st, prepped>>
          /\ \A v \in VM, k \in Disk : dv'[v][k].st # "none" => dv[v][k].st # "none"
      BY <1>6, EnvironmentEffect
    <2> QED
      BY <2>1 DEF PreparedInv
  <1>7. CASE UNCHANGED vars
    BY <1>7 DEF vars, PreparedInv
  <1> QED
    BY <1>1, <1>2, <1>3, <1>4, <1>5, <1>6, <1>7 DEF Next, Reconcile, CopyStep

\* Nothing is copied from a VM before its preparation script has succeeded: with
\* every fault of the environment (handleGuestPrepping before every phase that makes
\* images or DataVolumes).
THEOREM PreparationComesFirst == Spec => []PreppedBeforeCopy
  <1>1. TypeOK /\ PreparedInv => PreppedBeforeCopy
    BY SpecFields DEF PreparedInv, PreppedBeforeCopy
  <1> QED
    BY <1>1, TypesHold, PreparedInit, PreparedStep, PTL DEF Spec

-----------------------------------------------------------------------------
(***************************************************************************)
(* Orphaned images.                                                        *)
(***************************************************************************)

\* The phases before the final sync.
BeforeFinalSync == {"", "Pending", "GuestPrepping", "PreparingImages", "WarmPreSync",
                    "WarmSyncing", "ReadyForCutover", "WarmCutover"}

\* The final sync has not staged v yet.
Unstaged(v) ==
    \/ phase \in BeforeFinalSync
    \/ phase = "WarmFinalSync" /\ st[v].phase # "FinalSyncImaged"

\* The images of the pre-copy are left only by the pass that stages v.
OrphansInv ==
    \A v \in VM : images[v].orphans <=
        lost + (IF phase = "Failed" THEN 1 ELSE 0)
             + (IF "delete" \in Faults /\ ~Unstaged(v) THEN 1 ELSE 0)

LEMMA OrphansInit == Init => OrphansInv
  <1> SUFFICES ASSUME Init PROVE OrphansInv
    OBVIOUS
  <1>1. lost = 0 /\ \A v \in VM : images[v].orphans = 0
    BY Zenon DEF Init
  <1> QED
    BY <1>1 DEF OrphansInv

\* What every step does to the images; a VM that is staged stays so.
LEMMA OrphansEffect ==
  ASSUME TypeOK, Reconcile \/ PrismError
  PROVE  /\ phase # "Failed" /\ (images' = images \/ Orphaned)
         /\ lost' = lost \/ (lost' = lost + 1 /\ phase' = phase)
         /\ \A v \in VM : Unstaged(v)' => Unstaged(v)
  <1> USE DEF Unstaged, BeforeFinalSync
  <1>1. CASE handleInit
    <2>1. phase = ""
      BY <1>1, Zenon DEF handleInit
    <2>2. images' = images /\ Ends("Pending")
      BY <1>1, InitEffect
    <2> QED
      BY <2>1, <2>2 DEF Ends, Lose
  <1>2. CASE handlePending
    <2>1. phase = "Pending" /\ images' = images /\ \E p : Ends(p)
      BY <1>2, PendingEffect, Zenon
    <2> QED
      BY <2>1 DEF Ends, Lose
  <1>3. CASE GuestPrepRun
    BY <1>3, GuestPrepEffect
  <1>4. CASE PrismError \/ GuestPrepFailed
    BY <1>4, FailEffect
  <1>5. CASE handlePrepareImages
    <2>1. /\ phase = "PreparingImages" /\ Orphaned
          /\ Ends("ImportingDisks") \/ lost' = lost \/ (lost' = lost + 1 /\ phase' = phase)
      BY <1>5, PrepareImagesEffect
    <2> QED
      BY <2>1 DEF Ends, Lose
  <1>6. CASE handleWarmPreSync
    BY <1>6, WarmPreSyncEffect DEF Ends, Lose
  <1>7. CASE WarmPreSyncFails
    BY <1>7, WarmPreSyncFailsEffect DEF Lose
  <1>8. CASE handleWarmSyncing
    BY <1>8, WarmSyncingEffect
  <1>9. CASE handleReadyForCutover
    BY <1>9, ReadyForCutoverEffect DEF Ends, Lose
  <1>10. CASE handleWarmCutover
    BY <1>10, WarmCutoverEffect
  <1>11. CASE FinalSyncStage
    BY <1>11, FinalSyncStageEffect
  <1>12. CASE FinalSyncCreate
    BY <1>12, FinalSyncCreateEffect DEF Ends, Lose
  <1>13. CASE handleWaitImport
    BY <1>13, WaitImportEffect
  <1>14. CASE handleCreateVMs
    BY <1>14, CreateVMsEffect DEF Ends, Lose
  <1>15. CASE handleTestRunning
    BY <1>15, TestRunningEffect
  <1>16. CASE handleTestPending
    BY <1>16, TestPendingEffect
  <1>17. CASE handleSwitchingNetwork
    BY <1>17, SwitchingEffect
  <1> QED
    BY <1>1, <1>2, <1>3, <1>4, <1>5, <1>6, <1>7, <1>8, <1>9, <1>10, <1>11, <1>12, <1>13,
       <1>14, <1>15, <1>16, <1>17 DEF Reconcile

LEMMA OrphansStep == TypeOK /\ OrphansInv /\ [Next]_vars => OrphansInv'
  <1> SUFFICES ASSUME TypeOK, OrphansInv, [Next]_vars PROVE OrphansInv'
    OBVIOUS
  <1>1. CASE Reconcile \/ PrismError
    <2>1. /\ phase # "Failed" /\ (images' = images \/ Orphaned)
          /\ lost' = lost \/ (lost' = lost + 1 /\ phase' = phase)
          /\ \A v \in VM : Unstaged(v)' => Unstaged(v)
      BY <1>1, OrphansEffect
    <2>2. lost \in Nat /\ lost' \in Nat /\ \A v \in VM : images[v].orphans \in Nat
      BY <2>1 DEF TypeOK
    <2>3. ASSUME NEW v \in VM
          PROVE  images'[v].orphans <=
                   lost' + (IF phase' = "Failed" THEN 1 ELSE 0)
                         + (IF "delete" \in Faults /\ ~Unstaged(v)' THEN 1 ELSE 0)
      <3>1. images[v].orphans <= lost + (IF "delete" \in Faults /\ ~Unstaged(v) THEN 1 ELSE 0)
        BY <2>1, <2>2 DEF OrphansInv
      <3>2. CASE /\ "delete" \in Faults /\ phase = "WarmFinalSync"
                 /\ phase' = phase /\ lost' = lost
                 /\ st[v].phase # "FinalSyncImaged" /\ st'[v].phase = "FinalSyncImaged"
                 /\ images'[v].orphans = images[v].orphans + 1
        <4>1. Unstaged(v) /\ ~Unstaged(v)'
          BY <3>2 DEF Unstaged, BeforeFinalSync
        <4> QED
          BY <2>2, <3>1, <3>2, <4>1
      <3>3. \/ images'[v] = images[v]
            \/ /\ phase' # "Failed" /\ lost' = lost
               /\ images'[v].orphans = images[v].orphans
            \/ /\ phase' = "Failed" \/ lost' # lost
               /\ images'[v].orphans = images[v].orphans + 1
            \/ /\ "delete" \in Faults /\ phase = "WarmFinalSync"
               /\ phase' = phase /\ lost' = lost
               /\ st[v].phase # "FinalSyncImaged" /\ st'[v].phase = "FinalSyncImaged"
               /\ images'[v].orphans = images[v].orphans + 1
        BY <2>1 DEF Orphaned
      <3> QED
        BY <2>1, <2>2, <3>1, <3>2, <3>3
    <2> QED
      BY <2>3 DEF OrphansInv
  <1>2. CASE Environment
    <2>1. UNCHANGED <<phase, lost, images, st>>
      BY <1>2, EnvironmentEffect
    <2> QED
      BY <2>1 DEF OrphansInv, Unstaged
  <1>3. CASE UNCHANGED vars
    BY <1>3 DEF vars, OrphansInv, Unstaged
  <1> QED
    BY <1>1, <1>2, <1>3 DEF Next

\* A lost or failed pass leaves at most one set of images of a VM in Prism that no
\* status names, and a final sync whose deletions fail one more, however often it is
\* repeated: with every fault of the environment.
THEOREM OrphansAreBounded == Spec => []OrphansBounded
  <1>1. TypeOK /\ OrphansInv => OrphansBounded
    <2> SUFFICES ASSUME TypeOK, OrphansInv, NEW v \in VM
                 PROVE  images[v].orphans <= lost + (IF phase = "Failed" THEN 1 ELSE 0)
                                            + (IF "delete" \in Faults THEN 1 ELSE 0)
      BY DEF OrphansBounded
    <2>1. lost \in Nat /\ images[v].orphans \in Nat
      BY DEF TypeOK
    <2> QED
      BY <2>1 DEF OrphansInv
  <1> QED
    BY <1>1, TypesHold, OrphansInit, OrphansStep, PTL DEF Spec

-----------------------------------------------------------------------------
(***************************************************************************)
(* Source and target never run at the same time.                           *)
(***************************************************************************)

\* The phases a migration that shuts its sources down enters when they are off.
SourcesOff == {"WarmFinalSync", "ImportingDisks", "CreatingVMs", "TestRunning", "TestPending",
               "SwitchingNetwork", "Completed"}

\* In these phases all sources are off, and a target runs, or is told to, only if
\* its source is.
TwinInv ==
    spec.warm \/ spec.shutdown =>
        /\ phase \in SourcesOff => \A v \in VM : power[v] = "OFF"
        /\ \A v \in VM : vm[v].running \/ vm[v].vmi # "none" => power[v] = "OFF"

LEMMA TwinInit == Init => TwinInv
  <1> SUFFICES ASSUME Init PROVE TwinInv
    OBVIOUS
  <1>1. phase \notin SourcesOff
    BY Zenon DEF Init, SourcesOff
  <1>2. \A v \in VM : ~vm[v].running /\ vm[v].vmi = "none"
    BY Zenon DEF Init
  <1> QED
    BY <1>1, <1>2 DEF TwinInv

\* A pass that neither starts a source nor a target.
LEMMA TwinKept ==
  ASSUME TwinInv, spec' = spec, vm' = vm,
         \A v \in VM : power[v] = "OFF" => power'[v] = "OFF",
         \/ phase' \notin SourcesOff \/ phase \in SourcesOff
         \/ \A v \in VM : power'[v] = "OFF"
         \/ ~spec.warm /\ ~spec.shutdown
  PROVE  TwinInv'
  BY DEF TwinInv

LEMMA TwinStep == TypeOK /\ TwinInv /\ [Next]_vars => TwinInv'
  <1> SUFFICES ASSUME TypeOK, TwinInv, [Next]_vars PROVE TwinInv'
    OBVIOUS
  <1>1. CASE handleInit
    <2>1. spec' = spec /\ vm' = vm /\ power' = power /\ phase' \in {phase, "Pending"}
      BY <1>1, InitEffect DEF Ends, Lose
    <2>2. phase' \notin SourcesOff \/ phase \in SourcesOff
      BY <2>1 DEF SourcesOff
    <2> QED
      BY <2>1, <2>2, TwinKept
  <1>2. CASE handlePending
    <2>1. /\ spec' = spec /\ vm' = vm /\ power' = power /\ phase = "Pending"
          /\ phase' \in {phase, "GuestPrepping", nextPhaseAfterGuestPrep}
      BY <1>2, PendingEffect DEF Ends, Lose, Direct
    <2>2. phase' \notin SourcesOff \/ (~spec.warm /\ ~spec.shutdown)
      BY <2>1, AfterPrep DEF SourcesOff
    <2> QED
      BY <2>1, <2>2, TwinKept
  <1>3. CASE GuestPrepRun
    <2>1. /\ spec' = spec /\ vm' = vm /\ power' = power
          /\ phase' \in {"GuestPrepping", "Failed", nextPhaseAfterGuestPrep}
      BY <1>3, GuestPrepEffect
    <2>2. phase' \notin SourcesOff \/ (~spec.warm /\ ~spec.shutdown)
      BY <2>1, AfterPrep DEF SourcesOff
    <2> QED
      BY <2>1, <2>2, TwinKept
  <1>4. CASE PrismError \/ GuestPrepFailed
    <2>1. spec' = spec /\ vm' = vm /\ power' = power /\ phase' = "Failed"
      BY <1>4, FailEffect
    <2>2. phase' \notin SourcesOff
      BY <2>1 DEF SourcesOff
    <2> QED
      BY <2>1, <2>2, TwinKept
  <1>5. CASE handlePrepareImages
    <2>1. /\ spec' = spec /\ vm' = vm /\ phase = "PreparingImages"
          /\ \A v \in VM : power[v] = "OFF" => power'[v] = "OFF"
          /\ phase' \in {phase, "Failed"} \/ \A v \in VM : power'[v] = "OFF"
      BY <1>5, PrepareImagesEffect
    <2>2. phase' \notin SourcesOff \/ \A v \in VM : power'[v] = "OFF"
      BY <2>1 DEF SourcesOff
    <2> QED
      BY <2>1, <2>2, TwinKept
  <1>6. CASE handleWarmPreSync \/ WarmPreSyncFails
    <2>1. /\ spec' = spec /\ vm' = vm /\ power' = power
          /\ phase' \in {"WarmPreSync", "WarmSyncing", "Failed"}
      BY <1>6, WarmPreSyncEffect, WarmPreSyncFailsEffect DEF Ends, Lose
    <2>2. phase' \notin SourcesOff
      BY <2>1 DEF SourcesOff
    <2> QED
      BY <2>1, <2>2, TwinKept
  <1>7. CASE handleWarmSyncing \/ handleReadyForCutover
    <2>1. /\ spec' = spec /\ vm' = vm /\ power' = power
          /\ phase' \in {"WarmSyncing", "ReadyForCutover", "WarmCutover"}
      BY <1>7, WarmSyncingEffect, ReadyForCutoverEffect DEF Ends, Lose
    <2>2. phase' \notin SourcesOff
      BY <2>1 DEF SourcesOff
    <2> QED
      BY <2>1, <2>2, TwinKept
  <1>8. CASE handleWarmCutover
    <2>1. /\ spec' = spec /\ vm' = vm /\ phase = "WarmCutover"
          /\ \A v \in VM : power[v] = "OFF" => power'[v] = "OFF"
          /\ phase' = phase \/ \A v \in VM : power'[v] = "OFF"
      BY <1>8, WarmCutoverEffect
    <2>2. phase' \notin SourcesOff \/ \A v \in VM : power'[v] = "OFF"
      BY <2>1 DEF SourcesOff
    <2> QED
      BY <2>1, <2>2, TwinKept
  <1>9. CASE FinalSyncStage \/ FinalSyncCreate \/ handleWaitImport
    <2>1. spec' = spec /\ vm' = vm /\ power' = power /\ phase \in {"WarmFinalSync", "ImportingDisks"}
      BY <1>9, FinalSyncStageEffect, FinalSyncCreateEffect, WaitImportEffect
    <2>2. phase \in SourcesOff
      BY <2>1 DEF SourcesOff
    <2> QED
      BY <2>1, <2>2, TwinKept
  <1>10. CASE handleCreateVMs \/ handleTestRunning \/ handleTestPending \/ handleSwitchingNetwork
    <2>1. /\ spec' = spec /\ power' = power
          /\ phase \in {"CreatingVMs", "TestRunning", "TestPending", "SwitchingNetwork"}
      BY <1>10, CreateVMsEffect, TestRunningEffect, TestPendingEffect, SwitchingEffect
    <2>2. phase \in SourcesOff
      BY <2>1 DEF SourcesOff
    <2> QED
      BY <2>1, <2>2 DEF TwinInv
  <1>11. CASE Environment
    <2>1. /\ spec' = spec /\ phase' = phase
          /\ \A v \in VM : power[v] = "OFF" => power'[v] = "OFF"
      BY <1>11, EnvironmentEffect
    <2>2. \A v \in VM :
             \/ vm'[v] = vm[v]
             \/ /\ vm'[v].running = vm[v].running
                /\ vm[v].running \/ vm'[v].vmi = "none"
      BY <1>11, EnvironmentEffect
    <2>3. \A v \in VM : vm'[v].running \/ vm'[v].vmi # "none" =>
                           vm[v].running \/ vm[v].vmi # "none"
      BY <2>2, Zenon
    <2> QED
      BY <2>1, <2>3 DEF TwinInv
  <1>12. CASE UNCHANGED vars
    BY <1>12 DEF vars, TwinInv
  <1> QED
    BY <1>1, <1>2, <1>3, <1>4, <1>5, <1>6, <1>7, <1>8, <1>9, <1>10, <1>11, <1>12
       DEF Next, Reconcile

\* Source and target of a VM never run at the same time in the modes that shut the
\* source down: with every fault of the environment.
THEOREM NoTwinRuns == Spec => []NoTwin
  <1>1. TwinInv => NoTwin
    BY DEF TwinInv, NoTwin
  <1> QED
    BY <1>1, TypesHold, TwinInit, TwinStep, PTL DEF Spec

-----------------------------------------------------------------------------
(***************************************************************************)
(* Isolation of the test.                                                  *)
(***************************************************************************)

\* The passes that touch no VirtualMachine and forget none.
LEMMA MachinesKept ==
  ASSUME TypeOK, Reconcile \/ PrismError,
         ~handleCreateVMs, ~handleTestRunning, ~handleTestPending, ~handleSwitchingNetwork
  PROVE  /\ UNCHANGED <<spec, approvals, vm>> /\ \A v \in VM : st'[v].vmref = st[v].vmref
         /\ phase' \notin {"TestRunning", "TestPending", "SwitchingNetwork", "Completed"}
  <1>1. CASE handleInit
    <2>1. phase' \in {phase, "Pending"} /\ st' = st /\ UNCHANGED <<spec, approvals, vm>>
      BY <1>1, InitEffect DEF Ends, Lose
    <2>2. phase \notin {"TestRunning", "TestPending", "SwitchingNetwork", "Completed"}
      BY <1>1, Zenon DEF handleInit
    <2> QED
      BY <2>1, <2>2
  <1>2. CASE handlePending
    BY <1>2, PendingEffect, AfterPrep DEF Ends, Lose, Kept
  <1>3. CASE GuestPrepRun
    BY <1>3, GuestPrepEffect, AfterPrep DEF Kept
  <1>4. CASE PrismError \/ GuestPrepFailed
    BY <1>4, FailEffect
  <1>5. CASE handlePrepareImages
    <2>1. /\ UNCHANGED <<spec, approvals, vm>> /\ phase = "PreparingImages"
          /\ Ends("ImportingDisks") \/ phase' \in {phase, "Failed"}
          /\ \A v \in VM : st'[v].vmref = st[v].vmref
      BY <1>5, PrepareImagesEffect
    <2> QED
      BY <2>1 DEF Ends, Lose
  <1>6. CASE handleWarmPreSync
    <2>1. /\ UNCHANGED <<spec, approvals, vm>> /\ phase = "WarmPreSync" /\ Ends("WarmSyncing")
          /\ \A v \in VM : st'[v].vmref = st[v].vmref
      BY <1>6, WarmPreSyncEffect
    <2> QED
      BY <2>1 DEF Ends, Lose
  <1>7. CASE WarmPreSyncFails
    BY <1>7, WarmPreSyncFailsEffect DEF Lose
  <1>8. CASE handleWarmSyncing
    BY <1>8, WarmSyncingEffect DEF Kept
  <1>9. CASE handleReadyForCutover
    BY <1>9, ReadyForCutoverEffect DEF Ends, Lose
  <1>10. CASE handleWarmCutover
    BY <1>10, WarmCutoverEffect DEF Kept
  <1>11. CASE FinalSyncStage
    BY <1>11, FinalSyncStageEffect
  <1>12. CASE FinalSyncCreate
    <2>1. /\ UNCHANGED <<spec, approvals, vm>> /\ phase = "WarmFinalSync" /\ Ends("ImportingDisks")
          /\ \A v \in VM : st'[v].vmref = st[v].vmref
      BY <1>12, FinalSyncCreateEffect
    <2> QED
      BY <2>1 DEF Ends, Lose
  <1>13. CASE handleWaitImport
    BY <1>13, WaitImportEffect DEF Kept
  <1> QED
    BY <1>1, <1>2, <1>3, <1>4, <1>5, <1>6, <1>7, <1>8, <1>9, <1>10, <1>11, <1>12, <1>13
       DEF Reconcile

\* A VM the migration knows of, or has told to run, exists; and one with a test
\* network is on the production network only after the approval, by which the
\* phases after the test have begun.
IsolationInv ==
    /\ phase \in {"TestPending", "SwitchingNetwork"} => "test" \in approvals
    /\ \A v \in VM :
          /\ st[v].vmref => vm[v].made
          /\ vm[v].running => vm[v].made
          /\ v \in spec.test /\ vm[v].made /\ vm[v].net = "prod" => "test" \in approvals
          /\ v \in spec.test /\ vm[v].vmi = "prod" => "test" \in approvals

LEMMA IsolationInit == Init => IsolationInv
  <1> SUFFICES ASSUME Init PROVE IsolationInv
    OBVIOUS
  <1>1. phase \notin {"TestPending", "SwitchingNetwork"}
    BY Zenon DEF Init
  <1>2. \A v \in VM : /\ st[v].vmref = FALSE
                      /\ vm[v].made = FALSE /\ vm[v].running = FALSE /\ vm[v].vmi = "none"
    BY Zenon DEF Init
  <1> QED
    BY <1>1, <1>2 DEF IsolationInv

LEMMA IsolationStep == TypeOK /\ IsolationInv /\ [Next]_vars => IsolationInv'
  <1> SUFFICES ASSUME TypeOK, IsolationInv, [Next]_vars PROVE IsolationInv'
    OBVIOUS
  <1>1. CASE /\ Reconcile \/ PrismError
             /\ ~handleCreateVMs /\ ~handleTestRunning /\ ~handleTestPending
             /\ ~handleSwitchingNetwork
    BY <1>1, MachinesKept DEF IsolationInv
  <1>2. CASE handleCreateVMs
    <2>1. /\ UNCHANGED <<spec, approvals>> /\ phase = "CreatingVMs"
          /\ Ends(IF hasTestTarget THEN "TestRunning" ELSE "Completed")
          /\ \A v \in VM : /\ vm'[v] = vm[v] \/ vm'[v] = buildVirtualMachine(v)
                           /\ st'[v].vmref => st[v].vmref \/ vm'[v].made
      BY <1>2, CreateVMsEffect
    <2>2. \A v \in VM : /\ buildVirtualMachine(v).made = TRUE
                        /\ buildVirtualMachine(v).running = FALSE
                        /\ buildVirtualMachine(v).vmi = "none"
                        /\ v \in spec.test => buildVirtualMachine(v).net = "test"
      <3>1. ASSUME NEW v \in VM, NEW x
            PROVE  LET r == [made |-> TRUE, running |-> FALSE, vmi |-> "none", net |-> x]
                   IN  r.made = TRUE /\ r.running = FALSE /\ r.vmi = "none" /\ r.net = x
        OBVIOUS
      <3>2. \A v \in VM : v \in spec.test => hasTestTarget
        BY DEF hasTestTarget
      <3> QED
        BY <3>1, <3>2, Zenon DEF buildVirtualMachine
    <2>3. phase' \notin {"TestPending", "SwitchingNetwork"}
      BY <2>1 DEF Ends, Lose
    <2> QED
      BY <2>1, <2>2, <2>3 DEF IsolationInv
  <1>3. CASE handleTestRunning
    <2>1. /\ UNCHANGED <<spec, approvals, st>> /\ phase = "TestRunning"
          /\ phase' = phase \/ "test" \in approvals
          /\ \A v \in VM : \/ vm'[v] = vm[v]
                           \/ /\ st[v].vmref /\ vm'[v].made = vm[v].made
                              /\ vm'[v].net = vm[v].net /\ vm'[v].vmi = vm[v].vmi
      BY <1>3, TestRunningEffect
    <2> QED
      BY <2>1 DEF IsolationInv
  <1>4. CASE handleTestPending
    <2>1. /\ UNCHANGED <<spec, approvals, st>> /\ phase = "TestPending"
          /\ \A v \in VM : \/ vm'[v] = vm[v]
                           \/ /\ vm'[v].made = vm[v].made /\ ~vm'[v].running
                              /\ vm'[v].net = vm[v].net /\ vm'[v].vmi = vm[v].vmi
      BY <1>4, TestPendingEffect
    <2> QED
      BY <2>1 DEF IsolationInv
  <1>5. CASE handleSwitchingNetwork
    <2>1. /\ UNCHANGED <<spec, approvals, st>> /\ phase = "SwitchingNetwork"
          /\ \A v \in VM : \/ vm'[v] = vm[v]
                           \/ st[v].vmref /\ vm'[v].made = vm[v].made
      BY <1>5, SwitchingEffect
    <2> QED
      BY <2>1 DEF IsolationInv
  <1>6. CASE Environment
    <2>1. /\ UNCHANGED <<spec, phase, st>> /\ approvals \subseteq approvals'
          /\ \A v \in VM :
               \/ vm'[v] = vm[v]
               \/ /\ vm'[v].made = vm[v].made /\ vm'[v].running = vm[v].running
                  /\ vm'[v].net = vm[v].net
                  /\ \/ vm[v].running /\ vm'[v].vmi = vm[v].net
                     \/ vm'[v].vmi = "none"
      BY <1>6, EnvironmentEffect
    <2> QED
      BY <2>1 DEF IsolationInv
  <1>7. CASE UNCHANGED vars
    BY <1>7 DEF vars, IsolationInv
  <1> QED
    BY <1>1, <1>2, <1>3, <1>4, <1>5, <1>6, <1>7 DEF Next

\* A VM with a test network is not on the production network before the test was
\* approved: with every fault of the environment.
THEOREM TestStaysIsolated == Spec => []TestIsolated
  <1>1. TypeOK /\ IsolationInv => TestIsolated
    BY SpecFields DEF IsolationInv, TestIsolated
  <1> QED
    BY <1>1, TypesHold, IsolationInit, IsolationStep, PTL DEF Spec

-----------------------------------------------------------------------------
(***************************************************************************)
(* Shutdown of the sources.                                                *)
(***************************************************************************)

\* The phases of a warm migration, with DataVolumes for all disks but in the first.
WarmSynced == {"WarmSyncing", "ReadyForCutover", "WarmCutover", "WarmFinalSync"}

\* The mode decides on the path; and WarmCutover is reached with the approval and a
\* complete pre-copy.
FlowInv ==
    /\ phase = "PreparingImages" => ~spec.warm /\ spec.shutdown
    /\ phase = "WarmPreSync" \/ phase \in WarmSynced => spec.warm
    /\ phase \in WarmSynced => \A v \in VM : st[v].refs = NumDisk
    /\ phase = "WarmCutover" /\ spec.pause => "cutover" \in approvals
    /\ phase \in {"ReadyForCutover", "WarmCutover"} =>
          \A v \in VM, k \in Disk : dv[v][k].st = "succeeded"

LEMMA FlowInit == Init => FlowInv
  <1> SUFFICES ASSUME Init PROVE FlowInv
    OBVIOUS
  <1>1. /\ phase # "PreparingImages" /\ phase # "WarmPreSync" /\ phase \notin WarmSynced
        /\ phase # "WarmCutover" /\ phase \notin {"ReadyForCutover", "WarmCutover"}
    BY Zenon DEF Init, WarmSynced
  <1> QED
    BY <1>1, Zenon DEF FlowInv

\* A pass that ends outside the phases FlowInv speaks of.
LEMMA FlowLeft ==
  ASSUME phase' \notin WarmSynced \cup {"PreparingImages", "WarmPreSync"}
  PROVE  FlowInv'
  BY DEF FlowInv, WarmSynced

LEMMA FlowStep == TypeOK /\ FlowInv /\ [Next]_vars => FlowInv'
  <1> SUFFICES ASSUME TypeOK, FlowInv, [Next]_vars PROVE FlowInv'
    OBVIOUS
  <1>1. CASE handleInit
    <2>1. phase' \in {phase, "Pending"}
      BY <1>1, InitEffect DEF Ends, Lose
    <2>2. phase \notin WarmSynced \cup {"PreparingImages", "WarmPreSync"}
      BY <1>1, Zenon DEF handleInit, WarmSynced
    <2>3. phase' \notin WarmSynced \cup {"PreparingImages", "WarmPreSync"}
      BY <2>1, <2>2 DEF WarmSynced
    <2> QED
      BY <2>3, FlowLeft
  <1>2. CASE handlePending \/ GuestPrepRun
    <2>1. /\ spec' = spec
          /\ phase' \in {"Pending", "GuestPrepping", "Failed", nextPhaseAfterGuestPrep}
      BY <1>2, PendingEffect, GuestPrepEffect DEF Ends, Lose, Direct
    <2> QED
      BY <2>1, AfterPrep DEF FlowInv, WarmSynced
  <1>3. CASE PrismError \/ GuestPrepFailed
    <2>1. phase' = "Failed"
      BY <1>3, FailEffect
    <2> QED
      BY <2>1, FlowLeft DEF WarmSynced
  <1>4. CASE handlePrepareImages
    <2>1. /\ spec' = spec /\ phase = "PreparingImages"
          /\ Ends("ImportingDisks") \/ phase' \in {phase, "Failed"}
      BY <1>4, PrepareImagesEffect
    <2>2. phase' \in {phase, "Failed", "ImportingDisks"}
      BY <2>1 DEF Ends, Lose
    <2> QED
      BY <2>1, <2>2 DEF FlowInv, WarmSynced
  <1>5. CASE handleWarmPreSync
    <2>1. /\ spec' = spec /\ phase = "WarmPreSync" /\ Ends("WarmSyncing")
          /\ phase' # phase => \A v \in VM : st'[v].refs = NumDisk
      BY <1>5, WarmPreSyncEffect
    <2>2. phase' \in {phase, "WarmSyncing"}
      BY <2>1 DEF Ends, Lose
    <2> QED
      BY <2>1, <2>2 DEF FlowInv, WarmSynced
  <1>6. CASE WarmPreSyncFails
    <2>1. spec' = spec /\ phase = "WarmPreSync" /\ phase' \in {phase, "Failed"}
      BY <1>6, WarmPreSyncFailsEffect DEF Lose
    <2> QED
      BY <2>1 DEF FlowInv, WarmSynced
  <1>7. CASE handleWarmSyncing
    <2>1. /\ UNCHANGED <<spec, approvals, dv>> /\ phase = "WarmSyncing"
          /\ \A v \in VM : st'[v].refs = st[v].refs
          /\ \/ phase' = phase
             \/ /\ \A v \in VM : DisksOf(v)
                /\ phase' = IF spec.pause THEN "ReadyForCutover" ELSE "WarmCutover"
      BY <1>7, WarmSyncingEffect DEF Kept
    <2>2. spec.warm /\ \A v \in VM : st[v].refs = NumDisk
      BY <2>1 DEF FlowInv, WarmSynced
    <2>3. phase' # phase => \A v \in VM, k \in Disk : dv'[v][k].st = "succeeded"
      BY <2>1, <2>2 DEF DisksOf, Disk
    <2> QED
      BY <2>1, <2>2, <2>3 DEF FlowInv, WarmSynced
  <1>8. CASE handleReadyForCutover
    <2>1. /\ UNCHANGED <<spec, approvals, dv, st>> /\ phase = "ReadyForCutover"
          /\ "cutover" \in approvals /\ Ends("WarmCutover")
      BY <1>8, ReadyForCutoverEffect
    <2>2. phase' \in {phase, "WarmCutover"}
      BY <2>1 DEF Ends, Lose
    <2> QED
      BY <2>1, <2>2 DEF FlowInv, WarmSynced
  <1>9. CASE handleWarmCutover
    <2>1. /\ UNCHANGED <<spec, approvals, dv>> /\ phase = "WarmCutover"
          /\ \A v \in VM : st'[v].refs = st[v].refs
          /\ phase' \in {phase, "WarmFinalSync", "CreatingVMs"}
      BY <1>9, WarmCutoverEffect DEF Kept
    <2> QED
      BY <2>1 DEF FlowInv, WarmSynced
  <1>10. CASE FinalSyncStage
    <2>1. /\ spec' = spec /\ phase = "WarmFinalSync" /\ phase' \in {phase, "Failed"}
          /\ \A v \in VM : st'[v].refs = st[v].refs
      BY <1>10, FinalSyncStageEffect
    <2> QED
      BY <2>1 DEF FlowInv, WarmSynced
  <1>11. CASE FinalSyncCreate
    <2>1. /\ spec' = spec /\ phase = "WarmFinalSync" /\ Ends("ImportingDisks")
          /\ phase' = phase => st' = st
      BY <1>11, FinalSyncCreateEffect
    <2>2. phase' \in {phase, "ImportingDisks"}
      BY <2>1 DEF Ends, Lose
    <2> QED
      BY <2>1, <2>2 DEF FlowInv, WarmSynced
  <1>12. CASE handleWaitImport
    <2>1. phase' \in {"ImportingDisks", "CreatingVMs"}
      BY <1>12, WaitImportEffect
    <2> QED
      BY <2>1, FlowLeft DEF WarmSynced
  <1>13. CASE handleCreateVMs
    <2>1. phase = "CreatingVMs" /\ Ends(IF hasTestTarget THEN "TestRunning" ELSE "Completed")
      BY <1>13, CreateVMsEffect
    <2>2. phase' \in {"CreatingVMs", "TestRunning", "Completed"}
      BY <2>1 DEF Ends, Lose
    <2> QED
      BY <2>2, FlowLeft DEF WarmSynced
  <1>14. CASE handleTestRunning \/ handleTestPending \/ handleSwitchingNetwork
    <2>1. phase' \in {"TestRunning", "TestPending", "SwitchingNetwork", "Completed", "Failed"}
      BY <1>14, TestRunningEffect, TestPendingEffect, SwitchingEffect
    <2> QED
      BY <2>1, FlowLeft DEF WarmSynced
  <1>15. CASE Environment
    <2>1. /\ UNCHANGED <<spec, phase, st>> /\ approvals \subseteq approvals'
          /\ \A v \in VM, k \in Disk : dv[v][k].st = "succeeded" => dv'[v][k].st = "succeeded"
      BY <1>15, EnvironmentEffect
    <2> QED
      BY <2>1 DEF FlowInv
  <1>16. CASE UNCHANGED vars
    BY <1>16 DEF vars, FlowInv
  <1> QED
    BY <1>1, <1>2, <1>3, <1>4, <1>5, <1>6, <1>7, <1>8, <1>9, <1>10, <1>11, <1>12, <1>13,
       <1>14, <1>15, <1>16 DEF Next, Reconcile

LEMMA FlowHolds == Spec => []FlowInv
  BY TypesHold, FlowInit, FlowStep, PTL DEF Spec

\* The only passes that ask a source to stop.
LEMMA ShutdownPhases ==
  ASSUME TypeOK, Next, NEW v \in VM, power[v] = "ON", power'[v] # "ON"
  PROVE  phase \in {"PreparingImages", "WarmCutover"}
  <1>1. ASSUME power' = power PROVE FALSE
    BY <1>1
  <1>2. CASE Reconcile /\ ~handlePrepareImages /\ ~handleWarmCutover
    <2>1. power' = power
      BY <1>2, InitEffect, PendingEffect, GuestPrepEffect, FailEffect, WarmPreSyncEffect,
         WarmPreSyncFailsEffect, WarmSyncingEffect, ReadyForCutoverEffect, FinalSyncStageEffect,
         FinalSyncCreateEffect, WaitImportEffect, CreateVMsEffect, TestRunningEffect,
         TestPendingEffect, SwitchingEffect, Zenon DEF Reconcile
    <2> QED
      BY <1>1, <2>1
  <1>3. CASE handlePrepareImages \/ handleWarmCutover
    BY <1>3, PrepareImagesEffect, WarmCutoverEffect
  <1>4. CASE PrismError
    BY <1>1, <1>4, FailEffect
  <1>5. CASE Environment
    BY <1>5, EnvironmentEffect
  <1> QED
    BY <1>2, <1>3, <1>4, <1>5 DEF Next

\* A source VM is shut down only if the spec asks for it, after its own preparation,
\* and in a warm migration after the approval and when a complete pre-copy of every
\* VM exists: with every fault of the environment.
THEOREM ShutdownsAreAllowed == Spec => ShutdownAllowed
  <1>1. TypeOK /\ PreparedInv /\ FlowInv /\ [Next]_vars =>
          [\A v \in VM : power[v] = "ON" /\ power'[v] # "ON" =>
             /\ spec.warm \/ spec.shutdown
             /\ v \in spec.prep => v \in prepped
             /\ spec.warm => /\ spec.pause => "cutover" \in approvals
                             /\ \A w \in VM, k \in Disk : dv[w][k].st = "succeeded"]_vars
    <2> SUFFICES ASSUME TypeOK, PreparedInv, FlowInv, Next, NEW v \in VM,
                        power[v] = "ON", power'[v] # "ON"
                 PROVE  /\ spec.warm \/ spec.shutdown
                        /\ v \in spec.prep => v \in prepped
                        /\ spec.warm => /\ spec.pause => "cutover" \in approvals
                                        /\ \A w \in VM, k \in Disk : dv[w][k].st = "succeeded"
      OBVIOUS
    <2>1. phase \in {"PreparingImages", "WarmCutover"}
      BY ShutdownPhases
    <2> QED
      BY <2>1 DEF FlowInv, PreparedInv, WarmSynced, Copying
  <1> QED
    BY <1>1, TypesHold, PreparedInit, PreparedStep, FlowHolds, PTL DEF Spec, ShutdownAllowed

-----------------------------------------------------------------------------
(***************************************************************************)
(* Completed means migrated.                                               *)
(***************************************************************************)

\* All image requests succeed, and a preparation is only asked for in the modes that
\* image the disks after it.  Otherwise the code goes on with fewer disks (runs
\* migration_image_failed and migration_guest_prep).
Whole ==
    /\ "image" \notin Faults
    /\ \A s \in Specs : s.prep # {} => s.warm \/ s.shutdown

\* A status names the images of all disks or of none; when the import begins every
\* disk has a DataVolume that is not on its way out, and when it ends all have
\* succeeded.
VolumesInv ==
    /\ phase = "GuestPrepping" => spec.prep # {}
    /\ \A v \in VM : st[v].temp = <<>> \/ Len(st[v].temp) = NumDisk
    /\ phase \in WarmSynced => \A v \in VM : Len(st[v].temp) = NumDisk
    /\ \A v \in VM, k \in Disk :
          dv[v][k].st = "deleting" => phase \in {"WarmFinalSync", "Failed"}
    /\ phase = "ImportingDisks" =>
          \A v \in VM : /\ st[v].refs = NumDisk
                        /\ \A k \in Disk : dv[v][k].st \in {"importing", "succeeded"}
    /\ phase \in HandedOver => \A v \in VM, k \in Disk : dv[v][k].st = "succeeded"

LEMMA VolumesInit == Init => VolumesInv
  <1> SUFFICES ASSUME Init PROVE VolumesInv
    OBVIOUS
  <1>1. /\ phase # "GuestPrepping" /\ phase \notin WarmSynced /\ phase # "ImportingDisks"
        /\ phase \notin HandedOver
    BY Zenon DEF Init, WarmSynced, HandedOver
  <1>2. \A v \in VM : st[v].temp = <<>> /\ \A k \in Disk : dv[v][k].st = "none"
    BY Zenon DEF Init
  <1> QED
    BY <1>1, <1>2 DEF VolumesInv

\* The DataVolumes a pass has made sure of.
LEMMA AllCreated ==
  ASSUME TypeOK, TypeOK', VolumesInv, phase \notin {"WarmFinalSync", "Failed"},
         NEW v \in VM, NEW k \in Disk,
         dv'[v][k] = dv[v][k] \/ dv'[v][k].st = "importing", dv'[v][k].st # "none"
  PROVE  dv'[v][k].st \in {"importing", "succeeded"}
  <1>1. dv[v][k].st # "deleting"
    BY DEF VolumesInv
  <1>2. dv'[v][k].st \in {"none", "importing", "succeeded", "deleting"}
    BY DEF TypeOK, DataVolume
  <1> QED
    BY <1>1, <1>2

LEMMA VolumesStep == Whole => (TypeOK /\ FlowInv /\ VolumesInv /\ [Next]_vars => VolumesInv')
  <1> SUFFICES ASSUME Whole, TypeOK, FlowInv, VolumesInv, [Next]_vars PROVE VolumesInv'
    OBVIOUS
  <1>0. TypeOK'
    BY TypeStep
  <1>1. CASE handleInit
    <2>1. phase' \in {phase, "Pending"} /\ UNCHANGED <<spec, st, dv>>
      BY <1>1, InitEffect DEF Ends, Lose
    <2>2. phase \notin {"WarmFinalSync", "Failed"}
      BY <1>1, Zenon DEF handleInit
    <2> QED
      BY <2>1, <2>2 DEF VolumesInv, WarmSynced, HandedOver
  <1>2. CASE handlePending
    <2>1. phase = "Pending" /\ spec' = spec /\ \A v \in VM : st'[v].temp = st[v].temp
      BY <1>2, PendingEffect DEF Kept
    <2>2. CASE ~Direct
      <3>1. /\ dv' = dv
            /\ Ends(IF spec.prep # {} THEN "GuestPrepping" ELSE nextPhaseAfterGuestPrep)
        BY <1>2, <2>2, PendingEffect
      <3>2. /\ phase' \in {phase, "GuestPrepping", "WarmPreSync", "PreparingImages"}
            /\ phase' = "GuestPrepping" => spec.prep # {}
        BY <2>1, <2>2, <3>1, AfterPrep DEF Direct, Ends, Lose
      <3> QED
        BY <2>1, <3>1, <3>2 DEF VolumesInv, WarmSynced, HandedOver
    <2>3. CASE Direct
      <3>1. /\ phase' \in {phase, "ImportingDisks"}
            /\ \A v \in VM, k \in Disk :
                  dv'[v][k] = dv[v][k] \/ (dv[v][k].st = "none" /\ dv'[v][k].st = "importing")
            /\ phase' # phase => \A v \in VM : /\ st'[v].refs = NumDisk
                                               /\ \A k \in Disk : dv'[v][k].st # "none"
        BY <1>2, <2>3, PendingEffect DEF Ends, Lose
      <3>2. \A v \in VM, k \in Disk : dv'[v][k].st # "deleting"
        BY <2>1, <3>1 DEF VolumesInv
      <3>3. phase' # phase => \A v \in VM, k \in Disk : dv'[v][k].st \in {"importing", "succeeded"}
        BY <1>0, <2>1, <3>1, AllCreated
      <3> QED
        BY <2>1, <3>1, <3>2, <3>3 DEF VolumesInv, WarmSynced, HandedOver
    <2> QED
      BY <2>2, <2>3
  <1>3. CASE GuestPrepRun
    <2>1. /\ phase = "GuestPrepping" /\ UNCHANGED <<spec, dv>>
          /\ \A v \in VM : st'[v].temp = st[v].temp
          /\ phase' \in {"GuestPrepping", "Failed", nextPhaseAfterGuestPrep}
      BY <1>3, GuestPrepEffect DEF Kept
    <2>2. spec.prep # {} /\ spec \in Specs
      BY <2>1 DEF VolumesInv, TypeOK
    <2>3. spec.warm \/ spec.shutdown
      BY <2>2 DEF Whole
    <2>4. phase' \in {"GuestPrepping", "Failed", "WarmPreSync", "PreparingImages"}
      BY <2>1, <2>3, AfterPrep
    <2> QED
      BY <2>1, <2>2, <2>4 DEF VolumesInv, WarmSynced, HandedOver
  <1>4. CASE PrismError \/ GuestPrepFailed
    <2>1. phase' = "Failed" /\ UNCHANGED <<spec, st, dv>>
      BY <1>4, FailEffect
    <2> QED
      BY <2>1 DEF VolumesInv, WarmSynced, HandedOver
  <1>5. CASE handlePrepareImages
    <2>1. phase = "PreparingImages"
      BY <1>5, PrepareImagesEffect
    <2>2. CASE /\ \A v \in VM : st[v].temp # <<>>
               /\ Ends("ImportingDisks") /\ Creates(temps(st))
               /\ phase' # phase => /\ CreatesAll(temps(st))
                                    /\ \A v \in VM : /\ st'[v].temp = st[v].temp
                                                     /\ st'[v].refs = Len(st[v].temp)
               /\ phase' = phase => st' = st
      <3>1. phase' \in {phase, "ImportingDisks"} /\ \A v \in VM : st'[v].temp = st[v].temp
        BY <2>2 DEF Ends, Lose
      <3>2. \A v \in VM : Len(st[v].temp) = NumDisk /\ temps(st)[v] = st[v].temp
        BY <2>2 DEF VolumesInv, temps
      <3>3. \A v \in VM, k \in Disk : /\ dv'[v][k] = dv[v][k] \/ dv'[v][k].st = "importing"
                                      /\ phase' # phase => dv'[v][k].st # "none"
        <4>1. \A v \in VM, k \in Disk : k <= Len(temps(st)[v])
          BY <3>2, MigrationAssumption DEF Disk
        <4>2. \A v \in VM, k \in Disk : dv'[v][k] = dv[v][k] \/ dv'[v][k].st = "importing"
          BY <2>2, CreatesFields
        <4> QED
          BY <2>2, <4>1, <4>2 DEF CreatesAll
      <3>4. \A v \in VM, k \in Disk : dv'[v][k].st # "deleting"
        BY <2>1, <3>3 DEF VolumesInv
      <3>5. phase' # phase => \A v \in VM, k \in Disk : dv'[v][k].st \in {"importing", "succeeded"}
        BY <1>0, <2>1, <3>3, AllCreated
      <3>6. phase' # phase => \A v \in VM : st'[v].refs = NumDisk
        BY <2>2, <3>2
      <3> QED
        BY <2>1, <3>1, <3>4, <3>5, <3>6 DEF VolumesInv, WarmSynced, HandedOver
    <2>3. CASE /\ dv' = dv /\ phase' \in {phase, "Failed"}
               /\ \A v \in VM : st'[v].temp = st[v].temp \/ st'[v].temp \in SomeImages(v)
      <3>1. \A v \in VM : st'[v].temp = <<>> \/ Len(st'[v].temp) = NumDisk
        <4>1. ASSUME NEW v \in VM, st'[v].temp \in SomeImages(v)
              PROVE  Len(st'[v].temp) = NumDisk
          <5>1. st'[v].temp = Images(v)
            BY <4>1, SomeImagesType DEF Whole
          <5> QED
            BY <5>1, ImagesType
        <4> QED
          BY <2>3, <4>1 DEF VolumesInv
      <3> QED
        BY <2>1, <2>3, <3>1 DEF VolumesInv, WarmSynced, HandedOver
    <2> QED
      BY <1>5, <2>2, <2>3, PrepareImagesEffect
  <1>6. CASE handleWarmPreSync
    <2>1. /\ phase = "WarmPreSync" /\ Ends("WarmSyncing")
          /\ \A v \in VM, k \in Disk :
               dv'[v][k] = dv[v][k] \/ (dv[v][k].st = "none" /\ dv'[v][k].st = "importing")
          /\ phase' = phase => st' = st
          /\ phase' # phase => \A v \in VM : st'[v].temp = Images(v)
      BY <1>6, WarmPreSyncEffect
    <2>2. phase' \in {phase, "WarmSyncing"}
      BY <2>1 DEF Ends, Lose
    <2>3. phase' # phase => \A v \in VM : Len(st'[v].temp) = NumDisk
      BY <2>1, ImagesType
    <2>4. \A v \in VM, k \in Disk : dv'[v][k].st # "deleting"
      BY <2>1 DEF VolumesInv
    <2> QED
      BY <2>1, <2>2, <2>3, <2>4 DEF VolumesInv, WarmSynced, HandedOver
  <1>7. CASE WarmPreSyncFails
    <2>1. phase = "WarmPreSync" /\ phase' \in {phase, "Failed"} /\ UNCHANGED <<st, dv>>
      BY <1>7, WarmPreSyncFailsEffect DEF Lose
    <2> QED
      BY <2>1 DEF VolumesInv, WarmSynced, HandedOver
  <1>8. CASE handleWarmSyncing \/ handleReadyForCutover
    <2>1. /\ phase \in {"WarmSyncing", "ReadyForCutover"} /\ dv' = dv
          /\ phase' \in {phase, "ReadyForCutover", "WarmCutover"}
          /\ \A v \in VM : st'[v].temp = st[v].temp
      BY <1>8, WarmSyncingEffect, ReadyForCutoverEffect DEF Ends, Lose, Kept
    <2> QED
      BY <2>1 DEF VolumesInv, WarmSynced, HandedOver
  <1>9. CASE handleWarmCutover
    <2>1. /\ phase = "WarmCutover" /\ dv' = dv /\ \A v \in VM : st'[v].temp = st[v].temp
          /\ phase' \in {phase, "WarmFinalSync", "CreatingVMs"}
      BY <1>9, WarmCutoverEffect DEF Kept
    <2>2. \A v \in VM, k \in Disk : dv'[v][k].st = "succeeded"
      BY <2>1 DEF FlowInv
    <2> QED
      BY <2>1, <2>2 DEF VolumesInv, WarmSynced, HandedOver
  <1>10. CASE FinalSyncStage
    <2>1. /\ phase = "WarmFinalSync" /\ phase' \in {phase, "Failed"}
          /\ \A v \in VM : st'[v] = st[v] \/ st'[v].temp = Images(v)
      BY <1>10, FinalSyncStageEffect
    <2>2. \A v \in VM : Len(st'[v].temp) = NumDisk
      BY <2>1, ImagesType DEF VolumesInv, WarmSynced
    <2> QED
      BY <2>1, <2>2 DEF VolumesInv, WarmSynced, HandedOver
  <1>11. CASE FinalSyncCreate
    <2>1. /\ phase = "WarmFinalSync" /\ Ends("ImportingDisks") /\ Creates(temps(st))
          /\ \A v \in VM : \A k \in 1 .. st[v].refs : dv[v][k].st = "none"
          /\ phase' # phase => /\ CreatesAll(temps(st))
                               /\ \A v \in VM : /\ st'[v].temp = st[v].temp
                                                /\ st'[v].refs = Len(st[v].temp)
          /\ phase' = phase => st' = st
      BY <1>11, FinalSyncCreateEffect
    <2>2. phase' \in {phase, "ImportingDisks"} /\ \A v \in VM : st'[v].temp = st[v].temp
      BY <2>1 DEF Ends, Lose
    <2>3. \A v \in VM : /\ st[v].refs = NumDisk /\ Len(st[v].temp) = NumDisk
                        /\ temps(st)[v] = st[v].temp
      BY <2>1 DEF FlowInv, VolumesInv, WarmSynced, temps
    <2>4. \A v \in VM, k \in Disk : dv[v][k].st = "none" /\ k <= Len(temps(st)[v])
      BY <2>1, <2>3, MigrationAssumption DEF Disk
    <2>5. \A v \in VM, k \in Disk : dv'[v][k] = dv[v][k] \/ dv'[v][k].st = "importing"
      BY <2>1, CreatesFields
    <2>6. phase' # phase => \A v \in VM, k \in Disk : dv'[v][k].st = "importing"
      BY <2>1, <2>4, <2>5 DEF CreatesAll
    <2> QED
      BY <2>1, <2>2, <2>3, <2>6 DEF VolumesInv, WarmSynced, HandedOver
  <1>12. CASE handleWaitImport
    <2>1. /\ phase = "ImportingDisks" /\ dv' = dv
          /\ \A v \in VM : st'[v].temp = st[v].temp /\ st'[v].refs = st[v].refs
          /\ phase' = phase \/ (phase' = "CreatingVMs" /\ \A v \in VM : DisksOf(v))
      BY <1>12, WaitImportEffect DEF Kept
    <2>2. phase' # phase => \A v \in VM, k \in Disk : dv'[v][k].st = "succeeded"
      BY <2>1 DEF VolumesInv, DisksOf, Disk
    <2> QED
      BY <2>1, <2>2 DEF VolumesInv, WarmSynced, HandedOver
  <1>13. CASE handleCreateVMs
    <2>1. /\ phase = "CreatingVMs" /\ Ends(IF hasTestTarget THEN "TestRunning" ELSE "Completed")
          /\ dv' = dv /\ \A v \in VM : st'[v].temp = st[v].temp
      BY <1>13, CreateVMsEffect
    <2>2. phase' \in {phase, "TestRunning", "Completed"}
      BY <2>1 DEF Ends, Lose
    <2> QED
      BY <2>1, <2>2 DEF VolumesInv, WarmSynced, HandedOver
  <1>14. CASE handleTestRunning \/ handleTestPending \/ handleSwitchingNetwork
    <2>1. /\ phase \in {"TestRunning", "TestPending", "SwitchingNetwork"} /\ UNCHANGED <<st, dv>>
          /\ phase' \in {phase, "TestPending", "SwitchingNetwork", "Completed", "Failed"}
      BY <1>14, TestRunningEffect, TestPendingEffect, SwitchingEffect
    <2> QED
      BY <2>1 DEF VolumesInv, WarmSynced, HandedOver
  <1>15. CASE Environment
    <2>1. /\ UNCHANGED <<spec, phase, st>>
          /\ \A v \in VM, k \in Disk :
               \/ dv'[v][k] = dv[v][k]
               \/ dv[v][k].st = "importing" /\ dv'[v][k].st = "succeeded"
               \/ dv[v][k].st = "deleting" /\ dv'[v][k].st = "none"
      BY <1>15, EnvironmentEffect
    <2> QED
      BY <2>1 DEF VolumesInv
  <1>16. CASE UNCHANGED vars
    BY <1>16 DEF vars, VolumesInv
  <1> QED
    BY <1>1, <1>2, <1>3, <1>4, <1>5, <1>6, <1>7, <1>8, <1>9, <1>10, <1>11, <1>12, <1>13,
       <1>14, <1>15, <1>16 DEF Next, Reconcile

\* The phases after CreatingVMs are reached when every VM has been created.
MadeInv ==
    phase \in {"TestRunning", "TestPending", "SwitchingNetwork", "Completed"} =>
        \A v \in VM : vm[v].made

LEMMA MadeStep == "prism_create" \notin Faults => (TypeOK /\ MadeInv /\ [Next]_vars => MadeInv')
  <1> SUFFICES ASSUME "prism_create" \notin Faults, TypeOK, MadeInv, [Next]_vars PROVE MadeInv'
    OBVIOUS
  <1>1. CASE /\ Reconcile \/ PrismError
             /\ ~handleCreateVMs /\ ~handleTestRunning /\ ~handleTestPending
             /\ ~handleSwitchingNetwork
    BY <1>1, MachinesKept DEF MadeInv
  <1>2. CASE handleCreateVMs
    <2>1. /\ phase = "CreatingVMs"
          /\ phase' # phase => \A v \in VM : vm'[v].made
      BY <1>2, CreateVMsEffect
    <2> QED
      BY <2>1 DEF MadeInv
  <1>3. CASE handleTestRunning \/ handleTestPending \/ handleSwitchingNetwork
    <2>1. /\ phase \in {"TestRunning", "TestPending", "SwitchingNetwork"}
          /\ \A v \in VM : vm'[v] = vm[v] \/ vm'[v].made = vm[v].made
      BY <1>3, TestRunningEffect, TestPendingEffect, SwitchingEffect
    <2> QED
      BY <2>1 DEF MadeInv
  <1>4. CASE Environment
    <2>1. phase' = phase /\ \A v \in VM : vm'[v] = vm[v] \/ vm'[v].made = vm[v].made
      BY <1>4, EnvironmentEffect
    <2> QED
      BY <2>1 DEF MadeInv
  <1>5. CASE UNCHANGED vars
    BY <1>5 DEF vars, MadeInv
  <1> QED
    BY <1>1, <1>2, <1>3, <1>4, <1>5 DEF Next

\* Completed means that every VM has a VirtualMachine and all its disks were
\* imported: in a migration whose image requests succeed, whose VMs are found when
\* they are created, and that asks for a preparation only in the modes that image
\* the disks after it.  The code does not make sure of either (runs
\* migration_image_failed, migration_skipped_vm and migration_guest_prep).
THEOREM CompletedIsMigrated ==
  Whole /\ "prism_create" \notin Faults => (Spec => []AllMigrated)
  <1> SUFFICES ASSUME Whole, "prism_create" \notin Faults PROVE Spec => []AllMigrated
    OBVIOUS
  <1>1. Init => VolumesInv /\ MadeInv
    <2>1. Init => MadeInv
      BY Zenon DEF Init, MadeInv
    <2> QED
      BY <2>1, VolumesInit
  <1>2. /\ TypeOK /\ FlowInv /\ VolumesInv /\ [Next]_vars => VolumesInv'
        /\ TypeOK /\ MadeInv /\ [Next]_vars => MadeInv'
    BY VolumesStep, MadeStep
  <1>3. VolumesInv /\ MadeInv => AllMigrated
    BY DEF VolumesInv, MadeInv, AllMigrated, HandedOver
  <1> QED
    BY <1>1, <1>2, <1>3, TypesHold, FlowHolds, PTL DEF Spec

-----------------------------------------------------------------------------
(***************************************************************************)
(* The content that is handed over.                                        *)
(***************************************************************************)

\* The spec is never changed, and a source that is off stays off and keeps its
\* content.
LEMMA SourcesStep ==
  ASSUME TypeOK, [Next]_vars
  PROVE  spec' = spec /\ \A v \in VM : power[v] = "OFF" => power'[v] = "OFF" /\ src'[v] = src[v]
  <1>1. CASE Reconcile /\ ~handlePrepareImages /\ ~handleWarmCutover
    <2>1. spec' = spec /\ power' = power /\ src' = src
      BY <1>1, InitEffect, PendingEffect, GuestPrepEffect, FailEffect, WarmPreSyncEffect,
         WarmPreSyncFailsEffect, WarmSyncingEffect, ReadyForCutoverEffect, FinalSyncStageEffect,
         FinalSyncCreateEffect, WaitImportEffect, CreateVMsEffect, TestRunningEffect,
         TestPendingEffect, SwitchingEffect, Zenon DEF Reconcile
    <2> QED
      BY <2>1
  <1>2. CASE handlePrepareImages
    BY <1>2, PrepareImagesEffect
  <1>3. CASE handleWarmCutover
    BY <1>3, WarmCutoverEffect
  <1>4. CASE PrismError
    BY <1>4, FailEffect
  <1>5. CASE Environment
    BY <1>5, EnvironmentEffect
  <1>6. CASE UNCHANGED vars
    BY <1>6 DEF vars
  <1> QED
    BY <1>1, <1>2, <1>3, <1>4, <1>5, <1>6 DEF Next

LEMMA ImagesKept ==
  ASSUME NEW v \in VM, src'[v] = src[v]
  PROVE  Images(v)' = Images(v)
  BY DEF Images

\* The DataVolume holds the content of its own source disk.
Right(v, k) == dv[v][k].holds = [disk |-> k, ver |-> src[v][k]]

\* A cold migration images only what is off, and imports only these images.
ColdInv ==
    ~spec.warm =>
        \A v \in VM :
            /\ st[v].temp # <<>> => power[v] = "OFF" /\ st[v].temp = Images(v)
            /\ spec.shutdown =>
                  \A k \in Disk : dv[v][k].st # "none" =>
                      /\ power[v] = "OFF" /\ Right(v, k)
                      /\ dv[v][k].st \in {"importing", "succeeded"}

LEMMA ColdInit == Init => ColdInv
  <1> SUFFICES ASSUME Init PROVE ColdInv
    OBVIOUS
  <1>1. \A v \in VM : st[v].temp = <<>> /\ \A k \in Disk : dv[v][k].st = "none"
    BY Zenon DEF Init
  <1> QED
    BY <1>1 DEF ColdInv

\* A step that changes no image reference and no DataVolume.
LEMMA ColdKept ==
  ASSUME ColdInv, spec' = spec, \A v \in VM : st'[v].temp = st[v].temp,
         \A v \in VM : power[v] = "OFF" => power'[v] = "OFF" /\ src'[v] = src[v],
         dv' = dv \/ ~spec.shutdown
  PROVE  ColdInv'
  <1> SUFFICES ASSUME ~spec.warm, NEW v \in VM
               PROVE  /\ st'[v].temp # <<>> => power'[v] = "OFF" /\ st'[v].temp = Images(v)'
                      /\ spec.shutdown =>
                            \A k \in Disk : dv'[v][k].st # "none" =>
                               /\ power'[v] = "OFF" /\ Right(v, k)'
                               /\ dv'[v][k].st \in {"importing", "succeeded"}
    BY DEF ColdInv
  <1>1. CASE power[v] = "OFF"
    <2>1. power'[v] = "OFF" /\ src'[v] = src[v] /\ Images(v)' = Images(v)
      BY <1>1, ImagesKept
    <2>2. \A k \in Disk : dv' = dv => Right(v, k)' = Right(v, k)
      BY <2>1 DEF Right
    <2> QED
      BY <2>1, <2>2 DEF ColdInv
  <1>2. CASE power[v] # "OFF"
    BY <1>2 DEF ColdInv
  <1> QED
    BY <1>1, <1>2

LEMMA ColdPrepare ==
  ASSUME "image" \notin Faults, TypeOK, TypeOK', FlowInv, ColdInv, handlePrepareImages
  PROVE  ColdInv'
  <1>1. /\ phase = "PreparingImages" /\ spec' = spec /\ src' = src
        /\ \A v \in VM : power[v] = "OFF" => power'[v] = "OFF"
    BY PrepareImagesEffect
  <1>2. ~spec.warm /\ spec.shutdown
    BY <1>1 DEF FlowInv
  <1>3. \A v \in VM : Images(v)' = Images(v)
    BY <1>1, ImagesKept
  <1>4. CASE /\ \A v \in VM : power[v] = "OFF" /\ st[v].temp # <<>> /\ power'[v] = "OFF"
             /\ Creates(temps(st)) /\ \A v \in VM : st'[v].temp = st[v].temp
    <2>1. \A v \in VM : st[v].temp = Images(v) /\ temps(st)[v] = st[v].temp
      BY <1>2, <1>4 DEF ColdInv, temps
    <2>2. \A v \in VM : st'[v].temp = Images(v)'
      BY <1>3, <1>4, <2>1
    <2>3. ASSUME NEW v \in VM, NEW k \in Disk, dv'[v][k].st # "none"
          PROVE  Right(v, k)' /\ dv'[v][k].st \in {"importing", "succeeded"}
      <3>1. CASE dv'[v][k] = dv[v][k]
        BY <1>1, <1>2, <2>3, <3>1 DEF ColdInv, Right
      <3>2. CASE dv'[v][k].st = "importing" /\ dv'[v][k].holds = temps(st)[v][k]
        <4>1. dv'[v][k].holds = Images(v)[k] /\ Images(v)[k] = [disk |-> k, ver |-> src[v][k]]
          BY <2>1, <3>2, ImagesType
        <4> QED
          BY <1>1, <3>2, <4>1 DEF Right
      <3> QED
        BY <1>4, <3>1, <3>2, CreatesFields
    <2> QED
      BY <1>1, <1>4, <2>2, <2>3 DEF ColdInv
  <1>5. CASE /\ dv' = dv
             /\ \A v \in VM : \/ st'[v].temp = st[v].temp
                              \/ power[v] = "OFF" /\ st'[v].temp \in SomeImages(v)
    <2>1. \A v \in VM : st'[v].temp \in SomeImages(v) => st'[v].temp = Images(v)
      BY SomeImagesType
    <2>2. \A v \in VM : st'[v].temp # <<>> => power'[v] = "OFF" /\ st'[v].temp = Images(v)'
      BY <1>1, <1>2, <1>3, <1>5, <2>1 DEF ColdInv
    <2>3. \A v \in VM, k \in Disk : Right(v, k)' = Right(v, k)
      BY <1>1, <1>5 DEF Right
    <2> QED
      BY <1>1, <1>2, <1>5, <2>2, <2>3 DEF ColdInv
  <1>6. \/ /\ \A v \in VM : power[v] = "OFF" /\ st[v].temp # <<>> /\ power'[v] = "OFF"
           /\ Creates(temps(st)) /\ \A v \in VM : st'[v].temp = st[v].temp
        \/ /\ dv' = dv
           /\ \A v \in VM : \/ st'[v].temp = st[v].temp
                            \/ power[v] = "OFF" /\ st'[v].temp \in SomeImages(v)
    BY PrepareImagesEffect
  <1> QED
    BY <1>4, <1>5, <1>6

LEMMA ColdStep ==
  "image" \notin Faults => (TypeOK /\ FlowInv /\ ColdInv /\ [Next]_vars => ColdInv')
  <1> SUFFICES ASSUME "image" \notin Faults, TypeOK, FlowInv, ColdInv, [Next]_vars PROVE ColdInv'
    OBVIOUS
  <1>0. /\ TypeOK' /\ spec' = spec
        /\ \A v \in VM : power[v] = "OFF" => power'[v] = "OFF" /\ src'[v] = src[v]
    BY TypeStep, SourcesStep
  <1>1. CASE handleInit \/ PrismError \/ GuestPrepFailed
    <2>1. st' = st /\ dv' = dv
      BY <1>1, InitEffect, FailEffect
    <2> QED
      BY <1>0, <2>1, ColdKept
  <1>2. CASE handlePending
    <2>1. /\ \A v \in VM : st'[v].temp = st[v].temp
          /\ dv' = dv \/ Direct
      BY <1>2, PendingEffect DEF Kept
    <2>2. Direct => ~spec.shutdown \/ spec.warm
      BY AfterPrep DEF Direct
    <2> QED
      BY <1>0, <2>1, <2>2, ColdKept DEF ColdInv
  <1>3. CASE GuestPrepRun
    <2>1. dv' = dv /\ \A v \in VM : st'[v].temp = st[v].temp
      BY <1>3, GuestPrepEffect DEF Kept
    <2> QED
      BY <1>0, <2>1, ColdKept
  <1>4. CASE handlePrepareImages
    BY <1>0, <1>4, ColdPrepare
  <1>5. CASE handleWarmPreSync \/ WarmPreSyncFails \/ handleWarmSyncing \/ handleReadyForCutover
             \/ handleWarmCutover \/ FinalSyncStage \/ FinalSyncCreate
    <2>1. phase = "WarmPreSync" \/ phase \in WarmSynced
      BY <1>5 DEF handleWarmPreSync, WarmPreSyncFails, handleWarmSyncing, handleReadyForCutover,
         handleWarmCutover, FinalSyncStage, FinalSyncCreate, WarmSynced
    <2> QED
      BY <1>0, <2>1 DEF FlowInv, ColdInv
  <1>6. CASE handleWaitImport \/ handleCreateVMs
    <2>1. dv' = dv /\ \A v \in VM : st'[v].temp = st[v].temp
      BY <1>6, WaitImportEffect, CreateVMsEffect DEF Kept
    <2> QED
      BY <1>0, <2>1, ColdKept
  <1>7. CASE handleTestRunning \/ handleTestPending \/ handleSwitchingNetwork
    <2>1. dv' = dv /\ st' = st
      BY <1>7, TestRunningEffect, TestPendingEffect, SwitchingEffect
    <2> QED
      BY <1>0, <2>1, ColdKept
  <1>8. CASE Environment
    <2>1. /\ st' = st
          /\ \A v \in VM, k \in Disk :
               \/ dv'[v][k] = dv[v][k]
               \/ /\ dv[v][k].st = "importing" /\ dv'[v][k].st = "succeeded"
                  /\ dv'[v][k].holds = dv[v][k].holds
               \/ dv[v][k].st = "deleting" /\ dv'[v][k].st = "none"
      BY <1>8, EnvironmentEffect
    <2>2. \A v \in VM : power[v] = "OFF" => Images(v)' = Images(v)
      BY <1>0, ImagesKept
    <2>3. ASSUME ~spec.warm, spec.shutdown, NEW v \in VM, NEW k \in Disk, dv'[v][k].st # "none"
          PROVE  /\ power'[v] = "OFF" /\ Right(v, k)'
                 /\ dv'[v][k].st \in {"importing", "succeeded"}
      <3>1. dv[v][k].st # "none"
        BY <2>1, <2>3
      <3>2. power[v] = "OFF" /\ Right(v, k) /\ dv[v][k].st \in {"importing", "succeeded"}
        BY <2>3, <3>1 DEF ColdInv
      <3> QED
        BY <1>0, <2>1, <3>2 DEF Right
    <2> QED
      BY <1>0, <2>1, <2>2, <2>3 DEF ColdInv
  <1>9. CASE UNCHANGED vars
    BY <1>9, <1>0, ColdKept DEF vars
  <1> QED
    BY <1>1, <1>2, <1>3, <1>4, <1>5, <1>6, <1>7, <1>8, <1>9 DEF Next, Reconcile

\* The final sync images stopped sources only, and its mark is not there before.
FinalInv ==
    /\ phase \in {"WarmSyncing", "ReadyForCutover", "WarmCutover"} =>
          \A v \in VM : st[v].phase # "FinalSyncImaged"
    /\ phase = "WarmFinalSync" =>
          \A v \in VM : /\ power[v] = "OFF"
                        /\ st[v].phase = "FinalSyncImaged" => st[v].temp = Images(v)

LEMMA FinalInit == Init => FinalInv
  <1> SUFFICES ASSUME Init PROVE FinalInv
    OBVIOUS
  <1>1. phase \notin {"WarmSyncing", "ReadyForCutover", "WarmCutover"} /\ phase # "WarmFinalSync"
    BY Zenon DEF Init
  <1> QED
    BY <1>1 DEF FinalInv

\* The handlers of the phases before and after the warm ones do not enter them.
LEMMA WarmEntered ==
  ASSUME TypeOK, Reconcile \/ PrismError, phase' \in WarmSynced
  PROVE  \/ handleWarmPreSync \/ handleWarmSyncing \/ handleReadyForCutover
         \/ handleWarmCutover \/ FinalSyncStage \/ FinalSyncCreate
  <1>1. CASE handleInit
    <2>1. phase' \in {phase, "Pending"}
      BY <1>1, InitEffect DEF Ends, Lose
    <2>2. phase \notin WarmSynced
      BY <1>1, Zenon DEF handleInit, WarmSynced
    <2> QED
      BY <2>1, <2>2 DEF WarmSynced
  <1>2. CASE handlePending \/ GuestPrepRun
    <2>1. phase' \in {"Pending", "GuestPrepping", "Failed", nextPhaseAfterGuestPrep}
      BY <1>2, PendingEffect, GuestPrepEffect DEF Ends, Lose, Direct
    <2> QED
      BY <2>1, AfterPrep DEF WarmSynced
  <1>3. CASE PrismError \/ GuestPrepFailed
    BY <1>3, FailEffect DEF WarmSynced
  <1>4. CASE handlePrepareImages
    <2>1. phase = "PreparingImages" /\ (Ends("ImportingDisks") \/ phase' \in {phase, "Failed"})
      BY <1>4, PrepareImagesEffect
    <2> QED
      BY <2>1 DEF Ends, Lose, WarmSynced
  <1>5. CASE WarmPreSyncFails
    BY <1>5, WarmPreSyncFailsEffect DEF Lose, WarmSynced
  <1>6. CASE handleWaitImport
    BY <1>6, WaitImportEffect DEF WarmSynced
  <1>7. CASE handleCreateVMs
    <2>1. phase = "CreatingVMs" /\ Ends(IF hasTestTarget THEN "TestRunning" ELSE "Completed")
      BY <1>7, CreateVMsEffect
    <2> QED
      BY <2>1 DEF Ends, Lose, WarmSynced
  <1>8. CASE handleTestRunning \/ handleTestPending \/ handleSwitchingNetwork
    <2>1. phase' \in {"TestRunning", "TestPending", "SwitchingNetwork", "Completed", "Failed"}
      BY <1>8, TestRunningEffect, TestPendingEffect, SwitchingEffect
    <2> QED
      BY <2>1 DEF WarmSynced
  <1> QED
    BY <1>1, <1>2, <1>3, <1>4, <1>5, <1>6, <1>7, <1>8 DEF Reconcile

LEMMA FinalStep == TypeOK /\ FinalInv /\ [Next]_vars => FinalInv'
  <1> SUFFICES ASSUME TypeOK, FinalInv, [Next]_vars PROVE FinalInv'
    OBVIOUS
  <1>0. \A v \in VM : power[v] = "OFF" => /\ power'[v] = "OFF" /\ src'[v] = src[v]
                                          /\ Images(v)' = Images(v)
    BY SourcesStep, ImagesKept
  <1>1. CASE phase' \notin WarmSynced
    BY <1>1 DEF FinalInv, WarmSynced
  <1>2. CASE handleWarmPreSync
    <2>1. /\ phase = "WarmPreSync" /\ phase' \in {phase, "WarmSyncing"}
          /\ phase' # phase => \A v \in VM : st'[v].phase = "ImportingDisks"
      BY <1>2, WarmPreSyncEffect DEF Ends, Lose
    <2> QED
      BY <2>1 DEF FinalInv
  <1>3. CASE handleWarmSyncing
    <2>1. /\ phase = "WarmSyncing" /\ phase' \in {phase, "ReadyForCutover", "WarmCutover"}
          /\ \A v \in VM : st'[v].phase \in {st[v].phase, "WarmSyncDone"}
      BY <1>3, WarmSyncingEffect
    <2> QED
      BY <2>1 DEF FinalInv
  <1>4. CASE handleReadyForCutover
    <2>1. phase = "ReadyForCutover" /\ phase' \in {phase, "WarmCutover"} /\ st' = st
      BY <1>4, ReadyForCutoverEffect DEF Ends, Lose
    <2> QED
      BY <2>1 DEF FinalInv
  <1>5. CASE handleWarmCutover
    <2>1. /\ phase = "WarmCutover"
          /\ \A v \in VM : st'[v].phase \in {st[v].phase, "ShuttingDown"}
          /\ \/ phase' = phase
             \/ phase' \in {"WarmFinalSync", "CreatingVMs"} /\ \A v \in VM : power'[v] = "OFF"
      BY <1>5, WarmCutoverEffect
    <2> QED
      BY <2>1 DEF FinalInv
  <1>6. CASE FinalSyncStage
    <2>1. /\ phase = "WarmFinalSync" /\ phase' \in {phase, "Failed"}
          /\ \A v \in VM : st'[v] = st[v] \/ st'[v].temp = Images(v)
      BY <1>6, FinalSyncStageEffect
    <2> QED
      BY <1>0, <2>1 DEF FinalInv
  <1>7. CASE FinalSyncCreate
    <2>1. /\ phase = "WarmFinalSync" /\ phase' \in {phase, "ImportingDisks"}
          /\ phase' = phase => st' = st
      BY <1>7, FinalSyncCreateEffect DEF Ends, Lose
    <2> QED
      BY <1>0, <2>1 DEF FinalInv
  <1>8. CASE Environment
    <2>1. phase' = phase /\ st' = st
      BY <1>8, EnvironmentEffect
    <2> QED
      BY <1>0, <2>1 DEF FinalInv
  <1>9. CASE UNCHANGED vars
    BY <1>0, <1>9 DEF vars, FinalInv
  <1> QED
    BY <1>1, <1>2, <1>3, <1>4, <1>5, <1>6, <1>7, <1>8, <1>9, WarmEntered DEF Next

\* In the modes that stop their sources, these are off when the import begins, and
\* every disk has a DataVolume with its final content; when the import ends, they
\* have succeeded.
ImportInv ==
    StopsSources =>
        /\ phase = "ImportingDisks" =>
              \A v \in VM : /\ power[v] = "OFF" /\ st[v].refs = NumDisk
                            /\ \A k \in Disk : /\ Right(v, k)
                                               /\ dv[v][k].st \in {"importing", "succeeded"}
        /\ phase \in HandedOver =>
              \A v \in VM : /\ power[v] = "OFF"
                            /\ \A k \in Disk : Right(v, k) /\ dv[v][k].st = "succeeded"

LEMMA ImportInit == Init => ImportInv
  <1> SUFFICES ASSUME Init PROVE ImportInv
    OBVIOUS
  <1>1. phase # "ImportingDisks" /\ phase \notin HandedOver
    BY Zenon DEF Init, HandedOver
  <1> QED
    BY <1>1 DEF ImportInv

\* The import begins with a complete set of copies of the stopped sources, after the
\* cold images and after the final sync.
LEMMA ImportBegins ==
  ASSUME "image" \notin Faults, TypeOK, FlowInv, ColdInv, ColdInv', FinalInv,
         handlePrepareImages \/ FinalSyncCreate, phase' # phase, phase' # "Failed"
  PROVE  /\ phase' = "ImportingDisks"
         /\ \A v \in VM : /\ power'[v] = "OFF" /\ st'[v].refs = NumDisk
                          /\ \A k \in Disk : /\ Right(v, k)'
                                             /\ dv'[v][k].st \in {"importing", "succeeded"}
  <1>1. CASE handlePrepareImages
    <2>1. /\ phase = "PreparingImages" /\ spec' = spec
          /\ \A v \in VM : st[v].temp # <<>> /\ power'[v] = "OFF"
          /\ Ends("ImportingDisks") /\ CreatesAll(temps(st))
          /\ \A v \in VM : st'[v].refs = Len(st[v].temp)
      BY <1>1, PrepareImagesEffect
    <2>2. phase' = "ImportingDisks"
      BY <2>1 DEF Ends, Lose
    <2>3. ~spec.warm /\ spec.shutdown
      BY <2>1 DEF FlowInv
    <2>4. \A v \in VM : Len(st[v].temp) = NumDisk /\ temps(st)[v] = st[v].temp
      BY <2>1, <2>3, ImagesType DEF ColdInv, temps
    <2>5. \A v \in VM, k \in Disk : k <= Len(temps(st)[v])
      BY <2>4, MigrationAssumption DEF Disk
    <2>6. \A v \in VM, k \in Disk : dv'[v][k].st # "none"
      BY <2>1, <2>5 DEF CreatesAll
    <2>7. \A v \in VM, k \in Disk : Right(v, k)' /\ dv'[v][k].st \in {"importing", "succeeded"}
      BY <2>1, <2>3, <2>6 DEF ColdInv
    <2> QED
      BY <2>1, <2>2, <2>4, <2>7
  <1>2. CASE FinalSyncCreate
    <2>1. /\ phase = "WarmFinalSync" /\ UNCHANGED <<spec, src, power>>
          /\ \A v \in VM : /\ st[v].phase = "FinalSyncImaged"
                           /\ \A k \in 1 .. st[v].refs : dv[v][k].st = "none"
          /\ Ends("ImportingDisks") /\ Creates(temps(st)) /\ CreatesAll(temps(st))
          /\ \A v \in VM : st'[v].refs = Len(st[v].temp)
      BY <1>2, FinalSyncCreateEffect
    <2>2. phase' = "ImportingDisks"
      BY <2>1 DEF Ends, Lose
    <2>3. \A v \in VM : /\ power[v] = "OFF" /\ st[v].temp = Images(v) /\ st[v].refs = NumDisk
                        /\ temps(st)[v] = st[v].temp
      BY <2>1 DEF FinalInv, FlowInv, WarmSynced, temps
    <2>4. \A v \in VM : Len(temps(st)[v]) = NumDisk /\ st'[v].refs = NumDisk
      BY <2>1, <2>3, ImagesType
    <2>5. \A v \in VM, k \in Disk : dv[v][k].st = "none" /\ k <= Len(temps(st)[v])
      BY <2>1, <2>3, <2>4, MigrationAssumption DEF Disk
    <2>6. ASSUME NEW v \in VM, NEW k \in Disk
          PROVE  Right(v, k)' /\ dv'[v][k].st = "importing"
      <3>1. dv'[v][k].st # "none"
        BY <2>1, <2>5 DEF CreatesAll
      <3>2. dv'[v][k].st = "importing" /\ dv'[v][k].holds = temps(st)[v][k]
        BY <2>1, <2>5, <3>1, CreatesFields
      <3>3. temps(st)[v][k] = [disk |-> k, ver |-> src[v][k]]
        BY <2>3, ImagesType
      <3> QED
        BY <2>1, <3>2, <3>3 DEF Right
    <2> QED
      BY <2>1, <2>2, <2>3, <2>4, <2>6
  <1> QED
    BY <1>1, <1>2

LEMMA ImportStep ==
  "image" \notin Faults =>
     (TypeOK /\ FlowInv /\ ColdInv /\ FinalInv /\ ImportInv /\ [Next]_vars => ImportInv')
  <1> SUFFICES ASSUME "image" \notin Faults, TypeOK, FlowInv, ColdInv, FinalInv, ImportInv,
                      [Next]_vars
               PROVE  ImportInv'
    OBVIOUS
  <1> SUFFICES ASSUME StopsSources PROVE ImportInv'
    <2>1. spec' = spec
      BY SourcesStep
    <2>2. StopsSources' = StopsSources
      BY <2>1 DEF StopsSources
    <2> QED
      BY <2>2 DEF ImportInv
  <1>0. /\ spec' = spec /\ ColdInv'
        /\ \A v \in VM : power[v] = "OFF" => power'[v] = "OFF" /\ src'[v] = src[v]
    BY SourcesStep, ColdStep
  <1>1. spec.warm \/ spec.shutdown
    BY DEF StopsSources
  <1>2. ASSUME phase' # "ImportingDisks", phase' \notin HandedOver PROVE ImportInv'
    BY <1>2 DEF ImportInv
  <1>3. CASE handleInit
    <2>1. phase' \in {phase, "Pending"} /\ UNCHANGED <<spec, st, src, power, dv>>
      BY <1>3, InitEffect DEF Ends, Lose
    <2>2. phase # "ImportingDisks" /\ phase \notin HandedOver
      BY <1>3, Zenon DEF handleInit, HandedOver
    <2> QED
      BY <1>2, <2>1, <2>2 DEF HandedOver
  <1>4. CASE handlePending \/ GuestPrepRun
    <2>1. phase' \in {"Pending", "GuestPrepping", "Failed", nextPhaseAfterGuestPrep}
      BY <1>4, PendingEffect, GuestPrepEffect DEF Ends, Lose, Direct
    <2> QED
      BY <1>1, <1>2, <2>1, AfterPrep DEF HandedOver
  <1>5. CASE PrismError \/ GuestPrepFailed
    <2>1. phase' = "Failed"
      BY <1>5, FailEffect
    <2> QED
      BY <1>2, <2>1 DEF HandedOver
  <1>6. CASE handlePrepareImages \/ FinalSyncCreate
    <2>1. phase \in {"PreparingImages", "WarmFinalSync"}
      BY <1>6, PrepareImagesEffect, FinalSyncCreateEffect
    <2>2. CASE phase' = phase \/ phase' = "Failed"
      BY <1>2, <2>1, <2>2 DEF HandedOver
    <2>3. CASE phase' # phase /\ phase' # "Failed"
      <3>1. /\ phase' = "ImportingDisks"
            /\ \A v \in VM : /\ power'[v] = "OFF" /\ st'[v].refs = NumDisk
                             /\ \A k \in Disk : /\ Right(v, k)'
                                                /\ dv'[v][k].st \in {"importing", "succeeded"}
        BY <1>0, <1>6, <2>3, ImportBegins
      <3> QED
        BY <3>1 DEF ImportInv, HandedOver
    <2> QED
      BY <2>2, <2>3
  <1>7. CASE handleWarmPreSync \/ WarmPreSyncFails \/ handleWarmSyncing \/ handleReadyForCutover
             \/ FinalSyncStage
    <2>1. phase' \in {"WarmPreSync", "WarmSyncing", "ReadyForCutover", "WarmCutover",
                      "WarmFinalSync", "Failed"}
      BY <1>7, WarmPreSyncEffect, WarmPreSyncFailsEffect, WarmSyncingEffect,
         ReadyForCutoverEffect, FinalSyncStageEffect DEF Ends, Lose
    <2> QED
      BY <1>2, <2>1 DEF HandedOver
  <1>8. CASE handleWarmCutover
    <2>1. /\ phase = "WarmCutover"
          /\ phase' = phase \/ phase' = IF spec.finalSync THEN "WarmFinalSync" ELSE "CreatingVMs"
      BY <1>8, WarmCutoverEffect
    <2>2. spec.finalSync
      BY <2>1 DEF FlowInv, WarmSynced, StopsSources
    <2> QED
      BY <1>2, <2>1, <2>2 DEF HandedOver
  <1>9. CASE handleWaitImport
    <2>1. /\ phase = "ImportingDisks" /\ UNCHANGED <<src, power, dv>>
          /\ \A v \in VM : st'[v].refs = st[v].refs
          /\ phase' = phase \/ (phase' = "CreatingVMs" /\ \A v \in VM : DisksOf(v))
      BY <1>9, WaitImportEffect DEF Kept
    <2>2. \A v \in VM, k \in Disk : Right(v, k)' = Right(v, k)
      BY <2>1 DEF Right
    <2>3. \A v \in VM : /\ power[v] = "OFF" /\ st[v].refs = NumDisk
                        /\ \A k \in Disk : /\ Right(v, k)
                                           /\ dv[v][k].st \in {"importing", "succeeded"}
      BY <2>1 DEF ImportInv
    <2>4. phase' # phase => \A v \in VM, k \in Disk : dv[v][k].st = "succeeded"
      BY <2>1, <2>3 DEF DisksOf, Disk
    <2> QED
      BY <2>1, <2>2, <2>3, <2>4 DEF ImportInv, HandedOver
  <1>10. CASE handleCreateVMs \/ handleTestRunning \/ handleTestPending \/ handleSwitchingNetwork
    <2>1. /\ phase \in {"CreatingVMs", "TestRunning", "TestPending", "SwitchingNetwork"}
          /\ UNCHANGED <<src, power, dv>>
      BY <1>10, CreateVMsEffect, TestRunningEffect, TestPendingEffect, SwitchingEffect
    <2>2. phase' # "ImportingDisks"
      <3>1. CASE handleCreateVMs
        <4>1. Ends(IF hasTestTarget THEN "TestRunning" ELSE "Completed")
          BY <3>1, CreateVMsEffect
        <4> QED
          BY <2>1, <4>1 DEF Ends, Lose
      <3>2. CASE handleTestRunning \/ handleTestPending \/ handleSwitchingNetwork
        BY <3>2, TestRunningEffect, TestPendingEffect, SwitchingEffect
      <3> QED
        BY <1>10, <3>1, <3>2
    <2>3. \A v \in VM, k \in Disk : Right(v, k)' = Right(v, k)
      BY <2>1 DEF Right
    <2> QED
      BY <2>1, <2>2, <2>3 DEF ImportInv, HandedOver
  <1>11. CASE Environment
    <2>1. /\ phase' = phase /\ st' = st
          /\ \A v \in VM, k \in Disk :
               \/ dv'[v][k] = dv[v][k]
               \/ /\ dv[v][k].st = "importing" /\ dv'[v][k].st = "succeeded"
                  /\ dv'[v][k].holds = dv[v][k].holds
               \/ dv[v][k].st = "deleting" /\ dv'[v][k].st = "none"
      BY <1>11, EnvironmentEffect
    <2>2. ASSUME NEW v \in VM, NEW k \in Disk, power[v] = "OFF", Right(v, k),
                 dv[v][k].st \in {"importing", "succeeded"}
          PROVE  /\ Right(v, k)' /\ dv'[v][k].st \in {"importing", "succeeded"}
                 /\ dv[v][k].st = "succeeded" => dv'[v][k].st = "succeeded"
      BY <1>0, <2>1, <2>2 DEF Right
    <2>3. CASE phase = "ImportingDisks"
      BY <1>0, <2>1, <2>2, <2>3 DEF ImportInv, HandedOver
    <2>4. CASE phase \in HandedOver
      <3>1. \A v \in VM, k \in Disk : Right(v, k)' /\ dv'[v][k].st = "succeeded"
        BY <2>2, <2>4 DEF ImportInv
      <3> QED
        BY <1>0, <2>1, <2>4, <3>1 DEF ImportInv, HandedOver
    <2> QED
      BY <1>2, <2>1, <2>3, <2>4
  <1>12. CASE UNCHANGED vars
    <2>1. \A v \in VM, k \in Disk : Right(v, k)' = Right(v, k)
      BY <1>12 DEF vars, Right
    <2> QED
      BY <1>12, <2>1 DEF vars, ImportInv
  <1> QED
    BY <1>3, <1>4, <1>5, <1>6, <1>7, <1>8, <1>9, <1>10, <1>11, <1>12 DEF Next, Reconcile

LEMMA ImportHolds == "image" \notin Faults => (Spec => []ImportInv)
  <1> SUFFICES ASSUME "image" \notin Faults PROVE Spec => []ImportInv
    OBVIOUS
  <1>1. Init => ColdInv /\ FinalInv /\ ImportInv
    BY ColdInit, FinalInit, ImportInit
  <1>2. /\ TypeOK /\ FlowInv /\ ColdInv /\ [Next]_vars => ColdInv'
        /\ TypeOK /\ FlowInv /\ ColdInv /\ FinalInv /\ ImportInv /\ [Next]_vars => ImportInv'
    BY ColdStep, ImportStep
  <1> QED
    BY <1>1, <1>2, FinalStep, TypesHold, FlowHolds, PTL DEF Spec

\* A DataVolume is a record of its two fields.
LEMMA VolumeIs ==
  ASSUME TypeOK, NEW v \in VM, NEW k \in Disk
  PROVE  dv[v][k] = [st |-> "succeeded", holds |-> [disk |-> k, ver |-> src[v][k]]] <=>
            Right(v, k) /\ dv[v][k].st = "succeeded"
  <1>1. dv[v][k] \in DataVolume
    BY DEF TypeOK
  <1>2. dv[v][k] = [st |-> dv[v][k].st, holds |-> dv[v][k].holds]
    BY <1>1 DEF DataVolume
  <1>3. ASSUME NEW x, NEW d, d = [st |-> "succeeded", holds |-> x]
        PROVE  d.st = "succeeded" /\ d.holds = x
    BY <1>3
  <1> QED
    BY <1>2, <1>3, Zenon DEF Right

\* In the modes that stop their sources, once the migration is past the import every
\* disk of every VM has a DataVolume that holds the final content of exactly that
\* disk, if all image requests of a cold migration succeed.  When one fails, the list
\* of the images closes up (run migration_image_failed).
THEOREM CopiesAreConsistent == "image" \notin Faults => (Spec => []CopyConsistent)
  <1> SUFFICES ASSUME "image" \notin Faults PROVE Spec => []CopyConsistent
    OBVIOUS
  <1>1. TypeOK /\ ImportInv => CopyConsistent
    BY VolumeIs DEF ImportInv, CopyConsistent
  <1> QED
    BY <1>1, TypesHold, ImportHolds, PTL

-----------------------------------------------------------------------------
(***************************************************************************)
(* The hand-over.                                                          *)
(***************************************************************************)

\* The import is left for CreatingVMs in one place, and the phases after it are left
\* only for one another and for Failed.
LEMMA HandedOverPhases ==
  ASSUME TypeOK, Reconcile \/ PrismError
  PROVE  /\ phase # "Failed"
         /\ phase \in HandedOver =>
               phase' \in HandedOver \cup {"Failed"} /\ UNCHANGED <<src, power, dv>>
         /\ phase \notin HandedOver /\ phase' \in HandedOver =>
               handleWaitImport \/ handleWarmCutover
  <1>1. phase # "Failed"
    BY OrphansEffect
  <1>2. CASE handleInit
    <2>1. phase' \in {phase, "Pending"}
      BY <1>2, InitEffect DEF Ends, Lose
    <2>2. phase \notin HandedOver
      BY <1>2, Zenon DEF handleInit, HandedOver
    <2> QED
      BY <1>1, <2>1, <2>2 DEF HandedOver
  <1>3. CASE handlePending \/ GuestPrepRun
    <2>1. /\ phase \in {"Pending", "GuestPrepping"}
          /\ phase' \in {phase, "Pending", "GuestPrepping", "Failed", nextPhaseAfterGuestPrep}
      BY <1>3, PendingEffect, GuestPrepEffect DEF Ends, Lose, Direct
    <2> QED
      BY <1>1, <2>1, AfterPrep DEF HandedOver
  <1>4. CASE PrismError \/ GuestPrepFailed
    <2>1. phase' = "Failed" /\ UNCHANGED <<src, power, dv>>
      BY <1>4, FailEffect
    <2> QED
      BY <1>1, <2>1 DEF HandedOver
  <1>5. CASE handlePrepareImages \/ FinalSyncCreate
    <2>1. /\ phase \in {"PreparingImages", "WarmFinalSync"}
          /\ Ends("ImportingDisks") \/ phase' \in {phase, "Failed"}
      BY <1>5, PrepareImagesEffect, FinalSyncCreateEffect
    <2> QED
      BY <1>1, <2>1 DEF Ends, Lose, HandedOver
  <1>6. CASE handleWarmPreSync \/ WarmPreSyncFails \/ handleWarmSyncing \/ handleReadyForCutover
             \/ FinalSyncStage
    <2>1. /\ phase \in {"WarmPreSync", "WarmSyncing", "ReadyForCutover", "WarmFinalSync"}
          /\ phase' \in {"WarmPreSync", "WarmSyncing", "ReadyForCutover", "WarmCutover",
                         "WarmFinalSync", "Failed"}
      BY <1>6, WarmPreSyncEffect, WarmPreSyncFailsEffect, WarmSyncingEffect,
         ReadyForCutoverEffect, FinalSyncStageEffect DEF Ends, Lose
    <2> QED
      BY <1>1, <2>1 DEF HandedOver
  <1>7. CASE handleWarmCutover \/ handleWaitImport
    <2>1. phase \in {"WarmCutover", "ImportingDisks"}
      BY <1>7, WarmCutoverEffect, WaitImportEffect
    <2> QED
      BY <1>1, <1>7, <2>1 DEF HandedOver
  <1>8. CASE handleCreateVMs
    <2>1. /\ phase = "CreatingVMs" /\ UNCHANGED <<src, power, dv>>
          /\ Ends(IF hasTestTarget THEN "TestRunning" ELSE "Completed")
      BY <1>8, CreateVMsEffect
    <2>2. phase' \in {"CreatingVMs", "TestRunning", "Completed"}
      BY <2>1 DEF Ends, Lose
    <2> QED
      BY <1>1, <2>1, <2>2 DEF HandedOver
  <1>9. CASE handleTestRunning \/ handleTestPending \/ handleSwitchingNetwork
    <2>1. /\ phase \in {"TestRunning", "TestPending", "SwitchingNetwork"}
          /\ phase' \in {"TestRunning", "TestPending", "SwitchingNetwork", "Completed", "Failed"}
          /\ UNCHANGED <<src, power, dv>>
      BY <1>9, TestRunningEffect, TestPendingEffect, SwitchingEffect
    <2> QED
      BY <1>1, <2>1 DEF HandedOver
  <1> QED
    BY <1>2, <1>3, <1>4, <1>5, <1>6, <1>7, <1>8, <1>9 DEF Reconcile

\* A disk that holds its final content of a stopped source.
SyncedVM(v) == \A k \in Disk : Right(v, k) /\ dv[v][k].st = "succeeded"

\* What was handed over is not changed any more, by the environment neither.
LEMMA HandedOverIsFrozen ==
  ASSUME TypeOK, ImportInv, StopsSources, phase \in HandedOver, [Next]_vars
  PROVE  /\ phase' \in HandedOver \cup {"Failed"}
         /\ \A v \in VM : /\ power[v] = "OFF" /\ power'[v] = "OFF"
                          /\ SyncedVM(v) /\ SyncedVM(v)'
  <1>1. \A v \in VM : power[v] = "OFF" /\ \A k \in Disk : Right(v, k) /\ dv[v][k].st = "succeeded"
    BY DEF ImportInv
  <1>2. \A v \in VM : power'[v] = "OFF" /\ src'[v] = src[v]
    BY <1>1, SourcesStep
  <1>3. /\ phase' \in HandedOver \cup {"Failed"}
        /\ \A v \in VM, k \in Disk : dv'[v][k] = dv[v][k]
    <2>1. CASE Reconcile \/ PrismError
      BY <2>1, HandedOverPhases
    <2>2. CASE Environment
      BY <1>1, <2>2, EnvironmentEffect
    <2>3. CASE UNCHANGED vars
      BY <2>3 DEF vars
    <2> QED
      BY <2>1, <2>2, <2>3 DEF Next
  <1>4. \A v \in VM, k \in Disk : Right(v, k)' = Right(v, k)
    BY <1>2, <1>3 DEF Right
  <1> QED
    BY <1>1, <1>2, <1>3, <1>4 DEF SyncedVM

\* The import ends when all sources are off and all copies complete.
LEMMA HandsOver ==
  ASSUME TypeOK, FlowInv, ImportInv, StopsSources, phase \notin HandedOver, phase' \in HandedOver,
         [Next]_vars
  PROVE  /\ phase = "ImportingDisks" /\ UNCHANGED <<src, power, dv>>
         /\ \A v \in VM : power[v] = "OFF" /\ SyncedVM(v)
  <1>1. Reconcile \/ PrismError
    <2>1. CASE Environment
      BY <2>1, EnvironmentEffect
    <2>2. CASE UNCHANGED vars
      BY <2>2 DEF vars
    <2> QED
      BY <2>1, <2>2 DEF Next
  <1>2. CASE handleWarmCutover
    <2>1. /\ phase = "WarmCutover"
          /\ phase' = phase \/ phase' = IF spec.finalSync THEN "WarmFinalSync" ELSE "CreatingVMs"
      BY <1>2, WarmCutoverEffect
    <2>2. spec.finalSync
      BY <2>1 DEF FlowInv, WarmSynced, StopsSources
    <2> QED
      BY <2>1, <2>2 DEF HandedOver
  <1>3. CASE handleWaitImport
    <2>1. /\ phase = "ImportingDisks" /\ UNCHANGED <<src, power, dv>>
          /\ phase' = phase \/ \A v \in VM : DisksOf(v)
      BY <1>3, WaitImportEffect
    <2>2. \A v \in VM : power[v] = "OFF" /\ st[v].refs = NumDisk /\ \A k \in Disk : Right(v, k)
      BY <2>1 DEF ImportInv
    <2>3. \A v \in VM, k \in Disk : dv[v][k].st = "succeeded"
      BY <2>1, <2>2 DEF DisksOf, Disk
    <2> QED
      BY <2>1, <2>2, <2>3 DEF SyncedVM
  <1> QED
    BY <1>1, <1>2, <1>3, HandedOverPhases

LEMMA ContractStep ==
  ASSUME TypeOK, FlowInv, ImportInv, [Next]_vars
  PROVE  [Contract!Next]_(Contract!vars)
  <1> DEFINE S == CASE StopsSources /\ phase \in HandedOver -> "handed"
                    [] StopsSources /\ phase = "Failed" -> "failed"
                    [] OTHER -> "copying"
             Y == {v \in VM : \A k \in Disk :
                     dv[v][k] = [st |-> "succeeded", holds |-> [disk |-> k, ver |-> src[v][k]]]}
  <1>0. TypeOK' /\ StopsSources' = StopsSources
    <2>1. spec' = spec
      BY SourcesStep
    <2> QED
      BY <2>1, TypeStep DEF StopsSources
  <1>1. On' \subseteq On
    BY SourcesStep DEF On
  <1>2. Y' \subseteq VM
    OBVIOUS
  <1>3. CASE StopsSources /\ phase \in HandedOver
    <2>1. /\ phase' \in HandedOver \cup {"Failed"}
          /\ \A v \in VM : /\ power[v] = "OFF" /\ power'[v] = "OFF"
                           /\ SyncedVM(v) /\ SyncedVM(v)'
      BY <1>3, HandedOverIsFrozen
    <2>2. On = {} /\ On' = {}
      BY <2>1 DEF On
    <2>3. Y = VM
      BY <2>1, VolumeIs DEF SyncedVM
    <2>4. Y' = VM
      <3>1. \A v \in VM, k \in Disk :
               dv'[v][k] = [st |-> "succeeded", holds |-> [disk |-> k, ver |-> src'[v][k]]]
        <4>1. ASSUME NEW v \in VM, NEW k \in Disk
              PROVE  dv'[v][k] = [st |-> "succeeded", holds |-> [disk |-> k, ver |-> src'[v][k]]]
          <5>1. dv'[v][k] \in DataVolume
            BY <1>0 DEF TypeOK
          <5>2. dv'[v][k].st = "succeeded" /\ dv'[v][k].holds = [disk |-> k, ver |-> src'[v][k]]
            BY <2>1 DEF SyncedVM, Right
          <5> QED
            BY <5>1, <5>2 DEF DataVolume
        <4> QED
          BY <4>1
      <3> QED
        BY <3>1
    <2>5. S = "handed"
      BY <1>3 DEF HandedOver
    <2>6. CASE phase' \in HandedOver
      <3>1. S' = "handed"
        BY <1>0, <1>3, <2>6 DEF HandedOver
      <3> HIDE DEF S, Y
      <3>2. S' = S /\ On' = On /\ Y' = Y
        BY <2>2, <2>3, <2>4, <2>5, <3>1
      <3> QED
        BY <3>2 DEF Contract!vars, S, Y
    <2>7. CASE phase' = "Failed"
      <3>1. S' = "failed"
        BY <1>0, <1>3, <2>7 DEF HandedOver
      <3> HIDE DEF S, Y
      <3>2. S = "handed" /\ S' = "failed" /\ On' = On /\ Y' = Y
        BY <2>2, <2>3, <2>4, <2>5, <3>1
      <3> USE DEF S, Y
      <3>3. Contract!Fail
        BY <3>2 DEF Contract!Fail
      <3> QED
        BY <3>3 DEF Contract!Next
    <2> QED
      BY <2>1, <2>6, <2>7
  <1>4. CASE StopsSources /\ phase \notin HandedOver /\ phase' \in HandedOver
    <2>1. /\ phase = "ImportingDisks" /\ UNCHANGED <<src, power, dv>>
          /\ \A v \in VM : power[v] = "OFF" /\ SyncedVM(v)
      BY <1>4, HandsOver
    <2>2. S = "copying" /\ S' = "handed"
      BY <1>0, <1>4, <2>1 DEF HandedOver
    <2>3. On = {}
      BY <2>1 DEF On
    <2>4. Y = VM
      BY <2>1, VolumeIs DEF SyncedVM
    <2>5. On' = On /\ Y' = Y
      BY <2>1 DEF On
    <2>6. Contract!HandOver
      BY <2>2, <2>3, <2>4, <2>5 DEF Contract!HandOver
    <2> QED
      BY <2>6 DEF Contract!Next
  <1>5. CASE ~StopsSources \/ (phase \notin HandedOver /\ phase' \notin HandedOver)
    <2>1. S \in {"copying", "failed"} /\ S' \in {"copying", "failed"}
      BY <1>0, <1>5
    <2>2. S = "failed" => S' = "failed"
      <3>1. phase = "Failed" => phase' = "Failed"
        <4>1. CASE Reconcile \/ PrismError
          BY <4>1, HandedOverPhases
        <4>2. CASE Environment
          BY <4>2, EnvironmentEffect
        <4>3. CASE UNCHANGED vars
          BY <4>3 DEF vars
        <4> QED
          BY <4>1, <4>2, <4>3 DEF Next
      <3> QED
        BY <1>0, <1>5, <3>1
    <2>3. CASE S' = S
      BY <1>1, <1>2, <2>1, <2>3 DEF Contract!Work, Contract!Next
    <2>4. CASE S' # S
      <3>1. S = "copying" /\ S' = "failed"
        BY <2>1, <2>2, <2>4
      <3> QED
        BY <1>1, <1>2, <3>1 DEF Contract!Fail, Contract!Next
    <2> QED
      BY <2>3, <2>4
  <1> QED
    BY <1>3, <1>4, <1>5

\* A migration without CBT keeps the promise of HandOver: handleWaitImport leaves the
\* import when all sources are off and all DataVolumes hold their final content, and
\* from then on neither changes.
THEOREM HandOverIsImplemented == "image" \notin Faults => (Spec => ImplementsHandOver)
  <1> SUFFICES ASSUME "image" \notin Faults PROVE Spec => ImplementsHandOver
    OBVIOUS
  <1>1. Init => Contract!Init
    <2> SUFFICES ASSUME Init PROVE Contract!Init
      OBVIOUS
    <2>1. phase \notin HandedOver /\ phase # "Failed"
      BY Zenon DEF Init, HandedOver
    <2>2. \A v \in VM : power[v] = "ON"
      BY Zenon DEF Init
    <2> QED
      BY <2>1, <2>2 DEF Contract!Init, On
  <1>2. TypeOK /\ FlowInv /\ ImportInv /\ [Next]_vars => [Contract!Next]_(Contract!vars)
    BY ContractStep
  <1> QED
    BY <1>1, <1>2, TypesHold, FlowHolds, ImportHolds, PTL
       DEF Spec, ImplementsHandOver, Contract!Spec

=============================================================================
