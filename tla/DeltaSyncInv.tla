----------------------------- MODULE DeltaSyncInv -----------------------------
(***************************************************************************)
(* The inductive invariant behind FinalConsistent: along the whole         *)
(* migration the content of a target block is sandwiched between the base  *)
(* snapshot of the VM's status and the snapshot the running round syncs,   *)
(*                                                                         *)
(*     last <= target <= pending <= src,                                   *)
(*                                                                         *)
(* and a block that is still below the pending snapshot is among those     *)
(* that a Job has yet to write.                                            *)
(*                                                                         *)
(* The invariant is stated for the local statuses of the pass (loc) and,   *)
(* as long as the pass may still be aborted, for the persisted ones (st).  *)
(***************************************************************************)
EXTENDS DeltaSync

\* SnapshotPaths are in the order of the DiskList.
PathsInOrder == \A d \in Disk : DiskAt[d] = d

\* No fault but failing deletions, no ZEROED regions, and the paths in order.
Quiet == Faults \subseteq {"delete"} /\ PathsInOrder

\* The state of a Job is "none" or "complete": it owes nothing to the target.
Finished(v, d) == job[v][d].st \in {"none", "complete"}

(***************************************************************************)
(* One block of one VM, seen from a status s of that VM.  The disks in D   *)
(* are those whose Job the pass is about to create.                        *)
(***************************************************************************)
BlockInv(s, v, d, b, D) ==
    /\ s.last.data[d][b] <= src[v][d][b]
    /\ dv[v][d].st = "importing" =>
          s.last.data[d][b] <= dv[v][d].img[b] /\ dv[v][d].img[b] <= src[v][d][b]
    /\ dv[v][d].st = "succeeded" /\ <<d, b>> \notin dropped[v] =>
          s.last.data[d][b] <= target[v][d][b]
    /\ s.pending.id # 0 =>
          /\ s.last.data[d][b] <= s.pending.data[d][b]
          /\ s.pending.data[d][b] <= src[v][d][b]
          /\ target[v][d][b] <= s.pending.data[d][b]
          /\ phase = "WarmFinalDelta" => s.pending.data[d][b] = src[v][d][b]
          /\ job[v][d].round = s.rounds + 1 => job[v][d].out[b] = s.pending.data[d][b]
          /\ \/ <<d, b>> \in dropped[v]
             \/ ~Finished(v, d) /\ b \in job[v][d].left
             \/ d \in D
             \/ target[v][d][b] = s.pending.data[d][b]
    /\ s.phase = "FinalDeltaDone" =>
          <<d, b>> \in dropped[v] \/ target[v][d][b] = src[v][d][b]

\* ConfigMap and Job of one disk: those of the round that s is in are known to s,
\* those of an older one, left behind by a deletion that failed, are over.
DiskInv(s, v, d, D) ==
    /\ job[v][d].round <= s.rounds + 1 /\ cm[v][d].round <= s.rounds + 1
    /\ job[v][d].round # s.rounds + 1 => Finished(v, d)
    /\ s.pending.id = 0 \/ s.phase = "FinalDeltaDone" =>
          job[v][d].round # s.rounds + 1 /\ cm[v][d].round # s.rounds + 1
    /\ job[v][d].st # "none" => job[v][d].cache = "present"
    /\ job[v][d].round = s.rounds + 1 => d \in s.jobs
    /\ cm[v][d].round = s.rounds + 1 => d \in s.jobs \cup D
    /\ d \in D => /\ job[v][d].round # s.rounds + 1
                  /\ cm[v][d].round = s.rounds + 1 =>
                        ChangedRegions(s.pending, s.last, d) \subseteq cm[v][d].blocks

VMInv(s, v, D) ==
    \A d \in Disk : DiskInv(s, v, d, D) /\ \A b \in Block : BlockInv(s, v, d, b, D)

\* The disks of v whose Job the pass still has to create.
Spawning(v) == IF pc = "spawn" /\ v = i THEN todo ELSE {}

\* The statuses of v that may still become the persisted one: that of the pass
\* and, if the pass may be aborted, the one it started from.
Statuses(v) == {<<loc[v], Spawning(v)>>} \cup (IF created THEN {} ELSE {<<st[v], {}>>})

StatusInv == \A v \in VM : \A p \in Statuses(v) : VMInv(p[1], v, p[2])

TargetInv ==
    \A v \in VM, d \in Disk, b \in Block : target[v][d][b] <= src[v][d][b]

(***************************************************************************)
(* How phase, step of the pass, statuses, DataVolumes and power fit.       *)
(***************************************************************************)
PassInv ==
    /\ phase \notin {"WarmPreSync", "WarmDeltaSync", "WarmFinalDelta"} =>
          pc = "loop" /\ i = 1 /\ loc = st /\ ~created
    /\ pc \in {"image", "dvs"} => phase = "WarmPreSync"
    /\ pc = "spawn" => /\ phase \in {"WarmDeltaSync", "WarmFinalDelta"}
                       /\ loc[i].pending.id # 0
                       /\ loc[i].phase # doneMark
    /\ pc = "patch" => phase = "WarmFinalDelta" /\ i = NumVM + 1 /\ allDone
    /\ phase \in {"WarmDeltaSync", "WarmFinalDelta"} /\ allDone =>
          \A v \in VM : v < i => loc[v].phase = doneMark

\* What a status may say in a phase.
MarkInv(s) ==
    /\ phase \in {"WarmPreSync", "WarmSyncing", "ReadyForCutover", "WarmCutover"} =>
          s.pending.id = 0
    /\ phase \notin {"WarmFinalDelta", "CreatingVMs"} => s.phase # "FinalDeltaDone"
    /\ phase = "WarmDeltaSync" /\ s.phase = "DeltaConverged" => s.pending.id = 0
    /\ phase = "CreatingVMs" => s.phase = "FinalDeltaDone"

CutoverInv ==
    \A v \in VM : /\ MarkInv(loc[v]) /\ MarkInv(st[v])
                  /\ phase \in {"WarmFinalDelta", "CreatingVMs"} => power[v] = "OFF"

ImportInv ==
    /\ phase = "WarmPreSync" =>
          /\ created => pc = "dvs"
          /\ \A v \in VM, d \in Disk : ~created \/ v >= i => dv[v][d].st = "none"
          /\ \A v \in VM, d \in Disk : pc = "dvs" /\ v < i => dv[v][d].st # "none"
          /\ \A v \in VM, d \in Disk, b \in Block :
                pc = "dvs" \/ v < i =>
                   /\ loc[v].last.data[d][b] <= loc[v].temp.data[d][b]
                   /\ loc[v].temp.data[d][b] <= src[v][d][b]
    /\ phase = "WarmSyncing" => \A v \in VM, d \in Disk : dv[v][d].st # "none"
    /\ phase \notin {"WarmPreSync", "WarmSyncing"} =>
          \A v \in VM, d \in Disk : dv[v][d].st = "succeeded"

\* Without ZEROED regions a ConfigMap makes its Job zero nothing.
ZeroInv == \A v \in VM, d \in Disk : cm[v][d].zeroed = {}

\* No pod writes that has no Job.
StrayInv == \A v \in VM : strays[v] = {}

Sandwich ==
    /\ phase = "Failed" => pc = "loop"
    /\ phase # "Failed" => /\ PassInv /\ CutoverInv /\ ImportInv /\ TargetInv /\ StatusInv
                         /\ ZeroInv /\ StrayInv

===============================================================================
