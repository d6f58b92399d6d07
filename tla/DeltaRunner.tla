----------------------------- MODULE DeltaRunner -----------------------------
(***************************************************************************)
(* The delta-sync Job of one disk: the runner (deltasync.go), which copies *)
(* the regions of its ConfigMap with concurrent goroutines, and around it  *)
(* the Job, which starts a new pod when one has failed (BackoffLimit,      *)
(* RestartPolicyNever in buildDeltaSyncJob).                               *)
(*                                                                         *)
(* A block is the unit of one read and write of syncRegion.  A write goes  *)
(* to the page cache of the node; it is durable once the kernel has        *)
(* written it back or fsync has returned.                                  *)
(***************************************************************************)
EXTENDS RegionList, FiniteSets

CONSTANTS
    regions,        \* the regions in the ConfigMap
    Workers,        \* --workers
    BackoffLimit,   \* spec.backoffLimit of the Job
    MaxErrors,      \* bound: failing reads and writes
    MaxCrashes      \* bound: crashes of a pod or its node

\* Regions!MergedOrdered shows that prepareRegions returns ordered lists.
ASSUME RunnerAssumption ==
    /\ regions \in Seq(Region)
    /\ Ordered(regions)
    /\ Workers \in Nat \ {0}
    /\ BackoffLimit \in Nat
    /\ MaxErrors \in Nat
    /\ MaxCrashes \in Nat

VARIABLES
    job,       \* condition of the Job
    pods,      \* pods that have failed
    main,      \* where the main goroutine of the pod is
    next,      \* the region its first loop is at
    go,        \* the goroutines, one per region
    results,   \* the buffered channel results
    failed,    \* failed results received
    received,  \* results received
    cache,     \* content of the target as the node shows it
    disk,      \* content of the target that is durable
    \* Counters of the faults, read by no step of the program.
    errors, crashes

podVars == <<main, next, go, results, failed, received>>
vars    == <<job, pods, podVars, cache, disk, errors, crashes>>

Index == DOMAIN regions

JobBlocks == BlocksOf(regions, "REGULAR") \cup BlocksOf(regions, "ZEROED")

\* A goroutine: its step, attempt, blocks done in this attempt, and err.
Goroutine == [st : {"none", "copy", "sleep", "report", "end"},
              attempt : 0 .. 3, done : Nat, err : BOOLEAN]

NoGoroutine == [st |-> "none", attempt |-> 0, done |-> 0, err |-> FALSE]

Content == {"old", "snapshot", "zero"}

TypeOK ==
    /\ job \in {"active", "complete", "failed"}
    /\ pods \in 0 .. BackoffLimit + 1
    /\ main \in {"start", "spawn", "receive", "fsync", "exit0"}
    /\ next \in 1 .. Len(regions) + 1
    /\ go \in [Index -> Goroutine]
    /\ results \subseteq [idx : Index, err : BOOLEAN]
    /\ failed \in 0 .. received
    /\ received \in 0 .. Len(regions)
    /\ cache \in [JobBlocks -> Content]
    /\ disk \in [JobBlocks -> Content]
    /\ errors \in 0 .. MaxErrors
    /\ crashes \in 0 .. MaxCrashes

Init ==
    /\ job = "active"
    /\ pods = 0
    /\ main = "start"
    /\ next = 1
    /\ go = [r \in Index |-> NoGoroutine]
    /\ results = {}
    /\ failed = 0
    /\ received = 0
    /\ cache = [b \in JobBlocks |-> "old"]
    /\ disk = cache
    /\ errors = 0
    /\ crashes = 0

-----------------------------------------------------------------------------
(***************************************************************************)
(* The pod ends without success: the Job starts another one, or has failed *)
(* when BackoffLimit pods were replaced already.  Its goroutines are gone. *)
(***************************************************************************)
PodFails ==
    /\ pods' = pods + 1
    /\ job' = IF pods = BackoffLimit THEN "failed" ELSE job
    /\ main' = "start"
    /\ next' = 1
    /\ go' = [r \in Index |-> NoGoroutine]
    /\ results' = {}
    /\ failed' = 0
    /\ received' = 0

\* The regions are loaded, source and target are open.
Start ==
    /\ job = "active" /\ main = "start"
    /\ main' = "spawn"
    /\ UNCHANGED <<job, pods, next, go, results, failed, received, cache, disk,
                   errors, crashes>>

\* One of these steps fails: exit code 1.
StartError ==
    /\ job = "active" /\ main = "start"
    /\ errors < MaxErrors
    /\ errors' = errors + 1
    /\ PodFails
    /\ UNCHANGED <<cache, disk, crashes>>

\* The goroutines that hold a place in the semaphore.
InFlight == {r \in Index : go[r].st \in {"copy", "sleep", "report"}}

SemFree == Cardinality(InFlight) < Workers

Spawn ==
    /\ main = "spawn" /\ next <= Len(regions)
    /\ SemFree
    /\ go' = [go EXCEPT ![next] = [NoGoroutine EXCEPT !.st = "copy", !.attempt = 1]]
    /\ next' = next + 1
    /\ UNCHANGED <<job, pods, main, results, failed, received, cache, disk,
                   errors, crashes>>

Spawned ==
    /\ main = "spawn" /\ next > Len(regions)
    /\ main' = "receive"
    /\ UNCHANGED <<job, pods, next, go, results, failed, received, cache, disk,
                   errors, crashes>>

-----------------------------------------------------------------------------
(***************************************************************************)
(* A goroutine: up to three attempts of syncRegion, each from the start of *)
(* the region.                                                             *)
(***************************************************************************)

\* What syncRegion writes: zeros, or what it reads from the snapshot.
Wants(r) == IF regions[r].type = "ZEROED" THEN "zero" ELSE "snapshot"

At(r) == regions[r].off + go[r].done

\* The block the goroutine is at is read and written.
CopyBlock(r) ==
    /\ go[r].st = "copy" /\ go[r].done < regions[r].len
    /\ cache' = [cache EXCEPT ![At(r)] = Wants(r)]
    /\ go' = [go EXCEPT ![r].done = @ + 1]
    /\ UNCHANGED <<job, pods, main, next, results, failed, received, disk,
                   errors, crashes>>

\* Mutant: the goroutine reports success when an attempt is over.
CopyErrorIgnored(r) ==
    /\ go[r].st = "copy" /\ go[r].done < regions[r].len
    /\ errors < MaxErrors
    /\ errors' = errors + 1
    /\ go' = [go EXCEPT ![r].st = "report"]
    /\ UNCHANGED <<job, pods, main, next, results, failed, received, cache,
                   disk, crashes>>

\* Reading or writing it fails; it may have been written all the same (a short
\* read, a write that was cut off).
CopyError(r) ==
    /\ go[r].st = "copy" /\ go[r].done < regions[r].len
    /\ errors < MaxErrors
    /\ errors' = errors + 1
    /\ cache' \in {cache, [cache EXCEPT ![At(r)] = Wants(r)]}
    /\ go' = [go EXCEPT ![r].st = "sleep"]
    /\ UNCHANGED <<job, pods, main, next, results, failed, received, disk,
                   crashes>>

\* The pause after a failed attempt is over.
Wake(r) ==
    /\ go[r].st = "sleep"
    /\ go' = [go EXCEPT ![r] =
                IF go[r].attempt < 3
                  THEN [go[r] EXCEPT !.st = "copy", !.attempt = go[r].attempt + 1, !.done = 0]
                  ELSE [go[r] EXCEPT !.st = "report", !.err = TRUE]]
    /\ UNCHANGED <<job, pods, main, next, results, failed, received, cache,
                   disk, errors, crashes>>

CopyDone(r) ==
    /\ go[r].st = "copy" /\ go[r].done = regions[r].len
    /\ go' = [go EXCEPT ![r].st = "report"]
    /\ UNCHANGED <<job, pods, main, next, results, failed, received, cache,
                   disk, errors, crashes>>

\* The result is sent (the channel has room for all of them); the goroutine
\* returns, and its deferred function gives the place in the semaphore back.
Report(r) ==
    /\ go[r].st = "report"
    /\ results' = results \cup {[idx |-> r, err |-> go[r].err]}
    /\ go' = [go EXCEPT ![r].st = "end"]
    /\ UNCHANGED <<job, pods, main, next, failed, received, cache, disk,
                   errors, crashes>>

-----------------------------------------------------------------------------
(***************************************************************************)
(* The main goroutine collects the results and syncs the target.           *)
(***************************************************************************)

Receive(res) ==
    /\ main = "receive" /\ res \in results
    /\ results' = results \ {res}
    /\ received' = received + 1
    /\ failed' = failed + (IF res.err THEN 1 ELSE 0)
    /\ UNCHANGED <<job, pods, main, next, go, cache, disk, errors, crashes>>

\* Mutant: stops at the first result.
ReceivedAllFirst == received >= 1

ReceivedAll == received = Len(regions)

ReceivedFailure ==
    /\ main = "receive" /\ ReceivedAll /\ failed > 0
    /\ PodFails
    /\ UNCHANGED <<cache, disk, errors, crashes>>

ReceivedSuccess ==
    /\ main = "receive" /\ ReceivedAll /\ failed = 0
    /\ main' = "fsync"
    /\ UNCHANGED <<job, pods, next, go, results, failed, received, cache, disk,
                   errors, crashes>>

\* Mutant: the target is not synced.
FsyncSkipped ==
    /\ main = "fsync"
    /\ main' = "exit0"
    /\ UNCHANGED <<job, pods, next, go, results, failed, received, cache, disk,
                   errors, crashes>>

Fsync ==
    /\ main = "fsync"
    /\ disk' = cache
    /\ main' = "exit0"
    /\ UNCHANGED <<job, pods, next, go, results, failed, received, cache,
                   errors, crashes>>

\* fsync fails: the kernel may forget the blocks it has not written back.
FsyncError ==
    /\ main = "fsync"
    /\ errors < MaxErrors
    /\ errors' = errors + 1
    /\ cache' \in {cache, disk}
    /\ PodFails
    /\ UNCHANGED <<disk, crashes>>

Exit0 ==
    /\ job = "active" /\ main = "exit0"
    /\ job' = "complete"
    /\ UNCHANGED <<pods, podVars, cache, disk, errors, crashes>>

-----------------------------------------------------------------------------
(***************************************************************************)
(* The environment: write-back, and crashes that may strike at any time.   *)
(***************************************************************************)

WriteBack(b) ==
    /\ disk[b] # cache[b]
    /\ disk' = [disk EXCEPT ![b] = cache[b]]
    /\ UNCHANGED <<job, pods, podVars, cache, errors, crashes>>

\* The pod is killed, or its node goes down and the page cache is lost.
PodCrash ==
    /\ job = "active"
    /\ crashes < MaxCrashes
    /\ crashes' = crashes + 1
    /\ cache' \in {cache, disk}
    /\ PodFails
    /\ UNCHANGED <<disk, errors>>

\* The node goes down when the Job has ended.
NodeCrash ==
    /\ job # "active"
    /\ crashes < MaxCrashes
    /\ crashes' = crashes + 1
    /\ cache' = disk
    /\ UNCHANGED <<job, pods, podVars, disk, errors>>

-----------------------------------------------------------------------------
Run(r) ==
    \/ CopyBlock(r)
    \/ CopyError(r)
    \/ Wake(r)
    \/ CopyDone(r)
    \/ Report(r)

runDeltaSync ==
    \/ Start
    \/ StartError
    \/ Spawn
    \/ Spawned
    \/ \E res \in results : Receive(res)
    \/ ReceivedFailure
    \/ ReceivedSuccess
    \/ Fsync
    \/ FsyncError
    \/ Exit0

Next ==
    \/ runDeltaSync
    \/ \E r \in Index : Run(r)
    \/ \E b \in JobBlocks : WriteBack(b)
    \/ PodCrash
    \/ NodeCrash

\* The main goroutine and every other one go on while they can.
Spec ==
    /\ Init /\ [][Next]_vars
    /\ WF_vars(runDeltaSync)
    /\ \A r \in Index : WF_vars(Run(r))

-----------------------------------------------------------------------------
(***************************************************************************)
(* Properties.                                                             *)
(***************************************************************************)

\* The blocks that durably hold what the Job is to write.
Copied == {b \in JobBlocks :
             disk[b] = IF b \in BlocksOf(regions, "ZEROED") THEN "zero" ELSE "snapshot"}

\* The runner in its pods is the Job that the reconciler waits for: whatever
\* goroutines, retries, replaced pods and crashes do, it succeeds only when all
\* regions are durable, loses none, and ends.
JobSpec == INSTANCE DeltaJob WITH state <- job, copied <- Copied

ImplementsDeltaJob == JobSpec!Spec

\* What the target shows after a successful Job survives every crash of the
\* node: the exit code comes after the fsync that covers all regions.
SuccessIsDurable == job = "complete" => cache = disk /\ Copied = JobBlocks

\* No goroutine writes to the target any more once all results were received:
\* the fsync covers every write of the pod.
QuietAtFsync ==
    main \in {"fsync", "exit0"} => \A r \in Index : go[r].st = "end"

=============================================================================
