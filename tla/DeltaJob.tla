------------------------------ MODULE DeltaJob ------------------------------
(***************************************************************************)
(* What the reconciler relies on when it waits for a delta-sync Job        *)
(* (jobFinished, cbt_sync.go): the Job copies the blocks of its regions to *)
(* the PVC in any order, is complete only when all of them are there, and  *)
(* never takes a copied block back.                                        *)
(***************************************************************************)
CONSTANT JobBlocks   \* the blocks of the Job's regions

VARIABLES
    state,   \* condition of the Job
    copied   \* blocks that hold the content of the snapshot, and will hold it

vars == <<state, copied>>

Init ==
    /\ state = "active"
    /\ copied = {}

\* Blocks may still get to the disk after the Job has failed.
Copy ==
    /\ copied \subseteq copied'
    /\ copied' \subseteq JobBlocks
    /\ UNCHANGED state

Complete ==
    /\ state = "active"
    /\ copied = JobBlocks
    /\ state' = "complete"
    /\ UNCHANGED copied

Fail ==
    /\ state = "active"
    /\ state' = "failed"
    /\ UNCHANGED copied

Next == Copy \/ Complete \/ Fail

\* A Job ends sooner or later: its retries are limited.
Spec == Init /\ [][Next]_vars /\ WF_vars(Complete \/ Fail)

=============================================================================
