------------------------------ MODULE HandOver ------------------------------
(***************************************************************************)
(* What every migration that stops its sources promises, and what          *)
(* CreatingVMs and the phases after it rely on: the disks are handed over  *)
(* only when no source runs any more and every target holds what its       *)
(* source holds, and from then on neither of them changes.                 *)
(***************************************************************************)
CONSTANT VM   \* the VMs of the migration

VARIABLES
    stage,     \* the disks are being copied, were handed over, or never will be
    running,   \* source VMs that may still write
    synced     \* VMs whose target disks hold what their source disks hold

vars == <<stage, running, synced>>

Init ==
    /\ stage = "copying"
    /\ running = VM
    /\ synced \in SUBSET VM

\* Guests write, copies catch up, sources stop.
Work ==
    /\ stage # "handed"
    /\ running' \in SUBSET running
    /\ synced' \in SUBSET VM
    /\ UNCHANGED stage

HandOver ==
    /\ stage = "copying"
    /\ running = {} /\ synced = VM
    /\ stage' = "handed"
    /\ UNCHANGED <<running, synced>>

\* A failing step may have changed something, but nothing that was handed over.
Fail ==
    /\ stage # "failed"
    /\ stage' = "failed"
    /\ IF stage = "handed" THEN UNCHANGED <<running, synced>>
                           ELSE running' \in SUBSET running /\ synced' \in SUBSET VM

Next == Work \/ HandOver \/ Fail

Spec == Init /\ [][Next]_vars

=============================================================================
