----------------------------- MODULE MCDeltaSync -----------------------------
(***************************************************************************)
(* Values for the constants of DeltaSync that a configuration file cannot  *)
(* write down.                                                             *)
(***************************************************************************)
EXTENDS DeltaSyncInv, FiniteSetsExt

\* SnapshotPaths in the order of the DiskList.
SameOrder == [d \in Disk |-> d]

\* Two disks whose bus addresses sort in the opposite order of the DiskList.
SwappedOrder == [d \in Disk |-> CHOOSE e \in Disk : e # d]

MaxWrites == 2  \* bound: writes of all guests

\* The guests write to any blocks, but not often.
FewWrites == MapThenSumSet(LAMBDA w : src[w[1]][w[2]][w[3]] - 1, VM \X Disk \X Block) <= MaxWrites

=============================================================================
