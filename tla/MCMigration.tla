----------------------------- MODULE MCMigration -----------------------------
(***************************************************************************)
(* The specs of an AHVMigration the runs of Migration look at.             *)
(***************************************************************************)
EXTENDS Migration

\* All modes, with and without pause, final sync, preparation and test.
ModeSpecs(preps, tests) ==
    {s \in [warm : BOOLEAN, shutdown : BOOLEAN, finalSync : BOOLEAN,
            pause : BOOLEAN, prep : preps, test : tests] :
        /\ s.warm => ~s.shutdown
        /\ ~s.warm => ~s.pause /\ s.finalSync}

\* Preparation only in the modes that image the disks after it; the features
\* that do not meet in a handler (preparation and test, pause and no final
\* sync, pause and test) are not combined.
AllSpecs ==
    {s \in ModeSpecs({{}, {1}}, {{}, VM}) :
        /\ s.prep # {} => (s.warm \/ s.shutdown) /\ s.test = {}
        /\ s.pause => s.finalSync /\ s.prep = {} /\ s.test = {}}

\* Preparation in the mode that imports the backing images.
PrepDirectSpecs == {s \in ModeSpecs({{1}}, {{}}) : ~s.warm /\ ~s.shutdown}

DirectSpecs == {s \in ModeSpecs({{}}, {{}}) : ~s.warm /\ ~s.shutdown}

WarmSpecs == {s \in ModeSpecs({{}}, {{}}) : s.warm /\ s.finalSync /\ ~s.pause}

ColdSpecs == {s \in ModeSpecs({{}}, {{}}) : s.shutdown}

TestSpecs == {s \in ModeSpecs({{}}, {VM}) : ~s.warm /\ ~s.shutdown}

=============================================================================
