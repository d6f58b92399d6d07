------------------------------ MODULE Networks ------------------------------
(***************************************************************************)
(* The NICs of one VirtualMachine (controllers/kubevirt_resources.go):     *)
(* handleCreateVMs builds them from the NICs of the source VM and the      *)
(* networkMappings, on test networks if any mapping has a testTarget, and  *)
(* handleSwitchingNetwork builds them again for production.  Both read the *)
(* source VM, which other users of Prism may have edited in between.       *)
(***************************************************************************)
EXTENDS Integers, SequencesExt

CONSTANTS
    MappingLists,   \* spec.networkMappings that are looked at
    NICLists,       \* NIC lists a source VM may have
    MaxEdits,       \* bound: edits of the source VM's NICs
    MaxLost         \* bound: lost patches of CreatingVMs

\* A target stands for a name with its targetNamespace.
Mapping == [source : STRING, target : STRING, testTarget : STRING]

ASSUME NetworksAssumption ==
    /\ \A l \in MappingLists : l \in Seq(Mapping)
    /\ \A l \in NICLists : l \in Seq([net : STRING, mac : STRING])
    /\ MaxEdits \in Nat
    /\ MaxLost \in Nat

VARIABLES
    mappings,   \* spec.networkMappings
    keepMAC,    \* spec.vms[i].keepMAC
    nics,       \* NICs of the source VM in Prism
    vm,         \* the VirtualMachine: at most one, as a sequence
    read,       \* history: the NICs the VirtualMachine was built from
    pc,         \* the phase
    edits, lost

vars == <<mappings, keepMAC, nics, vm, read, pc, edits, lost>>

Interface == [name : Nat, nad : STRING, mac : STRING]

TypeOK ==
    /\ mappings \in MappingLists
    /\ keepMAC \in BOOLEAN
    /\ nics \in NICLists
    /\ Len(vm) <= 1 /\ \A j \in DOMAIN vm : vm[j] \in Seq(Interface)
    /\ read \in NICLists
    /\ pc \in {"CreatingVMs", "TestRunning", "SwitchingNetwork", "Completed"}
    /\ edits \in Nat /\ lost \in Nat

Init ==
    /\ mappings \in MappingLists
    /\ keepMAC \in BOOLEAN
    /\ nics \in NICLists
    /\ vm = <<>>
    /\ read = nics
    /\ pc = "CreatingVMs"
    /\ edits = 0 /\ lost = 0

-----------------------------------------------------------------------------
hasTestTarget == \E j \in DOMAIN mappings : mappings[j].testTarget # ""

\* Mutant: the testTarget is used for production too.
pickTargetTest(nm, useTestTarget) == IF nm.testTarget # "" THEN nm.testTarget ELSE nm.target

pickTarget(nm, useTestTarget) ==
    IF useTestTarget /\ nm.testTarget # "" THEN nm.testTarget ELSE nm.target

\* The first mapping of the network, else the first mapping, else a default.
resolveNetwork(net, useTestTarget) ==
    LET match == SelectInSeq(mappings, LAMBDA nm : nm.source = net)
    IN  IF match # 0 THEN pickTarget(mappings[match], useTestTarget)
        ELSE IF mappings # <<>> THEN pickTarget(mappings[1], useTestTarget)
        ELSE "example-bridge"

Pod == <<[name |-> 0, nad |-> "pod", mac |-> ""]>>

\* Networks and interfaces for a list of NICs.
NICs(list, useTestTarget) ==
    [j \in DOMAIN list |-> [name |-> j, nad |-> resolveNetwork(list[j].net, useTestTarget),
                            mac |-> IF keepMAC THEN list[j].mac ELSE ""]]

\* A source without NICs gets the pod network.
buildVirtualMachine == IF nics = <<>> THEN Pod ELSE NICs(nics, FALSE)

\* Mutant: the networks of buildVirtualMachine are not replaced.
WithNetworkProd(useTestTarget) == buildVirtualMachine

\* The test networks replace those of buildVirtualMachine, without its special
\* case for a source without NICs.
buildVirtualMachineWithNetwork(useTestTarget) ==
    IF useTestTarget THEN NICs(nics, TRUE) ELSE buildVirtualMachine

buildNetworkPatchToProd == NICs(nics, FALSE)

\* A VirtualMachine that exists is kept.  The status patch may be lost.
handleCreateVMs ==
    /\ pc = "CreatingVMs"
    /\ IF vm = <<>>
         THEN vm' = <<buildVirtualMachineWithNetwork(hasTestTarget)>> /\ read' = nics
         ELSE UNCHANGED <<vm, read>>
    /\ \/ /\ pc' = IF hasTestTarget THEN "TestRunning" ELSE "Completed"
          /\ UNCHANGED lost
       \/ lost < MaxLost /\ lost' = lost + 1 /\ UNCHANGED pc
    /\ UNCHANGED <<mappings, keepMAC, nics, edits>>

\* The test is approved, and the VM is stopped.
handleTestRunning ==
    /\ pc = "TestRunning"
    /\ pc' = "SwitchingNetwork"
    /\ UNCHANGED <<mappings, keepMAC, nics, vm, read, edits, lost>>

handleSwitchingNetwork ==
    /\ pc = "SwitchingNetwork"
    /\ vm' = <<buildNetworkPatchToProd>>
    /\ read' = nics
    /\ \/ pc' = "Completed" /\ UNCHANGED lost
       \/ lost < MaxLost /\ lost' = lost + 1 /\ UNCHANGED pc
    /\ UNCHANGED <<mappings, keepMAC, nics, edits>>

\* Somebody edits the source VM.
EditNICs ==
    /\ edits < MaxEdits
    /\ edits' = edits + 1
    /\ nics' \in NICLists \ {nics}
    /\ UNCHANGED <<mappings, keepMAC, vm, read, pc, lost>>

Next == handleCreateVMs \/ handleTestRunning \/ handleSwitchingNetwork \/ EditNICs

Spec == Init /\ [][Next]_vars

-----------------------------------------------------------------------------
(***************************************************************************)
(* Properties.                                                             *)
(***************************************************************************)

\* KubeVirt gives the pod network to a template without interfaces.
Effective(v) == IF v = <<>> THEN Pod ELSE v

\* The mapping that counts for a network: the first that names it, else the
\* first of all.
MappingOf(net) ==
    LET named == {j \in DOMAIN mappings : mappings[j].source = net}
    IN  mappings[IF named = {} THEN 1 ELSE Min(named)]

\* What the mappings promise for the NICs in production.
Production ==
    [j \in DOMAIN read |->
        [name |-> j, mac |-> IF keepMAC THEN read[j].mac ELSE "",
         nad |-> IF mappings = <<>> THEN "example-bridge" ELSE MappingOf(read[j].net).target]]

\* With or without a test on the way, a completed VM has the networks and MAC
\* addresses the mappings promise: the two builders and the patch, which
\* repeat one loop three times, agree, whatever was edited or lost in between.
SwitchIsDirect ==
    pc = "Completed" => Effective(Head(vm)) = IF read = <<>> THEN Pod ELSE Production

\* During the test every NIC has the name and address it will have in
\* production, and one whose mapping has a testTarget is on that network.
TestIsRehearsal ==
    pc = "TestRunning" =>
        \A j \in DOMAIN read :
            LET test == MappingOf(read[j].net).testTarget
            IN  Head(vm)[j] = IF test = "" THEN Production[j]
                                           ELSE [Production[j] EXCEPT !.nad = test]

\* Every NIC the VM was tested with ends on the target of its mapping ("after
\* approval the VM switches to target").
TestedIsSwitched ==
    [][pc = "SwitchingNetwork" /\ pc' = "Completed" =>
          \A j \in DOMAIN read : \E k \in DOMAIN vm'[1] : vm'[1][k] = Production[j]]_vars

=============================================================================
