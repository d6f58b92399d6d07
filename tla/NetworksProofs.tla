--------------------------- MODULE NetworksProofs ---------------------------
(***************************************************************************)
(* The NICs of a VirtualMachine are those the mappings promise, for any    *)
(* lists of mappings and NICs, any number of edits and of lost patches.    *)
(***************************************************************************)
EXTENDS Networks, SequenceTheorems, WellFoundedInduction, TLAPS

\* What handleCreateVMs makes of a list of NICs.
Built(list) ==
    IF hasTestTarget THEN NICs(list, TRUE) ELSE IF list = <<>> THEN Pod ELSE NICs(list, FALSE)

\* The VirtualMachine was built, or its networks switched, from the NICs that
\* were read last.
BuiltInv ==
    /\ mappings \in MappingLists
    /\ nics \in NICLists
    /\ read \in NICLists
    /\ pc = "CreatingVMs" => vm = <<>> \/ vm = <<Built(read)>>
    /\ pc = "TestRunning" => hasTestTarget /\ vm = <<NICs(read, TRUE)>>
    /\ pc = "Completed" => \/ vm = <<NICs(read, FALSE)>>
                           \/ vm = <<Pod>> /\ read = <<>>

-----------------------------------------------------------------------------
\* A set of natural numbers that is not empty has a least element.
LEMMA MinIsIn ==
    ASSUME NEW S \in SUBSET Nat, S # {} PROVE Min(S) \in S
<1> DEFINE R == {p \in Nat \X Nat : p[1] < p[2]}
<1>1. IsWellFoundedOn(R, Nat) BY NatLessThanWellFounded DEF OpToRel
<1>2. PICK x \in S : \A y \in S : ~(<<y, x>> \in R) BY <1>1, WFMin
<1>3. ASSUME NEW y \in S PROVE x <= y
  <2>1. x \in Nat /\ y \in Nat /\ <<y, x>> \notin R BY <1>2, <1>3
  <2>2. ~(y < x) BY <2>1
  <2> QED BY <2>1, <2>2
<1> QED BY <1>2, <1>3 DEF Min

\* resolveNetwork uses the mapping that counts for the network.
LEMMA ResolvesByMapping ==
    ASSUME mappings \in MappingLists, NEW net, NEW t \in BOOLEAN
    PROVE  resolveNetwork(net, t) =
             IF mappings = <<>> THEN "example-bridge" ELSE pickTarget(MappingOf(net), t)
<1> DEFINE named == {j \in DOMAIN mappings : mappings[j].source = net}
<1>1. mappings \in Seq(Mapping) BY NetworksAssumption
<1>2. named = {j \in 1 .. Len(mappings) : mappings[j].source = net} BY <1>1
<1>3. named \in SUBSET Nat BY <1>1
<1>4. named # {} => Min(named) \in DOMAIN mappings BY <1>3, MinIsIn
<1>5. SelectInSeq(mappings, LAMBDA nm : nm.source = net) = IF named # {} THEN Min(named) ELSE 0
  BY <1>2 DEF SelectInSeq
<1>6. MappingOf(net) = mappings[IF named = {} THEN 1 ELSE Min(named)] BY DEF MappingOf
<1> HIDE DEF named
<1>7. CASE named # {}
  <2>1. Min(named) # 0 /\ mappings # <<>> BY <1>1, <1>4, <1>7
  <2> QED BY <1>5, <1>6, <1>7, <2>1 DEF resolveNetwork
<1>8. CASE named = {}
  BY <1>5, <1>6, <1>8 DEF resolveNetwork
<1> QED BY <1>7, <1>8

\* A sequence is empty if its domain is.
LEMMA EmptyDomain ==
    ASSUME NEW S, NEW s \in Seq(S) PROVE s = <<>> <=> DOMAIN s = {}
<1>1. DOMAIN s = 1 .. Len(s) /\ Len(s) \in Nat OBVIOUS
<1>2. s = <<>> => Len(s) = 0 OBVIOUS
<1>3. Len(s) = 0 => s = <<>> OBVIOUS
<1>4. Len(s) = 0 => DOMAIN s = {} BY <1>1
<1>5. DOMAIN s = {} => Len(s) = 0 BY <1>1
<1> QED BY <1>2, <1>3, <1>4, <1>5

\* There are as many interfaces as NICs, none if there are none.
LEMMA AsManyNICs ==
    ASSUME NEW list \in NICLists, NEW t PROVE NICs(list, t) = <<>> <=> list = <<>>
<1> DEFINE f == NICs(list, t)
           T == {f[j] : j \in DOMAIN list}
<1>1. list \in Seq([net : STRING, mac : STRING]) BY NetworksAssumption
<1>2. DOMAIN list = 1 .. Len(list) /\ Len(list) \in Nat BY <1>1
<1>3. DOMAIN f = DOMAIN list /\ f \in [1 .. Len(list) -> T] BY <1>2 DEF NICs
<1> HIDE DEF f, T
<1>4. f \in Seq(T) BY <1>2, <1>3, SeqDef
<1> QED BY <1>1, <1>3, <1>4, EmptyDomain DEF f

\* Every network name is that of the mapping, or of its test.
LEMMA PickTargetFor ==
    ASSUME NEW nm
    PROVE  /\ pickTarget(nm, FALSE) = nm.target
           /\ nm.testTarget = "" => pickTarget(nm, TRUE) = nm.target
           /\ nm.testTarget # "" => pickTarget(nm, TRUE) = nm.testTarget
BY Zenon DEF pickTarget

\* For production, a NIC list is turned into what the mappings promise.
LEMMA ProductionNICs ==
    ASSUME BuiltInv PROVE NICs(read, FALSE) = Production
<1>1. ASSUME NEW j \in DOMAIN read
      PROVE  resolveNetwork(read[j].net, FALSE)
               = IF mappings = <<>> THEN "example-bridge" ELSE MappingOf(read[j].net).target
  <2>1. FALSE \in BOOLEAN OBVIOUS
  <2>2. resolveNetwork(read[j].net, FALSE)
          = IF mappings = <<>> THEN "example-bridge" ELSE pickTarget(MappingOf(read[j].net), FALSE)
    BY <2>1, ResolvesByMapping DEF BuiltInv
  <2> QED BY <2>2, PickTargetFor
<1> QED BY <1>1 DEF NICs, Production

\* KubeVirt's view of what was built for production.
LEMMA EffectiveNICs ==
    ASSUME BuiltInv
    PROVE  /\ Effective(NICs(read, FALSE)) = IF read = <<>> THEN Pod ELSE Production
           /\ Effective(Pod) = Pod
<1>1. NICs(read, FALSE) = <<>> <=> read = <<>> BY AsManyNICs DEF BuiltInv
<1> QED BY <1>1, ProductionNICs DEF Effective, Pod

-----------------------------------------------------------------------------
LEMMA BuiltInit == Init => BuiltInv
BY DEF Init, BuiltInv

\* The three builders of the code are NICs for what was read.
LEMMA BuildersAgree ==
    /\ buildVirtualMachineWithNetwork(hasTestTarget) = Built(nics)
    /\ buildNetworkPatchToProd = NICs(nics, FALSE)
<1>1. hasTestTarget \in BOOLEAN BY DEF hasTestTarget
<1>2. CASE hasTestTarget
  BY <1>2 DEF buildVirtualMachineWithNetwork, Built, buildNetworkPatchToProd
<1>3. CASE ~hasTestTarget
  BY <1>3 DEF buildVirtualMachineWithNetwork, buildVirtualMachine, Built, buildNetworkPatchToProd
<1> QED BY <1>1, <1>2, <1>3

\* What is built depends on the mappings and keepMAC, which never change.
LEMMA BuiltStays ==
    ASSUME UNCHANGED <<mappings, keepMAC>>
    PROVE  /\ hasTestTarget' = hasTestTarget
           /\ \A list : Built(list)' = Built(list)
           /\ \A list : NICs(list, TRUE)' = NICs(list, TRUE) /\ NICs(list, FALSE)' = NICs(list, FALSE)
<1>1. hasTestTarget' = hasTestTarget BY DEF hasTestTarget
<1>2. \A net : /\ resolveNetwork(net, TRUE)' = resolveNetwork(net, TRUE)
               /\ resolveNetwork(net, FALSE)' = resolveNetwork(net, FALSE)
  BY DEF resolveNetwork, pickTarget, SelectInSeq
<1>3. \A list : NICs(list, TRUE)' = NICs(list, TRUE) /\ NICs(list, FALSE)' = NICs(list, FALSE)
  BY <1>2 DEF NICs
<1> QED BY <1>1, <1>3 DEF Built

LEMMA BuiltNext ==
    ASSUME BuiltInv, [Next]_vars PROVE BuiltInv'
<1>1. UNCHANGED <<mappings, keepMAC>>
  BY DEF Next, handleCreateVMs, handleTestRunning, handleSwitchingNetwork, EditNICs, vars
<1>2. PICK last : last = read' OBVIOUS
<1>3. SUFFICES /\ nics' \in NICLists
               /\ last \in NICLists
               /\ pc' = "CreatingVMs" => vm' = <<>> \/ vm' = <<Built(last)>>
               /\ pc' = "TestRunning" => hasTestTarget /\ vm' = <<NICs(last, TRUE)>>
               /\ pc' = "Completed" => \/ vm' = <<NICs(last, FALSE)>>
                                       \/ vm' = <<Pod>> /\ last = <<>>
  <2>1. /\ hasTestTarget' = hasTestTarget
        /\ Built(last)' = Built(last)
        /\ NICs(last, TRUE)' = NICs(last, TRUE)
        /\ NICs(last, FALSE)' = NICs(last, FALSE)
    BY <1>1, BuiltStays
  <2>2. NICs(read, TRUE)' = NICs(last, TRUE)' /\ NICs(read, FALSE)' = NICs(last, FALSE)'
    BY <1>2 DEF NICs
  <2>3. Built(read)' = Built(last)' BY <1>2, <2>2 DEF Built
  <2>4. mappings' \in MappingLists /\ Pod' = Pod BY <1>1 DEF BuiltInv, Pod
  <2> QED BY <1>2, <2>1, <2>2, <2>3, <2>4 DEF BuiltInv
<1>4. CASE handleCreateVMs
  <2>1. vm' = <<Built(last)>> /\ last \in NICLists /\ nics' \in NICLists
    BY <1>2, <1>4, BuildersAgree DEF handleCreateVMs, BuiltInv
  <2>2. pc' = "TestRunning" => hasTestTarget BY <1>4 DEF handleCreateVMs
  <2>3. pc' = "Completed" => ~hasTestTarget BY <1>4 DEF handleCreateVMs
  <2>4. hasTestTarget => Built(last) = NICs(last, TRUE) BY DEF Built
  <2>5. ~hasTestTarget => \/ Built(last) = NICs(last, FALSE)
                          \/ Built(last) = Pod /\ last = <<>>
    BY DEF Built
  <2> QED BY <2>1, <2>2, <2>3, <2>4, <2>5
<1>5. CASE handleTestRunning
  BY <1>2, <1>5 DEF handleTestRunning, BuiltInv
<1>6. CASE handleSwitchingNetwork
  BY <1>2, <1>6, BuildersAgree DEF handleSwitchingNetwork, BuiltInv
<1>7. CASE EditNICs
  BY <1>2, <1>7 DEF EditNICs, BuiltInv
<1>8. CASE UNCHANGED vars
  BY <1>2, <1>8 DEF vars, BuiltInv
<1> QED BY <1>4, <1>5, <1>6, <1>7, <1>8 DEF Next

LEMMA BuiltAlways == Spec => []BuiltInv
BY BuiltInit, BuiltNext, PTL DEF Spec

-----------------------------------------------------------------------------
LEMMA CompletedNICs == BuiltInv => SwitchIsDirect
<1> SUFFICES ASSUME BuiltInv, pc = "Completed"
             PROVE  Effective(Head(vm)) = IF read = <<>> THEN Pod ELSE Production
  BY DEF SwitchIsDirect
<1>1. CASE vm = <<NICs(read, FALSE)>>
  <2>1. Head(vm) = NICs(read, FALSE) BY <1>1
  <2> QED BY <2>1, EffectiveNICs
<1>2. CASE vm = <<Pod>> /\ read = <<>>
  <2>1. Head(vm) = Pod BY <1>2
  <2> QED BY <1>2, <2>1, EffectiveNICs
<1> QED BY <1>1, <1>2 DEF BuiltInv

\* A VM with a testTarget somewhere has a mapping to resolve to.
LEMMA TestHasMappings ==
    ASSUME mappings \in MappingLists, hasTestTarget PROVE mappings # <<>>
<1>1. DOMAIN mappings # {} BY Zenon DEF hasTestTarget
<1>2. mappings \in Seq(Mapping) BY NetworksAssumption
<1> QED BY <1>1, <1>2, EmptyDomain

LEMMA TestedNICs == BuiltInv => TestIsRehearsal
<1> SUFFICES ASSUME BuiltInv, pc = "TestRunning", NEW j \in DOMAIN read
             PROVE  LET test == MappingOf(read[j].net).testTarget
                    IN  Head(vm)[j] = IF test = "" THEN Production[j]
                                                   ELSE [Production[j] EXCEPT !.nad = test]
  BY DEF TestIsRehearsal
<1> DEFINE nm == MappingOf(read[j].net)
           mac == IF keepMAC THEN read[j].mac ELSE ""
           net == pickTarget(nm, TRUE)
<1>1. mappings # <<>> BY TestHasMappings DEF BuiltInv
<1>2. vm = <<NICs(read, TRUE)>> BY DEF BuiltInv
<1>3. Head(vm) = NICs(read, TRUE) BY <1>2
<1>4. resolveNetwork(read[j].net, TRUE) = net
  BY <1>1, ResolvesByMapping, TRUE \in BOOLEAN DEF BuiltInv
<1>5. Head(vm)[j] = [name |-> j, nad |-> net, mac |-> mac] BY <1>3, <1>4 DEF NICs
<1>6. Production[j] = [name |-> j, mac |-> mac, nad |-> nm.target] BY <1>1 DEF Production
<1>7. nm.testTarget = "" => net = nm.target BY PickTargetFor
<1>8. nm.testTarget # "" => net = nm.testTarget BY PickTargetFor
<1> HIDE DEF nm, mac, net
<1>9. [Production[j] EXCEPT !.nad = nm.testTarget] = [name |-> j, nad |-> nm.testTarget, mac |-> mac]
  BY <1>6
<1>10. Production[j] = [name |-> j, nad |-> nm.target, mac |-> mac] BY <1>6
<1>11. CASE nm.testTarget = "" BY <1>5, <1>7, <1>10, <1>11, Zenon DEF nm
<1>12. CASE nm.testTarget # "" BY <1>5, <1>8, <1>9, <1>12, Zenon DEF nm
<1> QED BY <1>11, <1>12, Zenon

\* A completed VM has the networks and addresses the mappings promise for the
\* NICs that were read last, with or without a test on the way: what
\* buildVirtualMachine, buildVirtualMachineWithNetwork and
\* buildNetworkPatchToProd make agrees, for every list of mappings and NICs.
THEOREM SwitchesAreDirect == Spec => []SwitchIsDirect
BY BuiltAlways, CompletedNICs, PTL

\* During the test every NIC has its production name and address, and the
\* testTarget of its mapping if there is one (buildVirtualMachineWithNetwork,
\* resolveNetwork).
THEOREM TestsAreRehearsals == Spec => []TestIsRehearsal
BY BuiltAlways, TestedNICs, PTL

=============================================================================
