------------------------- MODULE GrantArbiterProofs -------------------------
(* The theorems about GrantArbiter, for any number of workers, nodes and      *)
(* batches: its safety invariants, and that it implements NodeAdmission.      *)
EXTENDS GrantArbiterSteps, FiniteSetTheorems

LEMMA Counting == CountingFacts
  <1>1. Cardinality({}) = 0
    BY FS_EmptySet
  <1>2. ASSUME NEW S, IsFiniteSet(S) PROVE Cardinality(S) \in Nat /\ (Cardinality(S) = 0 => S = {})
    BY <1>2, FS_CardinalityType, FS_EmptySet, Zenon
  <1>3. ASSUME NEW S, NEW x, IsFiniteSet(S), x \notin S
        PROVE  Cardinality(S \cup {x}) = Cardinality(S) + 1
    BY <1>3, FS_AddElement, Zenon
  <1>4. ASSUME NEW S, NEW x, IsFiniteSet(S), x \in S
        PROVE  IsFiniteSet(S \ {x}) /\ Cardinality(S \ {x}) = Cardinality(S) - 1
    BY <1>4, FS_RemoveElement, Zenon
  <1>5. ASSUME NEW S, NEW T, IsFiniteSet(S), T \subseteq S
        PROVE  IsFiniteSet(T) /\ Cardinality(T) <= Cardinality(S)
    BY <1>5, FS_Subset, Zenon
  <1> QED BY <1>1, <1>2, <1>3, <1>4, <1>5, Zenon DEF CountingFacts

THEOREM Invariance == Spec => []IInv
  <1>1. Init => IInv
    BY Counting, IInvInit
  <1>2. IInv /\ [Next]_vars => IInv'
    BY Counting, IInvStep
  <1> QED BY <1>1, <1>2, PTL DEF Spec

\* inflightPerNode_ always counts exactly the workers in flight at a node, and
\* trySchedule never lets it exceed max_inflight_per_node.
THEOREM NodeAccountingHolds == Spec => []NodeAccounting
  <1>1. IInv => NodeAccounting
    BY DEF IInv
  <1> QED BY <1>1, Invariance, PTL

\* A queued request is never left behind by a bounded scheduling pass: between
\* handlers someone is in flight, whose DONE runs trySchedule again.
THEOREM NoLostWakeupHolds == Spec => []NoLostWakeup
  <1>1. IInv => NoLostWakeup
    BY DEF IInv, PassInv
  <1> QED BY <1>1, Invariance, PTL

\* maybeSendGroupDone speaks only to a group that is quiet for good, and once.
THEOREM GroupDoneSoundHolds == Spec => []GroupDoneSound
  BY QuietGroup, Invariance, PTL

\* The grant protocol implements NodeAdmission: as the cores see it, a node never
\* has more than max_inflight_per_node users and GROUP_DONE comes last.
THEOREM AdmissionImplemented == Spec => ImplementsAdmission
  <1>1. IInv /\ [Next]_vars => [Admission!Next]_(Admission!vars)
    BY Counting, AdmissionStep
  <1> QED BY <1>1, AdmissionInit, Invariance, PTL DEF Spec, ImplementsAdmission, Admission!Spec

=============================================================================
