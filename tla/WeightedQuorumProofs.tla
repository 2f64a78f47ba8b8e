------------------------ MODULE WeightedQuorumProofs ------------------------
(***************************************************************************)
(* Quorum intersection for every membership and every weight assignment.   *)
(***************************************************************************)
EXTENDS WeightedQuorum, FiniteSetTheorems, TLAPS

\* A set of members owns finitely many units of weight.
LEMMA UnitsFinite ==
    ASSUME NEW S \in SUBSET Member
    PROVE  IsFiniteSet(Units(S)) /\ WeightOf(S) \in Nat
<1>1. IsFiniteSet(S)
  BY MemberAssumption, FS_Subset
<1>2. IsFiniteSet(1 .. MaxWeight)
  BY MemberAssumption, FS_Interval
<1>3. IsFiniteSet(S \X (1 .. MaxWeight))
  BY <1>1, <1>2, FS_Product
<1>4. Units(S) \in SUBSET (S \X (1 .. MaxWeight))
  BY DEF Units
<1>5. IsFiniteSet(Units(S))
  BY <1>3, <1>4, FS_Subset
<1> QED
  BY <1>5, FS_CardinalityType DEF WeightOf

\* Units distribute over intersection and union.
LEMMA UnitsCapCup ==
    ASSUME NEW A \in SUBSET Member, NEW B \in SUBSET Member
    PROVE  /\ Units(A \cap B) = Units(A) \cap Units(B)
           /\ Units(A \cup B) = Units(A) \cup Units(B)
BY DEF Units

\* A larger set of members has no less weight.
LEMMA WeightMonotone ==
    ASSUME NEW B \in SUBSET Member, NEW A \in SUBSET B
    PROVE  WeightOf(A) <= WeightOf(B)
<1>1. Units(A) \in SUBSET Units(B)
  BY DEF Units
<1> QED
  BY <1>1, UnitsFinite, FS_Subset DEF WeightOf

\* The weight of a union, counting shared members once.
LEMMA WeightUnion ==
    ASSUME NEW A \in SUBSET Member, NEW B \in SUBSET Member
    PROVE  WeightOf(A \cup B) = WeightOf(A) + WeightOf(B) - WeightOf(A \cap B)
BY UnitsFinite, UnitsCapCup, FS_Union DEF WeightOf

\* A member that joins a set adds its weight: counting units is the sum that
\* total_weight and verify_closure compute over the members' weights.
THEOREM WeightsAdd ==
    /\ WeightOf({}) = 0
    /\ \A S \in SUBSET Member : \A m \in Member \ S :
            WeightOf(S \cup {m}) = WeightOf(S) + Weight[m]
<1>1. WeightOf({}) = 0
  <2>1. Units({}) = {}
    BY DEF Units
  <2> QED
    BY <2>1, FS_EmptySet DEF WeightOf
<1>2. ASSUME NEW S \in SUBSET Member, NEW m \in Member \ S
      PROVE  WeightOf(S \cup {m}) = WeightOf(S) + Weight[m]
  <2> DEFINE I == 1 .. Weight[m]
             g == [i \in I |-> <<m, i>>]
  <2>1. Weight[m] \in 1 .. MaxWeight /\ MaxWeight \in Nat
    BY MemberAssumption
  <2>2. IsFiniteSet(I) /\ Cardinality(I) = Weight[m]
    BY <2>1, FS_Interval
  <2>3. g \in Bijection(I, Units({m}))
    <3>1. Units({m}) = {<<m, i>> : i \in I}
      BY <2>1 DEF Units
    <3>2. g \in [I -> Units({m})]
      BY <3>1
    <3>3. \A i, j \in I : g[i] = g[j] => i = j
      OBVIOUS
    <3>4. \A u \in Units({m}) : \E i \in I : g[i] = u
      BY <3>1
    <3> QED
      BY <3>2, <3>3, <3>4 DEF Bijection, Injection, Surjection, IsInjective
  <2>4. WeightOf({m}) = Weight[m]
    BY <2>2, <2>3, FS_Bijection DEF ExistsBijection, WeightOf
  <2>5. WeightOf(S \cap {m}) = 0
    BY <1>1
  <2>6. WeightOf(S \cup {m}) = WeightOf(S) + WeightOf({m}) - WeightOf(S \cap {m})
    BY WeightUnion
  <2>7. WeightOf(S) \in Nat /\ Weight[m] \in Nat
    BY <2>1, UnitsFinite
  <2> HIDE DEF I, g
  <2> QED
    BY <2>4, <2>5, <2>6, <2>7
<1> QED
  BY <1>1, <1>2

\* MosaicProtocol.threshold is the least weight above two thirds.
LEMMA ThresholdBound ==
    /\ TotalWeight \in Nat
    /\ Threshold \in Nat
    /\ \A w \in Nat : w >= Threshold <=> 3 * w > 2 * TotalWeight
<1>1. TotalWeight \in Nat
  BY UnitsFinite DEF TotalWeight
<1>2. \A t \in Nat : /\ (2 * t) \div 3 + 1 \in Nat
                     /\ \A w \in Nat : w >= (2 * t) \div 3 + 1 <=> 3 * w > 2 * t
  OBVIOUS
<1> QED
  BY <1>1, <1>2 DEF Threshold

\* A set of members that contains a quorum is one.
LEMMA QuorumMonotone ==
    ASSUME NEW B \in SUBSET Member, NEW A \in SUBSET B, IsQuorum(A)
    PROVE  IsQuorum(B)
<1>1. WeightOf(A) <= WeightOf(B)
  BY WeightMonotone
<1>2. WeightOf(A) \in Nat /\ WeightOf(B) \in Nat /\ Threshold \in Nat
  BY UnitsFinite, ThresholdBound
<1> QED
  BY <1>1, <1>2 DEF IsQuorum

\* A quorum has a member: no weight is not above two thirds of any.
LEMMA QuorumNonEmpty ==
    ASSUME NEW A, IsQuorum(A)
    PROVE  A # {}
<1>1. WeightOf({}) = 0
  BY WeightsAdd
<1>2. Threshold > 0
  BY ThresholdBound
<1> QED
  BY <1>1, <1>2, ThresholdBound DEF IsQuorum

(***************************************************************************)
(* Two quorums of the protocol's threshold share a member outside any set  *)
(* of at most one third of the weight: the premise of Closure Exclusivity  *)
(* (mosaic/safety.py, weighted_honest_intersection), for all weights.      *)
(***************************************************************************)
THEOREM QuorumIntersection ==
    ASSUME NEW A, IsQuorum(A), NEW B, IsQuorum(B), NEW F, WithinFaultBound(F)
    PROVE  \E m \in A \cap B : m \notin F
<1> A \in SUBSET Member /\ B \in SUBSET Member /\ F \in SUBSET Member
  BY DEF IsQuorum, WithinFaultBound
<1> DEFINE I == A \cap B
<1>1. SUFFICES ASSUME I \subseteq F PROVE FALSE
  OBVIOUS
<1>2. WeightOf(I) <= WeightOf(F)
  BY <1>1, WeightMonotone
<1>3. WeightOf(A \cup B) <= TotalWeight
  BY WeightMonotone DEF TotalWeight
<1>4. WeightOf(A \cup B) = WeightOf(A) + WeightOf(B) - WeightOf(I)
  BY WeightUnion
<1>5. /\ WeightOf(A) \in Nat /\ WeightOf(B) \in Nat /\ WeightOf(F) \in Nat
      /\ WeightOf(I) \in Nat /\ WeightOf(A \cup B) \in Nat
  BY UnitsFinite
<1>6. 3 * WeightOf(A) > 2 * TotalWeight /\ 3 * WeightOf(B) > 2 * TotalWeight
  BY <1>5, ThresholdBound DEF IsQuorum
<1>7. 3 * WeightOf(F) <= TotalWeight
  BY DEF WithinFaultBound
<1> HIDE DEF I
<1> QED
  BY <1>2, <1>3, <1>4, <1>5, <1>6, <1>7, ThresholdBound

(***************************************************************************)
(* The checks of mosaic/safety.py succeed for any two quorums at the       *)
(* threshold of mosaic/protocol.py: weighted_honest_intersection finds     *)
(* honest weight in common, and closure_exclusivity_premise finds an       *)
(* honest signer.                                                          *)
(***************************************************************************)
THEOREM QuorumsPassSafetyChecks ==
    ASSUME NEW A, IsQuorum(A), NEW B, IsQuorum(B), NEW F, WithinFaultBound(F)
    PROVE  /\ WeightedHonestIntersection(A, B, F)
           /\ ClosureExclusivityPremise(A, B, Member \ F)
<1> A \in SUBSET Member /\ B \in SUBSET Member /\ F \in SUBSET Member
  BY DEF IsQuorum, WithinFaultBound
<1>1. PICK m \in A \cap B : m \notin F
  BY QuorumIntersection
<1>2. 3 * WeightOf(A) > 2 * TotalWeight /\ 3 * WeightOf(B) > 2 * TotalWeight
  BY UnitsFinite, ThresholdBound DEF IsQuorum
<1>3. WeightOf((A \cap B) \ F) > 0
  <2>1. WeightOf({m}) = Weight[m]
    <3>1. {} \cup {m} = {m} /\ m \in Member \ {}
      BY <1>1
    <3>2. Weight[m] \in 1 .. MaxWeight /\ MaxWeight \in Nat
      BY <1>1, MemberAssumption
    <3> QED
      BY <3>1, <3>2, WeightsAdd
  <2>2. Weight[m] \in Nat /\ Weight[m] > 0
    BY <1>1, MemberAssumption
  <2>3. WeightOf({m}) <= WeightOf((A \cap B) \ F)
    BY <1>1, WeightMonotone
  <2>4. WeightOf((A \cap B) \ F) \in Nat
    BY UnitsFinite
  <2> QED
    BY <2>1, <2>2, <2>3, <2>4
<1>4. ClosureExclusivityPremise(A, B, Member \ F)
  BY <1>1 DEF ClosureExclusivityPremise
<1> QED
  BY <1>2, <1>3, <1>4 DEF WeightedHonestIntersection

(***************************************************************************)
(* Model A of mosaic/safety.py: in a committee of exactly n = 3f + 1       *)
(* members any two sets of unweighted_quorum_size(n) share one outside any *)
(* f faulty ones.  For other n, such as 2 or 5, they need not.             *)
(***************************************************************************)
THEOREM UnweightedQuorumIntersection ==
    ASSUME NEW f \in Nat, NEW n, n = 3 * f + 1,
           NEW A \in SUBSET (0 .. n - 1), NEW B \in SUBSET (0 .. n - 1),
           NEW F \in SUBSET (0 .. n - 1),
           Cardinality(A) >= UnweightedQuorumSize(n),
           Cardinality(B) >= UnweightedQuorumSize(n),
           Cardinality(F) <= UnweightedFaultBound(n)
    PROVE  UnweightedHonestIntersection(n, A, B, F)
<1>1. UnweightedFaultBound(n) = f /\ UnweightedQuorumSize(n) = 2 * f + 1
  BY DEF UnweightedFaultBound, UnweightedQuorumSize
<1>2. IsFiniteSet(0 .. n - 1) /\ Cardinality(0 .. n - 1) = n
  BY FS_Interval
<1>3. /\ IsFiniteSet(A) /\ IsFiniteSet(B) /\ IsFiniteSet(F)
      /\ IsFiniteSet(A \cap B) /\ IsFiniteSet(A \cup B)
      /\ Cardinality(A \cup B) <= n
  <2>1. A \cup B \in SUBSET (0 .. n - 1) /\ A \cap B \in SUBSET (0 .. n - 1)
    OBVIOUS
  <2> QED
    BY <1>2, <2>1, FS_Subset
<1>4. Cardinality(A \cup B) = Cardinality(A) + Cardinality(B) - Cardinality(A \cap B)
  BY <1>3, FS_Union
<1>5. /\ Cardinality(A) \in Nat /\ Cardinality(B) \in Nat /\ Cardinality(F) \in Nat
      /\ Cardinality(A \cap B) \in Nat /\ Cardinality(A \cup B) \in Nat
  BY <1>3, FS_CardinalityType
<1>6. Cardinality(A \cap B) > Cardinality(F)
  BY <1>1, <1>3, <1>4, <1>5
<1>7. (A \cap B) \ F # {}
  <2>1. SUFFICES ASSUME A \cap B \in SUBSET F PROVE FALSE
    OBVIOUS
  <2>2. Cardinality(A \cap B) <= Cardinality(F)
    BY <2>1, <1>3, FS_Subset
  <2> QED
    BY <2>2, <1>5, <1>6
<1> QED
  BY <1>7 DEF UnweightedHonestIntersection

=============================================================================
