--------------------------- MODULE WeightedQuorum ---------------------------
(***************************************************************************)
(* Voting weight, the closure threshold and the two quorum models of       *)
(* mosaic/safety.py.                                                       *)
(*                                                                         *)
(* The weight of a set of members is counted, not summed: member m owns    *)
(* the units <<m, 1>>, ..., <<m, Weight[m]>>, and the weight of a set is   *)
(* the number of units it owns.  That equals the sum the code computes     *)
(* (WeightsAdd in WeightedQuorumProofs) and lets the theorems about        *)
(* quorums rest on cardinalities of finite sets.                           *)
(***************************************************************************)
EXTENDS Integers, FiniteSets

CONSTANTS
    Member,     \* the validators of the epoch (MosaicProtocol.members)
    Weight,     \* Weight[m]: the voting weight of member m
    MaxWeight   \* a bound on the weights

ASSUME MemberAssumption ==
    /\ IsFiniteSet(Member)
    /\ MaxWeight \in Nat
    /\ Weight \in [Member -> 1 .. MaxWeight]

-----------------------------------------------------------------------------
Units(S) == {u \in S \X (1 .. MaxWeight) : u[2] <= Weight[u[1]]}

\* sum(members[m].weight for m in S)
WeightOf(S) == Cardinality(Units(S))

TotalWeight == WeightOf(Member)

\* Mutant: two thirds are enough.
ThresholdLow == (2 * TotalWeight) \div 3

\* MosaicProtocol.threshold
Threshold == (2 * TotalWeight) \div 3 + 1

IsQuorum(S) == S \subseteq Member /\ WeightOf(S) >= Threshold

\* "Byzantine weight at most one third" of weighted_honest_intersection.
WithinFaultBound(F) == F \subseteq Member /\ 3 * WeightOf(F) <= TotalWeight

\* weighted_honest_intersection: FALSE also when a premise fails.
WeightedHonestIntersection(A, B, F) ==
    /\ A \subseteq Member /\ B \subseteq Member
    /\ WithinFaultBound(F)
    /\ 3 * WeightOf(A) > 2 * TotalWeight
    /\ 3 * WeightOf(B) > 2 * TotalWeight
    /\ WeightOf((A \cap B) \ F) > 0

\* closure_exclusivity_premise
ClosureExclusivityPremise(A, B, honest) == (A \cap B) \cap honest # {}

-----------------------------------------------------------------------------
(* Model A: committees of n members, each of weight one. *)

UnweightedFaultBound(n) == (n - 1) \div 3

UnweightedQuorumSize(n) == 2 * UnweightedFaultBound(n) + 1

UnweightedHonestIntersection(n, A, B, F) ==
    /\ A \cup B \cup F \subseteq 0 .. n - 1
    /\ Cardinality(F) <= UnweightedFaultBound(n)
    /\ Cardinality(A) >= UnweightedQuorumSize(n)
    /\ Cardinality(B) >= UnweightedQuorumSize(n)
    /\ (A \cap B) \ F # {}

=============================================================================
