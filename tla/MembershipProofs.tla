-------------------------- MODULE MembershipProofs --------------------------
(***************************************************************************)
(* Proofs about the settlement ledger and the membership of validators,    *)
(* with and without a store.  The first part is about sums over finite     *)
(* sets, which SumFunction takes in an order of its own.                   *)
(***************************************************************************)
EXTENDS Onboarding, FiniteSetTheorems, WellFoundedInduction, TLAPS

-----------------------------------------------------------------------------
(***************************************************************************)
(* Sums                                                                    *)
(***************************************************************************)

\* Sets of subsets of a finite set have minimal members; this stands in for
\* induction over finite sets.
LEMMA LeastSubset ==
    ASSUME NEW S, IsFiniteSet(S), NEW B \in SUBSET (SUBSET S), B # {}
    PROVE  \E M \in B : \A T \in SUBSET M : T # M => T \notin B
<1> DEFINE R == StrictSubsetOrdering(S)
<1>1. IsWellFoundedOn(R, FiniteSubsetsOf(S))
  BY FS_StrictSubsetOrderingWellFounded
<1>2. FiniteSubsetsOf(S) = SUBSET S
  BY FS_FiniteSubsetsOfFinite
<1>3. \A U, V \in SUBSET S : U \subseteq V /\ U # V => <<U, V>> \in R
  BY DEF StrictSubsetOrdering
<1> HIDE DEF R
<1>4. IsWellFoundedOn(R, SUBSET S)
  BY <1>1, <1>2
<1>5. PICK M \in B : \A T \in B : ~(<<T, M>> \in R)
  BY <1>4, WFMin
<1>6. ASSUME NEW T \in SUBSET M, T # M, T \in B
      PROVE  FALSE
  BY <1>3, <1>5, <1>6
<1> QED
  BY <1>5, <1>6

\* The element that the sum over s adds last.
Pick(s) == CHOOSE x \in s : TRUE

\* g[s] is the sum of f over the subset s of T.
Summing(g, f, T) ==
    g = [s \in SUBSET T |-> IF s = {} THEN 0 ELSE f[Pick(s)] + g[s \ {Pick(s)}]]

\* Two such functions agree where both are defined.
LEMMA SummingAgrees ==
    ASSUME NEW f, NEW T, NEW U, NEW g, NEW h, Summing(g, f, T), Summing(h, f, U),
           NEW S \in SUBSET (T \cap U), IsFiniteSet(S)
    PROVE  g[S] = h[S]
<1> DEFINE B == {s \in SUBSET S : g[s] # h[s]}
<1> SUFFICES ASSUME B # {} PROVE FALSE
  OBVIOUS
<1>1. PICK M \in B : \A s \in SUBSET M : s # M => s \notin B
  <2> HIDE DEF B
  <2>1. B \in SUBSET (SUBSET S)
    BY DEF B
  <2> QED
    BY <2>1, LeastSubset
<1>2. M \in SUBSET T /\ M \in SUBSET U /\ M \in SUBSET S
  OBVIOUS
<1>3. g[M] = IF M = {} THEN 0 ELSE f[Pick(M)] + g[M \ {Pick(M)}]
  BY <1>2 DEF Summing
<1>4. h[M] = IF M = {} THEN 0 ELSE f[Pick(M)] + h[M \ {Pick(M)}]
  BY <1>2 DEF Summing
<1>5. M # {}
  BY <1>3, <1>4
<1>6. Pick(M) \in M
  BY <1>5 DEF Pick
<1>7. g[M \ {Pick(M)}] = h[M \ {Pick(M)}]
  BY <1>1, <1>2, <1>6
<1> QED
  BY <1>3, <1>4, <1>7

\* There is one over every finite set.
LEMMA SummingExists ==
    ASSUME NEW f, NEW S, IsFiniteSet(S)
    PROVE  \E g : Summing(g, f, S)
<1> DEFINE B == {s \in SUBSET S : ~ \E g : Summing(g, f, s)}
           Iter(s) == CHOOSE g : Summing(g, f, s)
<1> SUFFICES ASSUME B # {} PROVE FALSE
  OBVIOUS
<1>1. PICK M \in B : \A s \in SUBSET M : s # M => s \notin B
  <2> HIDE DEF B
  <2>1. B \in SUBSET (SUBSET S)
    BY DEF B
  <2> QED
    BY <2>1, LeastSubset
<1>2. M \in SUBSET S /\ ~ \E g : Summing(g, f, M)
  OBVIOUS
<1>3. \A s \in SUBSET M : s # M => Summing(Iter(s), f, s)
  <2> TAKE s \in SUBSET M
  <2> HAVE s # M
  <2>1. s \in SUBSET S /\ s \notin B
    BY <1>1, <1>2
  <2> QED
    BY <2>1
<1>4. \A s \in SUBSET M : IsFiniteSet(s)
  BY <1>2, FS_Subset
<1> HIDE DEF Iter, B
<1> DEFINE h == [s \in SUBSET M |-> IF s = {} THEN 0
                                   ELSE f[Pick(s)] + Iter(s \ {Pick(s)})[s \ {Pick(s)}]]
<1>5. ASSUME NEW t \in SUBSET M, t # M
      PROVE  h[t] = Iter(t)[t]
  <2>1. Summing(Iter(t), f, t)
    BY <1>3, <1>5
  <2>2. Iter(t)[t] = IF t = {} THEN 0 ELSE f[Pick(t)] + Iter(t)[t \ {Pick(t)}]
    BY <2>1 DEF Summing
  <2>3. CASE t = {}
    BY <2>2, <2>3
  <2>4. CASE t # {}
    <3> DEFINE u == t \ {Pick(t)}
    <3>1. Pick(t) \in t
      BY <2>4 DEF Pick
    <3>2. u \in SUBSET M /\ u # M /\ u \in SUBSET (t \cap u)
      BY <3>1
    <3> HIDE DEF u
    <3>3. Summing(Iter(u), f, u) /\ IsFiniteSet(u)
      BY <1>3, <1>4, <3>2
    <3>4. Iter(t)[u] = Iter(u)[u]
      BY <2>1, <3>2, <3>3, SummingAgrees
    <3>5. h[t] = f[Pick(t)] + Iter(u)[u]
      BY <2>4 DEF u
    <3> QED
      BY <2>2, <2>4, <3>4, <3>5 DEF u
  <2> QED
    BY <2>3, <2>4
<1>6. ASSUME NEW s \in SUBSET M
      PROVE  h[s] = IF s = {} THEN 0 ELSE f[Pick(s)] + h[s \ {Pick(s)}]
  <2>1. CASE s = {}
    BY <2>1
  <2>2. CASE s # {}
    <3> DEFINE t == s \ {Pick(s)}
    <3>1. Pick(s) \in s
      BY <2>2 DEF Pick
    <3>2. t \in SUBSET M /\ t # M
      BY <3>1
    <3>3. h[s] = f[Pick(s)] + Iter(t)[t]
      BY <2>2
    <3> HIDE DEF t, h
    <3>4. h[t] = Iter(t)[t]
      BY <3>2, <1>5
    <3> QED
      BY <2>2, <3>3, <3>4 DEF t
  <2> QED
    BY <2>1, <2>2
<1>7. Summing(h, f, M)
  <2>1. h = [s \in SUBSET M |-> h[s]]
    OBVIOUS
  <2> HIDE DEF h
  <2> QED
    BY <1>6, <2>1 DEF Summing
<1> QED
  BY <1>2, <1>7

\* A sum is computed by such a function.
LEMMA SumBySumming ==
    ASSUME NEW f, NEW S, IsFiniteSet(S)
    PROVE  \E g : Summing(g, f, S) /\ SumFunctionOnSet(f, S) = g[S]
<1> DEFINE g == CHOOSE iter :
        iter = [s \in SUBSET S |-> IF s = {} THEN 0
                    ELSE f[CHOOSE x \in s : TRUE] + iter[s \ {CHOOSE x \in s : TRUE}]]
<1>1. SumFunctionOnSet(f, S) = g[S]
  BY DEF SumFunctionOnSet, FoldFunctionOnSet, MapThenFoldSet
<1>2. \E iter :
        iter = [s \in SUBSET S |-> IF s = {} THEN 0
                    ELSE f[CHOOSE x \in s : TRUE] + iter[s \ {CHOOSE x \in s : TRUE}]]
  <2>1. PICK h : Summing(h, f, S)
    BY SummingExists
  <2> QED
    BY <2>1 DEF Summing, Pick
<1>3. Summing(g, f, S)
  BY <1>2 DEF Summing, Pick
<1> QED
  BY <1>1, <1>3

\* The sum over no element.
LEMMA SumEmpty ==
    ASSUME NEW f
    PROVE  SumFunctionOnSet(f, {}) = 0
<1>1. IsFiniteSet({})
  BY FS_EmptySet
<1>2. PICK g : Summing(g, f, {}) /\ SumFunctionOnSet(f, {}) = g[{}]
  BY <1>1, SumBySumming
<1> QED
  BY <1>2 DEF Summing

\* The sum adds the picked element to the sum over the others.
LEMMA SumPicked ==
    ASSUME NEW f, NEW S, IsFiniteSet(S), S # {}
    PROVE  /\ Pick(S) \in S
           /\ SumFunctionOnSet(f, S) = f[Pick(S)] + SumFunctionOnSet(f, S \ {Pick(S)})
<1> DEFINE T == S \ {Pick(S)}
<1>1. Pick(S) \in S
  BY DEF Pick
<1>2. IsFiniteSet(T) /\ T \in SUBSET (S \cap T)
  BY FS_Subset
<1>3. PICK g : Summing(g, f, S) /\ SumFunctionOnSet(f, S) = g[S]
  BY SumBySumming
<1>4. g[S] = f[Pick(S)] + g[T]
  BY <1>3 DEF Summing
<1> HIDE DEF T
<1>5. PICK h : Summing(h, f, T) /\ SumFunctionOnSet(f, T) = h[T]
  BY <1>2, SumBySumming
<1>6. g[T] = h[T]
  BY <1>2, <1>3, <1>5, SummingAgrees
<1> QED
  BY <1>1, <1>3, <1>4, <1>5, <1>6 DEF T

\* The terms of a sum over S are integers.
Ints(f, S) == \A x \in S : f[x] \in Int

\* Sums of integers are integers, and the order of the additions is immaterial.
LEMMA SumElement ==
    ASSUME NEW f, NEW S, IsFiniteSet(S), Ints(f, S), NEW y \in S
    PROVE  /\ SumFunctionOnSet(f, S \ {y}) \in Int
           /\ SumFunctionOnSet(f, S) = f[y] + SumFunctionOnSet(f, S \ {y})
<1> DEFINE Good(T) == /\ SumFunctionOnSet(f, T) \in Int
                      /\ \A x \in T : SumFunctionOnSet(f, T) = f[x] + SumFunctionOnSet(f, T \ {x})
           B == {T \in SUBSET S : ~Good(T)}
<1>1. \A T \in SUBSET S : Good(T)
  <2> SUFFICES ASSUME B # {} PROVE FALSE
    OBVIOUS
  <2>1. PICK M \in B : \A T \in SUBSET M : T # M => T \notin B
    <3> HIDE DEF B
    <3>1. B \in SUBSET (SUBSET S)
      BY DEF B
    <3> QED
      BY <3>1, LeastSubset
  <2>2. M \in SUBSET S /\ ~Good(M)
    OBVIOUS
  <2>3. \A T \in SUBSET M : T # M => Good(T)
    BY <2>1, <2>2
  <2>4. IsFiniteSet(M)
    BY <2>2, FS_Subset
  <2>5. M # {}
    BY <2>2, SumEmpty
  <2> DEFINE p == Pick(M)
             N == M \ {p}
  <2>6. p \in M /\ SumFunctionOnSet(f, M) = f[p] + SumFunctionOnSet(f, N)
    BY <2>4, <2>5, SumPicked
  <2>7. Good(N)
    BY <2>3, <2>6
  <2>8. SumFunctionOnSet(f, M) \in Int
    BY <2>2, <2>6, <2>7 DEF Ints
  <2>9. ASSUME NEW x \in M, x # p
        PROVE  SumFunctionOnSet(f, M) = f[x] + SumFunctionOnSet(f, M \ {x})
    <3> HIDE DEF p
    <3> DEFINE K == N \ {x}
               L == M \ {x}
    <3>1. Good(L)
      <4>1. L \in SUBSET M /\ L # M
        OBVIOUS
      <4> HIDE DEF L, Good
      <4> QED
        BY <4>1, <2>3
    <3>2. p \in L /\ x \in N /\ L \ {p} = K
      BY <2>6, <2>9
    <3>3. Good(K)
      <4>1. K \in SUBSET M /\ K # M
        OBVIOUS
      <4> HIDE DEF K, Good
      <4> QED
        BY <4>1, <2>3
    <3>4. SumFunctionOnSet(f, L) = f[p] + SumFunctionOnSet(f, K)
      BY <3>1, <3>2
    <3>5. SumFunctionOnSet(f, N) = f[x] + SumFunctionOnSet(f, K)
      BY <2>7, <3>2
    <3>6. f[x] \in Int /\ f[p] \in Int /\ SumFunctionOnSet(f, K) \in Int
      BY <2>2, <2>6, <3>3 DEF Ints
    <3> HIDE DEF K, L, N, Good
    <3> QED
      BY <2>6, <3>4, <3>5, <3>6 DEF L
  <2>10. Good(M)
    BY <2>6, <2>8, <2>9
  <2> QED
    BY <2>2, <2>10
<1>2. Good(S)
  <2> HIDE DEF Good
  <2> QED BY <1>1
<1>3. Good(S \ {y})
  <2>1. S \ {y} \in SUBSET S
    OBVIOUS
  <2> HIDE DEF Good
  <2> QED BY <1>1, <2>1
<1> QED
  BY <1>2, <1>3

\* Sums of integers are integers.
LEMMA SumInt ==
    ASSUME NEW f, NEW S, IsFiniteSet(S), Ints(f, S)
    PROVE  SumFunctionOnSet(f, S) \in Int
<1>1. CASE S = {}
  BY <1>1, SumEmpty
<1>2. CASE S # {}
  <2>1. PICK y \in S : TRUE
    BY <1>2
  <2>2. /\ SumFunctionOnSet(f, S \ {y}) \in Int
        /\ SumFunctionOnSet(f, S) = f[y] + SumFunctionOnSet(f, S \ {y})
    BY SumElement
  <2> QED
    BY <2>2 DEF Ints
<1> QED
  BY <1>1, <1>2

\* Induction over the subsets of a finite set, for a set G of subsets.
LEMMA SubsetInduction ==
    ASSUME NEW S, IsFiniteSet(S), NEW G, {} \in G,
           \A T \in SUBSET S : \A x \in T : T \ {x} \in G => T \in G
    PROVE  S \in G
<1> DEFINE B == {T \in SUBSET S : T \notin G}
<1> SUFFICES ASSUME B # {} PROVE FALSE
  OBVIOUS
<1>1. PICK M \in B : \A T \in SUBSET M : T # M => T \notin B
  <2> HIDE DEF B
  <2>1. B \in SUBSET (SUBSET S)
    BY DEF B
  <2> QED
    BY <2>1, LeastSubset
<1>2. M \in SUBSET S /\ M \notin G /\ M # {}
  OBVIOUS
<1>3. PICK x \in M : TRUE
  BY <1>2
<1>4. M \ {x} \in SUBSET M /\ M \ {x} # M
  BY <1>3
<1>5. M \ {x} \in G
  BY <1>1, <1>2, <1>4
<1> QED
  BY <1>2, <1>3, <1>5

\* Sums of natural numbers are natural numbers.
LEMMA SumNat ==
    ASSUME NEW f, NEW S, IsFiniteSet(S), \A x \in S : f[x] \in Nat
    PROVE  SumFunctionOnSet(f, S) \in Nat
<1> DEFINE G == {T \in SUBSET S : SumFunctionOnSet(f, T) \in Nat}
<1>1. {} \in G
  BY SumEmpty
<1>2. ASSUME NEW T \in SUBSET S, NEW x \in T, T \ {x} \in G
      PROVE  T \in G
  <2>1. IsFiniteSet(T) /\ Ints(f, T)
    BY FS_Subset DEF Ints
  <2>2. SumFunctionOnSet(f, T) = f[x] + SumFunctionOnSet(f, T \ {x})
    BY <2>1, SumElement
  <2> QED
    BY <1>2, <2>2
<1> HIDE DEF G
<1>3. S \in G
  BY <1>1, <1>2, SubsetInduction
<1> QED
  BY <1>3 DEF G

\* The terms of h are the sums of those of f and g.
IsSum(h, f, g, S) == \A x \in S : h[x] = f[x] + g[x]

\* A sum is that of two others when its terms are.
LEMMA SumAdd ==
    ASSUME NEW f, NEW g, NEW h, NEW S, IsFiniteSet(S),
           Ints(f, S), Ints(g, S), IsSum(h, f, g, S)
    PROVE  SumFunctionOnSet(h, S) = SumFunctionOnSet(f, S) + SumFunctionOnSet(g, S)
<1> DEFINE G == {T \in SUBSET S :
             SumFunctionOnSet(h, T) = SumFunctionOnSet(f, T) + SumFunctionOnSet(g, T)}
<1>1. {} \in G
  BY SumEmpty
<1>2. ASSUME NEW T \in SUBSET S, NEW x \in T, T \ {x} \in G
      PROVE  T \in G
  <2>1. IsFiniteSet(T) /\ Ints(f, T) /\ Ints(g, T) /\ Ints(h, T)
    BY FS_Subset DEF Ints, IsSum
  <2>2. /\ SumFunctionOnSet(f, T) = f[x] + SumFunctionOnSet(f, T \ {x})
        /\ SumFunctionOnSet(f, T \ {x}) \in Int
    BY <2>1, SumElement
  <2>3. /\ SumFunctionOnSet(g, T) = g[x] + SumFunctionOnSet(g, T \ {x})
        /\ SumFunctionOnSet(g, T \ {x}) \in Int
    BY <2>1, SumElement
  <2>4. /\ SumFunctionOnSet(h, T) = h[x] + SumFunctionOnSet(h, T \ {x})
        /\ SumFunctionOnSet(h, T \ {x}) \in Int
    BY <2>1, SumElement
  <2>5. SumFunctionOnSet(h, T \ {x}) = SumFunctionOnSet(f, T \ {x}) + SumFunctionOnSet(g, T \ {x})
    BY <1>2
  <2>6. h[x] = f[x] + g[x] /\ f[x] \in Int /\ g[x] \in Int
    BY DEF Ints, IsSum
  <2>7. SumFunctionOnSet(h, T) = SumFunctionOnSet(f, T) + SumFunctionOnSet(g, T)
    BY <2>2, <2>3, <2>4, <2>5, <2>6
  <2> QED
    BY <2>7
<1> HIDE DEF G
<1>3. S \in G
  BY <1>1, <1>2, SubsetInduction
<1> QED
  BY <1>3 DEF G

\* Only the terms of a sum matter.
LEMMA SumSame ==
    ASSUME NEW f, NEW g, NEW S, IsFiniteSet(S),
           Ints(f, S), \A x \in S : g[x] = f[x]
    PROVE  SumFunctionOnSet(g, S) = SumFunctionOnSet(f, S)
<1> DEFINE G == {T \in SUBSET S : SumFunctionOnSet(g, T) = SumFunctionOnSet(f, T)}
<1>1. {} \in G
  BY SumEmpty
<1>2. ASSUME NEW T \in SUBSET S, NEW x \in T, T \ {x} \in G
      PROVE  T \in G
  <2>1. IsFiniteSet(T) /\ Ints(f, T) /\ Ints(g, T) /\ g[x] = f[x]
    BY FS_Subset DEF Ints
  <2>2. SumFunctionOnSet(f, T) = f[x] + SumFunctionOnSet(f, T \ {x})
    BY <2>1, SumElement
  <2>3. SumFunctionOnSet(g, T) = g[x] + SumFunctionOnSet(g, T \ {x})
    BY <2>1, SumElement
  <2> QED
    BY <1>2, <2>1, <2>2, <2>3
<1> HIDE DEF G
<1>3. S \in G
  BY <1>1, <1>2, SubsetInduction
<1> QED
  BY <1>3 DEF G

\* The terms over D are zero.
VanishesOn(f, D) == \A x \in D : f[x] = 0

\* Terms that are zero may be left out.
LEMMA SumSupport ==
    ASSUME NEW f, NEW S, IsFiniteSet(S), NEW T \in SUBSET S,
           Ints(f, T), VanishesOn(f, S \ T)
    PROVE  SumFunctionOnSet(f, S) = SumFunctionOnSet(f, T)
<1> DEFINE D == S \ T
           G == {U \in SUBSET D : SumFunctionOnSet(f, T \cup U) = SumFunctionOnSet(f, T)}
<1>1. {} \in G
  OBVIOUS
<1>2. ASSUME NEW U \in SUBSET D, NEW x \in U, U \ {x} \in G
      PROVE  U \in G
  <2>1. /\ T \cup U \in SUBSET S /\ (T \cup U) \ {x} = T \cup (U \ {x})
        /\ f[x] = 0 /\ x \in T \cup U
    BY DEF VanishesOn
  <2>2. IsFiniteSet(T \cup U) /\ Ints(f, T \cup U)
    BY <2>1, FS_Subset DEF Ints, VanishesOn
  <2> DEFINE V == T \cup U
  <2> HIDE DEF V
  <2>3. x \in V /\ IsFiniteSet(V) /\ Ints(f, V)
    BY <2>1, <2>2 DEF V
  <2>4. /\ SumFunctionOnSet(f, V) = f[x] + SumFunctionOnSet(f, V \ {x})
        /\ SumFunctionOnSet(f, V \ {x}) \in Int
    BY <2>3, SumElement
  <2>5. SumFunctionOnSet(f, V \ {x}) = SumFunctionOnSet(f, T)
    BY <1>2, <2>1 DEF V
  <2>6. SumFunctionOnSet(f, V) = SumFunctionOnSet(f, T)
    BY <2>1, <2>4, <2>5
  <2> QED
    BY <2>6 DEF V
<1>3. IsFiniteSet(D)
  BY FS_Subset
<1> HIDE DEF G
<1>4. D \in G
  BY <1>1, <1>2, <1>3, SubsetInduction
<1>5. T \cup D = S
  OBVIOUS
<1> QED
  BY <1>4, <1>5 DEF G

\* The image of a finite set is finite.
LEMMA ImageFinite ==
    ASSUME NEW E, NEW T, IsFiniteSet(T)
    PROVE  IsFiniteSet({E[x] : x \in T})
<1> DEFINE g == [x \in T |-> E[x]]
           U == {E[x] : x \in T}
<1>1. g \in Surjection(T, U)
  BY DEF Surjection
<1> HIDE DEF g, U
<1>2. IsFiniteSet(U)
  BY <1>1, FS_Surjection
<1> QED
  BY <1>2 DEF U

\* Renaming the terms of a sum changes nothing.
LEMMA SumImage ==
    ASSUME NEW f, NEW F, NEW E, NEW S, IsFiniteSet(S),
           Ints(f, S), \A x \in S : F[E[x]] = f[x],
           \A x, y \in S : E[x] = E[y] => x = y
    PROVE  /\ IsFiniteSet({E[x] : x \in S})
           /\ SumFunctionOnSet(F, {E[x] : x \in S}) = SumFunctionOnSet(f, S)
<1> DEFINE Im(T) == {E[x] : x \in T}
           G == {T \in SUBSET S : SumFunctionOnSet(F, Im(T)) = SumFunctionOnSet(f, T)}
<1>1. {} \in G
  <2>1. Im({}) = {}
    OBVIOUS
  <2> QED
    BY <2>1, SumEmpty
<1>2. ASSUME NEW T \in SUBSET S
      PROVE  IsFiniteSet(Im(T))
  <2>1. IsFiniteSet(T)
    BY FS_Subset
  <2> QED
    BY <2>1, ImageFinite
<1>3. ASSUME NEW T \in SUBSET S, NEW x \in T, T \ {x} \in G
      PROVE  T \in G
  <2>1. IsFiniteSet(T) /\ Ints(f, T)
    BY FS_Subset DEF Ints
  <2>2. SumFunctionOnSet(f, T) = f[x] + SumFunctionOnSet(f, T \ {x})
    BY <2>1, SumElement
  <2>3. Im(T) \ {E[x]} = Im(T \ {x}) /\ E[x] \in Im(T) /\ Ints(F, Im(T))
    BY DEF Ints
  <2> HIDE DEF Im
  <2>4. IsFiniteSet(Im(T))
    BY <1>2
  <2>5. SumFunctionOnSet(F, Im(T)) = F[E[x]] + SumFunctionOnSet(F, Im(T) \ {E[x]})
    BY <2>3, <2>4, SumElement
  <2> QED
    BY <1>3, <2>2, <2>3, <2>5
<1>4. S \in G
  <2> HIDE DEF G, Im
  <2> QED
    BY <1>1, <1>3, SubsetInduction
<1> QED
  BY <1>2, <1>4

\* The sum of equal terms.
LEMMA SumConstant ==
    ASSUME NEW f, NEW S, IsFiniteSet(S), NEW c \in Int, \A x \in S : f[x] = c
    PROVE  SumFunctionOnSet(f, S) = c * Cardinality(S)
<1> DEFINE G == {T \in SUBSET S : SumFunctionOnSet(f, T) = c * Cardinality(T)}
<1>1. {} \in G
  <2>1. Cardinality({}) = 0
    BY FS_EmptySet
  <2>2. c * 0 = 0
    OBVIOUS
  <2> QED
    BY <2>1, <2>2, SumEmpty
<1>2. ASSUME NEW T \in SUBSET S, NEW x \in T, T \ {x} \in G
      PROVE  T \in G
  <2>1. IsFiniteSet(T) /\ Ints(f, T)
    BY FS_Subset DEF Ints
  <2>2. SumFunctionOnSet(f, T) = f[x] + SumFunctionOnSet(f, T \ {x})
    BY <2>1, SumElement
  <2>3. Cardinality(T \ {x}) = Cardinality(T) - 1 /\ Cardinality(T) \in Nat
    BY <2>1, FS_RemoveElement, FS_CardinalityType
  <2>4. ASSUME NEW n \in Nat
        PROVE  c + c * (n - 1) = c * n
    OBVIOUS
  <2>5. c + c * (Cardinality(T) - 1) = c * Cardinality(T)
    BY <2>3, <2>4
  <2> QED
    BY <1>2, <2>2, <2>3, <2>5
<1> HIDE DEF G
<1>3. S \in G
  BY <1>1, <1>2, SubsetInduction
<1> QED
  BY <1>3 DEF G

\* A finite set of numbers has its largest element.
LEMMA MaxElement ==
    ASSUME NEW S \in SUBSET Nat, IsFiniteSet(S), S # {}
    PROVE  Max(S) \in S /\ \A y \in S : Max(S) >= y
<1> DEFINE G == {T \in SUBSET S : T # {} => \E x \in T : \A y \in T : x >= y}
<1>1. {} \in G
  OBVIOUS
<1>2. ASSUME NEW T \in SUBSET S, NEW x \in T, T \ {x} \in G
      PROVE  T \in G
  <2>1. CASE T \ {x} = {}
    <3>1. \A y \in T : x >= y
      BY <2>1
    <3> QED
      BY <3>1
  <2>2. CASE T \ {x} # {}
    <3>1. PICK m \in T \ {x} : \A y \in T \ {x} : m >= y
      BY <1>2, <2>2
    <3>2. (\A y \in T : m >= y) \/ (\A y \in T : x >= y)
      BY <3>1
    <3> QED
      BY <3>1, <3>2
  <2> QED
    BY <2>1, <2>2
<1> HIDE DEF G
<1>3. S \in G
  BY <1>1, <1>2, SubsetInduction
<1>4. \E x \in S : \A y \in S : x >= y
  BY <1>3 DEF G
<1> QED
  BY <1>4 DEF Max

-----------------------------------------------------------------------------
(***************************************************************************)
(* What a sound ledger is.  Each predicate is about one ledger, so that it *)
(* serves for the ledger of the node and for the one in the store.         *)
(***************************************************************************)

\* The entries of a ledger of one kind about one account.
Of(l, kind, v) == {e \in l.events : e[1] = kind /\ e[3] = v}

\* What was paid in.
Funds(l) == {e \in l.events : e[1] = "FUND"}

\* Balances and bonds are what the code's types and guards make of them.
Sound(l) ==
    /\ DOMAIN l = {"balances", "bonds", "evidence", "epochs", "events"}
    /\ l.balances \in [Account -> Nat]
    /\ DOMAIN l.bonds \subseteq Validator
    /\ \A v \in DOMAIN l.bonds :
          /\ l.bonds[v] \in Position
          /\ l.bonds[v].amount <= Stake[v]
          /\ l.bonds[v].unlock >= Unlock[v]
    /\ IsFiniteSet(l.events)
    /\ \A e \in l.events : e[2] \in Nat /\ e[4] \in Nat

\* Who leaves has asked to, and is paid when the delay is over.
Delayed(l) ==
    /\ \A v \in DOMAIN l.bonds : l.bonds[v].unbonding =>
          \E u \in Of(l, "UNBOND_REQUEST", v) : u[2] + WithdrawalDelay <= l.bonds[v].unlock
    /\ \A v \in Validator : \A w \in Of(l, "WITHDRAW", v) :
          /\ w[2] >= Unlock[v]
          /\ \E u \in Of(l, "UNBOND_REQUEST", v) : u[2] + WithdrawalDelay <= w[2]

\* Bonds and what was slashed of them make up the stakes; D are the deposits
\* used so far.
Debited(l, D) ==
    /\ \A e \in l.events : e[1] = "SLASH" => e[5] \in l.evidence
    /\ \A v \in DOMAIN l.bonds :
          /\ l.bonds[v].amount + Amounts(Of(l, "SLASH", v)) = Stake[v]
          /\ Of(l, "WITHDRAW", v) = {}
    /\ \A v \in D \ DOMAIN l.bonds :
          Amounts(Of(l, "WITHDRAW", v)) + Amounts(Of(l, "SLASH", v)) = Stake[v]
    /\ \A v \in Validator \ (D \cup DOMAIN l.bonds) :
          Of(l, "WITHDRAW", v) = {} /\ Of(l, "SLASH", v) = {}

\* Rewards that were paid are remembered.
Announced(l) == \A e \in l.events : e[1] = "REWARD" => e[2] \in l.epochs

\* What an account has, its bond included.
Purse(l) ==
    [a \in Account |-> l.balances[a] + IF a \in DOMAIN l.bonds THEN l.bonds[a].amount ELSE 0]

Balanced(l) == SumFunctionOnSet(Purse(l), Account) = Amounts(Funds(l))

\* What a validator has is what it was given, less its bond.
Earned(l) ==
    /\ \A e \in l.events : e[1] = "BOND" => e[3] \in DOMAIN l.bonds
    /\ \A v \in Validator :
          l.balances[v] + Amounts(Of(l, "BOND", v))
            = Amounts(Of(l, "FUND", v)) + Amounts(Of(l, "REWARD", v))

\* The fields of an event.
LEMMA EventFields ==
    ASSUME NEW k, NEW ep, NEW a, NEW n, NEW r
    PROVE  /\ Event(k, ep, a, n, r)[1] = k
           /\ Event(k, ep, a, n, r)[2] = ep
           /\ Event(k, ep, a, n, r)[3] = a
           /\ Event(k, ep, a, n, r)[4] = n
           /\ Event(k, ep, a, n, r)[5] = r
BY DEF Event

\* The accounts are finitely many.
LEMMA AccountsFinite ==
    /\ IsFiniteSet(Validator) /\ IsFiniteSet(Account)
    /\ Validator \subseteq Nat /\ Validator \subseteq Account
    /\ Treasury \in Account /\ Treasury \notin Validator
<1>1. IsFiniteSet(Validator)
  BY SettlementAssumption
<1>2. IsFiniteSet(Validator \cup {Treasury})
  BY <1>1, FS_AddElement
<1> QED
  BY <1>1, <1>2, SettlementAssumption DEF Account

\* The events of E have amounts.
Counted(E) == IsFiniteSet(E) /\ \A e \in E : e[4] \in Nat

\* The amounts of no events.
LEMMA AmountsEmpty == Amounts({}) = 0
<1>1. Amounts({}) = SumFunctionOnSet([e \in {} |-> e[4]], {})
  BY DEF Amounts, SumFunction
<1> QED
  BY <1>1, SumEmpty

\* The amounts of events are the sum of any function that has them.
LEMMA AmountsSum ==
    ASSUME NEW E, Counted(E), NEW f, \A e \in E : f[e] = e[4]
    PROVE  Amounts(E) = SumFunctionOnSet(f, E) /\ Ints(f, E) /\ Amounts(E) \in Nat
<1> DEFINE g == [e \in E |-> e[4]]
<1>1. Amounts(E) = SumFunctionOnSet(g, E)
  BY DEF Amounts, SumFunction
<1>2. /\ Ints(f, E) /\ \A e \in E : g[e] = f[e]
      /\ \A e \in E : f[e] \in Nat
      /\ IsFiniteSet(E)
  BY DEF Ints, Counted
<1> HIDE DEF g
<1>3. SumFunctionOnSet(g, E) = SumFunctionOnSet(f, E)
  BY <1>2, SumSame
<1>4. SumFunctionOnSet(f, E) \in Nat
  BY <1>2, SumNat
<1> QED
  BY <1>1, <1>2, <1>3, <1>4

\* Amounts are natural numbers.
LEMMA AmountsNat ==
    ASSUME NEW E, Counted(E)
    PROVE  Amounts(E) \in Nat
<1> DEFINE g == [e \in E |-> e[4]]
<1>1. \A e \in E : g[e] = e[4]
  OBVIOUS
<1> HIDE DEF g
<1> QED
  BY <1>1, AmountsSum

\* A new event adds its amount.
LEMMA AmountsAdd ==
    ASSUME NEW E, Counted(E), NEW x, x \notin E, x[4] \in Nat
    PROVE  Amounts(E \cup {x}) = Amounts(E) + x[4]
<1> DEFINE U == E \cup {x}
           g == [e \in U |-> e[4]]
<1>1. Counted(U)
  BY FS_AddElement DEF Counted
<1>2. /\ \A e \in U : g[e] = e[4]
      /\ \A e \in E : g[e] = e[4]
      /\ x \in U /\ U \ {x} = E
  OBVIOUS
<1> HIDE DEF g, U
<1>3. Amounts(U) = SumFunctionOnSet(g, U) /\ Ints(g, U)
  BY <1>1, <1>2, AmountsSum
<1>4. Amounts(E) = SumFunctionOnSet(g, E) /\ Amounts(E) \in Nat
  BY <1>2, AmountsSum
<1>5. SumFunctionOnSet(g, U) = g[x] + SumFunctionOnSet(g, U \ {x})
  BY <1>1, <1>2, <1>3, SumElement DEF Counted
<1>6. g[x] = x[4]
  BY <1>2
<1>7. Amounts(U) = x[4] + Amounts(E)
  BY <1>2, <1>3, <1>4, <1>5, <1>6
<1>8. Amounts(U) = Amounts(E) + x[4]
  BY <1>4, <1>7
<1> QED
  BY <1>8 DEF U

\* One event.
LEMMA AmountsOne ==
    ASSUME NEW x, x[4] \in Nat
    PROVE  Amounts({x}) = x[4]
<1>1. Counted({})
  BY FS_EmptySet DEF Counted
<1>2. Amounts({} \cup {x}) = Amounts({}) + x[4]
  BY <1>1, AmountsAdd
<1> QED
  BY <1>2, AmountsEmpty

\* The entries of a sound ledger can be counted.
LEMMA EntriesCounted ==
    ASSUME NEW l, Sound(l)
    PROVE  Counted(Funds(l)) /\ \A k, v : Counted(Of(l, k, v))
<1>1. IsFiniteSet(l.events) /\ \A e \in l.events : e[4] \in Nat
  BY DEF Sound
<1>2. Funds(l) \in SUBSET l.events /\ \A k, v : Of(l, k, v) \in SUBSET l.events
  BY DEF Of, Funds
<1>3. ASSUME NEW E \in SUBSET l.events
      PROVE  Counted(E)
  <2>1. IsFiniteSet(E)
    BY <1>1, FS_Subset
  <2> QED
    BY <1>1, <2>1 DEF Counted
<1> QED
  BY <1>2, <1>3

\* m has the events of l and those of N, which are of kind k.
Logged(l, m, k, N) == m.events = l.events \cup N /\ \A e \in N : e[1] = k

\* New entries of one kind do not disturb those of another.
LEMMA OtherEntries ==
    ASSUME NEW l, NEW m, NEW k, NEW N, Logged(l, m, k, N), NEW j, j # k
    PROVE  /\ \A v : Of(m, j, v) = Of(l, j, v)
           /\ \A e \in m.events : e[1] = j => e \in l.events
BY DEF Logged, Of

\* The same for what was paid in.
LEMMA OtherFunds ==
    ASSUME NEW l, NEW m, NEW k, NEW N, Logged(l, m, k, N), k # "FUND"
    PROVE  Funds(m) = Funds(l)
BY DEF Logged, Funds

\* An entry about v joins those about v.
LEMMA OneEntry ==
    ASSUME NEW l, NEW m, NEW k, NEW N, Logged(l, m, k, N), NEW x \in N, NEW v, x[3] = v,
           \A e \in N : e[3] = v => e = x
    PROVE  Of(m, k, v) = Of(l, k, v) \cup {x}
BY DEF Logged, Of

\* Entries about others do not.
LEMMA NoEntry ==
    ASSUME NEW l, NEW m, NEW k, NEW N, Logged(l, m, k, N), NEW v, \A e \in N : e[3] # v
    PROVE  Of(m, k, v) = Of(l, k, v)
BY DEF Logged, Of

\* Moving amounts between an account t and others keeps the sum.
LEMMA Transfer ==
    ASSUME NEW p, NEW q, NEW c, NEW A, IsFiniteSet(A), NEW t \in A,
           Ints(p, A), Ints(c, A), c[t] = 0,
           IsSum(q, p, c, A \ {t}), q[t] = p[t] - SumFunctionOnSet(c, A)
    PROVE  SumFunctionOnSet(q, A) = SumFunctionOnSet(p, A)
<1> DEFINE B == A \ {t}
<1>1. IsFiniteSet(B) /\ B \in SUBSET A /\ Ints(p, B) /\ Ints(c, B) /\ IsSum(q, p, c, B)
  BY FS_Subset DEF Ints
<1>2. VanishesOn(c, A \ B)
  BY DEF VanishesOn
<1> HIDE DEF B
<1>3. SumFunctionOnSet(c, A) = SumFunctionOnSet(c, B)
  BY <1>1, <1>2, SumSupport
<1>4. SumFunctionOnSet(q, B) = SumFunctionOnSet(p, B) + SumFunctionOnSet(c, B)
  BY <1>1, SumAdd
<1>5. SumFunctionOnSet(c, B) \in Int /\ SumFunctionOnSet(p, B) \in Int
  BY <1>1, SumInt
<1>6. Ints(q, A)
  <2>1. p[t] \in Int /\ \A x \in B : q[x] = p[x] + c[x] /\ p[x] \in Int /\ c[x] \in Int
    BY <1>1 DEF Ints, IsSum
  <2>2. q[t] \in Int
    BY <1>3, <1>5, <2>1
  <2>3. \A x \in A : x = t \/ x \in B
    BY DEF B
  <2> QED
    BY <2>1, <2>2, <2>3 DEF Ints
<1>7. SumFunctionOnSet(q, A) = q[t] + SumFunctionOnSet(q, A \ {t})
  BY <1>6, SumElement
<1>8. SumFunctionOnSet(p, A) = p[t] + SumFunctionOnSet(p, A \ {t})
  BY SumElement
<1>9. p[t] \in Int
  BY DEF Ints
<1> QED
  BY <1>3, <1>4, <1>5, <1>7, <1>8, <1>9 DEF B

\* Purses hold natural numbers.
LEMMA PurseType ==
    ASSUME NEW l, Sound(l)
    PROVE  /\ \A a \in Account : Purse(l)[a] \in Nat
           /\ Ints(Purse(l), Account)
<1>1. ASSUME NEW a \in Account
      PROVE  Purse(l)[a] \in Nat
  <2>1. l.balances[a] \in Nat
    BY DEF Sound
  <2>2. a \in DOMAIN l.bonds => l.bonds[a].amount \in Nat
    BY DEF Sound, Position
  <2> QED
    BY <2>1, <2>2 DEF Purse
<1> QED
  BY <1>1 DEF Ints

\* Balanced is Conservation, for any ledger.
LEMMA BalancedMeans ==
    ASSUME NEW l, Sound(l)
    PROVE  Balanced(l) <=>
             SumFunction(l.balances)
               + SumFunction([v \in DOMAIN l.bonds |-> l.bonds[v].amount]) = Amounts(Funds(l))
<1> DEFINE b == l.balances
           D == DOMAIN l.bonds
           s == [v \in D |-> l.bonds[v].amount]
           x == [a \in Account |-> IF a \in D THEN l.bonds[a].amount ELSE 0]
           p == Purse(l)
<1>1. /\ DOMAIN b = Account /\ \A a \in Account : b[a] \in Nat
      /\ D \in SUBSET Account /\ \A v \in D : l.bonds[v].amount \in Nat
  BY AccountsFinite DEF Sound, Position
<1>2. IsFiniteSet(D) /\ IsFiniteSet(Account)
  BY <1>1, AccountsFinite, FS_Subset
<1>3. SumFunction(b) = SumFunctionOnSet(b, Account) /\ SumFunction(s) = SumFunctionOnSet(s, D)
  BY <1>1 DEF SumFunction
<1>4. /\ Ints(b, Account) /\ Ints(x, Account) /\ Ints(x, D) /\ VanishesOn(x, Account \ D)
      /\ \A v \in D : s[v] = x[v]
  BY <1>1 DEF Ints, VanishesOn
<1>5. IsSum(p, b, x, Account)
  BY <1>1 DEF IsSum, Purse
<1> HIDE DEF b, D, s, x, p
<1>6. SumFunctionOnSet(x, Account) = SumFunctionOnSet(x, D)
  BY <1>1, <1>2, <1>4, SumSupport
<1>7. SumFunctionOnSet(s, D) = SumFunctionOnSet(x, D)
  BY <1>2, <1>4, SumSame
<1>8. SumFunctionOnSet(p, Account) = SumFunctionOnSet(b, Account) + SumFunctionOnSet(x, Account)
  BY <1>2, <1>4, <1>5, SumAdd
<1>9. SumFunctionOnSet(p, Account) = SumFunction(b) + SumFunction(s)
  BY <1>3, <1>6, <1>7, <1>8
<1> QED
  BY <1>9 DEF b, s, D, p, Balanced

-----------------------------------------------------------------------------
(***************************************************************************)
(* What each operation of the ledger does to a sound ledger.               *)
(***************************************************************************)

\* The ledger of a new node.
LEMMA GenesisSound ==
    ASSUME NEW l, l = GenesisLedger(Genesis)
    PROVE  /\ Sound(l) /\ Delayed(l) /\ Debited(l, {}) /\ Announced(l)
           /\ Balanced(l) /\ Earned(l)
           /\ l.balances = Genesis /\ DOMAIN l.bonds = {} /\ l.evidence = {} /\ l.epochs = {}
<1> DEFINE P == {b \in Account : Genesis[b] > 0}
           E == [a \in P |-> Event("FUND", 0, a, Genesis[a], <<"genesis", a>>)]
           Im == {E[a] : a \in P}
<1>1. /\ l.balances = Genesis /\ DOMAIN l.bonds = {} /\ l.evidence = {} /\ l.epochs = {}
      /\ l.events = Im
      /\ DOMAIN l = {"balances", "bonds", "evidence", "epochs", "events"}
  <2>1. /\ l.balances = Genesis /\ l.bonds = <<>> /\ l.evidence = {} /\ l.epochs = {}
        /\ l.events = {Event("FUND", 0, a, Genesis[a], <<"genesis", a>>) : a \in P}
        /\ DOMAIN l = {"balances", "bonds", "evidence", "epochs", "events"}
    BY DEF GenesisLedger
  <2>2. Im = {Event("FUND", 0, a, Genesis[a], <<"genesis", a>>) : a \in P}
    OBVIOUS
  <2>3. DOMAIN <<>> = {}
    OBVIOUS
  <2> QED
    BY <2>1, <2>2, <2>3
<1>2. \A a \in P : /\ E[a][1] = "FUND" /\ E[a][2] = 0 /\ E[a][3] = a /\ E[a][4] = Genesis[a]
                   /\ a \in Account /\ Genesis[a] \in Nat
  BY EventFields, MembershipAssumption
<1>3. IsFiniteSet(P) /\ P \in SUBSET Account
  BY AccountsFinite, FS_Subset
<1>4. \A b \in Account : Genesis[b] \in Nat /\ (b \notin P => Genesis[b] = 0)
  BY MembershipAssumption
<1> HIDE DEF P, E
<1>5. IsFiniteSet(Im)
  BY <1>3, ImageFinite
<1>6. \A e \in Im : e[2] \in Nat /\ e[4] \in Nat /\ e[1] = "FUND"
  BY <1>2
<1>7. Sound(l)
  BY <1>1, <1>5, <1>6, MembershipAssumption DEF Sound
<1>8. Delayed(l) /\ Debited(l, {}) /\ Announced(l)
  BY <1>1, <1>6 DEF Delayed, Debited, Announced, Of
<1>9. Balanced(l)
  <2> DEFINE F == [e \in Im |-> e[4]]
  <2>1. /\ Ints(Genesis, P) /\ \A a \in P : F[E[a]] = Genesis[a]
        /\ \A x, y \in P : E[x] = E[y] => x = y
    BY <1>2 DEF Ints
  <2>2. Funds(l) = Im /\ Counted(Im)
    BY <1>1, <1>5, <1>6 DEF Funds, Counted
  <2>3. \A e \in Im : F[e] = e[4]
    OBVIOUS
  <2> HIDE DEF F
  <2>4. Amounts(Im) = SumFunctionOnSet(F, Im)
    BY <2>2, <2>3, AmountsSum
  <2>5. SumFunctionOnSet(F, Im) = SumFunctionOnSet(Genesis, P)
    BY <1>3, <2>1, SumImage
  <2>6. Ints(Genesis, Account) /\ VanishesOn(Genesis, Account \ P)
    BY <1>4 DEF Ints, VanishesOn
  <2>7. SumFunctionOnSet(Genesis, Account) = SumFunctionOnSet(Genesis, P)
    BY <1>3, <2>1, <2>6, AccountsFinite, SumSupport
  <2>8. \A a \in Account : Purse(l)[a] = Genesis[a]
    BY <1>1, <1>4 DEF Purse
  <2>9. SumFunctionOnSet(Purse(l), Account) = SumFunctionOnSet(Genesis, Account)
    BY <2>6, <2>8, AccountsFinite, SumSame
  <2> QED
    BY <2>2, <2>4, <2>5, <2>7, <2>9 DEF Balanced
<1>10. ASSUME NEW v \in Validator
       PROVE  l.balances[v] + Amounts(Of(l, "BOND", v))
                = Amounts(Of(l, "FUND", v)) + Amounts(Of(l, "REWARD", v))
  <2>1. Of(l, "BOND", v) = {} /\ Of(l, "REWARD", v) = {}
    BY <1>1, <1>6 DEF Of
  <2>2. v \in Account /\ Genesis[v] \in Nat
    BY <1>4, AccountsFinite
  <2>3. Amounts(Of(l, "FUND", v)) = Genesis[v]
    <3>1. CASE v \in P
      <4>1. Of(l, "FUND", v) = {E[v]}
        BY <1>1, <1>2, <3>1 DEF Of
      <4>2. E[v][4] = Genesis[v]
        BY <1>2, <3>1
      <4> QED
        BY <4>1, <4>2, <2>2, AmountsOne
    <3>2. CASE v \notin P
      <4>1. Of(l, "FUND", v) = {}
        BY <1>1, <1>2, <3>2 DEF Of
      <4>2. Genesis[v] = 0
        BY <1>4, <2>2, <3>2
      <4> QED
        BY <4>1, <4>2, AmountsEmpty
    <3> QED
      BY <3>1, <3>2
  <2>4. Amounts({}) = 0
    BY AmountsEmpty
  <2> QED
    BY <1>1, <2>1, <2>2, <2>3, <2>4
<1>11. Earned(l)
  BY <1>1, <1>6, <1>10 DEF Earned
<1> QED
  BY <1>1, <1>7, <1>8, <1>9, <1>11

\* S and D have nothing in common.
Apart(S, D) == S \cap D = {}

\* F is D and S together.
Joined(F, D, S) == F = D \cup S

\* The bonds of m are those of l and new ones of S.
Bonded(l, m, S) ==
    /\ DOMAIN m.bonds = DOMAIN l.bonds \cup S
    /\ \A v \in S : m.bonds[v] = NewPosition(v)
    /\ \A v \in DOMAIN l.bonds : m.bonds[v] = l.bonds[v]

\* What bond does: the stakes of S move from the accounts to the bonds.
LEMMA BondKeeps ==
    ASSUME NEW l, Sound(l), NEW S \in SUBSET Validator, Apart(S, DOMAIN l.bonds),
           \A v \in S : l.balances[v] >= Stake[v],
           NEW ep \in Nat, NEW m, m = AfterBond(l, S, ep)
    PROVE  /\ Sound(m)
           /\ Delayed(l) => Delayed(m)
           /\ \A D, F : Apart(S, D) /\ Debited(l, D) /\ Joined(F, D, S) =>
                          Debited(m, D) /\ Debited(m, F)
           /\ Announced(l) => Announced(m)
           /\ Balanced(l) => Balanced(m)
           /\ Earned(l) => Earned(m)
           /\ Bonded(l, m, S)
           /\ m.evidence = l.evidence /\ m.epochs = l.epochs
           /\ \A e \in m.events : e[1] = "REWARD" => e \in l.events
<1>0. S \cap DOMAIN l.bonds = {}
  BY DEF Apart
<1> USE <1>0
<1> DEFINE E == [v \in S |-> Event("BOND", ep, v, Stake[v], v)]
           N == {E[v] : v \in S}
<1>1. /\ DOMAIN m = {"balances", "bonds", "evidence", "epochs", "events"}
      /\ DOMAIN m.balances = Account
      /\ \A a \in Account : m.balances[a] = IF a \in S THEN l.balances[a] - Stake[a]
                                                      ELSE l.balances[a]
      /\ m.balances = [a \in Account |-> m.balances[a]]
      /\ DOMAIN m.bonds = DOMAIN l.bonds \cup S
      /\ \A v \in S : m.bonds[v] = NewPosition(v)
      /\ \A v \in DOMAIN l.bonds : m.bonds[v] = l.bonds[v]
      /\ m.evidence = l.evidence /\ m.epochs = l.epochs
      /\ m.events = l.events \cup N
  BY DEF Sound, AfterBond, Log
<1>2. \A v \in S : /\ E[v][1] = "BOND" /\ E[v][2] = ep /\ E[v][3] = v /\ E[v][4] = Stake[v]
                   /\ Stake[v] \in Nat /\ v \in Account
  BY EventFields, SettlementAssumption, AccountsFinite
<1>3. IsFiniteSet(N)
  <2>1. IsFiniteSet(S)
    BY AccountsFinite, FS_Subset
  <2> QED
    BY <2>1, ImageFinite
<1> HIDE DEF E
<1>4. Logged(l, m, "BOND", N)
  BY <1>1, <1>2 DEF Logged
<1>5. /\ \A a \in Account : l.balances[a] \in Nat
      /\ \A v \in DOMAIN l.bonds : v \in Validator /\ l.bonds[v].amount \in Nat
  BY DEF Sound, Position
<1>6. \A v \in S : /\ NewPosition(v) \in Position /\ NewPosition(v).amount = Stake[v]
                   /\ NewPosition(v).amount <= Stake[v]
                   /\ NewPosition(v).unlock >= Unlock[v] /\ ~NewPosition(v).unbonding
  BY SettlementAssumption DEF NewPosition, Position
<1>7. Sound(m)
  <2>1. \A a \in Account : m.balances[a] \in Nat
    BY <1>1, <1>2, <1>5
  <2>2. m.balances \in [Account -> Nat]
    BY <1>1, <2>1
  <2>3. IsFiniteSet(l.events \cup N) /\ \A e \in N : e[2] \in Nat /\ e[4] \in Nat
    <3>1. IsFiniteSet(l.events)
      BY DEF Sound
    <3>2. \A e \in N : e[2] \in Nat /\ e[4] \in Nat
      BY <1>2
    <3> HIDE DEF N
    <3>3. IsFiniteSet(l.events \cup N)
      BY <1>3, <3>1, FS_Union
    <3> QED
      BY <3>2, <3>3
  <2>4. \A v \in DOMAIN m.bonds :
          /\ m.bonds[v] \in Position
          /\ m.bonds[v].amount <= Stake[v]
          /\ m.bonds[v].unlock >= Unlock[v]
    BY <1>1, <1>6 DEF Sound
  <2> QED
    BY <1>1, <2>2, <2>3, <2>4 DEF Sound
<1>8. /\ \A v : Of(m, "SLASH", v) = Of(l, "SLASH", v)
      /\ \A v : Of(m, "WITHDRAW", v) = Of(l, "WITHDRAW", v)
      /\ \A v : Of(m, "UNBOND_REQUEST", v) = Of(l, "UNBOND_REQUEST", v)
      /\ \A v : Of(m, "REWARD", v) = Of(l, "REWARD", v)
      /\ \A v : Of(m, "FUND", v) = Of(l, "FUND", v)
      /\ \A e \in m.events : e[1] = "SLASH" => e \in l.events
      /\ \A e \in m.events : e[1] = "REWARD" => e \in l.events
      /\ Funds(m) = Funds(l)
  BY <1>4, OtherEntries, OtherFunds
<1>9. Delayed(l) => Delayed(m)
  BY <1>1, <1>6, <1>8 DEF Delayed
<1>10. ASSUME NEW D, S \cap D = {}, Debited(l, D)
       PROVE  Debited(m, D) /\ Debited(m, D \cup S)
  <2>1. \A e \in m.events : e[1] = "SLASH" => e[5] \in m.evidence
    BY <1>1, <1>8, <1>10 DEF Debited
  <2>2. \A v \in S : Of(m, "WITHDRAW", v) = {} /\ Of(m, "SLASH", v) = {}
    BY <1>8, <1>10 DEF Debited
  <2>3. \A v \in DOMAIN m.bonds :
          /\ m.bonds[v].amount + Amounts(Of(m, "SLASH", v)) = Stake[v]
          /\ Of(m, "WITHDRAW", v) = {}
    <3>1. \A v \in S : m.bonds[v].amount + Amounts(Of(m, "SLASH", v)) = Stake[v]
      <4> TAKE v \in S
      <4>1. m.bonds[v].amount = Stake[v] /\ Stake[v] \in Nat /\ Of(m, "SLASH", v) = {}
        BY <1>1, <1>2, <1>6, <2>2
      <4> QED
        BY <4>1, AmountsEmpty
    <3>2. \A v \in DOMAIN l.bonds : m.bonds[v].amount + Amounts(Of(m, "SLASH", v)) = Stake[v]
      BY <1>1, <1>8, <1>10 DEF Debited
    <3> QED
      BY <1>1, <1>8, <1>10, <2>2, <3>1, <3>2 DEF Debited
  <2>4. /\ \A v \in D \ DOMAIN m.bonds :
             Amounts(Of(m, "WITHDRAW", v)) + Amounts(Of(m, "SLASH", v)) = Stake[v]
        /\ \A v \in (D \cup S) \ DOMAIN m.bonds :
             Amounts(Of(m, "WITHDRAW", v)) + Amounts(Of(m, "SLASH", v)) = Stake[v]
    BY <1>1, <1>8, <1>10 DEF Debited
  <2>5. /\ \A v \in Validator \ (D \cup DOMAIN m.bonds) :
             Of(m, "WITHDRAW", v) = {} /\ Of(m, "SLASH", v) = {}
        /\ \A v \in Validator \ ((D \cup S) \cup DOMAIN m.bonds) :
             Of(m, "WITHDRAW", v) = {} /\ Of(m, "SLASH", v) = {}
    BY <1>1, <1>8, <1>10 DEF Debited
  <2> QED
    BY <2>1, <2>3, <2>4, <2>5 DEF Debited
<1>11. Announced(l) => Announced(m)
  BY <1>1, <1>8 DEF Announced
<1>12. Balanced(l) => Balanced(m)
  <2>1. ASSUME NEW a \in Account
        PROVE  Purse(m)[a] = Purse(l)[a]
    BY <1>1, <1>2, <1>5, <1>6 DEF Purse
  <2>2. Ints(Purse(l), Account)
    BY PurseType
  <2>3. SumFunctionOnSet(Purse(m), Account) = SumFunctionOnSet(Purse(l), Account)
    BY <2>1, <2>2, AccountsFinite, SumSame
  <2> QED
    BY <1>8, <2>3 DEF Balanced
<1>13. ASSUME Earned(l)
       PROVE  Earned(m)
  <2>1. \A e \in m.events : e[1] = "BOND" => e[3] \in DOMAIN m.bonds
    BY <1>1, <1>2, <1>13 DEF Earned
  <2>2. ASSUME NEW v \in Validator
        PROVE  m.balances[v] + Amounts(Of(m, "BOND", v))
                 = Amounts(Of(m, "FUND", v)) + Amounts(Of(m, "REWARD", v))
    <3>1. l.balances[v] + Amounts(Of(l, "BOND", v))
            = Amounts(Of(l, "FUND", v)) + Amounts(Of(l, "REWARD", v))
      BY <1>13 DEF Earned
    <3>2. v \in Account
      BY AccountsFinite
    <3>3. CASE v \in S
      <4>1. E[v] \in N /\ E[v][3] = v /\ \A e \in N : e[3] = v => e = E[v]
        BY <1>2, <3>3
      <4>2. Of(m, "BOND", v) = Of(l, "BOND", v) \cup {E[v]}
        <5> HIDE DEF N
        <5> QED
          BY <1>4, <4>1, OneEntry
      <4>3. Of(l, "BOND", v) = {}
        BY <1>13, <3>3 DEF Earned, Of
      <4>4. Of(m, "BOND", v) = {E[v]} /\ E[v][4] = Stake[v] /\ Stake[v] \in Nat
        BY <1>2, <3>3, <4>2, <4>3
      <4>5. Amounts(Of(m, "BOND", v)) = Stake[v] /\ Amounts(Of(l, "BOND", v)) = 0
        BY <4>3, <4>4, AmountsOne, AmountsEmpty
      <4>6. m.balances[v] = l.balances[v] - Stake[v] /\ l.balances[v] \in Nat
        BY <1>1, <1>5, <3>2, <3>3
      <4>7. m.balances[v] + Stake[v] = l.balances[v] + 0
        BY <4>4, <4>6
      <4> QED
        BY <1>8, <3>1, <4>5, <4>7
    <3>4. CASE v \notin S
      <4>1. \A e \in N : e[3] # v
        BY <1>2, <3>4
      <4>2. Of(m, "BOND", v) = Of(l, "BOND", v)
        BY <1>4, <4>1, NoEntry
      <4> QED
        BY <1>1, <1>8, <3>1, <3>2, <3>4, <4>2
    <3> QED
      BY <3>3, <3>4
  <2> QED
    BY <2>1, <2>2 DEF Earned
<1> QED
  <2>1. \A D, F : Apart(S, D) /\ Debited(l, D) /\ Joined(F, D, S) =>
                    Debited(m, D) /\ Debited(m, F)
    BY <1>10 DEF Apart, Joined
  <2>2. Bonded(l, m, S)
    BY <1>1 DEF Bonded
  <2> QED
    BY <1>1, <1>7, <1>8, <1>9, <1>11, <1>12, <1>13, <2>1, <2>2

\* A ledger with one more event has finitely many.
LEMMA OneMoreEvent ==
    ASSUME NEW l, Sound(l), NEW x, x[2] \in Nat, x[4] \in Nat
    PROVE  /\ IsFiniteSet(l.events \cup {x})
           /\ \A e \in l.events \cup {x} : e[2] \in Nat /\ e[4] \in Nat
<1>1. IsFiniteSet(l.events) /\ \A e \in l.events : e[2] \in Nat /\ e[4] \in Nat
  BY DEF Sound
<1>2. IsFiniteSet(l.events \cup {x})
  BY <1>1, FS_AddElement
<1> QED
  BY <1>1, <1>2

\* What request_unbond does.
LEMMA UnbondKeeps ==
    ASSUME NEW l, Sound(l), NEW v \in Validator, MayUnbond(l, v),
           NEW ep \in Nat, NEW m, m = AfterUnbond(l, v, ep, WithdrawalDelay)
    PROVE  /\ Sound(m)
           /\ Delayed(l) => Delayed(m)
           /\ \A D : Debited(l, D) => Debited(m, D)
           /\ Announced(l) => Announced(m)
           /\ Balanced(l) => Balanced(m)
           /\ DOMAIN m.bonds = DOMAIN l.bonds
           /\ \A w \in DOMAIN l.bonds : m.bonds[w].amount = l.bonds[w].amount
           /\ \A w \in DOMAIN l.bonds : w # v => m.bonds[w] = l.bonds[w]
           /\ m.bonds[v].unlock >= ep + WithdrawalDelay
           /\ m.evidence = l.evidence /\ m.epochs = l.epochs
           /\ \A e \in m.events : e[1] = "REWARD" => e \in l.events
<1> DEFINE x == Event("UNBOND_REQUEST", ep, v, 0, v)
           N == {x}
           b == [l.bonds[v] EXCEPT !.unlock = Greatest(l.bonds[v].unlock, ep + WithdrawalDelay),
                                   !.active = FALSE, !.unbonding = TRUE]
<1>0. v \in DOMAIN l.bonds
  BY DEF MayUnbond
<1>1. /\ DOMAIN m = {"balances", "bonds", "evidence", "epochs", "events"}
      /\ m.balances = l.balances
      /\ DOMAIN m.bonds = DOMAIN l.bonds
      /\ m.bonds[v] = b
      /\ \A w \in DOMAIN l.bonds : w # v => m.bonds[w] = l.bonds[w]
      /\ m.evidence = l.evidence /\ m.epochs = l.epochs
      /\ m.events = l.events \cup N
  <2>1. m = Log([l EXCEPT !.bonds[v] = b], N)
    BY DEF AfterUnbond
  <2>2. DOMAIN l = {"balances", "bonds", "evidence", "epochs", "events"}
    BY DEF Sound
  <2> HIDE DEF b, N
  <2> QED
    BY <1>0, <2>1, <2>2 DEF Log
<1>2. x[1] = "UNBOND_REQUEST" /\ x[2] = ep /\ x[3] = v /\ x[4] = 0
  BY EventFields
<1> HIDE DEF x
<1>3. Logged(l, m, "UNBOND_REQUEST", N)
  BY <1>1, <1>2 DEF Logged
<1>4. \A w \in DOMAIN l.bonds : /\ l.bonds[w] \in Position /\ l.bonds[w].amount <= Stake[w]
                                /\ l.bonds[w].unlock >= Unlock[w] /\ w \in Validator
  BY DEF Sound
<1>5. Unlock[v] \in Nat /\ WithdrawalDelay \in Nat
  BY SettlementAssumption, MembershipAssumption
<1>6. /\ b \in Position /\ b.amount = l.bonds[v].amount
      /\ b.unlock >= l.bonds[v].unlock /\ b.unlock >= ep + WithdrawalDelay
      /\ b.unlock >= Unlock[v] /\ b.amount <= Stake[v]
  <2>1. /\ l.bonds[v] \in [amount : Nat, unlock : Nat, active : BOOLEAN, unbonding : BOOLEAN]
        /\ l.bonds[v].amount <= Stake[v] /\ l.bonds[v].unlock >= Unlock[v]
    BY <1>0, <1>4 DEF Position
  <2> DEFINE g == Greatest(l.bonds[v].unlock, ep + WithdrawalDelay)
  <2>2. g \in Nat /\ g >= l.bonds[v].unlock /\ g >= ep + WithdrawalDelay /\ g >= Unlock[v]
    BY <1>5, <2>1 DEF Greatest
  <2> HIDE DEF g
  <2>3. b.unlock = g /\ b.amount = l.bonds[v].amount
    BY <2>1 DEF g
  <2>4. b \in Position
    BY <2>1, <2>2 DEF g, Position
  <2> QED
    BY <2>1, <2>2, <2>3, <2>4
<1> HIDE DEF b
<1>7. Sound(m)
  <2>1. IsFiniteSet(l.events \cup N) /\ \A e \in l.events \cup N : e[2] \in Nat /\ e[4] \in Nat
    BY <1>2, OneMoreEvent
  <2>2. \A w \in DOMAIN m.bonds : /\ m.bonds[w] \in Position /\ m.bonds[w].amount <= Stake[w]
                                  /\ m.bonds[w].unlock >= Unlock[w]
    BY <1>1, <1>4, <1>6
  <2> QED
    BY <1>1, <2>1, <2>2 DEF Sound
<1>8. /\ \A w : Of(m, "SLASH", w) = Of(l, "SLASH", w)
      /\ \A w : Of(m, "WITHDRAW", w) = Of(l, "WITHDRAW", w)
      /\ \A e \in m.events : e[1] = "SLASH" => e \in l.events
      /\ \A e \in m.events : e[1] = "REWARD" => e \in l.events
      /\ Funds(m) = Funds(l)
  BY <1>3, OtherEntries, OtherFunds
<1>9. \A w : Of(l, "UNBOND_REQUEST", w) \subseteq Of(m, "UNBOND_REQUEST", w)
  BY <1>1 DEF Of
<1>10. x \in Of(m, "UNBOND_REQUEST", v)
  BY <1>1, <1>2 DEF Of
<1>11. ASSUME Delayed(l)
       PROVE  Delayed(m)
  <2>1. \A w \in DOMAIN m.bonds : m.bonds[w].unbonding =>
          \E u \in Of(m, "UNBOND_REQUEST", w) : u[2] + WithdrawalDelay <= m.bonds[w].unlock
    <3>1. x[2] + WithdrawalDelay <= m.bonds[v].unlock
      <4>1. b.unlock \in Nat
        BY <1>6 DEF Position
      <4> QED
        BY <1>1, <1>2, <1>5, <1>6, <4>1
    <3> QED
      BY <1>1, <1>9, <1>10, <1>11, <3>1 DEF Delayed
  <2>2. \A w \in Validator : \A z \in Of(m, "WITHDRAW", w) :
          /\ z[2] >= Unlock[w]
          /\ \E u \in Of(m, "UNBOND_REQUEST", w) : u[2] + WithdrawalDelay <= z[2]
    BY <1>8, <1>9, <1>11 DEF Delayed
  <2> QED
    BY <2>1, <2>2 DEF Delayed
<1>12. \A w \in DOMAIN l.bonds : m.bonds[w].amount = l.bonds[w].amount
  BY <1>1, <1>6
<1>13. ASSUME NEW D, Debited(l, D)
       PROVE  Debited(m, D)
  BY <1>1, <1>8, <1>12, <1>13 DEF Debited
<1>14. Announced(l) => Announced(m)
  BY <1>1, <1>8 DEF Announced
<1>15. Balanced(l) => Balanced(m)
  <2>1. \A a \in Account : Purse(m)[a] = Purse(l)[a]
    BY <1>1, <1>12 DEF Purse
  <2>2. Ints(Purse(l), Account)
    BY PurseType
  <2>3. SumFunctionOnSet(Purse(m), Account) = SumFunctionOnSet(Purse(l), Account)
    BY <2>1, <2>2, AccountsFinite, SumSame
  <2> QED
    BY <1>8, <2>3 DEF Balanced
<1> QED
  BY <1>1, <1>6, <1>7, <1>8, <1>11, <1>12, <1>13, <1>14, <1>15

\* What withdraw does: the bond, net of penalties, moves to the account.
LEMMA WithdrawKeeps ==
    ASSUME NEW l, Sound(l), NEW v \in Validator, NEW ep \in Nat, MayWithdraw(l, v, ep),
           NEW m, m = AfterWithdraw(l, v, ep)
    PROVE  /\ Sound(m)
           /\ Delayed(l) => Delayed(m)
           /\ \A D : v \in D /\ Debited(l, D) => Debited(m, D)
           /\ Announced(l) => Announced(m)
           /\ Balanced(l) => Balanced(m)
           /\ DOMAIN m.bonds = DOMAIN l.bonds \ {v}
           /\ \A w \in DOMAIN m.bonds : m.bonds[w] = l.bonds[w]
           /\ m.evidence = l.evidence /\ m.epochs = l.epochs
           /\ \A e \in m.events : e[1] = "REWARD" => e \in l.events
<1> DEFINE n == l.bonds[v].amount
           x == Event("WITHDRAW", ep, v, n, v)
           N == {x}
<1>0. v \in DOMAIN l.bonds /\ l.bonds[v].unbonding /\ ep >= l.bonds[v].unlock /\ v \in Account
  BY AccountsFinite DEF MayWithdraw
<1>1. /\ DOMAIN m = {"balances", "bonds", "evidence", "epochs", "events"}
      /\ m.balances = [l.balances EXCEPT ![v] = @ + n]
      /\ DOMAIN m.bonds = DOMAIN l.bonds \ {v}
      /\ \A w \in DOMAIN m.bonds : m.bonds[w] = l.bonds[w]
      /\ m.evidence = l.evidence /\ m.epochs = l.epochs
      /\ m.events = l.events \cup N
  BY <1>0 DEF Sound, AfterWithdraw, Log, Restrict
<1>2. x[1] = "WITHDRAW" /\ x[2] = ep /\ x[3] = v /\ x[4] = n
  BY EventFields
<1>3. /\ \A w \in DOMAIN l.bonds : /\ l.bonds[w] \in Position /\ w \in Validator
                                   /\ l.bonds[w].amount \in Nat /\ l.bonds[w].unlock \in Nat
      /\ \A a \in Account : l.balances[a] \in Nat
      /\ n \in Nat /\ l.bonds[v].unlock >= Unlock[v] /\ Unlock[v] \in Nat
      /\ WithdrawalDelay \in Nat
  BY <1>0, SettlementAssumption, MembershipAssumption DEF Sound, Position
<1> HIDE DEF x, n
<1>4. Logged(l, m, "WITHDRAW", N)
  BY <1>1, <1>2 DEF Logged
<1>5. Sound(m)
  <2>1. IsFiniteSet(l.events \cup N) /\ \A e \in l.events \cup N : e[2] \in Nat /\ e[4] \in Nat
    BY <1>2, <1>3, OneMoreEvent
  <2>2. m.balances \in [Account -> Nat]
    <3>1. l.balances \in [Account -> Nat]
      BY DEF Sound
    <3> QED
      BY <1>0, <1>1, <1>3, <3>1
  <2> QED
    BY <1>1, <2>1, <2>2 DEF Sound
<1>6. /\ \A w : Of(m, "SLASH", w) = Of(l, "SLASH", w)
      /\ \A w : Of(m, "UNBOND_REQUEST", w) = Of(l, "UNBOND_REQUEST", w)
      /\ \A e \in m.events : e[1] = "SLASH" => e \in l.events
      /\ \A e \in m.events : e[1] = "REWARD" => e \in l.events
      /\ Funds(m) = Funds(l)
  BY <1>4, OtherEntries, OtherFunds
<1>7. Of(m, "WITHDRAW", v) = Of(l, "WITHDRAW", v) \cup {x}
  <2>1. x \in N /\ \A e \in N : e[3] = v => e = x
    OBVIOUS
  <2> QED
    BY <1>2, <1>4, <2>1, OneEntry
<1>8. \A w : w # v => Of(m, "WITHDRAW", w) = Of(l, "WITHDRAW", w)
  <2> TAKE w
  <2> HAVE w # v
  <2>1. \A e \in N : e[3] # w
    BY <1>2
  <2> QED
    BY <1>4, <2>1, NoEntry
<1>9. ASSUME Delayed(l)
      PROVE  Delayed(m)
  <2>1. \A w \in DOMAIN m.bonds : m.bonds[w].unbonding =>
          \E u \in Of(m, "UNBOND_REQUEST", w) : u[2] + WithdrawalDelay <= m.bonds[w].unlock
    BY <1>1, <1>6, <1>9 DEF Delayed
  <2>2. PICK u \in Of(l, "UNBOND_REQUEST", v) : u[2] + WithdrawalDelay <= l.bonds[v].unlock
    BY <1>0, <1>9 DEF Delayed
  <2>3. x[2] >= Unlock[v]
    BY <1>0, <1>2, <1>3
  <2>4. u[2] + WithdrawalDelay <= x[2]
    <3>1. l.bonds[v].unlock \in Nat /\ x[2] >= l.bonds[v].unlock /\ x[2] \in Nat
      BY <1>0, <1>2, <1>3
    <3> DEFINE k == u[2] + WithdrawalDelay
    <3>2. k <= l.bonds[v].unlock
      BY <2>2
    <3>3. k \in Int
      BY <1>3, <2>2 DEF Sound, Of
    <3> HIDE DEF k
    <3>4. k <= x[2]
      BY <3>1, <3>2, <3>3
    <3> QED
      BY <3>4 DEF k
  <2>5. ASSUME NEW w \in Validator, NEW z \in Of(m, "WITHDRAW", w)
        PROVE  /\ z[2] >= Unlock[w]
               /\ \E y \in Of(m, "UNBOND_REQUEST", w) : y[2] + WithdrawalDelay <= z[2]
    <3>1. CASE z \in Of(l, "WITHDRAW", w)
      BY <1>6, <1>9, <3>1 DEF Delayed
    <3>2. CASE z \notin Of(l, "WITHDRAW", w)
      <4>1. w = v /\ z = x
        BY <1>7, <1>8, <3>2
      <4> QED
        BY <1>6, <2>2, <2>3, <2>4, <4>1
    <3> QED
      BY <3>1, <3>2
  <2> QED
    BY <2>1, <2>5 DEF Delayed
<1>10. ASSUME NEW D, v \in D, Debited(l, D)
       PROVE  Debited(m, D)
  <2>1. n + Amounts(Of(l, "SLASH", v)) = Stake[v] /\ Of(l, "WITHDRAW", v) = {}
    BY <1>0, <1>10 DEF Debited, n
  <2>2. Of(m, "WITHDRAW", v) = {x}
    BY <1>7, <2>1
  <2>3. Amounts(Of(m, "WITHDRAW", v)) = n
    BY <1>2, <1>3, <2>2, AmountsOne
  <2>4. Amounts(Of(m, "WITHDRAW", v)) + Amounts(Of(m, "SLASH", v)) = Stake[v]
    BY <1>6, <2>1, <2>3
  <2>5. \A e \in m.events : e[1] = "SLASH" => e[5] \in m.evidence
    BY <1>1, <1>6, <1>10 DEF Debited
  <2>6. \A w \in DOMAIN m.bonds : /\ m.bonds[w].amount + Amounts(Of(m, "SLASH", w)) = Stake[w]
                                  /\ Of(m, "WITHDRAW", w) = {}
    BY <1>1, <1>6, <1>8, <1>10 DEF Debited
  <2>7. \A w \in D \ DOMAIN m.bonds :
          Amounts(Of(m, "WITHDRAW", w)) + Amounts(Of(m, "SLASH", w)) = Stake[w]
    BY <1>1, <1>6, <1>8, <1>10, <2>4 DEF Debited
  <2>8. \A w \in Validator \ (D \cup DOMAIN m.bonds) :
          Of(m, "WITHDRAW", w) = {} /\ Of(m, "SLASH", w) = {}
    BY <1>1, <1>6, <1>8, <1>10 DEF Debited
  <2> QED
    BY <2>5, <2>6, <2>7, <2>8 DEF Debited
<1>11. Announced(l) => Announced(m)
  BY <1>1, <1>6 DEF Announced
<1>12. Balanced(l) => Balanced(m)
  <2>1. ASSUME NEW a \in Account
        PROVE  Purse(m)[a] = Purse(l)[a]
    <3>1. l.balances \in [Account -> Nat]
      BY DEF Sound
    <3>2. CASE a = v
      <4>1. m.balances[v] = l.balances[v] + n /\ v \notin DOMAIN m.bonds
        BY <1>0, <1>1, <3>1
      <4>2. Purse(m)[v] = (l.balances[v] + n) + 0 /\ Purse(l)[v] = l.balances[v] + n
        BY <1>0, <4>1 DEF Purse, n
      <4> QED
        BY <1>0, <1>3, <3>2, <4>2
    <3>3. CASE a # v
      BY <1>1, <3>1, <3>3 DEF Purse
    <3> QED
      BY <3>2, <3>3
  <2>2. Ints(Purse(l), Account)
    BY PurseType
  <2>3. SumFunctionOnSet(Purse(m), Account) = SumFunctionOnSet(Purse(l), Account)
    BY <2>1, <2>2, AccountsFinite, SumSame
  <2> QED
    BY <1>6, <2>3 DEF Balanced
<1> QED
  BY <1>1, <1>5, <1>6, <1>9, <1>10, <1>11, <1>12

\* What fund does.
LEMMA FundKeeps ==
    ASSUME NEW l, Sound(l), NEW a \in Account, NEW n \in Nat, NEW source,
           MayFund(l, a, n, source), NEW m, m = AfterFund(l, a, n, source)
    PROVE  /\ Sound(m)
           /\ Delayed(l) => Delayed(m)
           /\ \A D : Debited(l, D) => Debited(m, D)
           /\ Announced(l) => Announced(m)
           /\ Balanced(l) => Balanced(m)
           /\ m.bonds = l.bonds /\ m.evidence = l.evidence /\ m.epochs = l.epochs
           /\ \A e \in m.events : e[1] = "REWARD" => e \in l.events
<1> DEFINE x == FundEvent(a, n, source)
           N == {x}
<1>1. /\ DOMAIN m = {"balances", "bonds", "evidence", "epochs", "events"}
      /\ m.balances = [l.balances EXCEPT ![a] = @ + n]
      /\ m.bonds = l.bonds /\ m.evidence = l.evidence /\ m.epochs = l.epochs
      /\ m.events = l.events \cup N
  BY DEF Sound, AfterFund, Log
<1>2. x[1] = "FUND" /\ x[2] = 0 /\ x[3] = a /\ x[4] = n /\ x \notin l.events
  BY EventFields DEF FundEvent, MayFund
<1>3. l.balances \in [Account -> Nat]
  BY DEF Sound
<1> HIDE DEF x
<1>4. Logged(l, m, "FUND", N)
  BY <1>1, <1>2 DEF Logged
<1>5. Sound(m)
  <2>1. IsFiniteSet(l.events \cup N) /\ \A e \in l.events \cup N : e[2] \in Nat /\ e[4] \in Nat
    BY <1>2, OneMoreEvent
  <2>2. m.balances \in [Account -> Nat]
    BY <1>1, <1>3
  <2> QED
    BY <1>1, <2>1, <2>2 DEF Sound
<1>6. /\ \A w : Of(m, "SLASH", w) = Of(l, "SLASH", w)
      /\ \A w : Of(m, "WITHDRAW", w) = Of(l, "WITHDRAW", w)
      /\ \A w : Of(m, "UNBOND_REQUEST", w) = Of(l, "UNBOND_REQUEST", w)
      /\ \A e \in m.events : e[1] = "SLASH" => e \in l.events
      /\ \A e \in m.events : e[1] = "REWARD" => e \in l.events
  BY <1>4, OtherEntries
<1>7. Delayed(l) => Delayed(m)
  BY <1>1, <1>6 DEF Delayed
<1>8. \A D : Debited(l, D) => Debited(m, D)
  BY <1>1, <1>6 DEF Debited
<1>9. Announced(l) => Announced(m)
  BY <1>1, <1>6 DEF Announced
<1>10. Balanced(l) => Balanced(m)
  <2> DEFINE p == Purse(l)
             q == Purse(m)
             B == Account \ {a}
  <2>1. Ints(p, Account) /\ Ints(q, Account)
    BY <1>5, PurseType
  <2>2. q[a] = p[a] + n /\ \A y \in B : q[y] = p[y]
    <3>1. a \in DOMAIN l.bonds => l.bonds[a].amount \in Nat
      BY DEF Sound, Position
    <3> QED
      BY <1>1, <1>3, <3>1 DEF Purse
  <2>3. IsFiniteSet(B) /\ Ints(p, B)
    BY <2>1, AccountsFinite, FS_Subset DEF Ints
  <2> HIDE DEF p, q
  <2>4. SumFunctionOnSet(q, B) = SumFunctionOnSet(p, B)
    BY <2>2, <2>3, SumSame
  <2>5. /\ SumFunctionOnSet(q, Account) = q[a] + SumFunctionOnSet(q, Account \ {a})
        /\ SumFunctionOnSet(p, Account) = p[a] + SumFunctionOnSet(p, Account \ {a})
        /\ SumFunctionOnSet(p, Account \ {a}) \in Int /\ p[a] \in Int
    <3>1. IsFiniteSet(Account)
      BY AccountsFinite
    <3>2. SumFunctionOnSet(q, Account) = q[a] + SumFunctionOnSet(q, Account \ {a})
      BY <2>1, <3>1, SumElement
    <3>3. SumFunctionOnSet(p, Account) = p[a] + SumFunctionOnSet(p, Account \ {a})
      BY <2>1, <3>1, SumElement
    <3>4. SumFunctionOnSet(p, B) \in Int
      BY <2>3, SumInt
    <3> QED
      BY <2>1, <3>2, <3>3, <3>4 DEF Ints
  <2>6. SumFunctionOnSet(q, Account) = SumFunctionOnSet(p, Account) + n
    BY <2>2, <2>4, <2>5
  <2>7. Funds(m) = Funds(l) \cup {x} /\ x \notin Funds(l)
    BY <1>1, <1>2 DEF Funds
  <2>8. Amounts(Funds(m)) = Amounts(Funds(l)) + n
    <3>1. Counted(Funds(l)) /\ x[4] \in Nat /\ x \notin Funds(l)
      BY <1>2, <2>7, EntriesCounted
    <3>2. Amounts(Funds(l) \cup {x}) = Amounts(Funds(l)) + x[4]
      BY <3>1, AmountsAdd
    <3> QED
      BY <1>2, <2>7, <3>2
  <2> QED
    BY <2>6, <2>8 DEF Balanced, p, q
<1> QED
  BY <1>1, <1>5, <1>6, <1>7, <1>8, <1>9, <1>10

\* The sum over one element.
LEMMA SumOne ==
    ASSUME NEW f, NEW x, f[x] \in Int
    PROVE  SumFunctionOnSet(f, {x}) = f[x]
<1>1. IsFiniteSet({x}) /\ Ints(f, {x}) /\ x \in {x} /\ {x} \ {x} = {}
  BY FS_Singleton DEF Ints
<1>2. SumFunctionOnSet(f, {x}) = f[x] + SumFunctionOnSet(f, {x} \ {x})
  BY <1>1, SumElement
<1>3. SumFunctionOnSet(f, {}) = 0
  BY SumEmpty
<1> QED
  BY <1>1, <1>2, <1>3

\* What charge_fee does: a fee goes to the treasury.
LEMMA FeeKeeps ==
    ASSUME NEW l, Sound(l), NEW a \in Account, NEW n \in Nat, MayChargeFee(l, a, n),
           NEW ep \in Nat, NEW tx, NEW m, m = AfterFee(l, a, n, ep, tx)
    PROVE  /\ Sound(m)
           /\ Delayed(l) => Delayed(m)
           /\ \A D : Debited(l, D) => Debited(m, D)
           /\ Announced(l) => Announced(m)
           /\ Balanced(l) => Balanced(m)
           /\ m.bonds = l.bonds /\ m.evidence = l.evidence /\ m.epochs = l.epochs
           /\ \A e \in m.events : e[1] = "REWARD" => e \in l.events
<1> DEFINE x == Event("FEE", ep, a, n, tx)
           N == {x}
<1>1. /\ DOMAIN m = {"balances", "bonds", "evidence", "epochs", "events"}
      /\ m.balances = [[l.balances EXCEPT ![a] = @ - n] EXCEPT ![Treasury] = @ + n]
      /\ m.bonds = l.bonds /\ m.evidence = l.evidence /\ m.epochs = l.epochs
      /\ m.events = l.events \cup N
  BY DEF Sound, AfterFee, Log
<1>2. x[1] = "FEE" /\ x[2] = ep /\ x[3] = a /\ x[4] = n
  BY EventFields
<1>3. l.balances \in [Account -> Nat] /\ l.balances[a] >= n /\ Treasury \in Account
  BY AccountsFinite DEF Sound, MayChargeFee
<1> HIDE DEF x
<1>4. Logged(l, m, "FEE", N)
  BY <1>1, <1>2 DEF Logged
<1>5. Sound(m)
  <2>1. IsFiniteSet(l.events \cup N) /\ \A e \in l.events \cup N : e[2] \in Nat /\ e[4] \in Nat
    BY <1>2, OneMoreEvent
  <2>2. m.balances \in [Account -> Nat]
    BY <1>1, <1>3
  <2> QED
    BY <1>1, <2>1, <2>2 DEF Sound
<1>6. /\ \A w : Of(m, "SLASH", w) = Of(l, "SLASH", w)
      /\ \A w : Of(m, "WITHDRAW", w) = Of(l, "WITHDRAW", w)
      /\ \A w : Of(m, "UNBOND_REQUEST", w) = Of(l, "UNBOND_REQUEST", w)
      /\ \A e \in m.events : e[1] = "SLASH" => e \in l.events
      /\ \A e \in m.events : e[1] = "REWARD" => e \in l.events
      /\ Funds(m) = Funds(l)
  BY <1>4, OtherEntries, OtherFunds
<1>7. Delayed(l) => Delayed(m)
  BY <1>1, <1>6 DEF Delayed
<1>8. \A D : Debited(l, D) => Debited(m, D)
  BY <1>1, <1>6 DEF Debited
<1>9. Announced(l) => Announced(m)
  BY <1>1, <1>6 DEF Announced
<1>10. Balanced(l) => Balanced(m)
  <2> DEFINE p == Purse(m)
             q == Purse(l)
             c == [y \in Account |-> IF y = a /\ a # Treasury THEN n ELSE 0]
  <2>1. Ints(p, Account) /\ Ints(q, Account)
    BY <1>5, PurseType
  <2>2. \A y \in DOMAIN l.bonds : l.bonds[y].amount \in Nat
    BY DEF Sound, Position
  <2>3. CASE a = Treasury
    <3>1. \A y \in Account : p[y] = q[y]
      BY <1>1, <1>3, <2>3 DEF Purse
    <3> HIDE DEF p, q
    <3>2. SumFunctionOnSet(p, Account) = SumFunctionOnSet(q, Account)
      BY <2>1, <3>1, AccountsFinite, SumSame
    <3> QED
      BY <1>6, <3>2 DEF Balanced, p, q
  <2>4. CASE a # Treasury
    <3>1. Ints(c, Account) /\ c[Treasury] = 0 /\ Ints(c, {a}) /\ c[a] = n
      BY <1>3, <2>4 DEF Ints
    <3>2. VanishesOn(c, Account \ {a}) /\ {a} \in SUBSET Account
      BY DEF VanishesOn
    <3>3. IsSum(q, p, c, Account \ {Treasury}) /\ q[Treasury] = p[Treasury] - n
      <4>1. \A y \in Account : /\ q[y] = l.balances[y] + IF y \in DOMAIN l.bonds
                                                         THEN l.bonds[y].amount ELSE 0
                               /\ p[y] = m.balances[y] + IF y \in DOMAIN l.bonds
                                                         THEN l.bonds[y].amount ELSE 0
        BY <1>1 DEF Purse
      <4>2. \A y \in Account : /\ l.balances[y] \in Nat
                               /\ m.balances[y] = CASE y = a        -> l.balances[y] - n
                                                    [] y = Treasury -> l.balances[y] + n
                                                    [] OTHER        -> l.balances[y]
        BY <1>1, <1>3, <2>4
      <4> HIDE DEF p, q
      <4> QED
        BY <1>3, <2>2, <2>4, <4>1, <4>2 DEF IsSum
    <3> HIDE DEF p, q, c
    <3>4. SumFunctionOnSet(c, Account) = n
      <4>1. SumFunctionOnSet(c, Account) = SumFunctionOnSet(c, {a})
        BY <3>1, <3>2, AccountsFinite, SumSupport
      <4>2. SumFunctionOnSet(c, {a}) = c[a]
        BY <3>1, SumOne
      <4> QED
        BY <3>1, <4>1, <4>2
    <3>5. q[Treasury] = p[Treasury] - SumFunctionOnSet(c, Account)
      BY <3>3, <3>4
    <3>6. SumFunctionOnSet(q, Account) = SumFunctionOnSet(p, Account)
      BY <2>1, <3>1, <3>3, <3>5, AccountsFinite, Transfer
    <3> QED
      BY <1>6, <3>6 DEF Balanced, p, q
  <2> QED
    BY <2>3, <2>4
<1> QED
  BY <1>1, <1>5, <1>6, <1>7, <1>8, <1>9, <1>10

\* What penalties leave of bonds and of what is known about them.
Fined(l, m) ==
    /\ DOMAIN m.bonds = DOMAIN l.bonds
    /\ \A v \in DOMAIN l.bonds : /\ m.bonds[v].unbonding = l.bonds[v].unbonding
                                 /\ m.bonds[v].unlock = l.bonds[v].unlock
    /\ m.epochs = l.epochs
    /\ \A e \in m.events : e[1] = "REWARD" => e \in l.events

\* What they leave of the amounts, if everyone in S is penalised.
Cut(l, m, S, amount) ==
    \A v \in DOMAIN l.bonds :
        m.bonds[v].amount = IF v \in S THEN l.bonds[v].amount - Least(amount, l.bonds[v].amount)
                            ELSE l.bonds[v].amount

\* The evidence of m is that of l and what is in P.
Accused(l, m, P) == m.evidence = l.evidence \cup P

\* The proofs that proof gives.
Proofs(proof) == {proof[v] : v \in DOMAIN proof}

\* What slash does: penalties go to the treasury.
LEMMA SlashKeeps ==
    ASSUME NEW l, Sound(l), NEW amount \in Nat, NEW ep \in Nat, NEW proof,
           DOMAIN proof \in SUBSET DOMAIN l.bonds,
           Apart(Proofs(proof), l.evidence),
           NEW m, m = AfterSlash(l, amount, ep, proof)
    PROVE  /\ Sound(m)
           /\ Delayed(l) => Delayed(m)
           /\ \A D : Debited(l, D) => Debited(m, D)
           /\ Announced(l) => Announced(m)
           /\ Balanced(l) => Balanced(m)
           /\ Earned(l) => Earned(m)
           /\ Fined(l, m)
           /\ Cut(l, m, DOMAIN proof, amount)
           /\ Accused(l, m, Proofs(proof))
           /\ m.balances[Treasury] >= l.balances[Treasury]
<1>0. \A v \in DOMAIN proof : proof[v] \notin l.evidence
  BY DEF Apart, Proofs
<1> USE <1>0
<1> DEFINE off == DOMAIN proof
           cut == [v \in off |-> Penalty(l, v, amount)]
           bond(v) == [l.bonds[v] EXCEPT
                         !.amount = l.bonds[v].amount - cut[v],
                         !.active = l.bonds[v].active /\ l.bonds[v].amount > cut[v]]
           E == [v \in off |-> Event("SLASH", ep, v, cut[v], proof[v])]
           N == {E[v] : v \in off}
<1>1. /\ DOMAIN m = {"balances", "bonds", "evidence", "epochs", "events"}
      /\ m.balances = [l.balances EXCEPT ![Treasury] = @ + SumFunction(cut)]
      /\ DOMAIN m.bonds = DOMAIN l.bonds
      /\ \A v \in DOMAIN l.bonds : m.bonds[v] = IF v \in off THEN bond(v) ELSE l.bonds[v]
      /\ m.evidence = l.evidence \cup {proof[v] : v \in off}
      /\ m.epochs = l.epochs
      /\ m.events = l.events \cup N
  <2>1. DOMAIN l = {"balances", "bonds", "evidence", "epochs", "events"}
    BY DEF Sound
  <2>2. N = {Event("SLASH", ep, v, cut[v], proof[v]) : v \in off}
    OBVIOUS
  <2> HIDE DEF N, E
  <2> QED
    BY <2>1, <2>2 DEF AfterSlash, Log
<1>2. \A v \in off : /\ cut[v] = Penalty(l, v, amount)
                     /\ E[v][1] = "SLASH" /\ E[v][2] = ep /\ E[v][3] = v
                     /\ E[v][4] = cut[v] /\ E[v][5] = proof[v]
  BY EventFields
<1>3. /\ l.balances \in [Account -> Nat]
      /\ \A v \in DOMAIN l.bonds :
            /\ l.bonds[v] \in [amount : Nat, unlock : Nat, active : BOOLEAN, unbonding : BOOLEAN]
            /\ l.bonds[v].amount <= Stake[v] /\ l.bonds[v].unlock >= Unlock[v]
            /\ v \in Validator /\ Stake[v] \in Nat
  BY SettlementAssumption DEF Sound, Position
<1>4. \A v \in off : cut[v] \in Nat /\ cut[v] <= l.bonds[v].amount
  BY <1>2, <1>3 DEF Penalty, Least
<1>5. IsFiniteSet(off) /\ off \in SUBSET Account /\ Treasury \notin off /\ Treasury \in Account
  BY <1>3, AccountsFinite, FS_Subset
<1>6. DOMAIN cut = off
  OBVIOUS
<1> HIDE DEF cut, E
<1>7. SumFunction(cut) = SumFunctionOnSet(cut, off) /\ SumFunction(cut) \in Nat
  <2>1. SumFunction(cut) = SumFunctionOnSet(cut, off)
    BY <1>6 DEF SumFunction
  <2>2. \A v \in off : cut[v] \in Nat
    BY <1>4
  <2> HIDE DEF off
  <2>3. SumFunctionOnSet(cut, off) \in Nat
    BY <1>5, <2>2, SumNat
  <2> QED
    BY <2>1, <2>3
<1>8. ASSUME NEW v \in off
      PROVE  /\ bond(v) \in Position /\ bond(v).amount = l.bonds[v].amount - cut[v]
             /\ bond(v).unlock = l.bonds[v].unlock
             /\ bond(v).unbonding = l.bonds[v].unbonding
  <2>1. /\ l.bonds[v] \in [amount : Nat, unlock : Nat, active : BOOLEAN, unbonding : BOOLEAN]
        /\ cut[v] \in Nat /\ l.bonds[v].amount - cut[v] \in Nat
    BY <1>3, <1>4
  <2>2. (l.bonds[v].active /\ l.bonds[v].amount > cut[v]) \in BOOLEAN
    OBVIOUS
  <2> QED
    BY <2>1, <2>2 DEF Position
<1> HIDE DEF bond
<1>9. \A v \in DOMAIN l.bonds :
        /\ m.bonds[v].unbonding = l.bonds[v].unbonding
        /\ m.bonds[v].unlock = l.bonds[v].unlock
        /\ m.bonds[v].amount = IF v \in off THEN l.bonds[v].amount - cut[v]
                               ELSE l.bonds[v].amount
  BY <1>1, <1>8
<1>10. Logged(l, m, "SLASH", N)
  BY <1>1, <1>2 DEF Logged
<1>11. Sound(m)
  <2>1. IsFiniteSet(l.events \cup N) /\ \A e \in l.events \cup N : e[2] \in Nat /\ e[4] \in Nat
    <3>1. IsFiniteSet(l.events) /\ \A e \in l.events : e[2] \in Nat /\ e[4] \in Nat
      BY DEF Sound
    <3>2. \A e \in N : e[2] \in Nat /\ e[4] \in Nat
      BY <1>2, <1>4
    <3>3. IsFiniteSet(N)
      BY <1>5, ImageFinite
    <3> HIDE DEF N
    <3>4. IsFiniteSet(l.events \cup N)
      BY <3>1, <3>3, FS_Union
    <3> QED
      BY <3>1, <3>2, <3>4
  <2>2. m.balances \in [Account -> Nat]
    BY <1>1, <1>3, <1>5, <1>7
  <2>3. ASSUME NEW v \in DOMAIN m.bonds
        PROVE  /\ m.bonds[v] \in Position /\ m.bonds[v].amount <= Stake[v]
               /\ m.bonds[v].unlock >= Unlock[v]
    <3>1. v \in DOMAIN l.bonds
      BY <1>1
    <3>2. m.bonds[v] \in Position
      BY <1>1, <1>3, <1>8, <3>1 DEF Position
    <3>3. m.bonds[v].amount <= Stake[v]
      BY <1>3, <1>4, <1>9, <3>1
    <3> QED
      BY <1>3, <1>9, <3>1, <3>2, <3>3
  <2> QED
    BY <1>1, <1>3, <2>1, <2>2, <2>3 DEF Sound
<1>12. /\ \A v : Of(m, "WITHDRAW", v) = Of(l, "WITHDRAW", v)
       /\ \A v : Of(m, "UNBOND_REQUEST", v) = Of(l, "UNBOND_REQUEST", v)
       /\ \A v : Of(m, "REWARD", v) = Of(l, "REWARD", v)
       /\ \A v : Of(m, "FUND", v) = Of(l, "FUND", v)
       /\ \A v : Of(m, "BOND", v) = Of(l, "BOND", v)
       /\ \A e \in m.events : e[1] = "REWARD" => e \in l.events
       /\ \A e \in m.events : e[1] = "BOND" => e \in l.events
       /\ Funds(m) = Funds(l)
  BY <1>10, OtherEntries, OtherFunds
<1>13. Delayed(l) => Delayed(m)
  BY <1>1, <1>9, <1>12 DEF Delayed
<1>14. ASSUME NEW D, Debited(l, D)
       PROVE  Debited(m, D)
  <2>1. \A e \in m.events : e[1] = "SLASH" => e[5] \in m.evidence
    <3>1. \A e \in N : e[5] \in m.evidence
      BY <1>1, <1>2
    <3>2. \A e \in l.events : e[1] = "SLASH" => e[5] \in m.evidence
      BY <1>1, <1>14 DEF Debited
    <3> QED
      BY <1>1, <3>1, <3>2
  <2>2. ASSUME NEW v, v \notin off
        PROVE  Of(m, "SLASH", v) = Of(l, "SLASH", v)
    <3>1. \A e \in N : e[3] # v
      BY <1>2, <2>2
    <3> HIDE DEF N
    <3> QED
      BY <1>10, <3>1, NoEntry
  <2>3. ASSUME NEW v \in off
        PROVE  Amounts(Of(m, "SLASH", v)) = Amounts(Of(l, "SLASH", v)) + cut[v]
    <3>1. E[v] \in N /\ E[v][3] = v /\ \A e \in N : e[3] = v => e = E[v]
      BY <1>2
    <3>2. E[v][4] = cut[v] /\ cut[v] \in Nat /\ E[v][1] = "SLASH" /\ E[v][5] = proof[v]
      BY <1>2, <1>4
    <3>3. E[v] \notin l.events
      BY <1>14, <3>2 DEF Debited
    <3> HIDE DEF N
    <3>4. Of(m, "SLASH", v) = Of(l, "SLASH", v) \cup {E[v]}
      BY <1>10, <3>1, OneEntry
    <3>5. Counted(Of(l, "SLASH", v)) /\ E[v] \notin Of(l, "SLASH", v) /\ E[v][4] \in Nat
      <4>1. Counted(Of(l, "SLASH", v))
        BY EntriesCounted
      <4>2. E[v] \notin Of(l, "SLASH", v)
        BY <3>3 DEF Of
      <4> QED
        BY <3>2, <4>1, <4>2
    <3>6. Amounts(Of(l, "SLASH", v) \cup {E[v]}) = Amounts(Of(l, "SLASH", v)) + E[v][4]
      BY <3>5, AmountsAdd
    <3> QED
      BY <3>2, <3>4, <3>6
  <2>4. ASSUME NEW v \in DOMAIN m.bonds
        PROVE  /\ m.bonds[v].amount + Amounts(Of(m, "SLASH", v)) = Stake[v]
               /\ Of(m, "WITHDRAW", v) = {}
    <3>1. v \in DOMAIN l.bonds
      BY <1>1
    <3>2. l.bonds[v].amount + Amounts(Of(l, "SLASH", v)) = Stake[v] /\ Of(l, "WITHDRAW", v) = {}
      BY <1>14, <3>1 DEF Debited
    <3>3. l.bonds[v].amount \in Nat /\ Amounts(Of(l, "SLASH", v)) \in Nat
      BY <1>3, <3>1, EntriesCounted, AmountsNat
    <3>4. CASE v \in off
      <4>1. /\ m.bonds[v].amount = l.bonds[v].amount - cut[v] /\ cut[v] \in Nat
            /\ Amounts(Of(m, "SLASH", v)) = Amounts(Of(l, "SLASH", v)) + cut[v]
        BY <1>4, <1>9, <2>3, <3>1, <3>4
      <4> QED
        BY <1>12, <3>2, <3>3, <4>1
    <3>5. CASE v \notin off
      BY <1>9, <1>12, <2>2, <3>1, <3>2, <3>5
    <3> QED
      BY <3>4, <3>5
  <2>5. \A v \in D \ DOMAIN m.bonds :
          Amounts(Of(m, "WITHDRAW", v)) + Amounts(Of(m, "SLASH", v)) = Stake[v]
    BY <1>1, <1>12, <1>14, <2>2 DEF Debited
  <2>6. \A v \in Validator \ (D \cup DOMAIN m.bonds) :
          Of(m, "WITHDRAW", v) = {} /\ Of(m, "SLASH", v) = {}
    BY <1>1, <1>12, <1>14, <2>2 DEF Debited
  <2> QED
    BY <2>1, <2>4, <2>5, <2>6 DEF Debited
<1>15. Announced(l) => Announced(m)
  BY <1>1, <1>12 DEF Announced
<1>16. Balanced(l) => Balanced(m)
  <2> DEFINE p == Purse(m)
             q == Purse(l)
             c == [a \in Account |-> IF a \in off THEN cut[a] ELSE 0]
  <2>1. Ints(p, Account)
    BY <1>11, PurseType
  <2>2. /\ Ints(c, Account) /\ Ints(c, off) /\ VanishesOn(c, Account \ off)
        /\ c[Treasury] = 0 /\ Ints(cut, off) /\ \A v \in off : c[v] = cut[v]
    BY <1>4, <1>5 DEF Ints, VanishesOn
  <2>3. SumFunctionOnSet(c, Account) = SumFunction(cut)
    <3> HIDE DEF c, off
    <3>1. SumFunctionOnSet(c, Account) = SumFunctionOnSet(c, off)
      BY <1>5, <2>2, AccountsFinite, SumSupport
    <3>2. SumFunctionOnSet(c, off) = SumFunctionOnSet(cut, off)
      BY <1>5, <2>2, SumSame
    <3> QED
      BY <1>7, <3>1, <3>2
  <2>4. IsSum(q, p, c, Account \ {Treasury})
    <3>1. ASSUME NEW a \in Account \ {Treasury}
          PROVE  q[a] = p[a] + c[a]
      <4>1. m.balances[a] = l.balances[a] /\ l.balances[a] \in Nat
        BY <1>1, <1>3
      <4>2. CASE a \in off
        <5>1. /\ a \in DOMAIN l.bonds /\ a \in DOMAIN m.bonds /\ c[a] = cut[a]
              /\ m.bonds[a].amount = l.bonds[a].amount - cut[a]
              /\ cut[a] \in Nat /\ l.bonds[a].amount \in Nat
          BY <1>1, <1>3, <1>4, <1>9, <4>2
        <5>2. /\ q[a] = l.balances[a] + l.bonds[a].amount
              /\ p[a] = l.balances[a] + m.bonds[a].amount
          BY <4>1, <5>1 DEF Purse
        <5> HIDE DEF p, q, c
        <5> QED
          BY <4>1, <5>1, <5>2
      <4>3. CASE a \notin off
        <5>1. q[a] = p[a]
          BY <1>1, <1>9, <4>1, <4>3 DEF Purse
        <5>2. p[a] \in Int /\ c[a] = 0
          BY <2>1, <4>3 DEF Ints
        <5> HIDE DEF p, q, c
        <5> QED
          BY <5>1, <5>2
      <4> QED
        BY <4>2, <4>3
    <3> QED
      BY <3>1 DEF IsSum
  <2>5. q[Treasury] = p[Treasury] - SumFunction(cut)
    <3>1. Treasury \notin DOMAIN l.bonds /\ Treasury \notin DOMAIN m.bonds
      BY <1>1, <1>3, AccountsFinite
    <3>2. m.balances[Treasury] = l.balances[Treasury] + SumFunction(cut)
      BY <1>1, <1>3, <1>5
    <3>3. q[Treasury] = l.balances[Treasury] + 0 /\ p[Treasury] = m.balances[Treasury] + 0
      BY <1>5, <3>1 DEF Purse
    <3>4. l.balances[Treasury] \in Nat
      BY <1>3, <1>5
    <3> QED
      BY <1>7, <3>2, <3>3, <3>4
  <2> HIDE DEF p, q, c
  <2>6. q[Treasury] = p[Treasury] - SumFunctionOnSet(c, Account)
    BY <2>3, <2>5
  <2>7. SumFunctionOnSet(q, Account) = SumFunctionOnSet(p, Account)
    BY <1>5, <2>1, <2>2, <2>4, <2>6, AccountsFinite, Transfer
  <2> QED
    BY <1>12, <2>7 DEF Balanced, p, q
<1>17. Earned(l) => Earned(m)
  <2>1. \A v \in Validator : m.balances[v] = l.balances[v]
    BY <1>1, <1>3, <1>5, AccountsFinite
  <2> QED
    BY <1>1, <1>12, <2>1 DEF Earned
<1>18. m.balances[Treasury] >= l.balances[Treasury]
  BY <1>1, <1>3, <1>5, <1>7
<1>19. Accused(l, m, Proofs(proof))
  BY <1>1 DEF Accused, Proofs
<1>20. Cut(l, m, DOMAIN proof, amount)
  BY <1>2, <1>9 DEF Cut, Penalty
<1>21. Fined(l, m)
  BY <1>1, <1>9, <1>12 DEF Fined
<1> QED
  BY <1>11, <1>13, <1>14, <1>15, <1>16, <1>17, <1>18, <1>19, <1>20, <1>21

\* Division leaves no more than it is given.
LEMMA DivisionBound ==
    ASSUME NEW a \in Nat, NEW n \in Nat, n # 0
    PROVE  a \div n \in Nat /\ a - (a \div n) * (n - 1) \in Nat
<1> DEFINE d == a \div n
<1>1. d \in Nat
  OBVIOUS
<1>2. n * d <= a
  OBVIOUS
<1> HIDE DEF d
<1>3. d * (n - 1) = n * d - d
  BY <1>1
<1>4. n * d \in Nat
  BY <1>1
<1> QED
  BY <1>1, <1>2, <1>3, <1>4 DEF d

\* distribute_rewards hands out the total, in shares that are not negative.
LEMMA SharesAddUp ==
    ASSUME NEW total \in Nat, NEW bonds \in SUBSET Validator, bonds # {},
           NEW f, \A v \in bonds : f[v] = Share(total, bonds, v)
    PROVE  /\ \A v : Share(total, bonds, v) \in Nat
           /\ SumFunctionOnSet(f, bonds) = total
<1> DEFINE n == Cardinality(bonds)
           each == total \div n
           top == Max(bonds)
           rest == bonds \ {top}
<1>1. IsFiniteSet(bonds) /\ bonds \in SUBSET Nat
  BY AccountsFinite, FS_Subset
<1>2. n \in Nat /\ n # 0
  <2>1. n \in Nat
    BY <1>1, FS_CardinalityType
  <2>2. n = 0 => bonds = {}
    BY <1>1, FS_EmptySet
  <2> QED
    BY <2>1, <2>2
<1>3. top \in bonds
  BY <1>1, MaxElement
<1>4. IsFiniteSet(rest) /\ Cardinality(rest) = n - 1
  BY <1>1, <1>3, FS_RemoveElement
<1>5. \A v : Share(total, bonds, v) = IF v = top THEN total - each * (n - 1) ELSE each
  BY DEF Share
<1> HIDE DEF n, top
<1>6. each \in Nat /\ total - each * (n - 1) \in Nat
  BY <1>2, DivisionBound
<1> HIDE DEF each
<1>7. \A v : Share(total, bonds, v) \in Nat
  BY <1>5, <1>6
<1>8. (\A v \in rest : f[v] = each) /\ f[top] = total - each * (n - 1) /\ Ints(f, bonds)
  BY <1>3, <1>5, <1>7 DEF Ints
<1> HIDE DEF rest
<1>9. SumFunctionOnSet(f, rest) = each * Cardinality(rest)
  BY <1>4, <1>6, <1>8, SumConstant
<1>10. SumFunctionOnSet(f, bonds) = f[top] + SumFunctionOnSet(f, bonds \ {top})
  BY <1>1, <1>3, <1>8, SumElement
<1>11. SumFunctionOnSet(f, rest) = each * (n - 1)
  BY <1>4, <1>9
<1>12. SumFunctionOnSet(f, bonds) = (total - each * (n - 1)) + each * (n - 1)
  BY <1>8, <1>10, <1>11 DEF rest
<1>13. each * (n - 1) \in Int
  BY <1>2, <1>6
<1> QED
  BY <1>7, <1>12, <1>13

\* What distribute_rewards does when every bond it names exists: everyone is
\* paid, from the treasury, and the key is remembered.
LEMMA RewardKeeps ==
    ASSUME NEW l, Sound(l), NEW key \in Nat, NEW total \in Nat, NEW bonds \in SUBSET Validator,
           MayReward(l, key, total, bonds), NEW m, m = AfterReward(l, key, total, bonds)
    PROVE  /\ Sound(m)
           /\ Delayed(l) => Delayed(m)
           /\ \A D : Debited(l, D) => Debited(m, D)
           /\ m.bonds = l.bonds /\ m.evidence = l.evidence
           /\ \A e \in m.events : e[1] = "REWARD" =>
                 e \in l.events \/ (e[2] = key /\ e[3] \in bonds)
           /\ bonds \subseteq DOMAIN l.bonds /\ Announced(l) =>
                 /\ Announced(m)
                 /\ Balanced(l) => Balanced(m)
                 /\ Earned(l) => Earned(m)
                 /\ m.epochs = l.epochs \cup {key}
<1> DEFINE paid == Paid(l, key, total, bonds)
           sh == [v \in bonds |-> Share(total, bonds, v)]
           E == [v \in bonds |-> RewardEvent(key, total, bonds, v)]
           N == {E[v] : v \in paid}
<1>0. total > 0 /\ bonds # {} /\ l.balances[Treasury] >= total /\ key \notin l.epochs
  BY DEF MayReward
<1>1. paid \in SUBSET bonds
  BY DEF Paid
<1>2. /\ DOMAIN m = {"balances", "bonds", "evidence", "epochs", "events"}
      /\ m.balances = [a \in Account |->
                          CASE a = Treasury -> l.balances[a] - total
                            [] a \in paid   -> l.balances[a] + Share(total, bonds, a)
                            [] OTHER        -> l.balances[a]]
      /\ m.bonds = l.bonds /\ m.evidence = l.evidence
      /\ m.epochs = IF RewardsComplete(l, key, total, bonds) THEN l.epochs \cup {key}
                    ELSE l.epochs
      /\ m.events = l.events \cup N
  <2>1. DOMAIN l = {"balances", "bonds", "evidence", "epochs", "events"}
    BY DEF Sound
  <2>2. N = {RewardEvent(key, total, bonds, v) : v \in paid}
    BY <1>1
  <2> HIDE DEF N, E
  <2> QED
    BY <2>1, <2>2 DEF AfterReward, Log
<1>3. /\ \A v : Share(total, bonds, v) \in Nat
      /\ SumFunctionOnSet(sh, bonds) = total
  <2>1. \A v \in bonds : sh[v] = Share(total, bonds, v)
    OBVIOUS
  <2> HIDE DEF sh
  <2> QED
    BY <1>0, <2>1, SharesAddUp
<1>4. \A v \in bonds : /\ E[v] = RewardEvent(key, total, bonds, v)
                       /\ E[v][1] = "REWARD" /\ E[v][2] = key /\ E[v][3] = v
                       /\ E[v][4] = Share(total, bonds, v)
  BY EventFields DEF RewardEvent
<1> HIDE DEF E, paid
<1>5. IsFiniteSet(bonds) /\ IsFiniteSet(paid) /\ bonds \in SUBSET Account
      /\ Treasury \notin bonds /\ Treasury \in Account
  <2>1. IsFiniteSet(bonds)
    BY AccountsFinite, FS_Subset
  <2>2. IsFiniteSet(paid)
    BY <1>1, <2>1, FS_Subset
  <2> QED
    BY <2>1, <2>2, AccountsFinite
<1>6. Logged(l, m, "REWARD", N)
  BY <1>1, <1>2, <1>4 DEF Logged
<1>7. l.balances \in [Account -> Nat]
  BY DEF Sound
<1>8. Sound(m)
  <2>1. IsFiniteSet(l.events \cup N) /\ \A e \in l.events \cup N : e[2] \in Nat /\ e[4] \in Nat
    <3>1. IsFiniteSet(l.events) /\ \A e \in l.events : e[2] \in Nat /\ e[4] \in Nat
      BY DEF Sound
    <3>2. \A e \in N : e[2] \in Nat /\ e[4] \in Nat
      BY <1>1, <1>3, <1>4
    <3>3. IsFiniteSet(N)
      BY <1>5, ImageFinite
    <3> HIDE DEF N
    <3>4. IsFiniteSet(l.events \cup N)
      BY <3>1, <3>3, FS_Union
    <3> QED
      BY <3>1, <3>2, <3>4
  <2>2. \A a \in Account : m.balances[a] \in Nat
    <3> TAKE a \in Account
    <3>1. l.balances[a] \in Nat /\ Share(total, bonds, a) \in Nat
      BY <1>3, <1>7
    <3> QED
      BY <1>0, <1>2, <3>1
  <2>3. m.balances \in [Account -> Nat]
    BY <1>2, <2>2
  <2> QED
    BY <1>2, <2>1, <2>3 DEF Sound
<1>9. /\ \A v : Of(m, "WITHDRAW", v) = Of(l, "WITHDRAW", v)
      /\ \A v : Of(m, "UNBOND_REQUEST", v) = Of(l, "UNBOND_REQUEST", v)
      /\ \A v : Of(m, "SLASH", v) = Of(l, "SLASH", v)
      /\ \A v : Of(m, "FUND", v) = Of(l, "FUND", v)
      /\ \A v : Of(m, "BOND", v) = Of(l, "BOND", v)
      /\ \A e \in m.events : e[1] = "SLASH" => e \in l.events
      /\ \A e \in m.events : e[1] = "BOND" => e \in l.events
      /\ Funds(m) = Funds(l)
  BY <1>6, OtherEntries, OtherFunds
<1>10. Delayed(l) => Delayed(m)
  BY <1>2, <1>9 DEF Delayed
<1>11. \A D : Debited(l, D) => Debited(m, D)
  BY <1>2, <1>9 DEF Debited
<1>12. \A e \in m.events : e[1] = "REWARD" => e \in l.events \/ (e[2] = key /\ e[3] \in bonds)
  BY <1>1, <1>2, <1>4
<1>13. ASSUME bonds \subseteq DOMAIN l.bonds, Announced(l)
       PROVE  /\ Announced(m)
              /\ Balanced(l) => Balanced(m)
              /\ Earned(l) => Earned(m)
              /\ m.epochs = l.epochs \cup {key}
  <2>1. \A v \in bonds : E[v] \notin l.events
    BY <1>0, <1>4, <1>13 DEF Announced
  <2>2. paid = bonds
    BY <1>4, <1>13, <2>1 DEF paid, Paid
  <2>3. m.epochs = l.epochs \cup {key}
    BY <1>2, <1>4, <1>13, <2>1 DEF RewardsComplete
  <2>4. Announced(m)
    BY <1>12, <1>13, <2>3 DEF Announced
  <2>5. \A a \in Account : l.balances[a] \in Nat
    BY <1>7
  <2>6. Balanced(l) => Balanced(m)
    <3> DEFINE p == Purse(l)
               q == Purse(m)
               c == [a \in Account |-> IF a \in bonds THEN Share(total, bonds, a) ELSE 0]
    <3>1. Ints(p, Account)
      BY PurseType
    <3>2. /\ Ints(c, Account) /\ Ints(c, bonds) /\ VanishesOn(c, Account \ bonds)
          /\ c[Treasury] = 0 /\ Ints(sh, bonds) /\ \A v \in bonds : c[v] = sh[v]
      BY <1>3, <1>5 DEF Ints, VanishesOn
    <3>3. IsSum(q, p, c, Account \ {Treasury})
      <4>1. ASSUME NEW a \in Account \ {Treasury}
            PROVE  q[a] = p[a] + c[a]
        <5>1. a \in DOMAIN l.bonds => l.bonds[a].amount \in Nat
          BY DEF Sound, Position
        <5>2. m.balances[a] = l.balances[a] + c[a]
          BY <1>2, <2>2, <2>5
        <5>3. c[a] \in Int
          BY <3>2 DEF Ints
        <5> HIDE DEF c
        <5> QED
          BY <1>2, <2>5, <5>1, <5>2, <5>3 DEF Purse
      <4> QED
        BY <4>1 DEF IsSum
    <3>4. q[Treasury] = p[Treasury] - total
      <4>1. Treasury \notin DOMAIN l.bonds
        BY AccountsFinite DEF Sound
      <4>2. m.balances[Treasury] = l.balances[Treasury] - total
        BY <1>1, <1>2, <1>5
      <4> QED
        BY <1>2, <1>5, <2>5, <4>1, <4>2 DEF Purse
    <3> HIDE DEF p, q, c, sh
    <3>5. SumFunctionOnSet(c, Account) = total
      <4>1. SumFunctionOnSet(c, Account) = SumFunctionOnSet(c, bonds)
        BY <1>5, <3>2, AccountsFinite, SumSupport
      <4>2. SumFunctionOnSet(c, bonds) = SumFunctionOnSet(sh, bonds)
        BY <1>5, <3>2, SumSame
      <4> QED
        BY <1>3, <4>1, <4>2
    <3>6. q[Treasury] = p[Treasury] - SumFunctionOnSet(c, Account)
      BY <3>4, <3>5
    <3>7. SumFunctionOnSet(q, Account) = SumFunctionOnSet(p, Account)
      BY <1>5, <3>1, <3>2, <3>3, <3>6, AccountsFinite, Transfer
    <3> QED
      BY <1>9, <3>7 DEF Balanced, p, q
  <2>7. ASSUME Earned(l)
        PROVE  Earned(m)
    <3>1. \A e \in m.events : e[1] = "BOND" => e[3] \in DOMAIN m.bonds
      BY <1>2, <1>9, <2>7 DEF Earned
    <3>2. ASSUME NEW v \in Validator
          PROVE  m.balances[v] + Amounts(Of(m, "BOND", v))
                   = Amounts(Of(m, "FUND", v)) + Amounts(Of(m, "REWARD", v))
      <4>1. l.balances[v] + Amounts(Of(l, "BOND", v))
              = Amounts(Of(l, "FUND", v)) + Amounts(Of(l, "REWARD", v))
        BY <2>7 DEF Earned
      <4>2. v \in Account /\ v # Treasury /\ l.balances[v] \in Nat
        BY <2>5, AccountsFinite
      <4>3. /\ Amounts(Of(l, "BOND", v)) \in Nat
            /\ Amounts(Of(l, "FUND", v)) \in Nat
            /\ Amounts(Of(l, "REWARD", v)) \in Nat
        BY EntriesCounted, AmountsNat
      <4>4. CASE v \in bonds
        <5> DEFINE s == Share(total, bonds, v)
                   O == Of(l, "REWARD", v)
        <5>1. E[v] \in N /\ E[v][3] = v /\ \A e \in N : e[3] = v => e = E[v]
          BY <1>1, <1>4, <2>2, <4>4
        <5>2. Of(m, "REWARD", v) = O \cup {E[v]}
          <6> HIDE DEF N
          <6> QED
            BY <1>6, <5>1, OneEntry
        <5>3. E[v][4] = s /\ s \in Nat /\ E[v] \notin O
          BY <1>3, <1>4, <2>1, <4>4 DEF Of
        <5>4. Counted(O)
          BY EntriesCounted
        <5> HIDE DEF O, s
        <5>5. Amounts(O \cup {E[v]}) = Amounts(O) + E[v][4]
          BY <5>3, <5>4, AmountsAdd
        <5>6. Amounts(Of(m, "REWARD", v)) = Amounts(Of(l, "REWARD", v)) + s
          BY <5>2, <5>3, <5>5 DEF O
        <5>7. m.balances[v] = l.balances[v] + s
          BY <1>2, <2>2, <4>2, <4>4 DEF s
        <5> QED
          BY <1>9, <4>1, <4>2, <4>3, <5>3, <5>6, <5>7
      <4>5. CASE v \notin bonds
        <5>1. \A e \in N : e[3] # v
          BY <1>1, <1>4, <4>5
        <5>2. Of(m, "REWARD", v) = Of(l, "REWARD", v)
          <6> HIDE DEF N
          <6> QED
            BY <1>6, <5>1, NoEntry
        <5>3. m.balances[v] = l.balances[v]
          BY <1>2, <2>2, <4>2, <4>5
        <5> QED
          BY <1>9, <4>1, <5>2, <5>3
      <4> QED
        BY <4>4, <4>5
    <3> QED
      BY <3>1, <3>2 DEF Earned
  <2> QED
    BY <2>3, <2>4, <2>6, <2>7
<1> QED
  BY <1>2, <1>8, <1>10, <1>11, <1>12, <1>13

-----------------------------------------------------------------------------
(***************************************************************************)
(* The inductive invariant                                                 *)
(***************************************************************************)

\* Rounds and evidence.
BeaconInv ==
    /\ slashed \subseteq ledger.evidence
    /\ epoch \in 0 .. MaxEpoch
    /\ commitments \subseteq (0 .. MaxEpoch) \X Round \X Validator
    /\ reveals \subseteq commitments
    /\ settled \subseteq (0 .. MaxEpoch) \X Round

\* Records belong to used deposits and carry at least what is bonded.
RecordsInv ==
    /\ deposits \subseteq Validator
    /\ DOMAIN records \subseteq deposits
    /\ \A v \in DOMAIN records : records[v] \in Record
    /\ \A v \in DOMAIN records :
          v \in DOMAIN ledger.bonds => ledger.bonds[v].amount <= records[v].stake

\* The ledger l of a node and what it says of its validators.
NodeLedger(l) ==
    /\ Sound(l) /\ Delayed(l) /\ Debited(l, deposits)
    /\ Announced(l) /\ Balanced(l) /\ Earned(l)
    /\ DOMAIN l.bonds = DOMAIN ledger.bonds

\* With a store: both ledgers are sound and bond the same validators, and the
\* validators are those of the genesis and of the rows.
StoreInv ==
    store # NoStore =>
        /\ DOMAIN store = {"ledger", "rows"}
        /\ NodeLedger(ledger) /\ NodeLedger(store.ledger)
        /\ store.rows \subseteq Validator
        /\ DOMAIN records = GenesisValidator \cup store.rows
        /\ deposits = DOMAIN records
        /\ DOMAIN records \subseteq DOMAIN ledger.bonds

\* What every step keeps, with and without a store.
CoreInv ==
    /\ Sound(ledger) /\ Delayed(ledger) /\ Debited(ledger, deposits)
    /\ BeaconInv /\ RecordsInv

KeptInv ==
    /\ CoreInv /\ StoreInv
    /\ restarts \in Nat
    /\ store = NoStore => restarts = 0
    /\ restarts = 0 => DOMAIN ledger.bonds \subseteq DOMAIN records

\* Without a store, and with full penalties only: whoever leaves is inactive and
\* locked no longer than the bond, so that withdraw drops record and bond together.
ExactInv ==
    store = NoStore =>
        /\ Announced(ledger) /\ Balanced(ledger)
        /\ DOMAIN records = DOMAIN ledger.bonds
        /\ \A v \in DOMAIN records : ledger.bonds[v].unbonding =>
              ~records[v].active /\ records[v].locked <= ledger.bonds[v].unlock

\* The bounds of the epoch.
LEMMA EpochNat ==
    ASSUME BeaconInv
    PROVE  epoch \in Nat /\ epoch <= MaxEpoch
BY MembershipAssumption DEF BeaconInv

\* What stays when neither ledger nor records change.
LEMMA CoreUnchanged ==
    ASSUME CoreInv, BeaconInv', UNCHANGED <<ledger, records, deposits>>
    PROVE  CoreInv'
BY DEF CoreInv, RecordsInv

\* admit bonds a stake that no deposit was used for.
LEMMA AdmitStep ==
    ASSUME CoreInv, NEW v \in Validator, Admit(v)
    PROVE  /\ CoreInv'
           /\ v \notin DOMAIN ledger.bonds
           /\ DOMAIN ledger'.bonds = DOMAIN ledger.bonds \cup {v}
           /\ DOMAIN records' = DOMAIN records \cup {v}
           /\ ledger'.bonds[v] = NewPosition(v)
           /\ \A w \in DOMAIN ledger.bonds : ledger'.bonds[w] = ledger.bonds[w]
           /\ \A w \in DOMAIN records : records'[w] = records[w]
           /\ Announced(ledger) => Announced(ledger')
           /\ Balanced(ledger) => Balanced(ledger')
           /\ Earned(ledger) => Earned(ledger')
           /\ ledger'.evidence = ledger.evidence /\ ledger'.epochs = ledger.epochs
           /\ \A e \in ledger'.events : e[1] = "REWARD" => e \in ledger.events
<1> DEFINE S == {v}
<1>1. /\ v \notin DOMAIN records /\ v \notin deposits
      /\ v \notin DOMAIN ledger.bonds /\ ledger.balances[v] >= Stake[v]
      /\ ledger' = AfterBond(ledger, S, epoch)
      /\ records' = [w \in DOMAIN records \cup {v} |-> IF w = v THEN NewRecord(v) ELSE records[w]]
      /\ deposits' = deposits \cup S
      /\ UNCHANGED <<slashed, epoch, beacon>>
  BY DEF Admit, MayBond
<1>2. Sound(ledger) /\ Delayed(ledger) /\ Debited(ledger, deposits) /\ BeaconInv /\ RecordsInv
  BY DEF CoreInv
<1>3. /\ S \in SUBSET Validator /\ Apart(S, DOMAIN ledger.bonds) /\ Apart(S, deposits)
      /\ \A w \in S : ledger.balances[w] >= Stake[w]
      /\ epoch \in Nat /\ Joined(deposits', deposits, S)
  BY <1>1, <1>2, EpochNat DEF Apart, Joined
<1> HIDE DEF S
<1>4. /\ Sound(ledger')
      /\ Delayed(ledger) => Delayed(ledger')
      /\ \A D, F : Apart(S, D) /\ Debited(ledger, D) /\ Joined(F, D, S) =>
                     Debited(ledger', D) /\ Debited(ledger', F)
      /\ Announced(ledger) => Announced(ledger')
      /\ Balanced(ledger) => Balanced(ledger')
      /\ Earned(ledger) => Earned(ledger')
      /\ Bonded(ledger, ledger', S)
      /\ ledger'.evidence = ledger.evidence /\ ledger'.epochs = ledger.epochs
      /\ \A e \in ledger'.events : e[1] = "REWARD" => e \in ledger.events
  BY <1>1, <1>2, <1>3, BondKeeps
<1>5. Delayed(ledger') /\ Debited(ledger', deposits')
  BY <1>1, <1>2, <1>3, <1>4
<1>5b. /\ DOMAIN ledger'.bonds = DOMAIN ledger.bonds \cup {v}
       /\ ledger'.bonds[v] = NewPosition(v)
       /\ \A w \in DOMAIN ledger.bonds : ledger'.bonds[w] = ledger.bonds[w]
  BY <1>4 DEF Bonded, S
<1>6. BeaconInv'
  BY <1>1, <1>2, <1>4 DEF BeaconInv, beacon
<1>7. RecordsInv'
  <2>1. NewRecord(v) \in Record /\ NewRecord(v).stake = Stake[v] /\ NewPosition(v).amount = Stake[v]
        /\ Stake[v] \in Nat
    BY SettlementAssumption DEF NewRecord, NewPosition, Record
  <2>2. /\ DOMAIN records' = DOMAIN records \cup {v} /\ records'[v] = NewRecord(v)
        /\ \A w \in DOMAIN records : records'[w] = records[w]
    BY <1>1
  <2>3. deposits' \subseteq Validator /\ DOMAIN records' \subseteq deposits'
    BY <1>1, <1>2, <2>2 DEF RecordsInv, S
  <2>4. \A w \in DOMAIN records' : records'[w] \in Record
    BY <1>2, <2>1, <2>2 DEF RecordsInv
  <2>5. ASSUME NEW w \in DOMAIN records', w \in DOMAIN ledger'.bonds
        PROVE  ledger'.bonds[w].amount <= records'[w].stake
    <3>1. CASE w = v
      BY <1>5b, <2>1, <2>2, <3>1
    <3>2. CASE w # v
      BY <1>2, <1>5b, <2>2, <2>5, <3>2 DEF RecordsInv
    <3> QED
      BY <3>1, <3>2
  <2> QED
    BY <2>3, <2>4, <2>5 DEF RecordsInv
<1>8. CoreInv'
  BY <1>4, <1>5, <1>6, <1>7 DEF CoreInv
<1> QED
  BY <1>1, <1>4, <1>5b, <1>8

\* exit keeps the bond and says when it may be paid out.
LEMMA ExitStep ==
    ASSUME CoreInv, NEW v \in Validator, Exit(v)
    PROVE  /\ CoreInv'
           /\ v \in DOMAIN records
           /\ DOMAIN ledger'.bonds = DOMAIN ledger.bonds /\ DOMAIN records' = DOMAIN records
           /\ deposits' = deposits
           /\ ~records'[v].active /\ records'[v].locked <= ledger'.bonds[v].unlock
           /\ \A w \in DOMAIN ledger.bonds : w # v => ledger'.bonds[w] = ledger.bonds[w]
           /\ \A w \in DOMAIN records : w # v => records'[w] = records[w]
           /\ Announced(ledger) => Announced(ledger')
           /\ Balanced(ledger) => Balanced(ledger')
           /\ ledger'.evidence = ledger.evidence /\ ledger'.epochs = ledger.epochs
           /\ \A e \in ledger'.events : e[1] = "REWARD" => e \in ledger.events
<1>1. /\ v \in DOMAIN records /\ MayUnbond(ledger, v)
      /\ ledger' = AfterUnbond(ledger, v, epoch, WithdrawalDelay)
      /\ records' = [records EXCEPT ![v].active = FALSE, ![v].locked = epoch + WithdrawalDelay]
      /\ UNCHANGED <<deposits, slashed, epoch, beacon>>
  BY DEF Exit
<1>2. Sound(ledger) /\ Delayed(ledger) /\ Debited(ledger, deposits) /\ BeaconInv /\ RecordsInv
  BY DEF CoreInv
<1>3. epoch \in Nat /\ epoch + WithdrawalDelay \in Nat /\ v \in DOMAIN ledger.bonds
  BY <1>1, <1>2, EpochNat, MembershipAssumption DEF MayUnbond
<1>4. /\ Sound(ledger')
      /\ Delayed(ledger) => Delayed(ledger')
      /\ \A D : Debited(ledger, D) => Debited(ledger', D)
      /\ Announced(ledger) => Announced(ledger')
      /\ Balanced(ledger) => Balanced(ledger')
      /\ DOMAIN ledger'.bonds = DOMAIN ledger.bonds
      /\ \A w \in DOMAIN ledger.bonds : ledger'.bonds[w].amount = ledger.bonds[w].amount
      /\ \A w \in DOMAIN ledger.bonds : w # v => ledger'.bonds[w] = ledger.bonds[w]
      /\ ledger'.bonds[v].unlock >= epoch + WithdrawalDelay
      /\ ledger'.evidence = ledger.evidence /\ ledger'.epochs = ledger.epochs
      /\ \A e \in ledger'.events : e[1] = "REWARD" => e \in ledger.events
  BY <1>1, <1>2, <1>3, UnbondKeeps
<1>5. BeaconInv'
  BY <1>1, <1>2, <1>4 DEF BeaconInv, beacon
<1>6. \A w \in DOMAIN records :
        records[w] \in [stake : Nat, active : BOOLEAN, locked : Nat, jailed : BOOLEAN]
  BY <1>2 DEF RecordsInv, Record
<1>7. /\ DOMAIN records' = DOMAIN records
      /\ \A w \in DOMAIN records : w # v => records'[w] = records[w]
      /\ records'[v] \in Record
      /\ records'[v].stake = records[v].stake /\ records'[v].active = FALSE
      /\ records'[v].locked = epoch + WithdrawalDelay
  <2> DEFINE r == [records EXCEPT ![v].active = FALSE]
             rec == [records[v] EXCEPT !.active = FALSE]
  <2>1. records' = [r EXCEPT ![v].locked = epoch + WithdrawalDelay]
    BY <1>1
  <2>2. /\ DOMAIN r = DOMAIN records /\ r[v] = rec
        /\ \A w \in DOMAIN records : w # v => r[w] = records[w]
    BY <1>1
  <2>3. /\ rec \in [stake : Nat, active : BOOLEAN, locked : Nat, jailed : BOOLEAN]
        /\ rec.stake = records[v].stake /\ rec.active = FALSE
    BY <1>1, <1>6
  <2> HIDE DEF r, rec
  <2>4. /\ DOMAIN records' = DOMAIN records
        /\ \A w \in DOMAIN records : w # v => records'[w] = records[w]
        /\ records'[v] = [rec EXCEPT !.locked = epoch + WithdrawalDelay]
    BY <1>1, <2>1, <2>2
  <2> QED
    BY <1>3, <2>3, <2>4 DEF Record
<1>8. RecordsInv'
  BY <1>1, <1>2, <1>4, <1>7 DEF RecordsInv
<1>9. CoreInv'
  BY <1>1, <1>2, <1>4, <1>5, <1>8 DEF CoreInv
<1>10. records'[v].locked <= ledger'.bonds[v].unlock
  <2>1. ledger'.bonds[v].unlock \in Nat
    BY <1>3, <1>4 DEF Sound, Position
  <2> QED
    BY <1>3, <1>4, <1>7, <2>1
<1> QED
  BY <1>1, <1>4, <1>7, <1>9, <1>10

\* withdraw pays the bond out; the record may stay.
LEMMA WithdrawStep ==
    ASSUME CoreInv, NEW v \in Validator, Withdraw(v)
    PROVE  /\ CoreInv'
           /\ MayWithdraw(ledger, v, epoch) /\ v \in DOMAIN records
           /\ DOMAIN ledger'.bonds = DOMAIN ledger.bonds \ {v}
           /\ DOMAIN records' = IF records[v].active \/ epoch < records[v].locked
                                THEN DOMAIN records ELSE DOMAIN records \ {v}
           /\ \A w \in DOMAIN ledger'.bonds : ledger'.bonds[w] = ledger.bonds[w]
           /\ \A w \in DOMAIN records' : records'[w] = records[w]
           /\ deposits' = deposits
           /\ Announced(ledger) => Announced(ledger')
           /\ Balanced(ledger) => Balanced(ledger')
           /\ ledger'.evidence = ledger.evidence /\ ledger'.epochs = ledger.epochs
           /\ \A e \in ledger'.events : e[1] = "REWARD" => e \in ledger.events
<1>1. /\ v \in DOMAIN records /\ MayWithdraw(ledger, v, epoch)
      /\ ledger' = AfterWithdraw(ledger, v, epoch)
      /\ records' = IF records[v].active \/ epoch < records[v].locked
                    THEN records ELSE Restrict(records, DOMAIN records \ {v})
      /\ UNCHANGED <<deposits, slashed, epoch, beacon>>
  BY DEF Withdraw
<1>2. Sound(ledger) /\ Delayed(ledger) /\ Debited(ledger, deposits) /\ BeaconInv /\ RecordsInv
  BY DEF CoreInv
<1>3. epoch \in Nat /\ v \in deposits
  BY <1>1, <1>2, EpochNat DEF RecordsInv
<1>4. /\ Sound(ledger')
      /\ Delayed(ledger) => Delayed(ledger')
      /\ \A D : v \in D /\ Debited(ledger, D) => Debited(ledger', D)
      /\ Announced(ledger) => Announced(ledger')
      /\ Balanced(ledger) => Balanced(ledger')
      /\ DOMAIN ledger'.bonds = DOMAIN ledger.bonds \ {v}
      /\ \A w \in DOMAIN ledger'.bonds : ledger'.bonds[w] = ledger.bonds[w]
      /\ ledger'.evidence = ledger.evidence /\ ledger'.epochs = ledger.epochs
      /\ \A e \in ledger'.events : e[1] = "REWARD" => e \in ledger.events
  BY <1>1, <1>2, <1>3, WithdrawKeeps
<1>5. BeaconInv'
  BY <1>1, <1>2, <1>4 DEF BeaconInv, beacon
<1>6. /\ DOMAIN records' = IF records[v].active \/ epoch < records[v].locked
                           THEN DOMAIN records ELSE DOMAIN records \ {v}
      /\ \A w \in DOMAIN records' : records'[w] = records[w]
  BY <1>1 DEF Restrict
<1>7. RecordsInv'
  <2>1. DOMAIN records' \subseteq DOMAIN records /\ DOMAIN ledger'.bonds \subseteq DOMAIN ledger.bonds
    BY <1>4, <1>6
  <2> QED
    BY <1>1, <1>2, <1>4, <1>6, <2>1 DEF RecordsInv
<1>8. CoreInv'
  BY <1>1, <1>2, <1>3, <1>4, <1>5, <1>7 DEF CoreInv
<1> QED
  BY <1>1, <1>4, <1>6, <1>8

\* A record after a penalty.
LEMMA ReducedRecord ==
    ASSUME NEW rec \in Record, NEW amount \in Nat, NEW mayStay \in BOOLEAN
    PROVE  /\ Reduced(rec, amount, mayStay) \in Record
           /\ Reduced(rec, amount, mayStay).locked = rec.locked
           /\ Reduced(rec, amount, mayStay).stake = Greatest(0, rec.stake - amount)
           /\ Reduced(rec, amount, mayStay).active => mayStay /\ rec.stake > amount
<1> DEFINE left == Greatest(0, rec.stake - amount)
           act == left > 0 /\ mayStay
           jail == left = 0 \/ rec.jailed
           r == [rec EXCEPT !.stake = left, !.active = act, !.jailed = jail]
<1>1. rec \in [stake : Nat, active : BOOLEAN, locked : Nat, jailed : BOOLEAN]
  BY DEF Record
<1>2. left \in Nat /\ (left > 0 => rec.stake > amount)
  BY <1>1 DEF Greatest
<1>3. act \in BOOLEAN /\ jail \in BOOLEAN /\ (act => mayStay /\ rec.stake > amount)
  BY <1>1, <1>2
<1>4. Reduced(rec, amount, mayStay) = r
  BY <1>1 DEF Reduced
<1> HIDE DEF left, act, jail
<1>5. /\ r \in [stake : Nat, active : BOOLEAN, locked : Nat, jailed : BOOLEAN]
      /\ r.locked = rec.locked /\ r.stake = left /\ r.active = act
  BY <1>1, <1>2, <1>3
<1> QED
  BY <1>3, <1>4, <1>5 DEF Record, left

\* A single penalty, as the ledger sees it.
LEMMA OnePenalty ==
    ASSUME NEW l, Sound(l), NEW v \in DOMAIN l.bonds, NEW amount \in Nat, NEW ep \in Nat,
           NEW e, e \notin l.evidence, NEW proof, proof = [w \in {v} |-> e],
           NEW m, m = AfterSlash(l, amount, ep, proof)
    PROVE  /\ Sound(m) /\ Fined(l, m)
           /\ Delayed(l) => Delayed(m)
           /\ \A D : Debited(l, D) => Debited(m, D)
           /\ Announced(l) => Announced(m)
           /\ Balanced(l) => Balanced(m)
           /\ Cut(l, m, {v}, amount)
           /\ Accused(l, m, {e})
<1>1. DOMAIN proof = {v} /\ DOMAIN proof \in SUBSET DOMAIN l.bonds
  OBVIOUS
<1>2. Proofs(proof) = {e}
  BY DEF Proofs
<1>3. Apart(Proofs(proof), l.evidence)
  BY <1>2 DEF Apart
<1>4. /\ Sound(m)
      /\ Delayed(l) => Delayed(m)
      /\ \A D : Debited(l, D) => Debited(m, D)
      /\ Announced(l) => Announced(m)
      /\ Balanced(l) => Balanced(m)
      /\ Fined(l, m)
      /\ Cut(l, m, DOMAIN proof, amount)
      /\ Accused(l, m, Proofs(proof))
  BY <1>1, <1>3, SlashKeeps
<1> QED
  BY <1>1, <1>2, <1>4

\* slash, before or after the epoch of the evidence: the ledger acts in both
\* cases, the membership only in the first.
LEMMA SlashStep ==
    ASSUME CoreInv, NEW v \in Validator, NEW ep \in Nat, NEW n, NEW amount \in Nat,
           Slash(v, ep, n, amount) \/ SlashFromFuture(v, ep, n, amount)
    PROVE  /\ CoreInv' /\ Fined(ledger, ledger')
           /\ DOMAIN records' = DOMAIN records /\ deposits' = deposits
           /\ \A w \in DOMAIN records : /\ records'[w].locked = records[w].locked
                                        /\ w # v => records'[w] = records[w]
           /\ records'[v] = records[v] \/ (records'[v].active => records[v].stake > amount)
           /\ v \in DOMAIN records
           /\ Announced(ledger) => Announced(ledger')
           /\ Balanced(ledger) => Balanced(ledger')
           /\ \A x : x \in ledger'.evidence =>
                 x \in ledger.evidence \/ x = Evidence("EQUIVOCATION", ep, n, v)
<1> DEFINE e == Evidence("EQUIVOCATION", ep, n, v)
           down == records[v].jailed
<1>1. /\ e \notin slashed /\ v \in DOMAIN records
      /\ e \notin ledger.evidence /\ v \in DOMAIN ledger.bonds
      /\ ledger' = AfterSlash(ledger, amount, ep, [w \in {v} |-> e])
      /\ UNCHANGED <<deposits, epoch, beacon>>
  BY DEF Slash, SlashFromFuture, MayPunish, MaySlash
<1>2. \/ records' = records /\ slashed' = slashed
      \/ /\ records' = [records EXCEPT ![v] = Reduced(records[v], amount, ~down)]
         /\ slashed' = slashed \cup {e}
  BY DEF Slash, SlashFromFuture
<1>3. Sound(ledger) /\ Delayed(ledger) /\ Debited(ledger, deposits) /\ BeaconInv /\ RecordsInv
  BY DEF CoreInv
<1> DEFINE proof == [w \in {v} |-> e]
<1>3b. proof = [w \in {v} |-> e] /\ ledger' = AfterSlash(ledger, amount, ep, proof)
  BY <1>1
<1> HIDE DEF e, proof
<1>4a. /\ Sound(ledger') /\ Fined(ledger, ledger')
       /\ Delayed(ledger) => Delayed(ledger')
       /\ \A D : Debited(ledger, D) => Debited(ledger', D)
       /\ Announced(ledger) => Announced(ledger')
       /\ Balanced(ledger) => Balanced(ledger')
       /\ Cut(ledger, ledger', {v}, amount)
       /\ Accused(ledger, ledger', {e})
  BY <1>1, <1>3, <1>3b, OnePenalty
<1>4b. \A w \in DOMAIN ledger.bonds :
         ledger'.bonds[w].amount =
            IF w = v THEN ledger.bonds[v].amount - Least(amount, ledger.bonds[v].amount)
            ELSE ledger.bonds[w].amount
  BY <1>4a DEF Cut
<1>4c. \A x : x \in ledger'.evidence <=> x \in ledger.evidence \/ x = e
  BY <1>4a DEF Accused
<1>4. /\ Sound(ledger') /\ Fined(ledger, ledger')
      /\ Delayed(ledger) => Delayed(ledger')
      /\ \A D : Debited(ledger, D) => Debited(ledger', D)
      /\ Announced(ledger) => Announced(ledger')
      /\ Balanced(ledger) => Balanced(ledger')
      /\ \A w \in DOMAIN ledger.bonds :
            ledger'.bonds[w].amount =
               IF w = v THEN ledger.bonds[v].amount - Least(amount, ledger.bonds[v].amount)
               ELSE ledger.bonds[w].amount
      /\ \A x : x \in ledger'.evidence <=> x \in ledger.evidence \/ x = e
  BY <1>4a, <1>4b, <1>4c
<1>5. BeaconInv'
  <2>1. slashed' \subseteq ledger'.evidence
    BY <1>2, <1>3, <1>4 DEF BeaconInv
  <2> QED
    BY <1>1, <1>3, <2>1 DEF BeaconInv, beacon
<1>6. records[v] \in Record /\ down \in BOOLEAN
  BY <1>1, <1>3 DEF RecordsInv, Record
<1> DEFINE rec == Reduced(records[v], amount, ~down)
<1>7. /\ rec \in Record /\ rec.locked = records[v].locked
      /\ rec.stake = Greatest(0, records[v].stake - amount)
      /\ rec.active => records[v].stake > amount
  <2>1. (~down) \in BOOLEAN
    OBVIOUS
  <2> HIDE DEF down
  <2> QED
    BY <1>6, <2>1, ReducedRecord
<1> HIDE DEF rec, down
<1>8. \/ records' = records
      \/ /\ DOMAIN records' = DOMAIN records /\ records'[v] = rec
         /\ \A w \in DOMAIN records : w # v => records'[w] = records[w]
  BY <1>1, <1>2 DEF rec
<1>9. RecordsInv'
  <2>1. \A w \in DOMAIN ledger.bonds : ledger.bonds[w].amount \in Nat
    BY <1>3 DEF Sound, Position
  <2>2. DOMAIN records' = DOMAIN records /\ DOMAIN ledger'.bonds = DOMAIN ledger.bonds
    BY <1>4, <1>8 DEF Fined
  <2>3. \A w \in DOMAIN records' : records'[w] \in Record
    BY <1>3, <1>7, <1>8, <2>2 DEF RecordsInv
  <2>4. ASSUME NEW w \in DOMAIN records', w \in DOMAIN ledger'.bonds
        PROVE  ledger'.bonds[w].amount <= records'[w].stake
    <3>1. /\ ledger.bonds[w].amount <= records[w].stake /\ records[w].stake \in Nat
          /\ ledger.bonds[w].amount \in Nat
      BY <1>3, <2>1, <2>2, <2>4 DEF RecordsInv, Record
    <3>2. CASE w = v
      <4>1. ledger'.bonds[v].amount = ledger.bonds[v].amount - Least(amount, ledger.bonds[v].amount)
        BY <1>1, <1>4
      <4>2. records'[v].stake = records[v].stake \/ records'[v].stake = Greatest(0, records[v].stake - amount)
        BY <1>7, <1>8
      <4> QED
        BY <3>1, <3>2, <4>1, <4>2 DEF Least, Greatest
    <3>3. CASE w # v
      <4>1. ledger'.bonds[w].amount = ledger.bonds[w].amount /\ records'[w] = records[w]
        BY <1>4, <1>8, <2>2, <2>4, <3>3
      <4> QED
        BY <3>1, <4>1
    <3> QED
      BY <3>2, <3>3
  <2>5. deposits' \subseteq Validator /\ DOMAIN records' \subseteq deposits'
    BY <1>1, <1>3, <2>2 DEF RecordsInv
  <2> QED
    BY <2>3, <2>4, <2>5 DEF RecordsInv
<1>10. CoreInv'
  BY <1>1, <1>3, <1>4, <1>5, <1>9 DEF CoreInv
<1>11. records'[v] = records[v] \/ (records'[v].active => records[v].stake > amount)
  BY <1>7, <1>8
<1>12. /\ DOMAIN records' = DOMAIN records
       /\ \A w \in DOMAIN records : /\ records'[w].locked = records[w].locked
                                    /\ w # v => records'[w] = records[w]
  BY <1>7, <1>8
<1>13. \A x : x \in ledger'.evidence =>
             x \in ledger.evidence \/ x = Evidence("EQUIVOCATION", ep, n, v)
  BY <1>4 DEF e
<1> QED
  BY <1>1, <1>4, <1>10, <1>11, <1>12, <1>13

\* fund, charge_fee and the passing of an epoch touch neither bonds nor records.
LEMMA OtherStep ==
    ASSUME CoreInv,
           \/ AdvanceEpoch
           \/ \E d \in Donation : FundAccount(d)
           \/ \E f \in Fee : ChargeFee(f)
    PROVE  /\ CoreInv'
           /\ ledger'.bonds = ledger.bonds
           /\ ledger'.evidence = ledger.evidence /\ ledger'.epochs = ledger.epochs
           /\ UNCHANGED <<records, deposits, settled>>
           /\ Announced(ledger) => Announced(ledger')
           /\ Balanced(ledger) => Balanced(ledger')
           /\ \A e \in ledger'.events : e[1] = "REWARD" => e \in ledger.events
<1>1. Sound(ledger) /\ Delayed(ledger) /\ Debited(ledger, deposits) /\ BeaconInv /\ RecordsInv
  BY DEF CoreInv
<1>2. CASE AdvanceEpoch
  <2>1. epoch < MaxEpoch /\ epoch' = epoch + 1 /\ UNCHANGED <<ledger, records, deposits, slashed, beacon>>
    BY <1>2 DEF AdvanceEpoch
  <2>2. BeaconInv'
    BY <1>1, <2>1, EpochNat, MembershipAssumption DEF BeaconInv, beacon
  <2>3. CoreInv'
    BY <2>1, <2>2, CoreUnchanged
  <2> QED
    BY <2>1, <2>3 DEF beacon
<1>3. CASE \E d \in Donation : FundAccount(d)
  <2>1. PICK d \in Donation : FundAccount(d)
    BY <1>3
  <2> DEFINE a == d[1]
             n == d[2]
             source == d[3]
  <2>2. /\ MayFund(ledger, a, n, source) /\ ledger' = AfterFund(ledger, a, n, source)
        /\ UNCHANGED <<records, deposits, slashed, epoch, beacon>>
        /\ a \in Account /\ n \in Nat
    BY <2>1, MembershipAssumption DEF FundAccount
  <2> HIDE DEF a, n, source
  <2>3. /\ Sound(ledger')
        /\ Delayed(ledger) => Delayed(ledger')
        /\ \A D : Debited(ledger, D) => Debited(ledger', D)
        /\ Announced(ledger) => Announced(ledger')
        /\ Balanced(ledger) => Balanced(ledger')
        /\ ledger'.bonds = ledger.bonds
        /\ ledger'.evidence = ledger.evidence /\ ledger'.epochs = ledger.epochs
        /\ \A e \in ledger'.events : e[1] = "REWARD" => e \in ledger.events
    BY <1>1, <2>2, FundKeeps
  <2>4. BeaconInv' /\ RecordsInv'
    BY <1>1, <2>2, <2>3 DEF BeaconInv, RecordsInv, beacon
  <2>5. CoreInv'
    BY <1>1, <2>2, <2>3, <2>4 DEF CoreInv
  <2> QED
    BY <2>2, <2>3, <2>5 DEF beacon
<1>4. CASE \E f \in Fee : ChargeFee(f)
  <2>1. PICK f \in Fee : ChargeFee(f)
    BY <1>4
  <2> DEFINE a == f[1]
             n == f[2]
             tx == f[3]
  <2>2. /\ MayChargeFee(ledger, a, n) /\ ledger' = AfterFee(ledger, a, n, epoch, tx)
        /\ UNCHANGED <<records, deposits, slashed, epoch, beacon>>
        /\ a \in Account /\ n \in Nat /\ epoch \in Nat
    BY <1>1, <2>1, EpochNat, MembershipAssumption DEF ChargeFee
  <2> HIDE DEF a, n, tx
  <2>3. /\ Sound(ledger')
        /\ Delayed(ledger) => Delayed(ledger')
        /\ \A D : Debited(ledger, D) => Debited(ledger', D)
        /\ Announced(ledger) => Announced(ledger')
        /\ Balanced(ledger) => Balanced(ledger')
        /\ ledger'.bonds = ledger.bonds
        /\ ledger'.evidence = ledger.evidence /\ ledger'.epochs = ledger.epochs
        /\ \A e \in ledger'.events : e[1] = "REWARD" => e \in ledger.events
    BY <1>1, <2>2, FeeKeeps
  <2>4. BeaconInv' /\ RecordsInv'
    BY <1>1, <2>2, <2>3 DEF BeaconInv, RecordsInv, beacon
  <2>5. CoreInv'
    BY <1>1, <2>2, <2>3, <2>4 DEF CoreInv
  <2> QED
    BY <2>2, <2>3, <2>5 DEF beacon
<1> QED
  BY <1>2, <1>3, <1>4

\* Commitments and reveals change nothing else.
LEMMA BeaconStep ==
    ASSUME CoreInv,
           \/ \E v \in Validator, r \in Round : SubmitCommitment(v, r)
           \/ \E c \in commitments : SubmitReveal(c)
    PROVE  /\ CoreInv'
           /\ UNCHANGED <<ledger, records, deposits, epoch, settled>>
<1>1. BeaconInv
  BY DEF CoreInv
<1>2. UNCHANGED <<ledger, records, deposits, slashed, epoch, settled>>
  BY DEF SubmitCommitment, SubmitReveal
<1>3. /\ commitments' \subseteq (0 .. MaxEpoch) \X Round \X Validator
      /\ reveals' \subseteq commitments'
  <2>1. ASSUME NEW v \in Validator, NEW r \in Round, SubmitCommitment(v, r)
        PROVE  /\ commitments' \subseteq (0 .. MaxEpoch) \X Round \X Validator
               /\ reveals' \subseteq commitments'
    BY <1>1, <2>1 DEF SubmitCommitment, BeaconInv
  <2>2. ASSUME NEW c \in commitments, SubmitReveal(c)
        PROVE  /\ commitments' \subseteq (0 .. MaxEpoch) \X Round \X Validator
               /\ reveals' \subseteq commitments'
    BY <1>1, <2>2 DEF SubmitReveal, BeaconInv
  <2> QED
    BY <2>1, <2>2
<1>4. BeaconInv'
  BY <1>1, <1>2, <1>3 DEF BeaconInv
<1> QED
  BY <1>2, <1>4, CoreUnchanged

\* What a settlement pays and remembers, when it rewards bonds the ledger has.
Rewarded(l, m, key, bonds) ==
    bonds \subseteq DOMAIN l.bonds /\ Announced(l) =>
        /\ Announced(m)
        /\ Balanced(l) => Balanced(m)
        /\ Earned(l) => Earned(m)
        /\ m.epochs \subseteq l.epochs \cup {key}

\* Rewards that are not in l are for key, and to bonds.
NewRewards(l, m, key, bonds) ==
    \A e \in m.events : e[1] = "REWARD" => e \in l.events \/ (e[2] = key /\ e[3] \in bonds)

\* The bonds of m are those of l, but for their amounts.
SameTerms(l, m) ==
    /\ DOMAIN m.bonds = DOMAIN l.bonds
    /\ \A v \in DOMAIN l.bonds : /\ m.bonds[v].unbonding = l.bonds[v].unbonding
                                 /\ m.bonds[v].unlock = l.bonds[v].unlock

\* The evidence a round leaves against S.
Charges(r, S) == {NonReveal(epoch, r, v) : v \in S}

\* Who is penalised or rewarded for a round is a validator with a record.
LEMMA RoundMembers ==
    ASSUME CoreInv, NEW r, NEW reward, NEW penalty \in Nat, MayFinalize(r, reward)
    PROVE  /\ In(commitments, r) \subseteq DOMAIN records
           /\ In(reveals, r) \subseteq In(commitments, r)
           /\ In(reveals, r) \in SUBSET Validator
           /\ Silent(r, penalty) \subseteq In(commitments, r)
           /\ Punished(r, penalty) \subseteq Silent(r, penalty)
           /\ \A v \in Punished(r, penalty) : /\ v \in DOMAIN ledger.bonds
                                              /\ NonReveal(epoch, r, v) \notin ledger.evidence
           /\ \A v \in Silent(r, penalty) : v \notin In(reveals, r)
<1>1. In(commitments, r) \subseteq Snapshot
  BY DEF MayFinalize
<1>2. In(commitments, r) \subseteq DOMAIN records
  BY <1>1 DEF Snapshot
<1>3. reveals \subseteq commitments
  BY DEF CoreInv, BeaconInv
<1>4. In(reveals, r) \subseteq In(commitments, r) /\ In(reveals, r) \in SUBSET Validator
  BY <1>3 DEF In
<1>5. /\ Silent(r, penalty) \subseteq In(commitments, r)
      /\ \A v \in Silent(r, penalty) : v \notin In(reveals, r)
  BY DEF Silent
<1>6. In(commitments, r) \subseteq Nat
  BY SettlementAssumption DEF In
<1>7. ASSUME NEW v \in Punished(r, penalty)
      PROVE  /\ v \in DOMAIN ledger.bonds /\ v \in Silent(r, penalty)
             /\ NonReveal(epoch, r, v) \notin ledger.evidence
  <2>1. /\ v \in Silent(r, penalty)
        /\ \A w \in Silent(r, penalty) : w <= v => MaySlash(ledger, w, penalty, NonReveal(epoch, r, w))
    BY DEF Punished
  <2>2. v <= v
    BY <1>5, <1>6, <2>1
  <2>3. MaySlash(ledger, v, penalty, NonReveal(epoch, r, v))
    BY <2>1, <2>2
  <2> QED
    BY <2>1, <2>3 DEF MaySlash
<1> QED
  BY <1>2, <1>4, <1>5, <1>7

\* The ledger after settle_round.
LEMMA SettledLedger ==
    ASSUME NEW l, Sound(l), NEW ep \in Nat, NEW penalty \in Nat, NEW proof, Apart(Proofs(proof), l.evidence),
           DOMAIN proof \in SUBSET DOMAIN l.bonds,
           NEW fined, fined = AfterSlash(l, penalty, ep, proof),
           NEW key \in Nat, NEW total \in Nat, NEW bonds \in SUBSET Validator,
           NEW m, m = fined \/ (MayReward(fined, key, total, bonds)
                                 /\ m = AfterReward(fined, key, total, bonds))
    PROVE  /\ Sound(m)
           /\ Delayed(l) => Delayed(m)
           /\ \A D : Debited(l, D) => Debited(m, D)
           /\ SameTerms(l, m)
           /\ Cut(l, m, DOMAIN proof, penalty)
           /\ Accused(l, m, Proofs(proof))
           /\ NewRewards(l, m, key, bonds)
           /\ Rewarded(l, m, key, bonds)
<1>1. /\ Sound(fined)
      /\ Delayed(l) => Delayed(fined)
      /\ \A D : Debited(l, D) => Debited(fined, D)
      /\ Announced(l) => Announced(fined)
      /\ Balanced(l) => Balanced(fined)
      /\ Earned(l) => Earned(fined)
      /\ Fined(l, fined)
      /\ Cut(l, fined, DOMAIN proof, penalty)
      /\ Accused(l, fined, Proofs(proof))
  BY SlashKeeps
<1>2. /\ DOMAIN fined.bonds = DOMAIN l.bonds /\ fined.epochs = l.epochs
      /\ \A v \in DOMAIN l.bonds : /\ fined.bonds[v].unbonding = l.bonds[v].unbonding
                                   /\ fined.bonds[v].unlock = l.bonds[v].unlock
      /\ \A e \in fined.events : e[1] = "REWARD" => e \in l.events
  BY <1>1 DEF Fined
<1>3. CASE m = fined
  <2>1. SameTerms(l, m) /\ NewRewards(l, m, key, bonds)
    BY <1>2, <1>3 DEF SameTerms, NewRewards
  <2>2. Rewarded(l, m, key, bonds)
    BY <1>1, <1>2, <1>3 DEF Rewarded
  <2> QED
    BY <1>1, <1>3, <2>1, <2>2
<1>4. CASE MayReward(fined, key, total, bonds) /\ m = AfterReward(fined, key, total, bonds)
  <2>1. /\ Sound(m)
        /\ Delayed(fined) => Delayed(m)
        /\ \A D : Debited(fined, D) => Debited(m, D)
        /\ m.bonds = fined.bonds /\ m.evidence = fined.evidence
        /\ \A e \in m.events : e[1] = "REWARD" =>
              e \in fined.events \/ (e[2] = key /\ e[3] \in bonds)
        /\ bonds \subseteq DOMAIN fined.bonds /\ Announced(fined) =>
              /\ Announced(m)
              /\ Balanced(fined) => Balanced(m)
              /\ Earned(fined) => Earned(m)
              /\ m.epochs = fined.epochs \cup {key}
    BY <1>1, <1>4, RewardKeeps
  <2>2. SameTerms(l, m) /\ NewRewards(l, m, key, bonds)
    BY <1>2, <2>1 DEF SameTerms, NewRewards
  <2>3. Cut(l, m, DOMAIN proof, penalty) /\ Accused(l, m, Proofs(proof))
    BY <1>1, <2>1 DEF Cut, Accused
  <2>4. Rewarded(l, m, key, bonds)
    BY <1>1, <1>2, <2>1 DEF Rewarded
  <2> QED
    BY <1>1, <2>1, <2>2, <2>3, <2>4
<1> QED
  BY <1>3, <1>4

\* finalize and settle_round, wherever they stop.
LEMMA FinalizeStep ==
    ASSUME CoreInv, NEW r \in Round, NEW reward \in Reward, NEW penalty \in RevealPenalty,
           Finalize(r, reward, penalty)
    PROVE  /\ CoreInv'
           /\ deposits' = deposits
           /\ DOMAIN records' = DOMAIN records
           /\ \A w \in DOMAIN records : /\ records'[w].locked = records[w].locked
                                        /\ records'[w].active => records[w].active
           /\ In(reveals, r) \subseteq DOMAIN records
           /\ SameTerms(ledger, ledger')
           /\ Accused(ledger, ledger', Charges(r, Punished(r, penalty)))
           /\ NewRewards(ledger, ledger', RewardKey(epoch, r), In(reveals, r))
           /\ Rewarded(ledger, ledger', RewardKey(epoch, r), In(reveals, r))
<1> DEFINE P == Punished(r, penalty)
           proof == [v \in P |-> NonReveal(epoch, r, v)]
           fined == AfterSlash(ledger, penalty, epoch, proof)
           B == In(reveals, r)
           total == reward * Cardinality(B)
           key == RewardKey(epoch, r)
<1>1. /\ MayFinalize(r, reward)
      /\ \/ ledger' = fined
         \/ MayReward(fined, key, total, B) /\ ledger' = AfterReward(fined, key, total, B)
      /\ records' = [v \in DOMAIN records |->
                       IF v \in P THEN Reduced(records[v], penalty, records[v].active)
                       ELSE records[v]]
      /\ UNCHANGED <<deposits, slashed, epoch, commitments, reveals>>
      /\ settled' = settled \/ settled' = settled \cup {<<epoch, r>>}
  BY DEF Finalize, SettleRound, PenalizeNonReveal
<1>2. Sound(ledger) /\ Delayed(ledger) /\ Debited(ledger, deposits) /\ BeaconInv /\ RecordsInv
  BY DEF CoreInv
<1>3. penalty \in Nat /\ reward \in Nat /\ r \in Nat /\ epoch \in Nat
  BY <1>2, EpochNat, MembershipAssumption
<1>4. /\ In(commitments, r) \subseteq DOMAIN records
      /\ B \subseteq In(commitments, r) /\ B \in SUBSET Validator
      /\ P \subseteq Silent(r, penalty) /\ Silent(r, penalty) \subseteq In(commitments, r)
      /\ \A v \in P : v \in DOMAIN ledger.bonds /\ NonReveal(epoch, r, v) \notin ledger.evidence
  BY <1>1, <1>3, RoundMembers
<1>5. DOMAIN proof = P /\ Proofs(proof) = Charges(r, P)
  BY DEF Proofs, Charges
<1>6. DOMAIN proof \in SUBSET DOMAIN ledger.bonds /\ Apart(Proofs(proof), ledger.evidence)
  <2>1. \A x \in Charges(r, P) : x \notin ledger.evidence
    BY <1>4 DEF Charges
  <2> QED
    BY <1>4, <1>5, <2>1 DEF Apart
<1>7. total \in Nat /\ key \in Nat
  <2>1. IsFiniteSet(B)
    BY <1>4, SettlementAssumption, FS_Subset
  <2>2. Cardinality(B) \in Nat
    BY <2>1, FS_CardinalityType
  <2> HIDE DEF B
  <2> QED
    BY <1>3, <2>2 DEF RewardKey
<1> HIDE DEF proof, P, B, total, key
<1>8. fined = AfterSlash(ledger, penalty, epoch, proof)
  OBVIOUS
<1> HIDE DEF fined
<1>9. /\ Sound(ledger')
      /\ Delayed(ledger) => Delayed(ledger')
      /\ \A D : Debited(ledger, D) => Debited(ledger', D)
      /\ SameTerms(ledger, ledger')
      /\ Cut(ledger, ledger', DOMAIN proof, penalty)
      /\ Accused(ledger, ledger', Proofs(proof))
      /\ NewRewards(ledger, ledger', key, B)
      /\ Rewarded(ledger, ledger', key, B)
  BY <1>1, <1>2, <1>3, <1>4, <1>6, <1>7, <1>8, SettledLedger
<1>10. BeaconInv'
  <2>1. slashed' \subseteq ledger'.evidence
    BY <1>1, <1>2, <1>9 DEF BeaconInv, Accused
  <2>2. settled' \subseteq (0 .. MaxEpoch) \X Round
    BY <1>1, <1>2 DEF BeaconInv
  <2> QED
    BY <1>1, <1>2, <2>1, <2>2 DEF BeaconInv
<1>11. ASSUME NEW v \in DOMAIN records
       PROVE  /\ records'[v] \in Record
              /\ records'[v].locked = records[v].locked
              /\ records'[v].active => records[v].active
              /\ records'[v].stake = IF v \in P THEN Greatest(0, records[v].stake - penalty)
                                     ELSE records[v].stake
  <2>1. records[v] \in Record
    BY <1>2 DEF RecordsInv
  <2>2. CASE v \in P
    <3>1. records'[v] = Reduced(records[v], penalty, records[v].active)
      BY <1>1, <2>2
    <3>2. records[v].active \in BOOLEAN
      BY <2>1 DEF Record
    <3> QED
      BY <1>3, <2>1, <2>2, <3>1, <3>2, ReducedRecord
  <2>3. CASE v \notin P
    BY <1>1, <2>1, <2>3
  <2> QED
    BY <2>2, <2>3
<1>12. RecordsInv'
  <2>1. DOMAIN records' = DOMAIN records /\ DOMAIN ledger'.bonds = DOMAIN ledger.bonds
    BY <1>1, <1>9 DEF SameTerms
  <2>2. ASSUME NEW v \in DOMAIN records', v \in DOMAIN ledger'.bonds
        PROVE  ledger'.bonds[v].amount <= records'[v].stake
    <3>1. /\ ledger.bonds[v].amount <= records[v].stake /\ records[v].stake \in Nat
          /\ ledger.bonds[v].amount \in Nat
      BY <1>2, <2>1, <2>2 DEF RecordsInv, Record, Sound, Position
    <3>2. ledger'.bonds[v].amount =
             IF v \in P THEN ledger.bonds[v].amount - Least(penalty, ledger.bonds[v].amount)
             ELSE ledger.bonds[v].amount
      BY <1>5, <1>9, <2>1, <2>2 DEF Cut
    <3> QED
      BY <1>3, <1>11, <2>1, <3>1, <3>2 DEF Least, Greatest
  <2>3. deposits' \subseteq Validator /\ DOMAIN records' \subseteq deposits'
    BY <1>1, <1>2, <2>1 DEF RecordsInv
  <2>4. \A v \in DOMAIN records' : records'[v] \in Record
    BY <1>11, <2>1
  <2> QED
    BY <2>2, <2>3, <2>4 DEF RecordsInv
<1>13. CoreInv'
  BY <1>1, <1>2, <1>9, <1>10, <1>12 DEF CoreInv
<1>14. B \subseteq DOMAIN records
  BY <1>4
<1>15. DOMAIN records' = DOMAIN records
  BY <1>1
<1> QED
  BY <1>1, <1>5, <1>9, <1>11, <1>13, <1>14, <1>15 DEF P, B, key

\* Evidence that is handed to slash, and what it may cost.
LEMMA ClaimTypes ==
    ASSUME CoreInv, NEW c \in Claim, c[1] \in DOMAIN records, NEW amount \in Penalties(c[1])
    PROVE  c[1] \in Validator /\ c[2] \in Nat /\ amount \in Nat
<1>1. c[1] \in Validator /\ c[2] \in Nat
  BY MembershipAssumption
<1>2. records[c[1]].stake \in Nat
  BY DEF CoreInv, RecordsInv, Record
<1> QED
  BY <1>1, <1>2, MembershipAssumption DEF Penalties

\* Every step without a store keeps the ledger and the records sound, and bonds
\* nobody without a record.
LEMMA CoreStep ==
    ASSUME CoreInv, Next
    PROVE  /\ CoreInv'
           /\ DOMAIN ledger.bonds \subseteq DOMAIN records =>
                 DOMAIN ledger'.bonds \subseteq DOMAIN records'
<1>1. ASSUME NEW v \in Validator, Admit(v)
      PROVE  /\ CoreInv'
             /\ DOMAIN ledger'.bonds = DOMAIN ledger.bonds \cup {v}
             /\ DOMAIN records' = DOMAIN records \cup {v}
  BY <1>1, AdmitStep
<1>2. ASSUME NEW v \in Validator, Exit(v)
      PROVE  /\ CoreInv'
             /\ DOMAIN ledger'.bonds = DOMAIN ledger.bonds /\ DOMAIN records' = DOMAIN records
  BY <1>2, ExitStep
<1>3. ASSUME NEW v \in Validator, Withdraw(v)
      PROVE  /\ CoreInv'
             /\ DOMAIN ledger'.bonds = DOMAIN ledger.bonds \ {v}
             /\ DOMAIN records \ {v} \subseteq DOMAIN records'
  <2>1. /\ CoreInv'
        /\ DOMAIN ledger'.bonds = DOMAIN ledger.bonds \ {v}
        /\ DOMAIN records' = IF records[v].active \/ epoch < records[v].locked
                             THEN DOMAIN records ELSE DOMAIN records \ {v}
    BY <1>3, WithdrawStep
  <2> QED
    BY <2>1
<1>4. ASSUME NEW c \in Claim, c[1] \in DOMAIN records, NEW amount \in Penalties(c[1]),
             Slash(c[1], c[2], c[3], amount) \/ SlashFromFuture(c[1], c[2], c[3], amount)
      PROVE  /\ CoreInv'
             /\ DOMAIN ledger'.bonds = DOMAIN ledger.bonds /\ DOMAIN records' = DOMAIN records
  <2> DEFINE v == c[1]
             ep == c[2]
             n == c[3]
  <2>1. v \in Validator /\ ep \in Nat /\ amount \in Nat
    BY <1>4, ClaimTypes
  <2>2. Slash(v, ep, n, amount) \/ SlashFromFuture(v, ep, n, amount)
    BY <1>4
  <2> HIDE DEF v, ep, n
  <2>3. CoreInv' /\ Fined(ledger, ledger') /\ DOMAIN records' = DOMAIN records
    BY <2>1, <2>2, SlashStep
  <2> QED
    BY <2>3 DEF Fined
<1>5. ASSUME \/ AdvanceEpoch
             \/ \E d \in Donation : FundAccount(d)
             \/ \E f \in Fee : ChargeFee(f)
      PROVE  CoreInv' /\ ledger'.bonds = ledger.bonds /\ UNCHANGED records
  BY <1>5, OtherStep
<1>6. ASSUME \/ \E v \in Validator, r \in Round : SubmitCommitment(v, r)
             \/ \E c \in commitments : SubmitReveal(c)
      PROVE  CoreInv' /\ UNCHANGED <<ledger, records>>
  BY <1>6, BeaconStep
<1>7. ASSUME NEW r \in Round, NEW reward \in Reward, NEW penalty \in RevealPenalty,
             Finalize(r, reward, penalty)
      PROVE  /\ CoreInv'
             /\ DOMAIN ledger'.bonds = DOMAIN ledger.bonds /\ DOMAIN records' = DOMAIN records
  <2>1. CoreInv' /\ SameTerms(ledger, ledger') /\ DOMAIN records' = DOMAIN records
    BY <1>7, FinalizeStep
  <2> QED
    BY <2>1 DEF SameTerms
<1> QED
  <2>1. CASE \E v \in Validator : Admit(v) \/ Exit(v) \/ Withdraw(v)
    BY <2>1, <1>1, <1>2, <1>3
  <2>2. CASE \E c \in {d \in Claim : d[1] \in DOMAIN records} :
               \E amount \in Penalties(c[1]) :
                 Slash(c[1], c[2], c[3], amount) \/ SlashFromFuture(c[1], c[2], c[3], amount)
    BY <2>2, <1>4
  <2>3. CASE AdvanceEpoch \/ (\E d \in Donation : FundAccount(d)) \/ (\E f \in Fee : ChargeFee(f))
    BY <2>3, <1>5
  <2>4. CASE \/ \E v \in Validator, r \in Round : SubmitCommitment(v, r)
             \/ \E c \in commitments : SubmitReveal(c)
    BY <2>4, <1>6
  <2>5. CASE \E r \in Round, reward \in Reward, penalty \in RevealPenalty :
               Finalize(r, reward, penalty)
    BY <2>5, <1>7
  <2> QED
    BY <2>1, <2>2, <2>3, <2>4, <2>5 DEF Next

-----------------------------------------------------------------------------
(***************************************************************************)
(* The node: its two ledgers                                               *)
(***************************************************************************)

\* A ledger that a node may have, when D are the deposits used.
Kept(l, D) ==
    /\ Sound(l) /\ Delayed(l) /\ Debited(l, D)
    /\ Announced(l) /\ Balanced(l) /\ Earned(l)

\* A restart bonds nobody whose bond the ledger has.
LEMMA NobodyBonds ==
    ASSUME NEW l, NEW D, Kept(l, D), NEW S, S = {}, NEW m, m = AfterBond(l, S, 0)
    PROVE  Kept(m, D) /\ DOMAIN m.bonds = DOMAIN l.bonds
<1>1. /\ Sound(l) /\ Delayed(l) /\ Debited(l, D)
      /\ Announced(l) /\ Balanced(l) /\ Earned(l)
  BY DEF Kept
<1>2. /\ S \in SUBSET Validator /\ Apart(S, DOMAIN l.bonds) /\ Apart(S, D) /\ Joined(D, D, S)
      /\ \A v \in S : l.balances[v] >= Stake[v]
      /\ 0 \in Nat
  BY DEF Apart, Joined
<1>3. /\ Sound(m)
      /\ Delayed(l) => Delayed(m)
      /\ \A C, F : Apart(S, C) /\ Debited(l, C) /\ Joined(F, C, S) =>
                     Debited(m, C) /\ Debited(m, F)
      /\ Announced(l) => Announced(m)
      /\ Balanced(l) => Balanced(m)
      /\ Earned(l) => Earned(m)
      /\ Bonded(l, m, S)
  BY <1>1, <1>2, BondKeeps
<1>4. Debited(m, D)
  BY <1>1, <1>2, <1>3
<1>5. DOMAIN m.bonds = DOMAIN l.bonds
  BY <1>3 DEF Bonded
<1> QED
  BY <1>1, <1>3, <1>4, <1>5 DEF Kept

\* The bond of one more validator.
LEMMA OneBonds ==
    ASSUME NEW l, NEW D, Kept(l, D), NEW S \in SUBSET Validator, Apart(S, DOMAIN l.bonds), Apart(S, D),
           \A v \in S : l.balances[v] >= Stake[v], NEW ep \in Nat, NEW m, m = AfterBond(l, S, ep)
    PROVE  /\ Kept(m, D) /\ Kept(m, D \cup S)
           /\ Bonded(l, m, S)
<1>1. /\ Sound(l) /\ Delayed(l) /\ Debited(l, D)
      /\ Announced(l) /\ Balanced(l) /\ Earned(l)
  BY DEF Kept
<1> DEFINE E == D \cup S
<1>2. Joined(E, D, S)
  BY DEF Joined
<1> HIDE DEF E
<1>3. /\ Sound(m)
      /\ Delayed(l) => Delayed(m)
      /\ \A C, F : Apart(S, C) /\ Debited(l, C) /\ Joined(F, C, S) =>
                     Debited(m, C) /\ Debited(m, F)
      /\ Announced(l) => Announced(m)
      /\ Balanced(l) => Balanced(m)
      /\ Earned(l) => Earned(m)
      /\ Bonded(l, m, S)
  BY <1>1, BondKeeps
<1>4. Debited(m, D) /\ Debited(m, E)
  BY <1>1, <1>2, <1>3
<1>5. Kept(m, D) /\ Kept(m, E)
  BY <1>1, <1>3, <1>4 DEF Kept
<1> QED
  BY <1>3, <1>5 DEF E

\* load_node and restore_from_store, when every validator has its bond.
LEMMA LoadedStep ==
    ASSUME NEW l, NEW rows \in SUBSET Validator, Kept(l, GenesisValidator \cup rows),
           GenesisValidator \cup rows \subseteq DOMAIN l.bonds, Loaded(l, rows)
    PROVE  CoreInv' /\ StoreInv' /\ store' # NoStore
<1> DEFINE D == GenesisValidator \cup rows
           S == GenesisValidator \ DOMAIN l.bonds
<1>1. /\ ledger' = AfterBond(l, S, 0)
      /\ records' = [v \in D |-> NewRecord(v)]
      /\ deposits' = D
      /\ slashed' = {} /\ epoch' = 0
      /\ commitments' = {} /\ reveals' = {} /\ settled' = {}
      /\ store' = [ledger |-> ledger', rows |-> rows]
  BY DEF Loaded, WithGenesisBonds
<1>2. S = {} /\ Kept(l, D)
  OBVIOUS
<1>3. D \subseteq Validator /\ D \subseteq DOMAIN l.bonds
  BY OnboardingAssumption
<1> HIDE DEF S
<1>4. Kept(ledger', D) /\ DOMAIN ledger'.bonds = DOMAIN l.bonds
  BY <1>1, <1>2, NobodyBonds
<1> HIDE DEF D
<1>5. BeaconInv'
  BY <1>1, MembershipAssumption DEF BeaconInv
<1>6. RecordsInv'
  <2>1. DOMAIN records' = D /\ \A v \in D : records'[v] = NewRecord(v)
    BY <1>1
  <2>2. ASSUME NEW v \in D
        PROVE  NewRecord(v) \in Record /\ NewRecord(v).stake = Stake[v]
    BY <1>3, SettlementAssumption DEF NewRecord, Record
  <2>3. \A v \in DOMAIN ledger'.bonds : ledger'.bonds[v].amount <= Stake[v]
    BY <1>4 DEF Kept, Sound
  <2> QED
    BY <1>1, <1>3, <2>1, <2>2, <2>3 DEF RecordsInv
<1>7. CoreInv'
  BY <1>1, <1>4, <1>5, <1>6 DEF CoreInv, Kept
<1>8. /\ DOMAIN store' = {"ledger", "rows"} /\ store'.ledger = ledger' /\ store'.rows = rows
      /\ store' # NoStore
  <2>1. /\ DOMAIN store' = {"ledger", "rows"} /\ store'.ledger = ledger' /\ store'.rows = rows
    BY <1>1
  <2>2. DOMAIN NoStore = {} /\ "rows" \in {"ledger", "rows"}
    BY DEF NoStore
  <2> QED
    BY <2>1, <2>2
<1>9. NodeLedger(ledger)'
  BY <1>1, <1>4 DEF NodeLedger, Kept
<1>10. NodeLedger(store.ledger)'
  BY <1>8, <1>9 DEF NodeLedger
<1>11. DOMAIN records' = GenesisValidator \cup rows /\ deposits' = DOMAIN records'
  BY <1>1 DEF D
<1>12. DOMAIN records' \subseteq DOMAIN ledger'.bonds
  BY <1>1, <1>3, <1>4
<1> QED
  BY <1>7, <1>8, <1>9, <1>10, <1>11, <1>12 DEF StoreInv

\* Both ways to start.
LEMMA KeptInit ==
    ASSUME InitAny
    PROVE  KeptInv
<1>1. restarts = 0
  BY DEF InitAny
<1>2. CASE Init /\ store = NoStore
  <2>1. /\ ledger = GenesisLedger(Genesis) /\ records = <<>> /\ deposits = {} /\ slashed = {}
        /\ epoch = 0 /\ commitments = {} /\ reveals = {} /\ settled = {}
    BY <1>2 DEF Init
  <2>2. /\ Sound(ledger) /\ Delayed(ledger) /\ Debited(ledger, {})
        /\ DOMAIN ledger.bonds = {} /\ ledger.evidence = {}
    BY <2>1, GenesisSound
  <2>3. DOMAIN records = {}
    BY <2>1
  <2>4. BeaconInv /\ RecordsInv
    BY <2>1, <2>3, MembershipAssumption DEF BeaconInv, RecordsInv
  <2> QED
    BY <1>1, <1>2, <2>1, <2>2, <2>3, <2>4 DEF KeptInv, CoreInv, StoreInv
<1>3. CASE InitNode
  <2> DEFINE S == GenesisValidator
             g == GenesisLedger(Genesis)
             E == {} \cup S
  <2>0. g = GenesisLedger(Genesis)
    OBVIOUS
  <2> HIDE DEF g
  <2>1. /\ Kept(g, {}) /\ g.balances = Genesis /\ DOMAIN g.bonds = {}
    BY <2>0, GenesisSound DEF Kept
  <2>2. /\ ledger = AfterBond(g, S, 0)
        /\ records = [v \in GenesisValidator |-> NewRecord(v)]
        /\ deposits = GenesisValidator
        /\ slashed = {} /\ epoch = 0 /\ commitments = {} /\ reveals = {} /\ settled = {}
        /\ store = [ledger |-> ledger, rows |-> {}]
    <3>1. GenesisValidator \ DOMAIN g.bonds = S
      BY <2>1
    <3> QED
      BY <1>3, <2>0, <3>1 DEF InitNode, WithGenesisBonds
  <2>3. /\ S \in SUBSET Validator /\ Apart(S, DOMAIN g.bonds) /\ Apart(S, {})
        /\ \A v \in S : g.balances[v] >= Stake[v]
        /\ 0 \in Nat
    BY <2>1, OnboardingAssumption DEF Apart
  <2>4. Kept(ledger, {} \cup S) /\ Bonded(g, ledger, S)
    <3> HIDE DEF S
    <3> QED
      BY <2>1, <2>2, <2>3, OneBonds
  <2>5. Kept(ledger, GenesisValidator) /\ DOMAIN ledger.bonds = GenesisValidator
    <3>1. {} \cup S = GenesisValidator
      OBVIOUS
    <3> QED
      BY <2>1, <2>4, <3>1 DEF Bonded
  <2>6. BeaconInv
    BY <2>2, MembershipAssumption DEF BeaconInv
  <2>7. DOMAIN records = GenesisValidator
    BY <2>2
  <2>8. RecordsInv
    <3>1. ASSUME NEW v \in GenesisValidator
          PROVE  /\ records[v] \in Record /\ records[v].stake = Stake[v]
                 /\ ledger.bonds[v].amount <= Stake[v]
      <4>1. NewRecord(v) \in Record /\ NewRecord(v).stake = Stake[v]
        BY OnboardingAssumption, SettlementAssumption DEF NewRecord, Record
      <4>2. ledger.bonds[v].amount <= Stake[v]
        BY <2>5 DEF Kept, Sound
      <4> QED
        BY <2>2, <4>1, <4>2
    <3> QED
      BY <2>2, <2>7, <3>1, OnboardingAssumption DEF RecordsInv
  <2>9. DOMAIN store = {"ledger", "rows"} /\ store.ledger = ledger /\ store.rows = {}
    BY <2>2
  <2>10. store # NoStore
    <3>1. DOMAIN NoStore = {} /\ "rows" \in DOMAIN store
      BY <2>9 DEF NoStore
    <3> QED
      BY <3>1
  <2>11. NodeLedger(ledger) /\ NodeLedger(store.ledger)
    BY <2>2, <2>5, <2>9 DEF NodeLedger, Kept
  <2>12. StoreInv
    BY <2>2, <2>5, <2>7, <2>9, <2>11 DEF StoreInv
  <2>13. CoreInv
    BY <2>2, <2>5, <2>6, <2>8 DEF CoreInv, Kept
  <2> QED
    BY <1>1, <2>5, <2>7, <2>10, <2>12, <2>13 DEF KeptInv
<1> QED
  BY <1>2, <1>3 DEF InitAny

\* AdmissionCoordinator.admit, when it ran to its end.
LEMMA OnboardStep ==
    ASSUME KeptInv, store # NoStore, NEW v \in Validator, Onboard(v)
    PROVE  KeptInv'
<1>1. Admit(v) /\ store' = [ledger |-> ledger', rows |-> store.rows \cup {v}] /\ restarts' = restarts
  BY DEF Onboard
<1>2. CoreInv /\ StoreInv
  BY DEF KeptInv
<1>3. /\ NodeLedger(ledger) /\ store.rows \subseteq Validator
      /\ DOMAIN records = GenesisValidator \cup store.rows /\ deposits = DOMAIN records
      /\ DOMAIN records \subseteq DOMAIN ledger.bonds
  BY <1>2 DEF StoreInv
<1>4. /\ CoreInv'
      /\ DOMAIN ledger'.bonds = DOMAIN ledger.bonds \cup {v}
      /\ DOMAIN records' = DOMAIN records \cup {v}
      /\ Announced(ledger) => Announced(ledger')
      /\ Balanced(ledger) => Balanced(ledger')
      /\ Earned(ledger) => Earned(ledger')
  BY <1>1, <1>2, AdmitStep
<1>5. deposits' = deposits \cup {v}
  BY <1>1 DEF Admit
<1>6. NodeLedger(ledger)'
  BY <1>3, <1>4 DEF NodeLedger, CoreInv
<1>7. /\ DOMAIN store' = {"ledger", "rows"} /\ store'.ledger = ledger'
      /\ store'.rows = store.rows \cup {v}
  BY <1>1
<1>8. NodeLedger(store.ledger)'
  BY <1>6, <1>7 DEF NodeLedger
<1>9. StoreInv'
  BY <1>3, <1>4, <1>5, <1>6, <1>7, <1>8 DEF StoreInv
<1>10. store' # NoStore
  <2>1. DOMAIN NoStore = {} /\ "rows" \in DOMAIN store'
    BY <1>7 DEF NoStore
  <2> QED
    BY <2>1
<1> QED
  BY <1>1, <1>4, <1>9, <1>10 DEF KeptInv

\* A restart reads back what was written.
LEMMA RestartStep ==
    ASSUME KeptInv, store # NoStore, Restart
    PROVE  KeptInv'
<1>1. Loaded(store.ledger, store.rows) /\ restarts' = restarts + 1 /\ restarts \in Nat
  BY DEF Restart, KeptInv
<1>2. /\ NodeLedger(store.ledger) /\ store.rows \in SUBSET Validator
      /\ DOMAIN records = GenesisValidator \cup store.rows /\ deposits = DOMAIN records
      /\ DOMAIN records \subseteq DOMAIN ledger.bonds
  BY DEF KeptInv, StoreInv
<1>3. /\ Kept(store.ledger, GenesisValidator \cup store.rows)
      /\ GenesisValidator \cup store.rows \subseteq DOMAIN store.ledger.bonds
  BY <1>2 DEF NodeLedger, Kept
<1>4. CoreInv' /\ StoreInv' /\ store' # NoStore
  BY <1>1, <1>2, <1>3, LoadedStep
<1>5. restarts' \in Nat /\ restarts' # 0
  BY <1>1
<1> QED
  BY <1>4, <1>5 DEF KeptInv

\* A crash between the two writes leaves a bond without an admission.
LEMMA CrashStep ==
    ASSUME KeptInv, store # NoStore, NEW v \in Validator, CrashInOnboard(v)
    PROVE  KeptInv'
<1> DEFINE S == {v}
           l == AfterBond(ledger, S, epoch)
<1>1. /\ v \notin deposits /\ MayBond(ledger, v)
      /\ Loaded(l, store.rows) /\ restarts' = restarts + 1 /\ restarts \in Nat
  BY DEF CrashInOnboard, KeptInv
<1>2. /\ NodeLedger(ledger) /\ store.rows \in SUBSET Validator
      /\ DOMAIN records = GenesisValidator \cup store.rows /\ deposits = DOMAIN records
      /\ DOMAIN records \subseteq DOMAIN ledger.bonds
  BY DEF KeptInv, StoreInv
<1>3. /\ Kept(ledger, deposits) /\ S \in SUBSET Validator
      /\ Apart(S, DOMAIN ledger.bonds) /\ Apart(S, deposits)
      /\ \A w \in S : ledger.balances[w] >= Stake[w]
  BY <1>1, <1>2 DEF NodeLedger, Kept, Apart, MayBond
<1>4. epoch \in Nat /\ l = AfterBond(ledger, S, epoch)
  BY EpochNat DEF KeptInv, CoreInv
<1> HIDE DEF S, l
<1>5. Kept(l, deposits) /\ Bonded(ledger, l, S)
  BY <1>3, <1>4, OneBonds
<1>6. DOMAIN l.bonds = DOMAIN ledger.bonds \cup S
  BY <1>5 DEF Bonded
<1>7. /\ Kept(l, GenesisValidator \cup store.rows)
      /\ GenesisValidator \cup store.rows \subseteq DOMAIN l.bonds
  BY <1>2, <1>5, <1>6
<1>8. CoreInv' /\ StoreInv' /\ store' # NoStore
  BY <1>1, <1>2, <1>7, LoadedStep
<1>9. restarts' \in Nat /\ restarts' # 0
  BY <1>1
<1> QED
  BY <1>8, <1>9 DEF KeptInv

\* A settlement at a node rewards validators it has bonds of; it is written when
\* it was completed.
LEMMA OnFinalizeStep ==
    ASSUME KeptInv, store # NoStore, NEW r \in Round, NEW reward \in Reward,
           NEW penalty \in RevealPenalty, OnFinalize(r, reward, penalty)
    PROVE  KeptInv'
<1>1. /\ Finalize(r, reward, penalty) /\ restarts' = restarts
      /\ store' = [store EXCEPT !.ledger = ledger'] \/ store' = store
  BY DEF OnFinalize
<1>2. /\ DOMAIN store = {"ledger", "rows"}
      /\ NodeLedger(ledger) /\ NodeLedger(store.ledger) /\ store.rows \in SUBSET Validator
      /\ DOMAIN records = GenesisValidator \cup store.rows /\ deposits = DOMAIN records
      /\ DOMAIN records \subseteq DOMAIN ledger.bonds
      /\ CoreInv
  BY DEF KeptInv, StoreInv
<1>3. /\ CoreInv'
      /\ deposits' = deposits
      /\ DOMAIN records' = DOMAIN records
      /\ In(reveals, r) \subseteq DOMAIN records
      /\ SameTerms(ledger, ledger')
      /\ Rewarded(ledger, ledger', RewardKey(epoch, r), In(reveals, r))
  BY <1>1, <1>2, FinalizeStep
<1>4. DOMAIN ledger'.bonds = DOMAIN ledger.bonds
  BY <1>3 DEF SameTerms
<1>5. Announced(ledger') /\ Balanced(ledger') /\ Earned(ledger')
  BY <1>2, <1>3 DEF Rewarded, NodeLedger
<1>6. NodeLedger(ledger)'
  BY <1>3, <1>5 DEF CoreInv, NodeLedger
<1>7. /\ DOMAIN store' = {"ledger", "rows"} /\ store'.rows = store.rows
      /\ store'.ledger = ledger' \/ store'.ledger = store.ledger
  BY <1>1, <1>2
<1>8. NodeLedger(store.ledger)'
  BY <1>2, <1>3, <1>4, <1>6, <1>7 DEF NodeLedger
<1>9. StoreInv'
  BY <1>2, <1>3, <1>4, <1>6, <1>7, <1>8 DEF StoreInv
<1>10. store' # NoStore
  <2>1. DOMAIN NoStore = {} /\ "rows" \in DOMAIN store'
    BY <1>7 DEF NoStore
  <2> QED
    BY <2>1
<1> QED
  BY <1>1, <1>3, <1>4, <1>9, <1>10 DEF KeptInv

\* Commitments and reveals at a node.
LEMMA OnBeaconStep ==
    ASSUME KeptInv, store # NoStore,
           \/ \E v \in Validator, r \in Round : OnCommit(v, r)
           \/ \E c \in commitments : OnReveal(c)
    PROVE  KeptInv'
<1>1. /\ \/ \E v \in Validator, r \in Round : SubmitCommitment(v, r)
         \/ \E c \in commitments : SubmitReveal(c)
      /\ UNCHANGED <<store, restarts>>
  BY DEF OnCommit, OnReveal
<1>2. CoreInv' /\ UNCHANGED <<ledger, records, deposits>>
  BY <1>1, BeaconStep DEF KeptInv
<1>3. StoreInv'
  BY <1>1, <1>2 DEF KeptInv, StoreInv, NodeLedger
<1> QED
  BY <1>1, <1>2, <1>3 DEF KeptInv

\* Every step, with and without a store, keeps the invariant.
LEMMA KeptStep ==
    ASSUME KeptInv, [NextAny]_allVars
    PROVE  KeptInv'
<1>1. CASE UNCHANGED allVars
  <2>1. UNCHANGED <<ledger, records, deposits, slashed, epoch, commitments, reveals, settled, store, restarts>>
    BY <1>1 DEF allVars, vars
  <2>2. BeaconInv'
    BY <2>1 DEF KeptInv, CoreInv, BeaconInv
  <2>3. CoreInv'
    BY <2>1, <2>2, CoreUnchanged DEF KeptInv
  <2>4. StoreInv'
    BY <2>1 DEF KeptInv, StoreInv, NodeLedger
  <2> QED
    BY <2>1, <2>3, <2>4 DEF KeptInv
<1>2. CASE store = NoStore /\ Next /\ UNCHANGED <<store, restarts>>
  <2>1. /\ CoreInv'
        /\ DOMAIN ledger.bonds \subseteq DOMAIN records =>
              DOMAIN ledger'.bonds \subseteq DOMAIN records'
    BY <1>2, CoreStep DEF KeptInv
  <2>2. store' = NoStore /\ restarts' = restarts
    BY <1>2
  <2>3. StoreInv'
    BY <2>2 DEF StoreInv
  <2> QED
    BY <2>1, <2>2, <2>3, <1>2 DEF KeptInv
<1>3. CASE store # NoStore /\ NodeNext
  <2>1. CASE \E v \in Validator : Onboard(v) \/ (restarts < MaxRestarts /\ CrashInOnboard(v))
    BY <1>3, <2>1, OnboardStep, CrashStep
  <2>2. CASE \/ \E v \in Validator, r \in Round : OnCommit(v, r)
             \/ \E c \in commitments : OnReveal(c)
    BY <1>3, <2>2, OnBeaconStep
  <2>3. CASE \E r \in Round, reward \in Reward, penalty \in RevealPenalty :
               OnFinalize(r, reward, penalty)
    BY <1>3, <2>3, OnFinalizeStep
  <2>4. CASE restarts < MaxRestarts /\ Restart
    BY <1>3, <2>4, RestartStep
  <2> QED
    BY <1>3, <2>1, <2>2, <2>3, <2>4 DEF NodeNext
<1> QED
  BY <1>1, <1>2, <1>3 DEF NextAny

\* The invariant holds in every state, whatever the penalties, rewards and rounds.
THEOREM InvariantIsKept == SpecAny => []KeptInv
<1>1. InitAny => KeptInv
  BY KeptInit
<1>2. KeptInv /\ [NextAny]_allVars => KeptInv'
  BY KeptStep
<1> QED
  BY <1>1, <1>2, PTL DEF SpecAny

-----------------------------------------------------------------------------
(***************************************************************************)
(* What follows from the invariant                                         *)
(***************************************************************************)

\* TypeOK of Membership: no balance, bond or stake is ever negative, whichever
\* calls of the ledger, the membership and the rounds led there, and after any
\* number of restarts (_debit, slash, Reduced).
THEOREM NothingGoesNegative == SpecAny => []TypeOK
<1>1. KeptInv => TypeOK
  <2> SUFFICES ASSUME KeptInv
               PROVE  TypeOK
    OBVIOUS
  <2>1. Sound(ledger) /\ BeaconInv /\ RecordsInv
    BY DEF KeptInv, CoreInv
  <2>2. DOMAIN records \subseteq Validator /\ \A v \in DOMAIN records : records[v] \in Record
    BY <2>1 DEF RecordsInv
  <2>3. /\ ledger.balances \in [Account -> Nat] /\ DOMAIN ledger.bonds \subseteq Validator
        /\ \A v \in DOMAIN ledger.bonds : ledger.bonds[v] \in Position
    BY <2>1 DEF Sound
  <2> QED
    BY <2>1, <2>2, <2>3 DEF TypeOK, BeaconInv, RecordsInv
<1> QED
  BY <1>1, InvariantIsKept, PTL

\* BondsBackVotes: no bond exceeds the stake its validator votes with, a bond
\* without a validator is one a crash interrupted, and at a node nobody votes
\* without a bond, in the ledger and in the store (slash, penalize_non_reveal,
\* AdmissionCoordinator.admit, restore_from_store).
THEOREM VotesAreBacked == SpecAny => []BondsBackVotes
<1>1. KeptInv => BondsBackVotes
  <2> SUFFICES ASSUME KeptInv
               PROVE  BondsBackVotes
    OBVIOUS
  <2>1. /\ RecordsInv /\ restarts \in Nat
        /\ store = NoStore => restarts = 0
        /\ restarts = 0 => DOMAIN ledger.bonds \subseteq DOMAIN records
    BY DEF KeptInv, CoreInv
  <2>2. store # NoStore =>
           /\ DOMAIN records = GenesisValidator \cup store.rows
           /\ DOMAIN records \subseteq DOMAIN ledger.bonds
           /\ DOMAIN store.ledger.bonds = DOMAIN ledger.bonds
    BY DEF KeptInv, StoreInv, NodeLedger
  <2>3. \A v \in DOMAIN ledger.bonds : v \in DOMAIN records =>
           ledger.bonds[v].amount <= records[v].stake
    BY <2>1 DEF RecordsInv
  <2>4. ASSUME NEW v \in DOMAIN ledger.bonds, v \notin DOMAIN records
        PROVE  restarts > 0 /\ v \notin store.rows
    BY <2>1, <2>2, <2>4
  <2> QED
    BY <2>2, <2>3, <2>4 DEF BondsBackVotes
<1> QED
  BY <1>1, InvariantIsKept, PTL

\* WithdrawalIsDelayed: a bond is paid out only when the withdrawal delay after
\* the request and its own unlock epoch are over (request_unbond, withdraw).
THEOREM WithdrawalsWait == SpecAny => []WithdrawalIsDelayed
<1>1. KeptInv => WithdrawalIsDelayed
  <2> SUFFICES ASSUME KeptInv
               PROVE  WithdrawalIsDelayed
    OBVIOUS
  <2>1. Delayed(ledger) /\ deposits \subseteq Validator
    BY DEF KeptInv, CoreInv, RecordsInv
  <2> QED
    BY <2>1 DEF WithdrawalIsDelayed, Delayed, Entries, Of
<1> QED
  BY <1>1, InvariantIsKept, PTL

\* SlashesAccounted: whatever is missing from a bond, or from what was paid out
\* for it, is the sum of its SLASH events, partial penalties included (slash,
\* settle_round, withdraw).
THEOREM PenaltiesAreAccounted == SpecAny => []SlashesAccounted
<1>1. KeptInv => SlashesAccounted
  <2> SUFFICES ASSUME KeptInv
               PROVE  SlashesAccounted
    OBVIOUS
  <2>1. Debited(ledger, deposits)
    BY DEF KeptInv, CoreInv
  <2>2. \A kind, v : Entries(kind, v) = Of(ledger, kind, v)
    BY DEF Entries, Of
  <2>3. ASSUME NEW v \in deposits
        PROVE  IF v \in DOMAIN ledger.bonds
               THEN ledger.bonds[v].amount + Amounts(Entries("SLASH", v)) = Stake[v]
               ELSE Amounts(Entries("WITHDRAW", v)) + Amounts(Entries("SLASH", v)) = Stake[v]
    BY <2>1, <2>2 DEF Debited
  <2> QED
    BY <2>3 DEF SlashesAccounted
<1> QED
  BY <1>1, InvariantIsKept, PTL

\* EarningsAccounted: what a validator of a node has is what its FUND and REWARD
\* events say, less its bond, after any number of restarts (distribute_rewards,
\* from_store).
THEOREM EarningsAreAccounted == SpecAny => []EarningsAccounted
<1>1. KeptInv => EarningsAccounted
  <2> SUFFICES ASSUME KeptInv, store # NoStore
               PROVE  \A v \in Validator :
                        ledger.balances[v] + Amounts(Entries("BOND", v))
                          = Amounts(Entries("FUND", v)) + Amounts(Entries("REWARD", v))
    BY DEF EarningsAccounted
  <2>1. Earned(ledger)
    BY DEF KeptInv, StoreInv, NodeLedger
  <2>2. \A kind, v : Entries(kind, v) = Of(ledger, kind, v)
    BY DEF Entries, Of
  <2> QED
    BY <2>1, <2>2 DEF Earned
<1> QED
  BY <1>1, InvariantIsKept, PTL

\* A ledger that is sound and balanced conserves money.
LEMMA BalancedConserves ==
    ASSUME Sound(ledger), Balanced(ledger)
    PROVE  Conservation
<1>1. SumFunction(ledger.balances)
        + SumFunction([v \in DOMAIN ledger.bonds |-> ledger.bonds[v].amount])
        = Amounts(Funds(ledger))
  BY BalancedMeans
<1>2. Funds(ledger) = {e \in ledger.events : e[1] = "FUND"}
  BY DEF Funds
<1> QED
  BY <1>1, <1>2 DEF Conservation

\* At a node money is conserved with nothing assumed: it never slashes by hand, so
\* every bond it rewards exists (settle_round, distribute_rewards).
THEOREM NodesConserveMoney == SpecAny => [](store # NoStore => Conservation)
<1>1. KeptInv => (store # NoStore => Conservation)
  <2> SUFFICES ASSUME KeptInv, store # NoStore
               PROVE  Conservation
    OBVIOUS
  <2>1. Sound(ledger) /\ Balanced(ledger)
    BY DEF KeptInv, StoreInv, NodeLedger
  <2> QED
    BY <2>1, BalancedConserves
<1> QED
  BY <1>1, InvariantIsKept, PTL

-----------------------------------------------------------------------------
(***************************************************************************)
(* With full penalties                                                     *)
(***************************************************************************)

\* A new ledger, without a store or with one.
LEMMA ExactInit ==
    ASSUME InitAny
    PROVE  ExactInv
<1> SUFFICES ASSUME store = NoStore
             PROVE  /\ Announced(ledger) /\ Balanced(ledger)
                    /\ DOMAIN records = DOMAIN ledger.bonds
                    /\ DOMAIN records = {}
  BY DEF ExactInv
<1>1. ~InitNode
  <2> SUFFICES ASSUME InitNode
               PROVE  FALSE
    OBVIOUS
  <2>1. "rows" \in DOMAIN store /\ DOMAIN NoStore = {}
    BY DEF InitNode, NoStore
  <2> QED
    BY <2>1
<1>2. ledger = GenesisLedger(Genesis) /\ records = <<>>
  BY <1>1 DEF InitAny, Init
<1>3. Announced(ledger) /\ Balanced(ledger) /\ DOMAIN ledger.bonds = {}
  BY <1>2, GenesisSound
<1> QED
  BY <1>2, <1>3

\* The conjunct of ExactInv about the bonds of those who leave.
Leaving ==
    \A v \in DOMAIN records : ledger.bonds[v].unbonding =>
        ~records[v].active /\ records[v].locked <= ledger.bonds[v].unlock

\* ExactInv without the store.
Exact ==
    /\ Announced(ledger) /\ Balanced(ledger)
    /\ DOMAIN records = DOMAIN ledger.bonds
    /\ Leaving

\* Steps without a store: withdraw finds the record inactive and unlocked, slash
\* makes it inactive for good.
LEMMA ExactStep ==
    ASSUME PartialPenalty = {}, CoreInv, Exact, Next
    PROVE  Exact'
<1>1. ASSUME NEW v \in Validator, Admit(v)
      PROVE  Exact'
  <2>1. /\ v \notin DOMAIN ledger.bonds
        /\ DOMAIN ledger'.bonds = DOMAIN ledger.bonds \cup {v}
        /\ DOMAIN records' = DOMAIN records \cup {v}
        /\ ledger'.bonds[v] = NewPosition(v)
        /\ \A w \in DOMAIN ledger.bonds : ledger'.bonds[w] = ledger.bonds[w]
        /\ \A w \in DOMAIN records : records'[w] = records[w]
        /\ Announced(ledger) => Announced(ledger')
        /\ Balanced(ledger) => Balanced(ledger')
    BY <1>1, AdmitStep
  <2>2. ~NewPosition(v).unbonding
    BY DEF NewPosition
  <2> QED
    BY <2>1, <2>2 DEF Exact, Leaving
<1>2. ASSUME NEW v \in Validator, Exit(v)
      PROVE  Exact'
  <2>1. /\ DOMAIN ledger'.bonds = DOMAIN ledger.bonds /\ DOMAIN records' = DOMAIN records
        /\ ~records'[v].active /\ records'[v].locked <= ledger'.bonds[v].unlock
        /\ \A w \in DOMAIN ledger.bonds : w # v => ledger'.bonds[w] = ledger.bonds[w]
        /\ \A w \in DOMAIN records : w # v => records'[w] = records[w]
        /\ Announced(ledger) => Announced(ledger')
        /\ Balanced(ledger) => Balanced(ledger')
    BY <1>2, ExitStep
  <2> QED
    BY <2>1 DEF Exact, Leaving
<1>3. ASSUME NEW v \in Validator, Withdraw(v)
      PROVE  Exact'
  <2>1. /\ MayWithdraw(ledger, v, epoch) /\ v \in DOMAIN records
        /\ DOMAIN ledger'.bonds = DOMAIN ledger.bonds \ {v}
        /\ DOMAIN records' = IF records[v].active \/ epoch < records[v].locked
                             THEN DOMAIN records ELSE DOMAIN records \ {v}
        /\ \A w \in DOMAIN ledger'.bonds : ledger'.bonds[w] = ledger.bonds[w]
        /\ \A w \in DOMAIN records' : records'[w] = records[w]
        /\ Announced(ledger) => Announced(ledger')
        /\ Balanced(ledger) => Balanced(ledger')
    BY <1>3, WithdrawStep
  <2>2. ledger.bonds[v].unbonding /\ epoch >= ledger.bonds[v].unlock /\ v \in DOMAIN ledger.bonds
    BY <2>1 DEF MayWithdraw
  <2>3. ~records[v].active /\ records[v].locked <= ledger.bonds[v].unlock
    BY <2>1, <2>2 DEF Exact, Leaving
  <2>4. records[v].locked \in Nat /\ ledger.bonds[v].unlock \in Nat /\ epoch \in Nat
    BY <2>1, <2>2, EpochNat DEF CoreInv, RecordsInv, Record, Sound, Position
  <2>5. DOMAIN records' = DOMAIN records \ {v}
    BY <2>1, <2>2, <2>3, <2>4
  <2> QED
    BY <2>1, <2>5 DEF Exact, Leaving
<1>4. ASSUME NEW c \in Claim, c[1] \in DOMAIN records, NEW amount \in Penalties(c[1]),
             Slash(c[1], c[2], c[3], amount) \/ SlashFromFuture(c[1], c[2], c[3], amount)
      PROVE  Exact'
  <2> DEFINE v == c[1]
             ep == c[2]
             n == c[3]
  <2>1. v \in Validator /\ ep \in Nat /\ amount \in Nat /\ amount = records[v].stake
    BY <1>4, ClaimTypes DEF Penalties
  <2>2. Slash(v, ep, n, amount) \/ SlashFromFuture(v, ep, n, amount)
    BY <1>4
  <2> HIDE DEF v, ep, n
  <2>3. /\ Fined(ledger, ledger') /\ DOMAIN records' = DOMAIN records /\ v \in DOMAIN records
        /\ \A w \in DOMAIN records : /\ records'[w].locked = records[w].locked
                                     /\ w # v => records'[w] = records[w]
        /\ records'[v] = records[v] \/ (records'[v].active => records[v].stake > amount)
        /\ Announced(ledger) => Announced(ledger')
        /\ Balanced(ledger) => Balanced(ledger')
    BY <2>1, <2>2, SlashStep
  <2>4. /\ DOMAIN ledger'.bonds = DOMAIN ledger.bonds
        /\ \A w \in DOMAIN ledger.bonds : /\ ledger'.bonds[w].unbonding = ledger.bonds[w].unbonding
                                          /\ ledger'.bonds[w].unlock = ledger.bonds[w].unlock
    BY <2>3 DEF Fined
  <2>5. records'[v] = records[v] \/ ~records'[v].active
    BY <2>1, <2>3
  <2> QED
    BY <2>3, <2>4, <2>5 DEF Exact, Leaving
<1>5. ASSUME \/ AdvanceEpoch
             \/ \E d \in Donation : FundAccount(d)
             \/ \E f \in Fee : ChargeFee(f)
      PROVE  Exact'
  <2>1. /\ ledger'.bonds = ledger.bonds /\ UNCHANGED records
        /\ Announced(ledger) => Announced(ledger')
        /\ Balanced(ledger) => Balanced(ledger')
    BY <1>5, OtherStep
  <2> QED
    BY <2>1 DEF Exact, Leaving
<1>6. ASSUME \/ \E v \in Validator, r \in Round : SubmitCommitment(v, r)
             \/ \E c \in commitments : SubmitReveal(c)
      PROVE  Exact'
  <2>1. UNCHANGED <<ledger, records>>
    BY <1>6, BeaconStep
  <2> QED
    BY <2>1 DEF Exact, Leaving
<1>7. ASSUME NEW r \in Round, NEW reward \in Reward, NEW penalty \in RevealPenalty,
             Finalize(r, reward, penalty)
      PROVE  Exact'
  <2>1. /\ SameTerms(ledger, ledger') /\ DOMAIN records' = DOMAIN records
        /\ \A w \in DOMAIN records : /\ records'[w].locked = records[w].locked
                                     /\ records'[w].active => records[w].active
        /\ In(reveals, r) \subseteq DOMAIN records
        /\ Rewarded(ledger, ledger', RewardKey(epoch, r), In(reveals, r))
    BY <1>7, FinalizeStep
  <2>2. Announced(ledger') /\ Balanced(ledger')
    BY <2>1 DEF Rewarded, Exact
  <2>3. /\ DOMAIN ledger'.bonds = DOMAIN ledger.bonds
        /\ \A w \in DOMAIN ledger.bonds : /\ ledger'.bonds[w].unbonding = ledger.bonds[w].unbonding
                                          /\ ledger'.bonds[w].unlock = ledger.bonds[w].unlock
    BY <2>1 DEF SameTerms
  <2> QED
    BY <2>1, <2>2, <2>3 DEF Exact, Leaving
<1> QED
  <2>1. CASE \E v \in Validator : Admit(v) \/ Exit(v) \/ Withdraw(v)
    BY <2>1, <1>1, <1>2, <1>3
  <2>2. CASE \E c \in {d \in Claim : d[1] \in DOMAIN records} :
               \E amount \in Penalties(c[1]) :
                 Slash(c[1], c[2], c[3], amount) \/ SlashFromFuture(c[1], c[2], c[3], amount)
    BY <2>2, <1>4
  <2>3. CASE AdvanceEpoch \/ (\E d \in Donation : FundAccount(d)) \/ (\E f \in Fee : ChargeFee(f))
    BY <2>3, <1>5
  <2>4. CASE \/ \E v \in Validator, r \in Round : SubmitCommitment(v, r)
             \/ \E c \in commitments : SubmitReveal(c)
    BY <2>4, <1>6
  <2>5. CASE \E r \in Round, reward \in Reward, penalty \in RevealPenalty :
               Finalize(r, reward, penalty)
    BY <2>5, <1>7
  <2> QED
    BY <2>1, <2>2, <2>3, <2>4, <2>5 DEF Next

\* A step never removes or adds a store.
LEMMA StoreStays ==
    ASSUME KeptInv, KeptInv', NextAny, store' = NoStore
    PROVE  store = NoStore /\ Next /\ UNCHANGED <<store, restarts>>
<1> SUFFICES ASSUME store # NoStore, NodeNext
             PROVE  FALSE
  BY DEF NextAny
<1>0. DOMAIN NoStore = {} /\ DOMAIN store = {"ledger", "rows"}
  BY DEF NoStore, KeptInv, StoreInv
<1>1. "rows" \in DOMAIN store \cap DOMAIN store'
  <2>1. CASE \E v \in Validator : Onboard(v)
    BY <1>0, <2>1 DEF Onboard
  <2>2. CASE \E v \in Validator : CrashInOnboard(v)
    BY <1>0, <2>2 DEF CrashInOnboard, Loaded
  <2>3. CASE \/ \E v \in Validator, r \in Round : OnCommit(v, r)
             \/ \E c \in commitments : OnReveal(c)
    BY <1>0, <2>3 DEF OnCommit, OnReveal
  <2>4. CASE \E r \in Round, reward \in Reward, penalty \in RevealPenalty :
               OnFinalize(r, reward, penalty)
    <3>1. store' = [store EXCEPT !.ledger = ledger'] \/ store' = store
      BY <2>4 DEF OnFinalize
    <3> QED
      BY <1>0, <3>1
  <2>5. CASE Restart
    BY <1>0, <2>5 DEF Restart, Loaded
  <2> QED
    BY <2>1, <2>2, <2>3, <2>4, <2>5 DEF NodeNext
<1> QED
  BY <1>0, <1>1

\* ExactInv, for every step.
LEMMA ExactKept ==
    ASSUME PartialPenalty = {}, KeptInv, KeptInv', ExactInv, [NextAny]_allVars
    PROVE  ExactInv'
<1> SUFFICES ASSUME store' = NoStore
             PROVE  Exact'
  BY DEF ExactInv, Exact, Leaving
<1>1. CASE UNCHANGED allVars
  BY <1>1 DEF allVars, vars, ExactInv, Exact, Leaving
<1>2. CASE NextAny
  <2>1. store = NoStore /\ Next
    BY <1>2, StoreStays
  <2>2. CoreInv /\ Exact
    BY <2>1 DEF KeptInv, ExactInv, Exact, Leaving
  <2> QED
    BY <2>1, <2>2, ExactStep
<1> QED
  BY <1>1, <1>2

\* Conservation: balances and bonds are what was paid in, if slash is called with
\* the whole stake, its default: after a smaller penalty a validator that exited
\* counts again without a bond, and a reward meant for it is lost.
THEOREM MoneyIsConserved ==
    ASSUME PartialPenalty = {}
    PROVE  SpecAny => []Conservation
<1>1. InitAny => ExactInv
  BY ExactInit
<1>2. KeptInv /\ KeptInv' /\ ExactInv /\ [NextAny]_allVars => ExactInv'
  BY ExactKept
<1>3. KeptInv /\ ExactInv => Conservation
  <2> SUFFICES ASSUME KeptInv, ExactInv
               PROVE  Conservation
    OBVIOUS
  <2>1. Sound(ledger) /\ Balanced(ledger)
    BY DEF KeptInv, CoreInv, StoreInv, NodeLedger, ExactInv
  <2> QED
    BY <2>1, BalancedConserves
<1> QED
  BY <1>1, <1>2, <1>3, InvariantIsKept, PTL DEF SpecAny

-----------------------------------------------------------------------------
(***************************************************************************)
(* Rewarded or penalised                                                   *)
(***************************************************************************)

\* Rounds of an epoch that RewardKey tells apart from those of another.
RoundsFit == \A r \in Round : r <= 999999

\* The keys of different rounds differ.
LEMMA KeysDiffer ==
    ASSUME RoundsFit, NEW e1 \in Nat, NEW e2 \in Nat, NEW r1 \in Round, NEW r2 \in Round,
           RewardKey(e1, r1) = RewardKey(e2, r2)
    PROVE  e1 = e2 /\ r1 = r2
<1>1. /\ r1 \in Nat /\ r2 \in Nat /\ r1 <= 999999 /\ r2 <= 999999
      /\ e1 * 1000000 + r1 = e2 * 1000000 + r2
  BY SMT, MembershipAssumption DEF RoundsFit, RewardKey
<1> QED
  BY <1>1, SMT

\* Until the first restart penalties and rewards are those of settled rounds, and
\* nobody has both for one round.
Once ==
    /\ \A ep, r, v : NonReveal(ep, r, v) \in ledger.evidence => <<ep, r>> \in settled
    /\ \A key \in ledger.epochs : \E s \in settled : key = RewardKey(s[1], s[2])
    /\ \A ep \in 0 .. MaxEpoch, r \in Round, v \in Validator :
          ~ /\ NonReveal(ep, r, v) \in ledger.evidence
            /\ \E e \in Of(ledger, "REWARD", v) : e[2] = RewardKey(ep, r)

OnceInv == restarts = 0 => Once

\* Nothing but a settlement can change it.
LEMMA OnceUntouched ==
    ASSUME Once, settled' = settled, ledger'.epochs = ledger.epochs,
           \A ep, r, v : NonReveal(ep, r, v) \in ledger'.evidence =>
                            NonReveal(ep, r, v) \in ledger.evidence,
           \A e \in ledger'.events : e[1] = "REWARD" => e \in ledger.events
    PROVE  Once'
<1>1. \A ep, r, v : NonReveal(ep, r, v) \in ledger'.evidence => <<ep, r>> \in settled'
  BY DEF Once
<1>2. \A key \in ledger'.epochs : \E s \in settled' : key = RewardKey(s[1], s[2])
  BY DEF Once
<1>3. ASSUME NEW ep \in 0 .. MaxEpoch, NEW r \in Round, NEW v \in Validator,
             NonReveal(ep, r, v) \in ledger'.evidence,
             NEW e \in Of(ledger, "REWARD", v)', e[2] = RewardKey(ep, r)
      PROVE  FALSE
  <2>1. e \in Of(ledger, "REWARD", v)
    BY <1>3 DEF Of
  <2>2. NonReveal(ep, r, v) \in ledger.evidence
    BY <1>3
  <2> QED
    BY <1>3, <2>1, <2>2 DEF Once
<1> QED
  BY <1>1, <1>2, <1>3 DEF Once

\* A settlement that starts with every silent validator bonded returns: everyone
\* silent is penalised, and the rewards are paid and remembered.
LEMMA SettlementReturns ==
    ASSUME RoundsFit, CoreInv, Announced(ledger), DOMAIN records \subseteq DOMAIN ledger.bonds, Once,
           NEW r \in Round, NEW reward \in Reward, NEW penalty \in RevealPenalty,
           Finalize(r, reward, penalty)
    PROVE  /\ <<epoch, r>> \notin settled
           /\ settled' = settled \cup {<<epoch, r>>}
           /\ RewardKey(epoch, r) \notin ledger.epochs
           /\ \A v : NonReveal(epoch, r, v) \notin ledger.evidence
<1> DEFINE P == Punished(r, penalty)
           proof == [v \in P |-> NonReveal(epoch, r, v)]
           fined == AfterSlash(ledger, penalty, epoch, proof)
           B == In(reveals, r)
           total == reward * Cardinality(B)
           key == RewardKey(epoch, r)
           reached == P = Silent(r, penalty) /\ MayReward(fined, key, total, B)
<1>1. /\ MayFinalize(r, reward)
      /\ SettleRound(r, reward, penalty) =
            IF reached THEN AfterReward(fined, key, total, B) ELSE fined
      /\ settled' = settled \cup (IF Returns(r, reward, penalty) THEN {<<epoch, r>>} ELSE {})
  BY DEF Finalize, SettleRound
<1>2. Sound(ledger) /\ BeaconInv
  BY DEF CoreInv
<1>3. penalty \in Nat /\ reward \in Nat /\ r \in Nat /\ epoch \in Nat
  BY <1>2, EpochNat, MembershipAssumption
<1>4. <<epoch, r>> \notin settled /\ ledger.balances[Treasury] >= total
  BY <1>1 DEF MayFinalize
<1>5. \A v : NonReveal(epoch, r, v) \notin ledger.evidence
  BY <1>4 DEF Once
<1>6. key \notin ledger.epochs
  <2> SUFFICES ASSUME key \in ledger.epochs
               PROVE  FALSE
    OBVIOUS
  <2>1. PICK s \in settled : key = RewardKey(s[1], s[2])
    BY DEF Once
  <2>2. s[1] \in Nat /\ s[2] \in Round /\ s = <<s[1], s[2]>>
    BY <1>2, MembershipAssumption DEF BeaconInv
  <2>3. s[1] = epoch /\ s[2] = r
    BY <1>3, <2>1, <2>2, KeysDiffer
  <2> QED
    BY <1>4, <2>2, <2>3
<1>7. /\ In(commitments, r) \subseteq DOMAIN records
      /\ B \subseteq In(commitments, r) /\ B \in SUBSET Validator
      /\ P \subseteq Silent(r, penalty) /\ Silent(r, penalty) \subseteq In(commitments, r)
      /\ \A v \in P : v \in DOMAIN ledger.bonds
  BY <1>1, <1>3, RoundMembers
<1>8. P = Silent(r, penalty)
  <2>1. \A w \in Silent(r, penalty) : MaySlash(ledger, w, penalty, NonReveal(epoch, r, w))
    BY <1>3, <1>5, <1>7 DEF MaySlash, Silent
  <2> QED
    BY <2>1 DEF Punished
<1>9. DOMAIN proof = P /\ Proofs(proof) = Charges(r, P)
  BY DEF Proofs, Charges
<1>10. DOMAIN proof \in SUBSET DOMAIN ledger.bonds /\ Apart(Proofs(proof), ledger.evidence)
  <2>1. \A x \in Charges(r, P) : x \notin ledger.evidence
    BY <1>5 DEF Charges
  <2> QED
    BY <1>7, <1>9, <2>1 DEF Apart
<1>11. total \in Nat /\ key \in Nat
  <2>1. IsFiniteSet(B)
    BY <1>7, SettlementAssumption, FS_Subset
  <2>2. Cardinality(B) \in Nat
    BY <2>1, FS_CardinalityType
  <2> HIDE DEF B
  <2> QED
    BY <1>3, <2>2 DEF RewardKey
<1>12. B = {} => total = 0
  <2>1. B = {} => Cardinality(B) = 0
    BY FS_EmptySet
  <2> HIDE DEF B
  <2> QED
    BY <1>3, <2>1
<1>13. fined = AfterSlash(ledger, penalty, epoch, proof)
  OBVIOUS
<1> HIDE DEF proof, P, B, fined, key, total
<1>14. /\ Sound(fined) /\ Fined(ledger, fined) /\ (Announced(ledger) => Announced(fined))
       /\ fined.balances[Treasury] >= ledger.balances[Treasury]
  BY <1>2, <1>3, <1>10, <1>13, SlashKeeps
<1>15. /\ fined.epochs = ledger.epochs /\ DOMAIN fined.bonds = DOMAIN ledger.bonds
       /\ Announced(fined)
  BY <1>14 DEF Fined
<1>16. CASE total = 0
  BY <1>1, <1>4, <1>5, <1>6, <1>8, <1>16 DEF Returns, total, P, B, key
<1>17. CASE total # 0
  <2>1. MayReward(fined, key, total, B)
    <3>1. fined.balances[Treasury] >= total
      <4>1. fined.balances[Treasury] \in Nat /\ ledger.balances[Treasury] \in Nat
        BY <1>2, <1>14, AccountsFinite DEF Sound
      <4> QED
        BY <1>4, <1>11, <1>14, <4>1
    <3>2. total > 0 /\ B # {} /\ key \notin fined.epochs
      BY <1>6, <1>11, <1>12, <1>15, <1>17
    <3> QED
      BY <3>1, <3>2 DEF MayReward
  <2>2. SettleRound(r, reward, penalty) = AfterReward(fined, key, total, B)
    BY <1>1, <1>8, <2>1
  <2> DEFINE m == AfterReward(fined, key, total, B)
  <2>3. m = AfterReward(fined, key, total, B)
    OBVIOUS
  <2> HIDE DEF m
  <2>4. B \subseteq DOMAIN fined.bonds
    BY <1>7, <1>15
  <2>5. B \subseteq DOMAIN fined.bonds /\ Announced(fined) =>
          /\ Announced(m)
          /\ Balanced(fined) => Balanced(m)
          /\ Earned(fined) => Earned(m)
          /\ m.epochs = fined.epochs \cup {key}
    BY <1>7, <1>11, <1>14, <2>1, <2>3, RewardKeeps
  <2>6. key \in SettleRound(r, reward, penalty).epochs \ ledger.epochs
    BY <1>6, <1>15, <2>2, <2>3, <2>4, <2>5
  <2>7. Returns(r, reward, penalty)
    BY <1>8, <2>6 DEF Returns, P, key
  <2> QED
    BY <1>1, <1>4, <1>5, <1>6, <2>7 DEF key
<1> QED
  BY <1>16, <1>17

\* A settlement keeps it.
LEMMA OnceSettled ==
    ASSUME RoundsFit, CoreInv, Announced(ledger), DOMAIN records \subseteq DOMAIN ledger.bonds, Once,
           NEW r \in Round, NEW reward \in Reward, NEW penalty \in RevealPenalty,
           Finalize(r, reward, penalty)
    PROVE  Once'
<1> DEFINE P == Punished(r, penalty)
           B == In(reveals, r)
           key == RewardKey(epoch, r)
<1>1. /\ <<epoch, r>> \notin settled
      /\ settled' = settled \cup {<<epoch, r>>}
      /\ key \notin ledger.epochs
      /\ \A v : NonReveal(epoch, r, v) \notin ledger.evidence
  BY SettlementReturns
<1>2. /\ Accused(ledger, ledger', Charges(r, P))
      /\ NewRewards(ledger, ledger', key, B)
      /\ Rewarded(ledger, ledger', key, B)
      /\ B \subseteq DOMAIN records
  BY FinalizeStep
<1>3. ledger'.evidence = ledger.evidence \cup Charges(r, P)
  BY <1>2 DEF Accused
<1>4. ledger'.epochs \subseteq ledger.epochs \cup {key}
  BY <1>2 DEF Rewarded
<1>5. \A e \in ledger'.events : e[1] = "REWARD" => e \in ledger.events \/ (e[2] = key /\ e[3] \in B)
  BY <1>2 DEF NewRewards
<1>6. \A v \in P : v \notin B
  <2>1. penalty \in Nat /\ MayFinalize(r, reward)
    BY MembershipAssumption DEF Finalize
  <2> QED
    BY <2>1, RoundMembers
<1>7. \A ep, q, v : NonReveal(ep, q, v) \in ledger'.evidence =>
        NonReveal(ep, q, v) \in ledger.evidence \/ (ep = epoch /\ q = r /\ v \in P)
  <2> SUFFICES ASSUME NEW ep, NEW q, NEW v, NonReveal(ep, q, v) \in Charges(r, P)
               PROVE  ep = epoch /\ q = r /\ v \in P
    BY <1>3
  <2>1. PICK w \in P : NonReveal(ep, q, v) = NonReveal(epoch, r, w)
    BY DEF Charges
  <2>2. ep = epoch /\ q = r /\ v = w
    BY <2>1 DEF NonReveal, Evidence
  <2> QED
    BY <2>2
<1>8. epoch \in Nat
  BY EpochNat DEF CoreInv
<1> HIDE DEF P, B
<1>9. \A ep, q, v : NonReveal(ep, q, v) \in ledger'.evidence => <<ep, q>> \in settled'
  BY <1>1, <1>7 DEF Once
<1>10. \A k \in ledger'.epochs : \E s \in settled' : k = RewardKey(s[1], s[2])
  <2>1. <<epoch, r>> \in settled' /\ key = RewardKey(<<epoch, r>>[1], <<epoch, r>>[2])
    BY <1>1
  <2> HIDE DEF key
  <2>2. \A k \in ledger.epochs : \E s \in settled' : k = RewardKey(s[1], s[2])
    BY <1>1 DEF Once
  <2> QED
    BY <1>4, <2>1, <2>2
<1>11. ASSUME NEW ep \in 0 .. MaxEpoch, NEW q \in Round, NEW v \in Validator,
              NonReveal(ep, q, v) \in ledger'.evidence,
              NEW e \in Of(ledger, "REWARD", v)', e[2] = RewardKey(ep, q)
       PROVE  FALSE
  <2>1. ep \in Nat
    BY MembershipAssumption
  <2>2. e[1] = "REWARD" /\ e[3] = v /\ e \in ledger'.events
    BY <1>11 DEF Of
  <2>3. CASE e \in ledger.events
    <3>1. e \in Of(ledger, "REWARD", v) /\ e[2] \in ledger.epochs
      BY <2>2, <2>3 DEF Of, Announced
    <3>2. CASE NonReveal(ep, q, v) \in ledger.evidence
      BY <1>11, <3>1, <3>2 DEF Once
    <3>3. CASE ep = epoch /\ q = r
      BY <1>1, <1>11, <3>1, <3>3
    <3> QED
      BY <1>7, <1>11, <3>2, <3>3
  <2>4. CASE e[2] = key /\ v \in B
    <3>1. ep = epoch /\ q = r
      <4>1. RewardKey(ep, q) = RewardKey(epoch, r) /\ ep \in Nat /\ epoch \in Nat /\ q \in Round
        BY <1>8, <1>11, <2>1, <2>4
      <4> QED
        BY <4>1, KeysDiffer
    <3>2. NonReveal(ep, q, v) \notin ledger.evidence
      BY <1>1, <3>1
    <3>3. v \in P
      BY <1>7, <1>11, <3>2
    <3> QED
      BY <1>6, <2>4, <3>3
  <2> QED
    BY <1>5, <2>2, <2>3, <2>4
<1> QED
  BY <1>9, <1>10, <1>11 DEF Once

\* The states a settlement may start from, without a restart.
LEMMA BondedMembers ==
    ASSUME KeptInv, ExactInv
    PROVE  CoreInv /\ Announced(ledger) /\ DOMAIN records \subseteq DOMAIN ledger.bonds
<1>1. CASE store = NoStore
  BY <1>1 DEF KeptInv, ExactInv
<1>2. CASE store # NoStore
  BY <1>2 DEF KeptInv, StoreInv, NodeLedger
<1> QED
  BY <1>1, <1>2

\* A new ledger has no evidence and has rewarded nothing.
LEMMA OnceInit ==
    ASSUME InitAny
    PROVE  Once
<1>1. ledger.evidence = {} /\ ledger.epochs = {}
  <2> DEFINE g == GenesisLedger(Genesis)
  <2>1. g.evidence = {} /\ g.epochs = {} /\ DOMAIN g = {"balances", "bonds", "evidence", "epochs", "events"}
    BY GenesisSound DEF Sound
  <2>2. CASE ledger = g
    BY <2>1, <2>2
  <2>3. CASE ledger = WithGenesisBonds(g)
    <3> HIDE DEF g
    <3> QED
      BY <2>1, <2>3 DEF WithGenesisBonds, AfterBond, Log
  <2> QED
    BY <2>2, <2>3 DEF InitAny, Init, InitNode
<1> QED
  BY <1>1 DEF Once

\* The steps that a node and a program without a store have in common.
LEMMA OnceStep ==
    ASSUME RoundsFit, CoreInv, Announced(ledger), DOMAIN records \subseteq DOMAIN ledger.bonds, Once,
           \/ \E v \in Validator : Admit(v)
           \/ \E v \in Validator, r \in Round : SubmitCommitment(v, r)
           \/ \E c \in commitments : SubmitReveal(c)
           \/ \E r \in Round, reward \in Reward, penalty \in RevealPenalty :
                Finalize(r, reward, penalty)
    PROVE  Once'
<1>1. ASSUME NEW v \in Validator, Admit(v)
      PROVE  Once'
  <2>1. /\ ledger'.evidence = ledger.evidence /\ ledger'.epochs = ledger.epochs
        /\ \A e \in ledger'.events : e[1] = "REWARD" => e \in ledger.events
    BY <1>1, AdmitStep
  <2>2. settled' = settled
    BY <1>1 DEF Admit, beacon
  <2> QED
    BY <2>1, <2>2, OnceUntouched
<1>2. ASSUME \/ \E v \in Validator, r \in Round : SubmitCommitment(v, r)
             \/ \E c \in commitments : SubmitReveal(c)
      PROVE  Once'
  <2>1. UNCHANGED <<ledger, settled>>
    BY <1>2, BeaconStep
  <2> QED
    BY <2>1, OnceUntouched
<1>3. ASSUME NEW r \in Round, NEW reward \in Reward, NEW penalty \in RevealPenalty,
             Finalize(r, reward, penalty)
      PROVE  Once'
  BY <1>3, OnceSettled
<1> QED
  BY <1>1, <1>2, <1>3

\* The calls that only a program without a store makes.
LEMMA OnceManual ==
    ASSUME RoundsFit, CoreInv, Announced(ledger), DOMAIN records \subseteq DOMAIN ledger.bonds, Once, Next
    PROVE  Once'
<1>1. ASSUME NEW v \in Validator, Exit(v)
      PROVE  Once'
  <2>1. /\ ledger'.evidence = ledger.evidence /\ ledger'.epochs = ledger.epochs
        /\ \A e \in ledger'.events : e[1] = "REWARD" => e \in ledger.events
    BY <1>1, ExitStep
  <2>2. settled' = settled
    BY <1>1 DEF Exit, beacon
  <2> QED
    BY <2>1, <2>2, OnceUntouched
<1>2. ASSUME NEW v \in Validator, Withdraw(v)
      PROVE  Once'
  <2>1. /\ ledger'.evidence = ledger.evidence /\ ledger'.epochs = ledger.epochs
        /\ \A e \in ledger'.events : e[1] = "REWARD" => e \in ledger.events
    BY <1>2, WithdrawStep
  <2>2. settled' = settled
    BY <1>2 DEF Withdraw, beacon
  <2> QED
    BY <2>1, <2>2, OnceUntouched
<1>3. ASSUME NEW c \in Claim, c[1] \in DOMAIN records, NEW amount \in Penalties(c[1]),
             Slash(c[1], c[2], c[3], amount) \/ SlashFromFuture(c[1], c[2], c[3], amount)
      PROVE  Once'
  <2> DEFINE v == c[1]
             ep == c[2]
             n == c[3]
  <2>1. v \in Validator /\ ep \in Nat /\ amount \in Nat
    BY <1>3, ClaimTypes
  <2>2. Slash(v, ep, n, amount) \/ SlashFromFuture(v, ep, n, amount)
    BY <1>3
  <2> HIDE DEF v, ep, n
  <2>3. /\ Fined(ledger, ledger')
        /\ \A x : x \in ledger'.evidence =>
              x \in ledger.evidence \/ x = Evidence("EQUIVOCATION", ep, n, v)
    BY <2>1, <2>2, SlashStep
  <2>4. \A q, r, w : NonReveal(q, r, w) # Evidence("EQUIVOCATION", ep, n, v)
    BY DEF NonReveal, Evidence
  <2>5. settled' = settled
    BY <2>2 DEF Slash, SlashFromFuture, beacon
  <2>6. /\ \A q, r, w : NonReveal(q, r, w) \in ledger'.evidence =>
                           NonReveal(q, r, w) \in ledger.evidence
        /\ ledger'.epochs = ledger.epochs
        /\ \A e \in ledger'.events : e[1] = "REWARD" => e \in ledger.events
    BY <2>3, <2>4 DEF Fined
  <2> QED
    BY <2>5, <2>6, OnceUntouched
<1>4. ASSUME \/ AdvanceEpoch
             \/ \E d \in Donation : FundAccount(d)
             \/ \E f \in Fee : ChargeFee(f)
      PROVE  Once'
  <2>1. /\ ledger'.evidence = ledger.evidence /\ ledger'.epochs = ledger.epochs
        /\ settled' = settled
        /\ \A e \in ledger'.events : e[1] = "REWARD" => e \in ledger.events
    BY <1>4, OtherStep
  <2> QED
    BY <2>1, OnceUntouched
<1>5. CASE \/ \E v \in Validator : Admit(v)
           \/ \E v \in Validator, r \in Round : SubmitCommitment(v, r)
           \/ \E c \in commitments : SubmitReveal(c)
           \/ \E r \in Round, reward \in Reward, penalty \in RevealPenalty :
                Finalize(r, reward, penalty)
  BY <1>5, OnceStep
<1> QED
  <2>1. CASE \E v \in Validator : Exit(v) \/ Withdraw(v)
    BY <2>1, <1>1, <1>2
  <2>2. CASE \E c \in {d \in Claim : d[1] \in DOMAIN records} :
               \E amount \in Penalties(c[1]) :
                 Slash(c[1], c[2], c[3], amount) \/ SlashFromFuture(c[1], c[2], c[3], amount)
    BY <2>2, <1>3
  <2>3. CASE AdvanceEpoch \/ (\E d \in Donation : FundAccount(d)) \/ (\E f \in Fee : ChargeFee(f))
    BY <2>3, <1>4
  <2> QED
    BY <1>5, <2>1, <2>2, <2>3 DEF Next

\* OnceInv, for every step.
LEMMA OnceKept ==
    ASSUME RoundsFit, KeptInv, ExactInv, OnceInv, [NextAny]_allVars
    PROVE  OnceInv'
<1> SUFFICES ASSUME restarts' = 0
             PROVE  Once'
  BY DEF OnceInv
<1>1. CoreInv /\ Announced(ledger) /\ DOMAIN records \subseteq DOMAIN ledger.bonds /\ restarts \in Nat
  BY BondedMembers DEF KeptInv
<1>2. CASE UNCHANGED allVars
  <2>1. Once /\ UNCHANGED <<ledger, settled>>
    BY <1>2 DEF allVars, vars, OnceInv
  <2> QED
    BY <2>1, OnceUntouched
<1>3. CASE store = NoStore /\ Next /\ UNCHANGED <<store, restarts>>
  <2>1. Once
    BY <1>3 DEF OnceInv
  <2> QED
    BY <1>1, <1>3, <2>1, OnceManual
<1>4. CASE store # NoStore /\ NodeNext
  <2>1. ~Restart /\ \A v \in Validator : ~CrashInOnboard(v)
    BY <1>1 DEF Restart, CrashInOnboard
  <2>2. /\ UNCHANGED restarts
        /\ \/ \E v \in Validator : Admit(v)
           \/ \E v \in Validator, r \in Round : SubmitCommitment(v, r)
           \/ \E c \in commitments : SubmitReveal(c)
           \/ \E r \in Round, reward \in Reward, penalty \in RevealPenalty :
                Finalize(r, reward, penalty)
    BY <1>4, <2>1 DEF NodeNext, Onboard, OnCommit, OnReveal, OnFinalize
  <2>3. Once
    BY <2>2 DEF OnceInv
  <2> QED
    BY <1>1, <2>2, <2>3, OnceStep
<1> QED
  BY <1>2, <1>3, <1>4 DEF NextAny

\* RewardOrPenalty: until a restart nobody is both rewarded and penalised for one
\* round, if slash takes whole stakes and RewardKey tells rounds apart (finalize,
\* settle_round): then a settlement that starts also returns, so it is not
\* repeated after a late reveal.
THEOREM RewardedOrPenalised ==
    ASSUME PartialPenalty = {}, RoundsFit
    PROVE  SpecAny => []RewardOrPenalty
<1>1. InitAny => ExactInv /\ OnceInv
  BY ExactInit, OnceInit DEF OnceInv
<1>2. KeptInv /\ KeptInv' /\ ExactInv /\ OnceInv /\ [NextAny]_allVars => ExactInv' /\ OnceInv'
  BY ExactKept, OnceKept
<1>3. OnceInv => RewardOrPenalty
  BY DEF OnceInv, Once, RewardOrPenalty, Entries, Of
<1> QED
  BY <1>1, <1>2, <1>3, InvariantIsKept, PTL DEF SpecAny

\* RewardOrPenalty at a node, whatever penalties a caller of slash may choose: there
\* only the settlement of a round slashes (finalize, settle_round).
THEOREM NodesRewardOrPenalise ==
    ASSUME RoundsFit
    PROVE  SpecAny => [](store # NoStore => RewardOrPenalty)
<1> DEFINE Inv == store # NoStore => OnceInv
<1>1. InitAny => Inv
  BY OnceInit DEF OnceInv
<1>2. KeptInv /\ Inv /\ [NextAny]_allVars => Inv'
  <2> SUFFICES ASSUME KeptInv, Inv, [NextAny]_allVars, store' # NoStore
               PROVE  OnceInv'
    OBVIOUS
  <2>1. store # NoStore
    BY DEF NextAny, allVars
  <2>2. ExactInv
    BY <2>1 DEF ExactInv
  <2> QED
    BY <2>1, <2>2, OnceKept
<1>3. Inv => (store # NoStore => RewardOrPenalty)
  BY DEF OnceInv, Once, RewardOrPenalty, Entries, Of
<1> QED
  <2> HIDE DEF Inv
  <2> QED
    BY <1>1, <1>2, <1>3, InvariantIsKept, PTL DEF SpecAny

=============================================================================
