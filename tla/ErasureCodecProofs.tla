------------------------- MODULE ErasureCodecProofs -------------------------
(***************************************************************************)
(* The arithmetic of the erasure codec, for every number of data and of    *)
(* parity shards: GF(256) is a field, in which _gf_inv inverts; the        *)
(* elimination of _matrix_inverse finds the inverse of every matrix that   *)
(* has one; recover computes the payload from any k shards whose rows of   *)
(* the encoding matrix are independent; and which codes have only such     *)
(* rows: those with one parity shard or at most three data shards, the 5 + *)
(* 3 that the daemon runs by default and the 4 + 2 of the repair test.     *)
(***************************************************************************)
EXTENDS ErasureCodec, FiniteSetTheorems, WellFoundedInduction, TLAPS

-----------------------------------------------------------------------------
(***************************************************************************)
(* Induction, for a set of instances in place of a predicate.              *)
(***************************************************************************)

\* Induction over the numbers up to n.
LEMMA UpTo ==
    ASSUME NEW n \in Nat, NEW G, 0 \in G,
           \A i \in 0 .. n : i + 1 <= n /\ i \in G => i + 1 \in G
    PROVE  \A i \in 0 .. n : i \in G
<1> DEFINE B == {i \in 0 .. n : i \notin G}
<1> SUFFICES ASSUME B # {} PROVE FALSE
  OBVIOUS
<1>1. PICK least \in B : \A i \in B : least <= i
  <2> DEFINE R == OpToRel(<, Nat)
  <2>1. IsWellFoundedOn(R, Nat)
    BY NatLessThanWellFounded
  <2>2. \A i, j \in Nat : i < j => <<i, j>> \in R
    BY DEF OpToRel
  <2>3. B \in SUBSET Nat
    OBVIOUS
  <2> HIDE DEF R, B
  <2>4. PICK x \in B : \A y \in B : ~(<<y, x>> \in R)
    BY <2>1, <2>3, WFMin
  <2>5. \A y \in B : x \in Nat /\ y \in Nat /\ ~(y < x)
    BY <2>2, <2>3, <2>4
  <2>6. \A y \in B : x <= y
    BY <2>5
  <2> QED
    BY <2>6
<1>2. least \in 1 .. n
  OBVIOUS
<1>3. least - 1 \in 0 .. n /\ least - 1 \notin B /\ (least - 1) + 1 = least
  BY <1>1, <1>2
<1> QED
  BY <1>2, <1>3

\* Induction over the finite sets up to S.
LEMMA OneByOne ==
    ASSUME NEW S, IsFiniteSet(S), NEW G, {} \in G,
           \A T \in SUBSET S : \A x \in S \ T : T \in G => T \cup {x} \in G
    PROVE  S \in G
<1> DEFINE n == Cardinality(S)
           H == {i \in 0 .. n : \A T \in SUBSET S : Cardinality(T) = i => T \in G}
<1>1. n \in Nat
  BY FS_CardinalityType
<1>2. 0 \in H
  BY <1>1, FS_EmptySet, FS_Subset
<1>3. ASSUME NEW i \in 0 .. n, i + 1 <= n, i \in H
      PROVE  i + 1 \in H
  <2> SUFFICES ASSUME NEW T \in SUBSET S, Cardinality(T) = i + 1
               PROVE  T \in G
    BY <1>1, <1>3
  <2>1. IsFiniteSet(T)
    BY FS_Subset
  <2>2. PICK x \in T : TRUE
    <3>1. Cardinality(T) # 0
      BY <1>1, <1>3
    <3> QED
      BY <3>1, FS_EmptySet
  <2>3. Cardinality(T \ {x}) = i
    <3>1. Cardinality(T \ {x}) = Cardinality(T) - 1
      BY <2>1, <2>2, FS_RemoveElement
    <3> QED
      BY <1>1, <1>3, <3>1
  <2>4. T \ {x} \in G
    BY <1>3, <2>3
  <2>5. (T \ {x}) \cup {x} \in G
    BY <2>2, <2>4
  <2> QED
    BY <2>2, <2>5
<1> HIDE DEF n, H
<1>4. n \in H
  BY <1>1, <1>2, <1>3, UpTo
<1> QED
  BY <1>1, <1>4 DEF n, H

\* f[i] is the value after i turns of a loop: turn i replaces v by step[i][v].
Iterates(f, step, base, n, V) ==
    /\ f \in [0 .. n -> V]
    /\ f[0] = base
    /\ \A i \in 1 .. n : f[i] = step[i][f[i - 1]]

Steps(n, V) == [1 .. n -> [V -> V]]

\* A function that is defined by recursion on 0 .. n exists.
LEMMA Recursion ==
    ASSUME NEW n \in Nat, NEW V, NEW base \in V, NEW step \in Steps(n, V)
    PROVE  \E f : Iterates(f, step, base, n, V)
<1> DEFINE G == {m \in 0 .. n : \E f : Iterates(f, step, base, m, V)}
<1>1. 0 \in G
  <2> DEFINE f == [i \in 0 .. 0 |-> base]
  <2>1. Iterates(f, step, base, 0, V)
    BY DEF Iterates
  <2> HIDE DEF f
  <2>2. \E g : Iterates(g, step, base, 0, V)
    BY <2>1
  <2> QED
    BY <2>2
<1>2. ASSUME NEW m \in 0 .. n, m + 1 <= n, m \in G
      PROVE  m + 1 \in G
  <2>1. PICK f : Iterates(f, step, base, m, V)
    BY <1>2
  <2> DEFINE g == [i \in 0 .. m + 1 |-> IF i = m + 1 THEN step[i][f[m]] ELSE f[i]]
  <2>2. step[m + 1][f[m]] \in V
    BY <1>2, <2>1 DEF Iterates, Steps
  <2>3. Iterates(g, step, base, m + 1, V)
    BY <2>1, <2>2 DEF Iterates
  <2> HIDE DEF g
  <2> QED
    BY <1>2, <2>3
<1> HIDE DEF G
<1>3. n \in G
  <2>1. \A i \in 0 .. n : i + 1 <= n /\ i \in G => i + 1 \in G
    BY <1>2
  <2>2. \A i \in 0 .. n : i \in G
    BY <1>1, <2>1, UpTo
  <2> QED
    BY <2>2
<1> QED
  BY <1>3 DEF G

-----------------------------------------------------------------------------
(***************************************************************************)
(* Exclusive or, of two bytes and over a finite set.                       *)
(***************************************************************************)

\* Bytes form a group in which every byte is its own inverse.
LEMMA XorGroup ==
    ASSUME NEW a, NEW b, NEW c
    PROVE  /\ Xor(a, b) = Xor(b, a)
           /\ Xor(a, Xor(b, c)) = Xor(Xor(a, b), c)
           /\ Xor(a, Zero) = a /\ Xor(Zero, a) = a
           /\ Xor(a, a) = Zero
           /\ Xor(a, b) = Zero => a = b
           /\ a \in Byte /\ b \in Byte => Xor(a, b) \in Byte
BY DEF Xor, Zero, Byte

\* Terms may change places.
LEMMA XorRegroup ==
    ASSUME NEW a, NEW b, NEW c, NEW d
    PROVE  Xor(Xor(a, b), Xor(c, d)) = Xor(Xor(a, c), Xor(b, d))
BY DEF Xor

\* What is in an exclusive or of bytes.
LEMMA XorBit ==
    ASSUME NEW a, NEW b, NEW bit
    PROVE  bit \in Xor(a, b) <=> ~(bit \in a <=> bit \in b)
BY DEF Xor

\* A sum over any set is a byte.
LEMMA XorType ==
    ASSUME NEW S, NEW f
    PROVE  XorOver(S, f) \in Byte
BY DEF XorOver, Byte

\* Only the terms of S count.
LEMMA XorSame ==
    ASSUME NEW S, NEW f, NEW g, \A i \in S : f[i] = g[i]
    PROVE  XorOver(S, f) = XorOver(S, g)
<1>1. \A bit : {i \in S : bit \in f[i]} = {i \in S : bit \in g[i]}
  OBVIOUS
<1> QED
  BY <1>1 DEF XorOver

\* Terms that are zero do not count.
LEMMA XorSupport ==
    ASSUME NEW S, NEW T \in SUBSET S, NEW f, \A i \in S \ T : f[i] = Zero
    PROVE  XorOver(S, f) = XorOver(T, f)
<1>1. \A bit : {i \in S : bit \in f[i]} = {i \in T : bit \in f[i]}
  BY DEF Zero
<1> QED
  BY <1>1 DEF XorOver

\* A sum without terms is zero.
LEMMA XorNothing ==
    ASSUME NEW f
    PROVE  XorOver({}, f) = Zero
<1>1. \A bit : {i \in {} : bit \in f[i]} = {}
  OBVIOUS
<1>2. Cardinality({}) % 2 # 1
  BY FS_EmptySet
<1> QED
  BY <1>1, <1>2 DEF XorOver, Zero

\* One term more.
LEMMA XorMore ==
    ASSUME NEW S, IsFiniteSet(S), NEW x, x \notin S, NEW f, f[x] \in Byte
    PROVE  XorOver(S \cup {x}, f) = Xor(XorOver(S, f), f[x])
<1> DEFINE Ones(T, bit) == {i \in T : bit \in f[i]}
<1>1. ASSUME NEW bit \in 0 .. 7
      PROVE  bit \in XorOver(S \cup {x}, f) <=> bit \in Xor(XorOver(S, f), f[x])
  <2>1. IsFiniteSet(Ones(S, bit)) /\ Cardinality(Ones(S, bit)) \in Nat
    BY FS_Subset, FS_CardinalityType
  <2>2. CASE bit \in f[x]
    <3>1. Ones(S \cup {x}, bit) = Ones(S, bit) \cup {x} /\ x \notin Ones(S, bit)
      BY <2>2
    <3> HIDE DEF Ones
    <3>2. Cardinality(Ones(S \cup {x}, bit)) = Cardinality(Ones(S, bit)) + 1
      BY <2>1, <3>1, FS_AddElement
    <3>3. Cardinality(Ones(S \cup {x}, bit)) % 2 = 1 <=> Cardinality(Ones(S, bit)) % 2 # 1
      BY <2>1, <3>2
    <3> QED
      BY <2>2, <3>3 DEF XorOver, Xor, Ones
  <2>3. CASE bit \notin f[x]
    <3>1. Ones(S \cup {x}, bit) = Ones(S, bit)
      BY <2>3
    <3> QED
      BY <2>3, <3>1 DEF XorOver, Xor
  <2> QED
    BY <2>2, <2>3
<1>2. XorOver(S \cup {x}, f) \in Byte /\ Xor(XorOver(S, f), f[x]) \in Byte
  BY XorType, XorGroup
<1> QED
  BY <1>1, <1>2 DEF Byte

\* A single term.
LEMMA XorSingle ==
    ASSUME NEW S, NEW x \in S, NEW f, f[x] \in Byte, \A i \in S : i # x => f[i] = Zero
    PROVE  XorOver(S, f) = f[x]
<1>1. XorOver(S, f) = XorOver({x}, f)
  BY XorSupport
<1>2. XorOver({} \cup {x}, f) = Xor(XorOver({}, f), f[x])
  BY XorMore, FS_EmptySet
<1>3. {} \cup {x} = {x}
  OBVIOUS
<1> QED
  BY <1>1, <1>2, <1>3, XorNothing, XorGroup

\* The exclusive or of sums is the sum of exclusive ors.
LEMMA XorTerms ==
    ASSUME NEW S, IsFiniteSet(S), NEW f, NEW g, NEW h,
           \A i \in S : f[i] \in Byte /\ g[i] \in Byte /\ h[i] = Xor(f[i], g[i])
    PROVE  XorOver(S, h) = Xor(XorOver(S, f), XorOver(S, g))
<1> DEFINE G == {T \in SUBSET S : XorOver(T, h) = Xor(XorOver(T, f), XorOver(T, g))}
<1>1. {} \in G
  BY XorNothing, XorGroup
<1>2. ASSUME NEW T \in SUBSET S, NEW x \in S \ T, T \in G
      PROVE  T \cup {x} \in G
  <2>1. f[x] \in Byte /\ g[x] \in Byte /\ h[x] = Xor(f[x], g[x])
    OBVIOUS
  <2>2. IsFiniteSet(T) /\ h[x] \in Byte
    BY <2>1, FS_Subset, XorGroup
  <2>3. /\ XorOver(T \cup {x}, f) = Xor(XorOver(T, f), f[x])
        /\ XorOver(T \cup {x}, g) = Xor(XorOver(T, g), g[x])
        /\ XorOver(T \cup {x}, h) = Xor(XorOver(T, h), h[x])
    BY <2>1, <2>2, XorMore
  <2>4. XorOver(T, h) = Xor(XorOver(T, f), XorOver(T, g))
    BY <1>2
  <2>5. XorOver(T \cup {x}, h) = Xor(XorOver(T \cup {x}, f), XorOver(T \cup {x}, g))
    BY <2>1, <2>3, <2>4, XorRegroup
  <2> QED
    BY <2>5
<1> HIDE DEF G
<1>3. S \in G
  BY <1>1, <1>2, OneByOne
<1> QED
  BY <1>3 DEF G

\* Two sums may change places.
LEMMA XorSwap ==
    ASSUME NEW S, IsFiniteSet(S), NEW T, IsFiniteSet(T), NEW h \in [S -> [T -> Byte]]
    PROVE  XorOver(S, [i \in S |-> XorOver(T, [j \in T |-> h[i][j]])])
              = XorOver(T, [j \in T |-> XorOver(S, [i \in S |-> h[i][j]])])
<1> DEFINE row == [i \in S |-> XorOver(T, [j \in T |-> h[i][j]])]
           col(U) == [j \in T |-> XorOver(U, [i \in S |-> h[i][j]])]
           G == {U \in SUBSET S : XorOver(U, row) = XorOver(T, col(U))}
<1>1. {} \in G
  <2>1. \A j \in T : col({})[j] = Zero
    BY XorNothing
  <2> HIDE DEF row, col
  <2>2. XorOver(T, col({})) = XorOver({}, col({}))
    <3>1. {} \in SUBSET T /\ \A j \in T \ {} : col({})[j] = Zero
      BY <2>1
    <3> QED
      BY <3>1, XorSupport
  <2> QED
    BY <2>2, XorNothing
<1>2. ASSUME NEW U \in SUBSET S, NEW x \in S \ U, U \in G
      PROVE  U \cup {x} \in G
  <2>1. IsFiniteSet(U)
    BY FS_Subset
  <2>2. XorOver(U \cup {x}, row) = Xor(XorOver(U, row), row[x])
    BY <2>1, XorMore, XorType
  <2>3. \A j \in T : col(U \cup {x})[j] = Xor(col(U)[j], h[x][j])
    <3> SUFFICES ASSUME NEW j \in T
                 PROVE  XorOver(U \cup {x}, [i \in S |-> h[i][j]])
                          = Xor(XorOver(U, [i \in S |-> h[i][j]]), h[x][j])
      OBVIOUS
    <3> DEFINE f == [i \in S |-> h[i][j]]
    <3>1. f[x] = h[x][j] /\ f[x] \in Byte
      OBVIOUS
    <3> HIDE DEF f
    <3>2. XorOver(U \cup {x}, f) = Xor(XorOver(U, f), f[x])
      BY <2>1, <3>1, XorMore
    <3> QED
      BY <3>1, <3>2 DEF f
  <2>4. \A j \in T : col(U)[j] \in Byte /\ h[x][j] \in Byte
    BY XorType
  <2>5. row[x] = XorOver(T, h[x])
    BY XorSame
  <2> HIDE DEF row, col
  <2>6. XorOver(T, col(U \cup {x})) = Xor(XorOver(T, col(U)), XorOver(T, h[x]))
    BY <2>3, <2>4, XorTerms
  <2> QED
    BY <1>2, <2>2, <2>5, <2>6
<1> HIDE DEF G
<1>3. S \in G
  BY <1>1, <1>2, OneByOne
<1> QED
  BY <1>3 DEF G

-----------------------------------------------------------------------------
(***************************************************************************)
(* The field: _gf_mul is associative and commutative and distributes over  *)
(* exclusive or.                                                           *)
(***************************************************************************)

\* The intervals from 0 are finite.
LEMMA IntervalsFinite == \A n \in Int : IsFiniteSet(0 .. n)
BY FS_Interval

\* A byte is a finite set.
LEMMA BytesFinite ==
    /\ IsFiniteSet(0 .. 7)
    /\ \A a \in Byte : IsFiniteSet(a)
<1>1. IsFiniteSet(0 .. 7)
  BY IntervalsFinite, 7 \in Int
<1> QED
  BY <1>1, FS_Subset DEF Byte

\* Bytes with the same bits are the same.
LEMMA SameBits ==
    ASSUME NEW a \in Byte, NEW b \in Byte,
           0 \in a <=> 0 \in b, 1 \in a <=> 1 \in b, 2 \in a <=> 2 \in b, 3 \in a <=> 3 \in b,
           4 \in a <=> 4 \in b, 5 \in a <=> 5 \in b, 6 \in a <=> 6 \in b, 7 \in a <=> 7 \in b
    PROVE  a = b
<1>1. \A bit \in 0 .. 7 : bit \in a <=> bit \in b
  OBVIOUS
<1> QED
  BY <1>1 DEF Byte

\* Shift, bit by bit.
LEMMA ShiftBits ==
    ASSUME NEW a \in Byte
    PROVE  /\ Shift(a) \in Byte
           /\ 0 \in Shift(a) <=> 7 \in a
           /\ 1 \in Shift(a) <=> 0 \in a
           /\ 2 \in Shift(a) <=> ~(1 \in a <=> 7 \in a)
           /\ 3 \in Shift(a) <=> ~(2 \in a <=> 7 \in a)
           /\ 4 \in Shift(a) <=> ~(3 \in a <=> 7 \in a)
           /\ 5 \in Shift(a) <=> 4 \in a
           /\ 6 \in Shift(a) <=> 5 \in a
           /\ 7 \in Shift(a) <=> 6 \in a
<1> DEFINE s == {bit + 1 : bit \in a}
<1>1. a \subseteq 0 .. 7
  BY DEF Byte
<1>2. s \subseteq 1 .. 8 /\ \A bit \in 0 .. 7 : bit + 1 \in s <=> bit \in a
  BY <1>1
<1>3. /\ 0 \notin s /\ (1 \in s <=> 0 \in a) /\ (2 \in s <=> 1 \in a) /\ (3 \in s <=> 2 \in a)
      /\ (4 \in s <=> 3 \in a) /\ (5 \in s <=> 4 \in a) /\ (6 \in s <=> 5 \in a)
      /\ (7 \in s <=> 6 \in a) /\ (8 \in s <=> 7 \in a)
  <2>1. 0 + 1 = 1 /\ 1 + 1 = 2 /\ 2 + 1 = 3 /\ 3 + 1 = 4 /\ 4 + 1 = 5 /\ 5 + 1 = 6 /\ 6 + 1 = 7 /\ 7 + 1 = 8
    OBVIOUS
  <2> HIDE DEF s
  <2> QED
    BY <1>2, <2>1
<1> HIDE DEF s
<1>4. Shift(a) = IF 8 \in s THEN Xor(s, GfPoly) ELSE s
  BY DEF Shift, s
<1>5. CASE 8 \in s
  <2>1. Shift(a) = Xor(s, {0, 2, 3, 4, 8})
    BY <1>4, <1>5 DEF GfPoly
  <2>2. \A bit : bit \in Shift(a) <=> ~(bit \in s <=> bit \in {0, 2, 3, 4, 8})
    BY <2>1, XorBit
  <2>3. Shift(a) \subseteq 0 .. 7
    <3>1. \A bit \in s : bit = 8 \/ bit \in 0 .. 7
      BY <1>2
    <3>2. \A bit \in {0, 2, 3, 4, 8} : bit = 8 \/ bit \in 0 .. 7
      OBVIOUS
    <3>3. 8 \notin Shift(a)
      BY <1>5, <2>2
    <3> QED
      BY <2>2, <3>1, <3>2, <3>3
  <2> QED
    BY <1>3, <1>5, <2>2, <2>3 DEF Byte
<1>6. CASE 8 \notin s
  <2>1. Shift(a) = s /\ s \subseteq 0 .. 7
    BY <1>2, <1>4, <1>6
  <2> QED
    BY <1>3, <1>6, <2>1 DEF Byte
<1> QED
  BY <1>5, <1>6

\* Shift distributes over exclusive or.
LEMMA ShiftXor ==
    ASSUME NEW a \in Byte, NEW b \in Byte
    PROVE  Shift(Xor(a, b)) = Xor(Shift(a), Shift(b))
<1> DEFINE l == Shift(Xor(a, b))
           r == Xor(Shift(a), Shift(b))
<1>1. Xor(a, b) \in Byte /\ Shift(a) \in Byte /\ Shift(b) \in Byte
  BY XorGroup, ShiftBits
<1>2. l \in Byte /\ r \in Byte
  BY <1>1, XorGroup, ShiftBits
<1>3. \A bit : bit \in Xor(a, b) <=> ~(bit \in a <=> bit \in b)
  BY XorBit
<1>4. \A bit : bit \in r <=> ~(bit \in Shift(a) <=> bit \in Shift(b))
  BY XorBit
<1> HIDE DEF l, r
<1>5. /\ 0 \in l <=> 7 \in Xor(a, b)
      /\ 1 \in l <=> 0 \in Xor(a, b)
      /\ 2 \in l <=> ~(1 \in Xor(a, b) <=> 7 \in Xor(a, b))
      /\ 3 \in l <=> ~(2 \in Xor(a, b) <=> 7 \in Xor(a, b))
      /\ 4 \in l <=> ~(3 \in Xor(a, b) <=> 7 \in Xor(a, b))
      /\ 5 \in l <=> 4 \in Xor(a, b)
      /\ 6 \in l <=> 5 \in Xor(a, b)
      /\ 7 \in l <=> 6 \in Xor(a, b)
  BY <1>1, ShiftBits DEF l
<1>6. (0 \in l <=> 0 \in r) /\ (1 \in l <=> 1 \in r) /\ (5 \in l <=> 5 \in r)
      /\ (6 \in l <=> 6 \in r) /\ (7 \in l <=> 7 \in r)
  BY <1>3, <1>4, <1>5, ShiftBits
<1>7. (2 \in l <=> 2 \in r) /\ (3 \in l <=> 3 \in r) /\ (4 \in l <=> 4 \in r)
  BY <1>3, <1>4, <1>5, ShiftBits
<1> QED
  BY <1>2, <1>6, <1>7, SameBits DEF l, r

\* The turns of the loop of _gf_mul.
LEMMA MultiplesAre ==
    ASSUME NEW a \in Byte
    PROVE  /\ Multiples[a] \in [0 .. 7 -> Byte]
           /\ Multiples[a][0] = a
           /\ \A i \in 0 .. 6 : Multiples[a][i + 1] = Shift(Multiples[a][i])
<1> DEFINE step == [i \in 1 .. 7 |-> [x \in Byte |-> Shift(x)]]
           Shifted(f) == f = [bit \in 0 .. 7 |-> IF bit = 0 THEN a ELSE Shift(f[bit - 1])]
           shifted == CHOOSE f : Shifted(f)
<1>1. PICK f : Iterates(f, step, a, 7, Byte)
  <2>1. step \in Steps(7, Byte)
    BY ShiftBits DEF Steps
  <2> HIDE DEF step
  <2> QED
    BY <2>1, Recursion
<1>2. Shifted(f)
  <2>1. f \in [0 .. 7 -> Byte] /\ f[0] = a /\ \A i \in 1 .. 7 : f[i] = step[i][f[i - 1]]
    BY <1>1 DEF Iterates
  <2>2. \A i \in 1 .. 7 : step[i][f[i - 1]] = Shift(f[i - 1])
    BY <2>1
  <2> HIDE DEF step
  <2> QED
    BY <2>1, <2>2
<1>3. Shifted(shifted)
  <2> HIDE DEF Shifted
  <2> QED
    BY <1>2
<1>4. Multiples[a] = [bit \in 0 .. 7 |-> shifted[bit]]
  BY DEF Multiples
<1> HIDE DEF shifted
<1>5. /\ DOMAIN shifted = 0 .. 7 /\ shifted[0] = a
      /\ \A i \in 0 .. 6 : shifted[i + 1] = Shift(shifted[i])
  BY <1>3
<1>6. \A i \in 0 .. 7 : shifted[i] \in Byte
  <2> DEFINE G == {i \in 0 .. 7 : shifted[i] \in Byte}
  <2>1. 0 \in G
    BY <1>5
  <2>2. \A i \in 0 .. 7 : i + 1 <= 7 /\ i \in G => i + 1 \in G
    BY <1>5, ShiftBits
  <2> HIDE DEF G
  <2>3. \A i \in 0 .. 7 : i \in G
    BY <2>1, <2>2, UpTo
  <2> QED
    BY <2>3 DEF G
<1> QED
  BY <1>4, <1>5, <1>6

\* Functions on bytes that distribute over exclusive or.
IsAdditive(F) ==
    /\ F \in [Byte -> Byte]
    /\ \A a, b \in Byte : F[Xor(a, b)] = Xor(F[a], F[b])

\* They are determined by their values at single bits.
LEMMA AdditiveByBits ==
    ASSUME NEW F, IsAdditive(F), NEW G, IsAdditive(G), \A i \in 0 .. 7 : F[{i}] = G[{i}],
           NEW a \in Byte
    PROVE  F[a] = G[a]
<1> DEFINE H == {T \in SUBSET a : F[T] = G[T]}
<1>1. a \subseteq 0 .. 7 /\ IsFiniteSet(a)
  BY BytesFinite DEF Byte
<1>2. {} \in H
  <2>1. Zero \in Byte /\ Xor(Zero, Zero) = Zero
    BY XorGroup DEF Zero, Byte
  <2>2. F[Zero] = Xor(F[Zero], F[Zero]) /\ G[Zero] = Xor(G[Zero], G[Zero])
    BY <2>1 DEF IsAdditive
  <2>3. F[Zero] = Zero /\ G[Zero] = Zero
    BY <2>2, XorGroup
  <2> QED
    BY <2>3 DEF Zero
<1>3. ASSUME NEW T \in SUBSET a, NEW x \in a \ T, T \in H
      PROVE  T \cup {x} \in H
  <2>1. T \in Byte /\ {x} \in Byte /\ x \in 0 .. 7
    BY <1>1 DEF Byte
  <2>2. T \cup {x} = Xor(T, {x})
    BY DEF Xor
  <2>3. F[Xor(T, {x})] = Xor(F[T], F[{x}]) /\ G[Xor(T, {x})] = Xor(G[T], G[{x}])
    BY <2>1 DEF IsAdditive
  <2>4. F[T \cup {x}] = G[T \cup {x}]
    BY <1>3, <2>1, <2>2, <2>3
  <2> QED
    BY <2>4
<1> HIDE DEF H
<1>4. a \in H
  BY <1>1, <1>2, <1>3, OneByOne
<1> QED
  BY <1>4 DEF H

\* A product of bytes is a byte.
LEMMA MulType ==
    ASSUME NEW a, NEW b
    PROVE  GfMul(a, b) \in Byte
BY XorType DEF GfMul

\* Bytes of one bit.
LEMMA Bits ==
    /\ \A i \in 0 .. 7 : {i} \in Byte
    /\ Zero \in Byte /\ One \in Byte /\ One # Zero
    /\ \A i \in 0 .. 6 : Shift({i}) = {i + 1}
<1>1. \A i \in 0 .. 7 : {i} \in Byte
  BY DEF Byte
<1>2. ASSUME NEW i \in 0 .. 6
      PROVE  Shift({i}) = {i + 1}
  <2>1. {bit + 1 : bit \in {i}} = {i + 1} /\ 8 \notin {i + 1}
    OBVIOUS
  <2> QED
    BY <2>1 DEF Shift
<1> QED
  BY <1>1, <1>2 DEF Zero, One, Byte

\* _gf_mul by a single bit is one of the shifted factors.
LEMMA MulBit ==
    ASSUME NEW a \in Byte, NEW i \in 0 .. 7
    PROVE  GfMul(a, {i}) = Multiples[a][i]
<1>1. Multiples[a][i] \in Byte
  BY MultiplesAre
<1> QED
  BY <1>1, XorSingle DEF GfMul

\* _gf_mul distributes over exclusive or in its right argument.
LEMMA MulXorRight ==
    ASSUME NEW a \in Byte, NEW b \in Byte, NEW c \in Byte
    PROVE  GfMul(a, Xor(b, c)) = Xor(GfMul(a, b), GfMul(a, c))
<1> DEFINE T == 0 .. 7
           M == Multiples[a]
           terms(d) == [i \in T |-> IF i \in d THEN M[i] ELSE Zero]
<1>1. M \in [T -> Byte] /\ Zero \in Byte /\ IsFiniteSet(T)
  BY MultiplesAre, Bits, BytesFinite
<1>2. ASSUME NEW d \in Byte
      PROVE  XorOver(d, M) = XorOver(T, terms(d))
  <2>1. d \in SUBSET T /\ \A i \in T \ d : terms(d)[i] = Zero
    BY DEF Byte
  <2>2. \A i \in d : terms(d)[i] = M[i]
    BY <2>1
  <2> HIDE DEF terms
  <2>3. XorOver(T, terms(d)) = XorOver(d, terms(d))
    BY <2>1, XorSupport
  <2>4. XorOver(d, terms(d)) = XorOver(d, M)
    BY <2>2, XorSame
  <2> QED
    BY <2>3, <2>4
<1>3. ASSUME NEW i \in T
      PROVE  /\ terms(b)[i] \in Byte /\ terms(c)[i] \in Byte
             /\ terms(Xor(b, c))[i] = Xor(terms(b)[i], terms(c)[i])
  <2>1. M[i] \in Byte
    BY <1>1
  <2>2. i \in Xor(b, c) <=> ~(i \in b <=> i \in c)
    BY XorBit
  <2>3. /\ Xor(M[i], M[i]) = Zero /\ Xor(M[i], Zero) = M[i]
        /\ Xor(Zero, M[i]) = M[i] /\ Xor(Zero, Zero) = Zero
    BY XorGroup
  <2> QED
    BY <1>1, <2>1, <2>2, <2>3
<1> HIDE DEF T, terms
<1>4. XorOver(T, terms(Xor(b, c))) = Xor(XorOver(T, terms(b)), XorOver(T, terms(c)))
  BY <1>1, <1>3, XorTerms
<1>5. Xor(b, c) \in Byte
  BY XorGroup
<1> QED
  BY <1>2, <1>4, <1>5 DEF GfMul

\* And in its left one.
LEMMA MulXorLeft ==
    ASSUME NEW a \in Byte, NEW b \in Byte, NEW c \in Byte
    PROVE  GfMul(Xor(a, b), c) = Xor(GfMul(a, c), GfMul(b, c))
<1>1. Xor(a, b) \in Byte
  BY XorGroup
<1> DEFINE G == {i \in 0 .. 7 : Multiples[Xor(a, b)][i] = Xor(Multiples[a][i], Multiples[b][i])}
<1>2. 0 \in G
  BY <1>1, MultiplesAre
<1>3. ASSUME NEW i \in 0 .. 7, i + 1 <= 7, i \in G
      PROVE  i + 1 \in G
  <2>1. i \in 0 .. 6 /\ i + 1 \in 0 .. 7
    BY <1>3
  <2>2. Multiples[a][i] \in Byte /\ Multiples[b][i] \in Byte
    BY MultiplesAre
  <2>3. Shift(Multiples[Xor(a, b)][i]) = Xor(Shift(Multiples[a][i]), Shift(Multiples[b][i]))
    BY <1>3, <2>2, ShiftXor
  <2>4. Multiples[Xor(a, b)][i + 1] = Xor(Multiples[a][i + 1], Multiples[b][i + 1])
    BY <1>1, <2>1, <2>3, MultiplesAre
  <2> QED
    BY <2>1, <2>4
<1> HIDE DEF G
<1>4. \A i \in 0 .. 7 : i \in G
  BY <1>2, <1>3, UpTo
<1>5. \A i \in c : /\ Multiples[a][i] \in Byte /\ Multiples[b][i] \in Byte
                   /\ Multiples[Xor(a, b)][i] = Xor(Multiples[a][i], Multiples[b][i])
  BY <1>4, MultiplesAre DEF G, Byte
<1>6. IsFiniteSet(c)
  BY BytesFinite
<1> QED
  BY <1>5, <1>6, XorTerms DEF GfMul

\* _gf_mul is additive in each argument.
LEMMA MulAdditive ==
    ASSUME NEW a \in Byte
    PROVE  /\ IsAdditive([x \in Byte |-> GfMul(a, x)])
           /\ IsAdditive([x \in Byte |-> GfMul(x, a)])
<1>1. \A x, y \in Byte : Xor(x, y) \in Byte
  BY XorGroup
<1>2. \A x, y \in Byte : GfMul(a, Xor(x, y)) = Xor(GfMul(a, x), GfMul(a, y))
  BY MulXorRight
<1>3. \A x, y \in Byte : GfMul(Xor(x, y), a) = Xor(GfMul(x, a), GfMul(y, a))
  BY MulXorLeft
<1>4. \A x \in Byte : GfMul(a, x) \in Byte /\ GfMul(x, a) \in Byte
  BY MulType
<1> QED
  BY <1>1, <1>2, <1>3, <1>4 DEF IsAdditive

\* _gf_mul by zero.
LEMMA MulZero ==
    ASSUME NEW a \in Byte
    PROVE  GfMul(a, Zero) = Zero /\ GfMul(Zero, a) = Zero
<1>1. Zero \in Byte /\ Xor(Zero, Zero) = Zero
  BY Bits, XorGroup
<1>2. GfMul(a, Zero) = Xor(GfMul(a, Zero), GfMul(a, Zero))
  BY <1>1, MulXorRight
<1>3. GfMul(Zero, a) = Xor(GfMul(Zero, a), GfMul(Zero, a))
  BY <1>1, MulXorLeft
<1> QED
  BY <1>2, <1>3, XorGroup

\* A factor may be shifted before or after.
LEMMA MulShift ==
    ASSUME NEW a \in Byte, NEW b \in Byte
    PROVE  GfMul(Shift(a), b) = Shift(GfMul(a, b))
<1> DEFINE F == [x \in Byte |-> GfMul(Shift(a), x)]
           G == [x \in Byte |-> Shift(GfMul(a, x))]
<1>1. Shift(a) \in Byte
  BY ShiftBits
<1>2. IsAdditive(F)
  BY <1>1, MulAdditive
<1>3. IsAdditive(G)
  <2>1. ASSUME NEW x \in Byte, NEW y \in Byte
        PROVE  /\ Xor(x, y) \in Byte
               /\ Shift(GfMul(a, Xor(x, y))) = Xor(Shift(GfMul(a, x)), Shift(GfMul(a, y)))
    <3>1. GfMul(a, x) \in Byte /\ GfMul(a, y) \in Byte
      BY MulType
    <3> QED
      BY <3>1, MulXorRight, ShiftXor, XorGroup
  <2>2. \A x \in Byte : Shift(GfMul(a, x)) \in Byte
    BY MulType, ShiftBits
  <2> QED
    BY <2>1, <2>2 DEF IsAdditive
<1>4. ASSUME NEW i \in 0 .. 7
      PROVE  F[{i}] = G[{i}]
  <2> DEFINE H == {j \in 0 .. 7 : Multiples[Shift(a)][j] = Shift(Multiples[a][j])}
  <2>1. 0 \in H
    BY <1>1, MultiplesAre
  <2>2. ASSUME NEW j \in 0 .. 7, j + 1 <= 7, j \in H
        PROVE  j + 1 \in H
    <3>1. j \in 0 .. 6 /\ j + 1 \in 0 .. 7
      BY <2>2
    <3>2. /\ Multiples[Shift(a)][j + 1] = Shift(Multiples[Shift(a)][j])
          /\ Multiples[a][j + 1] = Shift(Multiples[a][j])
      BY <1>1, <3>1, MultiplesAre
    <3> QED
      BY <2>2, <3>1, <3>2
  <2> HIDE DEF H
  <2>3. i \in H
    BY <2>1, <2>2, UpTo
  <2>4. GfMul(Shift(a), {i}) = Multiples[Shift(a)][i] /\ GfMul(a, {i}) = Multiples[a][i]
    BY <1>1, MulBit
  <2> QED
    BY <2>3, <2>4, Bits DEF H
<1> HIDE DEF F, G
<1>5. F[b] = G[b]
  BY <1>2, <1>3, <1>4, AdditiveByBits
<1> QED
  BY <1>5 DEF F, G

\* _gf_mul by one.
LEMMA MulOne ==
    ASSUME NEW a \in Byte
    PROVE  GfMul(a, One) = a /\ GfMul(One, a) = a
<1>1. \A x \in Byte : GfMul(x, {0}) = x
  BY MulBit, MultiplesAre
<1>2. ASSUME NEW i \in 0 .. 7
      PROVE  GfMul(One, {i}) = {i}
  <2> DEFINE H == {j \in 0 .. 7 : Multiples[One][j] = {j}}
  <2>1. 0 \in H
    BY MultiplesAre, Bits DEF One
  <2>2. ASSUME NEW j \in 0 .. 7, j + 1 <= 7, j \in H
        PROVE  j + 1 \in H
    <3>1. j \in 0 .. 6 /\ j + 1 \in 0 .. 7
      BY <2>2
    <3>2. Multiples[One][j + 1] = Shift(Multiples[One][j])
      BY <3>1, MultiplesAre, Bits
    <3> QED
      BY <2>2, <3>1, <3>2, Bits
  <2> HIDE DEF H
  <2>3. i \in H
    BY <2>1, <2>2, UpTo
  <2> QED
    BY <2>3, Bits, MulBit DEF H
<1> DEFINE F == [x \in Byte |-> GfMul(One, x)]
           G == [x \in Byte |-> x]
<1>3. IsAdditive(F)
  BY Bits, MulAdditive
<1>4. IsAdditive(G)
  BY XorGroup DEF IsAdditive
<1>5. \A i \in 0 .. 7 : F[{i}] = G[{i}]
  BY <1>2, Bits
<1> HIDE DEF F, G
<1>6. F[a] = G[a]
  BY <1>3, <1>4, <1>5, AdditiveByBits
<1> QED
  BY <1>1, <1>6 DEF F, G, One

\* _gf_mul is commutative: both sides are additive and agree on single bits.
LEMMA MulCommutes ==
    ASSUME NEW a \in Byte, NEW b \in Byte
    PROVE  GfMul(a, b) = GfMul(b, a)
<1> DEFINE F == [x \in Byte |-> GfMul(x, b)]
           G == [x \in Byte |-> GfMul(b, x)]
<1>1. IsAdditive(F) /\ IsAdditive(G)
  BY MulAdditive
<1>2. ASSUME NEW i \in 0 .. 7
      PROVE  F[{i}] = G[{i}]
  <2> DEFINE H == {j \in 0 .. 7 : GfMul({j}, b) = Multiples[b][j]}
  <2>1. 0 \in H
    BY MulOne, MultiplesAre DEF One
  <2>2. ASSUME NEW j \in 0 .. 7, j + 1 <= 7, j \in H
        PROVE  j + 1 \in H
    <3>1. j \in 0 .. 6 /\ j + 1 \in 0 .. 7
      BY <2>2
    <3> {j} \in Byte
      BY Bits
    <3>2. GfMul(Shift({j}), b) = Shift(GfMul({j}, b))
      BY <3>1, MulShift
    <3>3. Multiples[b][j + 1] = Shift(Multiples[b][j])
      BY <3>1, MultiplesAre
    <3> QED
      BY <2>2, <3>1, <3>2, <3>3, Bits
  <2> HIDE DEF H
  <2>3. i \in H
    BY <2>1, <2>2, UpTo
  <2> QED
    BY <2>3, Bits, MulBit DEF H
<1> HIDE DEF F, G
<1>3. F[a] = G[a]
  BY <1>1, <1>2, AdditiveByBits
<1> QED
  BY <1>3 DEF F, G

\* _gf_mul is associative.
LEMMA MulAssociates ==
    ASSUME NEW a \in Byte, NEW b \in Byte, NEW c \in Byte
    PROVE  GfMul(GfMul(a, b), c) = GfMul(a, GfMul(b, c))
<1> DEFINE F == [x \in Byte |-> GfMul(GfMul(a, b), x)]
           G == [x \in Byte |-> GfMul(a, GfMul(b, x))]
<1>1. GfMul(a, b) \in Byte
  BY MulType
<1>2. IsAdditive(F)
  BY <1>1, MulAdditive
<1>3. IsAdditive(G)
  <2>1. ASSUME NEW x \in Byte, NEW y \in Byte
        PROVE  /\ Xor(x, y) \in Byte
               /\ GfMul(a, GfMul(b, Xor(x, y))) = Xor(GfMul(a, GfMul(b, x)), GfMul(a, GfMul(b, y)))
    <3>1. GfMul(b, x) \in Byte /\ GfMul(b, y) \in Byte
      BY MulType
    <3>2. GfMul(b, Xor(x, y)) = Xor(GfMul(b, x), GfMul(b, y))
      BY MulXorRight
    <3>3. GfMul(a, Xor(GfMul(b, x), GfMul(b, y))) = Xor(GfMul(a, GfMul(b, x)), GfMul(a, GfMul(b, y)))
      BY <3>1, MulXorRight
    <3> QED
      BY <3>2, <3>3, XorGroup
  <2> QED
    BY <2>1, MulType DEF IsAdditive
<1>4. ASSUME NEW i \in 0 .. 7
      PROVE  F[{i}] = G[{i}]
  <2> DEFINE H == {j \in 0 .. 7 : Multiples[GfMul(a, b)][j] = GfMul(a, Multiples[b][j])}
  <2>1. 0 \in H
    BY <1>1, MultiplesAre
  <2>2. ASSUME NEW j \in 0 .. 7, j + 1 <= 7, j \in H
        PROVE  j + 1 \in H
    <3>1. j \in 0 .. 6 /\ j + 1 \in 0 .. 7
      BY <2>2
    <3> DEFINE m == Multiples[b][j]
    <3>2. m \in Byte /\ Shift(m) \in Byte
      BY MultiplesAre, ShiftBits
    <3> HIDE DEF m
    <3>3. GfMul(a, Shift(m)) = GfMul(Shift(m), a) /\ GfMul(Shift(m), a) = Shift(GfMul(m, a))
      BY <3>2, MulCommutes, MulShift
    <3>4. GfMul(m, a) = GfMul(a, m)
      BY <3>2, MulCommutes
    <3>5. /\ Multiples[b][j + 1] = Shift(m)
          /\ Multiples[GfMul(a, b)][j + 1] = Shift(Multiples[GfMul(a, b)][j])
      BY <1>1, <3>1, MultiplesAre DEF m
    <3>6. Multiples[GfMul(a, b)][j] = GfMul(a, m)
      BY <2>2 DEF m
    <3>7. Multiples[GfMul(a, b)][j + 1] = GfMul(a, Multiples[b][j + 1])
      BY <3>3, <3>4, <3>5, <3>6
    <3> QED
      BY <3>1, <3>7
  <2> HIDE DEF H
  <2>3. i \in H
    BY <2>1, <2>2, UpTo
  <2>4. GfMul(GfMul(a, b), {i}) = Multiples[GfMul(a, b)][i] /\ GfMul(b, {i}) = Multiples[b][i]
    BY <1>1, MulBit
  <2> QED
    BY <2>3, <2>4, Bits DEF H
<1> HIDE DEF F, G
<1>5. F[c] = G[c]
  BY <1>2, <1>3, <1>4, AdditiveByBits
<1> QED
  BY <1>5 DEF F, G

\* Squaring, bit by bit, once, twice and four times.
SquareOf(a, r) ==
    /\ 0 \in r <=> ~(0 \in a <=> (4 \in a <=> (6 \in a <=> 7 \in a)))
    /\ 1 \in r <=> 7 \in a
    /\ 2 \in r <=> ~(1 \in a <=> (4 \in a <=> (5 \in a <=> 6 \in a)))
    /\ 3 \in r <=> ~(4 \in a <=> 6 \in a)
    /\ 4 \in r <=> ~(2 \in a <=> (4 \in a <=> (5 \in a <=> 7 \in a)))
    /\ 5 \in r <=> 5 \in a
    /\ 6 \in r <=> (3 \in a <=> (5 \in a <=> 6 \in a))
    /\ 7 \in r <=> 6 \in a

FourthOf(a, r) ==
    /\ 0 \in r <=> ~(0 \in a <=> (2 \in a <=> (3 \in a <=> 6 \in a)))
    /\ 1 \in r <=> 6 \in a
    /\ 2 \in r <=> (2 \in a <=> (3 \in a <=> (4 \in a <=> (5 \in a <=> 6 \in a))))
    /\ 3 \in r <=> (2 \in a <=> (3 \in a <=> (4 \in a <=> (6 \in a <=> 7 \in a))))
    /\ 4 \in r <=> ~(1 \in a <=> (2 \in a <=> (5 \in a <=> 7 \in a)))
    /\ 5 \in r <=> 5 \in a
    /\ 6 \in r <=> ~(3 \in a <=> 4 \in a)
    /\ 7 \in r <=> (3 \in a <=> (5 \in a <=> 6 \in a))

SixteenthOf(a, r) ==
    /\ 0 \in r <=> ~(0 \in a <=> (2 \in a <=> (4 \in a <=> (5 \in a <=> (6 \in a <=> 7 \in a)))))
    /\ 1 \in r <=> ~(3 \in a <=> 4 \in a)
    /\ 2 \in r <=> (1 \in a <=> (2 \in a <=> (3 \in a <=> (4 \in a <=> 5 \in a))))
    /\ 3 \in r <=> (1 \in a <=> (2 \in a <=> (4 \in a <=> (5 \in a <=> 6 \in a))))
    /\ 4 \in r <=> ~(2 \in a <=> (4 \in a <=> (5 \in a <=> 6 \in a)))
    /\ 5 \in r <=> 5 \in a
    /\ 6 \in r <=> (1 \in a <=> (3 \in a <=> (4 \in a <=> (5 \in a <=> 6 \in a))))
    /\ 7 \in r <=> ~(2 \in a <=> (5 \in a <=> (6 \in a <=> 7 \in a)))

\* What two terms share cancels.
LEMMA XorCancel ==
    ASSUME NEW a, NEW b, NEW c
    PROVE  Xor(Xor(a, b), Xor(b, c)) = Xor(a, c)
BY DEF Xor

\* Where Shift reduces by the polynomial.
LEMMA Reduced ==
    /\ Shift({7}) = {0, 2, 3, 4}
    /\ Shift({0, 2, 3, 4}) = {1, 3, 4, 5}
    /\ Shift({1, 3, 4, 5}) = {2, 4, 5, 6}
    /\ Shift({2, 4, 5, 6}) = {3, 5, 6, 7}
    /\ Shift({3, 5, 6, 7}) = {0, 2, 3, 6, 7}
    /\ Shift({0, 2, 3, 6, 7}) = {0, 1, 2, 7}
    /\ Shift({0, 1, 2, 7}) = {0, 1, 4}
<1>1. ASSUME NEW a \in Byte, NEW r \in Byte, NEW s, s = Shift(a),
             0 \in r <=> 7 \in a, 1 \in r <=> 0 \in a,
             2 \in r <=> ~(1 \in a <=> 7 \in a), 3 \in r <=> ~(2 \in a <=> 7 \in a),
             4 \in r <=> ~(3 \in a <=> 7 \in a), 5 \in r <=> 4 \in a,
             6 \in r <=> 5 \in a, 7 \in r <=> 6 \in a
      PROVE  s = r
  BY <1>1, ShiftBits, SameBits
<1>2. {7} \in Byte /\ {0, 2, 3, 4} \in Byte /\ {1, 3, 4, 5} \in Byte /\ {2, 4, 5, 6} \in Byte
      /\ {3, 5, 6, 7} \in Byte /\ {0, 2, 3, 6, 7} \in Byte /\ {0, 1, 2, 7} \in Byte /\ {0, 1, 4} \in Byte
  BY DEF Byte
<1>3. Shift({7}) = {0, 2, 3, 4}
  BY <1>1, <1>2
<1>4. Shift({0, 2, 3, 4}) = {1, 3, 4, 5}
  BY <1>1, <1>2
<1>5. Shift({1, 3, 4, 5}) = {2, 4, 5, 6}
  BY <1>1, <1>2
<1>6. Shift({2, 4, 5, 6}) = {3, 5, 6, 7}
  BY <1>1, <1>2
<1>7. Shift({3, 5, 6, 7}) = {0, 2, 3, 6, 7}
  BY <1>1, <1>2
<1>8. Shift({0, 2, 3, 6, 7}) = {0, 1, 2, 7}
  BY <1>1, <1>2
<1>9. Shift({0, 1, 2, 7}) = {0, 1, 4}
  BY <1>1, <1>2
<1> QED
  BY <1>3, <1>4, <1>5, <1>6, <1>7, <1>8, <1>9

\* The squares of single bits.
LEMMA BitSquares ==
    /\ GfMul({0}, {0}) = {0} /\ GfMul({1}, {1}) = {2}
    /\ GfMul({2}, {2}) = {4} /\ GfMul({3}, {3}) = {6}
    /\ GfMul({4}, {4}) = {0, 2, 3, 4} /\ GfMul({5}, {5}) = {2, 4, 5, 6}
    /\ GfMul({6}, {6}) = {0, 2, 3, 6, 7} /\ GfMul({7}, {7}) = {0, 1, 4}
<1>1. ASSUME NEW i \in 0 .. 6
      PROVE  GfMul({i + 1}, {i + 1}) = Shift(Shift(GfMul({i}, {i})))
  <2>1. {i} \in Byte /\ {i + 1} \in Byte /\ {i + 1} = Shift({i})
    <3>1. i \in 0 .. 7 /\ i + 1 \in 0 .. 7
      OBVIOUS
    <3> QED
      BY <3>1, Bits
  <2>2. GfMul({i + 1}, {i + 1}) = Shift(GfMul({i}, {i + 1}))
    BY <2>1, MulShift
  <2>3. GfMul({i}, {i + 1}) = GfMul({i + 1}, {i}) /\ GfMul({i + 1}, {i}) = Shift(GfMul({i}, {i}))
    BY <2>1, MulCommutes, MulShift
  <2> QED
    BY <2>2, <2>3
<1>2. /\ Shift({0}) = {1} /\ Shift({1}) = {2} /\ Shift({2}) = {3} /\ Shift({3}) = {4}
      /\ Shift({4}) = {5} /\ Shift({5}) = {6} /\ Shift({6}) = {7}
  <2>1. \A i \in 0 .. 6 : Shift({i}) = {i + 1}
    BY Bits
  <2> QED
    BY <2>1
<1>3. /\ GfMul({1}, {1}) = Shift(Shift(GfMul({0}, {0})))
      /\ GfMul({2}, {2}) = Shift(Shift(GfMul({1}, {1})))
      /\ GfMul({3}, {3}) = Shift(Shift(GfMul({2}, {2})))
      /\ GfMul({4}, {4}) = Shift(Shift(GfMul({3}, {3})))
      /\ GfMul({5}, {5}) = Shift(Shift(GfMul({4}, {4})))
      /\ GfMul({6}, {6}) = Shift(Shift(GfMul({5}, {5})))
      /\ GfMul({7}, {7}) = Shift(Shift(GfMul({6}, {6})))
  BY <1>1
<1>4. GfMul({0}, {0}) = {0}
  BY MulOne, Bits DEF One
<1>5. GfMul({1}, {1}) = {2} /\ GfMul({2}, {2}) = {4} /\ GfMul({3}, {3}) = {6}
  BY <1>2, <1>3, <1>4
<1>6. GfMul({4}, {4}) = {0, 2, 3, 4}
  <2>1. Shift({6}) = {7} /\ Shift({7}) = {0, 2, 3, 4}
    BY <1>2, Reduced
  <2>2. GfMul({4}, {4}) = Shift(Shift({6}))
    BY <1>3, <1>5
  <2> QED
    BY <2>1, <2>2
<1>7. GfMul({5}, {5}) = {2, 4, 5, 6}
  BY <1>3, <1>6, Reduced
<1>8. GfMul({6}, {6}) = {0, 2, 3, 6, 7} /\ GfMul({7}, {7}) = {0, 1, 4}
  BY <1>3, <1>7, Reduced
<1> QED
  BY <1>4, <1>5, <1>6, <1>7, <1>8

\* Squaring is additive, and SquareOf says what it does.
LEMMA Squares ==
    ASSUME NEW a \in Byte
    PROVE  SquareOf(a, GfMul(a, a))
<1> DEFINE F == [x \in Byte |-> GfMul(x, x)]
           Out(x) == {bit \in 0 .. 7 :
               \/ bit = 0 /\ (~(0 \in x <=> (4 \in x <=> (6 \in x <=> 7 \in x))))
               \/ bit = 1 /\ (7 \in x)
               \/ bit = 2 /\ (~(1 \in x <=> (4 \in x <=> (5 \in x <=> 6 \in x))))
               \/ bit = 3 /\ (~(4 \in x <=> 6 \in x))
               \/ bit = 4 /\ (~(2 \in x <=> (4 \in x <=> (5 \in x <=> 7 \in x))))
               \/ bit = 5 /\ (5 \in x)
               \/ bit = 6 /\ ((3 \in x <=> (5 \in x <=> 6 \in x)))
               \/ bit = 7 /\ (6 \in x)}
           G == [x \in Byte |-> Out(x)]
<1>1. IsAdditive(F)
  <2>1. ASSUME NEW x \in Byte, NEW y \in Byte
        PROVE  /\ Xor(x, y) \in Byte
               /\ GfMul(Xor(x, y), Xor(x, y)) = Xor(GfMul(x, x), GfMul(y, y))
    <3>1. Xor(x, y) \in Byte
      BY XorGroup
    <3>2. GfMul(Xor(x, y), Xor(x, y)) = Xor(GfMul(x, Xor(x, y)), GfMul(y, Xor(x, y)))
      BY <3>1, MulXorLeft
    <3>3. /\ GfMul(x, Xor(x, y)) = Xor(GfMul(x, x), GfMul(x, y))
          /\ GfMul(y, Xor(x, y)) = Xor(GfMul(y, x), GfMul(y, y))
      BY MulXorRight
    <3>4. GfMul(y, x) = GfMul(x, y)
      BY MulCommutes
    <3> QED
      BY <3>1, <3>2, <3>3, <3>4, XorCancel
  <2> QED
    BY <2>1, MulType DEF IsAdditive
<1>2. ASSUME NEW x \in Byte
      PROVE  Out(x) \in Byte /\ SquareOf(x, Out(x))
  BY DEF SquareOf, Byte
<1> HIDE DEF Out
<1>3. IsAdditive(G)
  <2>1. ASSUME NEW x \in Byte, NEW y \in Byte
        PROVE  Xor(x, y) \in Byte /\ Out(Xor(x, y)) = Xor(Out(x), Out(y))
    <3> DEFINE z == Xor(x, y)
               l == Out(z)
               r == Xor(Out(x), Out(y))
    <3>1. z \in Byte /\ l \in Byte /\ r \in Byte
      BY <1>2, XorGroup
    <3>2. \A bit : bit \in z <=> ~(bit \in x <=> bit \in y)
      BY XorBit
    <3>3. \A bit : bit \in r <=> ~(bit \in Out(x) <=> bit \in Out(y))
      BY XorBit
    <3>4. SquareOf(x, Out(x)) /\ SquareOf(y, Out(y)) /\ SquareOf(z, l)
      BY <1>2, <3>1
    <3> HIDE DEF z, l, r
    <3>5. (0 \in l <=> 0 \in r) /\ (1 \in l <=> 1 \in r)
      BY <3>2, <3>3, <3>4 DEF SquareOf
    <3>6. (2 \in l <=> 2 \in r) /\ (3 \in l <=> 3 \in r)
      BY <3>2, <3>3, <3>4 DEF SquareOf
    <3>7. (4 \in l <=> 4 \in r) /\ (5 \in l <=> 5 \in r)
      BY <3>2, <3>3, <3>4 DEF SquareOf
    <3>8. (6 \in l <=> 6 \in r) /\ (7 \in l <=> 7 \in r)
      BY <3>2, <3>3, <3>4 DEF SquareOf
    <3>9. l = r
      BY <3>1, <3>5, <3>6, <3>7, <3>8, SameBits
    <3> QED
      BY <3>1, <3>9 DEF z, l, r
  <2> QED
    BY <1>2, <2>1 DEF IsAdditive
<1>4. ASSUME NEW x \in Byte, SquareOf(x, GfMul(x, x))
      PROVE  F[x] = G[x]
  <2>1. GfMul(x, x) \in Byte /\ Out(x) \in Byte /\ SquareOf(x, Out(x))
    BY <1>2, MulType
  <2>2. GfMul(x, x) = Out(x)
    BY <1>4, <2>1, SameBits DEF SquareOf
  <2> QED
    BY <2>2
<1>5. SquareOf({0}, GfMul({0}, {0}))
  BY BitSquares DEF SquareOf
<1>6. SquareOf({1}, GfMul({1}, {1}))
  BY BitSquares DEF SquareOf
<1>7. SquareOf({2}, GfMul({2}, {2}))
  BY BitSquares DEF SquareOf
<1>8. SquareOf({3}, GfMul({3}, {3}))
  BY BitSquares DEF SquareOf
<1>9. SquareOf({4}, GfMul({4}, {4}))
  BY BitSquares DEF SquareOf
<1>10. SquareOf({5}, GfMul({5}, {5}))
  BY BitSquares DEF SquareOf
<1>11. SquareOf({6}, GfMul({6}, {6}))
  BY BitSquares DEF SquareOf
<1>12. SquareOf({7}, GfMul({7}, {7}))
  BY BitSquares DEF SquareOf
<1>13. \A i \in 0 .. 7 : F[{i}] = G[{i}]
  <2>1. \A i \in 0 .. 7 : SquareOf({i}, GfMul({i}, {i}))
    BY <1>5, <1>6, <1>7, <1>8, <1>9, <1>10, <1>11, <1>12
  <2> QED
    BY <1>4, <2>1, Bits
<1> HIDE DEF F, G
<1>14. F[a] = G[a]
  BY <1>1, <1>3, <1>13, AdditiveByBits
<1> QED
  BY <1>2, <1>14 DEF F, G

Square(a) == GfMul(a, a)

\* Squaring eight times gives the byte back: a^256 = a.
LEMMA EightSquares ==
    ASSUME NEW a \in Byte
    PROVE  Square(Square(Square(Square(Square(Square(Square(Square(a)))))))) = a
<1> DEFINE b == Square(a)
           c == Square(b)
           d == Square(c)
           e == Square(d)
           f == Square(e)
           g == Square(f)
           h == Square(g)
           r == Square(h)
<1>0. \A x, y, z : x \in Byte /\ y = Square(x) /\ z = Square(y) => FourthOf(x, z)
  <2> SUFFICES ASSUME NEW x \in Byte, NEW y, NEW z, y = Square(x), z = Square(y)
               PROVE  FourthOf(x, z)
    OBVIOUS
  <2>1. SquareOf(x, y) /\ SquareOf(y, z)
    BY MulType, Squares DEF Square
  <2> QED
    BY <2>1 DEF SquareOf, FourthOf
<1>1. ASSUME NEW x \in Byte
      PROVE  FourthOf(x, Square(Square(x)))
  BY <1>0
<1>2. ASSUME NEW x, NEW y, NEW z, FourthOf(x, y), FourthOf(y, z)
      PROVE  SixteenthOf(x, z)
  BY <1>2 DEF FourthOf, SixteenthOf
<1>3. c \in Byte /\ e \in Byte /\ g \in Byte /\ r \in Byte
  BY MulType DEF Square
<1>4. FourthOf(a, c) /\ FourthOf(c, e) /\ FourthOf(e, g) /\ FourthOf(g, r)
  BY <1>1, <1>3
<1> HIDE DEF b, c, d, e, f, g, h, r
<1>5. SixteenthOf(a, e) /\ SixteenthOf(e, r)
  BY <1>2, <1>4
<1>6. /\ (0 \in a <=> 0 \in r) /\ (1 \in a <=> 1 \in r) /\ (2 \in a <=> 2 \in r)
      /\ (3 \in a <=> 3 \in r) /\ (4 \in a <=> 4 \in r) /\ (5 \in a <=> 5 \in r)
      /\ (6 \in a <=> 6 \in r) /\ (7 \in a <=> 7 \in r)
  BY <1>5 DEF SixteenthOf
<1> QED
  <2>1. r = a
    BY <1>3, <1>6, SameBits
  <2> QED
    BY <2>1 DEF b, c, d, e, f, g, h, r

\* Only zero and one are their own squares.
LEMMA Idempotents ==
    ASSUME NEW a \in Byte, GfMul(a, a) = a
    PROVE  a = Zero \/ a = One
<1>1. SquareOf(a, a)
  BY Squares
<1>2. /\ 1 \notin a /\ 2 \notin a /\ 3 \notin a /\ 4 \notin a
      /\ 5 \notin a /\ 6 \notin a /\ 7 \notin a
  BY <1>1 DEF SquareOf
<1>3. \A bit \in 0 .. 7 : bit \in a => bit = 0
  BY <1>2
<1> QED
  BY <1>3 DEF Zero, One, Byte

-----------------------------------------------------------------------------
(***************************************************************************)
(* Powers, and the inverse that _gf_inv takes from them.                   *)
(***************************************************************************)

\* f[n] is the product after n turns of the loop of _gf_pow.
PowerLoop(f, value, exponent) ==
    /\ f \in [0 .. exponent -> Byte]
    /\ f[0] = One
    /\ \A i \in 1 .. exponent : f[i] = GfMul(f[i - 1], value)

\* The loop of _gf_pow, turn by turn.
LEMMA PowerLoopExists ==
    ASSUME NEW x \in Byte, NEW e \in Nat
    PROVE  \E f : PowerLoop(f, x, e)
<1> DEFINE step == [i \in 1 .. e |-> [v \in Byte |-> GfMul(v, x)]]
<1>1. step \in Steps(e, Byte)
  BY MulType DEF Steps
<1>2. \A i \in 1 .. e : \A v \in Byte : step[i][v] = GfMul(v, x)
  OBVIOUS
<1> HIDE DEF step
<1>3. PICK f : Iterates(f, step, One, e, Byte)
  BY <1>1, Bits, Recursion
<1>4. \A i \in 1 .. e : f[i - 1] \in Byte /\ f[i] = step[i][f[i - 1]]
  BY <1>3 DEF Iterates
<1>5. PowerLoop(f, x, e)
  BY <1>2, <1>3, <1>4 DEF Iterates, PowerLoop
<1> QED
  BY <1>5

\* Exponents add.
LEMMA PowersAdd ==
    ASSUME NEW x \in Byte, NEW e \in Nat, NEW f, PowerLoop(f, x, e),
           NEW a \in 0 .. e, NEW b \in 0 .. e, a + b <= e
    PROVE  f[a + b] = GfMul(f[a], f[b])
<1> DEFINE G == {i \in 0 .. e - a : f[a + i] = GfMul(f[a], f[i])}
<1>1. \A i \in 0 .. e : f[i] \in Byte
  BY DEF PowerLoop
<1>2. 0 \in G
  <2>1. GfMul(f[a], One) = f[a]
    BY <1>1, MulOne
  <2> QED
    BY <2>1 DEF PowerLoop
<1>3. ASSUME NEW i \in 0 .. e - a, i + 1 <= e - a, i \in G
      PROVE  i + 1 \in G
  <2>1. f[a + (i + 1)] = GfMul(f[a + i], x) /\ f[i + 1] = GfMul(f[i], x)
    <3>1. a + (i + 1) \in 1 .. e /\ i + 1 \in 1 .. e
      BY <1>3
    <3>2. (a + (i + 1)) - 1 = a + i /\ (i + 1) - 1 = i
      OBVIOUS
    <3> QED
      BY <3>1, <3>2 DEF PowerLoop
  <2>2. f[a] \in Byte /\ f[i] \in Byte
    BY <1>1, <1>3
  <2>3. GfMul(GfMul(f[a], f[i]), x) = GfMul(f[a], GfMul(f[i], x))
    BY <2>2, MulAssociates
  <2>4. f[a + i] = GfMul(f[a], f[i])
    BY <1>3
  <2> QED
    BY <1>3, <2>1, <2>3, <2>4
<1>4. e - a \in Nat /\ b \in 0 .. e - a
  OBVIOUS
<1> HIDE DEF G
<1>5. \A i \in 0 .. e - a : i + 1 <= e - a /\ i \in G => i + 1 \in G
  BY <1>3
<1>6. b \in G
  BY <1>2, <1>4, <1>5, UpTo
<1> QED
  BY <1>6 DEF G

\* One halving step of GfPow.
Halved(f, x, n) ==
    IF n = 0 THEN One
    ELSE LET half == f[n \div 2]
         IN  IF n % 2 = 0 THEN GfMul(half, half)
             ELSE GfMul(GfMul(half, half), x)

\* The loop of _gf_pow agrees with the product by halves.
LEMMA LoopIsHalved ==
    ASSUME NEW x \in Byte, NEW e \in Nat, NEW f, PowerLoop(f, x, e), NEW n \in 0 .. e
    PROVE  f[n] = Halved(f, x, n)
<1>1. CASE n = 0
  BY <1>1 DEF Halved, PowerLoop
<1>2. CASE n # 0
  <2> DEFINE h == n \div 2
  <2>1. h \in 0 .. e /\ h < n /\ (n % 2 = 0 => n = h + h) /\ (n % 2 # 0 => n = (h + h) + 1)
    BY <1>2
  <2> HIDE DEF h
  <2>2. h + h <= e /\ h + h \in 0 .. e
    BY <2>1
  <2>3. f[h + h] = GfMul(f[h], f[h])
    BY <2>1, <2>2, PowersAdd
  <2>4. CASE n % 2 = 0
    BY <1>2, <2>1, <2>3, <2>4 DEF Halved, h
  <2>5. CASE n % 2 # 0
    <3>1. n \in 1 .. e /\ n - 1 = h + h
      BY <2>1, <2>2, <2>5
    <3>2. f[n] = GfMul(f[h + h], x)
      BY <3>1 DEF PowerLoop
    <3> QED
      BY <1>2, <2>3, <2>5, <3>2 DEF Halved, h
  <2> QED
    BY <2>4, <2>5
<1> QED
  BY <1>1, <1>2

\* GfPow is the product that the loop of _gf_pow computes.
LEMMA PowerTurns ==
    ASSUME NEW x \in Byte, NEW e \in Nat, NEW f, PowerLoop(f, x, e)
    PROVE  GfPow(x, e) = f[e]
<1> DEFINE Body(g) == [n \in 0 .. e |-> Halved(g, x, n)]
           power == CHOOSE g : g = Body(g)
<1>1. GfPow(x, e) = power[e]
  BY DEF GfPow, Halved
<1>2. f = Body(f)
  BY LoopIsHalved DEF PowerLoop
<1>3. power = Body(power)
  BY <1>2
<1>4. \A n \in 0 .. e : power[n] = Halved(power, x, n)
  BY <1>3
<1>5. \A n \in 0 .. e : f[n] = Halved(f, x, n)
  BY LoopIsHalved
<1> HIDE DEF power, Body
<1> DEFINE G == {i \in 0 .. e : \A j \in 0 .. i : power[j] = f[j]}
<1>6. 0 \in G
  <2>1. power[0] = One /\ f[0] = One
    BY <1>4, <1>5 DEF Halved
  <2> QED
    BY <2>1
<1>7. ASSUME NEW i \in 0 .. e, i + 1 <= e, i \in G
      PROVE  i + 1 \in G
  <2>1. i + 1 \in 0 .. e /\ (i + 1) \div 2 \in 0 .. i
    BY <1>7
  <2>2. power[(i + 1) \div 2] = f[(i + 1) \div 2]
    BY <1>7, <2>1
  <2>3. Halved(power, x, i + 1) = Halved(f, x, i + 1)
    BY <2>2 DEF Halved
  <2>4. power[i + 1] = f[i + 1]
    BY <1>4, <1>5, <2>1, <2>3
  <2> QED
    BY <1>7, <2>4
<1>8. \A i \in 0 .. e : i + 1 <= e /\ i \in G => i + 1 \in G
  BY <1>7
<1> HIDE DEF G
<1>9. e \in G
  BY <1>6, <1>8, UpTo
<1> QED
  BY <1>1, <1>9 DEF G

\* What the loop of _gf_pow does, turn by turn.
LEMMA Powers ==
    ASSUME NEW x \in Byte, NEW n \in Nat
    PROVE  /\ GfPow(x, n) \in Byte
           /\ GfPow(x, 0) = One
           /\ GfPow(x, n + 1) = GfMul(GfPow(x, n), x)
<1>1. n + 1 \in Nat /\ 0 \in Nat
  OBVIOUS
<1>2. PICK f : PowerLoop(f, x, n + 1)
  BY <1>1, PowerLoopExists
<1> DEFINE g == [i \in 0 .. n |-> f[i]]
           h == [i \in 0 .. 0 |-> f[i]]
<1>3. PowerLoop(g, x, n) /\ PowerLoop(h, x, 0)
  BY <1>2 DEF PowerLoop
<1>4. g[n] = f[n] /\ h[0] = One /\ f[n] \in Byte /\ f[n + 1] = GfMul(f[n], x)
  BY <1>2 DEF PowerLoop
<1> HIDE DEF g, h
<1>5. GfPow(x, n) = g[n] /\ GfPow(x, 0) = h[0] /\ GfPow(x, n + 1) = f[n + 1]
  BY <1>1, <1>2, <1>3, PowerTurns
<1> QED
  BY <1>4, <1>5

\* _gf_inv inverts: the product of a byte other than zero with its power of
\* 254 is one.
LEMMA Inverts ==
    ASSUME NEW x \in Byte, x # Zero
    PROVE  /\ GfInv(x) \in Byte
           /\ GfMul(GfInv(x), x) = One
           /\ GfMul(x, GfInv(x)) = One
<1>1. PICK f : PowerLoop(f, x, 510)
  BY PowerLoopExists, 510 \in Nat
<1>2. \A a, b \in 0 .. 510 : a + b <= 510 => f[a + b] = GfMul(f[a], f[b])
  BY <1>1, PowersAdd, 510 \in Nat
<1>3. \A a \in 0 .. 510 : f[a] \in Byte
  BY <1>1 DEF PowerLoop
<1>4. f[1] = x
  <2>1. f[1] = GfMul(f[0], x) /\ f[0] = One
    <3>1. 1 \in 1 .. 510 /\ 1 - 1 = 0
      OBVIOUS
    <3> QED
      BY <1>1, <3>1 DEF PowerLoop
  <2> QED
    BY <2>1, MulOne
<1>5. ASSUME NEW a \in Nat, NEW b \in Nat, NEW c \in Nat, c = a + b, c <= 510
      PROVE  f[c] = GfMul(f[a], f[b])
  <2>1. a \in 0 .. 510 /\ b \in 0 .. 510 /\ a + b <= 510
    BY <1>5
  <2>2. f[a + b] = GfMul(f[a], f[b])
    BY <1>2, <2>1
  <2> QED
    BY <1>5, <2>2
<1>6. /\ f[2] = GfMul(f[1], f[1]) /\ f[4] = GfMul(f[2], f[2]) /\ f[8] = GfMul(f[4], f[4])
      /\ f[16] = GfMul(f[8], f[8]) /\ f[32] = GfMul(f[16], f[16])
      /\ f[64] = GfMul(f[32], f[32]) /\ f[128] = GfMul(f[64], f[64])
      /\ f[256] = GfMul(f[128], f[128])
      /\ f[255] = GfMul(f[254], f[1]) /\ f[256] = GfMul(f[255], f[1])
      /\ f[510] = GfMul(f[255], f[255]) /\ f[510] = GfMul(f[256], f[254])
  <2>1. f[2] = GfMul(f[1], f[1])
    <3>1. 1 \in Nat /\ 1 \in Nat /\ 2 \in Nat /\ 2 = 1 + 1 /\ 2 <= 510
      OBVIOUS
    <3> QED
      BY <1>5, <3>1
  <2>2. f[4] = GfMul(f[2], f[2])
    <3>1. 2 \in Nat /\ 2 \in Nat /\ 4 \in Nat /\ 4 = 2 + 2 /\ 4 <= 510
      OBVIOUS
    <3> QED
      BY <1>5, <3>1
  <2>3. f[8] = GfMul(f[4], f[4])
    <3>1. 4 \in Nat /\ 4 \in Nat /\ 8 \in Nat /\ 8 = 4 + 4 /\ 8 <= 510
      OBVIOUS
    <3> QED
      BY <1>5, <3>1
  <2>4. f[16] = GfMul(f[8], f[8])
    <3>1. 8 \in Nat /\ 8 \in Nat /\ 16 \in Nat /\ 16 = 8 + 8 /\ 16 <= 510
      OBVIOUS
    <3> QED
      BY <1>5, <3>1
  <2>5. f[32] = GfMul(f[16], f[16])
    <3>1. 16 \in Nat /\ 16 \in Nat /\ 32 \in Nat /\ 32 = 16 + 16 /\ 32 <= 510
      OBVIOUS
    <3> QED
      BY <1>5, <3>1
  <2>6. f[64] = GfMul(f[32], f[32])
    <3>1. 32 \in Nat /\ 32 \in Nat /\ 64 \in Nat /\ 64 = 32 + 32 /\ 64 <= 510
      OBVIOUS
    <3> QED
      BY <1>5, <3>1
  <2>7. f[128] = GfMul(f[64], f[64])
    <3>1. 64 \in Nat /\ 64 \in Nat /\ 128 \in Nat /\ 128 = 64 + 64 /\ 128 <= 510
      OBVIOUS
    <3> QED
      BY <1>5, <3>1
  <2>8. f[256] = GfMul(f[128], f[128])
    <3>1. 128 \in Nat /\ 128 \in Nat /\ 256 \in Nat /\ 256 = 128 + 128 /\ 256 <= 510
      OBVIOUS
    <3> QED
      BY <1>5, <3>1
  <2>9. f[255] = GfMul(f[254], f[1])
    <3>1. 254 \in Nat /\ 1 \in Nat /\ 255 \in Nat /\ 255 = 254 + 1 /\ 255 <= 510
      OBVIOUS
    <3> QED
      BY <1>5, <3>1
  <2>10. f[256] = GfMul(f[255], f[1])
    <3>1. 255 \in Nat /\ 1 \in Nat /\ 256 \in Nat /\ 256 = 255 + 1 /\ 256 <= 510
      OBVIOUS
    <3> QED
      BY <1>5, <3>1
  <2>11. f[510] = GfMul(f[255], f[255])
    <3>1. 255 \in Nat /\ 255 \in Nat /\ 510 \in Nat /\ 510 = 255 + 255 /\ 510 <= 510
      OBVIOUS
    <3> QED
      BY <1>5, <3>1
  <2>12. f[510] = GfMul(f[256], f[254])
    <3>1. 256 \in Nat /\ 254 \in Nat /\ 510 \in Nat /\ 510 = 256 + 254 /\ 510 <= 510
      OBVIOUS
    <3> QED
      BY <1>5, <3>1
  <2> QED
    BY <2>1, <2>2, <2>3, <2>4, <2>5, <2>6, <2>7, <2>8, <2>9, <2>10, <2>11, <2>12
<1>7. f[256] = x
  <2>1. f[1] \in Byte
    BY <1>4
  <2>2. f[256] = f[1]
    <3>1. /\ f[2] = Square(f[1]) /\ f[4] = Square(f[2]) /\ f[8] = Square(f[4])
          /\ f[16] = Square(f[8]) /\ f[32] = Square(f[16]) /\ f[64] = Square(f[32])
          /\ f[128] = Square(f[64]) /\ f[256] = Square(f[128])
      BY <1>6 DEF Square
    <3>2. Square(Square(Square(Square(Square(Square(Square(Square(f[1])))))))) = f[1]
      BY <2>1, EightSquares
    <3> QED
      BY <3>1, <3>2
  <2> QED
    BY <1>4, <2>2
<1>8. GfMul(f[255], f[255]) = f[255]
  <2>1. f[254] \in Byte
    BY <1>3
  <2>2. GfMul(x, f[254]) = GfMul(f[254], x)
    BY <2>1, MulCommutes
  <2> QED
    BY <1>4, <1>6, <1>7, <2>2
<1>9. f[254] \in Byte /\ f[255] \in Byte
  BY <1>3
<1>10. f[255] # Zero
  <2>1. GfMul(Zero, x) = Zero
    BY MulZero
  <2>2. GfMul(f[255], x) = x
    BY <1>4, <1>6, <1>7
  <2> QED
    BY <2>1, <2>2
<1>11. f[255] = One
  BY <1>8, <1>9, <1>10, Idempotents
<1>12. GfInv(x) = f[254]
  <2> DEFINE g == [i \in 0 .. 254 |-> f[i]]
  <2>1. PowerLoop(g, x, 254)
    <3>1. /\ \A i \in 0 .. 254 : f[i] \in Byte
          /\ f[0] = One
          /\ \A i \in 1 .. 254 : f[i] = GfMul(f[i - 1], x)
      BY <1>1 DEF PowerLoop
    <3>2. g \in [0 .. 254 -> Byte] /\ g[0] = One
      BY <3>1
    <3>3. \A i \in 1 .. 254 : g[i] = f[i] /\ g[i - 1] = f[i - 1]
      OBVIOUS
    <3> QED
      BY <3>1, <3>2, <3>3 DEF PowerLoop
  <2>2. g[254] = f[254]
    OBVIOUS
  <2> HIDE DEF g
  <2>3. GfPow(x, 254) = g[254]
    BY <2>1, PowerTurns, 254 \in Nat
  <2> QED
    BY <2>2, <2>3 DEF GfInv
<1>13. GfMul(x, f[254]) = GfMul(f[254], x)
  BY <1>9, MulCommutes
<1> QED
  BY <1>4, <1>6, <1>9, <1>11, <1>12, <1>13

\* A product is zero only when a factor is.
LEMMA NoZeroDivisors ==
    ASSUME NEW a \in Byte, NEW b \in Byte, GfMul(a, b) = Zero, a # Zero
    PROVE  b = Zero
<1>1. GfInv(a) \in Byte /\ GfMul(GfInv(a), a) = One
  BY Inverts
<1>2. GfMul(GfMul(GfInv(a), a), b) = GfMul(GfInv(a), GfMul(a, b))
  BY <1>1, MulAssociates
<1>3. GfMul(One, b) = b /\ GfMul(GfInv(a), Zero) = Zero
  BY <1>1, MulOne, MulZero
<1> QED
  BY <1>1, <1>2, <1>3

\* A power of a byte other than zero is not zero.
LEMMA PowersNotZero ==
    ASSUME NEW x \in Byte, x # Zero, NEW n \in Nat
    PROVE  GfPow(x, n) # Zero
<1> DEFINE G == {i \in 0 .. n : GfPow(x, i) # Zero}
<1>1. 0 \in G
  BY Powers, Bits, 0 \in Nat
<1>2. ASSUME NEW i \in 0 .. n, i + 1 <= n, i \in G
      PROVE  i + 1 \in G
  <2>1. GfPow(x, i) \in Byte /\ GfPow(x, i + 1) = GfMul(GfPow(x, i), x) /\ GfPow(x, i) # Zero
    BY <1>2, Powers
  <2>2. GfPow(x, i + 1) # Zero
    BY <2>1, NoZeroDivisors
  <2> QED
    BY <1>2, <2>2
<1>3. \A i \in 0 .. n : i + 1 <= n /\ i \in G => i + 1 \in G
  BY <1>2
<1> HIDE DEF G
<1>4. n \in G
  BY <1>1, <1>3, UpTo
<1> QED
  BY <1>4 DEF G

-----------------------------------------------------------------------------
(***************************************************************************)
(* The elimination.  A vector that is as wide as the augmented matrix is   *)
(* annihilated by all rows after a turn of the loop exactly if it was      *)
(* before it.  Applied to a vector of data and its product with the matrix *)
(* this says what the inverse computes; applied to the pivots' columns it  *)
(* says that a matrix whose elimination stops has no inverse.              *)
(***************************************************************************)
Width == 0 .. 2 * DataShards - 1

Table == [Column -> [Width -> Byte]]

Product(row, w) == XorOver(Width, [c \in Width |-> GfMul(row[c], w[c])])

Annihilates(rows, w) == \A row \in Column : Product(rows[row], w) = Zero

UnitColumn(rows, j) == \A i \in Column : rows[i][j] = IF i = j THEN One ELSE Zero

\* Rows and columns are finitely many.
LEMMA Dimensions ==
    /\ IsFiniteSet(Column) /\ IsFiniteSet(Width)
    /\ Column \subseteq Nat /\ Width \subseteq Nat
    /\ Column \subseteq Width
    /\ \A c \in Column : c + DataShards \in Width /\ c + DataShards \notin Column
    /\ \A c \in Width : c \notin Column => c - DataShards \in Column
<1>1. DataShards \in Nat \ {0}
  BY CodecAssumption
<1>2. IsFiniteSet(Column) /\ IsFiniteSet(Width)
  BY <1>1, IntervalsFinite DEF Column, Width
<1> QED
  BY <1>1, <1>2 DEF Column, Width

\* A factor distributes over a sum.
LEMMA MulOver ==
    ASSUME NEW S, IsFiniteSet(S), NEW f \in [S -> Byte], NEW a \in Byte
    PROVE  XorOver(S, [i \in S |-> GfMul(a, f[i])]) = GfMul(a, XorOver(S, f))
<1> DEFINE g == [i \in S |-> GfMul(a, f[i])]
           G == {T \in SUBSET S : XorOver(T, g) = GfMul(a, XorOver(T, f))}
<1>1. {} \in G
  BY XorNothing, MulZero
<1>2. ASSUME NEW T \in SUBSET S, NEW x \in S \ T, T \in G
      PROVE  T \cup {x} \in G
  <2>1. IsFiniteSet(T)
    BY FS_Subset
  <2>2. f[x] \in Byte /\ g[x] = GfMul(a, f[x]) /\ g[x] \in Byte /\ XorOver(T, f) \in Byte
    BY MulType, XorType
  <2>3. XorOver(T, g) = GfMul(a, XorOver(T, f))
    BY <1>2
  <2> HIDE DEF g
  <2>4. /\ XorOver(T \cup {x}, f) = Xor(XorOver(T, f), f[x])
        /\ XorOver(T \cup {x}, g) = Xor(XorOver(T, g), g[x])
    BY <2>1, <2>2, XorMore
  <2>5. GfMul(a, Xor(XorOver(T, f), f[x])) = Xor(GfMul(a, XorOver(T, f)), GfMul(a, f[x]))
    BY <2>2, MulXorRight
  <2>6. XorOver(T \cup {x}, g) = GfMul(a, XorOver(T \cup {x}, f))
    BY <2>2, <2>3, <2>4, <2>5
  <2> QED
    BY <2>6
<1> HIDE DEF G
<1>3. S \in G
  BY <1>1, <1>2, OneByOne
<1> QED
  BY <1>3 DEF G

\* The product of a row that was multiplied.
LEMMA ProductScaled ==
    ASSUME NEW p \in [Width -> Byte], NEW w \in [Width -> Byte], NEW a \in Byte,
           NEW r, \A c \in Width : r[c] = GfMul(p[c], a)
    PROVE  Product(r, w) = GfMul(a, Product(p, w))
<1> DEFINE f == [c \in Width |-> GfMul(p[c], w[c])]
           g == [c \in Width |-> GfMul(a, f[c])]
           h == [c \in Width |-> GfMul(r[c], w[c])]
<1>1. f \in [Width -> Byte]
  BY MulType
<1>2. \A c \in Width : h[c] = g[c]
  <2> SUFFICES ASSUME NEW c \in Width
               PROVE  GfMul(GfMul(p[c], a), w[c]) = GfMul(a, GfMul(p[c], w[c]))
    OBVIOUS
  <2>1. p[c] \in Byte /\ w[c] \in Byte
    OBVIOUS
  <2>2. GfMul(p[c], a) = GfMul(a, p[c])
    BY <2>1, MulCommutes
  <2> QED
    BY <2>1, <2>2, MulAssociates
<1> HIDE DEF f
<1>3. XorOver(Width, g) = GfMul(a, XorOver(Width, f))
  BY <1>1, Dimensions, MulOver
<1>4. XorOver(Width, h) = XorOver(Width, g)
  <2> HIDE DEF g, h
  <2> QED
    BY <1>2, XorSame
<1> QED
  BY <1>3, <1>4 DEF Product, f

\* The product of a row to which a multiple of another was added.
LEMMA ProductSum ==
    ASSUME NEW p \in [Width -> Byte], NEW q \in [Width -> Byte], NEW w \in [Width -> Byte],
           NEW a \in Byte,
           NEW r, \A c \in Width : r[c] = Xor(p[c], GfMul(a, q[c]))
    PROVE  Product(r, w) = Xor(Product(p, w), GfMul(a, Product(q, w)))
<1> DEFINE f == [c \in Width |-> GfMul(p[c], w[c])]
           s == [c \in Width |-> GfMul(q[c], a)]
           g == [c \in Width |-> GfMul(s[c], w[c])]
           h == [c \in Width |-> GfMul(r[c], w[c])]
<1>1. \A c \in Width : f[c] \in Byte /\ g[c] \in Byte
  BY MulType
<1>2. \A c \in Width : h[c] = Xor(f[c], g[c])
  <2> SUFFICES ASSUME NEW c \in Width
               PROVE  GfMul(Xor(p[c], GfMul(a, q[c])), w[c])
                         = Xor(GfMul(p[c], w[c]), GfMul(GfMul(q[c], a), w[c]))
    OBVIOUS
  <2>1. p[c] \in Byte /\ q[c] \in Byte /\ w[c] \in Byte /\ GfMul(a, q[c]) \in Byte
    BY MulType
  <2>2. GfMul(q[c], a) = GfMul(a, q[c])
    BY <2>1, MulCommutes
  <2> QED
    BY <2>1, <2>2, MulXorLeft
<1>3. XorOver(Width, g) = GfMul(a, Product(q, w))
  <2>1. \A c \in Width : s[c] = GfMul(q[c], a)
    OBVIOUS
  <2> HIDE DEF s
  <2>2. Product(s, w) = GfMul(a, Product(q, w))
    BY <2>1, ProductScaled
  <2> QED
    BY <2>2 DEF Product
<1>4. XorOver(Width, h) = Xor(XorOver(Width, f), XorOver(Width, g))
  <2>1. IsFiniteSet(Width)
    BY Dimensions
  <2> HIDE DEF f, g, h
  <2>2. \A c \in Width : f[c] \in Byte /\ g[c] \in Byte /\ h[c] = Xor(f[c], g[c])
    BY <1>1, <1>2
  <2> QED
    BY <2>1, <2>2, XorTerms
<1> QED
  BY <1>3, <1>4 DEF Product

\* Products are bytes.
LEMMA ProductType ==
    ASSUME NEW row, NEW w
    PROVE  Product(row, w) \in Byte
BY XorType DEF Product

\* A nonempty set of natural numbers has a least element.
LEMMA LeastNatural ==
    ASSUME NEW T \in SUBSET Nat, T # {}
    PROVE  \E x \in T : \A y \in T : x <= y
<1> DEFINE R == OpToRel(<, Nat)
<1>1. IsWellFoundedOn(R, Nat)
  BY NatLessThanWellFounded
<1>2. \A y, x \in Nat : y < x => <<y, x>> \in R
  BY DEF OpToRel
<1> HIDE DEF R
<1>3. PICK x \in T : \A y \in T : ~(<<y, x>> \in R)
  BY <1>1, WFMin
<1>4. \A y \in T : y \in Nat /\ ~(y < x)
  BY <1>2, <1>3
<1>5. \A y \in T : x <= y
  BY <1>4
<1> QED
  BY <1>5

\* Swapping two rows.
LEMMA SwappedRows ==
    ASSUME NEW m \in Table, NEW col \in Column, NEW pivot \in Column
    PROVE  /\ Swapped(m, col, pivot) \in Table
           /\ \A w : Annihilates(Swapped(m, col, pivot), w) <=> Annihilates(m, w)
           /\ Swapped(m, col, pivot)[col] = m[pivot]
           /\ \A i \in Column : \/ i # col /\ i # pivot /\ Swapped(m, col, pivot)[i] = m[i]
                                \/ i = col /\ Swapped(m, col, pivot)[i] = m[pivot]
                                \/ i = pivot /\ Swapped(m, col, pivot)[i] = m[col]
<1> DEFINE s == Swapped(m, col, pivot)
<1>1. s \in Table
  BY DEF Swapped, Table
<1>2. s[col] = m[pivot] /\ s[pivot] = m[col] /\ \A i \in Column \ {col, pivot} : s[i] = m[i]
  BY DEF Swapped, Table
<1> HIDE DEF s
<1>3. \A w : Annihilates(s, w) <=> Annihilates(m, w)
  BY <1>2 DEF Annihilates
<1> QED
  BY <1>1, <1>2, <1>3 DEF s

\* Scaling the row of the pivot makes the pivot one.
LEMMA ScaledRows ==
    ASSUME NEW m \in Table, NEW col \in Column, m[col][col] # Zero
    PROVE  /\ Scaled(m, col) \in Table
           /\ \A w \in [Width -> Byte] : Annihilates(Scaled(m, col), w) <=> Annihilates(m, w)
           /\ Scaled(m, col)[col][col] = One
           /\ \A i \in Column \ {col} : Scaled(m, col)[i] = m[i]
           /\ \A c \in Width : m[col][c] = Zero => Scaled(m, col)[col][c] = Zero
<1> DEFINE s == Scaled(m, col)
           x == m[col][col]
           inverse == GfInv(x)
<1>1. col \in Width /\ m[col] \in [Width -> Byte] /\ x \in Byte /\ DOMAIN m[col] = Width
  BY Dimensions DEF Table
<1>2. inverse \in Byte /\ GfMul(x, inverse) = One
  BY <1>1, Inverts
<1>3. s = [m EXCEPT ![col] = [c \in Width |-> GfMul(m[col][c], inverse)]]
  BY <1>1 DEF Scaled
<1> HIDE DEF s, inverse
<1>4. s[col] = [c \in Width |-> GfMul(m[col][c], inverse)] /\ \A i \in Column \ {col} : s[i] = m[i]
  BY <1>3 DEF Table
<1>5. s \in Table
  <2>1. s[col] \in [Width -> Byte]
    BY <1>4, MulType
  <2> QED
    BY <1>3, <1>4, <2>1 DEF Table
<1>6. ASSUME NEW w \in [Width -> Byte]
      PROVE  Annihilates(s, w) <=> Annihilates(m, w)
  <2>1. Product(s[col], w) = GfMul(inverse, Product(m[col], w))
    <3>1. \A c \in Width : s[col][c] = GfMul(m[col][c], inverse)
      BY <1>4
    <3> QED
      BY <1>1, <1>2, <3>1, ProductScaled
  <2>2. inverse # Zero
    BY <1>1, <1>2, MulZero, Bits
  <2>3. Product(s[col], w) = Zero <=> Product(m[col], w) = Zero
    BY <1>2, <2>1, <2>2, ProductType, NoZeroDivisors, MulZero
  <2> QED
    BY <1>4, <2>3 DEF Annihilates
<1>7. s[col][col] = One
  BY <1>1, <1>2, <1>4
<1>8. \A c \in Width : m[col][c] = Zero => s[col][c] = Zero
  BY <1>2, <1>4, MulZero
<1> QED
  BY <1>4, <1>5, <1>6, <1>7, <1>8 DEF s

\* Clearing the column leaves the pivot alone in it.
LEMMA ClearedRows ==
    ASSUME NEW m \in Table, NEW col \in Column, m[col][col] = One
    PROVE  /\ Cleared(m, col) \in Table
           /\ \A w \in [Width -> Byte] : Annihilates(Cleared(m, col), w) <=> Annihilates(m, w)
           /\ UnitColumn(Cleared(m, col), col)
           /\ \A i \in Column : \A c \in Width :
                 m[col][c] = Zero => Cleared(m, col)[i][c] = m[i][c]
<1> DEFINE s == Cleared(m, col)
<1>0. \A a : Xor(a, Zero) = a /\ Xor(a, a) = Zero
  BY XorGroup
<1>1. /\ col \in Width
      /\ \A i \in Column : /\ m[i] \in [Width -> Byte] /\ m[i][col] \in Byte
                           /\ DOMAIN m[i] = Width
  BY Dimensions DEF Table
<1>2. ASSUME NEW i \in Column, i # col
      PROVE  \A c \in Width : s[i][c] = Xor(m[i][c], GfMul(m[i][col], m[col][c]))
  <2>1. CASE m[i][col] = Zero
    <3>1. s[i] = m[i]
      BY <2>1 DEF Cleared
    <3>2. \A c \in Width : GfMul(m[i][col], m[col][c]) = Zero
      BY <1>1, <2>1, MulZero
    <3> HIDE DEF s
    <3> QED
      BY <1>0, <3>1, <3>2
  <2>2. CASE m[i][col] # Zero
    BY <1>1, <1>2, <2>2 DEF Cleared
  <2> QED
    BY <2>1, <2>2
<1>3. s[col] = m[col]
  BY DEF Cleared
<1>4. s \in Table
  <2>1. ASSUME NEW i \in Column
        PROVE  s[i] \in [Width -> Byte]
    <3>1. \A c \in Width : m[i][c] \in Byte /\ GfMul(m[i][col], m[col][c]) \in Byte
      BY <1>1, MulType
    <3>2. \A a, b : a \in Byte /\ b \in Byte => Xor(a, b) \in Byte
      BY XorGroup
    <3>3. \A c \in Width : Xor(m[i][c], GfMul(m[i][col], m[col][c])) \in Byte
      BY <3>1, <3>2
    <3> QED
      BY <1>1, <3>3 DEF Cleared
  <2>2. DOMAIN s = Column /\ s = [i \in Column |-> s[i]]
    BY DEF Cleared
  <2> HIDE DEF s
  <2> QED
    BY <2>1, <2>2 DEF Table
<1> HIDE DEF s
<1>5. ASSUME NEW w \in [Width -> Byte]
      PROVE  Annihilates(s, w) <=> Annihilates(m, w)
  <2>1. ASSUME NEW i \in Column, i # col
        PROVE  Product(s[i], w) = Xor(Product(m[i], w), GfMul(m[i][col], Product(m[col], w)))
    <3>1. /\ m[i] \in [Width -> Byte] /\ m[col] \in [Width -> Byte] /\ m[i][col] \in Byte
          /\ \A c \in Width : s[i][c] = Xor(m[i][c], GfMul(m[i][col], m[col][c]))
      BY <1>1, <1>2, <2>1
    <3> DEFINE p == m[i]
               q == m[col]
               a == m[i][col]
               r == s[i]
    <3>2. /\ p \in [Width -> Byte] /\ q \in [Width -> Byte] /\ a \in Byte
          /\ \A c \in Width : r[c] = Xor(p[c], GfMul(a, q[c]))
      BY <3>1
    <3> HIDE DEF p, q, a, r
    <3>3. Product(r, w) = Xor(Product(p, w), GfMul(a, Product(q, w)))
      BY <3>2, ProductSum
    <3> QED
      BY <3>3 DEF p, q, a, r
  <2>2. ASSUME NEW i \in Column, i # col, Product(m[col], w) = Zero
        PROVE  Product(s[i], w) = Product(m[i], w)
    <3>1. GfMul(m[i][col], Zero) = Zero
      BY <1>1, MulZero
    <3> QED
      BY <1>0, <2>1, <2>2, <3>1
  <2> QED
    BY <1>3, <2>2 DEF Annihilates
<1>6. UnitColumn(s, col)
  <2>1. ASSUME NEW i \in Column, i # col
        PROVE  s[i][col] = Zero
    <3>1. GfMul(m[i][col], One) = m[i][col]
      BY <1>1, MulOne
    <3> QED
      BY <1>0, <1>1, <1>2, <2>1, <3>1
  <2> QED
    BY <1>3, <2>1 DEF UnitColumn
<1>7. ASSUME NEW i \in Column, NEW c \in Width, m[col][c] = Zero
      PROVE  s[i][c] = m[i][c]
  <2>1. CASE i = col
    BY <1>3, <2>1
  <2>2. CASE i # col
    <3>1. GfMul(m[i][col], Zero) = Zero
      BY <1>1, MulZero
    <3> QED
      BY <1>0, <1>2, <1>7, <2>2, <3>1
  <2> QED
    BY <2>1, <2>2
<1> QED
  BY <1>4, <1>5, <1>6, <1>7 DEF s

\* The first n columns have a single one, at the row of the column.
Solved(rows, n) == \A j \in 0 .. n - 1 : UnitColumn(rows, j)

Elimination == [regular : BOOLEAN, rows : Table]

\* A turn that finds a pivot solves its column, keeps the columns that are
\* solved, and changes nothing about the vectors that the rows annihilate.
LEMMA EliminatedRows ==
    ASSUME NEW e \in Elimination, NEW n \in Column, e.regular
    PROVE  /\ Eliminated(e, n) \in Elimination
           /\ Eliminated(e, n).regular <=> Candidates(e.rows, n) # {}
           /\ ~Eliminated(e, n).regular => Eliminated(e, n).rows = e.rows
           /\ \A w \in [Width -> Byte] :
                 Annihilates(Eliminated(e, n).rows, w) <=> Annihilates(e.rows, w)
           /\ Solved(e.rows, n) /\ Eliminated(e, n).regular => Solved(Eliminated(e, n).rows, n + 1)
<1> DEFINE m == e.rows
           pivots == Candidates(m, n)
           pivot == Min(pivots)
           a == Swapped(m, n, pivot)
           b == Scaled(a, n)
           c == Cleared(b, n)
<1>1. m \in Table /\ e = [regular |-> TRUE, rows |-> m]
  BY DEF Elimination
<1>2. CASE pivots = {}
  <2>1. Eliminated(e, n) = [e EXCEPT !.regular = FALSE]
    BY <1>2 DEF Eliminated
  <2>2. Eliminated(e, n) = [regular |-> FALSE, rows |-> m]
    BY <1>1, <2>1
  <2> HIDE DEF m
  <2> QED
    BY <1>1, <1>2, <2>2 DEF Elimination, m
<1>3. CASE pivots # {}
  <2>1. pivot \in pivots
    <3>1. pivots \in SUBSET Nat
      BY Dimensions DEF Candidates
    <3>2. \E x \in pivots : \A y \in pivots : x <= y
      BY <1>3, <3>1, LeastNatural
    <3> QED
      BY <3>2 DEF Min
  <2>2. pivot \in Column /\ pivot >= n /\ m[pivot][n] # Zero
    BY <2>1 DEF Candidates
  <2>3. Eliminated(e, n) = [regular |-> TRUE, rows |-> c]
    <3>1. Eliminated(e, n) = [e EXCEPT !.rows = c]
      BY <1>1, <1>3 DEF Eliminated
    <3> HIDE DEF c, m
    <3> QED
      BY <1>1, <3>1
  <2> HIDE DEF m, pivots, pivot
  <2>4. /\ a \in Table /\ a[n][n] # Zero
        /\ \A w : Annihilates(a, w) <=> Annihilates(m, w)
        /\ \A i \in Column : \/ i # n /\ i # pivot /\ a[i] = m[i]
                             \/ i = n /\ a[i] = m[pivot]
                             \/ i = pivot /\ a[i] = m[n]
    BY <1>1, <2>2, SwappedRows
  <2> HIDE DEF a
  <2>5. /\ b \in Table /\ b[n][n] = One
        /\ \A w \in [Width -> Byte] : Annihilates(b, w) <=> Annihilates(a, w)
        /\ \A i \in Column \ {n} : b[i] = a[i]
        /\ \A k \in Width : a[n][k] = Zero => b[n][k] = Zero
    BY <2>4, ScaledRows
  <2> HIDE DEF b
  <2>6. /\ c \in Table /\ UnitColumn(c, n)
        /\ \A w \in [Width -> Byte] : Annihilates(c, w) <=> Annihilates(b, w)
        /\ \A i \in Column : \A k \in Width : b[n][k] = Zero => c[i][k] = b[i][k]
    BY <2>5, ClearedRows
  <2> HIDE DEF c
  <2>7. ASSUME Solved(m, n)
        PROVE  Solved(c, n + 1)
    <3> SUFFICES ASSUME NEW j \in 0 .. n
                 PROVE  UnitColumn(c, j)
      BY Dimensions DEF Solved
    <3>1. CASE j = n
      BY <2>6, <3>1
    <3>2. CASE j # n
      <4>1. j \in 0 .. n - 1 /\ j \in Column /\ j \in Width /\ j < n
        BY <3>2, Dimensions, CodecAssumption DEF Column
      <4>2. \A i \in Column : m[i][j] = IF i = j THEN One ELSE Zero
        BY <2>7, <4>1 DEF Solved, UnitColumn
      <4>3. n # j /\ pivot # j /\ m[n][j] = Zero /\ m[pivot][j] = Zero
        <5>1. n # j /\ pivot # j
          BY <2>2, <4>1, Dimensions
        <5> QED
          BY <2>2, <4>2, <5>1
      <4>4. a[n][j] = Zero /\ \A i \in Column : a[i][j] = m[i][j]
        BY <2>2, <2>4, <4>3
      <4>5. b[n][j] = Zero /\ \A i \in Column : b[i][j] = a[i][j]
        BY <2>5, <4>1, <4>4
      <4>6. \A i \in Column : c[i][j] = b[i][j]
        BY <2>6, <4>1, <4>5
      <4> QED
        BY <4>2, <4>4, <4>5, <4>6 DEF UnitColumn
    <3> QED
      BY <3>1, <3>2
  <2> QED
    BY <1>3, <2>3, <2>4, <2>5, <2>6, <2>7 DEF Elimination, m, pivots
<1> QED
  BY <1>2, <1>3

-----------------------------------------------------------------------------
(***************************************************************************)
(* _matrix_inverse: what it returns for a matrix, and when it returns.     *)
(***************************************************************************)
SquareMatrix == [Column -> [Column -> Byte]]

\* A row times one position of the shards, as in _matrix_vector.
Dot(row, v) == XorOver(Column, [c \in Column |-> GfMul(row[c], v[c])])

\* The data next to their product with the matrix.
Joint(d, s) == [c \in Width |-> IF c \in Column THEN d[c] ELSE s[c - DataShards]]

\* Sums over sets of which one renames the other.
LEMMA XorRenamed ==
    ASSUME NEW S, IsFiniteSet(S), NEW T, NEW phi \in Bijection(S, T), NEW f, NEW g,
           \A i \in S : g[i] = f[phi[i]]
    PROVE  XorOver(T, f) = XorOver(S, g)
<1> DEFINE A(bit) == {i \in S : bit \in g[i]}
           B(bit) == {j \in T : bit \in f[j]}
<1>1. /\ phi \in [S -> T]
      /\ \A i, j \in S : phi[i] = phi[j] => i = j
      /\ \A j \in T : \E i \in S : phi[i] = j
  BY DEF Bijection, Injection, Surjection, IsInjective
<1>2. ASSUME NEW bit
      PROVE  Cardinality(A(bit)) = Cardinality(B(bit))
  <2> DEFINE psi == [i \in A(bit) |-> phi[i]]
  <2>1. IsFiniteSet(A(bit))
    BY FS_Subset
  <2>2. psi \in [A(bit) -> B(bit)]
    BY <1>1
  <2>3. \A i, j \in A(bit) : psi[i] = psi[j] => i = j
    BY <1>1
  <2>4. \A j \in B(bit) : \E i \in A(bit) : psi[i] = j
    BY <1>1
  <2> HIDE DEF psi, A, B
  <2>5. psi \in Bijection(A(bit), B(bit))
    BY <2>2, <2>3, <2>4 DEF Bijection, Injection, Surjection, IsInjective
  <2>6. ExistsBijection(A(bit), B(bit))
    BY <2>5 DEF ExistsBijection
  <2> QED
    BY <2>1, <2>6, FS_Bijection
<1>3. /\ XorOver(S, g) = {bit \in 0 .. 7 : Cardinality(A(bit)) % 2 = 1}
      /\ XorOver(T, f) = {bit \in 0 .. 7 : Cardinality(B(bit)) % 2 = 1}
  BY DEF XorOver
<1> HIDE DEF A, B
<1> QED
  BY <1>2, <1>3

\* The product of a row with a unit of the other.
LEMMA DotUnit ==
    ASSUME NEW row, NEW v, NEW i \in Column, v[i] \in Byte,
           \A c \in Column : v[c] \in Byte /\ row[c] = IF c = i THEN One ELSE Zero
    PROVE  Dot(row, v) = v[i]
<1> DEFINE f == [c \in Column |-> GfMul(row[c], v[c])]
<1>1. f[i] = v[i]
  BY MulOne
<1>2. \A c \in Column : c # i => f[c] = Zero
  BY MulZero
<1> HIDE DEF f
<1>3. XorOver(Column, f) = f[i]
  BY <1>1, <1>2, XorSingle
<1> QED
  BY <1>1, <1>3 DEF Dot, f

\* A row of the augmented matrix, left half and right half.
LEMMA ProductJoint ==
    ASSUME NEW row \in [Width -> Byte], NEW d \in [Column -> Byte], NEW s \in [Column -> Byte],
           NEW right, \A c \in Column : right[c] = row[c + DataShards]
    PROVE  /\ Joint(d, s) \in [Width -> Byte]
           /\ Product(row, Joint(d, s)) = Xor(Dot(row, d), Dot(right, s))
<1> DEFINE w == Joint(d, s)
           h == [c \in Width |-> GfMul(row[c], w[c])]
           f == [c \in Width |-> IF c \in Column THEN h[c] ELSE Zero]
           g == [c \in Width |-> IF c \in Column THEN Zero ELSE h[c]]
           l == [c \in Column |-> GfMul(row[c], d[c])]
           r == [c \in Column |-> GfMul(right[c], s[c])]
           R == Width \ Column
           phi == [c \in Column |-> c + DataShards]
<1>1. w \in [Width -> Byte]
  BY Dimensions DEF Joint
<1>2. /\ \A c \in Column : w[c] = d[c]
      /\ \A c \in Column : w[c + DataShards] = s[c]
  <2>1. \A c \in Column : c + DataShards \in Width /\ c + DataShards \notin Column
                          /\ (c + DataShards) - DataShards = c
    BY Dimensions, CodecAssumption
  <2> QED
    BY <2>1, Dimensions DEF Joint
<1> HIDE DEF w
<1>3. \A c \in Width : h[c] \in Byte
  BY MulType
<1>4. /\ \A c \in Column : h[c] = l[c]
      /\ \A c \in Column : h[c + DataShards] = r[c]
  BY <1>2, Dimensions
<1> HIDE DEF h, l, r
<1>5. \A c \in Width : f[c] \in Byte /\ g[c] \in Byte /\ h[c] = Xor(f[c], g[c])
  <2>1. \A a : Xor(a, Zero) = a /\ Xor(Zero, a) = a
    BY XorGroup
  <2> QED
    BY <1>3, <2>1, Bits
<1>6. XorOver(Width, f) = XorOver(Column, l)
  <2>1. Column \in SUBSET Width /\ \A c \in Width \ Column : f[c] = Zero
    BY Dimensions
  <2>2. \A c \in Column : f[c] = l[c]
    BY <1>4, Dimensions
  <2> HIDE DEF f
  <2>3. XorOver(Width, f) = XorOver(Column, f)
    BY <2>1, XorSupport
  <2> QED
    BY <2>2, <2>3, XorSame
<1>7. XorOver(Width, g) = XorOver(Column, r)
  <2>1. R \in SUBSET Width /\ \A c \in Width \ R : g[c] = Zero
    BY Dimensions
  <2>2. phi \in Bijection(Column, R)
    <3>1. phi \in [Column -> R]
      BY Dimensions
    <3>2. \A c, e \in Column : phi[c] = phi[e] => c = e
      BY Dimensions, CodecAssumption
    <3>3. \A j \in R : \E c \in Column : phi[c] = j
      <4>1. \A j \in R : j - DataShards \in Column /\ (j - DataShards) + DataShards = j
        BY Dimensions, CodecAssumption
      <4> QED
        BY <4>1
    <3> HIDE DEF phi, R
    <3> QED
      BY <3>1, <3>2, <3>3 DEF Bijection, Injection, Surjection, IsInjective
  <2>3. \A c \in Column : r[c] = g[phi[c]]
    BY <1>4, Dimensions
  <2> HIDE DEF g, phi, R
  <2>4. XorOver(Width, g) = XorOver(R, g)
    BY <2>1, XorSupport
  <2>5. XorOver(R, g) = XorOver(Column, r)
    <3>1. IsFiniteSet(Column)
      BY Dimensions
    <3> QED
      BY <2>2, <2>3, <3>1, XorRenamed
  <2> QED
    BY <2>4, <2>5
<1>8. XorOver(Width, h) = Xor(XorOver(Width, f), XorOver(Width, g))
  <2>1. IsFiniteSet(Width)
    BY Dimensions
  <2> HIDE DEF f, g
  <2> QED
    BY <1>5, <2>1, XorTerms
<1> QED
  BY <1>1, <1>6, <1>7, <1>8 DEF Product, Dot, w, h, l, r

\* The augmented matrix annihilates data next to their product.
LEMMA AugmentedJoint ==
    ASSUME NEW m \in SquareMatrix, NEW d \in [Column -> Byte], NEW s \in [Column -> Byte]
    PROVE  /\ Augmented(m) \in Table
           /\ Annihilates(Augmented(m), Joint(d, s)) <=> \A i \in Column : Dot(m[i], d) = s[i]
<1>1. Augmented(m) \in Table
  <2>1. \A i, c \in Column : m[i][c] \in Byte
    BY DEF SquareMatrix
  <2>2. Augmented(m) = [i \in Column |-> [c \in Width |->
             IF c \in Column THEN m[i][c] ELSE IF c - DataShards = i THEN One ELSE Zero]]
    BY DEF Augmented, Width
  <2>3. \A i \in Column : \A c \in Width :
           (IF c \in Column THEN m[i][c] ELSE IF c - DataShards = i THEN One ELSE Zero) \in Byte
    BY <2>1, Bits
  <2> QED
    BY <2>2, <2>3 DEF Table
<1>2. ASSUME NEW i \in Column
      PROVE  Product(Augmented(m)[i], Joint(d, s)) = Xor(Dot(m[i], d), s[i])
  <2> DEFINE row == Augmented(m)[i]
             right == [c \in Column |-> row[c + DataShards]]
  <2>1. row \in [Width -> Byte]
    BY <1>1 DEF Table
  <2>2. \A c \in Column : row[c] = m[i][c]
    BY Dimensions DEF Augmented, Width
  <2>3. \A c \in Column : right[c] = IF c = i THEN One ELSE Zero
    <3> SUFFICES ASSUME NEW c \in Column
                 PROVE  row[c + DataShards] = IF c = i THEN One ELSE Zero
      OBVIOUS
    <3>1. c + DataShards \in Width /\ c + DataShards \notin Column
          /\ (c + DataShards) - DataShards = c
      BY Dimensions, CodecAssumption
    <3> QED
      BY <3>1 DEF Augmented, Width
  <2>4. \A c \in Column : right[c] = row[c + DataShards]
    OBVIOUS
  <2> HIDE DEF row, right
  <2>5. Product(row, Joint(d, s)) = Xor(Dot(row, d), Dot(right, s))
    BY <2>1, <2>4, ProductJoint
  <2>6. Dot(right, s) = s[i]
    BY <2>3, DotUnit
  <2>7. Dot(row, d) = Dot(m[i], d)
    BY <2>2 DEF Dot
  <2> QED
    BY <2>5, <2>6, <2>7 DEF row
<1>3. \A i \in Column : Xor(Dot(m[i], d), s[i]) = Zero <=> Dot(m[i], d) = s[i]
  BY XorGroup
<1> QED
  BY <1>1, <1>2, <1>3 DEF Annihilates

\* When every column is solved, the right half inverts.
LEMMA SolvedInverts ==
    ASSUME NEW rows \in Table, Solved(rows, DataShards),
           NEW d \in [Column -> Byte], NEW s \in [Column -> Byte],
           Annihilates(rows, Joint(d, s)),
           NEW i \in Column,
           NEW right, \A c \in Column : right[c] = rows[i][c + DataShards]
    PROVE  Dot(right, s) = d[i]
<1> DEFINE row == rows[i]
<1>1. row \in [Width -> Byte] /\ \A c \in Column : right[c] = row[c + DataShards]
  BY DEF Table
<1>2. \A c \in Column : row[c] = IF c = i THEN One ELSE Zero
  <2>1. \A c \in Column : UnitColumn(rows, c)
    BY CodecAssumption DEF Solved, Column
  <2> QED
    BY <2>1 DEF UnitColumn
<1>3. Product(row, Joint(d, s)) = Zero
  BY DEF Annihilates
<1> HIDE DEF row
<1>4. Product(row, Joint(d, s)) = Xor(Dot(row, d), Dot(right, s))
  BY <1>1, ProductJoint
<1>5. Dot(row, d) = d[i]
  BY <1>2, DotUnit
<1> QED
  BY <1>3, <1>4, <1>5, XorGroup

\* When the elimination stops, the pivots' columns and the column without a
\* pivot are dependent: a vector other than zero is annihilated.
LEMMA StuckAnnihilates ==
    ASSUME NEW rows \in Table, NEW n \in Column, Solved(rows, n), Candidates(rows, n) = {}
    PROVE  \E v \in [Column -> Byte] :
              /\ v[n] = One
              /\ Annihilates(rows, Joint(v, [c \in Column |-> Zero]))
<1> DEFINE v == [c \in Column |-> IF c = n THEN One ELSE IF c < n THEN rows[c][n] ELSE Zero]
           nothing == [c \in Column |-> Zero]
<1>1. \A i \in Column : rows[i] \in [Width -> Byte] /\ \A c \in Column : rows[i][c] \in Byte
  BY Dimensions DEF Table
<1>2. v \in [Column -> Byte] /\ nothing \in [Column -> Byte] /\ v[n] = One
  BY <1>1, Bits
<1>3. \A i \in Column : i >= n => rows[i][n] = Zero
  BY DEF Candidates
<1>4. \A i, j \in Column : j < n => rows[i][j] = IF i = j THEN One ELSE Zero
  <2> SUFFICES ASSUME NEW i \in Column, NEW j \in Column, j < n
               PROVE  rows[i][j] = IF i = j THEN One ELSE Zero
    OBVIOUS
  <2>1. j \in 0 .. n - 1
    BY Dimensions
  <2> QED
    BY <2>1 DEF Solved, UnitColumn
<1>5. \A c \in Column : v[c] = IF c = n THEN One ELSE IF c < n THEN rows[c][n] ELSE Zero
  OBVIOUS
<1> HIDE DEF v
<1>6. ASSUME NEW i \in Column
      PROVE  Dot(rows[i], v) = Zero
  <2> DEFINE h == [c \in Column |-> GfMul(rows[i][c], v[c])]
             f == [c \in Column |-> IF c = i /\ i < n THEN rows[i][n] ELSE Zero]
             g == [c \in Column |-> IF c = n THEN rows[i][n] ELSE Zero]
  <2>1. \A c \in Column : f[c] \in Byte /\ g[c] \in Byte
    BY <1>1, Bits
  <2>2. \A c \in Column : h[c] = Xor(f[c], g[c])
    <3> SUFFICES ASSUME NEW c \in Column
                 PROVE  GfMul(rows[i][c], v[c]) = Xor(f[c], g[c])
      OBVIOUS
    <3>0. /\ \A a : Xor(a, Zero) = a /\ Xor(Zero, a) = a
          /\ \A a \in Byte : GfMul(a, One) = a /\ GfMul(One, a) = a
          /\ \A a \in Byte : GfMul(a, Zero) = Zero /\ GfMul(Zero, a) = Zero
      BY XorGroup, MulOne, MulZero
    <3>1. rows[i][c] \in Byte /\ v[c] \in Byte /\ rows[i][n] \in Byte /\ c \in Nat /\ i \in Nat /\ n \in Nat
      BY <1>1, <1>2, Dimensions
    <3>2. CASE c = n
      <4>1. v[c] = One /\ f[c] = Zero /\ g[c] = rows[i][n]
        BY <1>5, <3>1, <3>2
      <4> QED
        BY <3>0, <3>1, <3>2, <4>1
    <3>3. CASE c < n
      <4>1. v[c] = rows[c][n] /\ g[c] = Zero /\ f[c] = (IF c = i THEN rows[i][n] ELSE Zero)
        BY <1>5, <3>1, <3>3
      <4>2. rows[i][c] = IF i = c THEN One ELSE Zero
        BY <1>4, <3>3
      <4> HIDE DEF f, g
      <4> QED
        BY <3>0, <3>1, <4>1, <4>2
    <3>4. CASE c > n
      <4>1. v[c] = Zero /\ g[c] = Zero /\ f[c] = Zero
        BY <1>5, <3>1, <3>4
      <4> HIDE DEF f, g
      <4> QED
        BY <3>0, <3>1, <4>1
    <3> QED
      BY <3>1, <3>2, <3>3, <3>4
  <2>3. XorOver(Column, f) = rows[i][n]
    <3>1. CASE i < n
      <4>1. f[i] = rows[i][n] /\ \A c \in Column : c # i => f[c] = Zero
        BY <3>1
      <4>2. f[i] \in Byte
        BY <2>1
      <4> HIDE DEF f
      <4>3. XorOver(Column, f) = f[i]
        BY <4>1, <4>2, XorSingle
      <4> QED
        BY <4>1, <4>3
    <3>2. CASE ~(i < n)
      <4>1. \A c \in Column \ {} : f[c] = Zero
        BY <3>2
      <4>2. {} \in SUBSET Column
        OBVIOUS
      <4> HIDE DEF f
      <4>3. XorOver(Column, f) = XorOver({}, f)
        BY <4>1, <4>2, XorSupport
      <4>4. rows[i][n] = Zero
        BY <1>3, <3>2, Dimensions
      <4> QED
        BY <4>3, <4>4, XorNothing
    <3> QED
      BY <3>1, <3>2
  <2>4. XorOver(Column, g) = rows[i][n]
    <3>1. g[n] = rows[i][n] /\ g[n] \in Byte /\ \A c \in Column : c # n => g[c] = Zero
      BY <2>1
    <3> HIDE DEF g
    <3>2. XorOver(Column, g) = g[n]
      BY <3>1, XorSingle
    <3> QED
      BY <3>1, <3>2
  <2>5. XorOver(Column, h) = Xor(XorOver(Column, f), XorOver(Column, g))
    <3>1. IsFiniteSet(Column)
      BY Dimensions
    <3> HIDE DEF f, g, h
    <3>2. \A c \in Column : f[c] \in Byte /\ g[c] \in Byte /\ h[c] = Xor(f[c], g[c])
      BY <2>1, <2>2
    <3> QED
      BY <3>1, <3>2, XorTerms
  <2>6. Dot(rows[i], v) = XorOver(Column, h)
    BY DEF Dot
  <2>7. Xor(rows[i][n], rows[i][n]) = Zero
    BY XorGroup
  <2> HIDE DEF f, g, h
  <2> QED
    BY <2>3, <2>4, <2>5, <2>6, <2>7
<1>7. ASSUME NEW i \in Column
      PROVE  Product(rows[i], Joint(v, nothing)) = Zero
  <2> DEFINE row == rows[i]
             right == [c \in Column |-> row[c + DataShards]]
  <2>1. row \in [Width -> Byte] /\ Dot(row, v) = Zero
    BY <1>1, <1>6
  <2>2. Dot(right, nothing) = Zero
    <3> DEFINE f == [c \in Column |-> GfMul(right[c], nothing[c])]
    <3>1. \A c \in Column : row[c + DataShards] \in Byte
      BY <2>1, Dimensions
    <3>2. \A c \in Column \ {} : f[c] = Zero
      BY <3>1, MulZero
    <3>3. {} \in SUBSET Column
      OBVIOUS
    <3> HIDE DEF f
    <3>4. XorOver(Column, f) = XorOver({}, f)
      BY <3>2, <3>3, XorSupport
    <3> QED
      BY <3>4, XorNothing DEF Dot, f
  <2>3. \A c \in Column : right[c] = row[c + DataShards]
    OBVIOUS
  <2> HIDE DEF row, right, nothing
  <2>4. Product(row, Joint(v, nothing)) = Xor(Dot(row, v), Dot(right, nothing))
    BY <1>2, <2>1, <2>3, ProductJoint
  <2> QED
    BY <2>1, <2>2, <2>4, XorGroup DEF row
<1> QED
  BY <1>2, <1>7 DEF Annihilates

\* after[turns]: the augmented matrix after turns of the loop.
EliminationLoop(after, m) ==
    /\ after[0] = [regular |-> TRUE, rows |-> Augmented(m)]
    /\ \A turns \in 1 .. DataShards : after[turns] = Eliminated(after[turns - 1], turns - 1)

\* A turn keeps the type; once a column had no pivot nothing changes.
LEMMA EliminatedType ==
    ASSUME NEW e \in Elimination, NEW n \in Column
    PROVE  /\ Eliminated(e, n) \in Elimination
           /\ ~e.regular => Eliminated(e, n) = e
<1>1. CASE e.regular
  BY <1>1, EliminatedRows
<1>2. CASE ~e.regular
  <2>1. Eliminated(e, n) = [e EXCEPT !.regular = FALSE]
    BY <1>2 DEF Eliminated
  <2>2. e = [regular |-> FALSE, rows |-> e.rows]
    BY <1>2 DEF Elimination
  <2> QED
    BY <2>1, <2>2
<1> QED
  BY <1>1, <1>2

\* _matrix_inverse is the loop.
LEMMA InverseLoop ==
    ASSUME NEW m \in SquareMatrix
    PROVE  \E after :
              /\ EliminationLoop(after, m)
              /\ MatrixInverse(m) =
                    [regular |-> after[DataShards].regular,
                     rows |-> [row \in Column |->
                                 [c \in Column |-> after[DataShards].rows[row][c + DataShards]]]]
<1> DEFINE base == [regular |-> TRUE, rows |-> Augmented(m)]
           step == [i \in 1 .. DataShards |-> [e \in Elimination |-> Eliminated(e, i - 1)]]
           Body(g) == [turns \in 0 .. DataShards |->
                          IF turns = 0 THEN base ELSE Eliminated(g[turns - 1], turns - 1)]
           after == CHOOSE g : g = Body(g)
<1>0. DataShards \in Nat \ {0}
  BY CodecAssumption
<1>1. base \in Elimination
  <2>1. Augmented(m) \in Table
    <3>1. [c \in Column |-> Zero] \in [Column -> Byte]
      BY Bits
    <3> QED
      BY <3>1, AugmentedJoint
  <2> QED
    BY <2>1 DEF Elimination
<1>2. \A i \in 1 .. DataShards : i - 1 \in Column
  BY <1>0 DEF Column
<1>3. step \in Steps(DataShards, Elimination)
  <2>1. \A i \in 1 .. DataShards : \A e \in Elimination : Eliminated(e, i - 1) \in Elimination
    BY <1>2, EliminatedType
  <2> QED
    BY <2>1 DEF Steps
<1>4. \A i \in 1 .. DataShards : \A e \in Elimination : step[i][e] = Eliminated(e, i - 1)
  OBVIOUS
<1> HIDE DEF base, step
<1>5. PICK f : Iterates(f, step, base, DataShards, Elimination)
  BY <1>0, <1>1, <1>3, Recursion
<1>6. f = Body(f)
  <2>1. f \in [0 .. DataShards -> Elimination] /\ f[0] = base
    BY <1>5 DEF Iterates
  <2>2. \A i \in 1 .. DataShards : f[i - 1] \in Elimination /\ f[i] = step[i][f[i - 1]]
    <3>1. \A i \in 1 .. DataShards : f[i] = step[i][f[i - 1]]
      BY <1>5 DEF Iterates
    <3>2. \A i \in 1 .. DataShards : i - 1 \in 0 .. DataShards
      BY <1>0
    <3> QED
      BY <2>1, <3>1, <3>2
  <2>3. \A i \in 1 .. DataShards : f[i] = Eliminated(f[i - 1], i - 1)
    BY <1>4, <2>2
  <2>4. \A i \in 0 .. DataShards : f[i] = IF i = 0 THEN base ELSE Eliminated(f[i - 1], i - 1)
    BY <2>1, <2>3
  <2> QED
    BY <2>1, <2>4
<1>7. after = Body(after)
  BY <1>6
<1>8. MatrixInverse(m) =
         [regular |-> after[DataShards].regular,
          rows |-> [row \in Column |->
                      [c \in Column |-> after[DataShards].rows[row][c + DataShards]]]]
  BY DEF MatrixInverse, base
<1> HIDE DEF after
<1>9. EliminationLoop(after, m)
  <2>1. \A i \in 0 .. DataShards : after[i] = IF i = 0 THEN base ELSE Eliminated(after[i - 1], i - 1)
    BY <1>7
  <2> HIDE DEF Body
  <2>2. \A i \in 1 .. DataShards : i \in 0 .. DataShards /\ i # 0
    BY <1>0
  <2>3. 0 \in 0 .. DataShards
    BY <1>0
  <2> QED
    BY <2>1, <2>2, <2>3 DEF EliminationLoop, base
<1> QED
  BY <1>8, <1>9

(***************************************************************************)
(* _matrix_inverse finds the inverse exactly when there is one: what it    *)
(* returns gives every vector back from its product with the matrix, and   *)
(* it raises only for a matrix that takes a vector other than zero to zero.*)
(***************************************************************************)
THEOREM MatrixInverseExact ==
    ASSUME NEW m \in SquareMatrix
    PROVE  LET inverse == MatrixInverse(m)
           IN  /\ inverse.regular =>
                     \A d, s \in [Column -> Byte] :
                         (\A i \in Column : Dot(m[i], d) = s[i])
                             => \A i \in Column : Dot(inverse.rows[i], s) = d[i]
               /\ inverse.regular <=>
                     \A v \in [Column -> Byte] :
                         (\A i \in Column : Dot(m[i], v) = Zero) => \A c \in Column : v[c] = Zero
<1> DEFINE inverse == MatrixInverse(m)
           start == Augmented(m)
           nothing == [c \in Column |-> Zero]
<1>0. DataShards \in Nat \ {0}
  BY CodecAssumption
<1>1. nothing \in [Column -> Byte] /\ start \in Table
  <2>1. nothing \in [Column -> Byte]
    BY Bits
  <2> QED
    BY <2>1, AugmentedJoint
<1>2. PICK after : /\ EliminationLoop(after, m)
                   /\ inverse =
                        [regular |-> after[DataShards].regular,
                         rows |-> [row \in Column |->
                                     [c \in Column |-> after[DataShards].rows[row][c + DataShards]]]]
  BY InverseLoop
<1>3. /\ inverse.regular = after[DataShards].regular
      /\ \A i, c \in Column : inverse.rows[i][c] = after[DataShards].rows[i][c + DataShards]
  BY <1>2
<1> HIDE DEF inverse, start
<1> DEFINE Good(e, n) ==
             /\ e \in Elimination
             /\ \A w \in [Width -> Byte] : Annihilates(e.rows, w) <=> Annihilates(start, w)
             /\ e.regular => Solved(e.rows, n)
             /\ ~e.regular => \E col \in Column : Solved(e.rows, col) /\ Candidates(e.rows, col) = {}
           G == {n \in 0 .. DataShards : Good(after[n], n)}
<1>4. 0 \in G
  <2>1. after[0] = [regular |-> TRUE, rows |-> start]
    BY <1>2 DEF EliminationLoop, start
  <2>2. Solved(start, 0)
    BY DEF Solved
  <2>3. Good(after[0], 0)
    BY <1>1, <2>1, <2>2 DEF Elimination
  <2> HIDE DEF Good
  <2> QED
    BY <1>0, <2>3
<1>5. ASSUME NEW n \in 0 .. DataShards, n + 1 <= DataShards, n \in G
      PROVE  n + 1 \in G
  <2> DEFINE e == after[n]
             next == after[n + 1]
  <2>1. n \in Column /\ n + 1 \in 1 .. DataShards /\ (n + 1) - 1 = n /\ n + 1 \in 0 .. DataShards
    BY <1>0, <1>5 DEF Column
  <2>2. next = Eliminated(e, n)
    BY <1>2, <2>1 DEF EliminationLoop
  <2>3. Good(e, n)
    BY <1>5
  <2> HIDE DEF e, next
  <2>4. CASE ~e.regular
    <3>1. next = e
      BY <2>1, <2>2, <2>3, <2>4, EliminatedType
    <3>2. Good(next, n + 1)
      BY <2>3, <2>4, <3>1
    <3> HIDE DEF Good
    <3> QED
      BY <2>1, <3>2 DEF next
  <2>5. CASE e.regular
    <3>1. /\ next \in Elimination
          /\ next.regular <=> Candidates(e.rows, n) # {}
          /\ ~next.regular => next.rows = e.rows
          /\ \A w \in [Width -> Byte] : Annihilates(next.rows, w) <=> Annihilates(e.rows, w)
          /\ Solved(e.rows, n) /\ next.regular => Solved(next.rows, n + 1)
      BY <2>1, <2>2, <2>3, <2>5, EliminatedRows
    <3>2. Good(next, n + 1)
      BY <2>1, <2>3, <2>5, <3>1
    <3> HIDE DEF Good
    <3> QED
      BY <2>1, <3>2 DEF next
  <2> QED
    BY <2>4, <2>5
<1>6. Good(after[DataShards], DataShards)
  <2>1. \A n \in 0 .. DataShards : n + 1 <= DataShards /\ n \in G => n + 1 \in G
    BY <1>5
  <2> HIDE DEF G
  <2>2. DataShards \in G
    BY <1>0, <1>4, <2>1, UpTo
  <2> QED
    BY <2>2 DEF G
<1> DEFINE last == after[DataShards].rows
<1>7. /\ last \in Table
      /\ \A w \in [Width -> Byte] : Annihilates(last, w) <=> Annihilates(start, w)
      /\ inverse.regular => Solved(last, DataShards)
      /\ ~inverse.regular => \E col \in Column : Solved(last, col) /\ Candidates(last, col) = {}
      /\ \A i, c \in Column : inverse.rows[i][c] = last[i][c + DataShards]
  BY <1>3, <1>6 DEF Elimination
<1> HIDE DEF last, Good, G
<1>8. ASSUME NEW d \in [Column -> Byte], NEW s \in [Column -> Byte]
      PROVE  /\ Joint(d, s) \in [Width -> Byte]
             /\ Annihilates(last, Joint(d, s)) <=> \A i \in Column : Dot(m[i], d) = s[i]
  <2>1. Joint(d, s) \in [Width -> Byte]
    <3>1. \A c \in Width : (IF c \in Column THEN d[c] ELSE s[c - DataShards]) \in Byte
      BY Dimensions
    <3> QED
      BY <3>1 DEF Joint
  <2>2. Annihilates(start, Joint(d, s)) <=> \A i \in Column : Dot(m[i], d) = s[i]
    BY AugmentedJoint DEF start
  <2> QED
    BY <1>7, <2>1, <2>2
<1>9. ASSUME inverse.regular, NEW d \in [Column -> Byte], NEW s \in [Column -> Byte],
             \A i \in Column : Dot(m[i], d) = s[i],
             NEW i \in Column
      PROVE  Dot(inverse.rows[i], s) = d[i]
  <2> DEFINE right == inverse.rows[i]
  <2>1. \A c \in Column : right[c] = last[i][c + DataShards]
    BY <1>7
  <2>2. Annihilates(last, Joint(d, s)) /\ Solved(last, DataShards)
    BY <1>7, <1>8, <1>9
  <2> HIDE DEF right
  <2>3. Dot(right, s) = d[i]
    BY <1>7, <2>1, <2>2, SolvedInverts
  <2> QED
    BY <2>3 DEF right
<1>10. ASSUME inverse.regular, NEW v \in [Column -> Byte],
              \A i \in Column : Dot(m[i], v) = Zero,
              NEW c \in Column
       PROVE  v[c] = Zero
  <2>1. \A i \in Column : Dot(m[i], v) = nothing[i]
    BY <1>10
  <2>2. \A i \in Column : Dot(inverse.rows[i], nothing) = v[i]
    BY <1>1, <1>9, <1>10, <2>1
  <2>3. \A i \in Column : Dot(m[i], nothing) = nothing[i]
    <3> SUFFICES ASSUME NEW i \in Column
                 PROVE  Dot(m[i], nothing) = Zero
      OBVIOUS
    <3> DEFINE f == [k \in Column |-> GfMul(m[i][k], nothing[k])]
    <3>1. \A k \in Column \ {} : f[k] = Zero
      BY MulZero DEF SquareMatrix
    <3>2. {} \in SUBSET Column
      OBVIOUS
    <3> HIDE DEF f
    <3>3. XorOver(Column, f) = XorOver({}, f)
      BY <3>1, <3>2, XorSupport
    <3> QED
      BY <3>3, XorNothing DEF Dot, f
  <2>4. \A i \in Column : Dot(inverse.rows[i], nothing) = nothing[i]
    BY <1>1, <1>9, <1>10, <2>3
  <2> QED
    BY <2>2, <2>4
<1>11. ASSUME ~inverse.regular
       PROVE  \E v \in [Column -> Byte] :
                 /\ \A i \in Column : Dot(m[i], v) = Zero
                 /\ \E c \in Column : v[c] # Zero
  <2>1. PICK col \in Column : Solved(last, col) /\ Candidates(last, col) = {}
    BY <1>7, <1>11
  <2>2. PICK v \in [Column -> Byte] : v[col] = One /\ Annihilates(last, Joint(v, nothing))
    BY <1>7, <2>1, StuckAnnihilates
  <2>3. \A i \in Column : Dot(m[i], v) = nothing[i]
    BY <1>1, <1>8, <2>2
  <2> QED
    BY <2>2, <2>3, Bits
<1> QED
  BY <1>9, <1>10, <1>11 DEF inverse

-----------------------------------------------------------------------------
(***************************************************************************)
(* Framing: the data shards joined are the framed payload and padding, and *)
(* the length in front of it says where the payload ends.                  *)
(***************************************************************************)

\* A number below 256 is its bits.
LEMMA BitsOfExact ==
    ASSUME NEW a \in 0 .. 255, NEW b \in 0 .. 255, BitsOf(a) = BitsOf(b)
    PROVE  a = b
<1>1. 2^0 = 1 /\ 2^1 = 2 /\ 2^2 = 4 /\ 2^3 = 8 /\ 2^4 = 16 /\ 2^5 = 32 /\ 2^6 = 64 /\ 2^7 = 128
  OBVIOUS
<1>2. \A n \in 0 .. 255 :
         /\ n = 2 * (n \div 2) + ((n \div 1) % 2)
         /\ n \div 2 = 2 * (n \div 4) + ((n \div 2) % 2)
         /\ n \div 4 = 2 * (n \div 8) + ((n \div 4) % 2)
         /\ n \div 8 = 2 * (n \div 16) + ((n \div 8) % 2)
         /\ n \div 16 = 2 * (n \div 32) + ((n \div 16) % 2)
         /\ n \div 32 = 2 * (n \div 64) + ((n \div 32) % 2)
         /\ n \div 64 = 2 * (n \div 128) + ((n \div 64) % 2)
         /\ n \div 128 = (n \div 128) % 2
  OBVIOUS
<1>3. \A bit \in 0 .. 7 : ((a \div 2^bit) % 2 = 1) <=> ((b \div 2^bit) % 2 = 1)
  BY DEF BitsOf
<1>4. \A bit \in 0 .. 7 : (a \div 2^bit) % 2 \in {0, 1} /\ (b \div 2^bit) % 2 \in {0, 1}
  <2>1. \A p \in {1, 2, 4, 8, 16, 32, 64, 128} : (a \div p) % 2 \in {0, 1} /\ (b \div p) % 2 \in {0, 1}
    OBVIOUS
  <2>2. \A bit \in 0 .. 7 : 2^bit \in {1, 2, 4, 8, 16, 32, 64, 128}
    <3>1. \A bit \in 0 .. 7 : bit \in {0, 1, 2, 3, 4, 5, 6, 7}
      OBVIOUS
    <3> QED
      BY <1>1, <3>1
  <2> QED
    BY <2>1, <2>2
<1>5. \A bit \in 0 .. 7 : (a \div 2^bit) % 2 = (b \div 2^bit) % 2
  BY <1>3, <1>4
<1>6. /\ (a \div 1) % 2 = (b \div 1) % 2 /\ (a \div 2) % 2 = (b \div 2) % 2
      /\ (a \div 4) % 2 = (b \div 4) % 2 /\ (a \div 8) % 2 = (b \div 8) % 2
      /\ (a \div 16) % 2 = (b \div 16) % 2 /\ (a \div 32) % 2 = (b \div 32) % 2
      /\ (a \div 64) % 2 = (b \div 64) % 2 /\ (a \div 128) % 2 = (b \div 128) % 2
  BY <1>1, <1>5
<1> DEFINE q(n, p) == n \div p
           r(n, p) == (n \div p) % 2
<1>7. \A n \in {a, b} :
         /\ n = 2 * q(n, 2) + r(n, 1)
         /\ q(n, 2) = 2 * q(n, 4) + r(n, 2)
         /\ q(n, 4) = 2 * q(n, 8) + r(n, 4)
         /\ q(n, 8) = 2 * q(n, 16) + r(n, 8)
         /\ q(n, 16) = 2 * q(n, 32) + r(n, 16)
         /\ q(n, 32) = 2 * q(n, 64) + r(n, 32)
         /\ q(n, 64) = 2 * q(n, 128) + r(n, 64)
         /\ q(n, 128) = r(n, 128)
  <2>1. a \in 0 .. 255 /\ b \in 0 .. 255
    OBVIOUS
  <2>2. \A n \in {a, b} : n \in 0 .. 255
    BY <2>1
  <2> QED
    BY <1>2, <2>2
<1>8. /\ r(a, 1) = r(b, 1) /\ r(a, 2) = r(b, 2) /\ r(a, 4) = r(b, 4) /\ r(a, 8) = r(b, 8)
      /\ r(a, 16) = r(b, 16) /\ r(a, 32) = r(b, 32) /\ r(a, 64) = r(b, 64)
      /\ r(a, 128) = r(b, 128)
  BY <1>6
<1> HIDE DEF q, r
<1>9. q(a, 128) = q(b, 128)
  BY <1>7, <1>8
<1>10. q(a, 64) = q(b, 64) /\ q(a, 32) = q(b, 32) /\ q(a, 16) = q(b, 16)
  BY <1>7, <1>8, <1>9
<1>11. q(a, 8) = q(b, 8) /\ q(a, 4) = q(b, 4) /\ q(a, 2) = q(b, 2)
  BY <1>7, <1>8, <1>10
<1> QED
  BY <1>7, <1>8, <1>11

IsPayload(payload) == payload \in Seq(Byte) /\ Len(payload) < 256

\* Two sequences, one after the other.
LEMMA Concatenated ==
    ASSUME NEW s \in Seq(Byte), NEW t \in Seq(Byte)
    PROVE  \E both \in Seq(Byte) :
              /\ both = s \o t
              /\ Len(both) = Len(s) + Len(t)
              /\ \A i \in 1 .. Len(s) : both[i] = s[i]
              /\ \A i \in 1 .. Len(t) : both[Len(s) + i] = t[i]
<1> DEFINE both == s \o t
<1>1. both \in Seq(Byte) /\ Len(both) = Len(s) + Len(t)
  OBVIOUS
<1>2. \A i \in 1 .. Len(s) : both[i] = s[i]
  OBVIOUS
<1>3. \A i \in 1 .. Len(t) : both[Len(s) + i] = t[i]
  OBVIOUS
<1>4. both = s \o t
  OBVIOUS
<1> HIDE DEF both
<1> QED
  BY <1>1, <1>2, <1>3, <1>4

\* What is in front of the payload.
LEMMA FramedIs ==
    ASSUME NEW payload, IsPayload(payload)
    PROVE  /\ Framed(payload) \in Seq(Byte)
           /\ Len(Framed(payload)) = 8 + Len(payload)
           /\ \A i \in 1 .. 7 : Framed(payload)[i] = Zero
           /\ Framed(payload)[8] = BitsOf(Len(payload))
           /\ \A i \in 1 .. Len(payload) : Framed(payload)[8 + i] = payload[i]
<1> DEFINE head == [i \in 1 .. 8 |-> IF i = 8 THEN BitsOf(Len(payload)) ELSE Zero]
<1>1. head \in Seq(Byte) /\ Len(head) = 8
  <2>1. BitsOf(Len(payload)) \in Byte
    BY DEF BitsOf, Byte
  <2>2. head \in [1 .. 8 -> Byte]
    BY <2>1, Bits
  <2> QED
    BY <2>2
<1>2. /\ \A i \in 1 .. 7 : head[i] = Zero
      /\ head[8] = BitsOf(Len(payload))
  OBVIOUS
<1>3. Framed(payload) = head \o payload
  BY DEF Framed, LengthBytes
<1> HIDE DEF head
<1>4. payload \in Seq(Byte)
  BY DEF IsPayload
<1>5. PICK both \in Seq(Byte) :
         /\ both = head \o payload
         /\ Len(both) = Len(head) + Len(payload)
         /\ \A i \in 1 .. Len(head) : both[i] = head[i]
         /\ \A i \in 1 .. Len(payload) : both[Len(head) + i] = payload[i]
  BY <1>1, <1>4, Concatenated
<1>6. /\ Len(both) = 8 + Len(payload)
      /\ \A i \in 1 .. 8 : both[i] = head[i]
      /\ \A i \in 1 .. Len(payload) : both[8 + i] = payload[i]
  BY <1>1, <1>5
<1>7. Framed(payload) = both
  BY <1>3, <1>5
<1>8. \A i \in 1 .. 7 : i \in 1 .. 8
  OBVIOUS
<1>9. 8 \in 1 .. 8
  OBVIOUS
<1> QED
  BY <1>2, <1>5, <1>6, <1>7, <1>8, <1>9

\* The data shards have one size, and together room for the framed payload.
LEMMA DataOfIs ==
    ASSUME NEW payload, IsPayload(payload)
    PROVE  LET framed == Framed(payload)
               size == ShardSize(framed)
               data == DataOf(payload)
           IN  /\ size \in Nat \ {0}
               /\ Len(framed) <= DataShards * size
               /\ data \in [Column -> [1 .. size -> Byte]]
               /\ \A c \in Column : \A i \in 1 .. size :
                     data[c][i] = IF c * size + i <= Len(framed) THEN framed[c * size + i] ELSE Zero
<1> DEFINE framed == Framed(payload)
           size == ShardSize(framed)
           data == DataOf(payload)
<1>1. framed \in Seq(Byte) /\ Len(framed) \in Nat /\ Len(framed) >= 8
  <2>1. Len(payload) \in Nat
    BY DEF IsPayload
  <2> QED
    BY <2>1, FramedIs
<1> HIDE DEF framed
<1>2. size \in Nat \ {0} /\ Len(framed) <= DataShards * size
  <2> DEFINE l == Len(framed)
             k == DataShards
  <2>1. l \in Nat /\ l >= 8 /\ k \in Nat \ {0}
    BY <1>1, CodecAssumption
  <2> HIDE DEF l, k
  <2>2. (l + k - 1) \div k \in Nat /\ k * ((l + k - 1) \div k) >= l
    BY <2>1
  <2>3. (l + k - 1) \div k # 0
    BY <2>1, <2>2
  <2> QED
    BY <2>1, <2>2, <2>3 DEF ShardSize, l, k
<1>3. data = [c \in Column |-> [i \in 1 .. size |->
                IF c * size + i <= Len(framed) THEN framed[c * size + i] ELSE Zero]]
  BY DEF DataOf, framed
<1> HIDE DEF data, size
<1>4. \A c \in Column : \A i \in 1 .. size :
         (IF c * size + i <= Len(framed) THEN framed[c * size + i] ELSE Zero) \in Byte
  <2> SUFFICES ASSUME NEW c \in Column, NEW i \in 1 .. size, c * size + i <= Len(framed)
               PROVE  framed[c * size + i] \in Byte
    BY Bits
  <2>1. c * size \in Nat
    <3>1. c \in Nat /\ size \in Nat
      BY <1>2, Dimensions
    <3> HIDE DEF Column
    <3> QED
      BY <3>1
  <2>2. c * size + i \in 1 .. Len(framed)
    BY <1>1, <2>1
  <2> QED
    BY <1>1, <2>2
<1> QED
  BY <1>2, <1>3, <1>4 DEF data, size, framed

\* Joining the data shards gives the framed payload and padding.
LEMMA JoinedIs ==
    ASSUME NEW payload, IsPayload(payload)
    PROVE  LET framed == Framed(payload)
               room == DataShards * ShardSize(framed)
           IN  Joined(DataOf(payload)) =
                  [n \in 1 .. room |-> IF n <= Len(framed) THEN framed[n] ELSE Zero]
<1> DEFINE framed == Framed(payload)
           size == ShardSize(framed)
           data == DataOf(payload)
           k == DataShards
<1>1. /\ size \in Nat \ {0}
      /\ data \in [Column -> [1 .. size -> Byte]]
      /\ \A c \in Column : \A i \in 1 .. size :
            data[c][i] = IF c * size + i <= Len(framed) THEN framed[c * size + i] ELSE Zero
  BY DataOfIs
<1>2. k \in Nat \ {0} /\ 0 \in Column
  BY CodecAssumption DEF Column
<1> HIDE DEF framed, size, data
<1>3. Len(data[0]) = size
  BY <1>1, <1>2
<1>4. Joined(data) = [n \in 1 .. k * size |-> data[(n - 1) \div size][((n - 1) % size) + 1]]
  BY <1>3 DEF Joined
<1>5. ASSUME NEW n \in 1 .. k * size
      PROVE  data[(n - 1) \div size][((n - 1) % size) + 1]
                = IF n <= Len(framed) THEN framed[n] ELSE Zero
  <2> DEFINE q == (n - 1) \div size
             r == (n - 1) % size
  <2> HIDE DEF k
  <2>1. n - 1 \in Nat /\ n - 1 < k * size /\ k * size \in Nat
    BY <1>1, <1>2, <1>5
  <2>2. q \in Nat /\ q < k /\ r \in 0 .. size - 1 /\ q * size + r = n - 1
    <3> DEFINE x == n - 1
    <3>1. x \in Nat /\ x < k * size /\ size \in Nat \ {0} /\ k \in Nat
      BY <1>1, <1>2, <2>1
    <3> HIDE DEF x
    <3>2. x \div size \in Nat /\ x % size \in 0 .. size - 1
      BY <3>1
    <3>3. x = (size * (x \div size)) + (x % size)
      BY <3>1
    <3>4. x \div size < k
      BY <3>1
    <3> QED
      BY <3>1, <3>2, <3>3, <3>4 DEF x
  <2>3. q \in Column
    BY <1>2, <2>2 DEF Column, k
  <2> HIDE DEF q, r
  <2>4. r + 1 \in 1 .. size /\ q * size + (r + 1) = n
    <3>1. q * size \in Nat
      BY <1>1, <2>2
    <3> QED
      BY <1>1, <2>2, <3>1
  <2>5. data[q][r + 1] = IF q * size + (r + 1) <= Len(framed) THEN framed[q * size + (r + 1)] ELSE Zero
    BY <1>1, <2>3, <2>4
  <2> QED
    BY <2>4, <2>5 DEF q, r
<1> QED
  BY <1>4, <1>5 DEF framed, size, data

\* The payload is read back from the data shards.
LEMMA UnframedJoined ==
    ASSUME NEW payload, IsPayload(payload)
    PROVE  Unframed(Joined(DataOf(payload))) = payload
<1> DEFINE framed == Framed(payload)
           room == DataShards * ShardSize(framed)
           joined == Joined(DataOf(payload))
           l == Len(payload)
<1>1. payload \in Seq(Byte) /\ l \in 0 .. 255
  <2>1. payload \in Seq(Byte) /\ l \in Nat /\ l < 256
    BY DEF IsPayload
  <2> HIDE DEF l
  <2> QED
    BY <2>1
<1>2. /\ framed \in Seq(Byte) /\ Len(framed) = 8 + l
      /\ \A i \in 1 .. 7 : framed[i] = Zero
      /\ framed[8] = BitsOf(l)
      /\ \A i \in 1 .. l : framed[8 + i] = payload[i]
  BY FramedIs
<1>3. room \in Nat /\ Len(framed) <= room
  <2> DEFINE size == ShardSize(framed)
  <2>1. size \in Nat /\ DataShards \in Nat /\ Len(framed) <= DataShards * size
    BY DataOfIs, CodecAssumption
  <2> HIDE DEF size
  <2>2. DataShards * size \in Nat
    BY <2>1
  <2> QED
    BY <2>1, <2>2 DEF size
<1>4. joined = [n \in 1 .. room |-> IF n <= Len(framed) THEN framed[n] ELSE Zero]
  BY JoinedIs
<1> HIDE DEF framed, room, joined, l
<1>5. /\ Len(joined) = room /\ joined \in Seq(Byte)
      /\ \A n \in 1 .. 8 + l : joined[n] = framed[n]
  <2>1. \A n \in 1 .. Len(framed) : framed[n] \in Byte
    BY <1>2
  <2>2. joined \in [1 .. room -> Byte]
    <3>1. \A n \in 1 .. room : n <= Len(framed) => n \in 1 .. Len(framed)
      BY <1>1, <1>2
    <3> QED
      BY <1>4, <2>1, <3>1, Bits
  <2>3. \A n \in 1 .. 8 + l : n \in 1 .. room /\ n <= Len(framed)
    BY <1>1, <1>2, <1>3
  <2> QED
    BY <1>3, <1>4, <2>2, <2>3
<1>6. /\ \A i \in 1 .. 7 : joined[i] = Zero
      /\ joined[8] = BitsOf(l)
      /\ \A i \in 1 .. l : joined[8 + i] = payload[i]
  <2>1. /\ \A i \in 1 .. 7 : i \in 1 .. 8 + l
        /\ 8 \in 1 .. 8 + l
        /\ \A i \in 1 .. l : 8 + i \in 1 .. 8 + l
    BY <1>1
  <2> QED
    BY <1>2, <1>5, <2>1
<1>7. (CHOOSE n \in 0 .. 255 : BitsOf(n) = joined[8]) = l
  <2>1. \A n \in 0 .. 255 : BitsOf(n) = joined[8] => n = l
    BY <1>1, <1>6, BitsOfExact
  <2> QED
    BY <1>1, <1>6, <2>1
<1>8. Min({room - 8, l}) = l
  <2>1. \A x \in {room - 8, l} : l <= x
    BY <1>1, <1>2, <1>3
  <2>2. \A x \in {room - 8, l} : (\A y \in {room - 8, l} : x <= y) => x = l
    BY <1>1, <1>3, <2>1
  <2> QED
    BY <2>1, <2>2 DEF Min
<1>9. Unframed(joined) = SubSeq(joined, 9, 8 + l)
  <2> DEFINE length == IF \E i \in 1 .. LengthBytes - 1 : joined[i] # Zero THEN Len(joined) - LengthBytes
                       ELSE Min({Len(joined) - LengthBytes,
                                 CHOOSE n \in 0 .. 255 : BitsOf(n) = joined[LengthBytes]})
  <2>1. LengthBytes = 8 /\ LengthBytes - 1 = 7 /\ LengthBytes + 1 = 9
    BY DEF LengthBytes
  <2>2. length = l
    BY <1>5, <1>6, <1>7, <1>8, <2>1
  <2>3. Unframed(joined) = SubSeq(joined, LengthBytes + 1, LengthBytes + length)
    BY DEF Unframed
  <2> HIDE DEF length
  <2> QED
    BY <2>1, <2>2, <2>3
<1>10. SubSeq(joined, 9, 8 + l) = payload
  <2> DEFINE s == SubSeq(joined, 9, 8 + l)
  <2>1. 8 + l <= Len(joined)
    BY <1>2, <1>3, <1>5
  <2>2. s \in Seq(Byte) /\ Len(s) = l
    <3>1. \A i \in 9 .. 8 + l : i \in 1 .. Len(joined)
      BY <1>1, <1>3, <1>5, <2>1
    <3>2. \A i \in 9 .. 8 + l : joined[i] \in Byte
      BY <1>5, <3>1
    <3>3. Len(s) = l
      BY <1>1, <1>5, <2>1
    <3>4. s \in Seq(Byte)
      BY <1>1, <1>5, <2>1, <3>2
    <3> QED
      BY <3>3, <3>4
  <2>3. \A i \in 1 .. l : s[i] = joined[8 + i]
    BY <1>1, <1>5, <2>1
  <2> HIDE DEF s
  <2>4. \A i \in 1 .. l : s[i] = payload[i]
    BY <1>6, <2>3
  <2>5. Len(payload) = l
    BY DEF l
  <2>6. s = payload
    BY <1>1, <2>2, <2>4, <2>5
  <2> QED
    BY <2>6 DEF s
<1> QED
  BY <1>9, <1>10 DEF joined

-----------------------------------------------------------------------------
(***************************************************************************)
(* recover: from independent rows.                                         *)
(***************************************************************************)

\* No data but zeros gives k shards of zeros.
Independent(chosen) ==
    \A v \in [Column -> Byte] :
        (\A i \in chosen : Dot(Matrix[i], v) = Zero) => \A c \in Column : v[c] = Zero

\* The entries of the encoding matrix are bytes.
LEMMA MatrixType == \A i \in Index : Matrix[i] \in [Column -> Byte]
<1> SUFFICES ASSUME NEW i \in Index
             PROVE  Matrix[i] \in [Column -> Byte]
  OBVIOUS
<1>1. Matrix[i] = [c \in Column |->
                     IF i < DataShards THEN (IF i = c THEN One ELSE Zero)
                     ELSE GfPow(BitsOf(i + 1), c)]
  BY DEF Matrix
<1>2. BitsOf(i + 1) \in Byte
  BY DEF BitsOf, Byte
<1>3. \A c \in Column : GfPow(BitsOf(i + 1), c) \in Byte
  BY <1>2, Dimensions, Powers
<1>4. \A c \in Column : (IF i < DataShards THEN (IF i = c THEN One ELSE Zero)
                         ELSE GfPow(BitsOf(i + 1), c)) \in Byte
  BY <1>3, Bits
<1> QED
  BY <1>1, <1>4

\* InOrder gives every one of k shards once.
LEMMA InOrderIs ==
    ASSUME NEW chosen \in kSubset(DataShards, Index)
    PROVE  /\ InOrder(chosen) \in [Column -> chosen]
           /\ \A i \in chosen : \E c \in Column : InOrder(chosen)[c] = i
<1> DEFINE Below(i) == {j \in chosen : j < i}
           rank == [i \in chosen |-> Cardinality(Below(i))]
<1>1. DataShards \in Nat \ {0} /\ chosen \subseteq Index /\ Cardinality(chosen) = DataShards
  BY CodecAssumption DEF kSubset
<1>2. IsFiniteSet(chosen) /\ chosen \subseteq Nat
  <2>1. IsFiniteSet(Index)
    BY CodecAssumption, IntervalsFinite DEF Index, TotalShards
  <2>2. Index \subseteq Nat
    BY DEF Index
  <2> QED
    BY <1>1, <2>1, <2>2, FS_Subset
<1>3. \A i \in chosen : IsFiniteSet(Below(i)) /\ Cardinality(Below(i)) \in Nat
  BY <1>2, FS_Subset, FS_CardinalityType
<1>4. ASSUME NEW i \in chosen
      PROVE  Cardinality(Below(i)) < DataShards
  <2>1. Below(i) \subseteq chosen /\ Below(i) # chosen
    BY <1>2
  <2> HIDE DEF Below
  <2>2. Cardinality(Below(i)) < Cardinality(chosen)
    <3>1. Cardinality(Below(i)) <= Cardinality(chosen) /\ (Cardinality(Below(i)) = Cardinality(chosen) => Below(i) = chosen)
      BY <1>2, <2>1, FS_Subset
    <3> QED
      BY <1>1, <1>3, <2>1, <3>1
  <2> QED
    BY <1>1, <2>2
<1>5. ASSUME NEW i \in chosen, NEW j \in chosen, i < j
      PROVE  Cardinality(Below(i)) < Cardinality(Below(j))
  <2>1. Below(i) \subseteq Below(j) /\ i \in Below(j) /\ i \notin Below(i)
    <3>1. i \in Nat /\ j \in Nat
      BY <1>2
    <3>2. \A k \in chosen : k < i => k < j
      BY <1>2, <1>5, <3>1
    <3>3. \A k : k \in Below(i) => k \in Below(j)
      BY <3>2
    <3>4. i \in Below(j)
      BY <1>5
    <3>5. i \notin Below(i)
      BY <3>1
    <3> HIDE DEF Below
    <3> QED
      BY <3>3, <3>4, <3>5
  <2> HIDE DEF Below
  <2>2. IsFiniteSet(Below(j)) /\ Below(i) # Below(j)
    BY <1>3, <2>1
  <2>3. /\ Cardinality(Below(i)) <= Cardinality(Below(j))
        /\ Cardinality(Below(i)) = Cardinality(Below(j)) => Below(i) = Below(j)
    BY <2>1, <2>2, FS_Subset
  <2> QED
    BY <1>3, <2>2, <2>3
<1>6. /\ rank \in [chosen -> Column]
      /\ \A i, j \in chosen : rank[i] = rank[j] => i = j
  <2>1. \A i \in chosen : rank[i] = Cardinality(Below(i))
    OBVIOUS
  <2>2. rank \in [chosen -> Column]
    <3>1. \A n \in Nat : n < DataShards => n \in Column
      BY <1>1 DEF Column
    <3> HIDE DEF Below
    <3>2. \A i \in chosen : Cardinality(Below(i)) \in Column
      BY <1>3, <1>4, <3>1
    <3> QED
      BY <3>2
  <2> HIDE DEF rank, Below
  <2>3. ASSUME NEW i \in chosen, NEW j \in chosen, rank[i] = rank[j]
        PROVE  i = j
    <3>1. i \in Nat /\ j \in Nat
      BY <1>2
    <3>2. ~(i < j)
      BY <1>3, <1>5, <2>1, <2>3
    <3>3. ~(j < i)
      BY <1>3, <1>5, <2>1, <2>3
    <3> QED
      BY <3>1, <3>2, <3>3
  <2> QED
    BY <2>2, <2>3
<1>7. \A c \in Column : \E i \in chosen : rank[i] = c
  <2>1. rank \in Injection(chosen, Column)
    BY <1>6 DEF Injection, IsInjective
  <2>2. IsFiniteSet(Column) /\ Cardinality(Column) = DataShards
    <3>1. 0 \in Int /\ DataShards - 1 \in Int /\ ~(0 > DataShards - 1) /\ (DataShards - 1) - 0 + 1 = DataShards
      BY <1>1
    <3>2. Cardinality(0 .. DataShards - 1) = IF 0 > DataShards - 1 THEN 0 ELSE (DataShards - 1) - 0 + 1
      BY <3>1, FS_Interval
    <3>3. Cardinality(0 .. DataShards - 1) = DataShards
      BY <3>1, <3>2
    <3> QED
      BY <3>3, Dimensions DEF Column
  <2>3. rank \in Surjection(chosen, Column)
    BY <1>1, <2>1, <2>2, FS_Injection
  <2> HIDE DEF rank
  <2> QED
    BY <2>3 DEF Surjection
<1> DEFINE order == InOrder(chosen)
           pick(c) == CHOOSE i \in chosen : Cardinality(Below(i)) = c
<1>8. order = [c \in Column |-> pick(c)]
  BY DEF InOrder
<1>9. \A i \in chosen : rank[i] = Cardinality(Below(i))
  OBVIOUS
<1> HIDE DEF rank, Below, order
<1>10. \A c \in Column : (\E i \in chosen : Cardinality(Below(i)) = c)
                            => pick(c) \in chosen /\ Cardinality(Below(pick(c))) = c
  OBVIOUS
<1> HIDE DEF pick
<1>11. \A c \in Column : order[c] \in chosen /\ rank[order[c]] = c
  <2> SUFFICES ASSUME NEW c \in Column
               PROVE  order[c] \in chosen /\ rank[order[c]] = c
    OBVIOUS
  <2>1. \E i \in chosen : Cardinality(Below(i)) = c
    BY <1>7, <1>9
  <2>2. order[c] \in chosen /\ Cardinality(Below(order[c])) = c
    BY <1>8, <1>10, <2>1
  <2> QED
    BY <1>9, <2>2
<1>12. \A i \in chosen : \E c \in Column : order[c] = i
  <2> SUFFICES ASSUME NEW i \in chosen
               PROVE  order[rank[i]] = i /\ rank[i] \in Column
    OBVIOUS
  <2>1. rank[i] \in Column
    BY <1>6
  <2>2. order[rank[i]] \in chosen /\ rank[order[rank[i]]] = rank[i]
    BY <1>11, <2>1
  <2> QED
    BY <1>6, <2>1, <2>2
<1> QED
  BY <1>8, <1>11, <1>12 DEF order

\* Data shards of one size.
Shards(size) == [Column -> [1 .. size -> Byte]]

\* A position of the shards.
At(shards, position) == [c \in Column |-> shards[c][position]]

\* _matrix_vector skips the coefficients that are zero, and may.
LEMMA RowTimesIs ==
    ASSUME NEW row, NEW size, NEW shards \in Shards(size), NEW position \in 1 .. size
    PROVE  /\ DOMAIN RowTimes(row, shards) = 1 .. size
           /\ RowTimes(row, shards)[position] = Dot(row, At(shards, position))
<1> DEFINE S == {c \in Column : row[c] # Zero}
           f == [c \in Column |-> GfMul(row[c], shards[c][position])]
<1>1. 0 \in Column
  BY CodecAssumption DEF Column
<1>2. DOMAIN shards[0] = 1 .. size
  BY <1>1 DEF Shards
<1>3. RowTimes(row, shards)[position] = XorOver(S, f) /\ DOMAIN RowTimes(row, shards) = 1 .. size
  BY <1>2 DEF RowTimes
<1>4. \A c \in Column \ S : f[c] = Zero
  <2>1. \A c \in Column : shards[c][position] \in Byte
    BY DEF Shards
  <2> QED
    BY <2>1, MulZero
<1>5. S \in SUBSET Column
  OBVIOUS
<1>6. Dot(row, At(shards, position)) = XorOver(Column, f)
  BY DEF Dot, At
<1> HIDE DEF S, f
<1>7. XorOver(Column, f) = XorOver(S, f)
  BY <1>4, <1>5, XorSupport
<1> QED
  BY <1>3, <1>6, <1>7

(***************************************************************************)
(* recover gives the payload back from the shards of any k rows of the     *)
(* encoding matrix that are independent.                                   *)
(***************************************************************************)
THEOREM DecodeEncode ==
    ASSUME NEW payload, IsPayload(payload),
           NEW chosen \in kSubset(DataShards, Index), Independent(chosen)
    PROVE  Decode([i \in chosen |-> Encode(payload)[i]]) = payload
<1> DEFINE D == DataOf(payload)
           size == ShardSize(Framed(payload))
           bytes == [i \in chosen |-> Encode(payload)[i]]
           order == InOrder(chosen)
           m == Submatrix(chosen)
           inverse == MatrixInverse(m)
           vector == [c \in Column |-> bytes[order[c]]]
           data == [c \in Column |-> RowTimes(inverse.rows[c], vector)]
<1>1. D \in Shards(size) /\ size \in Nat \ {0}
  BY DataOfIs DEF Shards
<1>2. order \in [Column -> chosen] /\ \A i \in chosen : \E c \in Column : order[c] = i
  BY InOrderIs
<1>3. chosen \subseteq Index
  BY DEF kSubset
<1>4. m \in SquareMatrix /\ \A c \in Column : m[c] = Matrix[order[c]]
  <2>1. \A c \in Column : Matrix[order[c]] \in [Column -> Byte]
    BY <1>2, <1>3, MatrixType
  <2> QED
    BY <2>1 DEF Submatrix, SquareMatrix
<1>5. Decode(bytes) = IF inverse.regular THEN Unframed(Joined(data)) ELSE Unreadable
  <2>1. DOMAIN bytes = chosen
    OBVIOUS
  <2>2. Decoding[chosen] = inverse
    BY DEF Decoding
  <2> HIDE DEF inverse, bytes
  <2> QED
    BY <2>1, <2>2 DEF Decode
<1>6. \A c \in Column : vector[c] = RowTimes(m[c], D)
  BY <1>2, <1>3, <1>4 DEF Encode
<1>7. vector = [c \in Column |-> vector[c]]
  OBVIOUS
<1>8. \A c \in Column : data[c] = RowTimes(inverse.rows[c], vector)
  OBVIOUS
<1>9. data = [c \in Column |-> data[c]]
  OBVIOUS
<1> HIDE DEF D, size, order, m, inverse, vector, data
<1>10. \A c \in Column : \A position \in 1 .. size :
          /\ DOMAIN RowTimes(m[c], D) = 1 .. size
          /\ RowTimes(m[c], D)[position] = Dot(m[c], At(D, position))
  BY <1>1, RowTimesIs
<1>11. vector \in Shards(size)
  <2>1. \A c \in Column : RowTimes(m[c], D) \in [1 .. size -> Byte]
    <3> SUFFICES ASSUME NEW c \in Column
                 PROVE  RowTimes(m[c], D) \in [1 .. size -> Byte]
      OBVIOUS
    <3> DEFINE r == RowTimes(m[c], D)
    <3>1. r = [position \in DOMAIN D[0] |-> r[position]]
      BY DEF RowTimes
    <3>2. DOMAIN D[0] = 1 .. size
      BY <1>1, CodecAssumption DEF Column, Shards
    <3>3. \A position \in 1 .. size : r[position] \in Byte
      <4>1. \A position \in 1 .. size : r[position] = Dot(m[c], At(D, position))
        BY <1>10
      <4> HIDE DEF r
      <4> QED
        BY <4>1, XorType DEF Dot
    <3> HIDE DEF r
    <3>4. r \in [1 .. size -> Byte]
      BY <3>1, <3>2, <3>3
    <3> QED
      BY <3>4 DEF r
  <2> QED
    BY <1>6, <1>7, <2>1 DEF Shards
<1>12. inverse.regular /\ \A d, s \in [Column -> Byte] :
                             (\A i \in Column : Dot(m[i], d) = s[i])
                                => \A i \in Column : Dot(inverse.rows[i], s) = d[i]
  <2>1. ASSUME NEW v \in [Column -> Byte], \A i \in Column : Dot(m[i], v) = Zero
        PROVE  \A c \in Column : v[c] = Zero
    <3>1. \A i \in chosen : Dot(Matrix[i], v) = Zero
      BY <1>2, <1>4, <2>1
    <3> QED
      BY <3>1 DEF Independent
  <2> QED
    BY <1>4, <2>1, MatrixInverseExact DEF inverse
<1>13. ASSUME NEW c \in Column, NEW position \in 1 .. size
       PROVE  /\ DOMAIN data[c] = 1 .. size
              /\ data[c][position] = D[c][position]
  <2> DEFINE d == At(D, position)
             s == At(vector, position)
  <2>1. /\ DOMAIN data[c] = 1 .. size
        /\ data[c][position] = Dot(inverse.rows[c], s)
    BY <1>8, <1>11, RowTimesIs
  <2>2. d \in [Column -> Byte] /\ s \in [Column -> Byte] /\ d[c] = D[c][position]
    BY <1>1, <1>11 DEF At, Shards
  <2>3. \A i \in Column : Dot(m[i], d) = s[i]
    <3>1. \A i \in Column : s[i] = RowTimes(m[i], D)[position]
      BY <1>6 DEF At
    <3> QED
      BY <1>10, <3>1
  <2> HIDE DEF d, s
  <2>4. Dot(inverse.rows[c], s) = d[c]
    BY <1>12, <2>2, <2>3
  <2> QED
    BY <2>1, <2>2, <2>4
<1>14. data = D
  <2>1. 1 \in 1 .. size
    BY <1>1
  <2>2. ASSUME NEW c \in Column
        PROVE  data[c] = D[c]
    <3>1. DOMAIN data[c] = 1 .. size /\ \A position \in 1 .. size : data[c][position] = D[c][position]
      BY <1>13, <2>1
    <3>2. D[c] \in [1 .. size -> Byte]
      BY <1>1 DEF Shards
    <3>3. data[c] = [position \in DOMAIN data[c] |-> data[c][position]]
      BY <1>8 DEF RowTimes
    <3> QED
      BY <3>1, <3>2, <3>3
  <2> QED
    BY <1>1, <1>9, <2>2 DEF Shards
<1> QED
  BY <1>5, <1>12, <1>14, UnframedJoined DEF D

\* Rows are independent exactly when _matrix_inverse inverts their matrix.
LEMMA IndependentIsRegular ==
    ASSUME NEW chosen \in kSubset(DataShards, Index)
    PROVE  Decoding[chosen].regular <=> Independent(chosen)
<1> DEFINE order == InOrder(chosen)
           m == Submatrix(chosen)
<1>1. order \in [Column -> chosen] /\ \A i \in chosen : \E c \in Column : order[c] = i
  BY InOrderIs
<1>2. chosen \subseteq Index
  BY DEF kSubset
<1>3. m \in SquareMatrix /\ \A c \in Column : m[c] = Matrix[order[c]]
  <2>1. \A c \in Column : Matrix[order[c]] \in [Column -> Byte]
    BY <1>1, <1>2, MatrixType
  <2> QED
    BY <2>1 DEF Submatrix, SquareMatrix
<1>4. Decoding[chosen].regular <=> MatrixInverse(m).regular
  BY DEF Decoding
<1> HIDE DEF order, m
<1>5. MatrixInverse(m).regular <=>
         \A v \in [Column -> Byte] :
             (\A i \in Column : Dot(m[i], v) = Zero) => \A c \in Column : v[c] = Zero
  BY <1>3, MatrixInverseExact
<1>6. \A v : (\A i \in Column : Dot(m[i], v) = Zero) <=> (\A i \in chosen : Dot(Matrix[i], v) = Zero)
  BY <1>1, <1>3
<1> QED
  BY <1>4, <1>5, <1>6 DEF Independent

-----------------------------------------------------------------------------
(***************************************************************************)
(* Codes that recover from any k shards.                                   *)
(***************************************************************************)

\* The data rows that are missing are replaced by as many parity rows.
LEMMA Replacements ==
    ASSUME NEW chosen \in kSubset(DataShards, Index)
    PROVE  \E phi \in [Column \ chosen -> chosen \ Column] :
              \A a, b \in Column \ chosen : phi[a] = phi[b] => a = b
<1>1. DataShards \in Nat \ {0} /\ chosen \subseteq Index /\ Cardinality(chosen) = DataShards
  BY CodecAssumption DEF kSubset
<1>2. IsFiniteSet(chosen)
  <2>1. IsFiniteSet(Index)
    BY CodecAssumption, IntervalsFinite DEF Index, TotalShards
  <2> QED
    BY <1>1, <2>1, FS_Subset
<1>3. IsFiniteSet(Column) /\ Cardinality(Column) = DataShards
  <2>1. 0 \in Int /\ DataShards - 1 \in Int /\ ~(0 > DataShards - 1) /\ (DataShards - 1) - 0 + 1 = DataShards
    BY <1>1
  <2>2. Cardinality(0 .. DataShards - 1) = IF 0 > DataShards - 1 THEN 0 ELSE (DataShards - 1) - 0 + 1
    BY <2>1, FS_Interval
  <2>3. Cardinality(0 .. DataShards - 1) = DataShards
    BY <2>1, <2>2
  <2> QED
    BY <2>3, Dimensions DEF Column
<1> DEFINE missing == Column \ chosen
           added == chosen \ Column
<1>4. /\ IsFiniteSet(missing) /\ Cardinality(missing) = Cardinality(Column) - Cardinality(Column \cap chosen)
      /\ IsFiniteSet(added) /\ Cardinality(added) = Cardinality(chosen) - Cardinality(chosen \cap Column)
  BY <1>2, <1>3, FS_Difference
<1>5. Column \cap chosen = chosen \cap Column
  OBVIOUS
<1> HIDE DEF missing, added
<1>6. Cardinality(missing) = Cardinality(added)
  BY <1>1, <1>3, <1>4, <1>5
<1>7. PICK phi \in Bijection(missing, added) : TRUE
  <2>1. ExistsBijection(missing, added)
    BY <1>4, <1>6, FS_SameCardinalityBij
  <2> QED
    BY <2>1 DEF ExistsBijection
<1>8. phi \in [missing -> added] /\ \A a, b \in missing : phi[a] = phi[b] => a = b
  BY <1>7 DEF Bijection, Injection, IsInjective
<1> QED
  BY <1>8 DEF missing, added

\* The base of a parity row.
Base(i) == BitsOf(i + 1)

\* Parity rows have bases of their own, none of them zero.
LEMMA Bases ==
    ASSUME NEW i \in Index, NEW j \in Index
    PROVE  /\ Base(i) \in Byte
           /\ Base(i) # Zero
           /\ Base(i) = Base(j) => i = j
<1>1. i + 1 \in 0 .. 255 /\ j + 1 \in 0 .. 255 /\ 0 \in 0 .. 255 /\ i + 1 # 0 /\ i \in Nat /\ j \in Nat
  BY CodecAssumption DEF Index, TotalShards
<1>2. Base(i) \in Byte
  BY DEF Base, BitsOf, Byte
<1>3. BitsOf(0) = Zero
  <2>1. \A bit \in 0 .. 7 : 2^bit \in {1, 2, 4, 8, 16, 32, 64, 128}
    <3>1. 2^0 = 1 /\ 2^1 = 2 /\ 2^2 = 4 /\ 2^3 = 8 /\ 2^4 = 16 /\ 2^5 = 32 /\ 2^6 = 64 /\ 2^7 = 128
      OBVIOUS
    <3>2. \A bit \in 0 .. 7 : bit \in {0, 1, 2, 3, 4, 5, 6, 7}
      OBVIOUS
    <3> QED
      BY <3>1, <3>2
  <2>2. \A p \in {1, 2, 4, 8, 16, 32, 64, 128} : (0 \div p) % 2 # 1
    OBVIOUS
  <2>3. \A bit \in 0 .. 7 : (0 \div 2^bit) % 2 # 1
    BY <2>1, <2>2
  <2> QED
    BY <2>3 DEF BitsOf, Zero
<1>4. Base(i) # Zero
  BY <1>1, <1>3, BitsOfExact DEF Base
<1>5. Base(i) = Base(j) => i = j
  <2>1. Base(i) = Base(j) => i + 1 = j + 1
    BY <1>1, BitsOfExact DEF Base
  <2> QED
    BY <1>1, <2>1
<1> QED
  BY <1>2, <1>4, <1>5

\* A data row that was taken gives its shard as it is.
LEMMA DataRow ==
    ASSUME NEW i \in Column, NEW v \in [Column -> Byte], Dot(Matrix[i], v) = Zero
    PROVE  v[i] = Zero
<1>1. i \in Index /\ i < DataShards
  BY CodecAssumption DEF Column, Index, TotalShards
<1>2. \A c \in Column : Matrix[i][c] = IF c = i THEN One ELSE Zero
  BY <1>1 DEF Matrix
<1>3. Dot(Matrix[i], v) = v[i]
  BY <1>2, DotUnit
<1> QED
  BY <1>3

\* The terms of a parity row.
ParityTerms(i, v) == [c \in Column |-> GfMul(GfPow(Base(i), c), v[c])]

\* The product of a parity row is the value of a polynomial at its base.
LEMMA ParityRow ==
    ASSUME NEW i \in Index \ Column, NEW v \in [Column -> Byte]
    PROVE  Dot(Matrix[i], v) = XorOver(Column, ParityTerms(i, v))
<1>1. ~(i < DataShards)
  BY CodecAssumption DEF Index, Column, TotalShards
<1>2. \A c \in Column : Matrix[i][c] = GfPow(Base(i), c)
  BY <1>1 DEF Matrix, Base
<1> QED
  BY <1>2 DEF Dot, ParityTerms

\* One parity shard replaces any data shard.
LEMMA OneMissing ==
    ASSUME NEW i \in Index \ Column, NEW v \in [Column -> Byte], NEW a \in Column,
           Dot(Matrix[i], v) = Zero, \A c \in Column : c # a => v[c] = Zero
    PROVE  v[a] = Zero
<1> DEFINE f == ParityTerms(i, v)
<1>1. /\ \A c \in Column : GfPow(Base(i), c) \in Byte
      /\ GfPow(Base(i), a) # Zero
  BY Bases, Dimensions, Powers, PowersNotZero
<1>2. f[a] = GfMul(GfPow(Base(i), a), v[a]) /\ f[a] \in Byte
  BY MulType DEF ParityTerms
<1>3. \A c \in Column : c # a => f[c] = Zero
  BY <1>1, MulZero DEF ParityTerms
<1> HIDE DEF f
<1>4. XorOver(Column, f) = f[a]
  BY <1>2, <1>3, XorSingle
<1>5. f[a] = Zero
  BY <1>4, ParityRow DEF f
<1> QED
  BY <1>1, <1>2, <1>5, NoZeroDivisors

\* With one parity shard, or all data shards but one, the rows are independent.
LEMMA SingleIndependent ==
    ASSUME NEW chosen \in kSubset(DataShards, Index),
           \A a, b \in Column \ chosen : a = b
    PROVE  Independent(chosen)
<1> SUFFICES ASSUME NEW v \in [Column -> Byte], \A i \in chosen : Dot(Matrix[i], v) = Zero,
                    NEW c \in Column
             PROVE  v[c] = Zero
  BY DEF Independent
<1>1. \A i \in Column \cap chosen : v[i] = Zero
  BY DataRow
<1>2. CASE c \in chosen
  BY <1>1, <1>2
<1>3. CASE c \notin chosen
  <2>1. PICK phi \in [Column \ chosen -> chosen \ Column] : TRUE
    BY Replacements
  <2>2. phi[c] \in Index \ Column /\ phi[c] \in chosen
    BY <1>3, <2>1 DEF kSubset
  <2>3. \A b \in Column : b # c => v[b] = Zero
    BY <1>1, <1>3
  <2> QED
    BY <2>2, <2>3, OneMissing
<1> QED
  BY <1>2, <1>3

\* Exponents add, in GfPow.
LEMMA PowersOfSums ==
    ASSUME NEW x \in Byte, NEW a \in Nat, NEW b \in Nat
    PROVE  GfPow(x, a + b) = GfMul(GfPow(x, a), GfPow(x, b))
<1>1. a + b \in Nat /\ a \in 0 .. a + b /\ b \in 0 .. a + b /\ a + b <= a + b
  OBVIOUS
<1>2. PICK f : PowerLoop(f, x, a + b)
  BY <1>1, PowerLoopExists
<1>3. ASSUME NEW n \in 0 .. a + b
      PROVE  GfPow(x, n) = f[n]
  <2> DEFINE g == [i \in 0 .. n |-> f[i]]
  <2>1. PowerLoop(g, x, n)
    <3>1. /\ \A i \in 0 .. n : i \in 0 .. a + b
          /\ \A i \in 1 .. n : i \in 1 .. a + b /\ i \in 0 .. n /\ i - 1 \in 0 .. n
          /\ 0 \in 0 .. n
      BY <1>1
    <3>2. /\ \A i \in 0 .. n : f[i] \in Byte
          /\ f[0] = One
          /\ \A i \in 1 .. n : f[i] = GfMul(f[i - 1], x)
      BY <1>2, <3>1 DEF PowerLoop
    <3>3. \A i \in 0 .. n : g[i] = f[i]
      OBVIOUS
    <3>4. g \in [0 .. n -> Byte]
      BY <3>2
    <3> HIDE DEF g
    <3> QED
      BY <3>1, <3>2, <3>3, <3>4 DEF PowerLoop
  <2>2. g[n] = f[n] /\ n \in Nat
    BY <1>1
  <2> HIDE DEF g
  <2> QED
    BY <2>1, <2>2, PowerTurns
<1>4. f[a + b] = GfMul(f[a], f[b])
  BY <1>1, <1>2, PowersAdd
<1>5. GfPow(x, a) = f[a] /\ GfPow(x, b) = f[b] /\ GfPow(x, a + b) = f[a + b]
  BY <1>1, <1>3
<1> QED
  BY <1>4, <1>5

\* A sum with two terms.
LEMMA XorTwo ==
    ASSUME NEW S, NEW f, NEW a \in S, NEW b \in S, a # b, f[a] \in Byte, f[b] \in Byte,
           \A i \in S : i # a /\ i # b => f[i] = Zero
    PROVE  XorOver(S, f) = Xor(f[a], f[b])
<1>1. XorOver({a}, f) = f[a]
  BY XorSingle
<1>2. XorOver({a} \cup {b}, f) = Xor(f[a], f[b])
  <2>1. IsFiniteSet({a}) /\ b \notin {a}
    BY FS_Singleton
  <2> QED
    BY <1>1, <2>1, XorMore
<1>3. {a} \cup {b} \in SUBSET S /\ \A i \in S \ ({a} \cup {b}) : f[i] = Zero
  OBVIOUS
<1> QED
  BY <1>2, <1>3, XorSupport

\* A sum with three terms.
LEMMA XorThree ==
    ASSUME NEW S, NEW f, NEW a \in S, NEW b \in S, NEW c \in S, a # b, a # c, b # c,
           f[a] \in Byte, f[b] \in Byte, f[c] \in Byte,
           \A i \in S : i # a /\ i # b /\ i # c => f[i] = Zero
    PROVE  XorOver(S, f) = Xor(Xor(f[a], f[b]), f[c])
<1> DEFINE T == {a, b}
<1>1. XorOver(T, f) = Xor(f[a], f[b])
  <2>1. a \in T /\ b \in T /\ \A i \in T : i # a /\ i # b => f[i] = Zero
    OBVIOUS
  <2> HIDE DEF T
  <2> QED
    BY <2>1, XorTwo
<1>2. IsFiniteSet(T) /\ c \notin T
  <2>1. IsFiniteSet({a}) /\ {a, b} = {a} \cup {b}
    BY FS_Singleton
  <2> QED
    BY <2>1, FS_AddElement
<1>3. T \cup {c} \in SUBSET S /\ \A i \in S \ (T \cup {c}) : f[i] = Zero
  OBVIOUS
<1> HIDE DEF T
<1>4. XorOver(T \cup {c}, f) = Xor(XorOver(T, f), f[c])
  BY <1>2, XorMore
<1> QED
  BY <1>1, <1>3, <1>4, XorSupport

\* A parity row when two data shards are missing.
LEMMA TermsOfTwo ==
    ASSUME NEW i \in Index \ Column, NEW v \in [Column -> Byte],
           NEW a \in Column, NEW b \in Column, a # b,
           Dot(Matrix[i], v) = Zero,
           \A c \in Column : c # a /\ c # b => v[c] = Zero
    PROVE  Xor(GfMul(GfPow(Base(i), a), v[a]), GfMul(GfPow(Base(i), b), v[b])) = Zero
<1> DEFINE f == ParityTerms(i, v)
<1>1. \A c \in Column : GfPow(Base(i), c) \in Byte
  BY Bases, Dimensions, Powers
<1>2. /\ f[a] = GfMul(GfPow(Base(i), a), v[a])
      /\ f[b] = GfMul(GfPow(Base(i), b), v[b])
  BY DEF ParityTerms
<1>3. f[a] \in Byte /\ f[b] \in Byte /\ \A c \in Column : c # a /\ c # b => f[c] = Zero
  BY <1>1, MulType, MulZero DEF ParityTerms
<1>4. XorOver(Column, f) = Zero
  BY ParityRow
<1> HIDE DEF f
<1>5. XorOver(Column, f) = Xor(f[a], f[b])
  BY <1>3, XorTwo
<1> QED
  BY <1>2, <1>4, <1>5

\* A parity row when three data shards are missing.
LEMMA TermsOfThree ==
    ASSUME NEW i \in Index \ Column, NEW v \in [Column -> Byte],
           NEW a \in Column, NEW b \in Column, NEW c \in Column, a # b, a # c, b # c,
           Dot(Matrix[i], v) = Zero,
           \A n \in Column : n # a /\ n # b /\ n # c => v[n] = Zero
    PROVE  Xor(GfMul(GfPow(Base(i), a), v[a]),
               Xor(GfMul(GfPow(Base(i), b), v[b]), GfMul(GfPow(Base(i), c), v[c]))) = Zero
<1> DEFINE f == ParityTerms(i, v)
<1>1. \A n \in Column : GfPow(Base(i), n) \in Byte
  BY Bases, Dimensions, Powers
<1>2. /\ f[a] = GfMul(GfPow(Base(i), a), v[a])
      /\ f[b] = GfMul(GfPow(Base(i), b), v[b])
      /\ f[c] = GfMul(GfPow(Base(i), c), v[c])
  BY DEF ParityTerms
<1>3. /\ f[a] \in Byte /\ f[b] \in Byte /\ f[c] \in Byte
      /\ \A n \in Column : n # a /\ n # b /\ n # c => f[n] = Zero
  BY <1>1, MulType, MulZero DEF ParityTerms
<1>4. XorOver(Column, f) = Zero
  BY ParityRow
<1> HIDE DEF f
<1>5. XorOver(Column, f) = Xor(Xor(f[a], f[b]), f[c])
  BY <1>3, XorThree
<1>6. Xor(Xor(f[a], f[b]), f[c]) = Xor(f[a], Xor(f[b], f[c]))
  BY XorGroup
<1> QED
  BY <1>2, <1>4, <1>5, <1>6

\* A parity row on two missing shards, divided by the lower power.
LEMMA RowOfTwo ==
    ASSUME NEW i \in Index \ Column, NEW v \in [Column -> Byte],
           NEW a \in Column, NEW b \in Column, a < b,
           Dot(Matrix[i], v) = Zero,
           \A c \in Column : c # a /\ c # b => v[c] = Zero
    PROVE  Xor(v[a], GfMul(GfPow(Base(i), b - a), v[b])) = Zero
<1> DEFINE x == Base(i)
           low == GfPow(x, a)
           high == GfPow(x, b - a)
<1>1. a \in Nat /\ b \in Nat /\ b - a \in Nat /\ a + (b - a) = b /\ a # b
  BY Dimensions
<1>2. x \in Byte /\ x # Zero
  BY Bases
<1>3. low \in Byte /\ high \in Byte /\ low # Zero /\ \A c \in Column : GfPow(x, c) \in Byte
  BY <1>1, <1>2, Dimensions, Powers, PowersNotZero
<1>4. GfPow(x, b) = GfMul(low, high)
  <2>1. GfPow(x, a + (b - a)) = GfMul(low, high)
    BY <1>1, <1>2, PowersOfSums
  <2> QED
    BY <1>1, <2>1
<1>5. Xor(GfMul(low, v[a]), GfMul(GfPow(x, b), v[b])) = Zero
  BY <1>1, TermsOfTwo
<1> HIDE DEF x, low, high
<1>9. v[a] \in Byte /\ v[b] \in Byte /\ GfMul(high, v[b]) \in Byte
  BY MulType
<1>10. GfMul(GfMul(low, high), v[b]) = GfMul(low, GfMul(high, v[b]))
  BY <1>3, <1>9, MulAssociates
<1>11. GfMul(low, Xor(v[a], GfMul(high, v[b]))) = Xor(GfMul(low, v[a]), GfMul(low, GfMul(high, v[b])))
  BY <1>3, <1>9, MulXorRight
<1>12. GfMul(low, Xor(v[a], GfMul(high, v[b]))) = Zero
  BY <1>4, <1>5, <1>10, <1>11
<1>13. Xor(v[a], GfMul(high, v[b])) \in Byte
  BY <1>9, XorGroup
<1>14. Xor(v[a], GfMul(high, v[b])) = Zero
  BY <1>3, <1>12, <1>13, NoZeroDivisors
<1> QED
  BY <1>14 DEF x, high

\* A parity row on three missing shards, divided by the lowest power.
LEMMA RowOfThree ==
    ASSUME NEW i \in Index \ Column, NEW v \in [Column -> Byte],
           NEW a \in Column, NEW b \in Column, NEW c \in Column, a < b, b < c,
           Dot(Matrix[i], v) = Zero,
           \A n \in Column : n # a /\ n # b /\ n # c => v[n] = Zero
    PROVE  Xor(v[a], Xor(GfMul(GfPow(Base(i), b - a), v[b]),
                         GfMul(GfPow(Base(i), c - a), v[c]))) = Zero
<1> DEFINE x == Base(i)
           low == GfPow(x, a)
           mid == GfPow(x, b - a)
           high == GfPow(x, c - a)
           p == v[a]
           q == GfMul(mid, v[b])
           r == GfMul(high, v[c])
<1>1. /\ a \in Nat /\ b \in Nat /\ c \in Nat /\ b - a \in Nat /\ c - a \in Nat
      /\ a + (b - a) = b /\ a + (c - a) = c /\ a # b /\ a # c /\ b # c
  BY Dimensions
<1>2. x \in Byte /\ x # Zero
  BY Bases
<1>3. /\ low \in Byte /\ mid \in Byte /\ high \in Byte /\ low # Zero
      /\ \A n \in Column : GfPow(x, n) \in Byte
  BY <1>1, <1>2, Dimensions, Powers, PowersNotZero
<1>4. GfPow(x, b) = GfMul(low, mid) /\ GfPow(x, c) = GfMul(low, high)
  <2>1. /\ GfPow(x, a + (b - a)) = GfMul(low, mid)
        /\ GfPow(x, a + (c - a)) = GfMul(low, high)
    BY <1>1, <1>2, PowersOfSums
  <2> QED
    BY <1>1, <2>1
<1>5. Xor(GfMul(low, p), Xor(GfMul(GfPow(x, b), v[b]), GfMul(GfPow(x, c), v[c]))) = Zero
  BY <1>1, TermsOfThree
<1>8. p \in Byte /\ v[b] \in Byte /\ v[c] \in Byte /\ q \in Byte /\ r \in Byte
  BY MulType
<1> HIDE DEF x, low, mid, high
<1>10. /\ GfMul(GfMul(low, mid), v[b]) = GfMul(low, q)
       /\ GfMul(GfMul(low, high), v[c]) = GfMul(low, r)
  BY <1>3, <1>8, MulAssociates
<1> HIDE DEF p, q, r
<1>11. Xor(q, r) \in Byte /\ Xor(p, Xor(q, r)) \in Byte
  BY <1>8, XorGroup
<1>12. GfMul(low, Xor(p, Xor(q, r))) = Xor(GfMul(low, p), Xor(GfMul(low, q), GfMul(low, r)))
  <2>1. GfMul(low, Xor(p, Xor(q, r))) = Xor(GfMul(low, p), GfMul(low, Xor(q, r)))
    BY <1>3, <1>8, <1>11, MulXorRight
  <2>2. GfMul(low, Xor(q, r)) = Xor(GfMul(low, q), GfMul(low, r))
    BY <1>3, <1>8, MulXorRight
  <2> QED
    BY <2>1, <2>2
<1>13. GfMul(low, Xor(p, Xor(q, r))) = Zero
  <2>1. Xor(GfMul(low, p), Xor(GfMul(GfMul(low, mid), v[b]), GfMul(GfMul(low, high), v[c]))) = Zero
    BY <1>4, <1>5
  <2>2. Xor(GfMul(low, p), Xor(GfMul(low, q), GfMul(low, r))) = Zero
    BY <1>10, <2>1
  <2> QED
    BY <1>12, <2>2
<1>14. Xor(p, Xor(q, r)) = Zero
  BY <1>3, <1>11, <1>13, NoZeroDivisors
<1> QED
  BY <1>14 DEF p, q, r, mid, high, x

\* Two equations in two unknowns.
LEMMA TwoEquations ==
    ASSUME NEW p \in Byte, NEW q \in Byte, NEW x \in Byte, NEW y \in Byte, x # y,
           Xor(p, GfMul(x, q)) = Zero, Xor(p, GfMul(y, q)) = Zero
    PROVE  p = Zero /\ q = Zero
<1>1. p = GfMul(x, q) /\ p = GfMul(y, q)
  BY XorGroup
<1>2. GfMul(Xor(x, y), q) = Xor(GfMul(x, q), GfMul(y, q))
  BY MulXorLeft
<1>3. Xor(p, p) = Zero
  BY XorGroup
<1>4. GfMul(Xor(x, y), q) = Zero
  BY <1>1, <1>2, <1>3
<1>5. Xor(x, y) \in Byte /\ Xor(x, y) # Zero
  BY XorGroup
<1>6. q = Zero
  BY <1>4, <1>5, NoZeroDivisors
<1> QED
  BY <1>1, <1>6, MulZero

\* What makes three equations in three unknowns have one solution.
Determined(x1, x2, y1, y2, z1, z2) ==
    GfMul(Xor(x1, y1), Xor(x2, z2)) # GfMul(Xor(x1, z1), Xor(x2, y2))

\* An equation of the code that misses three data shards, divided by the power
\* of the first of them.
Solves(p, q, r, x1, x2) == Xor(p, Xor(GfMul(x1, q), GfMul(x2, r))) = Zero

\* Three equations with one solution.
System(p, q, r, x1, x2, y1, y2, z1, z2) ==
    /\ p \in Byte /\ q \in Byte /\ r \in Byte
    /\ x1 \in Byte /\ x2 \in Byte /\ y1 \in Byte /\ y2 \in Byte /\ z1 \in Byte /\ z2 \in Byte
    /\ x1 # y1
    /\ Determined(x1, x2, y1, y2, z1, z2)
    /\ Solves(p, q, r, x1, x2)
    /\ Solves(p, q, r, y1, y2)
    /\ Solves(p, q, r, z1, z2)

\* Three equations in three unknowns.
LEMMA ThreeEquations ==
    ASSUME NEW p, NEW q, NEW r, NEW x1, NEW x2, NEW y1, NEW y2, NEW z1, NEW z2,
           System(p, q, r, x1, x2, y1, y2, z1, z2)
    PROVE  p = Zero /\ q = Zero /\ r = Zero
<1> USE DEF System
<1> DEFINE a == Xor(x1, y1)
           b == Xor(x2, y2)
           c == Xor(x1, z1)
           d == Xor(x2, z2)
<1>1. GfMul(a, q) = GfMul(b, r) /\ GfMul(c, q) = GfMul(d, r)
  \* The unknown that two equations share cancels.
  <2>1. ASSUME NEW s1 \in Byte, NEW s2 \in Byte, Solves(p, q, r, s1, s2)
        PROVE  GfMul(Xor(x1, s1), q) = GfMul(Xor(x2, s2), r)
    <3> DEFINE e == GfMul(x1, q)
               f == GfMul(x2, r)
               g == GfMul(s1, q)
               h == GfMul(s2, r)
    <3>1. /\ GfMul(Xor(x1, s1), q) = Xor(e, g)
          /\ GfMul(Xor(x2, s2), r) = Xor(f, h)
      BY MulXorLeft
    <3>2. Xor(p, Xor(e, f)) = Zero /\ Xor(p, Xor(g, h)) = Zero
      BY <2>1 DEF Solves
    <3> HIDE DEF e, f, g, h
    <3>3. p = Xor(e, f) /\ p = Xor(g, h)
      BY <3>2, XorGroup
    <3>4. /\ \A bit : bit \in Xor(e, f) <=> ~(bit \in e <=> bit \in f)
          /\ \A bit : bit \in Xor(g, h) <=> ~(bit \in g <=> bit \in h)
      BY DEF Xor
    <3>5. \A bit : (bit \in p <=> ~(bit \in e <=> bit \in f)) /\ (bit \in p <=> ~(bit \in g <=> bit \in h))
      BY <3>3, <3>4
    <3>6. Xor(e, g) = Xor(f, h)
      BY <3>5 DEF Xor
    <3> QED
      BY <3>1, <3>6
  <2> QED
    BY <2>1
<1>2. a \in Byte /\ b \in Byte /\ c \in Byte /\ d \in Byte /\ a # Zero
  <2>1. \A s, t \in Byte : Xor(s, t) \in Byte
    BY XorGroup
  <2>2. Xor(x1, y1) = Zero => x1 = y1
    BY XorGroup
  <2> QED
    BY <2>1, <2>2
<1>3. GfMul(a, d) # GfMul(c, b)
  BY DEF Determined
<1> HIDE DEF a, b, c, d
<1>4. GfMul(GfMul(a, d), r) = GfMul(GfMul(c, b), r)
  <2>1. GfMul(GfMul(a, d), r) = GfMul(a, GfMul(d, r)) /\ GfMul(GfMul(c, b), r) = GfMul(c, GfMul(b, r))
    BY <1>2, MulAssociates
  <2>2. GfMul(a, GfMul(c, q)) = GfMul(GfMul(a, c), q) /\ GfMul(c, GfMul(a, q)) = GfMul(GfMul(c, a), q)
    BY <1>2, MulAssociates
  <2>3. GfMul(a, c) = GfMul(c, a)
    BY <1>2, MulCommutes
  <2> QED
    BY <1>1, <2>1, <2>2, <2>3
<1>5. r = Zero
  <2> DEFINE s == GfMul(a, d)
             t == GfMul(c, b)
  <2>1. s \in Byte /\ t \in Byte
    BY MulType
  <2> HIDE DEF s, t
  <2>2. GfMul(Xor(s, t), r) = Xor(GfMul(s, r), GfMul(t, r))
    BY <2>1, MulXorLeft
  <2>3. GfMul(Xor(s, t), r) = Zero
    BY <1>4, <2>2, XorGroup DEF s, t
  <2>4. Xor(s, t) \in Byte /\ Xor(s, t) # Zero
    BY <1>3, <2>1, XorGroup DEF s, t
  <2> QED
    BY <2>3, <2>4, NoZeroDivisors
<1>6. q = Zero
  <2>1. GfMul(a, q) = Zero
    BY <1>1, <1>2, <1>5, MulZero
  <2> QED
    BY <1>2, <2>1, NoZeroDivisors
<1>7. p = Zero
  <2>1. GfMul(x1, q) = Zero /\ GfMul(x2, r) = Zero
    BY <1>5, <1>6, MulZero
  <2>2. Xor(Zero, Zero) = Zero /\ Xor(p, Zero) = p
    BY XorGroup
  <2> QED
    BY <2>1, <2>2 DEF Solves
<1> QED
  BY <1>5, <1>6, <1>7

\* Squaring is one to one and distributes over exclusive or.
LEMMA SquareFacts ==
    ASSUME NEW x \in Byte, NEW y \in Byte
    PROVE  /\ Square(x) \in Byte
           /\ Square(x) = Square(y) => x = y
           /\ Square(Xor(x, y)) = Xor(Square(x), Square(y))
<1>1. Square(x) \in Byte
  BY MulType DEF Square
<1>2. Square(x) = Square(y) => x = y
  <2>1. /\ Square(Square(Square(Square(Square(Square(Square(Square(x)))))))) = x
        /\ Square(Square(Square(Square(Square(Square(Square(Square(y)))))))) = y
    BY EightSquares
  <2> QED
    BY <2>1
<1>3. Square(Xor(x, y)) = Xor(Square(x), Square(y))
  <2>1. Xor(x, y) \in Byte
    BY XorGroup
  <2>2. GfMul(Xor(x, y), Xor(x, y)) = Xor(GfMul(x, Xor(x, y)), GfMul(y, Xor(x, y)))
    BY <2>1, MulXorLeft
  <2>3. /\ GfMul(x, Xor(x, y)) = Xor(GfMul(x, x), GfMul(x, y))
        /\ GfMul(y, Xor(x, y)) = Xor(GfMul(y, x), GfMul(y, y))
    BY MulXorRight
  <2>4. GfMul(y, x) = GfMul(x, y)
    BY MulCommutes
  <2> QED
    BY <2>2, <2>3, <2>4, XorCancel DEF Square
<1> QED
  BY <1>1, <1>2, <1>3

\* Three values and their squares: the Vandermonde matrix of three bases.
LEMMA SquaresDetermined ==
    ASSUME NEW x \in Byte, NEW y \in Byte, NEW z \in Byte, x # y, x # z, y # z
    PROVE  Determined(x, Square(x), y, Square(y), z, Square(z))
<1> DEFINE a == Xor(x, y)
           c == Xor(x, z)
           s == GfMul(a, c)
<1>1. a \in Byte /\ c \in Byte /\ a # Zero /\ c # Zero
  BY XorGroup
<1>2. a # c
  <2>1. \A bit : (bit \in a <=> ~(bit \in x <=> bit \in y)) /\ (bit \in c <=> ~(bit \in x <=> bit \in z))
    BY XorBit
  <2> HIDE DEF a, c
  <2>2. a = c => \A bit : bit \in y <=> bit \in z
    BY <2>1
  <2> QED
    BY <2>2 DEF Byte
<1>3. Xor(Square(x), Square(z)) = Square(c) /\ Xor(Square(x), Square(y)) = Square(a)
  BY SquareFacts
<1> HIDE DEF a, c
<1>4. s \in Byte /\ s # Zero
  BY <1>1, MulType, NoZeroDivisors
<1>5. GfMul(a, Square(c)) = GfMul(s, c) /\ GfMul(c, Square(a)) = GfMul(s, a)
  <2>1. GfMul(GfMul(a, c), c) = GfMul(a, GfMul(c, c))
    BY <1>1, MulAssociates
  <2>2. GfMul(GfMul(c, a), a) = GfMul(c, GfMul(a, a)) /\ GfMul(c, a) = GfMul(a, c)
    BY <1>1, MulAssociates, MulCommutes
  <2> QED
    BY <2>1, <2>2 DEF Square
<1> HIDE DEF s
<1>6. GfMul(s, c) # GfMul(s, a)
  <2>1. GfMul(s, Xor(c, a)) = Xor(GfMul(s, c), GfMul(s, a))
    BY <1>1, <1>4, MulXorRight
  <2>2. Xor(c, a) \in Byte /\ Xor(c, a) # Zero
    BY <1>1, <1>2, XorGroup
  <2>3. Xor(GfMul(s, c), GfMul(s, a)) # Zero
    BY <1>4, <2>1, <2>2, NoZeroDivisors
  <2> QED
    BY <2>3, XorGroup
<1> QED
  BY <1>3, <1>5, <1>6 DEF Determined, a, c

\* Two missing data shards: two parity shards determine them when the powers
\* of their bases differ.
LEMMA PairIndependent ==
    ASSUME NEW chosen \in kSubset(DataShards, Index),
           NEW a \in Column, NEW b \in Column, a < b, Column \ chosen = {a, b},
           \A i, j \in Index \ Column : i # j => GfPow(Base(i), b - a) # GfPow(Base(j), b - a)
    PROVE  Independent(chosen)
<1>1. a # b /\ b - a \in Nat
  BY Dimensions
<1>2. PICK phi \in [Column \ chosen -> chosen \ Column] :
              \A m, n \in Column \ chosen : phi[m] = phi[n] => m = n
  BY Replacements
<1> DEFINE i == phi[a]
           j == phi[b]
<1>3. i \in chosen /\ j \in chosen /\ i \in Index \ Column /\ j \in Index \ Column /\ i # j
  BY <1>1, <1>2 DEF kSubset
<1> HIDE DEF i, j
<1> SUFFICES ASSUME NEW v \in [Column -> Byte], \A n \in chosen : Dot(Matrix[n], v) = Zero
             PROVE  \A c \in Column : v[c] = Zero
  BY DEF Independent
<1>4. \A c \in Column : c # a /\ c # b => v[c] = Zero
  BY DataRow
<1> DEFINE x == GfPow(Base(i), b - a)
           y == GfPow(Base(j), b - a)
           p == v[a]
           q == v[b]
<1>5. Base(i) \in Byte /\ Base(j) \in Byte
  BY <1>3, Bases
<1>6. x \in Byte /\ y \in Byte /\ p \in Byte /\ q \in Byte /\ x # y
  BY <1>1, <1>3, <1>5, Powers
<1>7. Xor(p, GfMul(x, q)) = Zero
  BY <1>3, <1>4, RowOfTwo
<1>8. Xor(p, GfMul(y, q)) = Zero
  BY <1>3, <1>4, RowOfTwo
<1> HIDE DEF x, y, p, q
<1>9. p = Zero /\ q = Zero
  BY <1>6, <1>7, <1>8, TwoEquations
<1> QED
  BY <1>4, <1>9 DEF p, q

\* Parity rows i, j and l determine data shards at these distances.
Separates(i, j, l, d, e) ==
    /\ GfPow(Base(i), d) # GfPow(Base(j), d)
    /\ Determined(GfPow(Base(i), d), GfPow(Base(i), e),
                  GfPow(Base(j), d), GfPow(Base(j), e),
                  GfPow(Base(l), d), GfPow(Base(l), e))

\* Three missing data shards.
LEMMA TripleIndependent ==
    ASSUME NEW chosen \in kSubset(DataShards, Index),
           NEW a \in Column, NEW b \in Column, NEW c \in Column, a < b, b < c,
           Column \ chosen = {a, b, c},
           NEW i \in chosen \ Column, NEW j \in chosen \ Column, NEW l \in chosen \ Column,
           Separates(i, j, l, b - a, c - a)
    PROVE  Independent(chosen)
<1>1. b - a \in Nat /\ c - a \in Nat
  BY Dimensions
<1>3. i \in Index \ Column /\ j \in Index \ Column /\ l \in Index \ Column
  BY DEF kSubset
<1> SUFFICES ASSUME NEW v \in [Column -> Byte], \A n \in chosen : Dot(Matrix[n], v) = Zero
             PROVE  \A n \in Column : v[n] = Zero
  BY DEF Independent
<1>4. \A n \in Column : n # a /\ n # b /\ n # c => v[n] = Zero
  BY DataRow
<1> DEFINE P(k, n) == GfPow(Base(k), n)
           p == v[a]
           q == v[b]
           r == v[c]
<1>5. Base(i) \in Byte /\ Base(j) \in Byte /\ Base(l) \in Byte
  BY <1>3, Bases
<1>6. /\ P(i, b - a) \in Byte /\ P(i, c - a) \in Byte
      /\ P(j, b - a) \in Byte /\ P(j, c - a) \in Byte
      /\ P(l, b - a) \in Byte /\ P(l, c - a) \in Byte
      /\ p \in Byte /\ q \in Byte /\ r \in Byte
  BY <1>1, <1>5, Powers
<1>7. ASSUME NEW n \in chosen \ Column
      PROVE  Solves(p, q, r, P(n, b - a), P(n, c - a))
  <2>1. n \in Index \ Column /\ Dot(Matrix[n], v) = Zero
    BY DEF kSubset
  <2>2. Xor(v[a], Xor(GfMul(GfPow(Base(n), b - a), v[b]),
                      GfMul(GfPow(Base(n), c - a), v[c]))) = Zero
    BY <1>4, <2>1, RowOfThree
  <2> QED
    BY <2>2 DEF Solves
<1>8. /\ P(i, b - a) # P(j, b - a)
      /\ Determined(P(i, b - a), P(i, c - a), P(j, b - a), P(j, c - a), P(l, b - a), P(l, c - a))
  BY DEF Separates
<1>9. /\ Solves(p, q, r, P(i, b - a), P(i, c - a))
      /\ Solves(p, q, r, P(j, b - a), P(j, c - a))
      /\ Solves(p, q, r, P(l, b - a), P(l, c - a))
  BY <1>7
<1>10. p = Zero /\ q = Zero /\ r = Zero
  <2> DEFINE x1 == P(i, b - a)
             x2 == P(i, c - a)
             y1 == P(j, b - a)
             y2 == P(j, c - a)
             z1 == P(l, b - a)
             z2 == P(l, c - a)
  <2> HIDE DEF P, x1, x2, y1, y2, z1, z2, p, q, r
  <2>1. /\ x1 \in Byte /\ x2 \in Byte /\ y1 \in Byte /\ y2 \in Byte /\ z1 \in Byte /\ z2 \in Byte
        /\ x1 # y1 /\ Determined(x1, x2, y1, y2, z1, z2)
        /\ Solves(p, q, r, x1, x2) /\ Solves(p, q, r, y1, y2) /\ Solves(p, q, r, z1, z2)
    BY <1>6, <1>8, <1>9 DEF x1, x2, y1, y2, z1, z2
  <2>2. p \in Byte /\ q \in Byte /\ r \in Byte
    BY <1>6
  <2>3. System(p, q, r, x1, x2, y1, y2, z1, z2)
    BY <2>1, <2>2 DEF System
  <2> QED
    BY <2>3, ThreeEquations
<1> QED
  BY <1>4, <1>10 DEF p, q, r

\* The least powers.
LEMMA LowPowers ==
    ASSUME NEW x \in Byte
    PROVE  GfPow(x, 1) = x /\ GfPow(x, 2) = Square(x)
<1>1. GfPow(x, 1) = x
  <2>1. GfPow(x, 0) = One /\ GfPow(x, 0 + 1) = GfMul(GfPow(x, 0), x)
    <3>1. 0 \in Nat
      OBVIOUS
    <3> QED
      BY <3>1, Powers
  <2>2. GfMul(One, x) = x
    BY MulOne
  <2>3. 0 + 1 = 1
    OBVIOUS
  <2> QED
    BY <2>1, <2>2, <2>3
<1>2. GfPow(x, 1 + 1) = GfMul(GfPow(x, 1), GfPow(x, 1))
  BY PowersOfSums
<1>3. 1 + 1 = 2
  OBVIOUS
<1> QED
  BY <1>1, <1>2, <1>3 DEF Square

\* Bases differ, and so do their squares.
LEMMA LowPowersDiffer ==
    ASSUME NEW i \in Index, NEW j \in Index, i # j
    PROVE  /\ GfPow(Base(i), 1) # GfPow(Base(j), 1)
           /\ GfPow(Base(i), 2) # GfPow(Base(j), 2)
<1>1. Base(i) \in Byte /\ Base(j) \in Byte /\ Base(i) # Base(j)
  BY Bases
<1>2. Square(Base(i)) # Square(Base(j))
  BY <1>1, SquareFacts
<1>3. /\ GfPow(Base(i), 1) = Base(i) /\ GfPow(Base(i), 2) = Square(Base(i))
      /\ GfPow(Base(j), 1) = Base(j) /\ GfPow(Base(j), 2) = Square(Base(j))
  BY <1>1, LowPowers
<1> QED
  BY <1>1, <1>2, <1>3

\* Any three parity rows determine three adjacent data shards.
LEMMA AdjacentSeparated ==
    ASSUME NEW i \in Index, NEW j \in Index, NEW l \in Index, i # j, i # l, j # l
    PROVE  Separates(i, j, l, 1, 2)
<1> DEFINE x == Base(i)
           y == Base(j)
           z == Base(l)
<1>1. x \in Byte /\ y \in Byte /\ z \in Byte /\ x # y /\ x # z /\ y # z
  BY Bases
<1>2. /\ GfPow(x, 1) = x /\ GfPow(x, 2) = Square(x)
      /\ GfPow(y, 1) = y /\ GfPow(y, 2) = Square(y)
      /\ GfPow(z, 1) = z /\ GfPow(z, 2) = Square(z)
  BY <1>1, LowPowers
<1>3. Determined(x, Square(x), y, Square(y), z, Square(z))
  <2> HIDE DEF x, y, z
  <2> QED
    BY <1>1, SquaresDetermined
<1> QED
  BY <1>1, <1>2, <1>3 DEF Separates

(***************************************************************************)
(* Codes with one parity shard, or with at most three data shards and any  *)
(* number of parity shards: every choice of as many rows as there are data *)
(* shards can be inverted.                                                 *)
(***************************************************************************)
THEOREM SmallCodesIndependent ==
    ASSUME ParityShards = 1 \/ DataShards <= 3,
           NEW chosen \in kSubset(DataShards, Index)
    PROVE  Independent(chosen)
<1> DEFINE missing == Column \ chosen
<1>1. CASE ParityShards = 1
  <2>1. PICK phi \in [missing -> chosen \ Column] :
                \A a, b \in missing : phi[a] = phi[b] => a = b
    BY Replacements
  <2>2. \A i \in chosen \ Column : i = DataShards
    BY <1>1, CodecAssumption DEF kSubset, Index, TotalShards, Column
  <2>3. \A a, b \in missing : a = b
    BY <2>1, <2>2
  <2> QED
    BY <2>3, SingleIndependent
<1>2. CASE DataShards <= 3
  <2>1. Column \subseteq {0, 1, 2}
    BY <1>2, CodecAssumption DEF Column
  <2>2. CASE \A a, b \in missing : a = b
    BY <2>2, SingleIndependent
  <2>3. CASE missing = {0, 1, 2}
    <3>1. PICK phi \in [missing -> chosen \ Column] :
                \A a, b \in missing : phi[a] = phi[b] => a = b
      BY Replacements
    <3> DEFINE i == phi[0]
               j == phi[1]
               l == phi[2]
    <3>2. /\ i \in chosen \ Column /\ j \in chosen \ Column /\ l \in chosen \ Column
          /\ i # j /\ i # l /\ j # l
      BY <2>3, <3>1
    <3> HIDE DEF i, j, l
    <3>3. i \in Index /\ j \in Index /\ l \in Index
      BY <3>2 DEF kSubset
    <3>4. Separates(i, j, l, 1, 2)
      BY <3>2, <3>3, AdjacentSeparated
    <3>5. 1 - 0 = 1 /\ 2 - 0 = 2 /\ 0 < 1 /\ 1 < 2 /\ 0 \in Column /\ 1 \in Column /\ 2 \in Column
      BY <2>3
    <3>6. Separates(i, j, l, 1 - 0, 2 - 0)
      BY <3>4, <3>5
    <3> QED
      BY <2>3, <3>2, <3>5, <3>6, TripleIndependent
  <2>4. CASE \E a, b \in missing : a < b /\ missing = {a, b}
    <3>1. PICK a \in missing, b \in missing : a < b /\ missing = {a, b}
      BY <2>4
    <3>2. b - a \in {1, 2}
      BY <2>1, <3>1
    <3>3. \A i, j \in Index \ Column : i # j => GfPow(Base(i), b - a) # GfPow(Base(j), b - a)
      <4>1. CASE b - a = 1
        BY <4>1, LowPowersDiffer
      <4>2. CASE b - a = 2
        BY <4>2, LowPowersDiffer
      <4> QED
        BY <3>2, <4>1, <4>2
    <3> QED
      BY <3>1, <3>3, PairIndependent
  <2>5. \/ \A a, b \in missing : a = b
        \/ missing = {0, 1, 2}
        \/ \E a, b \in missing : a < b /\ missing = {a, b}
    <3>1. missing \subseteq {0, 1, 2}
      BY <2>1
    <3> HIDE DEF missing
    <3>2. \/ \A a, b \in missing : a = b
          \/ missing = {0, 1, 2} \/ missing = {0, 1} \/ missing = {0, 2} \/ missing = {1, 2}
      BY <3>1
    <3>3. 0 < 1 /\ 0 < 2 /\ 1 < 2
      OBVIOUS
    <3> QED
      BY <3>2, <3>3
  <2> QED
    BY <2>2, <2>3, <2>4, <2>5
<1> QED
  BY <1>1, <1>2

-----------------------------------------------------------------------------
(***************************************************************************)
(* The code that the daemon runs when nothing is configured: five data and *)
(* three parity shards (daemon.py, data_shards and parity_shards).  Which  *)
(* data shards three bases determine depends on the bases here, so their   *)
(* powers are computed.                                                    *)
(***************************************************************************)

\* Products with a single bit.
LEMMA Doubling ==
    ASSUME NEW a \in Byte
    PROVE  /\ GfMul(a, {0}) = a
           /\ GfMul(a, {1}) = Shift(a)
           /\ GfMul(a, {2}) = Shift(Shift(a))
           /\ GfMul(a, {3}) = Shift(Shift(Shift(a)))
           /\ GfMul(a, {4}) = Shift(Shift(Shift(Shift(a))))
<1> DEFINE M == Multiples[a]
<1>1. M[0] = a /\ \A i \in 0 .. 6 : M[i + 1] = Shift(M[i])
  BY MultiplesAre
<1>2. \A i \in 0 .. 7 : GfMul(a, {i}) = M[i]
  BY MulBit
<1> HIDE DEF M
<1>3. M[0 + 1] = Shift(M[0]) /\ M[1 + 1] = Shift(M[1]) /\ M[2 + 1] = Shift(M[2]) /\ M[3 + 1] = Shift(M[3])
  BY <1>1
<1>4. 0 + 1 = 1 /\ 1 + 1 = 2 /\ 2 + 1 = 3 /\ 3 + 1 = 4
  OBVIOUS
<1>5. M[1] = Shift(M[0]) /\ M[2] = Shift(M[1]) /\ M[3] = Shift(M[2]) /\ M[4] = Shift(M[3])
  BY <1>3, <1>4
<1>6. /\ GfMul(a, {0}) = M[0] /\ GfMul(a, {1}) = M[1] /\ GfMul(a, {2}) = M[2]
      /\ GfMul(a, {3}) = M[3] /\ GfMul(a, {4}) = M[4]
  BY <1>2
<1> QED
  BY <1>1, <1>5, <1>6

\* What Shift gives, bit by bit.
LEMMA ShiftIs ==
    ASSUME NEW a \in Byte, NEW r \in Byte,
           0 \in r <=> 7 \in a, 1 \in r <=> 0 \in a,
           2 \in r <=> ~(1 \in a <=> 7 \in a), 3 \in r <=> ~(2 \in a <=> 7 \in a),
           4 \in r <=> ~(3 \in a <=> 7 \in a), 5 \in r <=> 4 \in a,
           6 \in r <=> 5 \in a, 7 \in r <=> 6 \in a
    PROVE  Shift(a) = r
<1> DEFINE s == Shift(a)
<1>1. /\ s \in Byte
      /\ (0 \in s <=> 0 \in r) /\ (1 \in s <=> 1 \in r) /\ (2 \in s <=> 2 \in r) /\ (3 \in s <=> 3 \in r)
      /\ (4 \in s <=> 4 \in r) /\ (5 \in s <=> 5 \in r) /\ (6 \in s <=> 6 \in r) /\ (7 \in s <=> 7 \in r)
  BY ShiftBits
<1> HIDE DEF s
<1>2. s = r
  BY <1>1, SameBits
<1> QED
  BY <1>2 DEF s

\* A number from its bits.
LEMMA BitsAre ==
    ASSUME NEW n, NEW S \in Byte,
           0 \in S <=> (n \div 1) % 2 = 1, 1 \in S <=> (n \div 2) % 2 = 1,
           2 \in S <=> (n \div 4) % 2 = 1, 3 \in S <=> (n \div 8) % 2 = 1,
           4 \in S <=> (n \div 16) % 2 = 1, 5 \in S <=> (n \div 32) % 2 = 1,
           6 \in S <=> (n \div 64) % 2 = 1, 7 \in S <=> (n \div 128) % 2 = 1
    PROVE  BitsOf(n) = S
<1> DEFINE D(bit) == (n \div 2^bit) % 2 = 1
           B == {bit \in 0 .. 7 : D(bit)}
<1>1. 2^0 = 1 /\ 2^1 = 2 /\ 2^2 = 4 /\ 2^3 = 8 /\ 2^4 = 16 /\ 2^5 = 32 /\ 2^6 = 64 /\ 2^7 = 128
  OBVIOUS
<1>2. /\ (0 \in S <=> D(0)) /\ (1 \in S <=> D(1)) /\ (2 \in S <=> D(2)) /\ (3 \in S <=> D(3))
      /\ (4 \in S <=> D(4)) /\ (5 \in S <=> D(5)) /\ (6 \in S <=> D(6)) /\ (7 \in S <=> D(7))
  BY <1>1
<1> HIDE DEF D
<1>3. /\ B \in Byte
      /\ (0 \in S <=> 0 \in B) /\ (1 \in S <=> 1 \in B) /\ (2 \in S <=> 2 \in B) /\ (3 \in S <=> 3 \in B)
      /\ (4 \in S <=> 4 \in B) /\ (5 \in S <=> 5 \in B) /\ (6 \in S <=> 6 \in B) /\ (7 \in S <=> 7 \in B)
  BY <1>2 DEF Byte
<1> HIDE DEF B
<1>4. B = S
  BY <1>3, SameBits
<1> QED
  BY <1>4 DEF B, D, BitsOf

\* The bases of the three parity shards: 6, 7 and 8.
LEMMA DefaultBases ==
    BitsOf(6) = {1, 2} /\ BitsOf(7) = {0, 1, 2} /\ BitsOf(8) = {3}
<1>1. /\ (6 \div 1) % 2 = 0 /\ (6 \div 2) % 2 = 1 /\ (6 \div 4) % 2 = 1 /\ (6 \div 8) % 2 = 0
      /\ (6 \div 16) % 2 = 0 /\ (6 \div 32) % 2 = 0 /\ (6 \div 64) % 2 = 0 /\ (6 \div 128) % 2 = 0
  OBVIOUS
<1>2. /\ (7 \div 1) % 2 = 1 /\ (7 \div 2) % 2 = 1 /\ (7 \div 4) % 2 = 1 /\ (7 \div 8) % 2 = 0
      /\ (7 \div 16) % 2 = 0 /\ (7 \div 32) % 2 = 0 /\ (7 \div 64) % 2 = 0 /\ (7 \div 128) % 2 = 0
  OBVIOUS
<1>3. /\ (8 \div 1) % 2 = 0 /\ (8 \div 2) % 2 = 0 /\ (8 \div 4) % 2 = 0 /\ (8 \div 8) % 2 = 1
      /\ (8 \div 16) % 2 = 0 /\ (8 \div 32) % 2 = 0 /\ (8 \div 64) % 2 = 0 /\ (8 \div 128) % 2 = 0
  OBVIOUS
<1>4. {1, 2} \in Byte /\ {0, 1, 2} \in Byte /\ {3} \in Byte
  BY DEF Byte
<1>5. BitsOf(6) = {1, 2}
  BY <1>1, <1>4, BitsAre
<1>6. BitsOf(7) = {0, 1, 2}
  BY <1>2, <1>4, BitsAre
<1>7. BitsOf(8) = {3}
  BY <1>3, <1>4, BitsAre
<1> QED
  BY <1>5, <1>6, <1>7

\* Squares, from their bits.
LEMMA SquareIs ==
    ASSUME NEW a \in Byte, NEW r \in Byte, SquareOf(a, r)
    PROVE  Square(a) = r
<1> DEFINE s == GfMul(a, a)
<1>1. s \in Byte /\ SquareOf(a, s)
  BY MulType, Squares
<1> HIDE DEF s
<1>2. s = r
  BY <1>1, SameBits DEF SquareOf
<1> QED
  BY <1>2 DEF s, Square

\* The third and the fourth power.
LEMMA HighPowers ==
    ASSUME NEW x \in Byte
    PROVE  GfPow(x, 3) = GfMul(Square(x), x) /\ GfPow(x, 4) = Square(Square(x))
<1>1. GfPow(x, 1) = x /\ GfPow(x, 2) = Square(x)
  BY LowPowers
<1>2. GfPow(x, 2 + 1) = GfMul(GfPow(x, 2), GfPow(x, 1)) /\ GfPow(x, 2 + 2) = GfMul(GfPow(x, 2), GfPow(x, 2))
  <2>1. 1 \in Nat /\ 2 \in Nat
    OBVIOUS
  <2> QED
    BY <2>1, PowersOfSums
<1>3. 2 + 1 = 3 /\ 2 + 2 = 4
  OBVIOUS
<1> QED
  BY <1>1, <1>2, <1>3 DEF Square

\* The powers of the three bases, from the first to the fourth.
LEMMA DefaultPowers ==
    /\ GfPow({1, 2}, 1) = {1, 2}
    /\ GfPow({1, 2}, 2) = {2, 4}
    /\ GfPow({1, 2}, 3) = {3, 4, 5, 6}
    /\ GfPow({1, 2}, 4) = {0, 2, 3}
    /\ GfPow({0, 1, 2}, 1) = {0, 1, 2}
    /\ GfPow({0, 1, 2}, 2) = {0, 2, 4}
    /\ GfPow({0, 1, 2}, 3) = {0, 1, 3, 5, 6}
    /\ GfPow({0, 1, 2}, 4) = {2, 3}
    /\ GfPow({3}, 1) = {3}
    /\ GfPow({3}, 2) = {6}
    /\ GfPow({3}, 3) = {1, 3, 4, 5}
    /\ GfPow({3}, 4) = {0, 2, 3, 6, 7}
<1>1. /\ {1, 2} \in Byte /\ {2, 4} \in Byte /\ {0, 2, 3} \in Byte
      /\ {0, 1, 2} \in Byte /\ {0, 2, 4} \in Byte /\ {2, 3} \in Byte
      /\ {3} \in Byte /\ {6} \in Byte /\ {0, 2, 3, 6, 7} \in Byte
      /\ {0} \in Byte /\ {1} \in Byte /\ {2} \in Byte
      /\ {3, 5} \in Byte /\ {4, 6} \in Byte /\ {1, 3, 5} \in Byte /\ {0, 1, 2, 3, 4, 5} \in Byte
      /\ {7} \in Byte /\ {0, 2, 3, 4} \in Byte /\ {1, 3, 4, 5} \in Byte
  BY DEF Byte
<1>2. Square({1, 2}) = {2, 4} /\ Square({2, 4}) = {0, 2, 3}
  <2>1. SquareOf({1, 2}, {2, 4})
    BY DEF SquareOf
  <2>2. SquareOf({2, 4}, {0, 2, 3})
    BY DEF SquareOf
  <2> QED
    BY <1>1, <2>1, <2>2, SquareIs
<1>3. Square({0, 1, 2}) = {0, 2, 4} /\ Square({0, 2, 4}) = {2, 3}
  <2>1. SquareOf({0, 1, 2}, {0, 2, 4})
    BY DEF SquareOf
  <2>2. SquareOf({0, 2, 4}, {2, 3})
    BY DEF SquareOf
  <2> QED
    BY <1>1, <2>1, <2>2, SquareIs
<1>4. Square({3}) = {6} /\ Square({6}) = {0, 2, 3, 6, 7}
  <2>1. SquareOf({3}, {6})
    BY DEF SquareOf
  <2>2. SquareOf({6}, {0, 2, 3, 6, 7})
    BY DEF SquareOf
  <2> QED
    BY <1>1, <2>1, <2>2, SquareIs
<1>5. GfMul({2, 4}, {1, 2}) = {3, 4, 5, 6}
  <2>1. Shift({2, 4}) = {3, 5}
    BY <1>1, ShiftIs
  <2>2. Shift({3, 5}) = {4, 6}
    BY <1>1, ShiftIs
  <2>3. GfMul({2, 4}, Xor({1}, {2})) = Xor(GfMul({2, 4}, {1}), GfMul({2, 4}, {2}))
    BY <1>1, MulXorRight
  <2>4. GfMul({2, 4}, {1}) = {3, 5} /\ GfMul({2, 4}, {2}) = {4, 6}
    BY <1>1, <2>1, <2>2, Doubling
  <2>5. Xor({1}, {2}) = {1, 2} /\ Xor({3, 5}, {4, 6}) = {3, 4, 5, 6}
    BY DEF Xor
  <2> QED
    BY <2>3, <2>4, <2>5
<1>6. GfMul({0, 2, 4}, {0, 1, 2}) = {0, 1, 3, 5, 6}
  <2>1. Shift({0, 2, 4}) = {1, 3, 5}
    BY <1>1, ShiftIs
  <2>2. Shift({1, 3, 5}) = {2, 4, 6}
    <3>1. {2, 4, 6} \in Byte
      BY DEF Byte
    <3> QED
      BY <1>1, <3>1, ShiftIs
  <2>3. GfMul({0, 2, 4}, Xor({0}, {1, 2})) = Xor(GfMul({0, 2, 4}, {0}), GfMul({0, 2, 4}, {1, 2}))
    BY <1>1, MulXorRight
  <2>4. GfMul({0, 2, 4}, Xor({1}, {2})) = Xor(GfMul({0, 2, 4}, {1}), GfMul({0, 2, 4}, {2}))
    BY <1>1, MulXorRight
  <2>5. GfMul({0, 2, 4}, {0}) = {0, 2, 4} /\ GfMul({0, 2, 4}, {1}) = {1, 3, 5} /\ GfMul({0, 2, 4}, {2}) = {2, 4, 6}
    BY <1>1, <2>1, <2>2, Doubling
  <2>6. /\ Xor({1}, {2}) = {1, 2} /\ Xor({0}, {1, 2}) = {0, 1, 2}
        /\ Xor({1, 3, 5}, {2, 4, 6}) = {1, 2, 3, 4, 5, 6}
        /\ Xor({0, 2, 4}, {1, 2, 3, 4, 5, 6}) = {0, 1, 3, 5, 6}
    BY DEF Xor
  <2> QED
    BY <2>3, <2>4, <2>5, <2>6
<1>7. GfMul({6}, {3}) = {1, 3, 4, 5}
  <2>1. Shift({6}) = {7}
    BY <1>1, ShiftIs
  <2>2. Shift({7}) = {0, 2, 3, 4} /\ Shift({0, 2, 3, 4}) = {1, 3, 4, 5}
    BY Reduced
  <2>3. GfMul({6}, {3}) = Shift(Shift(Shift({6})))
    BY <1>1, Doubling
  <2> QED
    BY <2>1, <2>2, <2>3
<1>8. /\ GfPow({1, 2}, 1) = {1, 2} /\ GfPow({1, 2}, 2) = {2, 4}
      /\ GfPow({0, 1, 2}, 1) = {0, 1, 2} /\ GfPow({0, 1, 2}, 2) = {0, 2, 4}
      /\ GfPow({3}, 1) = {3} /\ GfPow({3}, 2) = {6}
  BY <1>1, <1>2, <1>3, <1>4, LowPowers
<1>9. GfPow({1, 2}, 3) = {3, 4, 5, 6} /\ GfPow({1, 2}, 4) = {0, 2, 3}
  BY <1>1, <1>2, <1>5, HighPowers
<1>10. GfPow({0, 1, 2}, 3) = {0, 1, 3, 5, 6} /\ GfPow({0, 1, 2}, 4) = {2, 3}
  BY <1>1, <1>3, <1>6, HighPowers
<1>11. GfPow({3}, 3) = {1, 3, 4, 5} /\ GfPow({3}, 4) = {0, 2, 3, 6, 7}
  BY <1>1, <1>4, <1>7, HighPowers
<1> QED
  BY <1>8, <1>9, <1>10, <1>11

\* The products that decide whether the three bases determine three shards.
LEMMA DefaultProducts ==
    /\ GfMul({1, 2, 3}, {0, 1, 4}) = {1, 4, 5, 6, 7}
    /\ GfMul({2, 4, 6}, {0, 1, 4}) = {0, 2, 4, 6, 7}
    /\ GfMul({0, 1, 4}, {6, 7}) = {0, 6, 7}
<1>1. /\ {0} \in Byte /\ {1} \in Byte /\ {2} \in Byte /\ {3} \in Byte /\ {4} \in Byte
      /\ {0, 1, 4} \in Byte /\ {1, 2, 3} \in Byte /\ {2, 4, 6} \in Byte /\ {6, 7} \in Byte
      /\ {0, 1} \in Byte /\ {1, 2} \in Byte
  BY DEF Byte
<1>2. GfMul({1, 2, 3}, {0, 1, 4}) = {1, 4, 5, 6, 7}
  <2> DEFINE a == {0, 1, 4}
  <2>1. {1, 2, 5} \in Byte /\ {2, 3, 6} \in Byte /\ {3, 4, 7} \in Byte
    BY DEF Byte
  <2>2. Shift(a) = {1, 2, 5}
    BY <1>1, <2>1, ShiftIs
  <2>3. Shift({1, 2, 5}) = {2, 3, 6}
    BY <2>1, ShiftIs
  <2>4. Shift({2, 3, 6}) = {3, 4, 7}
    BY <2>1, ShiftIs
  <2>5. GfMul(a, {1}) = Shift(a) /\ GfMul(a, {2}) = Shift(Shift(a)) /\ GfMul(a, {3}) = Shift(Shift(Shift(a)))
    BY <1>1, Doubling
  <2>6. /\ GfMul(a, Xor({1}, {2})) = Xor(GfMul(a, {1}), GfMul(a, {2}))
        /\ GfMul(a, Xor({1, 2}, {3})) = Xor(GfMul(a, {1, 2}), GfMul(a, {3}))
    BY <1>1, MulXorRight
  <2>7. /\ Xor({1}, {2}) = {1, 2} /\ Xor({1, 2}, {3}) = {1, 2, 3}
        /\ Xor({1, 2, 5}, {2, 3, 6}) = {1, 3, 5, 6} /\ Xor({1, 3, 5, 6}, {3, 4, 7}) = {1, 4, 5, 6, 7}
    BY DEF Xor
  <2>8. GfMul({1, 2, 3}, a) = GfMul(a, {1, 2, 3})
    BY <1>1, MulCommutes
  <2> HIDE DEF a
  <2>9. GfMul({1, 2, 3}, a) = {1, 4, 5, 6, 7}
    BY <2>2, <2>3, <2>4, <2>5, <2>6, <2>7, <2>8
  <2> QED
    BY <2>9 DEF a
<1>3. GfMul({2, 4, 6}, {0, 1, 4}) = {0, 2, 4, 6, 7}
  <2> DEFINE a == {2, 4, 6}
  <2>1. {3, 5, 7} \in Byte /\ {0, 2, 3, 6} \in Byte /\ {1, 3, 4, 7} \in Byte /\ {0, 3, 5} \in Byte
    BY DEF Byte
  <2>2. Shift(a) = {3, 5, 7}
    BY <1>1, <2>1, ShiftIs
  <2>3. Shift({3, 5, 7}) = {0, 2, 3, 6}
    BY <2>1, ShiftIs
  <2>4. Shift({0, 2, 3, 6}) = {1, 3, 4, 7}
    BY <2>1, ShiftIs
  <2>5. Shift({1, 3, 4, 7}) = {0, 3, 5}
    BY <2>1, ShiftIs
  <2>6. GfMul(a, {0}) = a /\ GfMul(a, {1}) = Shift(a) /\ GfMul(a, {4}) = Shift(Shift(Shift(Shift(a))))
    BY <1>1, Doubling
  <2>7. /\ GfMul(a, Xor({0}, {1})) = Xor(GfMul(a, {0}), GfMul(a, {1}))
        /\ GfMul(a, Xor({0, 1}, {4})) = Xor(GfMul(a, {0, 1}), GfMul(a, {4}))
    BY <1>1, MulXorRight
  <2>8. /\ Xor({0}, {1}) = {0, 1} /\ Xor({0, 1}, {4}) = {0, 1, 4}
        /\ Xor(a, {3, 5, 7}) = {2, 3, 4, 5, 6, 7} /\ Xor({2, 3, 4, 5, 6, 7}, {0, 3, 5}) = {0, 2, 4, 6, 7}
    BY DEF Xor
  <2> HIDE DEF a
  <2>9. GfMul(a, {0, 1, 4}) = {0, 2, 4, 6, 7}
    BY <2>2, <2>3, <2>4, <2>5, <2>6, <2>7, <2>8
  <2> QED
    BY <2>9 DEF a
<1>4. GfMul({0, 1, 4}, {6, 7}) = {0, 6, 7}
  <2> DEFINE a == {6, 7}
  <2>1. {0, 2, 3, 4, 7} \in Byte /\ {0, 1, 2, 5} \in Byte /\ {1, 2, 3, 6} \in Byte /\ {2, 3, 4, 7} \in Byte
    BY DEF Byte
  <2>2. Shift(a) = {0, 2, 3, 4, 7}
    BY <1>1, <2>1, ShiftIs
  <2>3. Shift({0, 2, 3, 4, 7}) = {0, 1, 2, 5}
    BY <2>1, ShiftIs
  <2>4. Shift({0, 1, 2, 5}) = {1, 2, 3, 6}
    BY <2>1, ShiftIs
  <2>5. Shift({1, 2, 3, 6}) = {2, 3, 4, 7}
    BY <2>1, ShiftIs
  <2>6. GfMul(a, {0}) = a /\ GfMul(a, {1}) = Shift(a) /\ GfMul(a, {4}) = Shift(Shift(Shift(Shift(a))))
    BY <1>1, Doubling
  <2>7. /\ GfMul(a, Xor({0}, {1})) = Xor(GfMul(a, {0}), GfMul(a, {1}))
        /\ GfMul(a, Xor({0, 1}, {4})) = Xor(GfMul(a, {0, 1}), GfMul(a, {4}))
    BY <1>1, MulXorRight
  <2>8. /\ Xor({0}, {1}) = {0, 1} /\ Xor({0, 1}, {4}) = {0, 1, 4}
        /\ Xor(a, {0, 2, 3, 4, 7}) = {0, 2, 3, 4, 6} /\ Xor({0, 2, 3, 4, 6}, {2, 3, 4, 7}) = {0, 6, 7}
    BY DEF Xor
  <2>9. GfMul({0, 1, 4}, a) = GfMul(a, {0, 1, 4})
    BY <1>1, MulCommutes
  <2> HIDE DEF a
  <2>10. GfMul({0, 1, 4}, a) = {0, 6, 7}
    BY <2>2, <2>3, <2>4, <2>5, <2>6, <2>7, <2>8, <2>9
  <2> QED
    BY <2>10 DEF a
<1> QED
  BY <1>2, <1>3, <1>4

\* The three parity rows determine any three data shards among five.
LEMMA DefaultSeparated ==
    ASSUME NEW i, NEW j, NEW l, Base(i) = {1, 2}, Base(j) = {0, 1, 2}, Base(l) = {3}
    PROVE  /\ Separates(i, j, l, 1, 2) /\ Separates(i, j, l, 1, 3) /\ Separates(i, j, l, 1, 4)
           /\ Separates(i, j, l, 2, 3) /\ Separates(i, j, l, 2, 4) /\ Separates(i, j, l, 3, 4)
<1>1. ASSUME NEW a \in Byte
      PROVE  GfMul({0}, a) = a /\ GfMul(a, {0}) = a
  BY <1>1, MulOne DEF One
<1>2. /\ {1, 6} \in Byte /\ {6, 7} \in Byte /\ {1, 2, 3} \in Byte
      /\ {1, 2} \in Byte /\ {0, 1, 2} \in Byte /\ {3} \in Byte
      /\ {2, 4} \in Byte /\ {0, 2, 4} \in Byte /\ {6} \in Byte
  BY DEF Byte
<1>3. /\ Xor({1, 2}, {0, 1, 2}) = {0} /\ Xor({1, 2}, {3}) = {1, 2, 3}
      /\ Xor({2, 4}, {0, 2, 4}) = {0} /\ Xor({2, 4}, {6}) = {2, 4, 6}
      /\ Xor({3, 4, 5, 6}, {0, 1, 3, 5, 6}) = {0, 1, 4} /\ Xor({3, 4, 5, 6}, {1, 3, 4, 5}) = {1, 6}
      /\ Xor({0, 2, 3}, {2, 3}) = {0} /\ Xor({0, 2, 3}, {0, 2, 3, 6, 7}) = {6, 7}
  BY DEF Xor
<1>4. /\ GfMul({0}, {1, 6}) = {1, 6} /\ GfMul({0}, {6, 7}) = {6, 7}
      /\ GfMul({1, 2, 3}, {0}) = {1, 2, 3} /\ GfMul({1, 6}, {0}) = {1, 6}
  BY <1>1, <1>2
<1>5. /\ {1, 2} # {0, 1, 2} /\ {1, 2} # {3} /\ {0, 1, 2} # {3}
      /\ {2, 4} # {0, 2, 4} /\ {2, 4} # {6} /\ {0, 2, 4} # {6}
      /\ {3, 4, 5, 6} # {0, 1, 3, 5, 6}
      /\ {1, 6} # {1, 4, 5, 6, 7} /\ {1, 6} # {0, 2, 4, 6, 7} /\ {6, 7} # {1, 2, 3} /\ {0, 6, 7} # {1, 6}
  OBVIOUS
<1>6. Determined({1, 2}, {3, 4, 5, 6}, {0, 1, 2}, {0, 1, 3, 5, 6}, {3}, {1, 3, 4, 5})
  BY <1>3, <1>4, <1>5, DefaultProducts DEF Determined
<1>7. Determined({1, 2}, {0, 2, 3}, {0, 1, 2}, {2, 3}, {3}, {0, 2, 3, 6, 7})
  BY <1>3, <1>4, <1>5 DEF Determined
<1>8. Determined({2, 4}, {3, 4, 5, 6}, {0, 2, 4}, {0, 1, 3, 5, 6}, {6}, {1, 3, 4, 5})
  BY <1>3, <1>4, <1>5, DefaultProducts DEF Determined
<1>9. Determined({3, 4, 5, 6}, {0, 2, 3}, {0, 1, 3, 5, 6}, {2, 3}, {1, 3, 4, 5}, {0, 2, 3, 6, 7})
  BY <1>3, <1>4, <1>5, DefaultProducts DEF Determined
<1>10. /\ GfPow(Base(i), 2) = Square(Base(i)) /\ GfPow(Base(i), 4) = Square(GfPow(Base(i), 2))
       /\ GfPow(Base(j), 2) = Square(Base(j)) /\ GfPow(Base(j), 4) = Square(GfPow(Base(j), 2))
       /\ GfPow(Base(l), 2) = Square(Base(l)) /\ GfPow(Base(l), 4) = Square(GfPow(Base(l), 2))
       /\ GfPow(Base(i), 1) = Base(i) /\ GfPow(Base(j), 1) = Base(j) /\ GfPow(Base(l), 1) = Base(l)
  <2>1. Base(i) \in Byte /\ Base(j) \in Byte /\ Base(l) \in Byte
    BY <1>2
  <2> QED
    BY <2>1, LowPowers, HighPowers
<1>11. ASSUME NEW x \in Byte, NEW y \in Byte, NEW z \in Byte, x # y, x # z, y # z
       PROVE  Determined(x, Square(x), y, Square(y), z, Square(z))
  BY <1>11, SquaresDetermined
<1>12. Separates(i, j, l, 1, 2)
  <2>1. Determined(Base(i), Square(Base(i)), Base(j), Square(Base(j)), Base(l), Square(Base(l)))
    BY <1>2, <1>5, <1>11
  <2> QED
    BY <1>5, <1>10, <2>1 DEF Separates
<1>13. Separates(i, j, l, 2, 4)
  <2> DEFINE x == GfPow(Base(i), 2)
             y == GfPow(Base(j), 2)
             z == GfPow(Base(l), 2)
  <2>1. x = {2, 4} /\ y = {0, 2, 4} /\ z = {6}
    BY DefaultPowers
  <2>2. Determined(x, Square(x), y, Square(y), z, Square(z))
    <3> HIDE DEF x, y, z
    <3> QED
      BY <1>2, <1>5, <1>11, <2>1
  <2> QED
    BY <1>5, <1>10, <2>1, <2>2 DEF Separates
<1>14. Separates(i, j, l, 1, 3)
  BY <1>5, <1>6, DefaultPowers DEF Separates
<1>15. Separates(i, j, l, 1, 4)
  BY <1>5, <1>7, DefaultPowers DEF Separates
<1>16. Separates(i, j, l, 2, 3)
  BY <1>5, <1>8, DefaultPowers DEF Separates
<1>17. Separates(i, j, l, 3, 4)
  BY <1>5, <1>9, DefaultPowers DEF Separates
<1> QED
  BY <1>12, <1>13, <1>14, <1>15, <1>16, <1>17

\* One, two or three of the data shards of the default code are missing.
LEMMA DefaultMissing ==
    ASSUME DataShards = 5, ParityShards = 3,
           NEW chosen \in kSubset(DataShards, Index)
    PROVE  \/ \A a, b \in Column \ chosen : a = b
           \/ \E a, b \in Column \ chosen : a < b /\ Column \ chosen = {a, b}
           \/ \E a, b, c \in Column \ chosen :
                 /\ a < b /\ b < c /\ Column \ chosen = {a, b, c}
                 /\ 5 \in chosen \ Column /\ 6 \in chosen \ Column /\ 7 \in chosen \ Column
<1> DEFINE missing == Column \ chosen
           added == chosen \ Column
<1>1. PICK phi \in [missing -> added] : \A a, b \in missing : phi[a] = phi[b] => a = b
  BY Replacements
<1>2. added \subseteq {5, 6, 7}
  BY DEF kSubset, Index, TotalShards, Column
<1>3. missing \subseteq Nat
  BY DEF Column
<1>4. ASSUME NEW T \in SUBSET missing, T # {}
      PROVE  \E x \in T : \A y \in T : x <= y
  <2>1. T \in SUBSET Nat
    BY <1>3
  <2> QED
    BY <1>4, <2>1, LeastNatural
<1> HIDE DEF missing, added
<1> SUFFICES ASSUME NEW s \in missing, NEW t \in missing, s # t
             PROVE  \/ \E a, b \in missing : a < b /\ missing = {a, b}
                    \/ \E a, b, c \in missing : /\ a < b /\ b < c /\ missing = {a, b, c}
                                                /\ 5 \in added /\ 6 \in added /\ 7 \in added
  BY DEF missing, added
<1>5. PICK a \in missing : \A y \in missing : a <= y
  BY <1>4
<1>6. PICK b \in missing \ {a} : \A y \in missing \ {a} : b <= y
  <2>1. missing \ {a} # {}
    OBVIOUS
  <2> QED
    BY <1>4, <2>1
<1>7. a < b
  BY <1>3, <1>5, <1>6
<1>8. CASE missing \ {a, b} = {}
  <2>1. missing = {a, b}
    BY <1>6, <1>8
  <2> QED
    BY <1>7, <2>1
<1>9. CASE missing \ {a, b} # {}
  <2>1. PICK c \in missing \ {a, b} : \A y \in missing \ {a, b} : c <= y
    BY <1>4, <1>9
  <2>2. b < c
    <3>1. b <= c /\ b # c /\ b \in Nat /\ c \in Nat
      BY <1>3, <1>6, <2>1
    <3> QED
      BY <3>1
  <2>3. a # b /\ a # c /\ b # c /\ a \in missing /\ b \in missing /\ c \in missing
    BY <1>6, <2>1
  <2>4. phi[a] \in {5, 6, 7} /\ phi[b] \in {5, 6, 7} /\ phi[c] \in {5, 6, 7}
    BY <1>1, <1>2, <2>3
  <2>5. phi[a] # phi[b] /\ phi[a] # phi[c] /\ phi[b] # phi[c]
    BY <1>1, <2>3
  <2>6. \A n \in {5, 6, 7} : n = phi[a] \/ n = phi[b] \/ n = phi[c]
    BY <2>4, <2>5
  <2>7. 5 \in added /\ 6 \in added /\ 7 \in added
    <3>1. \A n \in {5, 6, 7} : n \in added
      BY <1>1, <2>3, <2>6
    <3> QED
      BY <3>1
  <2>8. ASSUME NEW d \in missing
        PROVE  d \in {a, b, c}
    <3>1. phi[d] \in {5, 6, 7}
      BY <1>1, <1>2
    <3>2. phi[d] = phi[a] \/ phi[d] = phi[b] \/ phi[d] = phi[c]
      BY <2>6, <3>1
    <3> QED
      BY <1>1, <2>3, <3>2
  <2>9. missing = {a, b, c}
    BY <2>3, <2>8
  <2> QED
    BY <1>7, <2>2, <2>3, <2>7, <2>9
<1> QED
  BY <1>8, <1>9

(***************************************************************************)
(* The default code: any five of its eight rows can be inverted.           *)
(***************************************************************************)
THEOREM DefaultCodeIndependent ==
    ASSUME DataShards = 5, ParityShards = 3,
           NEW chosen \in kSubset(DataShards, Index)
    PROVE  Independent(chosen)
<1> DEFINE missing == Column \ chosen
<1>1. Base(5) = {1, 2} /\ Base(6) = {0, 1, 2} /\ Base(7) = {3}
  <2>1. 5 + 1 = 6 /\ 6 + 1 = 7 /\ 7 + 1 = 8
    OBVIOUS
  <2> QED
    BY <2>1, DefaultBases DEF Base
<1>2. Column = 0 .. 4 /\ Index \ Column = {5, 6, 7}
  BY DEF Index, TotalShards, Column
<1>3. CASE \A a, b \in missing : a = b
  BY <1>3, SingleIndependent
<1>4. ASSUME NEW a \in missing, NEW b \in missing, a < b, missing = {a, b}
      PROVE  Independent(chosen)
  <2>1. b - a \in {1, 2, 3, 4}
    BY <1>2, <1>4
  <2>2. ASSUME NEW i \in {5, 6, 7}, NEW j \in {5, 6, 7}, i # j, NEW d \in {1, 2, 3, 4}
        PROVE  GfPow(Base(i), d) # GfPow(Base(j), d)
    <3>1. \A p, q \in {{1, 2}, {0, 1, 2}, {3}} : p # q => GfPow(p, d) # GfPow(q, d)
      <4>1. /\ {1, 2} # {0, 1, 2} /\ {1, 2} # {3} /\ {0, 1, 2} # {3}
            /\ {2, 4} # {0, 2, 4} /\ {2, 4} # {6} /\ {0, 2, 4} # {6}
            /\ {3, 4, 5, 6} # {0, 1, 3, 5, 6} /\ {3, 4, 5, 6} # {1, 3, 4, 5} /\ {0, 1, 3, 5, 6} # {1, 3, 4, 5}
            /\ {0, 2, 3} # {2, 3} /\ {0, 2, 3} # {0, 2, 3, 6, 7} /\ {2, 3} # {0, 2, 3, 6, 7}
        OBVIOUS
      <4> DEFINE x == {1, 2}
                 y == {0, 1, 2}
                 z == {3}
      <4>2. GfPow(x, d) # GfPow(y, d) /\ GfPow(x, d) # GfPow(z, d) /\ GfPow(y, d) # GfPow(z, d)
        <5>1. CASE d = 1
          BY <4>1, <5>1, DefaultPowers
        <5>2. CASE d = 2
          BY <4>1, <5>2, DefaultPowers
        <5>3. CASE d = 3
          BY <4>1, <5>3, DefaultPowers
        <5>4. CASE d = 4
          BY <4>1, <5>4, DefaultPowers
        <5> QED
          BY <5>1, <5>2, <5>3, <5>4
      <4> HIDE DEF x, y, z
      <4>3. \A p, q \in {x, y, z} : p # q => GfPow(p, d) # GfPow(q, d)
        BY <4>2
      <4> QED
        BY <4>3 DEF x, y, z
    <3>2. /\ Base(i) \in {{1, 2}, {0, 1, 2}, {3}} /\ Base(j) \in {{1, 2}, {0, 1, 2}, {3}}
      BY <1>1
    <3>3. Base(i) # Base(j)
      <4>1. i \in Index /\ j \in Index
        BY <1>2
      <4> QED
        BY <2>2, <4>1, Bases
    <3> QED
      BY <3>1, <3>2, <3>3
  <2>3. \A i, j \in Index \ Column : i # j => GfPow(Base(i), b - a) # GfPow(Base(j), b - a)
    BY <1>2, <2>1, <2>2
  <2> QED
    BY <1>4, <2>3, PairIndependent
<1>5. ASSUME NEW a \in missing, NEW b \in missing, NEW c \in missing, a < b, b < c, missing = {a, b, c},
             5 \in chosen \ Column, 6 \in chosen \ Column, 7 \in chosen \ Column
      PROVE  Independent(chosen)
  <2>1. /\ b - a \in 1 .. 4 /\ c - a \in 1 .. 4 /\ b - a < c - a
    BY <1>2, <1>5
  <2>2. \A d, e \in 1 .. 4 : d < e => \/ d = 1 /\ e \in {2, 3, 4}
                                      \/ d = 2 /\ e \in {3, 4}
                                      \/ d = 3 /\ e = 4
    OBVIOUS
  <2>3. /\ Separates(5, 6, 7, 1, 2) /\ Separates(5, 6, 7, 1, 3) /\ Separates(5, 6, 7, 1, 4)
        /\ Separates(5, 6, 7, 2, 3) /\ Separates(5, 6, 7, 2, 4) /\ Separates(5, 6, 7, 3, 4)
    BY <1>1, DefaultSeparated
  <2>4. \A d, e \in 1 .. 4 : d < e => Separates(5, 6, 7, d, e)
    BY <2>2, <2>3
  <2>5. Separates(5, 6, 7, b - a, c - a)
    BY <2>1, <2>4
  <2> QED
    BY <1>5, <2>5, TripleIndependent
<1> QED
  BY <1>3, <1>4, <1>5, DefaultMissing

-----------------------------------------------------------------------------
\* The bases of a code of four data and two parity shards are 5 and 6; their
\* cubes differ.
LEMMA FourTwoBases ==
    /\ BitsOf(5) = {0, 2}
    /\ GfPow({0, 2}, 3) # GfPow({1, 2}, 3)
<1>1. /\ (5 \div 1) % 2 = 1 /\ (5 \div 2) % 2 = 0 /\ (5 \div 4) % 2 = 1 /\ (5 \div 8) % 2 = 0
      /\ (5 \div 16) % 2 = 0 /\ (5 \div 32) % 2 = 0 /\ (5 \div 64) % 2 = 0 /\ (5 \div 128) % 2 = 0
  OBVIOUS
<1>2. /\ {0, 2} \in Byte /\ {0, 4} \in Byte /\ {0} \in Byte /\ {2} \in Byte
      /\ {1, 5} \in Byte /\ {2, 6} \in Byte
  BY DEF Byte
<1>3. BitsOf(5) = {0, 2}
  BY <1>1, <1>2, BitsAre
<1>4. Square({0, 2}) = {0, 4}
  <2>1. SquareOf({0, 2}, {0, 4})
    BY DEF SquareOf
  <2> QED
    BY <1>2, <2>1, SquareIs
<1>5. GfMul({0, 4}, {0, 2}) = {0, 2, 4, 6}
  <2>1. Shift({0, 4}) = {1, 5}
    BY <1>2, ShiftIs
  <2>2. Shift({1, 5}) = {2, 6}
    BY <1>2, ShiftIs
  <2>3. GfMul({0, 4}, Xor({0}, {2})) = Xor(GfMul({0, 4}, {0}), GfMul({0, 4}, {2}))
    BY <1>2, MulXorRight
  <2>4. GfMul({0, 4}, {0}) = {0, 4} /\ GfMul({0, 4}, {2}) = {2, 6}
    BY <1>2, <2>1, <2>2, Doubling
  <2>5. Xor({0}, {2}) = {0, 2} /\ Xor({0, 4}, {2, 6}) = {0, 2, 4, 6}
    BY DEF Xor
  <2> QED
    BY <2>3, <2>4, <2>5
<1>6. GfPow({0, 2}, 3) = {0, 2, 4, 6}
  BY <1>2, <1>4, <1>5, HighPowers
<1>7. {0, 2, 4, 6} # {3, 4, 5, 6}
  OBVIOUS
<1> QED
  BY <1>3, <1>6, <1>7, DefaultPowers

(***************************************************************************)
(* The code of four data and two parity shards: any four of its six rows   *)
(* can be inverted.                                                        *)
(***************************************************************************)
THEOREM FourTwoIndependent ==
    ASSUME DataShards = 4, ParityShards = 2,
           NEW chosen \in kSubset(DataShards, Index)
    PROVE  Independent(chosen)
<1> DEFINE missing == Column \ chosen
<1>1. Column = 0 .. 3 /\ Index \ Column = {4, 5}
  BY DEF Index, TotalShards, Column
<1>2. PICK phi \in [missing -> chosen \ Column] : \A m, n \in missing : phi[m] = phi[n] => m = n
  BY Replacements
<1>3. chosen \ Column \subseteq {4, 5}
  BY <1>1 DEF kSubset
<1>4. CASE \A a, b \in missing : a = b
  BY <1>4, SingleIndependent
<1>5. ASSUME NEW a \in missing, NEW b \in missing, a < b
      PROVE  Independent(chosen)
  <2>1. a # b /\ b - a \in {1, 2, 3}
    BY <1>1, <1>5
  <2>2. missing = {a, b}
    <3>1. phi[a] \in {4, 5} /\ phi[b] \in {4, 5} /\ phi[a] # phi[b]
      BY <1>2, <1>3, <2>1
    <3>2. ASSUME NEW d \in missing
          PROVE  d \in {a, b}
      <4>1. phi[d] \in {4, 5}
        BY <1>2, <1>3
      <4>2. phi[d] = phi[a] \/ phi[d] = phi[b]
        BY <3>1, <4>1
      <4> QED
        BY <1>2, <4>2
    <3> QED
      BY <3>2
  <2>3. \A i, j \in Index \ Column : i # j => GfPow(Base(i), b - a) # GfPow(Base(j), b - a)
    <3> SUFFICES ASSUME NEW i \in {4, 5}, NEW j \in {4, 5}, i # j
                 PROVE  GfPow(Base(i), b - a) # GfPow(Base(j), b - a)
      BY <1>1
    <3>1. i \in Index /\ j \in Index
      BY <1>1
    <3>2. CASE b - a = 1
      BY <3>1, <3>2, LowPowersDiffer
    <3>3. CASE b - a = 2
      BY <3>1, <3>3, LowPowersDiffer
    <3>4. CASE b - a = 3
      <4>1. Base(4) = {0, 2} /\ Base(5) = {1, 2}
        <5>1. 4 + 1 = 5 /\ 5 + 1 = 6
          OBVIOUS
        <5> QED
          BY <5>1, FourTwoBases, DefaultBases DEF Base
      <4>2. GfPow(Base(4), 3) # GfPow(Base(5), 3)
        BY <4>1, FourTwoBases
      <4>3. (i = 4 /\ j = 5) \/ (i = 5 /\ j = 4)
        OBVIOUS
      <4> QED
        BY <3>4, <4>2, <4>3
    <3> QED
      BY <2>1, <3>2, <3>3, <3>4
  <2> QED
    BY <1>5, <2>2, <2>3, PairIndependent
<1>6. \A a, b \in missing : a < b \/ b < a \/ a = b
  BY <1>1
<1> QED
  BY <1>4, <1>5, <1>6

=============================================================================
