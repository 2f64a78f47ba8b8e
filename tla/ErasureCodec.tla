---------------------------- MODULE ErasureCodec ----------------------------
(***************************************************************************)
(* The Reed-Solomon codec of mosaic/availability.py as operators: the      *)
(* field GF(256), the encoding matrix, its inversion, and encode and       *)
(* recover on byte sequences.                                              *)
(*                                                                         *)
(* A byte is the set of its bits that are one, so that exclusive or is the *)
(* symmetric difference and a product in the field a sum of shifted        *)
(* factors.  Rows, columns and shards are numbered from 0, as in the code. *)
(***************************************************************************)
EXTENDS Naturals, Sequences, FiniteSets, FiniteSetsExt

CONSTANTS
    DataShards,    \* k: shards that carry the data
    ParityShards   \* m: shards added to them

\* The checks of ErasureCodec.__init__.
ASSUME CodecAssumption ==
    /\ DataShards \in Nat \ {0}
    /\ ParityShards \in Nat \ {0}
    /\ DataShards + ParityShards <= 255

TotalShards == DataShards + ParityShards

Index == 0 .. TotalShards - 1

Column == 0 .. DataShards - 1

-----------------------------------------------------------------------------
(***************************************************************************)
(* The field.                                                              *)
(***************************************************************************)
Byte == SUBSET (0 .. 7)

Zero == {}

One == {0}

\* 0x11D.
GfPoly == {0, 2, 3, 4, 8}

Xor(a, b) == (a \ b) \cup (b \ a)

\* Exclusive or of the values f[i] for i in S.
XorOver(S, f) == {bit \in 0 .. 7 : Cardinality({i \in S : bit \in f[i]}) % 2 = 1}

BitsOf(n) == {bit \in 0 .. 7 : (n \div 2^bit) % 2 = 1}

\* left <<= 1, reduced by the polynomial when it leaves the byte.
Shift(a) ==
    LET shifted == {bit + 1 : bit \in a}
    IN  IF 8 \in shifted THEN Xor(shifted, GfPoly) ELSE shifted

\* Multiples[a][n]: a after n turns of the loop of _gf_mul.
Multiples ==
    [a \in Byte |->
        LET shifted[bit \in 0 .. 7] == IF bit = 0 THEN a ELSE Shift(shifted[bit - 1])
        IN  [bit \in 0 .. 7 |-> shifted[bit]]]

\* left, shifted once per bit of right, is added where that bit is one.
GfMul(left, right) == XorOver(right, Multiples[left])

\* The loop of _gf_pow multiplies exponent times; the product is taken by
\* halves here, which is the same in a field (ErasureCodecProofs, PowerTurns).
GfPow(value, exponent) ==
    LET power[n \in 0 .. exponent] ==
            IF n = 0 THEN One
            ELSE LET half == power[n \div 2]
                 IN  IF n % 2 = 0 THEN GfMul(half, half)
                     ELSE GfMul(GfMul(half, half), value)
    IN  power[exponent]

GfInv(value) == GfPow(value, 254)

-----------------------------------------------------------------------------
(***************************************************************************)
(* Gauss-Jordan elimination on a square matrix m, a function from rows to  *)
(* functions from columns, next to the identity.  The result says whether  *)
(* every column had a pivot.                                               *)
(***************************************************************************)
Augmented(m) ==
    [row \in Column |->
        [col \in 0 .. 2 * DataShards - 1 |->
            IF col \in Column THEN m[row][col]
            ELSE IF col - DataShards = row THEN One ELSE Zero]]

Candidates(m, col) == {row \in Column : row >= col /\ m[row][col] # Zero}

Swapped(m, col, pivot) == [m EXCEPT ![col] = m[pivot], ![pivot] = m[col]]

Scaled(m, col) ==
    LET inverse == GfInv(m[col][col])
    IN  [m EXCEPT ![col] = [c \in DOMAIN @ |-> GfMul(@[c], inverse)]]

\* Every other row loses its entry in the column.
Cleared(m, col) ==
    [row \in Column |->
        IF row = col \/ m[row][col] = Zero THEN m[row]
        ELSE [c \in DOMAIN m[row] |-> Xor(m[row][c], GfMul(m[row][col], m[col][c]))]]

\* A turn of the loop: pivot, scale, clear.
Eliminated(before, col) ==
    LET pivots == Candidates(before.rows, col)
        swapped == Swapped(before.rows, col, Min(pivots))
    IN  IF before.regular /\ pivots # {}
        THEN [before EXCEPT !.rows = Cleared(Scaled(swapped, col), col)]
        ELSE [before EXCEPT !.regular = FALSE]

MatrixInverse(m) ==
    LET after[turns \in 0 .. DataShards] ==
            IF turns = 0 THEN [regular |-> TRUE, rows |-> Augmented(m)]
            ELSE Eliminated(after[turns - 1], turns - 1)
        result == after[DataShards]
    IN  [regular |-> result.regular,
         rows |-> [row \in Column |-> [c \in Column |-> result.rows[row][c + DataShards]]]]

\* Row of the matrix times the vector of shards, byte by byte.
RowTimes(row, shards) ==
    [position \in DOMAIN shards[0] |->
        XorOver({c \in Column : row[c] # Zero},
                [c \in Column |-> GfMul(row[c], shards[c][position])])]

-----------------------------------------------------------------------------
\* Mutant: every parity row has the same base.
MatrixOneBase ==
    [row \in Index |->
        [c \in Column |->
            IF row < DataShards THEN (IF row = c THEN One ELSE Zero)
            ELSE GfPow(BitsOf(DataShards + 1), c)]]

\* The identity above one Vandermonde row for every parity shard.
Matrix ==
    [row \in Index |->
        [c \in Column |->
            IF row < DataShards THEN (IF row = c THEN One ELSE Zero)
            ELSE GfPow(BitsOf(row + 1), c)]]

LengthBytes == 8

\* The length in eight bytes, most significant first; payloads of a model
\* are shorter than 256 bytes.
Framed(payload) ==
    [i \in 1 .. LengthBytes |-> IF i = LengthBytes THEN BitsOf(Len(payload)) ELSE Zero] \o payload

ShardSize(framed) == (Len(framed) + DataShards - 1) \div DataShards

\* The framed payload, padded with zeros and cut into the data shards.
DataOf(payload) ==
    LET framed == Framed(payload)
        size == ShardSize(framed)
    IN  [c \in Column |->
            [i \in 1 .. size |->
                IF c * size + i <= Len(framed) THEN framed[c * size + i] ELSE Zero]]

\* encode: the bytes of every shard.
Encode(payload) == [i \in Index |-> RowTimes(Matrix[i], DataOf(payload))]

\* sorted(shard_map): the indices from the lowest to the highest.
InOrder(chosen) ==
    [c \in Column |-> CHOOSE i \in chosen : Cardinality({j \in chosen : j < i}) = c]

\* The rows of the matrix that belong to k shards.
Submatrix(chosen) == [c \in Column |-> Matrix[InOrder(chosen)[c]]]

\* The inverse for every choice of k shards.
Decoding == [chosen \in kSubset(DataShards, Index) |-> MatrixInverse(Submatrix(chosen))]

\* Stands for an error; bit 8 is in no byte.
Unreadable == <<{8}>>

\* b"".join on data shards of one size.
Joined(data) ==
    LET size == Len(data[0])
    IN  [n \in 1 .. DataShards * size |-> data[(n - 1) \div size][((n - 1) % size) + 1]]

\* int.from_bytes and the slice, which stops at the end of the data.
Unframed(framed) ==
    LET capacity == Len(framed) - LengthBytes
        length == IF \E i \in 1 .. LengthBytes - 1 : framed[i] # Zero THEN capacity
                  ELSE Min({capacity, CHOOSE n \in 0 .. 255 : BitsOf(n) = framed[LengthBytes]})
    IN  SubSeq(framed, LengthBytes + 1, LengthBytes + length)

(***************************************************************************)
(* The payload that recover computes from the bytes of k shards, before it *)
(* compares digests; Unreadable when the submatrix is singular.            *)
(***************************************************************************)
Decode(bytes) ==
    LET inverse == Decoding[DOMAIN bytes]
        vector == [c \in Column |-> bytes[InOrder(DOMAIN bytes)[c]]]
        data == [c \in Column |-> RowTimes(inverse.rows[c], vector)]
    IN  IF inverse.regular THEN Unframed(Joined(data)) ELSE Unreadable

=============================================================================
