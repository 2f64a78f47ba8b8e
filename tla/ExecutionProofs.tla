-------------------------- MODULE ExecutionProofs ---------------------------
(***************************************************************************)
(* Proofs about the executor and its binding to the closure protocol, for  *)
(* all transactions, programs, batches and capsules: receipts are final,   *)
(* nonces count the successes, the receipts form a chain of states, the    *)
(* executor matches the seal it executed last, and apply_execution does    *)
(* nothing to the protocol object that apply would not do.                 *)
(***************************************************************************)
EXTENDS Execution, FiniteSetTheorems, WellFoundedInduction, TLAPS

-----------------------------------------------------------------------------
(***************************************************************************)
(* Loops.  The executor runs the instructions of a transaction and the     *)
(* transactions of a batch in turn; the functions that the loops compute   *)
(* exist, which is shown with the least number for which they would not.   *)
(***************************************************************************)

\* A nonempty set of natural numbers has a least element.
LEMMA LeastNatural ==
    ASSUME NEW T \in SUBSET Nat, T # {}
    PROVE  \E x \in T : \A y \in T : x <= y
<1> DEFINE R == OpToRel(<, Nat)
<1>1. IsWellFoundedOn(R, Nat)
  BY NatLessThanWellFounded
<1>2. \A y, x \in Nat : y < x => <<y, x>> \in R
  BY DEF OpToRel
<1> HIDE DEF R
<1>3. PICK x \in T : \A y \in T : ~(<<y, x>> \in R)
  BY <1>1, WFMin
<1>4. \A y \in T : y \in Nat /\ ~(y < x)
  BY <1>2, <1>3
<1>5. \A y \in T : x <= y
  BY <1>4
<1> QED
  BY <1>5

\* g[n] is the executor after the first n transactions of a batch.
BatchRun(g, e, batch, m) ==
    g = [n \in 0 .. m |-> IF n = 0 THEN e ELSE Ran(g[n - 1], batch[n])]

\* The executors after each transaction of a batch exist.
LEMMA BatchRunExists ==
    ASSUME NEW e, NEW batch, NEW m \in Nat
    PROVE  \E g : BatchRun(g, e, batch, m)
<1> DEFINE T == {k \in Nat : ~\E g : BatchRun(g, e, batch, k)}
<1>1. SUFFICES ASSUME T # {} PROVE FALSE
  OBVIOUS
<1>2. PICK k \in T : \A y \in T : k <= y
  BY <1>1, LeastNatural
<1>3. BatchRun([n \in 0 .. 0 |-> e], e, batch, 0)
  BY DEF BatchRun
<1>4. k \in Nat /\ k # 0
  BY <1>3
<1>5. k - 1 \in Nat /\ k - 1 \notin T
  BY <1>2, <1>4
<1>6. PICK g : BatchRun(g, e, batch, k - 1)
  BY <1>5
<1> DEFINE h == [n \in 0 .. k |-> IF n < k THEN g[n] ELSE Ran(g[k - 1], batch[k])]
<1>7. BatchRun(h, e, batch, k)
  <2>1. g = [n \in 0 .. k - 1 |-> IF n = 0 THEN e ELSE Ran(g[n - 1], batch[n])]
    BY <1>6 DEF BatchRun
  <2>2. ASSUME NEW n \in 0 .. k
        PROVE  h[n] = IF n = 0 THEN e ELSE Ran(h[n - 1], batch[n])
    BY <1>4, <2>1
  <2> QED
    BY <2>2 DEF BatchRun
<1> QED
  BY <1>7

\* execute_batch ends with the last of them.
LEMMA BatchRunResult ==
    ASSUME NEW e, NEW batch \in Seq(Tx)
    PROVE  \E g : BatchRun(g, e, batch, Len(batch)) /\ RanAll(e, batch) = g[Len(batch)]
<1> DEFINE after == CHOOSE g : g = [n \in 0 .. Len(batch) |-> IF n = 0 THEN e ELSE Ran(g[n - 1], batch[n])]
<1>1. RanAll(e, batch) = after[Len(batch)]
  BY DEF RanAll
<1>2. \E g : g = [n \in 0 .. Len(batch) |-> IF n = 0 THEN e ELSE Ran(g[n - 1], batch[n])]
  <2>1. Len(batch) \in Nat
    OBVIOUS
  <2>2. PICK g : BatchRun(g, e, batch, Len(batch))
    BY <2>1, BatchRunExists
  <2> QED
    BY <2>2 DEF BatchRun
<1>3. after = [n \in 0 .. Len(batch) |-> IF n = 0 THEN e ELSE Ran(after[n - 1], batch[n])]
  BY <1>2
<1> HIDE DEF after
<1> QED
  BY <1>1, <1>3 DEF BatchRun

\* The step of the loop over the instructions.
StagedStep(before, tx, n) ==
    LET i == tx.instructions[n]
        gas == before.gas + GasCost[i.operation]
    IN  IF before.raised \/ ~Runs(before.state, i) \/ gas > tx.gasLimit
        THEN [before EXCEPT !.raised = TRUE]
        ELSE [state |-> [before.state EXCEPT ![i.key] = Written(before.state, i)],
              gas |-> gas, raised |-> FALSE]

\* g[n] is what is staged after the first n instructions.
ProgramRun(g, state, tx, m) ==
    g = [n \in 0 .. m |-> IF n = 0 THEN [state |-> state, gas |-> 0, raised |-> FALSE]
                          ELSE StagedStep(g[n - 1], tx, n)]

\* What is staged after each instruction exists.
LEMMA ProgramRunExists ==
    ASSUME NEW state, NEW tx, NEW m \in Nat
    PROVE  \E g : ProgramRun(g, state, tx, m)
<1> DEFINE T == {k \in Nat : ~\E g : ProgramRun(g, state, tx, k)}
           start == [state |-> state, gas |-> 0, raised |-> FALSE]
<1>1. SUFFICES ASSUME T # {} PROVE FALSE
  OBVIOUS
<1>2. PICK k \in T : \A y \in T : k <= y
  BY <1>1, LeastNatural
<1>3. ProgramRun([n \in 0 .. 0 |-> start], state, tx, 0)
  BY DEF ProgramRun
<1>4. k \in Nat /\ k # 0
  BY <1>3
<1>5. k - 1 \in Nat /\ k - 1 \notin T
  BY <1>2, <1>4
<1>6. PICK g : ProgramRun(g, state, tx, k - 1)
  BY <1>5
<1> DEFINE h == [n \in 0 .. k |-> IF n < k THEN g[n] ELSE StagedStep(g[k - 1], tx, k)]
<1>7. ProgramRun(h, state, tx, k)
  <2>1. g = [n \in 0 .. k - 1 |-> IF n = 0 THEN start ELSE StagedStep(g[n - 1], tx, n)]
    BY <1>6 DEF ProgramRun
  <2> HIDE DEF start
  <2>2. ASSUME NEW n \in 0 .. k
        PROVE  h[n] = IF n = 0 THEN start ELSE StagedStep(h[n - 1], tx, n)
    BY <1>4, <2>1
  <2> QED
    BY <2>2 DEF ProgramRun, start
<1> QED
  BY <1>7

\* The loop ends with the last of them.
LEMMA ProgramRunResult ==
    ASSUME NEW state, NEW tx, Len(tx.instructions) \in Nat
    PROVE  \E g : /\ ProgramRun(g, state, tx, Len(tx.instructions))
                  /\ Staged(state, tx) = g[Len(tx.instructions)]
<1> DEFINE m == Len(tx.instructions)
           start == [state |-> state, gas |-> 0, raised |-> FALSE]
           after == CHOOSE g : g = [n \in 0 .. m |-> IF n = 0 THEN start ELSE StagedStep(g[n - 1], tx, n)]
<1>1. Staged(state, tx) = after[m]
  BY DEF Staged, StagedStep
<1>2. \E g : g = [n \in 0 .. m |-> IF n = 0 THEN start ELSE StagedStep(g[n - 1], tx, n)]
  <2>1. PICK g : ProgramRun(g, state, tx, m)
    BY ProgramRunExists
  <2> QED
    BY <2>1 DEF ProgramRun
<1>3. after = [n \in 0 .. m |-> IF n = 0 THEN start ELSE StagedStep(after[n - 1], tx, n)]
  BY <1>2
<1> HIDE DEF after
<1> QED
  BY <1>1, <1>3 DEF ProgramRun

\* What the loop keeps between two instructions: a state with these keys.
IsStageOn(keys, b) == "state" \in DOMAIN b /\ DOMAIN b.state = keys

\* An instruction changes the value of a key, or nothing.
LEMMA StagedStepKeys ==
    ASSUME NEW keys, NEW b, IsStageOn(keys, b), NEW tx, NEW n
    PROVE  IsStageOn(keys, StagedStep(b, tx, n))
<1> DEFINE i == tx.instructions[n]
           raises == b.raised \/ ~Runs(b.state, i) \/ b.gas + GasCost[i.operation] > tx.gasLimit
<1>1. CASE raises
  <2>1. StagedStep(b, tx, n) = [b EXCEPT !.raised = TRUE]
    BY <1>1 DEF StagedStep
  <2> QED
    BY <2>1 DEF IsStageOn
<1>2. CASE ~raises
  <2> DEFINE w == [b.state EXCEPT ![i.key] = Written(b.state, i)]
  <2>1. StagedStep(b, tx, n) = [state |-> w, gas |-> b.gas + GasCost[i.operation], raised |-> FALSE]
    BY <1>2 DEF StagedStep
  <2>2. DOMAIN w = keys
    BY DEF IsStageOn
  <2> HIDE DEF w
  <2> QED
    BY <2>1, <2>2 DEF IsStageOn
<1> QED
  BY <1>1, <1>2

\* What is staged, instruction by instruction.
LEMMA ProgramRunSteps ==
    ASSUME NEW g, NEW state, NEW tx, NEW m \in Nat, ProgramRun(g, state, tx, m)
    PROVE  /\ IsStageOn(DOMAIN state, g[0])
           /\ \A n \in 1 .. m : g[n] = StagedStep(g[n - 1], tx, n)
<1> DEFINE start == [state |-> state, gas |-> 0, raised |-> FALSE]
<1>1. g = [n \in 0 .. m |-> IF n = 0 THEN start ELSE StagedStep(g[n - 1], tx, n)]
  BY DEF ProgramRun
<1>2. IsStageOn(DOMAIN state, start)
  BY DEF IsStageOn
<1> HIDE DEF start
<1>3. \A n \in 0 .. m : g[n] = IF n = 0 THEN start ELSE StagedStep(g[n - 1], tx, n)
  BY <1>1
<1> QED
  BY <1>2, <1>3

\* No instruction adds a key to the state or takes one away (a deleted key
\* has the value Absent).
LEMMA StagedKeys ==
    ASSUME NEW state, NEW tx, Len(tx.instructions) \in Nat
    PROVE  DOMAIN Staged(state, tx).state = DOMAIN state
<1> DEFINE m == Len(tx.instructions)
           keys == DOMAIN state
<1>1. PICK g : ProgramRun(g, state, tx, m) /\ Staged(state, tx) = g[m]
  BY ProgramRunResult
<1>2. IsStageOn(keys, g[0]) /\ \A n \in 1 .. m : g[n] = StagedStep(g[n - 1], tx, n)
  BY <1>1, ProgramRunSteps
<1> HIDE DEF keys, m
<1> DEFINE T == {n \in 0 .. m : ~IsStageOn(keys, g[n])}
<1>3. T = {}
  <2> SUFFICES ASSUME T # {} PROVE FALSE
    OBVIOUS
  <2>1. T \in SUBSET Nat
    OBVIOUS
  <2>2. PICK k \in T : \A y \in T : k <= y
    BY <2>1, LeastNatural
  <2>3. k \in 0 .. m /\ k # 0 /\ m \in Nat
    BY <1>2 DEF m
  <2>4. k \in 1 .. m /\ k - 1 \in 0 .. m /\ k - 1 \notin T
    BY <2>2, <2>3
  <2>5. IsStageOn(keys, g[k - 1])
    BY <2>4
  <2>6. IsStageOn(keys, g[k])
    BY <1>2, <2>4, <2>5, StagedStepKeys
  <2> QED
    BY <2>6
<1>4. IsStageOn(keys, g[m])
  BY <1>3 DEF m
<1> QED
  BY <1>1, <1>4 DEF IsStageOn, keys, m

-----------------------------------------------------------------------------
(***************************************************************************)
(* What an executor satisfies, in memory and in its durable row.  The      *)
(* properties of Execution speak of the executor; here they are stated of  *)
(* any value e, so that they can be shown for the intermediate executors   *)
(* of a batch and for the row that a restart reads.                        *)
(***************************************************************************)
SuccessesOf(e) == {r \in e.receipts : r.success}

Mine(e, u) == {r \in SuccessesOf(e) : r.tx.caller = u}

NoncesOf(e, u) == {r.tx.nonce : r \in Mine(e, u)}

Shaped(e) ==
    /\ e.nonces \in [Callers -> Nat]
    /\ DOMAIN e.state = Key
    /\ IsFiniteSet(e.receipts)

OneReceipt(e) == \A r, q \in e.receipts : r.tx = q.tx => r = q

Counted(e) ==
    \A u \in Callers : /\ NoncesOf(e, u) = 0 .. e.nonces[u] - 1
                       /\ \A r, q \in Mine(e, u) : r.tx.nonce = q.tx.nonce => r = q

\* order lists n successes, all of them, in the order in which they ran.
Chained(e, n, order) ==
    /\ order \in [1 .. n -> SuccessesOf(e)]
    /\ \A r \in SuccessesOf(e) : \E k \in 1 .. n : order[k] = r
    /\ \A k \in 1 .. n - 1 : order[k].post = order[k + 1].pre
    /\ IF n = 0 THEN \E g \in Resource : e.state = Genesis[g]
       ELSE /\ \E g \in Resource : order[1].pre = Genesis[g]
            /\ order[n].post = e.state

Sound(e) ==
    /\ Shaped(e)
    /\ OneReceipt(e)
    /\ Counted(e)
    /\ \E order : Chained(e, Cardinality(SuccessesOf(e)), order)

\* The nonces after a success of caller u.
Bumped(nonces, u) == [nonces EXCEPT ![u] = @ + 1]

\* What execute does with a transaction that has no receipt.
LEMMA RanEffect ==
    ASSUME NEW e, NEW tx, ~Known(e, tx),
           NEW r, r = ReceiptFor(e, tx)
    PROVE  /\ Ran(e, tx).state = r.post
           /\ Ran(e, tx).receipts = e.receipts \cup {r}
           /\ r.tx = tx /\ r.pre = e.state
           /\ Succeeds(e, tx) =>
                 /\ r.success
                 /\ r.post = Staged(e.state, tx).state
                 /\ Ran(e, tx).nonces = Bumped(e.nonces, tx.caller)
           /\ ~Succeeds(e, tx) =>
                 /\ ~r.success
                 /\ r.post = e.state
                 /\ Ran(e, tx).nonces = e.nonces
<1>1. /\ Ran(e, tx).state = r.post
      /\ Ran(e, tx).receipts = e.receipts \cup {r}
      /\ r.success => Ran(e, tx).nonces = Bumped(e.nonces, tx.caller)
      /\ ~r.success => Ran(e, tx).nonces = e.nonces
  BY DEF Ran, Bumped
<1>2. CASE Succeeds(e, tx)
  <2>1. r = [tx |-> tx, pre |-> e.state, post |-> Staged(e.state, tx).state, success |-> TRUE]
    BY <1>2 DEF ReceiptFor
  <2>2. r.tx = tx /\ r.pre = e.state /\ r.post = Staged(e.state, tx).state /\ r.success
    BY <2>1
  <2> QED
    BY <1>1, <1>2, <2>2
<1>3. CASE ~Succeeds(e, tx)
  <2>1. r = [tx |-> tx, pre |-> e.state, post |-> e.state, success |-> FALSE]
    BY <1>3 DEF ReceiptFor
  <2>2. r.tx = tx /\ r.pre = e.state /\ r.post = e.state /\ ~r.success
    BY <2>1
  <2> QED
    BY <1>1, <1>3, <2>2
<1> QED
  BY <1>2, <1>3

\* A failure adds a receipt and nothing else; a success adds one to the nonce
\* of the caller, which was the nonce of the transaction.
LEMMA RanCases ==
    ASSUME NEW e, Shaped(e), OneReceipt(e), NEW tx \in Tx, ~Known(e, tx),
           NEW f, f = Ran(e, tx), NEW r, r = ReceiptFor(e, tx)
    PROVE  /\ f.receipts = e.receipts \cup {r} /\ r \notin e.receipts
           /\ r.tx = tx /\ r.pre = e.state /\ r.post = f.state
           /\ Shaped(f) /\ OneReceipt(f)
           /\ \/ /\ SuccessesOf(f) = SuccessesOf(e) /\ ~r.success
                 /\ f.state = e.state /\ f.nonces = e.nonces
              \/ /\ SuccessesOf(f) = SuccessesOf(e) \cup {r} /\ r.success
                 /\ tx.nonce = e.nonces[tx.caller]
                 /\ f.nonces = Bumped(e.nonces, tx.caller)
<1>1. /\ f.receipts = e.receipts \cup {r} /\ r \notin e.receipts
      /\ r.tx = tx /\ r.pre = e.state /\ r.post = f.state
  <2>1. /\ f.receipts = e.receipts \cup {r}
        /\ r.tx = tx /\ r.pre = e.state /\ r.post = f.state
    BY RanEffect
  <2> QED
    BY <2>1 DEF Known
<1>2. OneReceipt(f)
  BY <1>1 DEF OneReceipt, Known
<1>3. tx.caller \in Callers
  BY DEF Callers
<1>4. IsFiniteSet(f.receipts)
  BY <1>1, FS_AddElement DEF Shaped
<1>5. CASE Succeeds(e, tx)
  <2>1. /\ r.success /\ r.post = Staged(e.state, tx).state
        /\ f.nonces = Bumped(e.nonces, tx.caller)
    BY <1>5, RanEffect
  <2>2. tx.nonce = e.nonces[tx.caller] /\ Len(tx.instructions) \in Nat
    BY <1>5, ExecutionAssumption DEF Succeeds, Admissible
  <2>3. DOMAIN f.state = Key
    BY <1>1, <2>1, <2>2, StagedKeys DEF Shaped
  <2>4. f.nonces \in [Callers -> Nat]
    BY <1>3, <2>1 DEF Shaped, Bumped
  <2>5. SuccessesOf(f) = SuccessesOf(e) \cup {r}
    BY <1>1, <2>1 DEF SuccessesOf
  <2>6. Shaped(f)
    BY <1>4, <2>3, <2>4 DEF Shaped
  <2> QED
    BY <1>1, <1>2, <2>1, <2>2, <2>5, <2>6
<1>6. CASE ~Succeeds(e, tx)
  <2>1. ~r.success /\ r.post = e.state /\ f.nonces = e.nonces
    BY <1>6, RanEffect
  <2>2. SuccessesOf(f) = SuccessesOf(e)
    BY <1>1, <2>1 DEF SuccessesOf
  <2>3. Shaped(f)
    BY <1>1, <1>4, <2>1 DEF Shaped
  <2> QED
    BY <1>1, <1>2, <2>1, <2>2, <2>3
<1> QED
  BY <1>5, <1>6

\* The nonces of the successes stay 0, 1, 2 ... without a gap or repetition.
LEMMA RanCounted ==
    ASSUME NEW e, Shaped(e), OneReceipt(e), Counted(e), NEW tx \in Tx, ~Known(e, tx)
    PROVE  Counted(Ran(e, tx))
<1> DEFINE f == Ran(e, tx)
           r == ReceiptFor(e, tx)
<1>1. /\ f.receipts = e.receipts \cup {r} /\ r \notin e.receipts
      /\ r.tx = tx
      /\ \/ SuccessesOf(f) = SuccessesOf(e) /\ f.nonces = e.nonces
         \/ /\ SuccessesOf(f) = SuccessesOf(e) \cup {r}
            /\ tx.nonce = e.nonces[tx.caller]
            /\ f.nonces = Bumped(e.nonces, tx.caller)
  BY RanCases
<1> HIDE DEF f, r
<1>2. CASE SuccessesOf(f) = SuccessesOf(e) /\ f.nonces = e.nonces
  BY <1>2 DEF Counted, NoncesOf, Mine, f
<1>3. CASE /\ SuccessesOf(f) = SuccessesOf(e) \cup {r}
           /\ tx.nonce = e.nonces[tx.caller]
           /\ f.nonces = Bumped(e.nonces, tx.caller)
  <2>1. ASSUME NEW u \in Callers
        PROVE  /\ NoncesOf(f, u) = 0 .. f.nonces[u] - 1
               /\ \A p, q \in Mine(f, u) : p.tx.nonce = q.tx.nonce => p = q
    <3>0. e.nonces[u] \in Nat /\ e.nonces \in [Callers -> Nat]
      BY DEF Shaped
    <3>1. CASE u # tx.caller
      <4>1. Mine(f, u) = Mine(e, u)
        BY <1>1, <1>3, <3>1 DEF Mine
      <4>2. f.nonces[u] = e.nonces[u]
        BY <1>3, <3>0, <3>1 DEF Bumped
      <4> QED
        BY <4>1, <4>2 DEF Counted, NoncesOf
    <3>2. CASE u = tx.caller
      <4> DEFINE n == e.nonces[u]
      <4>1. Mine(f, u) = Mine(e, u) \cup {r}
        BY <1>1, <1>3, <3>2 DEF Mine
      <4>2. r.tx.nonce = n /\ f.nonces[u] = n + 1 /\ n \in Nat
        BY <1>1, <1>3, <3>0, <3>2 DEF Bumped
      <4>3. /\ NoncesOf(e, u) = 0 .. n - 1
            /\ \A p, q \in Mine(e, u) : p.tx.nonce = q.tx.nonce => p = q
        BY DEF Counted
      <4> HIDE DEF n
      <4>4. NoncesOf(f, u) = NoncesOf(e, u) \cup {n}
        BY <4>1, <4>2 DEF NoncesOf
      <4>5. NoncesOf(f, u) = 0 .. f.nonces[u] - 1
        BY <4>2, <4>3, <4>4
      <4>6. \A q \in Mine(e, u) : q.tx.nonce # n
        BY <4>2, <4>3 DEF NoncesOf
      <4>7. \A p, q \in Mine(f, u) : p.tx.nonce = q.tx.nonce => p = q
        BY <4>1, <4>2, <4>3, <4>6
      <4> QED
        BY <4>5, <4>7
    <3> QED
      BY <3>1, <3>2
  <2> QED
    BY <2>1 DEF Counted, f
<1> QED
  BY <1>1, <1>2, <1>3

\* A success starts from the state that the one before it left.
LEMMA RanChained ==
    ASSUME NEW e, Shaped(e), OneReceipt(e), NEW tx \in Tx, ~Known(e, tx),
           \E order : Chained(e, Cardinality(SuccessesOf(e)), order)
    PROVE  \E order : Chained(Ran(e, tx), Cardinality(SuccessesOf(Ran(e, tx))), order)
<1> DEFINE f == Ran(e, tx)
           r == ReceiptFor(e, tx)
           n == Cardinality(SuccessesOf(e))
<1>1. /\ f.receipts = e.receipts \cup {r} /\ r \notin e.receipts
      /\ r.pre = e.state /\ r.post = f.state
      /\ \/ SuccessesOf(f) = SuccessesOf(e) /\ f.state = e.state
         \/ SuccessesOf(f) = SuccessesOf(e) \cup {r}
  BY RanCases
<1>2. IsFiniteSet(SuccessesOf(e)) /\ n \in Nat
  <2>1. SuccessesOf(e) \in SUBSET e.receipts
    BY DEF SuccessesOf
  <2> QED
    BY <2>1, FS_Subset, FS_CardinalityType DEF Shaped
<1>3. PICK order : Chained(e, n, order)
  OBVIOUS
<1> HIDE DEF f, r, n
<1>4. CASE SuccessesOf(f) = SuccessesOf(e) /\ f.state = e.state
  <2>1. Chained(f, n, order)
    BY <1>3, <1>4 DEF Chained
  <2> QED
    BY <1>4, <2>1 DEF n, f
<1>5. CASE SuccessesOf(f) = SuccessesOf(e) \cup {r}
  <2> DEFINE longer == [k \in 1 .. n + 1 |-> IF k <= n THEN order[k] ELSE r]
  <2>1. r \notin SuccessesOf(e)
    BY <1>1 DEF SuccessesOf
  <2>2. Cardinality(SuccessesOf(f)) = n + 1
    BY <1>2, <1>5, <2>1, FS_AddElement DEF n
  <2>3. longer \in [1 .. n + 1 -> SuccessesOf(f)]
    BY <1>2, <1>3, <1>5 DEF Chained
  <2>4. \A q \in SuccessesOf(f) : \E k \in 1 .. n + 1 : longer[k] = q
    <3>1. longer[n + 1] = r /\ n + 1 \in 1 .. n + 1
      BY <1>2
    <3>2. ASSUME NEW q \in SuccessesOf(e)
          PROVE  \E k \in 1 .. n + 1 : longer[k] = q
      BY <1>2, <1>3 DEF Chained
    <3> QED
      BY <1>5, <3>1, <3>2
  <2>5. \A k \in 1 .. (n + 1) - 1 : longer[k].post = longer[k + 1].pre
    <3>1. SUFFICES ASSUME NEW k \in 1 .. n PROVE longer[k].post = longer[k + 1].pre
      BY <1>2
    <3>2. CASE k = n
      <4>1. longer[k] = order[n] /\ longer[k + 1] = r
        BY <1>2, <3>2
      <4>2. order[n].post = e.state
        BY <1>2, <1>3, <3>1, <3>2 DEF Chained
      <4> QED
        BY <1>1, <4>1, <4>2
    <3>3. CASE k # n
      <4>1. k \in 1 .. n - 1 /\ longer[k] = order[k] /\ longer[k + 1] = order[k + 1]
        BY <1>2, <3>1, <3>3
      <4> QED
        BY <1>3, <4>1 DEF Chained
    <3> QED
      BY <3>2, <3>3
  <2>6. \E g \in Resource : longer[1].pre = Genesis[g]
    <3>1. CASE n = 0
      <4>1. longer[1] = r
        BY <3>1
      <4> QED
        BY <1>1, <1>3, <3>1, <4>1 DEF Chained
    <3>2. CASE n # 0
      <4>1. longer[1] = order[1]
        BY <1>2, <3>2
      <4> QED
        BY <1>3, <3>2, <4>1 DEF Chained
    <3> QED
      BY <3>1, <3>2
  <2>7. longer[n + 1].post = f.state
    BY <1>1, <1>2
  <2> HIDE DEF longer
  <2>8. Chained(f, n + 1, longer)
    BY <1>2, <2>3, <2>4, <2>5, <2>6, <2>7 DEF Chained
  <2> QED
    BY <2>2, <2>8 DEF f
<1> QED
  BY <1>1, <1>4, <1>5

\* execute keeps the executor sound and never drops a receipt.
LEMMA RanSound ==
    ASSUME NEW e, Sound(e), NEW tx \in Tx
    PROVE  Sound(Ran(e, tx)) /\ e.receipts \subseteq Ran(e, tx).receipts
<1>1. CASE Known(e, tx)
  BY <1>1 DEF Ran
<1>2. CASE ~Known(e, tx)
  <2>1. /\ Shaped(Ran(e, tx)) /\ OneReceipt(Ran(e, tx))
        /\ Ran(e, tx).receipts = e.receipts \cup {ReceiptFor(e, tx)}
    BY <1>2, RanCases DEF Sound
  <2>2. Counted(Ran(e, tx))
    BY <1>2, RanCounted DEF Sound
  <2>3. \E order : Chained(Ran(e, tx), Cardinality(SuccessesOf(Ran(e, tx))), order)
    BY <1>2, RanChained DEF Sound
  <2> QED
    BY <2>1, <2>2, <2>3 DEF Sound
<1> QED
  BY <1>1, <1>2

Extends(e, f) == Sound(f) /\ e.receipts \subseteq f.receipts

\* So does execute_batch, by induction over the transactions of the batch.
LEMMA RanAllSound ==
    ASSUME NEW e, Sound(e), NEW batch \in Batch
    PROVE  Extends(e, RanAll(e, batch))
<1> DEFINE m == Len(batch)
<1>1. batch \in Seq(Tx) /\ m \in Nat /\ \A n \in 1 .. m : batch[n] \in Tx
  BY ExecutionAssumption
<1>2. PICK g : BatchRun(g, e, batch, m) /\ RanAll(e, batch) = g[m]
  BY <1>1, BatchRunResult
<1> HIDE DEF m
<1>3. \A n \in 0 .. m : g[n] = IF n = 0 THEN e ELSE Ran(g[n - 1], batch[n])
  BY <1>2 DEF BatchRun
<1> DEFINE T == {n \in 0 .. m : ~Extends(e, g[n])}
<1>4. T = {}
  <2> SUFFICES ASSUME T # {} PROVE FALSE
    OBVIOUS
  <2>1. T \in SUBSET Nat
    OBVIOUS
  <2>2. PICK k \in T : \A y \in T : k <= y
    BY <2>1, LeastNatural
  <2>3. Extends(e, g[0])
    BY <1>1, <1>3 DEF Extends
  <2>4. k \in 1 .. m /\ k - 1 \in 0 .. m /\ k - 1 \notin T
    BY <1>1, <2>2, <2>3
  <2>5. Extends(e, g[k - 1])
    BY <2>4
  <2>6. g[k] = Ran(g[k - 1], batch[k]) /\ batch[k] \in Tx
    BY <1>1, <1>3, <2>4
  <2>7. Sound(g[k]) /\ g[k - 1].receipts \subseteq g[k].receipts
    BY <2>5, <2>6, RanSound DEF Extends
  <2>8. Extends(e, g[k])
    BY <2>5, <2>7 DEF Extends
  <2> QED
    BY <2>8
<1>5. Extends(e, g[m])
  BY <1>1, <1>4
<1> QED
  BY <1>2, <1>5

-----------------------------------------------------------------------------
(***************************************************************************)
(* The inductive invariant: the executor and its row are sound, and each   *)
(* matches the seal that its history variable names.  The row has to be    *)
(* part of it because a restart makes the row the executor.                *)
(***************************************************************************)
Matches(e, b) ==
    /\ b \in Seal \cup {None}
    /\ b # None =>
         /\ e.state = RootOf(b)
         /\ b \in Capsule =>
              \E r \in SuccessesOf(e) : /\ r.tx = RuleWitness[b]
                                        /\ r.pre = RootOf(Pred[b])
                                        /\ r.post = RootOf(b)

ExecutorInv ==
    /\ Sound(executor) /\ Matches(executor, basis)
    /\ disk # <<>> => Sound(disk[1]) /\ Matches(disk[1], disk[2])

\* What a step does with the executor: it runs transactions, or it goes back to
\* the row.
ExecutorStep ==
    \/ /\ Extends(executor, executor') /\ Matches(executor', basis')
       /\ disk' \in {disk, <<executor, basis>>}
    \/ disk # <<>> /\ executor' = disk[1] /\ basis' = disk[2] /\ disk' = disk

\* More receipts and the same state match the same seal.
LEMMA MatchesGrows ==
    ASSUME NEW e, NEW f, NEW b, Matches(e, b), e.receipts \subseteq f.receipts, e.state = f.state
    PROVE  Matches(f, b)
BY DEF Matches, SuccessesOf

\* No seal matches anything.
LEMMA NoneMatches ==
    ASSUME NEW e
    PROVE  Matches(e, None)
BY CapsuleAssumption DEF Matches

\* A transaction that apply_execution ran for a capsule leads from the root of
\* the predecessor to the root of the capsule.
LEMMA ApplyExecutionMatches ==
    ASSUME Sound(executor), NEW c \in Capsule, ExecutesFor(c),
           ~Known(executor, RuleWitness[c])
    PROVE  Matches(Ran(executor, RuleWitness[c]), c)
<1> DEFINE tx == RuleWitness[c]
           f == Ran(executor, tx)
           r == ReceiptFor(executor, tx)
<1>1. tx \in Tx
  BY ExecutionAssumption
<1>2. f.receipts = executor.receipts \cup {r} /\ r.tx = tx /\ r.post = f.state
  BY <1>1, RanCases DEF Sound
<1>3. OneReceipt(f)
  BY <1>1, RanSound DEF Sound
<1>4. ReceiptOfTx(f, tx) = r
  BY <1>2, <1>3 DEF ReceiptOfTx, OneReceipt
<1>5. r.success /\ r.pre = RootOf(Pred[c]) /\ r.post = SuccessorRoot[c]
  BY <1>4 DEF ExecutesFor
<1>6. RootOf(c) = SuccessorRoot[c] /\ c \in Seal
  BY CapsuleAssumption DEF RootOf, Seal
<1>7. r \in SuccessesOf(f)
  BY <1>2, <1>5 DEF SuccessesOf
<1> HIDE DEF f, r
<1> QED
  BY <1>2, <1>5, <1>6, <1>7 DEF Matches, f

\* Every step runs transactions on the executor, leaves it alone or reads the
\* row back.
LEMMA EveryExecutorStep ==
    ASSUME ExecutorInv, [Next]_vars
    PROVE  ExecutorStep
<1>0. Extends(executor, executor) /\ Matches(executor, basis)
  BY DEF ExecutorInv, Extends
<1>1. ASSUME UNCHANGED <<executor, disk, basis>>
      PROVE  ExecutorStep
  BY <1>0, <1>1 DEF ExecutorStep
<1>2. ASSUME NEW tx \in Tx, Execute(tx)
      PROVE  ExecutorStep
  <2>1. executor' = Ran(executor, tx) /\ disk' = disk
    BY <1>2 DEF Execute
  <2>2. Extends(executor, executor')
    BY <2>1, RanSound DEF ExecutorInv, Extends
  <2>3. Matches(executor', basis')
    <3>1. CASE executor'.state = executor.state
      BY <1>0, <1>2, <2>2, <3>1, MatchesGrows DEF Execute, Extends
    <3>2. CASE executor'.state # executor.state
      BY <1>2, <3>2, NoneMatches DEF Execute
    <3> QED
      BY <3>1, <3>2
  <2> QED
    BY <2>1, <2>2, <2>3 DEF ExecutorStep
<1>3. ASSUME NEW batch \in Batch, ExecuteBatch(batch)
      PROVE  ExecutorStep
  <2>1. executor' = RanAll(executor, batch) /\ disk' = disk
    BY <1>3 DEF ExecuteBatch
  <2>2. Extends(executor, executor')
    BY <2>1, RanAllSound DEF ExecutorInv
  <2>3. Matches(executor', basis')
    <3>1. CASE executor'.state = executor.state
      BY <1>0, <1>3, <2>2, <3>1, MatchesGrows DEF ExecuteBatch, Extends
    <3>2. CASE executor'.state # executor.state
      BY <1>3, <3>2, NoneMatches DEF ExecuteBatch
    <3> QED
      BY <3>1, <3>2
  <2> QED
    BY <2>1, <2>2, <2>3 DEF ExecutorStep
<1>4. ASSUME NEW c \in Capsule, ApplyExecution(c)
      PROVE  ExecutorStep
  <2> DEFINE tx == RuleWitness[c]
             p == Register(object, c)
  <2>1. CASE ~MayApply(p, c)
    BY <1>1, <1>4, <2>1 DEF ApplyExecution
  <2>2. CASE MayApply(p, c)
    <3>1. /\ executor' = Ran(executor, tx) /\ disk' = disk
          /\ basis' = IF Known(executor, tx) THEN None ELSE c
      BY <1>4, <2>2 DEF ApplyExecution
    <3>2. tx \in Tx
      BY ExecutionAssumption
    <3>3. Extends(executor, executor')
      BY <3>1, <3>2, RanSound DEF ExecutorInv, Extends
    <3>4. Matches(executor', basis')
      <4>1. CASE Known(executor, tx)
        BY <3>1, <4>1, NoneMatches
      <4>2. CASE ~Known(executor, tx)
        BY <1>4, <3>1, <4>2, ApplyExecutionMatches DEF ApplyExecution, ExecutorInv
      <4> QED
        BY <4>1, <4>2
    <3> QED
      BY <3>1, <3>3, <3>4 DEF ExecutorStep
  <2> QED
    BY <2>1, <2>2
<1>5. ASSUME Persist
      PROVE  ExecutorStep
  BY <1>0, <1>5 DEF Persist, ExecutorStep
<1>6. ASSUME Restart
      PROVE  ExecutorStep
  BY <1>6 DEF Restart, ExecutorStep
<1>7. ASSUME NEW c \in Capsule, CreateCapsule(c) \/ Close(c) \/ ApplyOnly(c)
      PROVE  ExecutorStep
  BY <1>1, <1>7 DEF CreateCapsule, Close, ApplyOnly
<1>8. ASSUME UNCHANGED vars
      PROVE  ExecutorStep
  BY <1>1, <1>8 DEF vars
<1> QED
  BY <1>2, <1>3, <1>4, <1>5, <1>6, <1>7, <1>8 DEF Next

\* The invariant of the executor is inductive.
LEMMA ExecutorInvIsInductive ==
    ASSUME ExecutorInv, [Next]_vars
    PROVE  ExecutorInv'
<1>1. ExecutorStep
  BY EveryExecutorStep
<1>2. ASSUME Extends(executor, executor'), Matches(executor', basis'),
             disk' \in {disk, <<executor, basis>>}
      PROVE  ExecutorInv'
  <2>1. CASE disk' = disk
    BY <1>2, <2>1 DEF ExecutorInv, Extends
  <2>2. CASE disk' = <<executor, basis>>
    <3>1. disk'[1] = executor /\ disk'[2] = basis
      BY <2>2
    <3> QED
      BY <1>2, <3>1 DEF ExecutorInv, Extends
  <2> QED
    BY <1>2, <2>1, <2>2
<1>3. ASSUME disk # <<>>, executor' = disk[1], basis' = disk[2], disk' = disk
      PROVE  ExecutorInv'
  BY <1>3 DEF ExecutorInv
<1> QED
  BY <1>1, <1>2, <1>3 DEF ExecutorStep

\* A new executor has no receipts and the state of a genesis seal.
LEMMA InitExecutorInv == Init => ExecutorInv
<1> SUFFICES ASSUME Init PROVE ExecutorInv
  OBVIOUS
<1>1. PICK g \in Resource :
          /\ executor = [state |-> Genesis[g], nonces |-> [u \in Callers |-> 0], receipts |-> {}]
          /\ basis = g
  BY DEF Init
<1>2. /\ executor.state = Genesis[g] /\ executor.receipts = {}
      /\ executor.nonces = [u \in Callers |-> 0]
  BY <1>1
<1>3. SuccessesOf(executor) = {} /\ Cardinality(SuccessesOf(executor)) = 0
  BY <1>2, FS_EmptySet DEF SuccessesOf
<1>4. Shaped(executor)
  BY <1>2, ExecutionAssumption, FS_EmptySet DEF Shaped
<1>5. OneReceipt(executor)
  BY <1>2 DEF OneReceipt
<1>6. Counted(executor)
  BY <1>2, <1>3 DEF Counted, NoncesOf, Mine
<1>7. Chained(executor, 0, <<>>)
  BY <1>2, <1>3 DEF Chained
<1>8. Sound(executor)
  BY <1>3, <1>4, <1>5, <1>6, <1>7 DEF Sound
<1>9. Matches(executor, basis)
  BY <1>1, <1>2, CapsuleAssumption DEF Matches, RootOf, Seal
<1>10. disk = <<>>
  BY DEF Init
<1> QED
  BY <1>8, <1>9, <1>10 DEF ExecutorInv

\* The executor and its row are sound and match their seals at all times.
THEOREM ExecutorStaysSound == Spec => []ExecutorInv
<1>1. ExecutorInv /\ [Next]_vars => ExecutorInv'
  BY ExecutorInvIsInductive
<1> QED
  BY <1>1, InitExecutorInv, PTL DEF Spec

\* Nonces of successes are 0, 1, 2 ... per caller across single runs, batches
\* that are put back, capsules and restarts from an older row (execute,
\* execute_batch, from_store), for all transactions and batches.
THEOREM NoncesAreExact == Spec => []NoncesCountSuccesses
<1>1. ExecutorInv => NoncesCountSuccesses
  <2> SUFFICES ASSUME ExecutorInv PROVE NoncesCountSuccesses
    OBVIOUS
  <2>1. Counted(executor)
    BY DEF ExecutorInv, Sound
  <2> QED
    BY <2>1 DEF Counted, NoncesOf, Mine, SuccessesOf, NoncesCountSuccesses, Successes
<1> QED
  BY <1>1, ExecutorStaysSound, PTL

\* The successful receipts lead from a genesis root to the present state.
THEOREM ReceiptsAccountForState == Spec => []ReceiptsFormAChain
<1>1. ExecutorInv => ReceiptsFormAChain
  <2> SUFFICES ASSUME ExecutorInv PROVE ReceiptsFormAChain
    OBVIOUS
  <2> DEFINE n == Cardinality(Successes)
  <2>0. SuccessesOf(executor) = Successes
    BY DEF SuccessesOf, Successes
  <2>1. PICK order : Chained(executor, n, order)
    BY <2>0 DEF ExecutorInv, Sound
  <2> HIDE DEF n
  <2>2. /\ order \in [1 .. n -> Successes]
        /\ \A r \in Successes : \E k \in 1 .. n : order[k] = r
        /\ \A k \in 1 .. n - 1 : order[k].post = order[k + 1].pre
        /\ IF n = 0 THEN \E g \in Resource : executor.state = Genesis[g]
           ELSE /\ \E g \in Resource : order[1].pre = Genesis[g]
                /\ order[n].post = executor.state
    BY <2>0, <2>1 DEF Chained
  <2> QED
    BY <2>2 DEF ReceiptsFormAChain, n
<1> QED
  BY <1>1, ExecutorStaysSound, PTL

\* apply_execution keeps the executor in step with the seals, also when apply
\* raises after the transaction has run and after restarts.
THEOREM ExecutorFollowsSeals == Spec => []ExecutorMatchesSeal
<1>1. ExecutorInv => ExecutorMatchesSeal
  BY DEF ExecutorInv, Matches, ExecutorMatchesSeal, SuccessesOf, Successes
<1> QED
  BY <1>1, ExecutorStaysSound, PTL

\* Only a restart from an older row drops or replaces a receipt.
THEOREM ReceiptsStay == Spec => ReceiptsAreFinal
<1> DEFINE Final == executor.receipts \subseteq executor'.receipts
                      \/ (disk # <<>> /\ executor' = disk[1])
<1>1. ExecutorInv /\ [Next]_vars => Final
  <2> SUFFICES ASSUME ExecutorInv, [Next]_vars PROVE Final
    OBVIOUS
  <2>1. ExecutorStep
    BY EveryExecutorStep
  <2> QED
    BY <2>1 DEF ExecutorStep, Extends
<1>2. ExecutorInv /\ [Next]_vars => [Final]_vars
  BY <1>1
<1>3. Spec => [][Final]_vars
  BY <1>2, ExecutorStaysSound, PTL DEF Spec
<1> QED
  BY <1>3 DEF ReceiptsAreFinal

-----------------------------------------------------------------------------
(***************************************************************************)
(* The protocol object of an execution takes only steps of LocalProtocol:  *)
(* apply_execution is, to it, an apply, also when the executor is put      *)
(* back.  With no bundles, all that LocalProtocolProofs shows of a         *)
(* protocol object holds of this one.                                      *)
(***************************************************************************)

\* apply_execution calls the same methods as apply.
LEMMA SameMethods ==
    ASSUME NEW p, NEW c, NEW signed
    PROVE  /\ Protocol0!VerifyClosure(p, c, Member, signed) <=> VerifyClosure(p, c, Member, signed)
           /\ Protocol0!NoEvidence(p, Pred[c]) <=> NoEvidence(p, Pred[c])
           /\ Protocol0!Register(p, c) = Register(p, c)
           /\ Protocol0!MayApply(p, c) <=> MayApply(p, c)
           /\ Protocol0!Apply(p, c) = Apply(p, c)
<1>1. Protocol0!VerifyClosure(p, c, Member, signed) <=> VerifyClosure(p, c, Member, signed)
  <2>1. Protocol0!Units(Member) = Units(Member)
    BY DEF Protocol0!Units, Units
  <2>2. Protocol0!WeightOf(Member) = WeightOf(Member)
    <3>1. Protocol0!Cardinality(Units(Member)) = Cardinality(Units(Member))
      BY DEF Protocol0!Cardinality, Cardinality
    <3> QED
      BY <2>1, <3>1 DEF Protocol0!WeightOf, WeightOf
  <2>3. Protocol0!Threshold = Threshold
    BY <2>2 DEF Protocol0!Threshold, Threshold, Protocol0!TotalWeight, TotalWeight
  <2>4. Protocol0!IsQuorum(Member) <=> IsQuorum(Member)
    BY <2>2, <2>3 DEF Protocol0!IsQuorum, IsQuorum
  <2>5. \A w : Protocol0!ReceiptOf(c, w, "ACCEPT") = ReceiptOf(c, w, "ACCEPT")
    BY DEF Protocol0!ReceiptOf, ReceiptOf
  <2> QED
    BY <2>4, <2>5 DEF Protocol0!VerifyClosure, VerifyClosure
<1>2. /\ Protocol0!NoEvidence(p, Pred[c]) <=> NoEvidence(p, Pred[c])
      /\ Protocol0!MayApply(p, c) <=> MayApply(p, c)
  BY DEF Protocol0!NoEvidence, NoEvidence, Protocol0!MayApply, MayApply
<1>3. /\ Protocol0!Register(p, c) = Register(p, c)
      /\ Protocol0!Apply(p, c) = Apply(p, c)
  BY DEF Protocol0!Register, Register, Protocol0!Apply, Apply
<1> QED
  BY <1>1, <1>2, <1>3

\* Every step is one of LocalProtocol or leaves the protocol object alone.
LEMMA EveryProtocolStep ==
    ASSUME [Next]_vars
    PROVE  [Protocol0!Next]_Protocol0!vars
<1>1. ASSUME NEW c \in Capsule, ApplyExecution(c)
      PROVE  Protocol0!ApplyClosure(c, Member)
  <2>1. /\ VerifyClosure(object, c, Member, issued)
        /\ c \in object.closures \/ NoEvidence(object, Pred[c])
        /\ object' = IF MayApply(Register(object, c), c) THEN Apply(Register(object, c), c)
                     ELSE Register(object, c)
        /\ UNCHANGED issued
    BY <1>1 DEF ApplyExecution, ExecutesFor
  <2> QED
    BY <2>1, SameMethods DEF Protocol0!ApplyClosure
<1>2. ASSUME NEW c \in Capsule,
             \/ CreateCapsule(c) \/ Close(c) \/ ApplyOnly(c) \/ ApplyExecution(c)
      PROVE  Protocol0!Next
  <2>1. Member \in SUBSET Member
    OBVIOUS
  <2> QED
    BY <1>1, <1>2, <2>1 DEF CreateCapsule, Close, ApplyOnly, Protocol0!Next
<1>3. ASSUME \/ \E tx \in Tx : Execute(tx)
             \/ \E batch \in Batch : ExecuteBatch(batch)
             \/ Persist \/ Restart \/ UNCHANGED vars
      PROVE  UNCHANGED Protocol0!vars
  BY <1>3 DEF Execute, ExecuteBatch, Persist, Restart, vars, Protocol0!vars
<1> QED
  BY <1>2, <1>3 DEF Next

\* apply_execution, execute, execute_batch and restarts of the executor do
\* nothing to the protocol object that its own methods would not do.
THEOREM ExecutionImplementsLocalProtocol == Spec => Protocol0!Spec
<1>1. Init => Protocol0!Init
  BY DEF Init
<1>2. [Next]_vars => [Protocol0!Next]_Protocol0!vars
  BY EveryProtocolStep
<1> QED
  BY <1>1, <1>2, PTL DEF Spec, Protocol0!Spec

-----------------------------------------------------------------------------
(* Types *)

\* The methods that an execution calls keep the type of the protocol object.
LEMMA MethodTypes ==
    ASSUME NEW p \in Protocol, NEW c \in Capsule
    PROVE  /\ Protocol0!AddCapsule(p, c) \in Protocol
           /\ Protocol0!AfterWitness(p, c, "ACCEPT") \in Protocol
           /\ Register(p, c) \in Protocol
           /\ Apply(p, c) \in Protocol
<1> c \in Seal /\ Pred[c] \in Seal /\ ResourceOf[c] \in Resource
  BY CapsuleAssumption, SealAssumption DEF Seal
<1>1. Protocol0!AddCapsule(p, c) \in Protocol /\ Register(p, c) \in Protocol
  BY DEF Protocol0!AddCapsule, Register, Protocol
<1>2. Apply(p, c) \in Protocol
  BY DEF Apply, Protocol
<1>3. LockOf(c, "ACCEPT") \in Lock
  BY DEF Lock, Status
<1>4. TakeLock(p, c, "ACCEPT") \in Protocol
  BY <1>3 DEF TakeLock, Protocol
<1>5. ASSUME Conflicts(p, c, "ACCEPT")
      PROVE  RecordConflict(p, c) \in Protocol
  <2>1. {LockOn(p, c).capsule, c} \in SUBSET Capsule
    BY <1>5 DEF Conflicts, Protocol
  <2> QED
    BY <2>1 DEF RecordConflict, Protocol
<1>6. AfterWitness(p, c, "ACCEPT") \in Protocol
  BY <1>4, <1>5 DEF AfterWitness
<1>7. Protocol0!AfterWitness(p, c, "ACCEPT") = AfterWitness(p, c, "ACCEPT")
  BY DEF Protocol0!AfterWitness, AfterWitness, Protocol0!Signs, Signs,
         Protocol0!SignsAccept, SignsAccept, Protocol0!SignsAbandon,
         SignsAbandon, Protocol0!Validates, Validates, Protocol0!IsCurrent,
         IsCurrent, Protocol0!LockOn, LockOn, Protocol0!NoLock, NoLock,
         Protocol0!Released, Released, Protocol0!TakeLock, TakeLock,
         Protocol0!LockOf, LockOf, Protocol0!Conflicts, Conflicts,
         Protocol0!RecordConflict, RecordConflict
<1> QED
  BY <1>1, <1>2, <1>6, <1>7

\* The protocol object keeps its type.
LEMMA ObjectStep ==
    ASSUME object \in Protocol, [Next]_vars
    PROVE  object' \in Protocol
<1> DEFINE Applied(c) == IF MayApply(Register(object, c), c)
                         THEN Apply(Register(object, c), c) ELSE Register(object, c)
<1>1. ASSUME NEW c \in Capsule, ApplyOnly(c) \/ ApplyExecution(c)
      PROVE  object' \in Protocol
  <2>1. object' = Applied(c)
    BY <1>1, SameMethods DEF ApplyOnly, ApplyExecution, Protocol0!ApplyClosure
  <2>2. Register(object, c) \in Protocol
    BY MethodTypes
  <2>3. Apply(Register(object, c), c) \in Protocol
    BY <2>2, MethodTypes
  <2> QED
    BY <2>1, <2>2, <2>3
<1>2. ASSUME NEW c \in Capsule, CreateCapsule(c)
      PROVE  object' \in Protocol
  BY <1>2, MethodTypes DEF CreateCapsule, Protocol0!CreateCapsule
<1>3. ASSUME NEW c \in Capsule, Close(c)
      PROVE  object' \in Protocol
  <2> DEFINE q == Protocol0!AfterWitness(object, c, "ACCEPT")
  <2>1. q \in Protocol
    BY MethodTypes
  <2>2. object' \in {q, Protocol0!Register(q, c)}
    BY <1>3 DEF Close, Protocol0!Close
  <2> HIDE DEF q
  <2>3. Protocol0!Register(q, c) = Register(q, c) /\ Register(q, c) \in Protocol
    BY <2>1, SameMethods, MethodTypes
  <2> QED
    BY <2>1, <2>2, <2>3
<1>4. ASSUME \/ \E tx \in Tx : Execute(tx)
             \/ \E batch \in Batch : ExecuteBatch(batch)
             \/ Persist \/ Restart \/ UNCHANGED vars
      PROVE  object' \in Protocol
  BY <1>4 DEF Execute, ExecuteBatch, Persist, Restart, vars
<1> QED
  BY <1>1, <1>2, <1>3, <1>4 DEF Next

\* The executor, its row and the protocol object have their types at all times,
\* and a transaction has one receipt at most (execute).
THEOREM OneReceiptPerTransaction == Spec => []TypeOK
<1>1. Init => object \in Protocol
  <2>1. [s \in Seal |-> NoLock] \in [Seal -> Lock]
    BY DEF Lock
  <2>2. InitialProtocol \in Protocol
    BY <2>1 DEF InitialProtocol, Protocol, Seal
  <2>3. Protocol0!InitialProtocol = InitialProtocol
    BY DEF Protocol0!InitialProtocol, InitialProtocol, Protocol0!Seal, Seal,
         Protocol0!NoLock, NoLock
  <2> QED
    BY <2>2, <2>3 DEF Init, Protocol0!Init
<1>2. object \in Protocol /\ [Next]_vars => (object \in Protocol)'
  BY ObjectStep
<1>3. Spec => [](object \in Protocol)
  BY <1>1, <1>2, PTL DEF Spec
<1>4. object \in Protocol /\ ExecutorInv => TypeOK
  BY DEF ExecutorInv, Sound, Shaped, OneReceipt, Matches, TypeOK
<1> QED
  BY <1>3, <1>4, ExecutorStaysSound, PTL

=============================================================================
