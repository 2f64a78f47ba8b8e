----------------------------- MODULE Execution ------------------------------
(***************************************************************************)
(* The deterministic executor of mosaic/execution.py bound to the closure  *)
(* protocol by MosaicProtocol.apply_execution.  A caller runs transactions *)
(* one by one, in atomic batches, or for a closed capsule; seals may also  *)
(* be applied without execution; the executor is written to the durable    *)
(* store and read back at a restart.  Calls that raise and change nothing  *)
(* are left out.                                                           *)
(*                                                                         *)
(* Digests are injective: a state stands for its root, and a transaction   *)
(* for its tx_id.                                                          *)
(***************************************************************************)
EXTENDS MosaicProtocol, Integers, Sequences

CONSTANTS
    Key,              \* keys of the executor's state
    Text,             \* a value that is not an integer
    Absent,           \* no value; no instruction sets a key to it
    Tx,               \* the transactions that callers sign
    Batch,            \* sequences of transactions that callers run as one
    MaxInstructions,  \* max_instructions
    Genesis,          \* Genesis[r]: the root of the first seal of resource r
    SuccessorRoot,    \* SuccessorRoot[c]: successor_root of capsule c
    RuleWitness       \* RuleWitness[c]: rule_witness of capsule c

ASSUME ExecutionAssumption ==
    /\ MaxInstructions \in Nat
    /\ Batch \subseteq Seq(Tx)
    /\ RuleWitness \in [Capsule -> Tx]
    /\ \A r \in Resource : DOMAIN Genesis[r] = Key

VARIABLES
    object,     \* the protocol object
    issued,     \* the receipts that its members have signed
    executor,   \* the executor
    disk,       \* the row that persist writes; <<>> before the first
    basis       \* history: the seal whose transaction the executor ran last,
                \* None once it ran on its own or a cached receipt was bound

vars == <<object, issued, executor, disk, basis>>

Protocol0 == INSTANCE LocalProtocol WITH Bundle <- {}

-----------------------------------------------------------------------------
GasCost == [SET |-> 10, DELETE |-> 8, ADD_INT |-> 12]

Callers == {tx.caller : tx \in Tx}

\* The root of a seal.
RootOf(s) == IF s \in Resource THEN Genesis[s] ELSE SuccessorRoot[s]

\* ExecutionInstruction.validate, for keys and values of permitted size.
InstructionValid(i) ==
    /\ i.operation \in DOMAIN GasCost
    /\ i.operation = "ADD_INT" => i.value \notin {Text, Absent}
    /\ i.operation = "DELETE" => i.value = Absent

\* The value of the instruction's key after it has run on a staged state.
Written(staged, i) ==
    CASE i.operation = "SET" -> i.value
      [] i.operation = "DELETE" -> Absent
      [] i.operation = "ADD_INT" ->
            (IF staged[i.key] = Absent THEN 0 ELSE staged[i.key]) + i.value

Runs(staged, i) ==
    /\ InstructionValid(i)
    /\ i.operation = "ADD_INT" => staged[i.key] # Text

(***************************************************************************)
(* The loop over the instructions: the staged state and the gas used after *)
(* the first n, and whether an instruction has raised.                     *)
(***************************************************************************)
Staged(state, tx) ==
    LET after[n \in 0 .. Len(tx.instructions)] ==
            IF n = 0 THEN [state |-> state, gas |-> 0, raised |-> FALSE]
            ELSE LET before == after[n - 1]
                     i == tx.instructions[n]
                     gas == before.gas + GasCost[i.operation]
                 IN  IF before.raised \/ ~Runs(before.state, i) \/ gas > tx.gasLimit
                     THEN [before EXCEPT !.raised = TRUE]
                     ELSE [state |-> [before.state EXCEPT ![i.key] = Written(before.state, i)],
                           gas |-> gas, raised |-> FALSE]
    IN  after[Len(tx.instructions)]

\* The checks before the first instruction.
Admissible(e, tx) ==
    /\ tx.signed /\ tx.gasLimit > 0
    /\ Len(tx.instructions) \in 1 .. MaxInstructions
    /\ tx.nonce = e.nonces[tx.caller]

Succeeds(e, tx) == Admissible(e, tx) /\ ~Staged(e.state, tx).raised

\* Mutant: a failure leaves the writes that were staged before it.
ReceiptForDirty(e, tx) ==
    [tx |-> tx, pre |-> e.state, success |-> Succeeds(e, tx),
     post |-> IF Admissible(e, tx) THEN Staged(e.state, tx).state ELSE e.state]

\* The receipt of a run; a failure leaves the state as it was.
ReceiptFor(e, tx) ==
    IF Succeeds(e, tx)
    THEN [tx |-> tx, pre |-> e.state, post |-> Staged(e.state, tx).state, success |-> TRUE]
    ELSE [tx |-> tx, pre |-> e.state, post |-> e.state, success |-> FALSE]

Known(e, tx) == \E r \in e.receipts : r.tx = tx

\* Mutant: a transaction runs again, and its receipts are kept side by side.
RanAgain(e, tx) ==
    LET r == ReceiptFor(e, tx)
    IN  [state |-> r.post,
         nonces |-> IF r.success THEN [e.nonces EXCEPT ![tx.caller] = @ + 1] ELSE e.nonces,
         receipts |-> e.receipts \cup {r}]

\* Mutant: a receipt of a failure does not keep the transaction from running.
RanRetrying(e, tx) ==
    IF \E r \in e.receipts : r.tx = tx /\ r.success THEN e
    ELSE LET r == ReceiptFor(e, tx)
         IN  [state |-> r.post,
              nonces |-> IF r.success THEN [e.nonces EXCEPT ![tx.caller] = @ + 1] ELSE e.nonces,
              receipts |-> {q \in e.receipts : q.tx # tx} \cup {r}]

(***************************************************************************)
(* The executor after execute.  A transaction with a receipt is not run    *)
(* again, whether it succeeded or failed.                                  *)
(***************************************************************************)
Ran(e, tx) ==
    IF Known(e, tx) THEN e
    ELSE LET r == ReceiptFor(e, tx)
         IN  [state |-> r.post,
              nonces |-> IF r.success THEN [e.nonces EXCEPT ![tx.caller] = @ + 1] ELSE e.nonces,
              receipts |-> e.receipts \cup {r}]

ReceiptOfTx(e, tx) == CHOOSE r \in e.receipts : r.tx = tx

\* The executor after each transaction of a batch.
RanAll(e, batch) ==
    LET after[n \in 0 .. Len(batch)] == IF n = 0 THEN e ELSE Ran(after[n - 1], batch[n])
    IN  after[Len(batch)]

BatchSucceeds(e, batch) ==
    \A n \in DOMAIN batch : ReceiptOfTx(RanAll(e, batch), batch[n]).success

-----------------------------------------------------------------------------
Init ==
    /\ Protocol0!Init
    /\ \E r \in Resource :
          /\ executor = [state |-> Genesis[r], nonces |-> [u \in Callers |-> 0], receipts |-> {}]
          /\ basis = r
    /\ disk = <<>>

CreateCapsule(c) ==
    /\ Protocol0!CreateCapsule(c)
    /\ UNCHANGED <<executor, disk, basis>>

Close(c) ==
    /\ Protocol0!Close(c)
    /\ UNCHANGED <<executor, disk, basis>>

\* apply on its own, as a node does when a closure arrives.
ApplyOnly(c) ==
    /\ Protocol0!ApplyClosure(c, Member)
    /\ UNCHANGED <<executor, disk, basis>>

Execute(tx) ==
    /\ executor' = Ran(executor, tx)
    /\ basis' = IF executor'.state = executor.state THEN basis ELSE None
    /\ UNCHANGED <<object, issued, disk>>

\* Mutant: the nonces are not put back when a batch fails.
ExecuteBatchHalfReverted(batch) ==
    /\ executor' = IF BatchSucceeds(executor, batch) THEN RanAll(executor, batch)
                   ELSE [executor EXCEPT !.nonces = RanAll(executor, batch).nonces]
    /\ basis' = IF executor'.state = executor.state THEN basis ELSE None
    /\ UNCHANGED <<object, issued, disk>>

\* execute_batch; a batch with a failure leaves the executor as it was.
ExecuteBatch(batch) ==
    /\ BatchSucceeds(executor, batch)
    /\ executor' = RanAll(executor, batch)
    /\ basis' = IF executor'.state = executor.state THEN basis ELSE None
    /\ UNCHANGED <<object, issued, disk>>

\* The conditions of execute_for_capsule, before and after the transaction.
ExecutesFor(c) ==
    LET r == ReceiptOfTx(Ran(executor, RuleWitness[c]), RuleWitness[c])
    IN  /\ VerifyClosure(object, c, Member, issued)
        /\ Pred[c] \in object.known
        /\ RootOf(Pred[c]) = executor.state
        /\ SuccessorRoot[c] # RootOf(Pred[c])
        /\ r.success
        /\ r.pre = RootOf(Pred[c])
        /\ r.post = SuccessorRoot[c]

\* Mutant: the executor keeps what it did when apply raises.
ApplyExecutionKept(c) ==
    LET p == Register(object, c)
        tx == RuleWitness[c]
    IN  /\ ExecutesFor(c)
        /\ c \in object.closures \/ NoEvidence(object, Pred[c])
        /\ object' = IF MayApply(p, c) THEN Apply(p, c) ELSE p
        /\ executor' = Ran(executor, tx)
        /\ basis' = IF ~MayApply(p, c) THEN basis ELSE IF Known(executor, tx) THEN None ELSE c
        /\ UNCHANGED <<issued, disk>>

(***************************************************************************)
(* apply_execution: the transaction runs, then the seal is applied.  When  *)
(* apply raises the executor is put back, but the closure that apply has   *)
(* registered before it looked at the predecessor stays.                   *)
(***************************************************************************)
ApplyExecution(c) ==
    LET p == Register(object, c)
        tx == RuleWitness[c]
    IN  /\ ExecutesFor(c)
        /\ c \in object.closures \/ NoEvidence(object, Pred[c])
        /\ object' = IF MayApply(p, c) THEN Apply(p, c) ELSE p
        /\ executor' = IF MayApply(p, c) THEN Ran(executor, tx) ELSE executor
        /\ basis' = IF ~MayApply(p, c) THEN basis ELSE IF Known(executor, tx) THEN None ELSE c
        /\ UNCHANGED <<issued, disk>>

Persist ==
    /\ disk' = <<executor, basis>>
    /\ UNCHANGED <<object, issued, executor, basis>>

\* from_store.
Restart ==
    /\ disk # <<>>
    /\ executor' = disk[1]
    /\ basis' = disk[2]
    /\ UNCHANGED <<object, issued, disk>>

Next ==
    \/ \E c \in Capsule : \/ CreateCapsule(c)
                          \/ Close(c)
                          \/ ApplyOnly(c)
                          \/ ApplyExecution(c)
    \/ \E tx \in Tx : Execute(tx)
    \/ \E batch \in Batch : ExecuteBatch(batch)
    \/ Persist
    \/ Restart

Spec == Init /\ [][Next]_vars

-----------------------------------------------------------------------------
Successes == {r \in executor.receipts : r.success}

\* The executor, the row and the protocol object have their shapes, and a
\* transaction has one receipt at most.
TypeOK ==
    /\ object \in Protocol
    /\ executor.nonces \in [Callers -> Nat]
    /\ DOMAIN executor.state = Key
    /\ \A r, q \in executor.receipts : r.tx = q.tx => r = q
    /\ disk = <<>> \/ disk[2] \in Seal \cup {None}
    /\ basis \in Seal \cup {None}

(***************************************************************************)
(* The nonce of a caller counts the successes, and their nonces are 0, 1,  *)
(* 2 ... without a gap or a repetition: no transaction is run twice across *)
(* single runs, batches that are put back, capsules and restarts.          *)
(***************************************************************************)
NoncesCountSuccesses ==
    \A u \in Callers :
        LET mine == {r \in Successes : r.tx.caller = u}
        IN  /\ {r.tx.nonce : r \in mine} = 0 .. executor.nonces[u] - 1
            /\ \A r, q \in mine : r.tx.nonce = q.tx.nonce => r = q

(***************************************************************************)
(* The successful receipts account for the state: put in some order, each  *)
(* starts from the root that the one before it produced, the first from    *)
(* the genesis root and the last ends in the state that the executor has.  *)
(***************************************************************************)
ReceiptsFormAChain ==
    LET n == Cardinality(Successes)
    IN  \E order \in [1 .. n -> Successes] :
            /\ \A r \in Successes : \E k \in 1 .. n : order[k] = r
            /\ \A k \in 1 .. n - 1 : order[k].post = order[k + 1].pre
            /\ IF n = 0 THEN \E g \in Resource : executor.state = Genesis[g]
               ELSE /\ \E g \in Resource : order[1].pre = Genesis[g]
                    /\ order[n].post = executor.state

(***************************************************************************)
(* apply_execution keeps the executor in step with the seals: until it     *)
(* runs on its own it holds the state of the last seal that it executed    *)
(* and the receipt that leads there from the predecessor, also when        *)
(* apply raises after the transaction has run, when seals are applied      *)
(* without it, and when it restarts from an older row.  A capsule whose    *)
(* transaction has a receipt already is the exception (basis is None): the *)
(* seal advances on the cached receipt while the executor stays.           *)
(***************************************************************************)
ExecutorMatchesSeal ==
    basis # None =>
        /\ executor.state = RootOf(basis)
        /\ basis \in Capsule =>
              \E r \in Successes : /\ r.tx = RuleWitness[basis]
                                   /\ r.pre = RootOf(Pred[basis])
                                   /\ r.post = RootOf(basis)

(***************************************************************************)
(* A receipt, of a success or of a failure, is never replaced or dropped   *)
(* except by a restart from an older row: a transaction that was executed  *)
(* too early has failed for good.                                          *)
(***************************************************************************)
ReceiptsAreFinal ==
    [][executor.receipts \subseteq executor'.receipts
        \/ (disk # <<>> /\ executor' = disk[1])]_vars

=============================================================================
