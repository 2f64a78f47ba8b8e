----------------------------- MODULE MosaicNode -----------------------------
(***************************************************************************)
(* The validators of mosaic/network.py: gossip of capsules, receipts and   *)
(* closures between nodes that each hold a protocol object, a receipt pool *)
(* and a durable store, with client submissions, timeouts, crashes and     *)
(* restarts.                                                               *)
(*                                                                         *)
(* A coroutine runs without interruption between two awaits, so what a     *)
(* handler does up to an await is one action.  What remains to be done     *)
(* after the await is a task of the node (field tasks).                    *)
(***************************************************************************)
EXTENDS MosaicProtocol

CONSTANTS
    Faulty,         \* members that do not follow the protocol
    Unstable,       \* honest members that may crash and restart
    Stray,          \* messages that no honest node sent
    SubmittedAt,    \* the pairs <<n, c>> such that clients may submit c to n
    MaxPending,     \* max_pending_capsules
    Redelivery      \* TRUE: a message may be delivered again, the replay
                    \* guard's entry having expired; FALSE: at most once

Node == Member \ Faulty

CapsuleMsg == [type : {"CAPSULE"}, capsule : Capsule]
ReceiptMsg == [type : {"RECEIPT"}, receipt : Receipt]
ClosureMsg == [type : {"CLOSURE"}, capsule : Capsule, signers : SUBSET Member]
Message == CapsuleMsg \cup ReceiptMsg \cup ClosureMsg

(***************************************************************************)
(* Clients and faulty members may send anything, but signatures cannot be  *)
(* forged: a stray receipt that verifies was signed by a faulty member.    *)
(***************************************************************************)
ASSUME FaultAssumption ==
    /\ Faulty \subseteq Member
    /\ Unstable \subseteq Member \ Faulty
    /\ Stray \subseteq Message
    /\ \A m \in Stray : m.type = "RECEIPT" /\ m.receipt.valid
                            => m.receipt.witness \in Faulty
    /\ SubmittedAt \subseteq (Member \ Faulty) \X Capsule
    /\ MaxPending \in Nat
    /\ Redelivery \in BOOLEAN

VARIABLES
    node,       \* node[n]: the memory of node n
    disk,       \* disk[n]: what the store of node n holds
    msgs,       \* the messages sent so far
    delivered,  \* delivered[n]: what the replay guard of n rejects
    replies     \* the successful answers to clients

vars == <<node, disk, msgs, delivered, replies>>

Task == [capsule : Capsule, todo : SUBSET Capsule]

NodeState == [protocol : Protocol, pool : SUBSET Receipt, history : SUBSET Receipt,
              seen : SUBSET Capsule, waiting : SUBSET Capsule,
              pending : SUBSET Capsule, tasks : SUBSET Task]

Disk == [capsules : SUBSET Capsule, receipts : SUBSET Receipt,
         closures : SUBSET Capsule, known : SUBSET Seal,
         current : [Resource -> Seal]]

Reply == [node : Node, capsule : Capsule, seal : Seal]

-----------------------------------------------------------------------------
CapsuleMessage(c) == [type |-> "CAPSULE", capsule |-> c]
ReceiptMessage(r) == [type |-> "RECEIPT", receipt |-> r]
ClosureMessage(c, S) == [type |-> "CLOSURE", capsule |-> c, signers |-> S]

\* The receipts whose signatures exist: honest nodes send what they sign.
Issued == {r \in Receipt : r.valid /\ ReceiptMessage(r) \in msgs}

Deliverable(n, m) == m \in msgs \ delivered[n]

\* ReplayGuard.accept, for a message that reaches node n.
Deliver(n, m) ==
    delivered' = IF Redelivery THEN delivered
                 ELSE [delivered EXCEPT ![n] = @ \cup {m}]

\* _broadcast: to the peers, which may have to wait for it or never get it,
\* and to the node itself, bypassing its replay guard.
Broadcast(ms) == msgs' = msgs \cup ms

\* _finish_pending: answer the client that waits for c with the seal that is
\* current now.
Finish(n, s, c) ==
    /\ node' = [node EXCEPT ![n] = [s EXCEPT !.pending = @ \ {c}]]
    /\ replies' = IF c \in s.pending
                  THEN replies \cup {[node |-> n, capsule |-> c,
                                      seal |-> s.protocol.current[ResourceOf[c]]]}
                  ELSE replies

-----------------------------------------------------------------------------
(* The store *)

PersistCapsule(d, c) == [d EXCEPT !.capsules = @ \cup {c}]

PersistReceipt(d, r) == [d EXCEPT !.receipts = @ \cup {r}]

\* Mutant: the successor seal is not written.
PersistClosureUnsealed(d, c, k) ==
    [d EXCEPT !.closures = IF k >= 1 THEN @ \cup {c} ELSE @]

(***************************************************************************)
(* _persist_closure is four separate transactions (and a snapshot that is  *)
(* never read back); k of them have been committed.                        *)
(***************************************************************************)
PersistClosure(d, c, k) ==
    [d EXCEPT !.closures = IF k >= 1 THEN @ \cup {c} ELSE @,
              !.known = @ \cup (IF k >= 2 THEN {Pred[c]} ELSE {})
                          \cup (IF k >= 3 THEN {c} ELSE {}),
              !.current[ResourceOf[c]] = IF k >= 4 THEN c ELSE @]

-----------------------------------------------------------------------------
(* Submissions *)

\* A client's SUBMIT that gets past the first two checks.
MaySubmit(n, c) ==
    /\ <<n, c>> \in SubmittedAt
    /\ Cardinality(node[n].pending) < MaxPending
    /\ c \notin node[n].pending

\* SUBMIT of a capsule that is closed here is answered at once, without
\* looking whether the closure has been applied.
SubmitClosed(n, c) ==
    /\ MaySubmit(n, c)
    /\ c \in node[n].protocol.closures
    /\ Pred[c] \in node[n].protocol.known
    /\ replies' = replies \cup {[node |-> n, capsule |-> c,
                       seal |-> node[n].protocol.current[ResourceOf[c]]]}
    /\ UNCHANGED <<node, disk, msgs, delivered>>

\* Any other SUBMIT: the capsule is stored before it is validated.
Submit(n, c) ==
    LET s == [node[n] EXCEPT !.protocol = AddCapsule(@, c)]
        ok == Validates(s.protocol, c)
    IN  /\ MaySubmit(n, c)
        /\ c \notin node[n].protocol.closures
        /\ node' = [node EXCEPT ![n] =
                      [s EXCEPT !.pending = IF ok THEN @ \cup {c} ELSE @]]
        /\ disk' = [disk EXCEPT ![n] = PersistCapsule(@, c)]
        /\ IF ok
           THEN /\ Broadcast({CapsuleMessage(c)})
                /\ delivered' = [delivered EXCEPT ![n] = @ \ {CapsuleMessage(c)}]
           ELSE UNCHANGED <<msgs, delivered>>
        /\ UNCHANGED replies

\* The client has waited submit_timeout seconds.
SubmitTimeout(n, c) ==
    /\ c \in node[n].pending
    /\ node' = [node EXCEPT ![n].pending = @ \ {c}]
    /\ UNCHANGED <<disk, msgs, delivered, replies>>

-----------------------------------------------------------------------------
(* Witnessing a capsule *)

\* Mutant: a capsule whose predecessor is unknown is dropped.
OnCapsuleDropping(s, c) ==
    IF c \in s.seen /\ c \in s.protocol.closures THEN s
    ELSE [s EXCEPT !.protocol = AfterWitness(AddCapsule(@, c), c, "ACCEPT"),
                   !.seen = @ \cup {c}]

\* The node's memory after _on_capsule(c) up to its broadcast.
OnCapsule(s, c) ==
    LET p == AddCapsule(s.protocol, c)
    IN  IF c \in s.seen /\ c \in p.closures THEN s
        ELSE [s EXCEPT !.protocol = AfterWitness(p, c, "ACCEPT"),
                       !.seen = @ \cup {c},
                       !.waiting = IF /\ c \notin s.seen
                                      /\ ~Signs(p, c, "ACCEPT")
                                      /\ ~Conflicts(p, c, "ACCEPT")
                                   THEN @ \cup {c} ELSE @]

\* The receipt that _on_capsule broadcasts, if it signs one.
ReceiptsFor(n, s, c) ==
    IF /\ ~(c \in s.seen /\ c \in s.protocol.closures)
       /\ SignsAccept(AddCapsule(s.protocol, c), c)
    THEN {ReceiptMessage(ReceiptOf(c, n, "ACCEPT"))}
    ELSE {}

ReceiveCapsule(n, c) ==
    /\ Deliverable(n, CapsuleMessage(c))
    /\ Deliver(n, CapsuleMessage(c))
    /\ node' = [node EXCEPT ![n] = OnCapsule(@, c)]
    /\ disk' = [disk EXCEPT ![n] = PersistCapsule(@, c)]
    /\ Broadcast(ReceiptsFor(n, node[n], c))
    /\ UNCHANGED replies

-----------------------------------------------------------------------------
(* Collecting receipts *)

SameSlot(r, q) == r.capsule = q.capsule /\ r.witness = q.witness

\* The pool keeps one receipt per capsule and witness: the last one, which
\* replaces an earlier one before it has been verified.
PutReceipt(s, r) ==
    [s EXCEPT !.pool = {q \in @ : ~SameSlot(q, r)} \cup {r},
              !.history = @ \cup {r}]

\* Mutant: receipts are pooled by the seal that is consumed.
AcceptingRivals(s, c) ==
    {r.witness : r \in {q \in s.pool : Pred[q.capsule] = Pred[c] /\ q.valid}}

\* The witnesses whose receipts in the pool count towards closing c.
Accepting(s, c) ==
    {r.witness : r \in {q \in s.pool : /\ q.capsule = c /\ q.valid
                                       /\ q.status = "ACCEPT"}}

\* _try_close registers a closure of c.
Closes(s, c) ==
    /\ c \in s.protocol.capsules \ s.protocol.closures
    /\ IsQuorum(Accepting(s, c))
    /\ MayRegister(s.protocol, c)

Registered(s, c) == [s EXCEPT !.protocol = Register(@, c)]

Applied(s, c) == [s EXCEPT !.protocol = Apply(Register(@, c), c)]

TakeReceipt(n, r) ==
    /\ ReceiptMessage(r) \in msgs
    /\ r \notin node[n].history

\* The receipt does not lead to a closure.
RecordReceipt(n, r) ==
    LET s == PutReceipt(node[n], r)
        verified == r.valid /\ r.capsule \in s.protocol.capsules
    IN  /\ TakeReceipt(n, r)
        /\ ~verified \/ (r.capsule \notin s.protocol.closures /\ ~Closes(s, r.capsule))
        /\ node' = [node EXCEPT ![n] = s]
        /\ disk' = [disk EXCEPT ![n] = PersistReceipt(@, r)]
        /\ UNCHANGED <<msgs, delivered, replies>>

\* The capsule is closed already: a client that waits for it is answered.
ReceiptOfClosed(n, r) ==
    /\ TakeReceipt(n, r)
    /\ r.valid
    /\ r.capsule \in node[n].protocol.closures
    /\ Finish(n, PutReceipt(node[n], r), r.capsule)
    /\ disk' = [disk EXCEPT ![n] = PersistReceipt(@, r)]
    /\ UNCHANGED <<msgs, delivered>>

\* The closure is registered, but apply raises.
CloseUnapplied(n, r) ==
    LET s == PutReceipt(node[n], r)
    IN  /\ TakeReceipt(n, r)
        /\ r.valid
        /\ Closes(s, r.capsule)
        /\ ~MayApply(s.protocol, r.capsule)
        /\ node' = [node EXCEPT ![n] = Registered(s, r.capsule)]
        /\ disk' = [disk EXCEPT ![n] = PersistReceipt(@, r)]
        /\ UNCHANGED <<msgs, delivered, replies>>

\* The receipt completes a quorum: register, apply, persist and broadcast;
\* the client is answered after the broadcast.
Close(n, r) ==
    LET c == r.capsule
        s == PutReceipt(node[n], r)
        m == ClosureMessage(c, Accepting(s, c))
    IN  /\ TakeReceipt(n, r)
        /\ r.valid
        /\ Closes(s, c)
        /\ MayApply(s.protocol, c)
        /\ node' = [node EXCEPT ![n] = [Applied(s, c) EXCEPT
                       !.tasks = @ \cup {[capsule |-> c, todo |-> {}]}]]
        /\ disk' = [disk EXCEPT ![n] = PersistClosure(PersistReceipt(@, r), c, 4)]
        /\ Broadcast({m})
        /\ delivered' = [delivered EXCEPT ![n] = @ \ {m}]
        /\ UNCHANGED replies

-----------------------------------------------------------------------------
(* Receiving closures *)

WithCapsule(s, c) == [s EXCEPT !.protocol = AddCapsule(@, c)]

\* _on_closure gets past register_closure.
Accepts(s, m) ==
    /\ VerifyClosure(s.protocol, m.capsule, m.signers, Issued)
    /\ MayRegister(s.protocol, m.capsule)

TakeClosure(n, m) ==
    /\ Deliverable(n, m)
    /\ Deliver(n, m)

\* The proof does not verify, there is evidence against it, or apply raises.
RejectClosure(n, m) ==
    LET c == m.capsule
        s == WithCapsule(node[n], c)
    IN  /\ TakeClosure(n, m)
        /\ ~(Accepts(s, m) /\ MayApply(s.protocol, c))
        /\ node' = [node EXCEPT ![n] = IF Accepts(s, m) THEN Registered(s, c) ELSE s]
        /\ disk' = [disk EXCEPT ![n] = PersistCapsule(@, c)]
        /\ UNCHANGED <<msgs, replies>>

\* Register, apply, persist; then the waiting capsules are retried, each with
\* a broadcast, and only then is the client answered.
ReceiveClosure(n, m) ==
    LET c == m.capsule
        s == Applied(WithCapsule(node[n], c), c)
    IN  /\ TakeClosure(n, m)
        /\ Accepts(WithCapsule(node[n], c), m)
        /\ MayApply(WithCapsule(node[n], c).protocol, c)
        /\ disk' = [disk EXCEPT ![n] = PersistClosure(PersistCapsule(@, c), c, 4)]
        /\ IF s.waiting = {}
           THEN Finish(n, s, c)
           ELSE /\ node' = [node EXCEPT ![n] = [s EXCEPT
                              !.tasks = @ \cup {[capsule |-> c, todo |-> s.waiting]}]]
                /\ UNCHANGED replies
        /\ UNCHANGED msgs

-----------------------------------------------------------------------------
(* Tasks that an await interrupted *)

DropTask(s, t) == [s EXCEPT !.tasks = @ \ {t}]

\* One iteration of _retry_pending, for capsule c of the snapshot it took.
RetryWaiting(n, t, c) ==
    LET s == [DropTask(node[n], t) EXCEPT !.tasks = @ \cup {[t EXCEPT !.todo = @ \ {c}]}]
        u == [s EXCEPT !.waiting = @ \ {c}, !.seen = @ \ {c}]
    IN  /\ t \in node[n].tasks
        /\ c \in t.todo
        /\ IF Pred[c] \in s.protocol.known /\ IsCurrent(s.protocol, Pred[c])
           THEN /\ node' = [node EXCEPT ![n] = OnCapsule(u, c)]
                /\ Broadcast(ReceiptsFor(n, u, c))
           ELSE /\ node' = [node EXCEPT ![n] = s]
                /\ UNCHANGED msgs
        /\ UNCHANGED <<disk, delivered, replies>>

FinishTask(n, t) ==
    /\ t \in node[n].tasks
    /\ t.todo = {}
    /\ Finish(n, DropTask(node[n], t), t.capsule)
    /\ UNCHANGED <<disk, msgs, delivered>>

-----------------------------------------------------------------------------
(* Crash and restart *)

\* Mutant: seal_current is not read back.
RestoredAtGenesis(d, pool) ==
    [protocol |-> [InitialProtocol EXCEPT !.known = @ \cup d.known,
                                          !.capsules = d.capsules,
                                          !.closures = d.closures],
     pool |-> pool, history |-> {}, seen |-> d.capsules, waiting |-> {},
     pending |-> {}, tasks |-> {}]

(***************************************************************************)
(* _restore: seals, capsules, receipts and closures come back from the     *)
(* store; locks, conflict evidence, the receipt history, waiting capsules  *)
(* and the clients' futures do not.  Of two receipts in one slot the store *)
(* order decides which one the pool keeps.                                 *)
(***************************************************************************)
RestoredPools(d) ==
    LET contested == {r \in d.receipts : \E q \in d.receipts \ {r} : SameSlot(q, r)}
    IN  {P \in {d.receipts \ X : X \in SUBSET contested} :
            \A r \in contested : \E q \in P : SameSlot(q, r) /\
                \A x \in P : SameSlot(x, r) => x = q}

Restored(d, pool) ==
    [protocol |-> [InitialProtocol EXCEPT !.current = d.current,
                                          !.known = @ \cup d.known,
                                          !.capsules = d.capsules,
                                          !.closures = d.closures],
     pool |-> pool, history |-> {}, seen |-> d.capsules, waiting |-> {},
     pending |-> {}, tasks |-> {}]

\* The replay guard starts empty again.
RestartFrom(n, d) ==
    /\ n \in Unstable
    /\ disk' = [disk EXCEPT ![n] = d]
    /\ \E pool \in RestoredPools(d) : node' = [node EXCEPT ![n] = Restored(d, pool)]
    /\ delivered' = [delivered EXCEPT ![n] = {}]
    /\ UNCHANGED <<msgs, replies>>

Restart(n) == RestartFrom(n, disk[n])

\* The crash hits _persist_closure after k of its transactions, in _try_close
\* or in _on_closure.
CrashInClose(n, r, k) ==
    LET s == PutReceipt(node[n], r)
    IN  /\ TakeReceipt(n, r)
        /\ r.valid
        /\ Closes(s, r.capsule)
        /\ MayApply(s.protocol, r.capsule)
        /\ RestartFrom(n, PersistClosure(PersistReceipt(disk[n], r), r.capsule, k))

CrashInClosure(n, m, k) ==
    LET s == WithCapsule(node[n], m.capsule)
    IN  /\ Deliverable(n, m)
        /\ Accepts(s, m)
        /\ MayApply(s.protocol, m.capsule)
        /\ RestartFrom(n, PersistClosure(PersistCapsule(disk[n], m.capsule), m.capsule, k))

-----------------------------------------------------------------------------
Init ==
    /\ node = [n \in Node |-> [protocol |-> InitialProtocol, pool |-> {}, history |-> {},
                               seen |-> {}, waiting |-> {}, pending |-> {}, tasks |-> {}]]
    /\ disk = [n \in Node |-> [capsules |-> {}, receipts |-> {}, closures |-> {},
                               known |-> {}, current |-> [r \in Resource |-> r]]]
    /\ msgs = Stray
    /\ delivered = [n \in Node |-> {}]
    /\ replies = {}

HandleReceipt(n, r) ==
    \/ RecordReceipt(n, r)
    \/ ReceiptOfClosed(n, r)
    \/ CloseUnapplied(n, r)
    \/ Close(n, r)

HandleClosure(n, m) == RejectClosure(n, m) \/ ReceiveClosure(n, m)

RunTask(n, t) == FinishTask(n, t) \/ \E c \in t.todo : RetryWaiting(n, t, c)

NodeStep(n) ==
    \/ \E c \in Capsule : \/ SubmitClosed(n, c)
                          \/ Submit(n, c)
                          \/ SubmitTimeout(n, c)
                          \/ ReceiveCapsule(n, c)
    \/ \E m \in msgs : \/ m.type = "RECEIPT" /\ HandleReceipt(n, m.receipt)
                       \/ m.type = "CLOSURE" /\ HandleClosure(n, m)
    \/ \E t \in node[n].tasks : RunTask(n, t)

CrashStep(n) ==
    \/ Restart(n)
    \/ \E m \in msgs, k \in 0 .. 3 :
          \/ m.type = "RECEIPT" /\ CrashInClose(n, m.receipt, k)
          \/ m.type = "CLOSURE" /\ CrashInClosure(n, m, k)

Next == \E n \in Node : NodeStep(n) \/ CrashStep(n)

Spec == Init /\ [][Next]_vars

(***************************************************************************)
(* Fairness for liveness: every message that has been sent is handled by   *)
(* every node in the end (the senders' retries succeed and the event loop  *)
(* runs every handler), and tasks resume after their broadcasts.  A node   *)
(* handles a given receipt or closure once, so one condition per node is   *)
(* enough for each of them.  Clients, timeouts and crashes owe nothing.    *)
(***************************************************************************)
Fairness ==
    \A n \in Node :
        /\ \A c \in Capsule : WF_vars(ReceiveCapsule(n, c))
        /\ WF_vars(\E m \in msgs : m.type = "RECEIPT" /\ HandleReceipt(n, m.receipt))
        /\ WF_vars(\E m \in msgs : m.type = "CLOSURE" /\ HandleClosure(n, m))
        /\ WF_vars(\E t \in node[n].tasks : RunTask(n, t))

FairSpec == Spec /\ Fairness

-----------------------------------------------------------------------------
(* Properties *)

TypeOK ==
    /\ node \in [Node -> NodeState]
    /\ disk \in [Node -> Disk]
    /\ msgs \subseteq Message
    /\ delivered \in [Node -> SUBSET Message]
    /\ replies \subseteq Reply

\* The members whose locks cannot be relied on: a faulty member signs what it
\* likes, and a member that restarts has forgotten its locks.
Forgetful == Faulty \cup Unstable

Accepted(c) == {w \in Member : ReceiptMessage(ReceiptOf(c, w, "ACCEPT")) \in msgs}

Closed == {c \in Capsule : IsQuorum(Accepted(c))}

\* First-claim non-equivocation (paper I5): whoever can rely on its memory
\* holds, for every capsule it has ever accepted, the lock it took then.
ReceiptsAreLocked ==
    \A w \in Node \ Unstable : \A c \in Capsule :
        w \in Accepted(c) => node[w].protocol.locks[Pred[c]] = LockOf(c, "ACCEPT")

\* What a node holds as a closure, in memory or in the store, was signed by a
\* quorum.
ClosuresAreClosed ==
    \A n \in Node : node[n].protocol.closures \cup disk[n].closures \subseteq Closed

\* Nodes never take ABANDON locks, and they keep receipts that were sent.
NoAbandonLocks ==
    \A n \in Node : \A s \in Seal : node[n].protocol.locks[s].status # "ABANDON"

ReceiptsWereSent ==
    \A n \in Node : \A r \in node[n].pool \cup disk[n].receipts : ReceiptMessage(r) \in msgs

(***************************************************************************)
(* Why closures exclude each other: the locks of members that can rely on  *)
(* their memory, the receipts on the way or in a pool, and the closures in *)
(* memory or in a store fit together, through late and repeated messages,  *)
(* retries and crashes.  With the types this is inductive.                 *)
(***************************************************************************)
LockDiscipline ==
    /\ NoAbandonLocks
    /\ ReceiptsWereSent
    /\ ReceiptsAreLocked
    /\ ClosuresAreClosed

(***************************************************************************)
(* Closure Exclusivity (paper I4, mosaic_specification.md S1): no two      *)
(* capsules that consume one seal are ever closed, at one node or at two,  *)
(* in memory or in the store, across all interleavings of conflicting      *)
(* submissions, late or repeated messages and crashes.                     *)
(***************************************************************************)
ClosureExclusivity ==
    \A m, n \in Node :
        \A c \in node[m].protocol.closures \cup disk[m].closures :
            \A d \in node[n].protocol.closures \cup disk[n].closures :
                Pred[c] = Pred[d] => c = d

(***************************************************************************)
(* The nodes' resources never diverge: two nodes that hold the same        *)
(* version of a resource hold the same seal.                               *)
(***************************************************************************)
SealAgreement ==
    \A m, n \in Node : \A r \in Resource :
        LET s == node[m].protocol.current[r]
            t == node[n].protocol.current[r]
        IN  Version[s] = Version[t] => s = t

(***************************************************************************)
(* A seal that a node has reported to a client as current survives every   *)
(* crash: the node that reported it knows it from then on (the store is    *)
(* written before the client is answered).                                 *)
(***************************************************************************)
RepliesAreDurable ==
    \A a \in replies : a.seal \in node[a.node].protocol.known

(***************************************************************************)
(* No application without a closure (paper I1), back to the first seal:    *)
(* whatever a node treats as known was closed, and so was every seal       *)
(* before it.                                                              *)
(***************************************************************************)
KnownSealsAreClosed ==
    \A n \in Node : \A s \in node[n].protocol.known \ Resource :
        s \in Closed /\ Pred[s] \in node[n].protocol.known

(***************************************************************************)
(* A node walks along the chain seal by seal: neither closures that        *)
(* overtake each other, nor repeated ones, nor a crash in the middle of    *)
(* _persist_closure make it skip a seal or take it back.                   *)
(***************************************************************************)
SealsAdvance ==
    [][\A n \in Node : \A r \in Resource :
          LET s == node[n].protocol.current[r]
              t == node'[n].protocol.current[r]
          IN  t # s => t \in Capsule /\ Pred[t] = s]_vars

(***************************************************************************)
(* The nodes together implement one chain of seals per resource            *)
(* (SealChain): a capsule is closed at the step that completes its quorum  *)
(* of ACCEPT signatures, and a node is at the seal that it holds as        *)
(* current.                                                                *)
(***************************************************************************)
Chains == INSTANCE SealChain WITH
            closed <- Closed,
            head <- [n \in Node |-> node[n].protocol.current]

ImplementsSealChain == Chains!Spec

(***************************************************************************)
(* Recovery handling of the paper: a capsule that reaches a node before    *)
(* its predecessor is kept and witnessed later, so when every message      *)
(* arrives in the end and nobody crashes, every capsule of a chain that a  *)
(* client submits is closed at every node, in whatever order capsules,     *)
(* receipts and closures arrive.                                           *)
(***************************************************************************)
EveryCapsuleCloses ==
    \A c \in Capsule :
        CapsuleMessage(c) \in msgs
            ~> \A n \in Node : c \in node[n].protocol.closures

=============================================================================
