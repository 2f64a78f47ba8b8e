-------------------------- MODULE MosaicNodeProofs --------------------------
(***************************************************************************)
(* Type correctness, Closure Exclusivity and the seal chain of MosaicNode, *)
(* for any number of members, capsules and resources, any weights and any  *)
(* messages that clients and faulty members may send.                      *)
(***************************************************************************)
EXTENDS MosaicNode, WeightedQuorumProofs

-----------------------------------------------------------------------------
(* The protocol object *)

\* The seal that a capsule consumes and the resources it belongs to.
LEMMA CapsuleTypes ==
    ASSUME NEW c \in Capsule
    PROVE  /\ c \in Seal /\ c # None
           /\ Pred[c] \in Seal
           /\ ResourceOf[c] \in Resource /\ ResourceOf[Pred[c]] \in Resource
BY CapsuleAssumption, SealAssumption DEF Seal

\* The methods of the protocol object keep its type.
LEMMA ProtocolTypes ==
    ASSUME NEW p \in Protocol, NEW c \in Capsule
    PROVE  /\ AddCapsule(p, c) \in Protocol
           /\ AfterWitness(p, c, "ACCEPT") \in Protocol
           /\ Register(p, c) \in Protocol
           /\ Apply(p, c) \in Protocol
<1> USE CapsuleTypes
<1>1. AddCapsule(p, c) \in Protocol /\ Register(p, c) \in Protocol
  BY DEF AddCapsule, Register, Protocol
<1>2. Apply(p, c) \in Protocol
  BY DEF Apply, Protocol
<1>3. LockOf(c, "ACCEPT") \in Lock
  BY DEF Lock, Status
<1>4. TakeLock(p, c, "ACCEPT") \in Protocol
  BY <1>3 DEF TakeLock, Protocol
<1>5. ASSUME Conflicts(p, c, "ACCEPT") PROVE RecordConflict(p, c) \in Protocol
  <2>1. {LockOn(p, c).capsule, c} \in SUBSET Capsule
    BY <1>5 DEF Conflicts, Protocol
  <2> QED
    BY <2>1 DEF RecordConflict, Protocol
<1> QED
  BY <1>1, <1>2, <1>4, <1>5 DEF AfterWitness

-----------------------------------------------------------------------------
(* The memory and the store of a node *)

\* What the handlers do to a node's memory keeps its type.
LEMMA NodeStateTypes ==
    ASSUME NEW s \in NodeState, NEW c \in Capsule
    PROVE  /\ WithCapsule(s, c) \in NodeState
           /\ Registered(s, c) \in NodeState
           /\ Applied(s, c) \in NodeState
           /\ OnCapsule(s, c) \in NodeState
           /\ [s EXCEPT !.pending = @ \ {c}] \in NodeState
           /\ [s EXCEPT !.pending = @ \cup {c}] \in NodeState
           /\ [s EXCEPT !.waiting = @ \ {c}, !.seen = @ \ {c}] \in NodeState
           /\ \A r \in Receipt : PutReceipt(s, r) \in NodeState
           /\ \A T \in SUBSET Task : [s EXCEPT !.tasks = T] \in NodeState
<1> s.protocol \in Protocol
  BY DEF NodeState
<1>1. AddCapsule(s.protocol, c) \in Protocol /\ Register(s.protocol, c) \in Protocol
  BY ProtocolTypes
<1>2. Apply(Register(s.protocol, c), c) \in Protocol
  BY <1>1, ProtocolTypes
<1>3. AfterWitness(AddCapsule(s.protocol, c), c, "ACCEPT") \in Protocol
  BY <1>1, ProtocolTypes
<1>4. /\ WithCapsule(s, c) \in NodeState
      /\ Registered(s, c) \in NodeState
      /\ Applied(s, c) \in NodeState
  BY <1>1, <1>2 DEF WithCapsule, Registered, Applied, NodeState
<1>5. OnCapsule(s, c) \in NodeState
  BY <1>3 DEF OnCapsule, NodeState
<1>6. /\ [s EXCEPT !.pending = @ \ {c}] \in NodeState
      /\ [s EXCEPT !.pending = @ \cup {c}] \in NodeState
      /\ [s EXCEPT !.waiting = @ \ {c}, !.seen = @ \ {c}] \in NodeState
      /\ \A T \in SUBSET Task : [s EXCEPT !.tasks = T] \in NodeState
  BY DEF NodeState
<1>7. \A r \in Receipt : PutReceipt(s, r) \in NodeState
  BY DEF PutReceipt, NodeState
<1> QED
  BY <1>4, <1>5, <1>6, <1>7

\* What a node writes to its store keeps the store's type.
LEMMA DiskTypes ==
    ASSUME NEW d \in Disk, NEW c \in Capsule
    PROVE  /\ PersistCapsule(d, c) \in Disk
           /\ \A r \in Receipt : PersistReceipt(d, r) \in Disk
           /\ PersistClosure(d, c, 4) \in Disk
           /\ \A k \in 0 .. 3 : PersistClosure(d, c, k) \in Disk
<1> USE CapsuleTypes
<1>1. /\ PersistCapsule(d, c) \in Disk
      /\ \A r \in Receipt : PersistReceipt(d, r) \in Disk
  BY DEF PersistCapsule, PersistReceipt, Disk
<1>2. ASSUME NEW k \in 0 .. 4 PROVE PersistClosure(d, c, k) \in Disk
  <2> DEFINE cl == IF k >= 1 THEN d.closures \cup {c} ELSE d.closures
             kn == d.known \cup (IF k >= 2 THEN {Pred[c]} ELSE {})
                           \cup (IF k >= 3 THEN {c} ELSE {})
             top == IF k >= 4 THEN c ELSE d.current[ResourceOf[c]]
  <2>1. cl \in SUBSET Capsule /\ kn \in SUBSET Seal
    BY DEF Disk
  <2>2. top \in Seal
    BY DEF Disk
  <2>3. PersistClosure(d, c, k) =
          [d EXCEPT !.closures = cl, !.known = kn, !.current[ResourceOf[c]] = top]
    BY DEF PersistClosure, Disk
  <2> HIDE DEF cl, kn, top
  <2>4. [d EXCEPT !.closures = cl, !.known = kn, !.current[ResourceOf[c]] = top] \in Disk
    BY <2>1, <2>2 DEF Disk
  <2> QED
    BY <2>3, <2>4
<1> QED
  BY <1>1, <1>2

\* A restart from a well-typed store begins with a well-typed memory.
LEMMA RestoredTypes ==
    ASSUME NEW d \in Disk, NEW pool \in RestoredPools(d)
    PROVE  Restored(d, pool) \in NodeState
<1>1. [s \in Seal |-> NoLock] \in [Seal -> Lock]
  BY DEF Lock
<1>2. [InitialProtocol EXCEPT !.current = d.current, !.known = @ \cup d.known,
                              !.capsules = d.capsules,
                              !.closures = d.closures] \in Protocol
  BY <1>1 DEF InitialProtocol, Protocol, Disk, Seal
<1>3. pool \in SUBSET Receipt
  BY DEF RestoredPools, Disk
<1> QED
  BY <1>2, <1>3 DEF Restored, NodeState, Disk

-----------------------------------------------------------------------------
(* Messages and answers *)

\* What the nodes send are messages, and a message of each type has the
\* fields that its handler reads.
LEMMA MessageTypes ==
    /\ \A c \in Capsule : CapsuleMessage(c) \in Message
    /\ \A r \in Receipt : ReceiptMessage(r) \in Message
    /\ \A c \in Capsule, S \in SUBSET Member : ClosureMessage(c, S) \in Message
    /\ \A c \in Capsule, w \in Member : ReceiptOf(c, w, "ACCEPT") \in Receipt
    /\ \A m \in Message : m.type = "RECEIPT" => m.receipt \in Receipt
    /\ \A m \in Message : m.type = "CLOSURE" => /\ m.capsule \in Capsule
                                                /\ m.signers \in SUBSET Member
<1>1. \A c \in Capsule, w \in Member : ReceiptOf(c, w, "ACCEPT") \in Receipt
  BY DEF ReceiptOf, Receipt, Status
<1>2. /\ \A c \in Capsule : CapsuleMessage(c) \in Message
      /\ \A r \in Receipt : ReceiptMessage(r) \in Message
      /\ \A c \in Capsule, S \in SUBSET Member : ClosureMessage(c, S) \in Message
  BY DEF CapsuleMessage, ReceiptMessage, ClosureMessage, Message, CapsuleMsg,
         ReceiptMsg, ClosureMsg
<1>3. \A m \in Message : m.type = "RECEIPT" => m.receipt \in Receipt
  BY DEF Message, CapsuleMsg, ReceiptMsg, ClosureMsg
<1>4. \A m \in Message : m.type = "CLOSURE" => /\ m.capsule \in Capsule
                                              /\ m.signers \in SUBSET Member
  BY DEF Message, CapsuleMsg, ReceiptMsg, ClosureMsg
<1> QED
  BY <1>1, <1>2, <1>3, <1>4

\* Answering a client keeps the types of the memories and of the answers.
LEMMA FinishTypes ==
    ASSUME TypeOK, NEW n \in Node, NEW s \in NodeState, NEW c \in Capsule, Finish(n, s, c)
    PROVE  node' \in [Node -> NodeState] /\ replies' \subseteq Reply
<1>1. [s EXCEPT !.pending = @ \ {c}] \in NodeState
  BY NodeStateTypes
<1>2. s.protocol.current[ResourceOf[c]] \in Seal
  BY CapsuleTypes DEF NodeState, Protocol
<1>3. [node |-> n, capsule |-> c, seal |-> s.protocol.current[ResourceOf[c]]] \in Reply
  BY <1>2 DEF Reply
<1> QED
  BY <1>1, <1>3 DEF Finish, TypeOK

\* A restart from a well-typed store keeps every type.
LEMMA RestartTypes ==
    ASSUME TypeOK, NEW n \in Node, NEW d \in Disk, RestartFrom(n, d)
    PROVE  TypeOK'
<1>1. PICK pool \in RestoredPools(d) : node' = [node EXCEPT ![n] = Restored(d, pool)]
  BY DEF RestartFrom
<1>2. Restored(d, pool) \in NodeState
  BY RestoredTypes
<1> QED
  BY <1>1, <1>2 DEF RestartFrom, TypeOK

-----------------------------------------------------------------------------
(* Types *)

\* Every step of a node that handles a capsule or a client keeps the types.
LEMMA CapsuleStepTypes ==
    ASSUME TypeOK, NEW n \in Node, NEW c \in Capsule,
           \/ SubmitClosed(n, c) \/ Submit(n, c)
           \/ SubmitTimeout(n, c) \/ ReceiveCapsule(n, c)
    PROVE  TypeOK'
<1> /\ node[n] \in NodeState /\ disk[n] \in Disk /\ n \in Member
  BY DEF TypeOK, Node
<1>d. PersistCapsule(disk[n], c) \in Disk
  BY DiskTypes
<1>1. CASE SubmitClosed(n, c)
  <2>1. node[n].protocol.current[ResourceOf[c]] \in Seal
    BY CapsuleTypes DEF NodeState, Protocol
  <2>2. [node |-> n, capsule |-> c,
         seal |-> node[n].protocol.current[ResourceOf[c]]] \in Reply
    BY <2>1 DEF Reply
  <2> QED
    BY <1>1, <2>2 DEF SubmitClosed, TypeOK
<1>2. CASE Submit(n, c)
  <2> DEFINE s == WithCapsule(node[n], c)
  <2>1. s \in NodeState
    BY NodeStateTypes
  <2>2. s.pending \in SUBSET Capsule
    BY <2>1 DEF NodeState
  <2>3. \E t \in NodeState : node' = [node EXCEPT ![n] = t]
    <3>1. \A P \in SUBSET Capsule : [s EXCEPT !.pending = P] \in NodeState
      BY <2>1 DEF NodeState
    <3>2. node' = [node EXCEPT ![n] = [s EXCEPT !.pending =
                      IF Validates(s.protocol, c) THEN @ \cup {c} ELSE @]]
      BY <1>2 DEF Submit, WithCapsule
    <3>3. (IF Validates(s.protocol, c) THEN s.pending \cup {c} ELSE s.pending)
             \in SUBSET Capsule
      BY <2>2
    <3> HIDE DEF s
    <3> QED
      BY <3>1, <3>2, <3>3
  <2>4. msgs' \subseteq Message /\ delivered' \in [Node -> SUBSET Message]
    BY <1>2, MessageTypes DEF Submit, Broadcast, TypeOK
  <2>5. disk' \in [Node -> Disk] /\ replies' = replies
    BY <1>2, <1>d DEF Submit, TypeOK
  <2> QED
    BY <2>3, <2>4, <2>5 DEF TypeOK
<1>3. CASE SubmitTimeout(n, c)
  BY <1>3, NodeStateTypes DEF SubmitTimeout, TypeOK
<1>4. CASE ReceiveCapsule(n, c)
  <2>1. OnCapsule(node[n], c) \in NodeState
    BY NodeStateTypes
  <2>2. ReceiptsFor(n, node[n], c) \subseteq Message
    BY MessageTypes DEF ReceiptsFor
  <2>3. delivered' \in [Node -> SUBSET Message]
    BY <1>4, MessageTypes DEF ReceiveCapsule, Deliver, TypeOK
  <2> QED
    BY <1>4, <1>d, <2>1, <2>2, <2>3 DEF ReceiveCapsule, Broadcast, TypeOK
<1> QED
  BY <1>1, <1>2, <1>3, <1>4

\* Every step that handles a receipt keeps the types.
LEMMA ReceiptStepTypes ==
    ASSUME TypeOK, NEW n \in Node, NEW r \in Receipt, HandleReceipt(n, r)
    PROVE  TypeOK'
<1> DEFINE c == r.capsule
           s == PutReceipt(node[n], r)
           d == PersistReceipt(disk[n], r)
<1> /\ node[n] \in NodeState /\ disk[n] \in Disk
  BY DEF TypeOK
<1> c \in Capsule
  BY DEF Receipt
<1>s. s \in NodeState
  BY NodeStateTypes
<1>d. d \in Disk
  BY DiskTypes
<1>1. CASE RecordReceipt(n, r)
  BY <1>1, <1>s, <1>d DEF RecordReceipt, TypeOK
<1>2. CASE ReceiptOfClosed(n, r)
  <2>1. Finish(n, s, c)
    BY <1>2 DEF ReceiptOfClosed
  <2>2. node' \in [Node -> NodeState] /\ replies' \subseteq Reply
    BY <2>1, <1>s, FinishTypes
  <2> QED
    BY <1>2, <1>d, <2>2 DEF ReceiptOfClosed, TypeOK
<1>3. CASE CloseUnapplied(n, r)
  <2>1. Registered(s, c) \in NodeState
    BY <1>s, NodeStateTypes
  <2> QED
    BY <1>3, <1>d, <2>1 DEF CloseUnapplied, TypeOK
<1>4. CASE Close(n, r)
  <2> DEFINE m == ClosureMessage(c, Accepting(s, c))
  <2>1. Applied(s, c) \in NodeState
    BY <1>s, NodeStateTypes
  <2>2. Applied(s, c).tasks \cup {[capsule |-> c, todo |-> {}]} \in SUBSET Task
    BY <2>1 DEF NodeState, Task
  <2>3. [Applied(s, c) EXCEPT !.tasks = @ \cup {[capsule |-> c, todo |-> {}]}] \in NodeState
    BY <2>1, <2>2 DEF NodeState
  <2>4. PersistClosure(d, c, 4) \in Disk
    BY <1>d, DiskTypes
  <2>5. Accepting(s, c) \in SUBSET Member
    BY <1>s DEF Accepting, NodeState, Receipt
  <2>6. m \in Message
    BY <2>5, MessageTypes
  <2> HIDE DEF m
  <2>7. msgs' \subseteq Message /\ delivered' \in [Node -> SUBSET Message]
    BY <1>4, <2>6 DEF Close, m, Broadcast, TypeOK
  <2>8. node' \in [Node -> NodeState] /\ disk' \in [Node -> Disk] /\ replies' = replies
    BY <1>4, <2>3, <2>4 DEF Close, TypeOK
  <2> QED
    BY <2>7, <2>8 DEF TypeOK
<1> QED
  BY <1>1, <1>2, <1>3, <1>4 DEF HandleReceipt

\* Every step that handles a closure keeps the types.
LEMMA ClosureStepTypes ==
    ASSUME TypeOK, NEW n \in Node, NEW m \in Message, m.type = "CLOSURE", HandleClosure(n, m)
    PROVE  TypeOK'
<1> DEFINE c == m.capsule
           s == WithCapsule(node[n], c)
           d == PersistCapsule(disk[n], c)
<1> /\ node[n] \in NodeState /\ disk[n] \in Disk
  BY DEF TypeOK
<1>c. c \in Capsule
  BY MessageTypes
<1>s. /\ s \in NodeState /\ Registered(s, c) \in NodeState /\ Applied(s, c) \in NodeState
  BY <1>c, NodeStateTypes
<1>d. d \in Disk /\ PersistClosure(d, c, 4) \in Disk
  BY <1>c, DiskTypes
<1>t. delivered' \in [Node -> SUBSET Message]
  BY DEF HandleClosure, RejectClosure, ReceiveClosure, TakeClosure, Deliver, TypeOK
<1> HIDE DEF c
<1>1. CASE RejectClosure(n, m)
  <2>1. node' = [node EXCEPT ![n] = IF Accepts(s, m) THEN Registered(s, c) ELSE s]
    BY <1>1 DEF RejectClosure, c
  <2>2. disk' = [disk EXCEPT ![n] = d] /\ UNCHANGED <<msgs, replies>>
    BY <1>1 DEF RejectClosure, c
  <2> HIDE DEF s, d
  <2> QED
    BY <2>1, <2>2, <1>s, <1>d, <1>t DEF TypeOK
<1>2. CASE ReceiveClosure(n, m)
  <2> DEFINE a == Applied(s, c)
             t == [a EXCEPT !.tasks = @ \cup {[capsule |-> c, todo |-> a.waiting]}]
  <2>1. a.tasks \cup {[capsule |-> c, todo |-> a.waiting]} \in SUBSET Task
    BY <1>s, <1>c DEF NodeState, Task
  <2>2. t \in NodeState
    BY <2>1, <1>s DEF NodeState
  <2>3. disk' = [disk EXCEPT ![n] = PersistClosure(d, c, 4)] /\ msgs' = msgs
    BY <1>2 DEF ReceiveClosure, c
  <2>4. \/ Finish(n, a, c)
        \/ node' = [node EXCEPT ![n] = t] /\ replies' = replies
    BY <1>2 DEF ReceiveClosure, c
  <2> HIDE DEF t, a, d
  <2>5. node' \in [Node -> NodeState] /\ replies' \subseteq Reply
    <3>1. CASE Finish(n, a, c)
      BY <3>1, <1>s, <1>c, FinishTypes DEF a
    <3>2. CASE node' = [node EXCEPT ![n] = t] /\ replies' = replies
      BY <3>2, <2>2 DEF TypeOK
    <3> QED
      BY <2>4, <3>1, <3>2
  <2> QED
    BY <2>3, <2>5, <1>d, <1>t DEF TypeOK
<1> QED
  BY <1>1, <1>2 DEF HandleClosure

\* Every step of a task that an await interrupted keeps the types.
LEMMA TaskStepTypes ==
    ASSUME TypeOK, NEW n \in Node, NEW t \in node[n].tasks, RunTask(n, t)
    PROVE  TypeOK'
<1> node[n] \in NodeState /\ n \in Member
  BY DEF TypeOK, Node
<1> node[n].tasks \in SUBSET Task /\ t \in Task
  BY DEF NodeState
<1>1. CASE FinishTask(n, t)
  <2>1. DropTask(node[n], t) \in NodeState
    BY DEF DropTask, NodeState
  <2>2. t.capsule \in Capsule
    BY DEF Task
  <2>3. Finish(n, DropTask(node[n], t), t.capsule)
    BY <1>1 DEF FinishTask
  <2>4. node' \in [Node -> NodeState] /\ replies' \subseteq Reply
    BY <2>1, <2>2, <2>3, FinishTypes
  <2> QED
    BY <1>1, <2>4 DEF FinishTask, TypeOK
<1>2. ASSUME NEW c \in t.todo, RetryWaiting(n, t, c)
      PROVE  TypeOK'
  <2> DEFINE s == [DropTask(node[n], t) EXCEPT
                     !.tasks = @ \cup {[t EXCEPT !.todo = @ \ {c}]}]
             u == [s EXCEPT !.waiting = @ \ {c}, !.seen = @ \ {c}]
  <2>1. c \in Capsule
    BY DEF Task
  <2>2. (node[n].tasks \ {t}) \cup {[t EXCEPT !.todo = @ \ {c}]} \in SUBSET Task
    BY DEF Task
  <2>3. s \in NodeState
    BY <2>2 DEF DropTask, NodeState
  <2>4. u \in NodeState
    BY <2>1, <2>3, NodeStateTypes
  <2>5. OnCapsule(u, c) \in NodeState
    BY <2>1, <2>4, NodeStateTypes
  <2>6. ReceiptsFor(n, u, c) \subseteq Message
    BY <2>1, MessageTypes DEF ReceiptsFor
  <2>7. \/ /\ node' = [node EXCEPT ![n] = OnCapsule(u, c)]
           /\ msgs' = msgs \cup ReceiptsFor(n, u, c)
        \/ node' = [node EXCEPT ![n] = s] /\ msgs' = msgs
    BY <1>2 DEF RetryWaiting, Broadcast
  <2>8. UNCHANGED <<disk, delivered, replies>>
    BY <1>2 DEF RetryWaiting
  <2> HIDE DEF s, u
  <2> QED
    BY <2>3, <2>5, <2>6, <2>7, <2>8 DEF TypeOK
<1> QED
  BY <1>1, <1>2 DEF RunTask

\* Every crash and restart keeps the types.
LEMMA CrashStepTypes ==
    ASSUME TypeOK, NEW n \in Node, CrashStep(n)
    PROVE  TypeOK'
<1> disk[n] \in Disk
  BY DEF TypeOK
<1>1. CASE Restart(n)
  BY <1>1, RestartTypes DEF Restart
<1>2. ASSUME NEW m \in msgs, NEW k \in 0 .. 3, m.type = "RECEIPT",
             CrashInClose(n, m.receipt, k)
      PROVE  TypeOK'
  <2> DEFINE r == m.receipt
  <2>1. r \in Receipt /\ r.capsule \in Capsule
    BY <1>2, MessageTypes DEF TypeOK, Receipt
  <2>2. PersistReceipt(disk[n], r) \in Disk
    BY <2>1, DiskTypes
  <2>3. PersistClosure(PersistReceipt(disk[n], r), r.capsule, k) \in Disk
    BY <2>1, <2>2, DiskTypes
  <2>4. RestartFrom(n, PersistClosure(PersistReceipt(disk[n], r), r.capsule, k))
    BY <1>2 DEF CrashInClose
  <2> QED
    BY <2>1, <2>3, <2>4, RestartTypes
<1>3. ASSUME NEW m \in msgs, NEW k \in 0 .. 3, m.type = "CLOSURE",
             CrashInClosure(n, m, k)
      PROVE  TypeOK'
  <2> DEFINE c == m.capsule
  <2>1. c \in Capsule
    BY <1>3, MessageTypes DEF TypeOK
  <2>2. PersistCapsule(disk[n], c) \in Disk
    BY <2>1, DiskTypes
  <2>3. PersistClosure(PersistCapsule(disk[n], c), c, k) \in Disk
    BY <2>1, <2>2, DiskTypes
  <2>4. RestartFrom(n, PersistClosure(PersistCapsule(disk[n], c), c, k))
    BY <1>3 DEF CrashInClosure
  <2> QED
    BY <2>1, <2>3, <2>4, RestartTypes
<1> QED
  BY <1>1, <1>2, <1>3 DEF CrashStep

\* Initially the types are right.
LEMMA InitTypes == Init => TypeOK
<1> SUFFICES ASSUME Init PROVE TypeOK
  OBVIOUS
<1>1. [s \in Seal |-> NoLock] \in [Seal -> Lock]
  BY DEF Lock
<1>2. InitialProtocol \in Protocol
  BY <1>1 DEF InitialProtocol, Protocol, Seal
<1>3. [protocol |-> InitialProtocol, pool |-> {}, history |-> {}, seen |-> {},
       waiting |-> {}, pending |-> {}, tasks |-> {}] \in NodeState
  BY <1>2 DEF NodeState
<1>4. [capsules |-> {}, receipts |-> {}, closures |-> {}, known |-> {},
       current |-> [r \in Resource |-> r]] \in Disk
  BY DEF Disk, Seal
<1> QED
  BY <1>3, <1>4, FaultAssumption DEF Init, TypeOK

\* Every step keeps the types.
LEMMA NextTypes == TypeOK /\ [Next]_vars => TypeOK'
<1> SUFFICES ASSUME TypeOK, [Next]_vars PROVE TypeOK'
  OBVIOUS
<1>1. CASE UNCHANGED vars
  BY <1>1 DEF vars, TypeOK
<1>2. ASSUME NEW n \in Node, NodeStep(n) PROVE TypeOK'
  <2>1. CASE \E c \in Capsule : \/ SubmitClosed(n, c) \/ Submit(n, c)
                                \/ SubmitTimeout(n, c) \/ ReceiveCapsule(n, c)
    BY <2>1, CapsuleStepTypes
  <2>2. ASSUME NEW m \in msgs, m.type = "RECEIPT", HandleReceipt(n, m.receipt)
        PROVE  TypeOK'
    BY <2>2, ReceiptStepTypes, MessageTypes DEF TypeOK
  <2>3. ASSUME NEW m \in msgs, m.type = "CLOSURE", HandleClosure(n, m)
        PROVE  TypeOK'
    BY <2>3, ClosureStepTypes DEF TypeOK
  <2>4. CASE \E t \in node[n].tasks : RunTask(n, t)
    BY <2>4, TaskStepTypes
  <2> QED
    BY <1>2, <2>1, <2>2, <2>3, <2>4 DEF NodeStep
<1>3. ASSUME NEW n \in Node, CrashStep(n) PROVE TypeOK'
  BY <1>3, CrashStepTypes
<1> QED
  BY <1>1, <1>2, <1>3 DEF Next

(***************************************************************************)
(* The handlers of mosaic/network.py keep every field of the node's        *)
(* memory, of its store and of the messages well typed, in every run.      *)
(***************************************************************************)
THEOREM TypeCorrectness == Spec => []TypeOK
<1> QED
  BY InitTypes, NextTypes, PTL DEF Spec

-----------------------------------------------------------------------------
(* Quorums of receipts *)

\* Receipts are never taken back, so what is closed stays closed.
LEMMA ClosedGrows ==
    ASSUME msgs \subseteq msgs'
    PROVE  Closed \subseteq Closed'
<1> SUFFICES ASSUME NEW c \in Closed PROVE c \in Closed'
  OBVIOUS
<1>1. Accepted(c) \in SUBSET Accepted(c)' /\ Accepted(c)' \in SUBSET Member
  BY DEF Accepted
<1>2. IsQuorum(Accepted(c))
  BY DEF Closed
<1>3. IsQuorum(Accepted(c)')
  BY <1>1, <1>2, QuorumMonotone
<1> QED
  BY <1>3 DEF Closed

\* A capsule that _try_close finds a quorum for in its pool is closed.
LEMMA PoolCloses ==
    ASSUME NEW s \in NodeState, NEW c \in Capsule, Closes(s, c),
           \A r \in s.pool : ReceiptMessage(r) \in msgs
    PROVE  c \in Closed
<1>1. ASSUME NEW q \in s.pool, q.capsule = c, q.valid, q.status = "ACCEPT"
      PROVE  q.witness \in Accepted(c)
  <2>1. q \in Receipt
    BY DEF NodeState
  <2>2. q = ReceiptOf(c, q.witness, "ACCEPT") /\ q.witness \in Member
    BY <1>1, <2>1 DEF Receipt, ReceiptOf
  <2> QED
    BY <2>2 DEF Accepted
<1>2. Accepting(s, c) \in SUBSET Accepted(c) /\ Accepted(c) \in SUBSET Member
  BY <1>1 DEF Accepting, Accepted
<1>3. IsQuorum(Accepting(s, c))
  BY DEF Closes
<1> QED
  BY <1>2, <1>3, QuorumMonotone DEF Closed

\* A capsule whose closure proof verifies is closed.
LEMMA ProofCloses ==
    ASSUME NEW p, NEW c \in Capsule, NEW S, VerifyClosure(p, c, S, Issued)
    PROVE  c \in Closed
<1>1. IsQuorum(S) /\ S \in SUBSET Member
  BY DEF VerifyClosure, IsQuorum
<1>2. S \in SUBSET Accepted(c) /\ Accepted(c) \in SUBSET Member
  BY <1>1 DEF VerifyClosure, Issued, Accepted
<1> QED
  BY <1>1, <1>2, QuorumMonotone DEF Closed

-----------------------------------------------------------------------------
(* Locks *)

\* Signing takes the lock of a capsule unless another one holds it, and
\* leaves every lock that is held already.
LEMMA WitnessLocks ==
    ASSUME NEW p \in Protocol, NEW c \in Capsule,
           \A x \in Seal : p.locks[x].status # "ABANDON"
    PROVE  LET q == AfterWitness(p, c, "ACCEPT")
           IN  /\ q.closures = p.closures
               /\ \A x \in Seal : q.locks[x].status # "ABANDON"
               /\ \A x \in Seal : p.locks[x] # NoLock => q.locks[x] = p.locks[x]
               /\ SignsAccept(p, c) => q.locks[Pred[c]] = LockOf(c, "ACCEPT")
<1> DEFINE q == AfterWitness(p, c, "ACCEPT")
<1> /\ p.locks \in [Seal -> Lock] /\ Pred[c] \in Seal /\ c # None
  BY CapsuleTypes DEF Protocol
<1>1. CASE SignsAccept(p, c)
  <2>1. q = TakeLock(p, c, "ACCEPT")
    BY <1>1 DEF AfterWitness, Signs
  <2>2. LockOn(p, c) = NoLock \/ LockOn(p, c).capsule = c
    BY <1>1 DEF SignsAccept, Released, LockOn
  <2>3. CASE LockOn(p, c).capsule = c
    <3>1. q = p
      BY <2>1, <2>3 DEF TakeLock
    <3>2. LockOn(p, c) = LockOf(c, "ACCEPT")
      BY <2>3 DEF LockOn, Lock, NoLock, LockOf, Status
    <3> QED
      BY <3>1, <3>2 DEF LockOn
  <2>4. CASE LockOn(p, c).capsule # c
    <3>1. q = [p EXCEPT !.locks[Pred[c]] = LockOf(c, "ACCEPT"), !.capsules = @ \cup {c}]
      BY <2>1, <2>4 DEF TakeLock
    <3>2. LockOn(p, c) = NoLock
      BY <2>2, <2>4
    <3>3. q.locks = [p.locks EXCEPT ![Pred[c]] = LockOf(c, "ACCEPT")] /\ q.closures = p.closures
      BY <3>1 DEF Protocol
    <3>4. LockOf(c, "ACCEPT").status # "ABANDON"
      BY DEF LockOf
    <3> QED
      BY <3>2, <3>3, <3>4 DEF LockOn
  <2> QED
    BY <2>3, <2>4
<1>2. CASE ~SignsAccept(p, c)
  <2>1. q = p \/ q = RecordConflict(p, c)
    BY <1>2 DEF AfterWitness, Signs
  <2>2. q.locks = p.locks /\ q.closures = p.closures
    BY <2>1 DEF RecordConflict, Protocol
  <2> QED
    BY <1>2, <2>2
<1> QED
  BY <1>1, <1>2

-----------------------------------------------------------------------------
(* The lock discipline *)

\* A step of node n that neither touches its locks nor sends a receipt, and
\* keeps only receipts that were sent and closures that a quorum signed.
LEMMA QuietStep ==
    ASSUME TypeOK, TypeOK', LockDiscipline, NEW n \in Node,
           NEW t, node' = [node EXCEPT ![n] = t],
           NEW e, disk' = [disk EXCEPT ![n] = e],
           msgs \subseteq msgs',
           \A r \in Receipt : ReceiptMessage(r) \in msgs' => ReceiptMessage(r) \in msgs,
           t.protocol.locks = node[n].protocol.locks,
           \A r \in t.pool \cup e.receipts : ReceiptMessage(r) \in msgs,
           t.protocol.closures \cup e.closures \subseteq Closed
    PROVE  LockDiscipline'
<1> /\ node'[n] = t /\ disk'[n] = e
    /\ \A m \in Node : m # n => node'[m] = node[m] /\ disk'[m] = disk[m]
  BY DEF TypeOK
<1> \A m \in Node : node'[m].protocol.locks = node[m].protocol.locks
  OBVIOUS
<1>1. NoAbandonLocks'
  BY DEF LockDiscipline, NoAbandonLocks
<1>2. ReceiptsWereSent'
  BY DEF LockDiscipline, ReceiptsWereSent
<1>3. ReceiptsAreLocked'
  <2> SUFFICES ASSUME NEW w \in Node \ Unstable, NEW c \in Capsule, w \in Accepted(c)'
               PROVE  node'[w].protocol.locks[Pred[c]] = LockOf(c, "ACCEPT")
    BY DEF ReceiptsAreLocked
  <2>1. w \in Accepted(c)
    BY MessageTypes DEF Accepted
  <2> QED
    BY <2>1 DEF LockDiscipline, ReceiptsAreLocked
<1>4. ClosuresAreClosed'
  BY ClosedGrows DEF LockDiscipline, ClosuresAreClosed
<1> QED
  BY <1>1, <1>2, <1>3, <1>4 DEF LockDiscipline

\* A step of node n that witnesses capsule c.
LEMMA WitnessStep ==
    ASSUME TypeOK, TypeOK', LockDiscipline, NEW n \in Node, NEW c \in Capsule,
           NEW u \in NodeState, node' = [node EXCEPT ![n] = OnCapsule(u, c)],
           NEW e, disk' = [disk EXCEPT ![n] = e],
           msgs' = msgs \cup ReceiptsFor(n, u, c),
           u.protocol.locks = node[n].protocol.locks,
           u.protocol.closures = node[n].protocol.closures,
           u.pool = node[n].pool,
           e.receipts = disk[n].receipts, e.closures = disk[n].closures
    PROVE  LockDiscipline'
<1> DEFINE p == AddCapsule(u.protocol, c)
           q == AfterWitness(p, c, "ACCEPT")
           t == OnCapsule(u, c)
<1> /\ node'[n] = t /\ disk'[n] = e
    /\ \A m \in Node : m # n => node'[m] = node[m] /\ disk'[m] = disk[m]
  BY DEF TypeOK
<1>p. /\ p \in Protocol /\ p.locks = u.protocol.locks /\ p.closures = u.protocol.closures
  BY ProtocolTypes DEF AddCapsule, NodeState, Protocol
<1>q. /\ q.closures = p.closures
      /\ \A x \in Seal : q.locks[x].status # "ABANDON"
      /\ \A x \in Seal : p.locks[x] # NoLock => q.locks[x] = p.locks[x]
      /\ SignsAccept(p, c) => q.locks[Pred[c]] = LockOf(c, "ACCEPT")
  BY <1>p, WitnessLocks DEF LockDiscipline, NoAbandonLocks
<1>t. /\ t.pool = u.pool
      /\ t.protocol \in {u.protocol, q}
      /\ ReceiptsFor(n, u, c) # {} => t.protocol = q
  BY DEF OnCapsule, ReceiptsFor, NodeState, AddCapsule
<1>r. \/ ReceiptsFor(n, u, c) = {}
      \/ /\ ReceiptsFor(n, u, c) = {ReceiptMessage(ReceiptOf(c, n, "ACCEPT"))}
         /\ SignsAccept(p, c)
  BY DEF ReceiptsFor
<1>l. /\ t.protocol.closures = node[n].protocol.closures
      /\ \A x \in Seal : t.protocol.locks[x].status # "ABANDON"
      /\ \A x \in Seal : node[n].protocol.locks[x] # NoLock
                           => t.protocol.locks[x] = node[n].protocol.locks[x]
  BY <1>p, <1>q, <1>t DEF LockDiscipline, NoAbandonLocks
<1> HIDE DEF p, q, t
<1>1. NoAbandonLocks'
  BY <1>l DEF LockDiscipline, NoAbandonLocks
<1>2. ReceiptsWereSent'
  BY <1>t DEF LockDiscipline, ReceiptsWereSent
<1>3. ReceiptsAreLocked'
  <2> SUFFICES ASSUME NEW w \in Node \ Unstable, NEW d \in Capsule, w \in Accepted(d)'
               PROVE  node'[w].protocol.locks[Pred[d]] = LockOf(d, "ACCEPT")
    BY DEF ReceiptsAreLocked
  <2>1. CASE w \in Accepted(d)
    <3>1. node[w].protocol.locks[Pred[d]] = LockOf(d, "ACCEPT")
      BY <2>1 DEF LockDiscipline, ReceiptsAreLocked
    <3>2. LockOf(d, "ACCEPT") # NoLock
      BY DEF LockOf, NoLock
    <3> QED
      BY <3>1, <3>2, <1>l, CapsuleTypes
  <2>2. CASE w \notin Accepted(d)
    <3>1. /\ ReceiptMessage(ReceiptOf(d, w, "ACCEPT")) =
                 ReceiptMessage(ReceiptOf(c, n, "ACCEPT"))
          /\ SignsAccept(p, c)
      BY <2>2, <1>r DEF Accepted
    <3>2. d = c /\ w = n
      BY <3>1 DEF ReceiptMessage, ReceiptOf
    <3>3. t.protocol = q
      BY <2>2, <1>t DEF Accepted
    <3> QED
      BY <3>1, <3>2, <3>3, <1>q
  <2> QED
    BY <2>1, <2>2
<1>4. ClosuresAreClosed'
  BY <1>l, ClosedGrows DEF LockDiscipline, ClosuresAreClosed
<1> QED
  BY <1>1, <1>2, <1>3, <1>4 DEF LockDiscipline

\* A restart of node n, whose locks nobody relies on.
LEMMA RestartStep ==
    ASSUME TypeOK, TypeOK', LockDiscipline, NEW n \in Node,
           NEW d, RestartFrom(n, d),
           \A r \in d.receipts : ReceiptMessage(r) \in msgs,
           d.closures \subseteq Closed
    PROVE  LockDiscipline'
<1> n \in Unstable /\ msgs' = msgs
  BY DEF RestartFrom
<1>1. PICK pool \in RestoredPools(d) : node' = [node EXCEPT ![n] = Restored(d, pool)]
  BY DEF RestartFrom
<1> DEFINE t == Restored(d, pool)
<1>2. /\ node'[n] = t /\ disk'[n] = d
      /\ \A m \in Node : m # n => node'[m] = node[m] /\ disk'[m] = disk[m]
  BY <1>1 DEF RestartFrom, TypeOK
<1>3. /\ t.protocol.locks = [s \in Seal |-> NoLock]
      /\ t.protocol.closures = d.closures
      /\ t.pool \subseteq d.receipts
  BY DEF Restored, InitialProtocol, RestoredPools
<1> HIDE DEF t
<1>4. NoAbandonLocks'
  BY <1>2, <1>3 DEF LockDiscipline, NoAbandonLocks, NoLock
<1>5. ReceiptsWereSent'
  BY <1>2, <1>3 DEF LockDiscipline, ReceiptsWereSent
<1>6. ReceiptsAreLocked'
  BY <1>2 DEF LockDiscipline, ReceiptsAreLocked, Accepted
<1>7. ClosuresAreClosed'
  BY <1>2, <1>3, ClosedGrows DEF LockDiscipline, ClosuresAreClosed
<1> QED
  BY <1>4, <1>5, <1>6, <1>7 DEF LockDiscipline

\* What the handlers' helpers leave alone: locks, and the pool or the closures.
LEMMA HelperFrames ==
    ASSUME NEW s \in NodeState, NEW c \in Capsule
    PROVE  /\ WithCapsule(s, c).protocol.locks = s.protocol.locks
           /\ WithCapsule(s, c).protocol.closures = s.protocol.closures
           /\ WithCapsule(s, c).pool = s.pool
           /\ Registered(s, c).protocol.locks = s.protocol.locks
           /\ Registered(s, c).protocol.closures = s.protocol.closures \cup {c}
           /\ Registered(s, c).pool = s.pool
           /\ Applied(s, c).protocol.locks = s.protocol.locks
           /\ Applied(s, c).protocol.closures = s.protocol.closures \cup {c}
           /\ Applied(s, c).pool = s.pool
           /\ \A r : /\ PutReceipt(s, r).protocol = s.protocol
                     /\ PutReceipt(s, r).pool \subseteq s.pool \cup {r}
<1>1. /\ WithCapsule(s, c).protocol.locks = s.protocol.locks
      /\ WithCapsule(s, c).protocol.closures = s.protocol.closures
      /\ WithCapsule(s, c).pool = s.pool
  BY DEF WithCapsule, AddCapsule, NodeState, Protocol
<1>2. /\ Registered(s, c).protocol.locks = s.protocol.locks
      /\ Registered(s, c).protocol.closures = s.protocol.closures \cup {c}
      /\ Registered(s, c).pool = s.pool
  BY DEF Registered, Register, NodeState, Protocol
<1>3. /\ Applied(s, c).protocol.locks = s.protocol.locks
      /\ Applied(s, c).protocol.closures = s.protocol.closures \cup {c}
      /\ Applied(s, c).pool = s.pool
  BY DEF Applied, Apply, Register, NodeState, Protocol
<1>4. \A r : /\ PutReceipt(s, r).protocol = s.protocol
             /\ PutReceipt(s, r).pool \subseteq s.pool \cup {r}
  BY DEF PutReceipt, NodeState
<1> QED
  BY <1>1, <1>2, <1>3, <1>4

\* What a store holds after a node wrote to it.
LEMMA DiskFrames ==
    ASSUME NEW d \in Disk, NEW c \in Capsule
    PROVE  /\ PersistCapsule(d, c).receipts = d.receipts
           /\ PersistCapsule(d, c).closures = d.closures
           /\ \A r : /\ PersistReceipt(d, r).receipts = d.receipts \cup {r}
                     /\ PersistReceipt(d, r).closures = d.closures
           /\ \A k : /\ PersistClosure(d, c, k).receipts = d.receipts
                     /\ PersistClosure(d, c, k).closures \subseteq d.closures \cup {c}
<1>1. /\ PersistCapsule(d, c).receipts = d.receipts
      /\ PersistCapsule(d, c).closures = d.closures
      /\ \A r : /\ PersistReceipt(d, r).receipts = d.receipts \cup {r}
                /\ PersistReceipt(d, r).closures = d.closures
  BY DEF PersistCapsule, PersistReceipt, Disk
<1>2. ASSUME NEW k
      PROVE  /\ PersistClosure(d, c, k).receipts = d.receipts
             /\ PersistClosure(d, c, k).closures \subseteq d.closures \cup {c}
  BY DEF PersistClosure, Disk
<1> QED
  BY <1>1, <1>2

\* Clients' requests and capsules.
LEMMA CapsuleStepLocks ==
    ASSUME TypeOK, TypeOK', LockDiscipline, NEW n \in Node, NEW c \in Capsule,
           \/ SubmitClosed(n, c) \/ Submit(n, c)
           \/ SubmitTimeout(n, c) \/ ReceiveCapsule(n, c)
    PROVE  LockDiscipline'
<1> /\ node[n] \in NodeState /\ disk[n] \in Disk
  BY DEF TypeOK
<1>k. /\ \A r \in node[n].pool \cup disk[n].receipts : ReceiptMessage(r) \in msgs
      /\ node[n].protocol.closures \cup disk[n].closures \subseteq Closed
  BY DEF LockDiscipline, ReceiptsWereSent, ClosuresAreClosed
<1>m. \A r : ReceiptMessage(r) # CapsuleMessage(c)
  BY DEF ReceiptMessage, CapsuleMessage
<1>1. CASE SubmitClosed(n, c)
  <2>1. /\ node' = [node EXCEPT ![n] = node[n]] /\ disk' = [disk EXCEPT ![n] = disk[n]]
        /\ msgs' = msgs
    BY <1>1 DEF SubmitClosed, TypeOK
  <2> QED
    BY <2>1, <1>k, QuietStep
<1>2. CASE Submit(n, c)
  <2> DEFINE s == WithCapsule(node[n], c)
             t == [s EXCEPT !.pending = IF Validates(s.protocol, c) THEN @ \cup {c} ELSE @]
             e == PersistCapsule(disk[n], c)
  <2>1. /\ node' = [node EXCEPT ![n] = t] /\ disk' = [disk EXCEPT ![n] = e]
    BY <1>2 DEF Submit, WithCapsule
  <2>2. msgs' = msgs \/ msgs' = msgs \cup {CapsuleMessage(c)}
    BY <1>2 DEF Submit, Broadcast
  <2>3. s \in NodeState
    BY NodeStateTypes
  <2>4. t.protocol = s.protocol /\ t.pool = s.pool
    BY <2>3 DEF NodeState
  <2>5. /\ e.receipts = disk[n].receipts /\ e.closures = disk[n].closures
    BY DiskFrames
  <2>6. /\ t.protocol.locks = node[n].protocol.locks
        /\ t.protocol.closures = node[n].protocol.closures
        /\ t.pool = node[n].pool
    BY <2>4, HelperFrames
  <2> HIDE DEF t, e
  <2> QED
    BY <2>1, <2>2, <2>5, <2>6, <1>k, <1>m, QuietStep
<1>3. CASE SubmitTimeout(n, c)
  <2> DEFINE t == [node[n] EXCEPT !.pending = @ \ {c}]
  <2>1. /\ node' = [node EXCEPT ![n] = t] /\ disk' = [disk EXCEPT ![n] = disk[n]]
        /\ msgs' = msgs
    BY <1>3 DEF SubmitTimeout, TypeOK
  <2>2. t.protocol = node[n].protocol /\ t.pool = node[n].pool
    BY DEF NodeState
  <2> HIDE DEF t
  <2> QED
    BY <2>1, <2>2, <1>k, QuietStep
<1>4. CASE ReceiveCapsule(n, c)
  <2> DEFINE e == PersistCapsule(disk[n], c)
  <2>1. /\ node' = [node EXCEPT ![n] = OnCapsule(node[n], c)]
        /\ disk' = [disk EXCEPT ![n] = e]
        /\ msgs' = msgs \cup ReceiptsFor(n, node[n], c)
    BY <1>4 DEF ReceiveCapsule, Broadcast
  <2>2. /\ e.receipts = disk[n].receipts /\ e.closures = disk[n].closures
    BY DiskFrames
  <2> HIDE DEF e
  <2> QED
    BY <2>1, <2>2, WitnessStep
<1> QED
  BY <1>1, <1>2, <1>3, <1>4

\* Receipts: a capsule is registered only with a quorum in the pool.
LEMMA ReceiptStepLocks ==
    ASSUME TypeOK, TypeOK', LockDiscipline, NEW n \in Node, NEW r \in Receipt,
           HandleReceipt(n, r)
    PROVE  LockDiscipline'
<1> DEFINE c == r.capsule
           s == PutReceipt(node[n], r)
           d == PersistReceipt(disk[n], r)
<1> /\ node[n] \in NodeState /\ disk[n] \in Disk
  BY DEF TypeOK
<1> c \in Capsule
  BY DEF Receipt
<1>s. s \in NodeState /\ d \in Disk
  BY NodeStateTypes, DiskTypes
<1>f. /\ s.protocol = node[n].protocol
      /\ \A q \in s.pool \cup d.receipts : ReceiptMessage(q) \in msgs
      /\ s.protocol.closures \cup d.closures \subseteq Closed
  <2>1. ReceiptMessage(r) \in msgs
    BY DEF HandleReceipt, RecordReceipt, ReceiptOfClosed, CloseUnapplied, Close, TakeReceipt
  <2> QED
    BY <2>1, HelperFrames, DiskFrames
    DEF LockDiscipline, ReceiptsWereSent, ClosuresAreClosed
<1>1. CASE RecordReceipt(n, r)
  <2>1. /\ node' = [node EXCEPT ![n] = s] /\ disk' = [disk EXCEPT ![n] = d] /\ msgs' = msgs
    BY <1>1 DEF RecordReceipt
  <2> HIDE DEF s, d
  <2> QED
    BY <2>1, <1>f, QuietStep
<1>2. CASE ReceiptOfClosed(n, r)
  <2> DEFINE t == [s EXCEPT !.pending = @ \ {c}]
  <2>1. /\ node' = [node EXCEPT ![n] = t] /\ disk' = [disk EXCEPT ![n] = d] /\ msgs' = msgs
    BY <1>2 DEF ReceiptOfClosed, Finish
  <2>2. t.protocol = s.protocol /\ t.pool = s.pool
    BY <1>s DEF NodeState
  <2> HIDE DEF s, d, t
  <2> QED
    BY <2>1, <2>2, <1>f, QuietStep
<1>3. CASE CloseUnapplied(n, r)
  <2> DEFINE t == Registered(s, c)
  <2>1. /\ node' = [node EXCEPT ![n] = t] /\ disk' = [disk EXCEPT ![n] = d] /\ msgs' = msgs
    BY <1>3 DEF CloseUnapplied
  <2>2. Closes(s, c)
    BY <1>3 DEF CloseUnapplied
  <2>3. c \in Closed
    BY <1>s, <1>f, <2>2, PoolCloses
  <2>4. /\ t.protocol.locks = s.protocol.locks /\ t.pool = s.pool
        /\ t.protocol.closures = s.protocol.closures \cup {c}
    BY <1>s, HelperFrames
  <2> HIDE DEF s, d, t
  <2> QED
    BY <2>1, <2>3, <2>4, <1>f, QuietStep
<1>4. CASE Close(n, r)
  <2> DEFINE a == Applied(s, c)
             t == [a EXCEPT !.tasks = @ \cup {[capsule |-> c, todo |-> {}]}]
             e == PersistClosure(d, c, 4)
             m == ClosureMessage(c, Accepting(s, c))
  <2>1. /\ node' = [node EXCEPT ![n] = t] /\ disk' = [disk EXCEPT ![n] = e]
        /\ msgs' = msgs \cup {m}
    BY <1>4 DEF Close, Broadcast
  <2>2. Closes(s, c)
    BY <1>4 DEF Close
  <2>3. c \in Closed
    BY <1>s, <1>f, <2>2, PoolCloses
  <2>4. a \in NodeState
    BY <1>s, NodeStateTypes
  <2>5. t.protocol = a.protocol /\ t.pool = a.pool
    BY <2>4 DEF NodeState
  <2>6. /\ a.protocol.locks = s.protocol.locks /\ a.pool = s.pool
        /\ a.protocol.closures = s.protocol.closures \cup {c}
    BY <1>s, HelperFrames
  <2>7. e.receipts = d.receipts /\ e.closures \subseteq d.closures \cup {c}
    BY <1>s, DiskFrames
  <2>8. \A q : ReceiptMessage(q) # m
    BY DEF ReceiptMessage, ClosureMessage
  <2> HIDE DEF s, d, a, t, e, m
  <2> QED
    BY <2>1, <2>3, <2>5, <2>6, <2>7, <2>8, <1>f, QuietStep
<1> QED
  BY <1>1, <1>2, <1>3, <1>4 DEF HandleReceipt

\* Closures: one is registered only if its proof verifies.
LEMMA ClosureStepLocks ==
    ASSUME TypeOK, TypeOK', LockDiscipline, NEW n \in Node, NEW m \in Message,
           m.type = "CLOSURE", HandleClosure(n, m)
    PROVE  LockDiscipline'
<1> DEFINE c == m.capsule
           s == WithCapsule(node[n], c)
           d == PersistCapsule(disk[n], c)
<1> /\ node[n] \in NodeState /\ disk[n] \in Disk
  BY DEF TypeOK
<1>c. c \in Capsule
  BY MessageTypes
<1>s. s \in NodeState /\ d \in Disk
  BY <1>c, NodeStateTypes, DiskTypes
<1>f. /\ s.protocol.locks = node[n].protocol.locks
      /\ \A q \in s.pool \cup d.receipts : ReceiptMessage(q) \in msgs
      /\ s.protocol.closures \cup d.closures \subseteq Closed
  BY <1>c, HelperFrames, DiskFrames DEF LockDiscipline, ReceiptsWereSent, ClosuresAreClosed
<1>a. Accepts(s, m) => c \in Closed
  BY <1>c, ProofCloses DEF Accepts
<1>1. CASE RejectClosure(n, m)
  <2> DEFINE t == IF Accepts(s, m) THEN Registered(s, c) ELSE s
  <2>1. /\ node' = [node EXCEPT ![n] = t] /\ disk' = [disk EXCEPT ![n] = d] /\ msgs' = msgs
    BY <1>1 DEF RejectClosure
  <2>2. /\ t.protocol.locks = s.protocol.locks /\ t.pool = s.pool
        /\ t.protocol.closures \subseteq s.protocol.closures \cup {c}
        /\ Accepts(s, m) \/ t = s
    BY <1>c, <1>s, HelperFrames
  <2> HIDE DEF s, d, t, c
  <2> QED
    BY <2>1, <2>2, <1>f, <1>a, QuietStep
<1>2. CASE ReceiveClosure(n, m)
  <2> DEFINE a == Applied(s, c)
             t == IF a.waiting = {}
                  THEN [a EXCEPT !.pending = @ \ {c}]
                  ELSE [a EXCEPT !.tasks = @ \cup {[capsule |-> c, todo |-> a.waiting]}]
             e == PersistClosure(d, c, 4)
  <2>1. /\ node' = [node EXCEPT ![n] = t] /\ disk' = [disk EXCEPT ![n] = e] /\ msgs' = msgs
    BY <1>2 DEF ReceiveClosure, Finish
  <2>2. c \in Closed
    BY <1>2, <1>a DEF ReceiveClosure
  <2>3. a \in NodeState
    BY <1>c, <1>s, NodeStateTypes
  <2>4. t.protocol = a.protocol /\ t.pool = a.pool
    BY <2>3 DEF NodeState
  <2>5. /\ a.protocol.locks = s.protocol.locks /\ a.pool = s.pool
        /\ a.protocol.closures = s.protocol.closures \cup {c}
    BY <1>c, <1>s, HelperFrames
  <2>6. e.receipts = d.receipts /\ e.closures \subseteq d.closures \cup {c}
    BY <1>c, <1>s, DiskFrames
  <2> HIDE DEF s, d, a, t, e, c
  <2> QED
    BY <2>1, <2>2, <2>4, <2>5, <2>6, <1>f, QuietStep
<1> QED
  BY <1>1, <1>2 DEF HandleClosure

\* Tasks: a waiting capsule is witnessed under the same rule as any other.
LEMMA TaskStepLocks ==
    ASSUME TypeOK, TypeOK', LockDiscipline, NEW n \in Node, NEW t \in node[n].tasks,
           RunTask(n, t)
    PROVE  LockDiscipline'
<1> /\ node[n] \in NodeState /\ disk[n] \in Disk
  BY DEF TypeOK
<1> node[n].tasks \in SUBSET Task /\ t \in Task
  BY DEF NodeState
<1>k. /\ \A r \in node[n].pool \cup disk[n].receipts : ReceiptMessage(r) \in msgs
      /\ node[n].protocol.closures \cup disk[n].closures \subseteq Closed
  BY DEF LockDiscipline, ReceiptsWereSent, ClosuresAreClosed
<1>1. CASE FinishTask(n, t)
  <2> DEFINE u == [DropTask(node[n], t) EXCEPT !.pending = @ \ {t.capsule}]
  <2>1. /\ node' = [node EXCEPT ![n] = u] /\ disk' = [disk EXCEPT ![n] = disk[n]]
        /\ msgs' = msgs
    BY <1>1 DEF FinishTask, Finish, TypeOK
  <2>2. u.protocol = node[n].protocol /\ u.pool = node[n].pool
    BY DEF DropTask, NodeState
  <2> HIDE DEF u
  <2> QED
    BY <2>1, <2>2, <1>k, QuietStep
<1>2. ASSUME NEW c \in t.todo, RetryWaiting(n, t, c)
      PROVE  LockDiscipline'
  <2> DEFINE s == [DropTask(node[n], t) EXCEPT
                     !.tasks = @ \cup {[t EXCEPT !.todo = @ \ {c}]}]
             u == [s EXCEPT !.waiting = @ \ {c}, !.seen = @ \ {c}]
  <2>1. c \in Capsule
    BY DEF Task
  <2>2. (node[n].tasks \ {t}) \cup {[t EXCEPT !.todo = @ \ {c}]} \in SUBSET Task
    BY DEF Task
  <2>3. s \in NodeState /\ s.protocol = node[n].protocol /\ s.pool = node[n].pool
    BY <2>2 DEF DropTask, NodeState
  <2>4. u \in NodeState /\ u.protocol = s.protocol /\ u.pool = s.pool
    BY <2>1, <2>3, NodeStateTypes DEF NodeState
  <2>5. \/ /\ node' = [node EXCEPT ![n] = OnCapsule(u, c)]
           /\ msgs' = msgs \cup ReceiptsFor(n, u, c)
        \/ node' = [node EXCEPT ![n] = s] /\ msgs' = msgs
    BY <1>2 DEF RetryWaiting, Broadcast
  <2>6. disk' = [disk EXCEPT ![n] = disk[n]]
    BY <1>2 DEF RetryWaiting, TypeOK
  <2> HIDE DEF s, u
  <2>7. CASE /\ node' = [node EXCEPT ![n] = OnCapsule(u, c)]
             /\ msgs' = msgs \cup ReceiptsFor(n, u, c)
    BY <2>1, <2>3, <2>4, <2>6, <2>7, WitnessStep
  <2>8. CASE node' = [node EXCEPT ![n] = s] /\ msgs' = msgs
    BY <2>3, <2>6, <2>8, <1>k, QuietStep
  <2> QED
    BY <2>5, <2>7, <2>8
<1> QED
  BY <1>1, <1>2 DEF RunTask

\* Crashes: what the store holds was sent and closed.
LEMMA CrashStepLocks ==
    ASSUME TypeOK, TypeOK', LockDiscipline, NEW n \in Node, CrashStep(n)
    PROVE  LockDiscipline'
<1> node[n] \in NodeState /\ disk[n] \in Disk
  BY DEF TypeOK
<1>k. /\ \A r \in node[n].pool \cup disk[n].receipts : ReceiptMessage(r) \in msgs
      /\ disk[n].closures \subseteq Closed
  BY DEF LockDiscipline, ReceiptsWereSent, ClosuresAreClosed
<1>1. CASE Restart(n)
  BY <1>1, <1>k, RestartStep DEF Restart
<1>2. ASSUME NEW m \in msgs, NEW k \in 0 .. 3, m.type = "RECEIPT",
             CrashInClose(n, m.receipt, k)
      PROVE  LockDiscipline'
  <2> DEFINE r == m.receipt
             c == r.capsule
             s == PutReceipt(node[n], r)
             d == PersistReceipt(disk[n], r)
             e == PersistClosure(d, c, k)
  <2>1. r \in Receipt /\ c \in Capsule
    BY <1>2, MessageTypes DEF TypeOK, Receipt
  <2>2. RestartFrom(n, e) /\ Closes(s, c) /\ ReceiptMessage(r) \in msgs
    BY <1>2 DEF CrashInClose, TakeReceipt
  <2>3. s \in NodeState /\ d \in Disk
    BY <2>1, NodeStateTypes, DiskTypes
  <2>4. s.pool \subseteq node[n].pool \cup {r}
    BY <2>1, HelperFrames
  <2>5. c \in Closed
    BY <2>1, <2>2, <2>3, <2>4, <1>k, PoolCloses
  <2>6. /\ d.receipts = disk[n].receipts \cup {r} /\ d.closures = disk[n].closures
    BY <2>1, DiskFrames
  <2>7. e.receipts = d.receipts /\ e.closures \subseteq d.closures \cup {c}
    BY <2>1, <2>3, DiskFrames
  <2> HIDE DEF s, d, e
  <2> QED
    BY <2>2, <2>5, <2>6, <2>7, <1>k, RestartStep
<1>3. ASSUME NEW m \in msgs, NEW k \in 0 .. 3, m.type = "CLOSURE",
             CrashInClosure(n, m, k)
      PROVE  LockDiscipline'
  <2> DEFINE c == m.capsule
             d == PersistCapsule(disk[n], c)
             e == PersistClosure(d, c, k)
  <2>1. c \in Capsule
    BY <1>3, MessageTypes DEF TypeOK
  <2>2. RestartFrom(n, e) /\ Accepts(WithCapsule(node[n], c), m)
    BY <1>3 DEF CrashInClosure
  <2>3. c \in Closed
    BY <2>1, <2>2, ProofCloses DEF Accepts
  <2>4. d \in Disk /\ d.receipts = disk[n].receipts /\ d.closures = disk[n].closures
    BY <2>1, DiskTypes, DiskFrames
  <2>5. e.receipts = d.receipts /\ e.closures \subseteq d.closures \cup {c}
    BY <2>1, <2>4, DiskFrames
  <2> HIDE DEF d, e
  <2> QED
    BY <2>2, <2>3, <2>4, <2>5, <1>k, RestartStep
<1> QED
  BY <1>1, <1>2, <1>3 DEF CrashStep

\* Initially nothing is locked or closed, and no honest member has signed.
LEMMA InitLocks == Init => LockDiscipline
<1> SUFFICES ASSUME Init PROVE LockDiscipline
  OBVIOUS
<1>1. NoAbandonLocks
  BY DEF Init, NoAbandonLocks, InitialProtocol, NoLock
<1>2. ReceiptsWereSent /\ ClosuresAreClosed
  BY DEF Init, ReceiptsWereSent, ClosuresAreClosed, InitialProtocol
<1>3. ReceiptsAreLocked
  <2> SUFFICES ASSUME NEW w \in Node, NEW c \in Capsule, w \in Accepted(c) PROVE FALSE
    BY DEF ReceiptsAreLocked
  <2> DEFINE m == ReceiptMessage(ReceiptOf(c, w, "ACCEPT"))
  <2>1. m \in Stray
    BY DEF Init, Accepted
  <2>2. m.type = "RECEIPT" /\ m.receipt.valid /\ m.receipt.witness = w
    BY DEF ReceiptMessage, ReceiptOf
  <2> HIDE DEF m
  <2> QED
    BY <2>1, <2>2, FaultAssumption DEF Node
<1> QED
  BY <1>1, <1>2, <1>3 DEF LockDiscipline

\* Every step keeps the lock discipline.
LEMMA NextLocks == TypeOK /\ TypeOK' /\ LockDiscipline /\ [Next]_vars => LockDiscipline'
<1> SUFFICES ASSUME TypeOK, TypeOK', LockDiscipline, [Next]_vars PROVE LockDiscipline'
  OBVIOUS
<1>1. CASE UNCHANGED vars
  BY <1>1, ClosedGrows
  DEF vars, LockDiscipline, NoAbandonLocks, ReceiptsWereSent, ReceiptsAreLocked,
      ClosuresAreClosed, Accepted
<1>2. ASSUME NEW n \in Node, NodeStep(n) PROVE LockDiscipline'
  <2>1. CASE \E c \in Capsule : \/ SubmitClosed(n, c) \/ Submit(n, c)
                                \/ SubmitTimeout(n, c) \/ ReceiveCapsule(n, c)
    BY <2>1, CapsuleStepLocks
  <2>2. ASSUME NEW m \in msgs, m.type = "RECEIPT", HandleReceipt(n, m.receipt)
        PROVE  LockDiscipline'
    BY <2>2, ReceiptStepLocks, MessageTypes DEF TypeOK
  <2>3. ASSUME NEW m \in msgs, m.type = "CLOSURE", HandleClosure(n, m)
        PROVE  LockDiscipline'
    BY <2>3, ClosureStepLocks DEF TypeOK
  <2>4. CASE \E t \in node[n].tasks : RunTask(n, t)
    BY <2>4, TaskStepLocks
  <2> QED
    BY <1>2, <2>1, <2>2, <2>3, <2>4 DEF NodeStep
<1>3. ASSUME NEW n \in Node, CrashStep(n) PROVE LockDiscipline'
  BY <1>3, CrashStepLocks
<1> QED
  BY <1>1, <1>2, <1>3 DEF Next

(***************************************************************************)
(* The locks that witness_receipt takes, the receipts on the way and the   *)
(* closures that _try_close and _on_closure register fit together in every *)
(* run, with any members faulty and any of the others restarting.          *)
(***************************************************************************)
THEOREM LocksAreKept == Spec => []LockDiscipline
<1>1. Init => TypeOK /\ LockDiscipline
  BY InitTypes, InitLocks
<1>2. TypeOK /\ LockDiscipline /\ [Next]_vars => (TypeOK /\ LockDiscipline)'
  BY NextTypes, NextLocks
<1> QED
  BY <1>1, <1>2, PTL DEF Spec

\* Two closed capsules that consume one seal are the same: a member that can
\* rely on its memory has signed both, under one lock.
LEMMA ClosedExcludes ==
    ASSUME LockDiscipline, WithinFaultBound(Forgetful),
           NEW c \in Closed, NEW d \in Closed, Pred[c] = Pred[d]
    PROVE  c = d
<1>1. IsQuorum(Accepted(c)) /\ IsQuorum(Accepted(d)) /\ c \in Capsule /\ d \in Capsule
  BY DEF Closed
<1>2. PICK w \in Accepted(c) \cap Accepted(d) : w \notin Forgetful
  BY <1>1, QuorumIntersection
<1>3. w \in Node \ Unstable
  BY <1>2 DEF Accepted, Forgetful, Node
<1>4. LockOf(c, "ACCEPT") = LockOf(d, "ACCEPT")
  BY <1>1, <1>2, <1>3 DEF LockDiscipline, ReceiptsAreLocked
<1> QED
  BY <1>4 DEF LockOf

(***************************************************************************)
(* Closure Exclusivity (paper, Theorem 1, in its weighted form) for the    *)
(* code of mosaic/network.py: if faulty members and members that restart   *)
(* together have at most one third of the weight, no two nodes ever hold   *)
(* closures of two capsules that consume one seal.                         *)
(***************************************************************************)
THEOREM ClosuresExclude ==
    ASSUME WithinFaultBound(Forgetful)
    PROVE  Spec => []ClosureExclusivity
<1>1. LockDiscipline => ClosureExclusivity
  <2> SUFFICES ASSUME LockDiscipline PROVE ClosureExclusivity
    OBVIOUS
  <2>1. \A n \in Node : node[n].protocol.closures \cup disk[n].closures \subseteq Closed
    BY DEF LockDiscipline, ClosuresAreClosed
  <2> QED
    BY <2>1, ClosedExcludes DEF ClosureExclusivity
<1> QED
  BY <1>1, LocksAreKept, PTL

-----------------------------------------------------------------------------
(***************************************************************************)
(* The seals: what a node knows was closed and survives crashes, a node    *)
(* moves along the chain seal by seal, and, while faulty and forgetful     *)
(* members stay within the fault bound, the nodes agree and together       *)
(* implement SealChain.                                                    *)
(***************************************************************************)

Known(n) == node[n].protocol.known

Current(n) == node[n].protocol.current

-----------------------------------------------------------------------------
(* What a step does to seals and receipts *)

\* No ACCEPT receipt is sent.
NothingSigned == \A c \in Capsule : Accepted(c)' = Accepted(c)

\* The seals that node n holds, in memory and in its store, stay.
SealsStay(n) ==
    /\ Known(n)' = Known(n) /\ Current(n)' = Current(n)
    /\ disk'[n].known = disk[n].known /\ disk'[n].current = disk[n].current

\* Node n signs c, whose predecessor it knows.
SignsOne(n, c) ==
    /\ SealsStay(n)
    /\ Pred[c] \in Known(n)
    /\ Accepted(c)' = Accepted(c) \cup {n}
    /\ \A d \in Capsule \ {c} : Accepted(d)' = Accepted(d)

\* Node n applies the closure of c and writes all of it to its store.
Moves(n, c) ==
    /\ NothingSigned
    /\ c \in Closed
    /\ MayApply(node[n].protocol, c)
    /\ Known(n)' = Known(n) \cup {c}
    /\ Current(n)' = [Current(n) EXCEPT ![ResourceOf[c]] = c]
    /\ disk'[n].known = disk[n].known \cup {Pred[c], c}
    /\ disk'[n].current = [disk[n].current EXCEPT ![ResourceOf[c]] = c]

\* Node n restarts; the store may hold the first writes of a closure that it
\* was about to apply, but not the one that makes a seal current.
Recovers(n) ==
    /\ NothingSigned
    /\ disk'[n].current = disk[n].current
    /\ \/ disk'[n].known = disk[n].known
       \/ \E c \in Closed :
             /\ MayApply(node[n].protocol, c)
             /\ \/ disk'[n].known = disk[n].known \cup {Pred[c]}
                \/ disk'[n].known = disk[n].known \cup {Pred[c], c}
    /\ Known(n)' = Resource \cup disk'[n].known
    /\ Current(n)' = disk'[n].current

\* A step of node n: the other nodes keep what they have, and an answer that
\* is new reports a seal that is current at n after the step.
StepOf(n) ==
    /\ \A m \in Node \ {n} : node'[m] = node[m] /\ disk'[m] = disk[m]
    /\ replies \subseteq replies'
    /\ \A a \in replies' \ replies :
          a.node = n /\ \E r \in Resource : a.seal = Current(n)'[r]
    /\ \/ SealsStay(n) /\ NothingSigned
       \/ \E c \in Capsule : SignsOne(n, c) \/ Moves(n, c)
       \/ Recovers(n)

\* Messages that are no receipts sign nothing.
LEMMA OtherMessages ==
    ASSUME NEW M, msgs' = msgs \cup M, \A r : ReceiptMessage(r) \notin M
    PROVE  NothingSigned
BY DEF NothingSigned, Accepted

\* A step that leaves the memory and the store of n alone, or changes them
\* outside the seals, and sends no receipt.
LEMMA StayStep ==
    ASSUME TypeOK, NEW n \in Node,
           NEW t, node' = [node EXCEPT ![n] = t],
           NEW e, disk' = [disk EXCEPT ![n] = e],
           t.protocol.known = Known(n), t.protocol.current = Current(n),
           e.known = disk[n].known, e.current = disk[n].current,
           NothingSigned, replies \subseteq replies',
           \A a \in replies' \ replies :
              a.node = n /\ \E r \in Resource : a.seal = t.protocol.current[r]
    PROVE  StepOf(n)
<1>1. /\ node'[n] = t /\ disk'[n] = e
      /\ \A m \in Node \ {n} : node'[m] = node[m] /\ disk'[m] = disk[m]
  BY DEF TypeOK
<1>2. SealsStay(n)
  BY <1>1 DEF SealsStay, Known, Current
<1> QED
  BY <1>1, <1>2 DEF StepOf, Current

\* What the helpers of the handlers do to the seals in memory.
LEMMA HelperSeals ==
    ASSUME NEW s \in NodeState, NEW c \in Capsule
    PROVE  /\ WithCapsule(s, c).protocol.known = s.protocol.known
           /\ WithCapsule(s, c).protocol.current = s.protocol.current
           /\ Registered(s, c).protocol.known = s.protocol.known
           /\ Registered(s, c).protocol.current = s.protocol.current
           /\ Applied(s, c).protocol.known = s.protocol.known \cup {c}
           /\ Applied(s, c).protocol.current =
                 [s.protocol.current EXCEPT ![ResourceOf[c]] = c]
           /\ OnCapsule(s, c).protocol.known = s.protocol.known
           /\ OnCapsule(s, c).protocol.current = s.protocol.current
<1> s.protocol \in Protocol
  BY DEF NodeState
<1>1. /\ WithCapsule(s, c).protocol.known = s.protocol.known
      /\ WithCapsule(s, c).protocol.current = s.protocol.current
      /\ Registered(s, c).protocol.known = s.protocol.known
      /\ Registered(s, c).protocol.current = s.protocol.current
  BY DEF WithCapsule, Registered, AddCapsule, Register, NodeState, Protocol
<1>2. /\ Applied(s, c).protocol.known = s.protocol.known \cup {c}
      /\ Applied(s, c).protocol.current = [s.protocol.current EXCEPT ![ResourceOf[c]] = c]
  BY DEF Applied, Apply, Register, NodeState, Protocol
<1>3. /\ OnCapsule(s, c).protocol.known = s.protocol.known
      /\ OnCapsule(s, c).protocol.current = s.protocol.current
  <2> DEFINE p == AddCapsule(s.protocol, c)
             q == AfterWitness(p, c, "ACCEPT")
  <2>1. p \in Protocol /\ p.known = s.protocol.known /\ p.current = s.protocol.current
    BY ProtocolTypes DEF AddCapsule, Protocol
  <2>2. q.known = p.known /\ q.current = p.current
    BY <2>1 DEF AfterWitness, TakeLock, RecordConflict, Protocol
  <2>3. OnCapsule(s, c).protocol \in {s.protocol, q}
    BY DEF OnCapsule, NodeState
  <2> HIDE DEF p, q
  <2> QED
    BY <2>1, <2>2, <2>3
<1> QED
  BY <1>1, <1>2, <1>3

\* What the writes do to the seals in the store.
LEMMA DiskSeals ==
    ASSUME NEW d \in Disk, NEW c \in Capsule
    PROVE  /\ PersistCapsule(d, c).known = d.known
           /\ PersistCapsule(d, c).current = d.current
           /\ \A r : /\ PersistReceipt(d, r).known = d.known
                     /\ PersistReceipt(d, r).current = d.current
           /\ PersistClosure(d, c, 4).known = d.known \cup {Pred[c], c}
           /\ PersistClosure(d, c, 4).current = [d.current EXCEPT ![ResourceOf[c]] = c]
           /\ \A k \in 0 .. 3 :
                 /\ PersistClosure(d, c, k).current = d.current
                 /\ PersistClosure(d, c, k).known \in
                       {d.known, d.known \cup {Pred[c]}, d.known \cup {Pred[c], c}}
<1>1. /\ PersistCapsule(d, c).known = d.known
      /\ PersistCapsule(d, c).current = d.current
      /\ \A r : /\ PersistReceipt(d, r).known = d.known
                /\ PersistReceipt(d, r).current = d.current
  BY DEF PersistCapsule, PersistReceipt, Disk
<1>2. /\ PersistClosure(d, c, 4).known = d.known \cup {Pred[c], c}
      /\ PersistClosure(d, c, 4).current = [d.current EXCEPT ![ResourceOf[c]] = c]
  BY DEF PersistClosure, Disk
<1>3. ASSUME NEW k \in 0 .. 3
      PROVE  /\ PersistClosure(d, c, k).current = d.current
             /\ PersistClosure(d, c, k).known \in
                   {d.known, d.known \cup {Pred[c]}, d.known \cup {Pred[c], c}}
  <2> DEFINE kn == d.known \cup (IF k >= 2 THEN {Pred[c]} ELSE {})
                           \cup (IF k >= 3 THEN {c} ELSE {})
  <2>1. PersistClosure(d, c, k).known = kn
    BY DEF PersistClosure, Disk
  <2>2. PersistClosure(d, c, k).current =
          [d.current EXCEPT ![ResourceOf[c]] = d.current[ResourceOf[c]]]
    BY DEF PersistClosure, Disk
  <2>3. d.current \in [Resource -> Seal]
    BY DEF Disk
  <2>4. [d.current EXCEPT ![ResourceOf[c]] = d.current[ResourceOf[c]]] = d.current
    BY <2>3
  <2>5. kn \in {d.known, d.known \cup {Pred[c]}, d.known \cup {Pred[c], c}}
    <3>1. CASE k = 3
      BY <3>1
    <3>2. CASE k = 2
      BY <3>2
    <3>3. CASE k \in {0, 1}
      BY <3>3
    <3> QED
      BY <3>1, <3>2, <3>3
  <2> QED
    BY <2>1, <2>2, <2>4, <2>5
<1> QED
  BY <1>1, <1>2, <1>3

-----------------------------------------------------------------------------
(* Every step is one of these *)

\* A node that sends the receipt of _on_capsule signs a capsule whose
\* predecessor it knows; without one it signs nothing.
LEMMA WitnessSeals ==
    ASSUME TypeOK, NEW n \in Node, NEW c \in Capsule, NEW u \in NodeState,
           u.protocol = node[n].protocol,
           node' = [node EXCEPT ![n] = OnCapsule(u, c)],
           NEW e, disk' = [disk EXCEPT ![n] = e],
           e.known = disk[n].known, e.current = disk[n].current,
           msgs' = msgs \cup ReceiptsFor(n, u, c),
           replies' = replies
    PROVE  StepOf(n)
<1> DEFINE t == OnCapsule(u, c)
<1>1. t.protocol.known = Known(n) /\ t.protocol.current = Current(n)
  <2>1. /\ OnCapsule(u, c).protocol.known = u.protocol.known
        /\ OnCapsule(u, c).protocol.current = u.protocol.current
    BY HelperSeals
  <2> QED
    BY <2>1 DEF Known, Current
<1>2. CASE ReceiptsFor(n, u, c) = {}
  <2>1. NothingSigned
    BY <1>2, OtherMessages
  <2> HIDE DEF t
  <2> QED
    BY <1>1, <2>1, StayStep DEF t
<1>3. CASE ReceiptsFor(n, u, c) # {}
  <2>1. /\ ReceiptsFor(n, u, c) = {ReceiptMessage(ReceiptOf(c, n, "ACCEPT"))}
        /\ SignsAccept(AddCapsule(u.protocol, c), c)
    BY <1>3 DEF ReceiptsFor
  <2>2. u.protocol \in Protocol /\ AddCapsule(u.protocol, c).known = u.protocol.known
    BY DEF NodeState, AddCapsule, Protocol
  <2>3. Pred[c] \in Known(n)
    BY <2>1, <2>2 DEF SignsAccept, Validates, Known
  <2>4. /\ node'[n] = t /\ disk'[n] = e
        /\ \A m \in Node \ {n} : node'[m] = node[m] /\ disk'[m] = disk[m]
    BY DEF TypeOK
  <2>5. SealsStay(n)
    BY <1>1, <2>4 DEF SealsStay, Known, Current
  <2>6. \A d \in Capsule, w \in Member :
           ReceiptMessage(ReceiptOf(d, w, "ACCEPT")) = ReceiptMessage(ReceiptOf(c, n, "ACCEPT"))
             <=> d = c /\ w = n
    BY DEF ReceiptMessage, ReceiptOf
  <2>7. /\ Accepted(c)' = Accepted(c) \cup {n}
        /\ \A d \in Capsule \ {c} : Accepted(d)' = Accepted(d)
    <3>1. n \in Member
      BY DEF Node
    <3>2. msgs' = msgs \cup {ReceiptMessage(ReceiptOf(c, n, "ACCEPT"))}
      BY <2>1
    <3> QED
      BY <3>1, <3>2, <2>6 DEF Accepted
  <2>8. SignsOne(n, c)
    BY <2>3, <2>5, <2>7 DEF SignsOne
  <2> QED
    BY <2>4, <2>8 DEF StepOf
<1> QED
  BY <1>2, <1>3

\* A step that applies the closure of a closed capsule.
LEMMA MoveStep ==
    ASSUME TypeOK, NEW n \in Node, NEW c \in Closed, MayApply(node[n].protocol, c),
           NEW t, node' = [node EXCEPT ![n] = t],
           NEW e, disk' = [disk EXCEPT ![n] = e],
           t.protocol.known = Known(n) \cup {c},
           t.protocol.current = [Current(n) EXCEPT ![ResourceOf[c]] = c],
           e.known = disk[n].known \cup {Pred[c], c},
           e.current = [disk[n].current EXCEPT ![ResourceOf[c]] = c],
           NothingSigned, replies \subseteq replies',
           \A a \in replies' \ replies :
              a.node = n /\ \E r \in Resource : a.seal = t.protocol.current[r]
    PROVE  StepOf(n)
<1>1. /\ node'[n] = t /\ disk'[n] = e
      /\ \A m \in Node \ {n} : node'[m] = node[m] /\ disk'[m] = disk[m]
  BY DEF TypeOK
<1>2. Moves(n, c) /\ c \in Capsule
  BY <1>1 DEF Moves, Known, Current, Closed
<1>3. Current(n)' = t.protocol.current
  BY <1>1 DEF Current
<1> QED
  BY <1>1, <1>2, <1>3 DEF StepOf

\* A restart from a store that holds at most the first writes of a closure.
LEMMA RecoverStep ==
    ASSUME TypeOK, NEW n \in Node, NEW e, RestartFrom(n, e),
           e.current = disk[n].current,
           \/ e.known = disk[n].known
           \/ \E c \in Closed :
                 /\ MayApply(node[n].protocol, c)
                 /\ e.known \in {disk[n].known, disk[n].known \cup {Pred[c]},
                                 disk[n].known \cup {Pred[c], c}}
    PROVE  StepOf(n)
<1>1. PICK pool \in RestoredPools(e) : node' = [node EXCEPT ![n] = Restored(e, pool)]
  BY DEF RestartFrom
<1>2. /\ node'[n] = Restored(e, pool) /\ disk'[n] = e
      /\ \A m \in Node \ {n} : node'[m] = node[m] /\ disk'[m] = disk[m]
  BY <1>1 DEF RestartFrom, TypeOK
<1>3. /\ Restored(e, pool).protocol.known = Resource \cup e.known
      /\ Restored(e, pool).protocol.current = e.current
  BY DEF Restored, InitialProtocol
<1>4. NothingSigned /\ replies' = replies
  BY DEF RestartFrom, NothingSigned, Accepted
<1>5. Recovers(n)
  BY <1>2, <1>3, <1>4 DEF Recovers, Known, Current
<1> QED
  BY <1>2, <1>4, <1>5 DEF StepOf

\* Clients' requests and capsules move no seal.
LEMMA CapsuleSteps ==
    ASSUME TypeOK, NEW n \in Node, NEW c \in Capsule,
           \/ SubmitClosed(n, c) \/ Submit(n, c)
           \/ SubmitTimeout(n, c) \/ ReceiveCapsule(n, c)
    PROVE  StepOf(n)
<1> /\ node[n] \in NodeState /\ disk[n] \in Disk
  BY DEF TypeOK
<1>r. ResourceOf[c] \in Resource
  BY CapsuleTypes
<1>m. \A r : ReceiptMessage(r) # CapsuleMessage(c)
  BY DEF ReceiptMessage, CapsuleMessage
<1>1. CASE SubmitClosed(n, c)
  <2>1. /\ node' = [node EXCEPT ![n] = node[n]] /\ disk' = [disk EXCEPT ![n] = disk[n]]
        /\ msgs' = msgs \cup {}
        /\ replies' = replies \cup {[node |-> n, capsule |-> c,
                          seal |-> node[n].protocol.current[ResourceOf[c]]]}
    BY <1>1 DEF SubmitClosed, TypeOK
  <2>2. NothingSigned
    BY <2>1, OtherMessages
  <2>3. /\ replies \subseteq replies'
        /\ \A a \in replies' \ replies :
              a.node = n /\ \E r \in Resource : a.seal = node[n].protocol.current[r]
    BY <1>r, <2>1
  <2>4. node[n].protocol.known = Known(n) /\ node[n].protocol.current = Current(n)
    BY DEF Known, Current
  <2> QED
    BY <2>1, <2>2, <2>3, <2>4, StayStep
<1>2. CASE Submit(n, c)
  <2> DEFINE s == WithCapsule(node[n], c)
             t == [s EXCEPT !.pending = IF Validates(s.protocol, c) THEN @ \cup {c} ELSE @]
             e == PersistCapsule(disk[n], c)
  <2>1. /\ node' = [node EXCEPT ![n] = t] /\ disk' = [disk EXCEPT ![n] = e]
        /\ replies' = replies
    BY <1>2 DEF Submit, WithCapsule
  <2>2. msgs' = msgs \cup {} \/ msgs' = msgs \cup {CapsuleMessage(c)}
    BY <1>2 DEF Submit, Broadcast
  <2>3. NothingSigned
    BY <1>m, <2>2, OtherMessages
  <2>4. s \in NodeState
    BY NodeStateTypes
  <2>5. t.protocol = s.protocol
    BY <2>4 DEF NodeState
  <2>6. s.protocol.known = Known(n) /\ s.protocol.current = Current(n)
    BY HelperSeals DEF Known, Current
  <2>7. e.known = disk[n].known /\ e.current = disk[n].current
    BY DiskSeals
  <2> HIDE DEF s, t, e
  <2> QED
    BY <2>1, <2>3, <2>5, <2>6, <2>7, StayStep
<1>3. CASE SubmitTimeout(n, c)
  <2> DEFINE t == [node[n] EXCEPT !.pending = @ \ {c}]
  <2>1. /\ node' = [node EXCEPT ![n] = t] /\ disk' = [disk EXCEPT ![n] = disk[n]]
        /\ msgs' = msgs \cup {} /\ replies' = replies
    BY <1>3 DEF SubmitTimeout, TypeOK
  <2>2. NothingSigned
    BY <2>1, OtherMessages
  <2>3. t.protocol = node[n].protocol
    BY DEF NodeState
  <2> HIDE DEF t
  <2> QED
    BY <2>1, <2>2, <2>3, StayStep DEF Known, Current
<1>4. CASE ReceiveCapsule(n, c)
  <2> DEFINE e == PersistCapsule(disk[n], c)
  <2>1. /\ node' = [node EXCEPT ![n] = OnCapsule(node[n], c)]
        /\ disk' = [disk EXCEPT ![n] = e]
        /\ msgs' = msgs \cup ReceiptsFor(n, node[n], c) /\ replies' = replies
    BY <1>4 DEF ReceiveCapsule, Broadcast
  <2>2. e.known = disk[n].known /\ e.current = disk[n].current
    BY DiskSeals
  <2> HIDE DEF e
  <2> QED
    BY <2>1, <2>2, WitnessSeals
<1> QED
  BY <1>1, <1>2, <1>3, <1>4

\* A receipt moves a seal when it completes a quorum.
LEMMA ReceiptSteps ==
    ASSUME TypeOK, LockDiscipline, NEW n \in Node, NEW r \in Receipt, HandleReceipt(n, r)
    PROVE  StepOf(n)
<1> DEFINE c == r.capsule
           s == PutReceipt(node[n], r)
           d == PersistReceipt(disk[n], r)
<1> /\ node[n] \in NodeState /\ disk[n] \in Disk
  BY DEF TypeOK
<1> c \in Capsule
  BY DEF Receipt
<1>r. ResourceOf[c] \in Resource
  BY CapsuleTypes
<1>s. s \in NodeState /\ d \in Disk
  BY NodeStateTypes, DiskTypes
<1>f. s.protocol = node[n].protocol /\ d.known = disk[n].known /\ d.current = disk[n].current
  BY HelperFrames, DiskSeals
<1>c. Closes(s, c) => c \in Closed
  <2>1. ReceiptMessage(r) \in msgs
    BY DEF HandleReceipt, RecordReceipt, ReceiptOfClosed, CloseUnapplied, Close, TakeReceipt
  <2>2. \A q \in s.pool : ReceiptMessage(q) \in msgs
    BY <2>1, HelperFrames DEF LockDiscipline, ReceiptsWereSent
  <2> QED
    BY <1>s, <2>2, PoolCloses
<1>1. CASE RecordReceipt(n, r)
  <2>1. /\ node' = [node EXCEPT ![n] = s] /\ disk' = [disk EXCEPT ![n] = d]
        /\ msgs' = msgs \cup {} /\ replies' = replies
    BY <1>1 DEF RecordReceipt
  <2>2. NothingSigned
    BY <2>1, OtherMessages
  <2> HIDE DEF s, d
  <2> QED
    BY <2>1, <2>2, <1>f, StayStep DEF Known, Current
<1>2. CASE ReceiptOfClosed(n, r)
  <2> DEFINE t == [s EXCEPT !.pending = @ \ {c}]
             a == [node |-> n, capsule |-> c, seal |-> s.protocol.current[ResourceOf[c]]]
  <2>1. /\ node' = [node EXCEPT ![n] = t] /\ disk' = [disk EXCEPT ![n] = d]
        /\ msgs' = msgs \cup {} /\ replies' \in {replies, replies \cup {a}}
    BY <1>2 DEF ReceiptOfClosed, Finish
  <2>2. NothingSigned
    BY <2>1, OtherMessages
  <2>3. t.protocol = s.protocol
    BY <1>s DEF NodeState
  <2>4. a.node = n /\ a.seal = s.protocol.current[ResourceOf[c]]
    OBVIOUS
  <2> HIDE DEF s, d, t, a, c
  <2>5. /\ replies \subseteq replies'
        /\ \A x \in replies' \ replies :
              x.node = n /\ \E q \in Resource : x.seal = t.protocol.current[q]
    BY <1>r, <2>1, <2>3, <2>4
  <2>6. t.protocol.known = Known(n) /\ t.protocol.current = Current(n)
    BY <1>f, <2>3 DEF Known, Current
  <2> QED
    BY <2>1, <2>2, <2>5, <2>6, <1>f, StayStep
<1>3. CASE CloseUnapplied(n, r)
  <2> DEFINE t == Registered(s, c)
  <2>1. /\ node' = [node EXCEPT ![n] = t] /\ disk' = [disk EXCEPT ![n] = d]
        /\ msgs' = msgs \cup {} /\ replies' = replies
    BY <1>3 DEF CloseUnapplied
  <2>2. NothingSigned
    BY <2>1, OtherMessages
  <2>3. t.protocol.known = s.protocol.known /\ t.protocol.current = s.protocol.current
    BY <1>s, HelperSeals
  <2> HIDE DEF s, d, t
  <2> QED
    BY <2>1, <2>2, <2>3, <1>f, StayStep DEF Known, Current
<1>4. CASE Close(n, r)
  <2> DEFINE b == Applied(s, c)
             t == [b EXCEPT !.tasks = @ \cup {[capsule |-> c, todo |-> {}]}]
             e == PersistClosure(d, c, 4)
             m == ClosureMessage(c, Accepting(s, c))
  <2>1. /\ node' = [node EXCEPT ![n] = t] /\ disk' = [disk EXCEPT ![n] = e]
        /\ msgs' = msgs \cup {m} /\ replies' = replies
    BY <1>4 DEF Close, Broadcast
  <2>2. \A q : ReceiptMessage(q) # m
    BY DEF ReceiptMessage, ClosureMessage
  <2>3. Closes(s, c) /\ MayApply(s.protocol, c)
    BY <1>4 DEF Close
  <2>4. b \in NodeState
    BY <1>s, NodeStateTypes
  <2>5. t.protocol = b.protocol
    BY <2>4 DEF NodeState
  <2>6. /\ b.protocol.known = s.protocol.known \cup {c}
        /\ b.protocol.current = [s.protocol.current EXCEPT ![ResourceOf[c]] = c]
    BY <1>s, HelperSeals
  <2>7. /\ e.known = d.known \cup {Pred[c], c}
        /\ e.current = [d.current EXCEPT ![ResourceOf[c]] = c]
    BY <1>s, DiskSeals
  <2> HIDE DEF s, d, b, t, e, m, c
  <2>8. NothingSigned
    BY <2>1, <2>2, OtherMessages
  <2>9. c \in Closed
    BY <2>3, <1>c
  <2>10. /\ t.protocol.known = Known(n) \cup {c}
         /\ t.protocol.current = [Current(n) EXCEPT ![ResourceOf[c]] = c]
         /\ MayApply(node[n].protocol, c)
    BY <1>f, <2>3, <2>5, <2>6 DEF Known, Current
  <2>11. /\ e.known = disk[n].known \cup {Pred[c], c}
         /\ e.current = [disk[n].current EXCEPT ![ResourceOf[c]] = c]
    BY <1>f, <2>7
  <2> QED
    BY <2>1, <2>8, <2>9, <2>10, <2>11, MoveStep
<1> QED
  BY <1>1, <1>2, <1>3, <1>4 DEF HandleReceipt

\* A closure moves a seal when its proof verifies and it may be applied.
LEMMA ClosureSteps ==
    ASSUME TypeOK, NEW n \in Node, NEW m \in Message, m.type = "CLOSURE", HandleClosure(n, m)
    PROVE  StepOf(n)
<1> DEFINE c == m.capsule
           s == WithCapsule(node[n], c)
           d == PersistCapsule(disk[n], c)
<1> /\ node[n] \in NodeState /\ disk[n] \in Disk
  BY DEF TypeOK
<1>c. c \in Capsule /\ ResourceOf[c] \in Resource
  BY MessageTypes, CapsuleTypes
<1>s. s \in NodeState /\ d \in Disk
  BY <1>c, NodeStateTypes, DiskTypes
<1>f. /\ s.protocol.known = Known(n) /\ s.protocol.current = Current(n)
      /\ d.known = disk[n].known /\ d.current = disk[n].current
  BY <1>c, HelperSeals, DiskSeals DEF Known, Current
<1>m. msgs' = msgs \cup {}
  BY DEF HandleClosure, RejectClosure, ReceiveClosure
<1>n. NothingSigned
  BY <1>m, OtherMessages
<1>1. CASE RejectClosure(n, m)
  <2> DEFINE t == IF Accepts(s, m) THEN Registered(s, c) ELSE s
  <2>1. /\ node' = [node EXCEPT ![n] = t] /\ disk' = [disk EXCEPT ![n] = d]
        /\ replies' = replies
    BY <1>1 DEF RejectClosure
  <2>2. t.protocol.known = s.protocol.known /\ t.protocol.current = s.protocol.current
    BY <1>c, <1>s, HelperSeals
  <2> HIDE DEF s, d, t, c
  <2> QED
    BY <2>1, <2>2, <1>f, <1>n, StayStep
<1>2. CASE ReceiveClosure(n, m)
  <2> DEFINE b == Applied(s, c)
             t == IF b.waiting = {}
                  THEN [b EXCEPT !.pending = @ \ {c}]
                  ELSE [b EXCEPT !.tasks = @ \cup {[capsule |-> c, todo |-> b.waiting]}]
             e == PersistClosure(d, c, 4)
             a == [node |-> n, capsule |-> c, seal |-> b.protocol.current[ResourceOf[c]]]
  <2>1. /\ node' = [node EXCEPT ![n] = t] /\ disk' = [disk EXCEPT ![n] = e]
        /\ replies' \in {replies, replies \cup {a}}
    BY <1>2 DEF ReceiveClosure, Finish
  <2>2. Accepts(s, m) /\ MayApply(s.protocol, c)
    BY <1>2 DEF ReceiveClosure
  <2>3. c \in Closed
    BY <1>c, <2>2, ProofCloses DEF Accepts
  <2>4. b \in NodeState
    BY <1>c, <1>s, NodeStateTypes
  <2>5. t.protocol = b.protocol
    BY <2>4 DEF NodeState
  <2>6. /\ b.protocol.known = s.protocol.known \cup {c}
        /\ b.protocol.current = [s.protocol.current EXCEPT ![ResourceOf[c]] = c]
    BY <1>c, <1>s, HelperSeals
  <2>7. /\ e.known = d.known \cup {Pred[c], c}
        /\ e.current = [d.current EXCEPT ![ResourceOf[c]] = c]
    BY <1>c, <1>s, DiskSeals
  <2>8. MayApply(node[n].protocol, c)
    BY <2>2, <1>f DEF MayApply, Known, Current
  <2>9. a.node = n /\ a.seal = b.protocol.current[ResourceOf[c]]
    OBVIOUS
  <2> HIDE DEF s, d, b, t, e, c, a
  <2>10. /\ replies \subseteq replies'
         /\ \A x \in replies' \ replies :
               x.node = n /\ \E r \in Resource : x.seal = t.protocol.current[r]
    BY <1>c, <2>1, <2>5, <2>9
  <2>11. /\ t.protocol.known = Known(n) \cup {c}
         /\ t.protocol.current = [Current(n) EXCEPT ![ResourceOf[c]] = c]
    BY <1>f, <2>5, <2>6
  <2>12. /\ e.known = disk[n].known \cup {Pred[c], c}
         /\ e.current = [disk[n].current EXCEPT ![ResourceOf[c]] = c]
    BY <1>f, <2>7
  <2> QED
    BY <2>1, <2>3, <2>8, <2>10, <2>11, <2>12, <1>n, MoveStep
<1> QED
  BY <1>1, <1>2 DEF HandleClosure

\* A task that an await interrupted moves no seal.
LEMMA TaskSteps ==
    ASSUME TypeOK, NEW n \in Node, NEW t \in node[n].tasks, RunTask(n, t)
    PROVE  StepOf(n)
<1> /\ node[n] \in NodeState /\ disk[n] \in Disk
  BY DEF TypeOK
<1> node[n].tasks \in SUBSET Task /\ t \in Task
  BY DEF NodeState
<1>1. CASE FinishTask(n, t)
  <2> DEFINE c == t.capsule
             u == [DropTask(node[n], t) EXCEPT !.pending = @ \ {c}]
             a == [node |-> n, capsule |-> c,
                   seal |-> DropTask(node[n], t).protocol.current[ResourceOf[c]]]
  <2>1. /\ node' = [node EXCEPT ![n] = u] /\ disk' = [disk EXCEPT ![n] = disk[n]]
        /\ msgs' = msgs \cup {} /\ replies' \in {replies, replies \cup {a}}
    BY <1>1 DEF FinishTask, Finish, TypeOK
  <2>2. u.protocol = node[n].protocol /\ DropTask(node[n], t).protocol = node[n].protocol
    BY DEF DropTask, NodeState
  <2>3. ResourceOf[c] \in Resource
    BY CapsuleTypes DEF Task
  <2>4. a.node = n /\ a.seal = u.protocol.current[ResourceOf[c]]
    BY <2>2
  <2> HIDE DEF u, a, c
  <2>5. NothingSigned
    BY <2>1, OtherMessages
  <2>6. /\ replies \subseteq replies'
        /\ \A x \in replies' \ replies :
              x.node = n /\ \E r \in Resource : x.seal = u.protocol.current[r]
    BY <2>1, <2>3, <2>4
  <2>7. u.protocol.known = Known(n) /\ u.protocol.current = Current(n)
    BY <2>2 DEF Known, Current
  <2> QED
    BY <2>1, <2>5, <2>6, <2>7, StayStep
<1>2. ASSUME NEW c \in t.todo, RetryWaiting(n, t, c)
      PROVE  StepOf(n)
  <2> DEFINE s == [DropTask(node[n], t) EXCEPT
                     !.tasks = @ \cup {[t EXCEPT !.todo = @ \ {c}]}]
             u == [s EXCEPT !.waiting = @ \ {c}, !.seen = @ \ {c}]
  <2>1. c \in Capsule
    BY DEF Task
  <2>2. (node[n].tasks \ {t}) \cup {[t EXCEPT !.todo = @ \ {c}]} \in SUBSET Task
    BY DEF Task
  <2>3. s \in NodeState /\ s.protocol = node[n].protocol
    BY <2>2 DEF DropTask, NodeState
  <2>4. u \in NodeState /\ u.protocol = s.protocol
    BY <2>1, <2>3, NodeStateTypes DEF NodeState
  <2>5. \/ /\ node' = [node EXCEPT ![n] = OnCapsule(u, c)]
           /\ msgs' = msgs \cup ReceiptsFor(n, u, c)
        \/ node' = [node EXCEPT ![n] = s] /\ msgs' = msgs \cup {}
    BY <1>2 DEF RetryWaiting, Broadcast
  <2>6. disk' = [disk EXCEPT ![n] = disk[n]] /\ replies' = replies
    BY <1>2 DEF RetryWaiting, TypeOK
  <2> HIDE DEF s, u
  <2>7. CASE /\ node' = [node EXCEPT ![n] = OnCapsule(u, c)]
             /\ msgs' = msgs \cup ReceiptsFor(n, u, c)
    BY <2>1, <2>3, <2>4, <2>6, <2>7, WitnessSeals
  <2>8. CASE node' = [node EXCEPT ![n] = s] /\ msgs' = msgs \cup {}
    <3>1. NothingSigned
      BY <2>8, OtherMessages
    <3>2. s.protocol.known = Known(n) /\ s.protocol.current = Current(n)
      BY <2>3 DEF Known, Current
    <3> QED
      BY <2>6, <2>8, <3>1, <3>2, StayStep
  <2> QED
    BY <2>5, <2>7, <2>8
<1> QED
  BY <1>1, <1>2 DEF RunTask

\* A crash in the middle of _persist_closure has not made a seal current.
LEMMA CrashSteps ==
    ASSUME TypeOK, LockDiscipline, NEW n \in Node, CrashStep(n)
    PROVE  StepOf(n)
<1> node[n] \in NodeState /\ disk[n] \in Disk
  BY DEF TypeOK
<1>1. CASE Restart(n)
  BY <1>1, RecoverStep DEF Restart
<1>2. ASSUME NEW m \in msgs, NEW k \in 0 .. 3, m.type = "RECEIPT",
             CrashInClose(n, m.receipt, k)
      PROVE  StepOf(n)
  <2> DEFINE r == m.receipt
             c == r.capsule
             s == PutReceipt(node[n], r)
             d == PersistReceipt(disk[n], r)
             e == PersistClosure(d, c, k)
  <2>1. r \in Receipt /\ c \in Capsule
    BY <1>2, MessageTypes DEF TypeOK, Receipt
  <2>2. /\ RestartFrom(n, e) /\ Closes(s, c) /\ ReceiptMessage(r) \in msgs
        /\ MayApply(s.protocol, c)
    BY <1>2 DEF CrashInClose, TakeReceipt
  <2>3. s \in NodeState /\ d \in Disk
    BY <2>1, NodeStateTypes, DiskTypes
  <2>4. s.pool \subseteq node[n].pool \cup {r} /\ s.protocol = node[n].protocol
    BY <2>1, HelperFrames
  <2>5. c \in Closed
    <3>1. \A q \in s.pool : ReceiptMessage(q) \in msgs
      BY <2>2, <2>4 DEF LockDiscipline, ReceiptsWereSent
    <3> QED
      BY <2>1, <2>2, <2>3, <3>1, PoolCloses
  <2>6. d.known = disk[n].known /\ d.current = disk[n].current
    BY <2>1, DiskSeals
  <2>7. /\ e.current = d.current
        /\ e.known \in {d.known, d.known \cup {Pred[c]}, d.known \cup {Pred[c], c}}
    BY <2>1, <2>3, DiskSeals
  <2> HIDE DEF s, d, e, c
  <2> QED
    BY <2>2, <2>4, <2>5, <2>6, <2>7, RecoverStep
<1>3. ASSUME NEW m \in msgs, NEW k \in 0 .. 3, m.type = "CLOSURE",
             CrashInClosure(n, m, k)
      PROVE  StepOf(n)
  <2> DEFINE c == m.capsule
             s == WithCapsule(node[n], c)
             d == PersistCapsule(disk[n], c)
             e == PersistClosure(d, c, k)
  <2>1. c \in Capsule
    BY <1>3, MessageTypes DEF TypeOK
  <2>2. RestartFrom(n, e) /\ Accepts(s, m) /\ MayApply(s.protocol, c)
    BY <1>3 DEF CrashInClosure
  <2>3. c \in Closed
    BY <2>1, <2>2, ProofCloses DEF Accepts
  <2>4. s.protocol.known = Known(n) /\ s.protocol.current = Current(n)
    BY <2>1, HelperSeals DEF Known, Current
  <2>5. MayApply(node[n].protocol, c)
    BY <2>2, <2>4 DEF MayApply, Known, Current
  <2>6. d \in Disk /\ d.known = disk[n].known /\ d.current = disk[n].current
    BY <2>1, DiskTypes, DiskSeals
  <2>7. /\ e.current = d.current
        /\ e.known \in {d.known, d.known \cup {Pred[c]}, d.known \cup {Pred[c], c}}
    BY <2>1, <2>6, DiskSeals
  <2> HIDE DEF s, d, e, c
  <2> QED
    BY <2>2, <2>3, <2>5, <2>6, <2>7, RecoverStep
<1> QED
  BY <1>1, <1>2, <1>3 DEF CrashStep

\* Every step is a step of one node of one of these kinds.
LEMMA NextSteps ==
    ASSUME TypeOK, LockDiscipline, Next
    PROVE  \E n \in Node : StepOf(n)
<1>1. ASSUME NEW n \in Node, NodeStep(n) PROVE StepOf(n)
  <2>1. CASE \E c \in Capsule : \/ SubmitClosed(n, c) \/ Submit(n, c)
                                \/ SubmitTimeout(n, c) \/ ReceiveCapsule(n, c)
    BY <2>1, CapsuleSteps
  <2>2. ASSUME NEW m \in msgs, m.type = "RECEIPT", HandleReceipt(n, m.receipt)
        PROVE  StepOf(n)
    BY <2>2, ReceiptSteps, MessageTypes DEF TypeOK
  <2>3. ASSUME NEW m \in msgs, m.type = "CLOSURE", HandleClosure(n, m)
        PROVE  StepOf(n)
    BY <2>3, ClosureSteps DEF TypeOK
  <2>4. CASE \E t \in node[n].tasks : RunTask(n, t)
    BY <2>4, TaskSteps
  <2> QED
    BY <1>1, <2>1, <2>2, <2>3, <2>4 DEF NodeStep
<1>2. ASSUME NEW n \in Node, CrashStep(n) PROVE StepOf(n)
  BY <1>2, CrashSteps
<1> QED
  BY <1>1, <1>2 DEF Next

-----------------------------------------------------------------------------
(* What a node knows *)

\* A node holds in memory the seals of its store; each of them, back to the
\* genesis seals, was closed; and it is at one of them for every resource.
SealsOf(n) ==
    /\ Known(n) = Resource \cup disk[n].known
    /\ Current(n) = disk[n].current
    /\ \A r \in Resource : Current(n)[r] \in Known(n) /\ ResourceOf[Current(n)[r]] = r
    /\ \A s \in Known(n) \ Resource : s \in Closed /\ Pred[s] \in Known(n)

(***************************************************************************)
(* The inductive invariant for what nodes know: it holds with any members  *)
(* faulty and any others restarting.                                       *)
(***************************************************************************)
SealInv ==
    /\ \A n \in Node : SealsOf(n)
    /\ RepliesAreDurable

\* What is closed stays closed.
LEMMA ClosedStays ==
    ASSUME NEW n \in Node, StepOf(n)
    PROVE  Closed \subseteq Closed'
<1>1. \A c \in Capsule : Accepted(c) \subseteq Accepted(c)' /\ Accepted(c)' \subseteq Member
  BY DEF StepOf, SignsOne, Moves, Recovers, NothingSigned, Accepted, Node
<1>2. ASSUME NEW c \in Closed PROVE c \in Closed'
  <2>1. IsQuorum(Accepted(c)) /\ c \in Capsule
    BY DEF Closed
  <2>2. Accepted(c) \in SUBSET Accepted(c)' /\ Accepted(c)' \in SUBSET Member
    BY <1>1, <2>1
  <2>3. IsQuorum(Accepted(c)')
    BY <2>1, <2>2, QuorumMonotone
  <2> QED
    BY <2>1, <2>3 DEF Closed
<1> QED
  BY <1>2

\* Every step keeps the invariant at the node that takes it, and that node
\* forgets no seal.
LEMMA StepSeals ==
    ASSUME TypeOK, TypeOK', NEW n \in Node, StepOf(n), SealsOf(n)
    PROVE  SealsOf(n)' /\ Known(n) \subseteq Known(n)'
<1> Closed \subseteq Closed'
  BY ClosedStays
<1> Current(n) \in [Resource -> Seal] /\ Known(n) \in SUBSET Seal
  BY DEF TypeOK, NodeState, Protocol, Current, Known
<1>1. CASE SealsStay(n)
  BY <1>1 DEF SealsStay, SealsOf
<1>2. ASSUME NEW c \in Capsule, Moves(n, c)
      PROVE  SealsOf(n)' /\ Known(n) \subseteq Known(n)'
  <2>1. /\ Pred[c] \in Known(n) /\ c \in Closed /\ c \in Seal
        /\ ResourceOf[c] \in Resource /\ Known(n)' = Known(n) \cup {c}
        /\ Current(n)' = [Current(n) EXCEPT ![ResourceOf[c]] = c]
    BY <1>2, CapsuleTypes DEF Moves, MayApply, Known
  <2>2. Known(n)' = (Resource \cup disk[n].known)'
    BY <1>2, <2>1 DEF Moves, SealsOf
  <2>3. Current(n)' = disk'[n].current
    BY <1>2 DEF Moves, SealsOf
  <2>4. \A r \in Resource : Current(n)'[r] \in Known(n)' /\ ResourceOf[Current(n)'[r]] = r
    BY <2>1 DEF SealsOf
  <2>5. \A s \in Known(n)' \ Resource : s \in Closed' /\ Pred[s] \in Known(n)'
    BY <2>1 DEF SealsOf
  <2> QED
    BY <2>1, <2>2, <2>3, <2>4, <2>5 DEF SealsOf
<1>3. CASE Recovers(n)
  <2>1. Current(n)' = Current(n) /\ Current(n)' = disk'[n].current
    BY <1>3 DEF Recovers, SealsOf
  <2>2. Known(n)' = (Resource \cup disk[n].known)'
    BY <1>3 DEF Recovers
  <2>3. \/ Known(n)' = Known(n)
        \/ \E c \in Closed : Pred[c] \in Known(n) /\ Known(n)' = Known(n) \cup {c}
    <3>1. CASE disk'[n].known = disk[n].known
      BY <1>3, <3>1 DEF Recovers, SealsOf
    <3>2. ASSUME NEW c \in Closed, MayApply(node[n].protocol, c),
                 \/ disk'[n].known = disk[n].known \cup {Pred[c]}
                 \/ disk'[n].known = disk[n].known \cup {Pred[c], c}
          PROVE  \/ Known(n)' = Known(n)
                 \/ Pred[c] \in Known(n) /\ Known(n)' = Known(n) \cup {c}
      <4>1. Pred[c] \in Known(n)
        BY <3>2 DEF MayApply, Known
      <4> QED
        BY <1>3, <3>2, <4>1 DEF Recovers, SealsOf
    <3> QED
      BY <1>3, <3>1, <3>2 DEF Recovers
  <2>4. \A s \in Known(n)' \ Resource : s \in Closed' /\ Pred[s] \in Known(n)'
    BY <2>3 DEF SealsOf
  <2>5. Known(n) \subseteq Known(n)'
    BY <2>3
  <2> QED
    BY <2>1, <2>2, <2>4, <2>5 DEF SealsOf
<1> QED
  BY <1>1, <1>2, <1>3 DEF StepOf, SignsOne

\* Initially nodes know the genesis seals.
LEMMA InitSeals == Init => SealInv
<1> SUFFICES ASSUME Init PROVE SealInv
  OBVIOUS
<1>1. ASSUME NEW n \in Node PROVE SealsOf(n)
  <2>1. /\ Known(n) = Resource /\ Current(n) = [r \in Resource |-> r]
        /\ disk[n].known = {} /\ disk[n].current = [r \in Resource |-> r]
    BY DEF Init, InitialProtocol, Known, Current
  <2> QED
    BY <2>1, SealAssumption DEF SealsOf
<1> QED
  BY <1>1 DEF Init, SealInv, RepliesAreDurable

\* Every step keeps the invariant.
LEMMA NextSeals ==
    TypeOK /\ TypeOK' /\ LockDiscipline /\ SealInv /\ [Next]_vars => SealInv'
<1> SUFFICES ASSUME TypeOK, TypeOK', LockDiscipline, SealInv, [Next]_vars PROVE SealInv'
  OBVIOUS
<1>1. CASE UNCHANGED vars
  BY <1>1 DEF vars, SealInv, SealsOf, Known, Current, RepliesAreDurable, Closed, Accepted
<1>2. CASE Next
  <2>1. PICK n \in Node : StepOf(n)
    BY <1>2, NextSteps
  <2>2. SealsOf(n)' /\ Known(n) \subseteq Known(n)'
    BY <2>1, StepSeals DEF SealInv
  <2>3. \A m \in Node \ {n} : SealsOf(m)' /\ Known(m)' = Known(m)
    <3> SUFFICES ASSUME NEW m \in Node \ {n} PROVE SealsOf(m)' /\ Known(m)' = Known(m)
      OBVIOUS
    <3>1. node'[m] = node[m] /\ disk'[m] = disk[m]
      BY <2>1 DEF StepOf
    <3>2. SealsOf(m)
      BY DEF SealInv
    <3>3. Closed \subseteq Closed'
      BY <2>1, ClosedStays
    <3> QED
      BY <3>1, <3>2, <3>3 DEF SealsOf, Known, Current
  <2>4. RepliesAreDurable'
    <3> SUFFICES ASSUME NEW a \in replies'
                 PROVE  a.seal \in Known(a.node)'
      BY DEF RepliesAreDurable, Known
    <3>1. CASE a \in replies
      <4>1. a.seal \in Known(a.node) /\ a.node \in Node
        BY <3>1 DEF SealInv, RepliesAreDurable, Known, TypeOK, Reply
      <4> QED
        BY <4>1, <2>2, <2>3
    <3>2. CASE a \notin replies
      <4>1. a.node = n /\ \E r \in Resource : a.seal = Current(n)'[r]
        BY <2>1, <3>2 DEF StepOf
      <4> QED
        BY <4>1, <2>2 DEF SealsOf
    <3> QED
      BY <3>1, <3>2
  <2> QED
    BY <2>2, <2>3, <2>4 DEF SealInv
<1> QED
  BY <1>1, <1>2

\* The invariant holds in every run.
LEMMA SealsAreKept == Spec => [](TypeOK /\ LockDiscipline /\ SealInv)
<1>1. Init => TypeOK /\ LockDiscipline /\ SealInv
  BY InitTypes, InitLocks, InitSeals
<1>2. TypeOK /\ LockDiscipline /\ SealInv /\ [Next]_vars
        => (TypeOK /\ LockDiscipline /\ SealInv)'
  BY NextTypes, NextLocks, NextSeals
<1> QED
  BY <1>1, <1>2, PTL DEF Spec

(***************************************************************************)
(* No application without a closure (paper I1), with any number of faulty  *)
(* and restarting members: whatever seal apply or a restart makes known to *)
(* a node was closed by a quorum of signatures, and so was every seal      *)
(* before it.                                                              *)
(***************************************************************************)
THEOREM KnownSealsWereClosed == Spec => []KnownSealsAreClosed
<1>1. SealInv => KnownSealsAreClosed
  BY DEF SealInv, SealsOf, KnownSealsAreClosed, Known
<1> QED
  BY <1>1, SealsAreKept, PTL

(***************************************************************************)
(* The seal in every answer to a client is known to the node that gave the *)
(* answer for ever after, across crashes at any point of _persist_closure. *)
(***************************************************************************)
THEOREM AnswersSurviveCrashes == Spec => []RepliesAreDurable
<1>1. SealInv => RepliesAreDurable
  BY DEF SealInv
<1> QED
  BY <1>1, SealsAreKept, PTL

(***************************************************************************)
(* A node goes from a seal to a successor of it, at every step of every    *)
(* handler and at every restart: it skips no seal and takes none back.     *)
(***************************************************************************)
THEOREM NodesWalkSealBySeal == Spec => SealsAdvance
<1>1. TypeOK /\ TypeOK' /\ LockDiscipline /\ SealInv /\ [Next]_vars =>
        \A n \in Node : \A r \in Resource :
          LET s == node[n].protocol.current[r]
              t == node'[n].protocol.current[r]
          IN  t # s => t \in Capsule /\ Pred[t] = s
  <2> SUFFICES ASSUME TypeOK, TypeOK', LockDiscipline, SealInv, [Next]_vars,
                      NEW m \in Node, NEW r \in Resource, Current(m)'[r] # Current(m)[r]
               PROVE  Current(m)'[r] \in Capsule /\ Pred[Current(m)'[r]] = Current(m)[r]
    BY DEF Current
  <2>1. CASE UNCHANGED vars
    BY <2>1 DEF vars, Current
  <2>2. CASE Next
    <3>1. PICK n \in Node : StepOf(n)
      BY <2>2, NextSteps
    <3>2. m = n
      BY <3>1 DEF StepOf, Current
    <3>3. ~SealsStay(n) /\ ~Recovers(n)
      BY <3>2 DEF SealsStay, Recovers, SealInv, SealsOf
    <3>4. PICK c \in Capsule : Moves(n, c)
      BY <3>1, <3>3 DEF StepOf, SignsOne
    <3>5. Current(n) \in [Resource -> Seal]
      BY DEF TypeOK, NodeState, Protocol, Current
    <3>6. ResourceOf[c] = ResourceOf[Pred[c]] /\ ResourceOf[c] \in Resource
      BY SealAssumption, CapsuleTypes
    <3>7. Current(n)[ResourceOf[c]] \in {Pred[c], c}
      BY <3>4, <3>6 DEF Moves, MayApply, Current
    <3>8. r = ResourceOf[c] /\ Current(n)'[r] = c
      BY <3>2, <3>4, <3>5, <3>6 DEF Moves
    <3> QED
      BY <3>2, <3>7, <3>8
  <2> QED
    BY <2>1, <2>2
<1>2. TypeOK /\ LockDiscipline /\ SealInv /\ [Next]_vars => TypeOK'
  BY NextTypes
<1> QED
  BY <1>1, <1>2, SealsAreKept, PTL DEF SealsAdvance, Spec

-----------------------------------------------------------------------------
(* One chain per resource *)

\* The seals that are genesis seals or closed.
Chained == Resource \cup Closed

\* Honest members sign successors of chained seals only.
SignedAfterClosed ==
    \A c \in Capsule : \A w \in Node : w \in Accepted(c) => Pred[c] \in Chained

\* A resource has one chained seal of each version.
OneSealPerVersion ==
    \A s, t \in Chained :
        ResourceOf[s] = ResourceOf[t] /\ Version[s] = Version[t] => s = t

\* A closed capsule extends a chained seal, and no other closed one does.
ClosedOnChain ==
    \A c \in Closed : /\ Pred[c] \in Chained
                      /\ \A d \in Closed : Pred[c] = Pred[d] => c = d

(***************************************************************************)
(* The inductive invariant for agreement.  Two seals with one version have *)
(* predecessors with one version, so the induction along the chain is      *)
(* carried by the steps that close capsules.                               *)
(***************************************************************************)
ChainInv == SignedAfterClosed /\ ClosedOnChain /\ OneSealPerVersion

\* A quorum has an honest member, which signed a successor of a chained seal;
\* two have a member in common that signed both capsules under one lock.
LEMMA QuorumsKeepToTheChain ==
    ASSUME WithinFaultBound(Forgetful)
    PROVE  LockDiscipline /\ SignedAfterClosed => ClosedOnChain
<1> SUFFICES ASSUME LockDiscipline, SignedAfterClosed, NEW c \in Closed
             PROVE  /\ Pred[c] \in Chained
                    /\ \A d \in Closed : Pred[c] = Pred[d] => c = d
  BY DEF ClosedOnChain
<1>1. c \in Capsule /\ IsQuorum(Accepted(c))
  BY DEF Closed
<1>2. PICK w \in Accepted(c) \cap Accepted(c) : w \notin Forgetful
  BY <1>1, QuorumIntersection
<1>3. w \in Node
  BY <1>2 DEF Accepted, Forgetful, Node
<1>4. Pred[c] \in Chained
  BY <1>1, <1>2, <1>3 DEF SignedAfterClosed
<1> QED
  BY <1>4, ClosedExcludes

\* At most one capsule is closed by a step, and no seal moves at that step.
LEMMA ClosedByStep ==
    ASSUME NEW n \in Node, StepOf(n)
    PROVE  \/ Closed' = Closed
           \/ \E c \in Capsule : SignsOne(n, c) /\ Closed' = Closed \cup {c}
<1>1. CASE NothingSigned
  BY <1>1 DEF NothingSigned, Closed
<1>2. ASSUME NEW c \in Capsule, SignsOne(n, c)
      PROVE  Closed' = Closed \/ Closed' = Closed \cup {c}
  <2>1. \A d \in Capsule \ {c} : d \in Closed' <=> d \in Closed
    BY <1>2 DEF SignsOne, Closed
  <2>2. Closed \subseteq Closed' /\ Closed' \subseteq Capsule
    BY ClosedStays DEF Closed
  <2> QED
    BY <2>1, <2>2
<1> QED
  BY <1>1, <1>2 DEF StepOf, Moves, Recovers

\* Signing keeps to the chain.
LEMMA StepSigned ==
    ASSUME NEW n \in Node, StepOf(n), SealsOf(n), SignedAfterClosed
    PROVE  SignedAfterClosed'
<1> SUFFICES ASSUME NEW c \in Capsule, NEW w \in Node, w \in Accepted(c)'
             PROVE  Pred[c] \in Chained'
  BY DEF SignedAfterClosed
<1>1. Closed \subseteq Closed'
  BY ClosedStays
<1>2. CASE w \in Accepted(c)
  BY <1>1, <1>2 DEF SignedAfterClosed, Chained
<1>3. CASE w \notin Accepted(c)
  <2>1. SignsOne(n, c)
    BY <1>3 DEF StepOf, SignsOne, Moves, Recovers, NothingSigned
  <2>2. Pred[c] \in Known(n)
    BY <2>1 DEF SignsOne
  <2> QED
    BY <1>1, <2>2 DEF SealsOf, Chained
<1> QED
  BY <1>2, <1>3

\* A capsule that a step closes is the only one of its version: another one
\* would have the same predecessor.
LEMMA VersionsStayUnique ==
    ASSUME NEW n \in Node, StepOf(n), OneSealPerVersion, ClosedOnChain, ClosedOnChain'
    PROVE  OneSealPerVersion'
<1>1. CASE Closed' = Closed
  BY <1>1 DEF OneSealPerVersion, Chained
<1>2. ASSUME NEW c \in Capsule, SignsOne(n, c), Closed' = Closed \cup {c}, c \notin Closed
      PROVE  OneSealPerVersion'
  <2> USE CapsuleAssumption, SealAssumption DEF Seal
  <2>1. Closed \subseteq Capsule
    BY DEF Closed
  <2>2. Pred[c] \in Chained
    <3>1. Pred[c] \in Chained'
      BY <1>2 DEF ClosedOnChain
    <3>2. Pred[c] # c
      OBVIOUS
    <3> QED
      BY <1>2, <3>1, <3>2 DEF Chained
  <2>3. ASSUME NEW t \in Chained, ResourceOf[c] = ResourceOf[t], Version[c] = Version[t]
        PROVE  FALSE
    <3>1. t \in Closed /\ t \in Capsule
      BY <2>3, <2>1 DEF Chained
    <3>2. Pred[t] \in Chained
      BY <3>1 DEF ClosedOnChain
    <3>3. ResourceOf[Pred[t]] = ResourceOf[Pred[c]] /\ Version[Pred[t]] = Version[Pred[c]]
      BY <2>3, <3>1
    <3>4. Pred[t] = Pred[c]
      BY <2>2, <3>2, <3>3 DEF OneSealPerVersion
    <3>5. t = c
      BY <1>2, <3>1, <3>4 DEF ClosedOnChain
    <3> QED
      BY <1>2, <3>1, <3>5
  <2> QED
    BY <1>2, <2>3 DEF OneSealPerVersion, Chained
<1> QED
  BY <1>1, <1>2, ClosedByStep

\* Initially only faulty members have signed, and they are no quorum.
LEMMA InitSigned == Init => SignedAfterClosed
<1> SUFFICES ASSUME Init, NEW w \in Node, NEW c \in Capsule, w \in Accepted(c) PROVE FALSE
  BY DEF SignedAfterClosed
<1> DEFINE m == ReceiptMessage(ReceiptOf(c, w, "ACCEPT"))
<1>1. m \in Stray
  BY DEF Init, Accepted
<1>2. m.type = "RECEIPT" /\ m.receipt.valid /\ m.receipt.witness = w
  BY DEF ReceiptMessage, ReceiptOf
<1> HIDE DEF m
<1> QED
  BY <1>1, <1>2, FaultAssumption DEF Node

\* Initially nothing is closed.
LEMMA InitClosed ==
    ASSUME WithinFaultBound(Forgetful)
    PROVE  Init => Closed = {}
<1> SUFFICES ASSUME Init, NEW c \in Closed PROVE FALSE
  OBVIOUS
<1>1. c \in Capsule /\ IsQuorum(Accepted(c))
  BY DEF Closed
<1>2. PICK w \in Accepted(c) \cap Accepted(c) : w \notin Forgetful
  BY <1>1, QuorumIntersection
<1>3. w \in Node
  BY <1>2 DEF Accepted, Forgetful, Node
<1> DEFINE m == ReceiptMessage(ReceiptOf(c, w, "ACCEPT"))
<1>4. m \in Stray
  BY <1>2 DEF Init, Accepted
<1>5. m.type = "RECEIPT" /\ m.receipt.valid /\ m.receipt.witness = w
  BY DEF ReceiptMessage, ReceiptOf
<1> HIDE DEF m
<1> QED
  BY <1>3, <1>4, <1>5, FaultAssumption DEF Node

\* The invariants hold in every run within the fault bound.
LEMMA ChainIsKept ==
    ASSUME WithinFaultBound(Forgetful)
    PROVE  Spec => [](TypeOK /\ LockDiscipline /\ SealInv /\ ChainInv)
<1>1. TypeOK /\ LockDiscipline /\ SealInv /\ SignedAfterClosed /\ [Next]_vars
        => SignedAfterClosed'
  <2> SUFFICES ASSUME TypeOK, LockDiscipline, SealInv, SignedAfterClosed, [Next]_vars
               PROVE  SignedAfterClosed'
    OBVIOUS
  <2>1. CASE UNCHANGED vars
    BY <2>1 DEF vars, SignedAfterClosed, Chained, Closed, Accepted
  <2>2. CASE Next
    BY <2>2, NextSteps, StepSigned DEF SealInv
  <2> QED
    BY <2>1, <2>2
<1>2. Spec => []SignedAfterClosed
  BY <1>1, InitSigned, SealsAreKept, PTL DEF Spec
<1>q. LockDiscipline /\ SignedAfterClosed => ClosedOnChain
  BY QuorumsKeepToTheChain
<1>3. Spec => []ClosedOnChain
  BY <1>2, <1>q, SealsAreKept, PTL
<1>4. Init => OneSealPerVersion
  BY InitClosed, SealAssumption DEF OneSealPerVersion, Chained
<1>5. TypeOK /\ LockDiscipline /\ ClosedOnChain /\ ClosedOnChain' /\ OneSealPerVersion
        /\ [Next]_vars => OneSealPerVersion'
  <2> SUFFICES ASSUME TypeOK, LockDiscipline, ClosedOnChain, ClosedOnChain',
                      OneSealPerVersion, [Next]_vars
               PROVE  OneSealPerVersion'
    OBVIOUS
  <2>1. CASE UNCHANGED vars
    BY <2>1 DEF vars, OneSealPerVersion, Chained, Closed, Accepted
  <2>2. CASE Next
    BY <2>2, NextSteps, VersionsStayUnique
  <2> QED
    BY <2>1, <2>2
<1>6. Spec => []OneSealPerVersion
  BY <1>3, <1>4, <1>5, SealsAreKept, PTL DEF Spec
<1> QED
  BY <1>2, <1>3, <1>6, SealsAreKept, PTL DEF ChainInv

(***************************************************************************)
(* The nodes' resources never diverge, if faulty members and members that  *)
(* restart together have at most one third of the weight: two nodes that   *)
(* hold one version of a resource hold the same seal.                      *)
(***************************************************************************)
THEOREM NodesAgree ==
    ASSUME WithinFaultBound(Forgetful)
    PROVE  Spec => []SealAgreement
<1>1. SealInv /\ ChainInv => SealAgreement
  <2> SUFFICES ASSUME SealInv, ChainInv, NEW m \in Node, NEW n \in Node, NEW r \in Resource,
                      Version[Current(m)[r]] = Version[Current(n)[r]]
               PROVE  Current(m)[r] = Current(n)[r]
    BY DEF SealAgreement, Current
  <2>1. Current(m)[r] \in Chained /\ ResourceOf[Current(m)[r]] = r
    BY DEF SealInv, SealsOf, Chained
  <2>2. Current(n)[r] \in Chained /\ ResourceOf[Current(n)[r]] = r
    BY DEF SealInv, SealsOf, Chained
  <2> QED
    BY <2>1, <2>2 DEF ChainInv, OneSealPerVersion
<1> QED
  BY <1>1, ChainIsKept, PTL

-----------------------------------------------------------------------------
(* The nodes implement SealChain *)

\* Initial states are initial states of SealChain.
LEMMA InitRefines ==
    ASSUME WithinFaultBound(Forgetful)
    PROVE  Init => Chains!Init
BY InitClosed DEF Chains!Init, Init, InitialProtocol

Heads == [n \in Node |-> node[n].protocol.current]

\* A step that leaves the current seals of its node alone moves no head.
LEMMA HeadsStay ==
    ASSUME NEW n \in Node, StepOf(n), Current(n)' = Current(n)
    PROVE  Heads' = Heads
<1>1. \A m \in Node : node'[m].protocol.current = node[m].protocol.current
  BY DEF StepOf, Current
<1> QED
  BY <1>1 DEF Heads

\* The signature that completes a quorum is the step Close of SealChain.
LEMMA SigningRefines ==
    ASSUME NEW n \in Node, StepOf(n), ClosedOnChain', NEW c \in Capsule, SignsOne(n, c),
           Closed' = Closed \cup {c}, c \notin Closed
    PROVE  Chains!Close(c)
<1>1. Heads' = Heads
  BY HeadsStay DEF SignsOne, SealsStay
<1>2. /\ Pred[c] \in Resource \cup Closed'
      /\ \A d \in Closed' : Pred[c] = Pred[d] => c = d
  BY DEF ClosedOnChain, Chained
<1>3. Pred[c] # c
  BY SealAssumption, CapsuleAssumption DEF Seal
<1> QED
  BY <1>1, <1>2, <1>3 DEF Chains!Close, Heads

\* Applying a closure is the step Advance, or none if it was applied before.
LEMMA MovingRefines ==
    ASSUME TypeOK, NEW n \in Node, StepOf(n), NEW c \in Capsule, Moves(n, c)
    PROVE  Chains!Advance(n, c) \/ UNCHANGED <<Closed, Heads>>
<1> DEFINE r == ResourceOf[c]
<1>1. r = ResourceOf[Pred[c]] /\ r \in Resource
  BY SealAssumption, CapsuleTypes
<1>2. Current(n)[r] \in {Pred[c], c} /\ Current(n)' = [Current(n) EXCEPT ![r] = c]
  BY <1>1 DEF Moves, MayApply, Current
<1>3. Current(n) \in [Resource -> Seal]
  BY DEF TypeOK, NodeState, Protocol, Current
<1>4. Closed' = Closed /\ c \in Closed
  BY DEF Moves, NothingSigned, Closed
<1> HIDE DEF r
<1>5. CASE Current(n)[r] = c
  <2>1. Current(n)' = Current(n)
    BY <1>1, <1>2, <1>3, <1>5
  <2> QED
    BY <2>1, <1>4, HeadsStay
<1>6. CASE Current(n)[r] = Pred[c]
  <2>1. \A m \in Node : Heads[m] = Current(m) /\ Heads'[m] = Current(m)'
    BY DEF Heads, Current
  <2>2. \A m \in Node \ {n} : Heads'[m] = Heads[m]
    BY <2>1 DEF StepOf, Current
  <2>3. Heads' = [Heads EXCEPT ![n] = [Heads[n] EXCEPT ![r] = c]]
    BY <2>1, <2>2, <1>2 DEF Heads
  <2>4. Heads[n][r] = Pred[c]
    BY <2>1, <1>6
  <2> QED
    BY <2>3, <2>4, <1>4 DEF Chains!Advance, Heads, r
<1> QED
  BY <1>2, <1>5, <1>6

\* Every step of the nodes is a step of SealChain or none at all.
LEMMA StepRefines ==
    ASSUME TypeOK, LockDiscipline, SealInv, ClosedOnChain', [Next]_vars
    PROVE  [Chains!Next]_<<Closed, Heads>>
<1>1. CASE UNCHANGED vars
  BY <1>1 DEF vars, Closed, Accepted, Heads
<1>2. CASE Next
  <2>1. PICK n \in Node : StepOf(n)
    BY <1>2, NextSteps
  <2>2. ASSUME NEW c \in Capsule, Moves(n, c) PROVE [Chains!Next]_<<Closed, Heads>>
    BY <2>1, <2>2, MovingRefines DEF Chains!Next
  <2>3. ASSUME NEW c \in Capsule, SignsOne(n, c) PROVE [Chains!Next]_<<Closed, Heads>>
    <3>1. Heads' = Heads
      BY <2>1, <2>3, HeadsStay DEF SignsOne, SealsStay
    <3>2. CASE Closed' = Closed
      BY <3>1, <3>2
    <3>3. CASE Closed' # Closed
      <4>1. PICK d \in Capsule : SignsOne(n, d) /\ Closed' = Closed \cup {d}
        BY <2>1, <3>3, ClosedByStep
      <4>2. Chains!Close(d) /\ d \in Capsule \ Closed
        BY <2>1, <3>3, <4>1, SigningRefines
      <4> QED
        BY <4>2 DEF Chains!Next
    <3> QED
      BY <3>2, <3>3
  <2>4. CASE NothingSigned /\ Current(n)' = Current(n)
    BY <2>1, <2>4, HeadsStay DEF NothingSigned, Closed
  <2>5. Recovers(n) => NothingSigned /\ Current(n)' = Current(n)
    BY DEF Recovers, SealInv, SealsOf
  <2>6. SealsStay(n) => Current(n)' = Current(n)
    BY DEF SealsStay
  <2> QED
    BY <2>1, <2>2, <2>3, <2>4, <2>5, <2>6 DEF StepOf
<1> QED
  BY <1>1, <1>2

(***************************************************************************)
(* The validators implement SealChain: through every interleaving of       *)
(* submissions, receipts, closures, retries and crashes there is one chain *)
(* of closed capsules per resource, it only grows at its end, and each     *)
(* node walks along it, if faulty and restarting members together have at  *)
(* most one third of the weight.                                           *)
(***************************************************************************)
THEOREM NodesImplementSealChain ==
    ASSUME WithinFaultBound(Forgetful)
    PROVE  Spec => ImplementsSealChain
<1>1. Init => Chains!Init
  BY InitRefines
<1>2. TypeOK /\ LockDiscipline /\ SealInv /\ ChainInv' /\ [Next]_vars
        => [Chains!Next]_<<Closed, Heads>>
  BY StepRefines DEF ChainInv
<1>3. Spec => [](TypeOK /\ LockDiscipline /\ SealInv /\ ChainInv)
  BY ChainIsKept
<1> QED
  BY <1>1, <1>2, <1>3, PTL DEF Spec, ImplementsSealChain, Chains!Spec, Heads

=============================================================================
