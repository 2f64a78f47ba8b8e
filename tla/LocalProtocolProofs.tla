------------------------ MODULE LocalProtocolProofs -------------------------
(***************************************************************************)
(* Proofs about one protocol object and its public methods                 *)
(* (LocalProtocol): closures of one attempt exclude each other, locks only *)
(* pass to later attempts, a closed outcome is final, and the known seals  *)
(* form one chain per resource.                                            *)
(***************************************************************************)
EXTENDS LocalProtocol, WeightedQuorumProofs

TypeInv == object \in Protocol /\ issued \in SUBSET Receipt

-----------------------------------------------------------------------------
(* What the methods do to the object *)

\* The seal that a capsule consumes and the resource they belong to.
LEMMA CapsuleFacts ==
    ASSUME NEW c \in Capsule
    PROVE  /\ c \in Seal /\ c # None /\ Pred[c] \in Seal /\ Pred[c] # c
           /\ ResourceOf[c] \in Resource /\ ResourceOf[Pred[c]] = ResourceOf[c]
BY CapsuleAssumption, SealAssumption DEF Seal

Abandoned(p, c) == [p EXCEPT !.abandons = @ \cup {c}]

\* What create_capsule, register_closure, abandon and apply change.
LEMMA MethodEffects ==
    ASSUME NEW p \in Protocol, NEW c \in Capsule
    PROVE  /\ \A q \in {AddCapsule(p, c), Register(p, c), Abandoned(p, c)} :
                 /\ q \in Protocol /\ q.locks = p.locks
                 /\ q.current = p.current /\ q.known = p.known
                 /\ p.closures \subseteq q.closures /\ q.closures \subseteq p.closures \cup {c}
           /\ AddCapsule(p, c).closures = p.closures
           /\ Abandoned(p, c).closures = p.closures
           /\ Apply(p, c) \in Protocol /\ Apply(p, c).locks = p.locks
           /\ Apply(p, c).closures = p.closures
           /\ Apply(p, c).current = [p.current EXCEPT ![ResourceOf[c]] = c]
           /\ Apply(p, c).known = p.known \cup {c}
<1>1. /\ AddCapsule(p, c) \in Protocol /\ AddCapsule(p, c).locks = p.locks
      /\ AddCapsule(p, c).current = p.current /\ AddCapsule(p, c).known = p.known
      /\ AddCapsule(p, c).closures = p.closures
  BY DEF AddCapsule, Protocol
<1>2. /\ Register(p, c) \in Protocol /\ Register(p, c).locks = p.locks
      /\ Register(p, c).current = p.current /\ Register(p, c).known = p.known
      /\ Register(p, c).closures = p.closures \cup {c}
  BY DEF Register, Protocol
<1>3. LET q == Abandoned(p, c)
      IN  /\ q \in Protocol /\ q.locks = p.locks /\ q.current = p.current /\ q.known = p.known
          /\ q.closures = p.closures
  BY DEF Abandoned, Protocol
<1>4. /\ Apply(p, c) \in Protocol /\ Apply(p, c).locks = p.locks
      /\ Apply(p, c).closures = p.closures
      /\ Apply(p, c).current = [p.current EXCEPT ![ResourceOf[c]] = c]
      /\ Apply(p, c).known = p.known \cup {c}
  BY CapsuleFacts DEF Apply, Protocol
<1> QED
  BY <1>1, <1>2, <1>3, <1>4

\* A capsule may get the lock of its predecessor: nobody has it, it has it
\* already, or an earlier attempt has it.
MayTake(p, c) ==
    \/ LockOn(p, c).capsule \in {None, c}
    \/ LockOn(p, c).capsule \in Capsule /\ Attempt[c] > Attempt[LockOn(p, c).capsule]

\* In q, c has the lock of its predecessor, and the other locks are those of p.
Locks(p, q, c) ==
    /\ MayTake(p, c)
    /\ q.locks[Pred[c]].capsule = c
    /\ \A s \in Seal \ {Pred[c]} : q.locks[s] = p.locks[s]

\* A protocol object with other locks.
Relocked(p, L, C) == [p EXCEPT !.locks = L, !.capsules = C]

\* Nothing else changes.
LEMMA LockEffects ==
    ASSUME NEW p \in Protocol, NEW L \in [Seal -> Lock], NEW C \in SUBSET Capsule
    PROVE  /\ Relocked(p, L, C) \in Protocol /\ Relocked(p, L, C).locks = L
           /\ Relocked(p, L, C).current = p.current /\ Relocked(p, L, C).known = p.known
           /\ Relocked(p, L, C).closures = p.closures
BY DEF Protocol, Relocked

\* What witness_receipt changes: a lock, if it signs.
LEMMA WitnessEffects ==
    ASSUME NEW p \in Protocol, NEW c \in Capsule, NEW st \in Status,
           NEW q, q = AfterWitness(p, c, st)
    PROVE  /\ q \in Protocol
           /\ q.current = p.current /\ q.known = p.known /\ q.closures = p.closures
           /\ Signs(p, c, st) => Locks(p, q, c)
           /\ ~Signs(p, c, st) => q.locks = p.locks
<1> Pred[c] \in Seal /\ p.locks \in [Seal -> Lock] /\ LockOn(p, c) \in Lock
  BY CapsuleFacts DEF Protocol, LockOn
<1>1. LockOn(p, c) = NoLock \/ LockOn(p, c).capsule \in Capsule
  BY DEF Lock, LockOf
<1>2. CASE Signs(p, c, st)
  <2>1. MayTake(p, c)
    BY <1>1, <1>2 DEF MayTake, Signs, SignsAccept, SignsAbandon, Released, NoLock,
                      LockOf
  <2>2. q = TakeLock(p, c, st)
    BY <1>2 DEF AfterWitness
  <2>3. CASE st = "ACCEPT" /\ LockOn(p, c).capsule = c
    BY <2>1, <2>2, <2>3, <1>2 DEF TakeLock, Locks, LockOn
  <2>4. CASE ~(st = "ACCEPT" /\ LockOn(p, c).capsule = c)
    <3>1. q = [p EXCEPT !.locks[Pred[c]] = LockOf(c, st), !.capsules = @ \cup {c}]
      BY <2>2, <2>4 DEF TakeLock
    <3>2. LockOf(c, st) \in Lock /\ LockOf(c, st).capsule = c
      BY DEF Lock, LockOf
    <3>3. q \in Protocol /\ q.locks = [p.locks EXCEPT ![Pred[c]] = LockOf(c, st)]
            /\ q.current = p.current /\ q.known = p.known /\ q.closures = p.closures
      <4> DEFINE L == [p.locks EXCEPT ![Pred[c]] = LockOf(c, st)]
      <4>1. L \in [Seal -> Lock]
        BY <3>2
      <4>2. q = Relocked(p, L, p.capsules \cup {c})
        BY <3>1 DEF Protocol, Relocked
      <4> HIDE DEF L
      <4> p.capsules \cup {c} \in SUBSET Capsule
        BY DEF Protocol
      <4>3. q \in Protocol /\ q.locks = L /\ q.current = p.current /\ q.known = p.known
              /\ q.closures = p.closures
        BY <4>1, <4>2, LockEffects
      <4> QED
        BY <4>3 DEF L
    <3> QED
      BY <1>2, <2>1, <3>2, <3>3 DEF Locks
  <2> QED
    BY <2>3, <2>4
<1>3. CASE ~Signs(p, c, st) /\ Conflicts(p, c, st)
  <2>1. q = [p EXCEPT !.evidence = @ \cup {{LockOn(p, c).capsule, c}}]
    BY <1>3 DEF AfterWitness, RecordConflict
  <2>2. {LockOn(p, c).capsule, c} \in SUBSET Capsule
    BY <1>3 DEF Conflicts, Protocol
  <2> QED
    BY <1>3, <2>1, <2>2 DEF Protocol
<1>4. CASE ~Signs(p, c, st) /\ ~Conflicts(p, c, st)
  BY <1>4 DEF AfterWitness
<1> QED
  BY <1>2, <1>3, <1>4

-----------------------------------------------------------------------------
(* What a step does *)

AcceptedIn(I) == {c \in Capsule : \E w \in Member : ReceiptOf(c, w, "ACCEPT") \in I}

\* The capsules that are closed or that somebody has a receipt for.
Granted == object.closures \cup AcceptedIn(issued)

\* Locks change when a capsule gets one, and only then more is granted.
LockStep ==
    \/ object'.locks = object.locks /\ Granted' \subseteq Granted
    \/ \E c \in Capsule : Locks(object, object', c) /\ Granted' \subseteq Granted \cup {c}

Moves(c) ==
    /\ MayApply(object, c)
    /\ object'.current = [object.current EXCEPT ![ResourceOf[c]] = c]
    /\ object'.known = object.known \cup {c}

MovesAll(B) ==
    /\ \A c \in B : IsCurrent(object, Pred[c])
    /\ object'.known = object.known \cup B
    /\ \E last \in Orders(B) :
          object'.current =
             [r \in Resource |-> IF r \in DOMAIN last THEN last[r] ELSE object.current[r]]

\* Seals change when closures are applied.
SealStep ==
    \/ object'.current = object.current /\ object'.known = object.known
    \/ \E c \in Capsule : Moves(c)
    \/ \E B \in Bundle : MovesAll(B)

StepFacts ==
    /\ TypeInv'
    /\ LockStep
    /\ SealStep
    /\ object.closures \subseteq object'.closures

Issuing(I, c, S, st) == I \cup Receipts(c, S, st)

\* Receipts that members sign.
LEMMA ReceiptFacts ==
    ASSUME NEW c \in Capsule, NEW S \in SUBSET Member, NEW I \in SUBSET Receipt
    PROVE  /\ \A st \in Status : Issuing(I, c, S, st) \in SUBSET Receipt
           /\ AcceptedIn(Issuing(I, c, S, "ACCEPT")) \subseteq AcceptedIn(I) \cup {c}
           /\ AcceptedIn(Issuing(I, c, S, "ABANDON")) = AcceptedIn(I)
           /\ (\A w \in S : ReceiptOf(c, w, "ACCEPT") \in I) /\ IsQuorum(S) => c \in AcceptedIn(I)
<1>1. \A st \in Status : I \cup Receipts(c, S, st) \in SUBSET Receipt
  <2>1. \A st \in Status, w \in Member : ReceiptOf(c, w, st) \in Receipt
    BY DEF Receipt, ReceiptOf
  <2> QED
    BY <2>1 DEF Receipts
<1>0. \A d, w, st : ReceiptOf(d, w, st).capsule = d /\ ReceiptOf(d, w, st).status = st
  BY DEF ReceiptOf
<1>2. \A d, w : ReceiptOf(d, w, "ACCEPT") \in Receipts(c, S, "ACCEPT") => d = c
  BY <1>0 DEF Receipts
<1>3. \A d, w : ReceiptOf(d, w, "ACCEPT") \notin Receipts(c, S, "ABANDON")
  BY <1>0 DEF Receipts
<1>4. IsQuorum(S) => S # {}
  BY QuorumNonEmpty
<1> QED
  BY <1>1, <1>2, <1>3, <1>4 DEF AcceptedIn, Issuing

\* witness_receipt, alone or followed by a registration or an abandonment.
LEMMA SigningStep ==
    ASSUME TypeInv, NEW c \in Capsule, NEW st \in Status, NEW S \in SUBSET Member,
           NEW q, q = AfterWitness(object, c, st),
           \/ object' = q
           \/ st = "ACCEPT" /\ Signs(object, c, st) /\ object' = Register(q, c)
           \/ object' = Abandoned(q, c),
           issued' = IF Signs(object, c, st) THEN issued \cup Receipts(c, S, st) ELSE issued
    PROVE  StepFacts
<1>1. /\ q \in Protocol
      /\ q.current = object.current /\ q.known = object.known /\ q.closures = object.closures
      /\ Signs(object, c, st) => Locks(object, q, c)
      /\ ~Signs(object, c, st) => q.locks = object.locks
  BY WitnessEffects DEF TypeInv
<1>2. /\ object' \in Protocol /\ object'.locks = q.locks
      /\ object'.current = q.current /\ object'.known = q.known
      /\ q.closures \subseteq object'.closures
      /\ object'.closures \subseteq q.closures \cup {c}
      /\ st = "ABANDON" \/ ~Signs(object, c, st) => object'.closures = q.closures
  <2>1. CASE object' = q
    BY <1>1, <2>1
  <2>2. CASE st = "ACCEPT" /\ Signs(object, c, st) /\ object' = Register(q, c)
    BY <1>1, <2>2, MethodEffects
  <2>3. CASE object' = Abandoned(q, c)
    BY <1>1, <2>3, MethodEffects
  <2> QED
    BY <2>1, <2>2, <2>3
<1>3. issued' \in SUBSET Receipt
  BY ReceiptFacts DEF TypeInv, Issuing
<1>4. LockStep
  <2>1. CASE ~Signs(object, c, st)
    BY <1>1, <1>2, <2>1 DEF LockStep, Granted
  <2>2. CASE Signs(object, c, st)
    <3>1. AcceptedIn(issued') \subseteq AcceptedIn(issued) \cup {c}
      <4>1. st = "ACCEPT" \/ st = "ABANDON"
        BY DEF Status
      <4>2. issued' = Issuing(issued, c, S, st) /\ issued \in SUBSET Receipt
        BY <2>2 DEF TypeInv, Issuing
      <4>3. /\ AcceptedIn(Issuing(issued, c, S, "ACCEPT")) \subseteq AcceptedIn(issued) \cup {c}
            /\ AcceptedIn(Issuing(issued, c, S, "ABANDON")) = AcceptedIn(issued)
        BY <4>2, ReceiptFacts
      <4> QED
        BY <4>1, <4>2, <4>3
    <3>2. Locks(object, object', c)
      BY <1>1, <1>2, <2>2 DEF Locks
    <3>3. Granted' \subseteq Granted \cup {c}
      BY <1>1, <1>2, <3>1 DEF Granted, AcceptedIn
    <3> QED
      BY <3>2, <3>3 DEF LockStep
  <2> QED
    BY <2>1, <2>2
<1> QED
  BY <1>1, <1>2, <1>3, <1>4 DEF StepFacts, TypeInv, SealStep

\* A step that signs nothing and leaves locks and seals alone.
LEMMA QuietStep ==
    ASSUME TypeInv, issued' = issued, object' \in Protocol, object'.locks = object.locks,
           object'.current = object.current, object'.known = object.known,
           object.closures \subseteq object'.closures, object'.closures \subseteq Granted
    PROVE  StepFacts
BY DEF StepFacts, TypeInv, LockStep, SealStep, Granted, AcceptedIn

\* apply_bundle changes the seals only.
LEMMA BundleStep ==
    ASSUME TypeInv, NEW B \in Bundle, ApplyBundle(B)
    PROVE  StepFacts
<1>1. PICK last \in Orders(B) : object' = InstallAll(B, last)
  BY DEF ApplyBundle
<1> DEFINE f == [r \in Resource |-> IF r \in DOMAIN last THEN last[r] ELSE object.current[r]]
<1>2. B \subseteq Capsule /\ B \subseteq Seal
  BY BundleAssumption DEF Seal
<1>3. f \in [Resource -> Seal]
  BY <1>2 DEF TypeInv, Protocol, Orders
<1>4. object' = [object EXCEPT !.current = f, !.known = @ \cup B]
  BY <1>1 DEF InstallAll
<1> HIDE DEF f
<1>5. /\ object' \in Protocol /\ object'.current = f /\ object'.known = object.known \cup B
      /\ object'.locks = object.locks /\ object'.closures = object.closures
  BY <1>2, <1>3, <1>4 DEF TypeInv, Protocol
<1>6. MovesAll(B)
  BY <1>1, <1>5 DEF MovesAll, ApplyBundle, f
<1>7. issued' = issued
  BY DEF ApplyBundle
<1> QED
  BY <1>5, <1>6, <1>7 DEF StepFacts, TypeInv, LockStep, SealStep, Granted, AcceptedIn

\* apply registers the closure and moves the seal if it can.
LEMMA ApplyStep ==
    ASSUME TypeInv, NEW c \in Capsule, NEW S \in SUBSET Member, ApplyClosure(c, S)
    PROVE  StepFacts
<1> DEFINE p == Register(object, c)
<1>1. /\ p \in Protocol /\ p.locks = object.locks /\ p.current = object.current
      /\ p.known = object.known
      /\ object.closures \subseteq p.closures /\ p.closures \subseteq object.closures \cup {c}
  BY MethodEffects DEF TypeInv
<1>2. c \in AcceptedIn(issued)
  BY ReceiptFacts DEF ApplyClosure, VerifyClosure, TypeInv
<1>3. object' = (IF MayApply(p, c) THEN Apply(p, c) ELSE p) /\ issued' = issued
  BY DEF ApplyClosure
<1> HIDE DEF p
<1>4. CASE ~MayApply(p, c)
  BY <1>1, <1>2, <1>3, <1>4, QuietStep DEF Granted
<1>5. CASE MayApply(p, c)
  <2>1. /\ object' \in Protocol /\ object'.locks = object.locks
        /\ object'.closures = p.closures
        /\ object'.current = [object.current EXCEPT ![ResourceOf[c]] = c]
        /\ object'.known = object.known \cup {c}
    BY <1>1, <1>3, <1>5, MethodEffects
  <2>2. Moves(c)
    BY <1>1, <1>5, <2>1 DEF Moves, MayApply
  <2> QED
    BY <1>1, <1>2, <1>3, <2>1, <2>2
       DEF StepFacts, TypeInv, LockStep, SealStep, Granted, AcceptedIn
<1> QED
  BY <1>4, <1>5

\* What every step does.
LEMMA NextStep ==
    ASSUME TypeInv, Next
    PROVE  StepFacts
<1> object \in Protocol /\ issued \in SUBSET Receipt
  BY DEF TypeInv
<1>1. ASSUME NEW c \in Capsule, CreateCapsule(c) PROVE StepFacts
  <2>1. object' = AddCapsule(object, c) /\ issued' = issued
    BY <1>1 DEF CreateCapsule
  <2> QED
    BY <2>1, MethodEffects, QuietStep DEF Granted
<1>2. ASSUME NEW c \in Capsule, Close(c) PROVE StepFacts
  <2>1. \/ object' = AfterWitness(object, c, "ACCEPT")
        \/ /\ Signs(object, c, "ACCEPT")
           /\ object' = Register(AfterWitness(object, c, "ACCEPT"), c)
    BY <1>2 DEF Close
  <2>2. issued' = IF Signs(object, c, "ACCEPT")
                  THEN issued \cup Receipts(c, Member, "ACCEPT") ELSE issued
    BY <1>2 DEF Close
  <2>3. "ACCEPT" \in Status /\ Member \in SUBSET Member
    BY DEF Status
  <2> QED
    BY <2>1, <2>2, <2>3, SigningStep
<1>3. ASSUME NEW c \in Capsule, Abandon(c) PROVE StepFacts
  <2>1. PICK q : /\ q = AfterWitness(object, c, "ABANDON")
                 /\ object' = q \/ object' = Abandoned(q, c)
    BY <1>3 DEF Abandon, Abandoned
  <2>2. issued' = IF Signs(object, c, "ABANDON")
                  THEN issued \cup Receipts(c, Member, "ABANDON") ELSE issued
    BY <1>3 DEF Abandon
  <2>3. "ABANDON" \in Status /\ Member \in SUBSET Member
    BY DEF Status
  <2> QED
    BY <2>1, <2>2, <2>3, SigningStep
<1>4. ASSUME NEW c \in Capsule, NEW w \in Member, NEW st \in Status, Witness(c, w, st)
      PROVE  StepFacts
  <2>1. /\ object' = AfterWitness(object, c, st) /\ {w} \in SUBSET Member
        /\ issued' = IF Signs(object, c, st) THEN issued \cup Receipts(c, {w}, st) ELSE issued
    BY <1>4 DEF Witness
  <2> QED
    BY <2>1, SigningStep
<1>5. ASSUME NEW c \in Capsule, NEW S \in SUBSET Member, CloseWith(c, S) PROVE StepFacts
  <2>1. object' = Register(object, c) /\ issued' = issued
    BY <1>5 DEF CloseWith
  <2>2. c \in AcceptedIn(issued)
    BY <1>5, ReceiptFacts DEF CloseWith, VerifyClosure
  <2>3. /\ object' \in Protocol /\ object'.locks = object.locks
        /\ object'.current = object.current /\ object'.known = object.known
        /\ object.closures \subseteq object'.closures
        /\ object'.closures \subseteq object.closures \cup {c}
    BY <2>1, MethodEffects
  <2>4. object'.closures \subseteq Granted
    BY <2>2, <2>3 DEF Granted
  <2> QED
    BY <2>1, <2>3, <2>4, QuietStep
<1>6. ASSUME NEW c \in Capsule, NEW S \in SUBSET Member, AbandonWith(c, S) PROVE StepFacts
  <2>1. object' = [object EXCEPT !.abandons = @ \cup {c}] /\ issued' = issued
    BY <1>6 DEF AbandonWith
  <2>2. /\ object' \in Protocol /\ object'.locks = object.locks
        /\ object'.current = object.current /\ object'.known = object.known
        /\ object'.closures = object.closures
    BY <2>1 DEF Protocol
  <2> QED
    BY <2>1, <2>2, QuietStep DEF Granted
<1> QED
  BY <1>1, <1>2, <1>3, <1>4, <1>5, <1>6, ApplyStep, BundleStep DEF Next

\* The initial object.
LEMMA InitTypes == Init => TypeInv
BY DEF Init, TypeInv, InitialProtocol, Protocol, Seal, Lock

\* The types are invariant.
LEMMA TypesAreKept == Spec => []TypeInv
<1>1. TypeInv /\ [Next]_vars => TypeInv'
  BY NextStep DEF StepFacts, TypeInv, vars
<1> QED
  BY <1>1, InitTypes, PTL DEF Spec

-----------------------------------------------------------------------------
(* The theorems *)

(***************************************************************************)
(* Locks only advance: witness_receipt hands the lock of a seal to another *)
(* capsule only if that capsule is a later attempt, however accepting,     *)
(* abandoning, closing and applying are mixed.                             *)
(***************************************************************************)
THEOREM LocksOnlyAdvance == Spec => LocksAdvance
<1>1. TypeInv /\ [Next]_vars =>
        \A s \in Seal :
          LET old == object.locks[s]
              new == object'.locks[s]
          IN  old.capsule # None /\ new.capsule # old.capsule
                => Attempt[new.capsule] > Attempt[old.capsule]
  <2> SUFFICES ASSUME TypeInv, [Next]_vars, NEW s \in Seal,
                      object.locks[s].capsule # None,
                      object'.locks[s].capsule # object.locks[s].capsule
               PROVE  Attempt[object'.locks[s].capsule] > Attempt[object.locks[s].capsule]
    OBVIOUS
  <2>1. LockStep
    BY NextStep DEF StepFacts, vars
  <2>2. PICK c \in Capsule : Locks(object, object', c)
    BY <2>1 DEF LockStep
  <2>3. s = Pred[c]
    BY <2>2 DEF Locks
  <2> QED
    BY <2>2, <2>3 DEF Locks, MayTake, LockOn
<1> QED
  BY <1>1, TypesAreKept, PTL DEF Spec, LocksAdvance

(***************************************************************************)
(* The inductive invariant for exclusivity: a capsule that is closed, or   *)
(* that a caller keeps a receipt for, has the lock of its predecessor, or  *)
(* lost it to a later attempt; so two of one attempt are the same.         *)
(***************************************************************************)
GrantInv ==
    /\ \A c \in Granted : \/ object.locks[Pred[c]].capsule = c
                          \/ /\ object.locks[Pred[c]].capsule \in Capsule
                             /\ Attempt[object.locks[Pred[c]].capsule] > Attempt[c]
    /\ \A c, d \in Granted : Pred[c] = Pred[d] /\ Attempt[c] = Attempt[d] => c = d

\* Every step keeps it.
LEMMA GrantStep ==
    ASSUME TypeInv, TypeInv', GrantInv, LockStep
    PROVE  GrantInv'
<1>0. Granted \subseteq Capsule /\ Granted' \subseteq Capsule
  BY DEF Granted, AcceptedIn, TypeInv, Protocol
<1>1. CASE object'.locks = object.locks /\ Granted' \subseteq Granted
  BY <1>1 DEF GrantInv
<1>2. ASSUME NEW c \in Capsule, Locks(object, object', c), Granted' \subseteq Granted \cup {c}
      PROVE  GrantInv'
  <2> DEFINE k == object.locks[Pred[c]].capsule
  <2>1. /\ k \in {None, c} \/ (k \in Capsule /\ Attempt[c] > Attempt[k])
        /\ object'.locks[Pred[c]].capsule = c
        /\ \A s \in Seal \ {Pred[c]} : object'.locks[s] = object.locks[s]
    BY <1>2 DEF Locks, MayTake, LockOn
  <2> HIDE DEF k
  <2>2. ASSUME NEW d \in Granted, Pred[d] = Pred[c], d # c PROVE Attempt[c] > Attempt[d]
    <3>1. d \in Capsule /\ Attempt[c] \in Nat /\ Attempt[d] \in Nat /\ None \notin Capsule
      BY <1>0, CapsuleAssumption DEF Seal
    <3>2. k = d \/ (k \in Capsule /\ Attempt[k] > Attempt[d])
      BY <2>2 DEF GrantInv, k
    <3>3. k \in Capsule => Attempt[k] \in Nat
      BY CapsuleAssumption
    <3> QED
      BY <2>1, <2>2, <3>1, <3>2, <3>3
  <2>3. ASSUME NEW d \in Granted'
        PROVE  \/ object'.locks[Pred[d]].capsule = d
               \/ /\ object'.locks[Pred[d]].capsule \in Capsule
                  /\ Attempt[object'.locks[Pred[d]].capsule] > Attempt[d]
    <3>1. CASE d = c
      BY <2>1, <3>1
    <3>2. CASE d # c /\ Pred[d] = Pred[c]
      BY <1>2, <2>1, <2>2, <3>2
    <3>3. CASE d # c /\ Pred[d] # Pred[c]
      <4>1. d \in Granted /\ Pred[d] \in Seal
        BY <1>2, <3>3, <1>0, CapsuleFacts
      <4> QED
        BY <2>1, <3>3, <4>1 DEF GrantInv
    <3> QED
      BY <3>1, <3>2, <3>3
  <2>4. ASSUME NEW d \in Granted', NEW e \in Granted', Pred[d] = Pred[e], Attempt[d] = Attempt[e]
        PROVE  d = e
    <3>1. Attempt[d] \in Nat /\ Attempt[e] \in Nat /\ Attempt[c] \in Nat
      BY <1>0, CapsuleAssumption
    <3>2. CASE d \in Granted /\ e \in Granted
      BY <2>4, <3>2 DEF GrantInv
    <3>3. CASE d = c /\ e \in Granted
      BY <2>2, <2>4, <3>1, <3>3
    <3>4. CASE d \in Granted /\ e = c
      BY <2>2, <2>4, <3>1, <3>4
    <3> QED
      BY <1>2, <3>2, <3>3, <3>4
  <2> QED
    BY <2>3, <2>4 DEF GrantInv
<1> QED
  BY <1>1, <1>2 DEF LockStep

(***************************************************************************)
(* Closure exclusivity within an attempt (Theorem 1 of the paper), for one *)
(* object and any mixture of calls and kept receipts.  No assumption on    *)
(* faults is needed: the members share the object's locks.                 *)
(***************************************************************************)
THEOREM ClosuresExcludePerAttempt == Spec => []ExclusivePerAttempt
<1>1. Init => GrantInv
  <2> SUFFICES ASSUME Init PROVE Granted = {}
    BY DEF GrantInv
  <2> QED
    BY DEF Init, InitialProtocol, Granted, AcceptedIn
<1>2. TypeInv /\ TypeInv' /\ GrantInv /\ [Next]_vars => GrantInv'
  <2> SUFFICES ASSUME TypeInv, TypeInv', GrantInv, [Next]_vars PROVE GrantInv'
    OBVIOUS
  <2>1. CASE UNCHANGED vars
    BY <2>1 DEF vars, GrantInv, Granted, AcceptedIn
  <2>2. CASE Next
    BY <2>2, NextStep, GrantStep DEF StepFacts
  <2> QED
    BY <2>1, <2>2
<1>3. GrantInv => ExclusivePerAttempt
  BY DEF GrantInv, Granted, ExclusivePerAttempt
<1> QED
  BY <1>1, <1>2, <1>3, TypesAreKept, PTL DEF Spec

(***************************************************************************)
(* transition_outcome never takes a Closed back: closures and known seals  *)
(* only grow, and it looks at them before it looks at conflict evidence    *)
(* and abandonments.                                                       *)
(***************************************************************************)
THEOREM OutcomesAreFinal == Spec => ClosedIsFinal
<1>1. TypeInv /\ [Next]_vars =>
        \A c \in Capsule : Outcome(object, c) = "Closed" => Outcome(object', c) = "Closed"
  <2> SUFFICES ASSUME TypeInv, [Next]_vars, NEW c \in Capsule, Outcome(object, c) = "Closed"
               PROVE  Outcome(object', c) = "Closed"
    OBVIOUS
  <2>1. CASE UNCHANGED vars
    BY <2>1 DEF vars
  <2>2. CASE Next
    <3>1. c \in object.closures /\ c \in object.known
      BY DEF Outcome
    <3>2. object.closures \subseteq object'.closures /\ object.known \subseteq object'.known
      BY <2>2, NextStep DEF StepFacts, SealStep, Moves, MovesAll
    <3> QED
      BY <3>1, <3>2 DEF Outcome
  <2> QED
    BY <2>1, <2>2
<1> QED
  BY <1>1, TypesAreKept, PTL DEF Spec, ClosedIsFinal

\* The inductive invariant for the chain: every current seal belongs to its
\* resource.
HistoryInv ==
    /\ LinearHistory
    /\ \A r \in Resource : ResourceOf[object.current[r]] = r

\* The successors that have their predecessors current are new, and after
\* they have been installed they are current.
LEMMA InstallHistory ==
    ASSUME TypeInv, TypeInv', HistoryInv, NEW B \in SUBSET Capsule,
           \A c \in B : IsCurrent(object, Pred[c]),
           object'.known = object.known \cup B,
           \A c \in B : object'.current[ResourceOf[c]] = c,
           \A r \in Resource : object'.current[r] # object.current[r] =>
              \E c \in B : ResourceOf[c] = r
    PROVE  HistoryInv'
<1>0. /\ object.current \in [Resource -> Seal] /\ object'.current \in [Resource -> Seal]
      /\ object.known \subseteq Seal
  BY DEF TypeInv, Protocol
<1>1. ASSUME NEW c \in B
      PROVE  /\ c \in Capsule /\ c \notin object.known /\ Pred[c] \in object.known
             /\ Pred[c] = object.current[ResourceOf[c]]
             /\ \A d \in object.known \cap Capsule : Pred[d] # Pred[c]
             /\ \A d \in B : Pred[d] = Pred[c] => d = c
  <2>1. ResourceOf[Pred[c]] = ResourceOf[c] /\ ResourceOf[c] \in Resource
    BY CapsuleFacts
  <2>2. Pred[c] = object.current[ResourceOf[c]] /\ Pred[c] \in object.known
    BY <2>1 DEF IsCurrent, HistoryInv, LinearHistory
  <2>3. \A d \in object.known \cap Capsule : Pred[d] # Pred[c]
    BY DEF IsCurrent, HistoryInv, LinearHistory
  <2>4. ASSUME NEW d \in B, Pred[d] = Pred[c] PROVE d = c
    <3>1. ResourceOf[d] = ResourceOf[c]
      BY <2>1, <2>4, CapsuleFacts
    <3> QED
      BY <3>1
  <2> QED
    BY <2>2, <2>3, <2>4
<1>2. ASSUME NEW c \in object'.known \cap Capsule
      PROVE  /\ Pred[c] \in object'.known
             /\ \A d \in object'.known \cap Capsule : Pred[c] = Pred[d] => c = d
             /\ ~IsCurrent(object', Pred[c])
  <2>1. CASE c \in B
    <3>1. ~IsCurrent(object', Pred[c])
      BY <2>1, CapsuleFacts DEF IsCurrent
    <3>2. ASSUME NEW d \in object'.known \cap Capsule, Pred[c] = Pred[d] PROVE c = d
      BY <1>1, <2>1, <3>2
    <3> QED
      BY <1>1, <2>1, <3>1, <3>2
  <2>2. CASE c \in object.known
    <3>1. Pred[c] \in object.known /\ ~IsCurrent(object, Pred[c])
      BY <2>2 DEF HistoryInv, LinearHistory
    <3>2. ASSUME NEW d \in object'.known \cap Capsule, Pred[c] = Pred[d] PROVE c = d
      <4>1. d \in object.known
        BY <1>1, <2>2, <3>2
      <4> QED
        BY <2>2, <3>2, <4>1 DEF HistoryInv, LinearHistory
    <3>3. ~IsCurrent(object', Pred[c])
      <4> DEFINE r == ResourceOf[Pred[c]]
      <4>1. r \in Resource
        BY CapsuleFacts
      <4>2. CASE object'.current[r] = object.current[r]
        BY <3>1, <4>2 DEF IsCurrent
      <4>3. CASE object'.current[r] # object.current[r]
        <5>1. PICK b \in B : ResourceOf[b] = r
          BY <4>1, <4>3
        <5>2. object'.current[r] = b /\ b \notin object.known
          BY <5>1, <1>1
        <5> QED
          BY <5>2, <3>1 DEF IsCurrent
      <4> QED
        BY <4>2, <4>3
    <3> QED
      BY <3>1, <3>2, <3>3
  <2> QED
    BY <2>1, <2>2
<1>3. ASSUME NEW r \in Resource
      PROVE  object'.current[r] \in object'.known /\ ResourceOf[object'.current[r]] = r
  <2>1. CASE object'.current[r] = object.current[r]
    BY <2>1 DEF HistoryInv, LinearHistory
  <2>2. CASE object'.current[r] # object.current[r]
    BY <2>2
  <2> QED
    BY <2>1, <2>2
<1> QED
  BY <1>2, <1>3 DEF HistoryInv, LinearHistory

\* No bundle of a caller consumes one seal twice.  (apply_bundle does not look:
\* it checks that every predecessor is current before it installs anything, and
\* two attempts with kept receipts can both be closed.)
BundlesConsumeOnce == \A B \in Bundle : \A c, d \in B : Pred[c] = Pred[d] => c = d

(***************************************************************************)
(* apply and apply_bundle build one chain per resource: a seal that has a  *)
(* known successor is never current again, so it never gets another one,   *)
(* for callers whose bundles consume no seal twice.                        *)
(***************************************************************************)
THEOREM HistoryIsLinear ==
    ASSUME BundlesConsumeOnce
    PROVE  Spec => []LinearHistory
<1>1. Init => HistoryInv
  BY CapsuleAssumption, SealAssumption
     DEF Init, InitialProtocol, HistoryInv, LinearHistory, IsCurrent
<1>2. TypeInv /\ TypeInv' /\ HistoryInv /\ [Next]_vars => HistoryInv'
  <2> SUFFICES ASSUME TypeInv, TypeInv', HistoryInv, [Next]_vars PROVE HistoryInv'
    OBVIOUS
  <2>0. object.current \in [Resource -> Seal] /\ object'.current \in [Resource -> Seal]
    BY DEF TypeInv, Protocol
  <2>1. CASE object'.current = object.current /\ object'.known = object.known
    BY <2>1 DEF HistoryInv, LinearHistory, IsCurrent
  <2>2. ASSUME NEW c \in Capsule, Moves(c) PROVE HistoryInv'
    <3> DEFINE r == ResourceOf[c]
    <3>1. r \in Resource /\ ResourceOf[Pred[c]] = r
      BY CapsuleFacts
    <3>2. /\ object.current[r] \in {Pred[c], c} /\ object'.known = object.known \cup {c}
          /\ object'.current = [object.current EXCEPT ![r] = c]
      BY <2>2, <3>1 DEF Moves, MayApply
    <3>3. CASE object.current[r] = c
      <4>1. c \in object.known
        BY <3>1, <3>3 DEF HistoryInv, LinearHistory
      <4>2. object'.current = object.current /\ object'.known = object.known
        BY <2>0, <3>1, <3>2, <3>3, <4>1
      <4> QED
        BY <2>1, <4>2
    <3>4. CASE object.current[r] = Pred[c]
      <4>1. /\ {c} \in SUBSET Capsule /\ \A d \in {c} : IsCurrent(object, Pred[d])
            /\ \A d \in {c} : object'.current[ResourceOf[d]] = d
            /\ \A q \in Resource : object'.current[q] # object.current[q] =>
                 \E d \in {c} : ResourceOf[d] = q
        BY <2>0, <3>1, <3>2, <3>4 DEF IsCurrent
      <4> QED
        BY <3>2, <4>1, InstallHistory
    <3> QED
      BY <3>2, <3>3, <3>4
  <2>3. ASSUME NEW B \in Bundle, MovesAll(B) PROVE HistoryInv'
    <3>1. PICK last \in Orders(B) :
             object'.current =
                [r \in Resource |-> IF r \in DOMAIN last THEN last[r] ELSE object.current[r]]
      BY <2>3 DEF MovesAll
    <3>2. B \in SUBSET Capsule /\ object'.known = object.known \cup B
            /\ \A c \in B : IsCurrent(object, Pred[c])
      BY <2>3, BundleAssumption DEF MovesAll
    <3>3. /\ DOMAIN last = {ResourceOf[c] : c \in B}
          /\ \A r \in DOMAIN last : last[r] \in B /\ ResourceOf[last[r]] = r
      BY <3>1 DEF Orders
    <3>4. ASSUME NEW c \in B PROVE object'.current[ResourceOf[c]] = c
      <4> DEFINE r == ResourceOf[c]
                 d == last[r]
      <4>1. r \in Resource /\ r \in DOMAIN last /\ d \in B /\ ResourceOf[d] = r
        BY <3>2, <3>3, CapsuleFacts
      <4>2. Pred[c] = object.current[r] /\ Pred[d] = object.current[r]
        BY <3>2, <4>1, CapsuleFacts DEF IsCurrent
      <4>3. d = c
        BY <4>1, <4>2 DEF BundlesConsumeOnce
      <4> QED
        BY <3>1, <4>1, <4>3
    <3>5. \A r \in Resource : object'.current[r] # object.current[r] =>
             \E c \in B : ResourceOf[c] = r
      BY <3>1, <3>3
    <3> QED
      BY <3>2, <3>4, <3>5, InstallHistory
  <2> QED
    <3>1. CASE UNCHANGED vars
      BY <2>1, <3>1 DEF vars
    <3>2. CASE Next
      BY <2>1, <2>2, <2>3, <3>2, NextStep DEF StepFacts, SealStep
    <3> QED
      BY <3>1, <3>2
<1>3. HistoryInv => LinearHistory
  BY DEF HistoryInv
<1> QED
  BY <1>1, <1>2, <1>3, TypesAreKept, PTL DEF Spec

=============================================================================
