--------------------------- MODULE MosaicProtocol ---------------------------
(***************************************************************************)
(* The state object of mosaic/protocol.py and its methods as functions on  *)
(* that object.  Method M of class MosaicProtocol appears as a predicate   *)
(* (does the call succeed?) and a state function After...(p, ...) (the     *)
(* object after the call, also when the call raises).  MosaicNode gives    *)
(* every validator an object of its own; LocalProtocol drives one shared   *)
(* object through the public API.                                          *)
(*                                                                         *)
(* Digests are injective, so an object stands for its identifier: the      *)
(* genesis seal of resource r is r itself, and the successor seal that     *)
(* capsule c creates (capability_hash = digest(capsule_id)) is c itself.   *)
(***************************************************************************)
EXTENDS WeightedQuorum

CONSTANTS
    Resource,    \* resource identifiers; also their genesis seals
    Capsule,     \* the capsules clients create; also the seals they lead to
    Pred,        \* Pred[c]: the seal that capsule c consumes
    Attempt,     \* Attempt[c]: the attempt number in capsule c
    WellFormed,  \* capsules with a valid client signature, the epoch of the
                 \* node, a non-negative attempt and a successor root
    ResourceOf,  \* ResourceOf[s]: the resource of seal s
    Version,     \* Version[s]: the version of seal s
    None         \* stands for no capsule

Seal == Resource \cup Capsule

ASSUME CapsuleAssumption ==
    /\ Resource \cap Capsule = {}
    /\ None \notin Seal
    /\ Pred \in [Capsule -> Seal]
    /\ Attempt \in [Capsule -> Nat]
    /\ WellFormed \subseteq Capsule

ASSUME SealAssumption ==
    /\ ResourceOf \in [Seal -> Resource]
    /\ Version \in [Seal -> Nat]
    /\ \A r \in Resource : ResourceOf[r] = r /\ Version[r] = 0
    /\ \A c \in Capsule : /\ ResourceOf[c] = ResourceOf[Pred[c]]
                          /\ Version[c] = Version[Pred[c]] + 1

Status == {"ACCEPT", "ABANDON"}

NoLock == [capsule |-> None, status |-> "NONE"]

LockOf(c, status) == [capsule |-> c, status |-> status]

Lock == {NoLock} \cup {LockOf(c, st) : c \in Capsule, st \in Status}

(***************************************************************************)
(* A signed receipt.  valid abstracts what verify_receipt finds: a known   *)
(* member, the capsule's predecessor, epoch and attempt, and a signature   *)
(* that verifies.                                                          *)
(***************************************************************************)
Receipt == [capsule : Capsule, witness : Member, status : Status, valid : BOOLEAN]

ReceiptOf(c, w, st) == [capsule |-> c, witness |-> w, status |-> st, valid |-> TRUE]

Protocol == [current : [Resource -> Seal], known : SUBSET Seal,
             locks : [Seal -> Lock], capsules : SUBSET Capsule,
             closures : SUBSET Capsule, abandons : SUBSET Capsule,
             evidence : SUBSET SUBSET Capsule]

\* A protocol object that has been given its genesis seals.
InitialProtocol == [current |-> [r \in Resource |-> r], known |-> Resource,
                    locks |-> [s \in Seal |-> NoLock], capsules |-> {},
                    closures |-> {}, abandons |-> {}, evidence |-> {}]

-----------------------------------------------------------------------------
AddCapsule(p, c) == [p EXCEPT !.capsules = @ \cup {c}]

Validates(p, c) == Pred[c] \in p.known /\ c \in WellFormed

LockOn(p, c) == p.locks[Pred[c]]

IsCurrent(p, s) == p.current[ResourceOf[s]] = s

\* Mutant: any attempt may take a lock that an ABANDON released.
ReleasedToAny(p, c) == LockOn(p, c).status = "ABANDON"

\* A lock that an ABANDON released may be taken by a later attempt.
Released(p, c) ==
    /\ LockOn(p, c).status = "ABANDON"
    /\ Attempt[c] > Attempt[LockOn(p, c).capsule]

\* Mutant: the lock is not looked at.
SignsAcceptUnlocked(p, c) == Validates(p, c) /\ IsCurrent(p, Pred[c])

\* witness_receipt returns a signed receipt.
SignsAccept(p, c) ==
    /\ Validates(p, c)
    /\ IsCurrent(p, Pred[c])
    /\ LockOn(p, c) = NoLock \/ LockOn(p, c).capsule = c \/ Released(p, c)

SignsAbandon(p, c) ==
    /\ Validates(p, c)
    /\ LockOn(p, c).capsule \in {None, c}
    /\ c \notin p.closures

Signs(p, c, st) == IF st = "ACCEPT" THEN SignsAccept(p, c) ELSE SignsAbandon(p, c)

\* Mutant: evidence is recorded although there is no lock to conflict with.
ConflictsUnchecked(p, c, st) == Validates(p, c) /\ ~Signs(p, c, st)

\* witness_receipt raises ConflictDetected, having recorded the evidence.
Conflicts(p, c, st) ==
    /\ Validates(p, c)
    /\ LockOn(p, c).capsule \in p.capsules \ {c}
    /\ ~Signs(p, c, st)

\* Mutant: the lock is not written.
TakeLockUnwritten(p, c, st) == [p EXCEPT !.capsules = @ \cup {c}]

\* Signing the capsule that is locked already leaves the lock as it is, also
\* when the lock says ABANDON.
TakeLock(p, c, st) ==
    IF st = "ACCEPT" /\ LockOn(p, c).capsule = c
    THEN p
    ELSE [p EXCEPT !.locks[Pred[c]] = LockOf(c, st), !.capsules = @ \cup {c}]

RecordConflict(p, c) == [p EXCEPT !.evidence = @ \cup {{LockOn(p, c).capsule, c}}]

\* The object after witness_receipt, whatever its outcome.
AfterWitness(p, c, st) ==
    IF Signs(p, c, st) THEN TakeLock(p, c, st)
    ELSE IF Conflicts(p, c, st) THEN RecordConflict(p, c)
    ELSE p

-----------------------------------------------------------------------------
(***************************************************************************)
(* verify_closure(c, closure): signers are the witnesses of the receipts   *)
(* in the proof, and signed is the set of receipts whose signatures exist. *)
(***************************************************************************)
VerifyClosure(p, c, signers, signed) ==
    /\ c \in p.capsules
    /\ \A w \in signers : ReceiptOf(c, w, "ACCEPT") \in signed
    /\ IsQuorum(signers)

NoEvidence(p, s) == \A e \in p.evidence : \A c \in e : Pred[c] # s

\* register_closure, for a closure that verifies.
MayRegister(p, c) == NoEvidence(p, Pred[c])

Register(p, c) == [p EXCEPT !.closures = @ \cup {c}]

\* Mutant: any later version replaces the current seal.
MayApplyLater(p, c) == Version[c] >= Version[p.current[ResourceOf[c]]]

(***************************************************************************)
(* apply, for a registered closure: it installs the successor seal, does   *)
(* nothing if that seal is current already, and raises otherwise.          *)
(***************************************************************************)
MayApply(p, c) ==
    /\ Pred[c] \in p.known
    /\ p.current[ResourceOf[Pred[c]]] \in {Pred[c], c}

Apply(p, c) == [p EXCEPT !.current[ResourceOf[c]] = c, !.known = @ \cup {c}]

=============================================================================
