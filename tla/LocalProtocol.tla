---------------------------- MODULE LocalProtocol ----------------------------
(***************************************************************************)
(* One MosaicProtocol object driven through its public methods, as the     *)
(* tests, the examples and the benchmarks do: capsules of several          *)
(* attempts, single receipts, closing, abandoning and applying, one by one *)
(* or as a bundle.  All members sign through the one object and so share   *)
(* its locks; the caller may keep receipts and use them later.  Calls that *)
(* raise and change nothing are left out.                                  *)
(***************************************************************************)
EXTENDS MosaicProtocol

CONSTANTS
    Bundle      \* the sets of capsules that callers make bundles of

ASSUME BundleAssumption == Bundle \subseteq SUBSET Capsule

VARIABLES
    object,     \* the protocol object
    issued      \* the receipts that its members have signed

vars == <<object, issued>>

Receipts(c, S, st) == {ReceiptOf(c, w, st) : w \in S}

-----------------------------------------------------------------------------
Init == object = InitialProtocol /\ issued = {}

CreateCapsule(c) ==
    /\ IsCurrent(object, Pred[c])
    /\ object' = AddCapsule(object, c)
    /\ UNCHANGED issued

Witness(c, w, st) ==
    /\ c \in object.capsules
    /\ object' = AfterWitness(object, c, st)
    /\ issued' = IF Signs(object, c, st) THEN issued \cup Receipts(c, {w}, st) ELSE issued

\* close with the receipts of the members in S, collected before.
CloseWith(c, S) ==
    /\ Validates(object, c)
    /\ VerifyClosure(object, c, S, issued)
    /\ NoEvidence(object, Pred[c])
    /\ object' = Register(object, c)
    /\ UNCHANGED issued

\* close without receipts asks every member first.  All of them sign, or all
\* of them find the same conflict and the closure lacks weight.
Close(c) ==
    LET p == AfterWitness(object, c, "ACCEPT")
        signed == Signs(object, c, "ACCEPT")
    IN  /\ c \in object.capsules
        /\ Validates(object, c)
        /\ signed \/ Conflicts(object, c, "ACCEPT")
        /\ object' = IF signed /\ NoEvidence(p, Pred[c]) THEN Register(p, c) ELSE p
        /\ issued' = IF signed THEN issued \cup Receipts(c, Member, "ACCEPT") ELSE issued

AbandonWith(c, S) ==
    /\ c \in object.capsules \ object.closures
    /\ Receipts(c, S, "ABANDON") \subseteq issued
    /\ IsQuorum(S)
    /\ object' = [object EXCEPT !.abandons = @ \cup {c}]
    /\ UNCHANGED issued

\* abandon without receipts asks every member first.
Abandon(c) ==
    LET p == AfterWitness(object, c, "ABANDON")
        signed == Signs(object, c, "ABANDON")
    IN  /\ c \in object.capsules \ object.closures
        /\ signed \/ Conflicts(object, c, "ABANDON")
        /\ object' = IF signed THEN [p EXCEPT !.abandons = @ \cup {c}] ELSE p
        /\ issued' = IF signed THEN issued \cup Receipts(c, Member, "ABANDON") ELSE issued

\* apply with a closure made of the receipts of S registers it, if necessary,
\* before it looks at the predecessor.
ApplyClosure(c, S) ==
    LET p == Register(object, c)
    IN  /\ VerifyClosure(object, c, S, issued)
        /\ c \in object.closures \/ NoEvidence(object, Pred[c])
        /\ object' = IF MayApply(p, c) THEN Apply(p, c) ELSE p
        /\ UNCHANGED issued

\* The object after the successors of B have been installed one by one; last[r]
\* is the last one of resource r.
InstallAll(B, last) ==
    [object EXCEPT !.current = [r \in Resource |-> IF r \in DOMAIN last THEN last[r] ELSE @[r]],
                   !.known = @ \cup B]

Orders(B) == {last \in [{ResourceOf[c] : c \in B} -> B] :
                 \A r \in DOMAIN last : ResourceOf[last[r]] = r}

\* Mutant: the predecessors need not be current.
ApplyBundleStale(B) ==
    /\ B # {}
    /\ B \subseteq object.closures
    /\ \E last \in Orders(B) : object' = InstallAll(B, last)
    /\ UNCHANGED issued

\* apply_bundle: every entry passes its checks before any is installed.
ApplyBundle(B) ==
    /\ B # {}
    /\ B \subseteq object.closures
    /\ \A c \in B : IsCurrent(object, Pred[c])
    /\ \E last \in Orders(B) : object' = InstallAll(B, last)
    /\ UNCHANGED issued

Next ==
    \/ \E c \in Capsule :
          \/ CreateCapsule(c)
          \/ Close(c)
          \/ Abandon(c)
          \/ \E w \in Member, st \in Status : Witness(c, w, st)
          \/ \E S \in SUBSET Member : CloseWith(c, S) \/ AbandonWith(c, S) \/ ApplyClosure(c, S)
    \/ \E B \in Bundle : ApplyBundle(B)

Spec == Init /\ [][Next]_vars

-----------------------------------------------------------------------------
\* Mutant: conflict evidence is looked at first.
OutcomeConflictFirst(p, c) ==
    IF \E e \in p.evidence : c \in e THEN "Conflict"
    ELSE IF c \in p.closures \cap p.known THEN "Closed"
    ELSE IF c \in p.abandons THEN "Abandoned"
    ELSE "Pending"

\* transition_outcome: the first kind of evidence that it finds.
Outcome(p, c) ==
    IF c \in p.closures \cap p.known THEN "Closed"
    ELSE IF \E e \in p.evidence : c \in e THEN "Conflict"
    ELSE IF c \in p.abandons THEN "Abandoned"
    ELSE "Pending"

-----------------------------------------------------------------------------
(* Properties *)

(***************************************************************************)
(* Theorem 1 of the paper in its attempt domain: however calls and kept    *)
(* receipts are mixed, close and apply never register two capsules of one  *)
(* attempt that consume the same seal.                                     *)
(***************************************************************************)
ExclusivePerAttempt ==
    \A c, d \in object.closures :
        Pred[c] = Pred[d] /\ Attempt[c] = Attempt[d] => c = d

(***************************************************************************)
(* apply and apply_bundle build one chain per resource: every seal before  *)
(* a known one is known, no seal has two known successors, and the current *)
(* seal is the end of the chain.                                           *)
(***************************************************************************)
LinearHistory ==
    /\ \A c \in object.known \cap Capsule :
          /\ Pred[c] \in object.known
          /\ \A d \in object.known \cap Capsule : Pred[c] = Pred[d] => c = d
          /\ ~IsCurrent(object, Pred[c])
    /\ \A r \in Resource : object.current[r] \in object.known

(***************************************************************************)
(* A Closed outcome is final: whatever is signed, abandoned or found in    *)
(* conflict later, transition_outcome keeps reporting it.                  *)
(***************************************************************************)
ClosedIsFinal ==
    [][\A c \in Capsule : Outcome(object, c) = "Closed" => Outcome(object', c) = "Closed"]_vars

(***************************************************************************)
(* A lock passes to another capsule only after an ABANDON and only to a    *)
(* later attempt, so no attempt ever gets a released seal back.            *)
(***************************************************************************)
LocksAdvance ==
    [][\A s \in Seal :
          LET old == object.locks[s]
              new == object'.locks[s]
          IN  old.capsule # None /\ new.capsule # old.capsule
                => Attempt[new.capsule] > Attempt[old.capsule]]_vars

=============================================================================
