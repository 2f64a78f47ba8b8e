---------------------------- MODULE NexusDomain -----------------------------
(***************************************************************************)
(* One replica of a CCD/NEXUS domain: the votes that its QuorumCommittee   *)
(* has recorded and the objects of its DomainExecutor (ccd_nexus/quorum.py *)
(* and domain.py).                                                         *)
(*                                                                         *)
(* Digests are injective and signatures ideal, so an operation stands for  *)
(* its op_id, and the payload that it writes is named after it.  A vote is *)
(* altered when its dependency digest is not the operation's.              *)
(***************************************************************************)
EXTENDS WeightedQuorum

CONSTANTS
    Object,     \* the objects of the domain
    Op,         \* the operations that clients sign, all of the domain's epoch
    Inputs,     \* Inputs[op]: expected_version of each input object of op
    Signer,     \* Signer[op]: the signer
    NewOwner,   \* NewOwner[op]: new_owner of the write intents
    FirstOwner, \* the owner of every object at version 0
    NoOp        \* the payload of an object that nothing has written

ASSUME OperationAssumption ==
    /\ NoOp \notin Op
    /\ \A op \in Op : DOMAIN Inputs[op] \subseteq Object /\ DOMAIN Inputs[op] # {}

Phase == {"PREPARE", "COMMIT"}

Vote == [voter : Member, phase : Phase, op : Op, altered : BOOLEAN]

VoteOf(m, phase, op) == [voter |-> m, phase |-> phase, op |-> op, altered |-> FALSE]

\* What a Byzantine validator sends after its vote.
AlteredVoteOf(m, phase, op) == [VoteOf(m, phase, op) EXCEPT !.altered = TRUE]

\* EquivocationEvidence.
Evidence == [voter : Member, first : Op, second : Op]

Replica ==
    [votes     : SUBSET Vote,
     evidence  : SUBSET Evidence,
     objects   : [Object -> [version : Nat, owner : {FirstOwner} \cup {NewOwner[op] : op \in Op},
                             payload : Op \cup {NoOp}]],
     committed : SUBSET Op]

EmptyReplica ==
    [votes |-> {}, evidence |-> {}, committed |-> {},
     objects |-> [o \in Object |-> [version |-> 0, owner |-> FirstOwner, payload |-> NoOp]]]

-----------------------------------------------------------------------------
(* QuorumCommittee *)

\* Mutant: the key tells operations apart.
SameKeyOfOp(v, w) == v.phase = w.phase /\ v.op = w.op

\* Two votes have the same conflict key: the whole tuple of object versions
\* has to be the same, sharing an object is not enough.
SameKey(v, w) == v.phase = w.phase /\ Inputs[v.op] = Inputs[w.op]

\* The votes that record_vote holds against v.
Against(s, v) == {w \in s.votes : w.voter = v.voter /\ SameKey(v, w) /\ w # v}

MayRecord(s, v) == Against(s, v) = {}

\* record_vote; a vote that it refuses leaves evidence.
Recorded(s, v) ==
    IF MayRecord(s, v) THEN [s EXCEPT !.votes = @ \cup {v}]
    ELSE [s EXCEPT !.evidence =
            @ \cup {[voter |-> v.voter, first |-> w.op, second |-> v.op] : w \in Against(s, v)}]

\* Mutant: votes for other operations with the same key are counted.
CertifiedByKey(s, phase, op) ==
    IsQuorum({v.voter : v \in {w \in s.votes : SameKey(w, VoteOf(w.voter, phase, op))}})

(***************************************************************************)
(* issue_certificate succeeds.  verify_certificate accepts what it issues  *)
(* at every replica, since all have the same committee: a certificate is   *)
(* represented by its phase and operation.                                 *)
(***************************************************************************)
Certified(s, phase, op) == IsQuorum({m \in Member : VoteOf(m, phase, op) \in s.votes})

-----------------------------------------------------------------------------
(* DomainExecutor *)

\* Mutant: versions are not compared.
ValidatesUnversioned(s, op) ==
    /\ op \notin s.committed
    /\ \A o \in DOMAIN Inputs[op] : s.objects[o].owner = Signer[op]

\* validate_operation.
Validates(s, op) ==
    /\ op \notin s.committed
    /\ \A o \in DOMAIN Inputs[op] : /\ s.objects[o].version = Inputs[op][o]
                                    /\ s.objects[o].owner = Signer[op]

\* apply_committed, for an operation that it does not refuse.
Applied(s, op) ==
    [s EXCEPT !.objects = [o \in Object |->
                              IF o \in DOMAIN Inputs[op]
                              THEN [version |-> @[o].version + 1, owner |-> NewOwner[op], payload |-> op]
                              ELSE @[o]],
              !.committed = @ \cup {op}]

=============================================================================
