----------------------------- MODULE NexusJoin ------------------------------
(***************************************************************************)
(* Operations that span domains: JoinCoordinator (ccd_nexus/join.py) over  *)
(* DomainExecutors (ccd_nexus/domain.py) in one process, with one          *)
(* committee for all domains.  Operations of one domain go through         *)
(* DomainExecutor.finalize and use the same objects.                       *)
(*                                                                         *)
(* The conflict keys of the committee name the domain, so its votes are    *)
(* kept per domain.  Every validator of the committee votes in each call.  *)
(***************************************************************************)
EXTENDS NexusDomain

CONSTANTS
    DomainOf,   \* DomainOf[o]: the domain of object o, a number
    Requested   \* a bound: the operations that clients bring to the coordinators

\* Object and Op are the objects and operations of all domains.
ASSUME JoinAssumption ==
    /\ DomainOf \in [Object -> Int]
    /\ Requested \subseteq Op
    /\ \A op \in Op : /\ Inputs[op] \in [DOMAIN Inputs[op] -> Int]
                      /\ IsFiniteSet(DOMAIN Inputs[op])

VARIABLES
    domain,     \* domain[d]: the executor of d and the votes cast for d
    joined,     \* the operations with a join certificate
    aborted     \* the operations with an abort certificate

joinVars == <<domain, joined, aborted>>

-----------------------------------------------------------------------------
Domain == {DomainOf[o] : o \in Object}

DomainsOf(op) == {DomainOf[o] : o \in DOMAIN Inputs[op]}

ObjectsIn(d) == {o \in Object : DomainOf[o] = d}

OpsIn(d) == {op \in Op : d \in DomainsOf(op)}

\* _local_inputs.
LocalInputs(d) ==
    [op \in OpsIn(d) |-> [o \in DOMAIN Inputs[op] \cap ObjectsIn(d) |-> Inputs[op][o]]]

In(d) == INSTANCE NexusDomain WITH
            Object <- ObjectsIn(d), Op <- OpsIn(d), Inputs <- LocalInputs(d)

\* The validators vote in the order in which the committee lists them.
FirstVoter == CHOOSE m \in Member : TRUE

-----------------------------------------------------------------------------
(* DomainExecutor.  Each call is a condition under which it raises and the *)
(* state s of domain d that it leaves.                                     *)

\* _record_votes: all validators vote alike, so the first one is refused or
\* none is.
VotesRefused(s, d, phase, op) == ~In(d)!MayRecord(s, In(d)!VoteOf(FirstVoter, phase, op))

AfterVotes(s, d, phase, op) ==
    IF VotesRefused(s, d, phase, op)
    THEN In(d)!Recorded(s, In(d)!VoteOf(FirstVoter, phase, op))
    ELSE [s EXCEPT !.votes = @ \cup {In(d)!VoteOf(m, phase, op) : m \in Member}]

VoteFails(s, d, phase, op) ==
    VotesRefused(s, d, phase, op) \/ ~In(d)!Certified(AfterVotes(s, d, phase, op), phase, op)

\* prepare.
PrepareRaises(s, d, op) == ~In(d)!Validates(s, op) \/ VoteFails(s, d, "PREPARE", op)

AfterPrepare(s, d, op) ==
    IF ~In(d)!Validates(s, op) THEN s
    ELSE IF PrepareRaises(s, d, op) THEN AfterVotes(s, d, "PREPARE", op)
    ELSE [AfterVotes(s, d, "PREPARE", op) EXCEPT !.prepared = @ \cup {op}]

\* commit_certificate.
MayCertify(s, d, op) == In(d)!Validates(s, op) /\ op \in s.prepared

CertifyRaises(s, d, op) == ~MayCertify(s, d, op) \/ VoteFails(s, d, "COMMIT", op)

AfterCertify(s, d, op) == IF MayCertify(s, d, op) THEN AfterVotes(s, d, "COMMIT", op) ELSE s

\* apply_committed.
ApplyRaises(s, d, op) == ~In(d)!Validates(s, op)

AfterApply(s, d, op) == IF ApplyRaises(s, d, op) THEN s ELSE In(d)!Applied(s, op)

-----------------------------------------------------------------------------
(***************************************************************************)
(* g holds the domains and whether the coordinator's method still runs.    *)
(* It calls the domains of op in ascending order: those after the first    *)
(* one that raises are not called, and the method ends.                    *)
(***************************************************************************)
Started == [domain |-> domain, running |-> TRUE]

InTurn(g, op, raising, after) ==
    LET called == {d \in DomainsOf(op) : g.running /\ \A e \in raising : d <= e}
    IN  [domain |-> [d \in Domain |-> IF d \in called THEN after[d] ELSE g.domain[d]],
         running |-> g.running /\ raising = {}]

PreparedAll(g, op) ==
    InTurn(g, op, {d \in DomainsOf(op) : PrepareRaises(g.domain[d], d, op)},
           [d \in DomainsOf(op) |-> AfterPrepare(g.domain[d], d, op)])

CertifiedAll(g, op) ==
    InTurn(g, op, {d \in DomainsOf(op) : CertifyRaises(g.domain[d], d, op)},
           [d \in DomainsOf(op) |-> AfterCertify(g.domain[d], d, op)])

AppliedAll(g, op) ==
    InTurn(g, op, {d \in DomainsOf(op) : ApplyRaises(g.domain[d], d, op)},
           [d \in DomainsOf(op) |-> AfterApply(g.domain[d], d, op)])

-----------------------------------------------------------------------------
JoinInit ==
    /\ domain = [d \in Domain |->
                    [votes |-> {}, evidence |-> {}, committed |-> {}, prepared |-> {},
                     objects |-> In(d)!EmptyReplica.objects]]
    /\ joined = {}
    /\ aborted = {}

\* prepare_all; the domains before the one that refuses stay prepared.
PrepareAll(op) ==
    /\ Cardinality(DomainsOf(op)) > 1
    /\ domain' = PreparedAll(Started, op).domain
    /\ UNCHANGED <<joined, aborted>>

\* issue_join_certificate, for the prepare certificates of all domains.
IssueJoinCertificate(op) ==
    /\ Cardinality(DomainsOf(op)) > 1
    /\ \A d \in DomainsOf(op) : op \in domain[d].prepared
    /\ joined' = joined \cup {op}
    /\ UNCHANGED <<domain, aborted>>

\* Mutant: every domain is prepared, certified and applied in turn.
FinalizeInTurn(op) ==
    LET after == [d \in DomainsOf(op) |->
                    AfterApply(AfterCertify(AfterPrepare(domain[d], d, op), d, op), d, op)]
        prepared == PreparedAll(Started, op)
    IN  /\ Cardinality(DomainsOf(op)) > 1
        /\ domain' = InTurn(Started, op, {d \in DomainsOf(op) : op \notin after[d].committed}, after).domain
        /\ joined' = IF prepared.running THEN joined \cup {op} ELSE joined
        /\ UNCHANGED aborted

\* JoinCoordinator.finalize: nothing is applied before every domain has its
\* commit certificate.
Finalize(op) ==
    LET prepared == PreparedAll(Started, op)
    IN  /\ Cardinality(DomainsOf(op)) > 1
        /\ domain' = AppliedAll(CertifiedAll(prepared, op), op).domain
        /\ joined' = IF prepared.running THEN joined \cup {op} ELSE joined
        /\ UNCHANGED aborted

\* DomainExecutor.finalize, for an operation of one domain.
FinalizeLocal(op) ==
    /\ Cardinality(DomainsOf(op)) = 1
    /\ domain' = AppliedAll(CertifiedAll(PreparedAll(Started, op), op), op).domain
    /\ UNCHANGED <<joined, aborted>>

\* JoinCoordinator.abort: a certificate, and nothing else.
Abort(op) ==
    /\ IsQuorum(Member)
    /\ aborted' = aborted \cup {op}
    /\ UNCHANGED <<domain, joined>>

JoinNext ==
    \E op \in Requested :
        \/ PrepareAll(op)
        \/ IssueJoinCertificate(op)
        \/ Finalize(op)
        \/ FinalizeLocal(op)
        \/ Abort(op)

JoinSpec == JoinInit /\ [][JoinNext]_joinVars

-----------------------------------------------------------------------------
(***************************************************************************)
(* security_invariants.md, I3: an operation that spans domains is          *)
(* committed in all of them or in none, and only with a join certificate,  *)
(* whatever was prepared, refused or aborted before.                       *)
(***************************************************************************)
JoinIsAtomic ==
    \A d \in Domain : \A op \in domain[d].committed :
        /\ \A e \in DomainsOf(op) : op \in domain[e].committed
        /\ Cardinality(DomainsOf(op)) > 1 => op \in joined

(***************************************************************************)
(* The committed operations consume the versions of an object from 0 on,   *)
(* each once, and the last one wrote what the object holds: no joint       *)
(* operation double-spends against a local one, also when both were        *)
(* prepared because their inputs only overlap.                             *)
(***************************************************************************)
VersionsCountCommits ==
    \A o \in Object :
        LET d == DomainOf[o]
            now == domain[d].objects[o]
            users == {op \in domain[d].committed : o \in DOMAIN Inputs[op]}
        IN  /\ {Inputs[op][o] : op \in users} = 0 .. now.version - 1
            /\ \A p, q \in users : Inputs[p][o] = Inputs[q][o] => p = q
            /\ \A op \in users : Inputs[op][o] = now.version - 1 => now.payload = op

(***************************************************************************)
(* A prepared operation holds its inputs: no operation with the same       *)
(* inputs in a domain is prepared there too, so what is committed there    *)
(* with these inputs is the holder, aborted or not.                        *)
(***************************************************************************)
OneHolder ==
    \A d \in Domain :
        \A p \in domain[d].prepared \cup domain[d].committed, q \in domain[d].prepared :
            LocalInputs(d)[p] = LocalInputs(d)[q] => p = q

=============================================================================
