---------------------------- MODULE NexusNetwork ----------------------------
(***************************************************************************)
(* The replicated domain of ccd_nexus/network.py: a fixed leader runs two  *)
(* rounds of votes for each operation, applies it, and sends the commit    *)
(* certificate to the others, whose acknowledgements it collects before it *)
(* answers the client.                                                     *)
(*                                                                         *)
(* Frames are never taken out of msgs, so each may arrive late, repeatedly *)
(* or never (drop_rate, _send's retries), in any order.  A handler that    *)
(* raises before it changes anything is left out.  There is no             *)
(* persistence: replicas do not restart.                                   *)
(***************************************************************************)
EXTENDS NexusDomain

CONSTANTS
    Leader,     \* leader_id
    Byzantine,  \* the validators that also send an altered vote
    Workload,   \* a bound: the sets of operations submitted in one behaviour
    Retried     \* a bound: the operations that are submitted again

ASSUME LeaderAssumption ==
    /\ Leader \in Member
    /\ Byzantine \subseteq Member

VARIABLES
    replica,    \* replica[m]: the committee and the executor of m
    pending,    \* the leader's pending submissions
    msgs,       \* the frames sent so far
    finished    \* the operations whose clients have been told ok

vars == <<replica, pending, msgs, finished>>

PrepareRequest(op) == [type |-> "PREPARE_REQUEST", op |-> op]
CommitRequest(op) == [type |-> "COMMIT_REQUEST", op |-> op]
CommitCertificate(op) == [type |-> "COMMIT_CERTIFICATE", op |-> op]
VoteMessage(v) == [type |-> "VOTE", vote |-> v]
Ack(op, m) == [type |-> "ACK", op |-> op, node |-> m]

\* PREPARE_VOTE and COMMIT_VOTE differ in the phase of the vote.
Message ==
    [type : {"PREPARE_REQUEST", "COMMIT_REQUEST", "COMMIT_CERTIFICATE"}, op : Op]
        \cup [type : {"VOTE"}, vote : Vote]
        \cup [type : {"ACK"}, op : Op, node : Member]

\* A submission: which certificates the leader has issued, and who has
\* acknowledged the commit.
Submission == [prepared : BOOLEAN, certified : BOOLEAN, acks : SUBSET Member]

NewSubmission == [prepared |-> FALSE, certified |-> FALSE, acks |-> {}]

Without(f, op) == [p \in DOMAIN f \ {op} |-> f[p]]

Init ==
    /\ replica = [m \in Member |-> EmptyReplica]
    /\ pending = [op \in {} |-> NewSubmission]
    /\ msgs = {}
    /\ finished = {}

-----------------------------------------------------------------------------
Submitted == {x.op : x \in {y \in msgs : y.type = "PREPARE_REQUEST"}}

\* The leader holds every key: issue_dac signs for the whole committee, and
\* verify_dac accepts its certificate at every replica.
HasDac == IsQuorum(Member)

\* _submit at the leader, up to its first await.
Submit(op) ==
    /\ op \notin DOMAIN pending
    /\ \E W \in Workload : op \in W /\ Submitted \subseteq W
    /\ op \in Submitted => op \in Retried
    /\ Validates(replica[Leader], op)
    /\ HasDac
    /\ pending' = [p \in DOMAIN pending \cup {op} |->
                      IF p = op THEN NewSubmission ELSE pending[p]]
    /\ msgs' = msgs \cup {PrepareRequest(op)}
    /\ UNCHANGED <<replica, finished>>

\* The end of _submit when the client's time is up; it is told "commit timeout".
\* An operation that is not submitted again need not time out here: to forget
\* it is the same as to read none of its votes.
Timeout(op) ==
    /\ op \in DOMAIN pending \cap Retried
    /\ pending' = Without(pending, op)
    /\ UNCHANGED <<replica, msgs, finished>>

-----------------------------------------------------------------------------
(***************************************************************************)
(* The leader's handling of a vote, as a function on what it holds: it     *)
(* also dispatches its own votes, inside the handler that has cast them.   *)
(***************************************************************************)
Now == [state |-> replica[Leader], pending |-> pending, msgs |-> msgs, finished |-> finished]

\* _maybe_finish, for a submission whose acknowledgements are acks now.
Finished(g, op, submission) ==
    IF IsQuorum(submission.acks)
    THEN [g EXCEPT !.pending = Without(@, op), !.finished = @ \cup {op}]
    ELSE [g EXCEPT !.pending[op] = submission]

\* _on_prepare_vote, for a pending operation.
AfterPrepareVote(g, v) ==
    LET s == Recorded(g.state, v)
        issues == MayRecord(g.state, v) /\ ~g.pending[v.op].prepared /\ Certified(s, "PREPARE", v.op)
    IN  IF issues
        THEN [g EXCEPT !.state = s, !.pending[v.op].prepared = TRUE,
                       !.msgs = @ \cup {CommitRequest(v.op)}]
        ELSE [g EXCEPT !.state = s]

\* Mutant: the certificate goes out even when the leader cannot apply it.
AfterCommitVoteUnapplied(g, v) ==
    LET s == Recorded(g.state, v)
        issues == MayRecord(g.state, v) /\ ~g.pending[v.op].certified /\ Certified(s, "COMMIT", v.op)
    IN  IF issues
        THEN Finished([g EXCEPT !.state = IF Validates(s, v.op) THEN Applied(s, v.op) ELSE s,
                                !.msgs = @ \cup {CommitCertificate(v.op)}],
                      v.op, [g.pending[v.op] EXCEPT !.certified = TRUE, !.acks = @ \cup {Leader}])
        ELSE [g EXCEPT !.state = s]

\* Mutant: the certificate is not kept with the submission.
AfterCommitVoteUnnoted(g, v) ==
    LET s == Recorded(g.state, v)
        issues == MayRecord(g.state, v) /\ Certified(s, "COMMIT", v.op)
    IN  IF issues /\ Validates(s, v.op)
        THEN Finished([g EXCEPT !.state = Applied(s, v.op),
                                !.msgs = @ \cup {CommitCertificate(v.op)}],
                      v.op, [g.pending[v.op] EXCEPT !.acks = @ \cup {Leader}])
        ELSE [g EXCEPT !.state = s]

(***************************************************************************)
(* _on_commit_vote, for a pending operation.  The certificate is noted     *)
(* before apply_committed, which raises if another operation has consumed  *)
(* an input: then nothing is sent and the submission waits for its         *)
(* timeout.                                                                *)
(***************************************************************************)
AfterCommitVote(g, v) ==
    LET s == Recorded(g.state, v)
        issues == MayRecord(g.state, v) /\ ~g.pending[v.op].certified /\ Certified(s, "COMMIT", v.op)
        submission == [g.pending[v.op] EXCEPT !.certified = TRUE]
    IN  IF issues /\ Validates(s, v.op)
        THEN Finished([g EXCEPT !.state = Applied(s, v.op),
                                !.msgs = @ \cup {CommitCertificate(v.op)}],
                      v.op, [submission EXCEPT !.acks = @ \cup {Leader}])
        ELSE [g EXCEPT !.state = s, !.pending[v.op] = IF issues THEN submission ELSE @]

AfterVote(g, v) ==
    IF v.op \notin DOMAIN g.pending THEN g
    ELSE IF v.phase = "PREPARE" THEN AfterPrepareVote(g, v) ELSE AfterCommitVote(g, v)

LeaderBecomes(g) ==
    /\ replica' = [replica EXCEPT ![Leader] = g.state]
    /\ pending' = g.pending
    /\ msgs' = g.msgs
    /\ finished' = g.finished

\* A PREPARE_VOTE or COMMIT_VOTE frame arrives.
OnVote(v) == LeaderBecomes(AfterVote(Now, v))

-----------------------------------------------------------------------------
\* The votes that m sends once it has recorded its own.
VotesOf(m, phase, op) ==
    {VoteOf(m, phase, op)} \cup
        IF m \in Byzantine THEN {AlteredVoteOf(m, phase, op)} ELSE {}

\* The leader dispatches the votes that it sends, one after the other.
AfterOwnVotes(g, phase, op) ==
    LET h == AfterVote(g, VoteOf(Leader, phase, op))
    IN  IF Leader \in Byzantine THEN AfterVote(h, AlteredVoteOf(Leader, phase, op)) ELSE h

\* Mutant: a vote that is refused is sent nevertheless.
CastRefused(m, phase, op) ==
    LET s == Recorded(replica[m], VoteOf(m, phase, op))
    IN  IF m = Leader
        THEN LeaderBecomes(AfterOwnVotes([Now EXCEPT !.state = s], phase, op))
        ELSE /\ replica' = [replica EXCEPT ![m] = s]
             /\ msgs' = msgs \cup {VoteMessage(v) : v \in VotesOf(m, phase, op)}
             /\ UNCHANGED <<pending, finished>>

\* The common end of _on_prepare_request and _on_commit_request: a vote that
\* record_vote refuses is not sent.
Cast(m, phase, op) ==
    LET s == Recorded(replica[m], VoteOf(m, phase, op))
        sends == MayRecord(replica[m], VoteOf(m, phase, op))
        g == [Now EXCEPT !.state = s]
    IN  IF m = Leader
        THEN LeaderBecomes(IF sends THEN AfterOwnVotes(g, phase, op) ELSE g)
        ELSE /\ replica' = [replica EXCEPT ![m] = s]
             /\ msgs' = msgs \cup {VoteMessage(v) : v \in IF sends THEN VotesOf(m, phase, op) ELSE {}}
             /\ UNCHANGED <<pending, finished>>

OnPrepareRequest(m, op) ==
    /\ Validates(replica[m], op)
    /\ Cast(m, "PREPARE", op)

OnCommitRequest(m, op) ==
    /\ Validates(replica[m], op)
    /\ Cast(m, "COMMIT", op)

\* Mutant: a replica acknowledges before it applies.
OnCommitCertificateAckFirst(m, op) ==
    /\ m # Leader
    /\ replica' = [replica EXCEPT ![m] = IF Validates(@, op) THEN Applied(@, op) ELSE @]
    /\ msgs' = msgs \cup {Ack(op, m)}
    /\ UNCHANGED <<pending, finished>>

OnCommitCertificate(m, op) ==
    /\ m # Leader
    /\ Validates(replica[m], op)
    /\ replica' = [replica EXCEPT ![m] = Applied(@, op)]
    /\ msgs' = msgs \cup {Ack(op, m)}
    /\ UNCHANGED <<pending, finished>>

OnAck(op, m) ==
    /\ op \in DOMAIN pending
    /\ LeaderBecomes(Finished(Now, op, [pending[op] EXCEPT !.acks = @ \cup {m}]))

\* _dispatch, at member m.
Dispatch(m, x) ==
    \/ x.type = "PREPARE_REQUEST" /\ OnPrepareRequest(m, x.op)
    \/ x.type = "COMMIT_REQUEST" /\ OnCommitRequest(m, x.op)
    \/ x.type = "COMMIT_CERTIFICATE" /\ OnCommitCertificate(m, x.op)
    \/ x.type = "VOTE" /\ m = Leader /\ OnVote(x.vote)
    \/ x.type = "ACK" /\ m = Leader /\ OnAck(x.op, x.node)

Next ==
    \/ \E op \in Op : Submit(op) \/ Timeout(op)
    \/ \E m \in Member, x \in msgs : Dispatch(m, x)

Spec == Init /\ [][Next]_vars

-----------------------------------------------------------------------------
(* Properties *)

\* Every variable has its shape; a submission with an acknowledgement has the
\* commit certificate that _maybe_finish reads from it.
TypeOK ==
    /\ replica \in [Member -> Replica]
    /\ DOMAIN pending \subseteq Op
    /\ \A op \in DOMAIN pending : /\ pending[op] \in Submission
                                   /\ pending[op].acks # {} => pending[op].certified
    /\ msgs \subseteq Message
    /\ finished \subseteq Op

(***************************************************************************)
(* security_invariants.md, I2: no two committed operations consume the     *)
(* same version of an object, on whichever replicas they were applied and  *)
(* although two operations with overlapping inputs may both be certified,  *)
(* since their votes have different conflict keys.                         *)
(***************************************************************************)
NoDoubleSpend ==
    \A m, n \in Member :
        \A p \in replica[m].committed, q \in replica[n].committed :
            p # q => \A o \in DOMAIN Inputs[p] \cap DOMAIN Inputs[q] : Inputs[p][o] # Inputs[q][o]

(***************************************************************************)
(* Replicas that hold the same version of an object hold the same owner    *)
(* and payload, however late or often certificates arrive, and no replica  *)
(* is ahead of the leader.                                                 *)
(***************************************************************************)
ReplicasAgree ==
    \A o \in Object : \A m, n \in Member :
        /\ replica[m].objects[o].version = replica[n].objects[o].version
              => replica[m].objects[o] = replica[n].objects[o]
        /\ replica[m].objects[o].version <= replica[Leader].objects[o].version

(***************************************************************************)
(* A client that is told ok can rely on a quorum: the operation is applied *)
(* at the leader and at replicas that together hold more than two thirds   *)
(* of the weight.                                                          *)
(***************************************************************************)
FinalityIsQuorum ==
    \A op \in finished : IsQuorum({m \in Member : op \in replica[m].committed})

(***************************************************************************)
(* security_invariants.md, I1, for operations with the same inputs: the    *)
(* leader never issues certificates of one phase for two of them, with     *)
(* retries after timeouts and altered votes included.                      *)
(***************************************************************************)
CertificatesExclude ==
    \A a, b \in {x \in msgs : x.type \in {"COMMIT_REQUEST", "COMMIT_CERTIFICATE"}} :
        a.type = b.type /\ Inputs[a.op] = Inputs[b.op] => a.op = b.op

(***************************************************************************)
(* The evidence that a replica collects about others is true: only a       *)
(* Byzantine validator is accused of equivocation by somebody else.  (A    *)
(* correct validator that is asked to vote for a rival records evidence    *)
(* against itself: record_vote does not tell the two cases apart.)         *)
(***************************************************************************)
AccusedAreByzantine ==
    \A m \in Member : \A e \in replica[m].evidence : e.voter = m \/ e.voter \in Byzantine

=============================================================================
