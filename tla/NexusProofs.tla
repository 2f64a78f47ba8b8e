---------------------------- MODULE NexusProofs -----------------------------
(***************************************************************************)
(* Proofs about the two deployments of CCD/NEXUS, for any committee and    *)
(* any operations.                                                         *)
(*                                                                         *)
(* The replicated domain of NexusNetwork, with any set of Byzantine        *)
(* validators: its types, the exclusion of certificates, the truth of      *)
(* evidence, the absence of double spends, the agreement of replicas and   *)
(* the meaning of finality.  A handler of the leader is a sequence of      *)
(* small changes to what the leader holds, some of them inside the         *)
(* dispatch of its own votes.  So the invariant is an operator on the      *)
(* values of the variables, and it is kept by each of these changes.       *)
(*                                                                         *)
(* The joins of several domains of NexusJoin, whichever inputs they share: *)
(* all or nothing, one holder per tuple of inputs, versions consumed one   *)
(* by one.                                                                 *)
(***************************************************************************)
EXTENDS NexusNetwork, NexusJoin, WeightedQuorumProofs

-----------------------------------------------------------------------------
(* The inductive invariant *)

Pendings == UNION {[Q -> Submission] : Q \in SUBSET Op}

Types(R, P, M, F) ==
    /\ R \in [Member -> Replica]
    /\ P \in Pendings
    /\ M \in SUBSET Message
    /\ F \in SUBSET Op

\* record_vote lets a voter have one vote for each conflict key.
OneVotePerKey(s) ==
    \A v, w \in s.votes : v.voter = w.voter /\ SameKey(v, w) => v = w

\* The leader holds the votes behind every certificate; what is on the way or
\* at the leader from a correct validator is recorded at that validator; and
\* evidence is true.
VoteInv(R, M) ==
    /\ \A m \in Member : OneVotePerKey(R[m])
    /\ \A op \in Op : /\ CommitRequest(op) \in M => Certified(R[Leader], "PREPARE", op)
                      /\ CommitCertificate(op) \in M => Certified(R[Leader], "COMMIT", op)
    /\ \A v \in Vote : v.voter \notin Byzantine /\ (VoteMessage(v) \in M \/ v \in R[Leader].votes)
                          => v \in R[v.voter].votes
    /\ \A m \in Member : \A e \in R[m].evidence : e.voter = m \/ e.voter \in Byzantine

\* What an object holds was written by the committed operation that consumed
\* the version before; all committed operations consumed versions before it.
Written(s, o) ==
    LET x == s.objects[o]
    IN  /\ x.version > 0 => /\ x.payload \in s.committed
                            /\ o \in DOMAIN Inputs[x.payload]
                            /\ Inputs[x.payload][o] = x.version - 1
                            /\ x.owner = NewOwner[x.payload]
        /\ x.version = 0 => x.payload = NoOp /\ x.owner = FirstOwner
        /\ \A op \in s.committed :
              o \in DOMAIN Inputs[op] => Inputs[op][o] \in Nat /\ Inputs[op][o] < x.version

\* No two of a set of operations consume one version of an object.
Disjoint(C) ==
    \A p, q \in C :
        p # q => \A o \in DOMAIN Inputs[p] \cap DOMAIN Inputs[q] : Inputs[p][o] # Inputs[q][o]

\* Replicas follow the leader.
ObjectInv(R, M) ==
    /\ \A m \in Member : \A o \in Object : Written(R[m], o)
    /\ \A m \in Member : R[m].committed \subseteq R[Leader].committed
    /\ \A op \in Op : CommitCertificate(op) \in M => op \in R[Leader].committed
    /\ Disjoint(R[Leader].committed)

\* The replicas that have applied an operation.
AppliedAt(R, op) == {m \in Member : op \in R[m].committed}

\* Acknowledgements come from replicas that have applied the operation.
FinalInv(R, P, M, F) ==
    /\ \A op \in Op, m \in Member : Ack(op, m) \in M => op \in R[m].committed
    /\ \A op \in DOMAIN P : /\ op \in R[Leader].committed => P[op].certified
                            /\ \A m \in P[op].acks : op \in R[m].committed
    /\ \A op \in F : IsQuorum(AppliedAt(R, op))

Kept(R, P, M, F) ==
    /\ Types(R, P, M, F)
    /\ VoteInv(R, M)
    /\ ObjectInv(R, M)
    /\ FinalInv(R, P, M, F)

Inv == Kept(replica, pending, msgs, finished)

-----------------------------------------------------------------------------
(* Small changes that keep the invariant *)

\* The types of the messages and how they are told apart.
LEMMA MessageTypes ==
    /\ \A op \in Op : /\ PrepareRequest(op) \in Message
                      /\ CommitRequest(op) \in Message
                      /\ CommitCertificate(op) \in Message
                      /\ \A m \in Member : Ack(op, m) \in Message
    /\ \A v \in Vote : VoteMessage(v) \in Message
    /\ \A m \in Member, phase \in Phase, op \in Op :
          /\ VoteOf(m, phase, op) \in Vote
          /\ AlteredVoteOf(m, phase, op) \in Vote
          /\ AlteredVoteOf(m, phase, op).voter = m
BY DEF Message, PrepareRequest, CommitRequest, CommitCertificate, Ack, VoteMessage, Vote,
       VoteOf, AlteredVoteOf

\* record_vote keeps the types, and it only adds votes and evidence.
LEMMA RecordedTypes ==
    ASSUME NEW s \in Replica, NEW v \in Vote
    PROVE  /\ Recorded(s, v) \in Replica
           /\ Recorded(s, v).objects = s.objects
           /\ Recorded(s, v).committed = s.committed
           /\ s.votes \subseteq Recorded(s, v).votes
           /\ Recorded(s, v).votes \subseteq s.votes \cup {v}
           /\ MayRecord(s, v) => v \in Recorded(s, v).votes
           /\ \A e \in Recorded(s, v).evidence :
                e \in s.evidence \/ (e.voter = v.voter /\ Against(s, v) # {})
<1>1. Against(s, v) \subseteq s.votes /\ s.votes \subseteq Vote /\ v \notin Against(s, v)
  BY DEF Against, Replica
<1>2. CASE MayRecord(s, v)
  BY <1>1, <1>2 DEF Recorded, Replica
<1>3. CASE ~MayRecord(s, v)
  <2> DEFINE E == {[voter |-> v.voter, first |-> w.op, second |-> v.op] : w \in Against(s, v)}
  <2>1. E \subseteq Evidence
    BY <1>1 DEF Evidence, Vote
  <2>2. Recorded(s, v) = [s EXCEPT !.evidence = @ \cup E]
    BY <1>3 DEF Recorded
  <2>3. \A e \in E : e.voter = v.voter
    OBVIOUS
  <2>4. Against(s, v) # {}
    BY <1>3 DEF MayRecord
  <2> HIDE DEF E
  <2> QED
    BY <1>3, <2>1, <2>2, <2>3, <2>4 DEF Replica
<1> QED
  BY <1>2, <1>3

\* More votes certify no less.
LEMMA CertifiedGrows ==
    ASSUME NEW s, NEW t, s.votes \subseteq t.votes, NEW phase, NEW op, Certified(s, phase, op)
    PROVE  Certified(t, phase, op)
<1> DEFINE A == {m \in Member : VoteOf(m, phase, op) \in s.votes}
           B == {m \in Member : VoteOf(m, phase, op) \in t.votes}
<1>1. B \in SUBSET Member /\ A \in SUBSET B /\ IsQuorum(A)
  BY DEF Certified
<1> HIDE DEF A, B
<1>2. IsQuorum(B)
  BY <1>1, QuorumMonotone
<1> QED
  BY <1>2 DEF Certified, B

\* Who has applied an operation, more or less, still is a quorum.
LEMMA AppliedGrows ==
    ASSUME NEW R, NEW S, \A m \in Member : R[m].committed \subseteq S[m].committed,
           NEW op, IsQuorum(AppliedAt(R, op))
    PROVE  IsQuorum(AppliedAt(S, op))
<1>1. AppliedAt(S, op) \in SUBSET Member /\ AppliedAt(R, op) \in SUBSET AppliedAt(S, op)
  BY DEF AppliedAt
<1> QED
  BY <1>1, QuorumMonotone

\* A vote that m may hold: its own, or at the leader one that a correct
\* validator has recorded or any of a Byzantine one.
Genuine(R, m, v) ==
    \/ v.voter = m
    \/ m = Leader /\ (v.voter \in Byzantine \/ v \in R[v.voter].votes)

\* Recording a vote keeps the invariant.
LEMMA RecordKeeps ==
    ASSUME NEW R, NEW P, NEW M, NEW F, Kept(R, P, M, F),
           NEW m \in Member, NEW v \in Vote, Genuine(R, m, v)
    PROVE  Kept([R EXCEPT ![m] = Recorded(R[m], v)], P, M, F)
<1> DEFINE t == Recorded(R[m], v)
           S == [R EXCEPT ![m] = t]
<1>1. R \in [Member -> Replica] /\ R[m] \in Replica /\ R[Leader] \in Replica
  BY LeaderAssumption DEF Kept, Types
<1>2. /\ t \in Replica /\ t.objects = R[m].objects /\ t.committed = R[m].committed
      /\ R[m].votes \subseteq t.votes /\ t.votes \subseteq R[m].votes \cup {v}
      /\ \A e \in t.evidence :
            e \in R[m].evidence \/ (e.voter = v.voter /\ Against(R[m], v) # {})
  BY <1>1, RecordedTypes
<1>3. v \in t.votes /\ v \notin R[m].votes => MayRecord(R[m], v)
  BY <1>1 DEF Recorded, Replica
<1> HIDE DEF t
<1>4. S[m] = t /\ S \in [Member -> Replica] /\ \A n \in Member \ {m} : S[n] = R[n]
  BY <1>1, <1>2
<1> HIDE DEF S
<1>5. \A n \in Member : /\ S[n].objects = R[n].objects /\ S[n].committed = R[n].committed
                        /\ R[n].votes \subseteq S[n].votes
  BY <1>2, <1>4
<1>6. VoteInv(S, M)
  <2>1. ASSUME NEW n \in Member PROVE OneVotePerKey(S[n])
    <3>1. OneVotePerKey(R[n])
      BY DEF Kept, VoteInv
    <3>2. CASE n # m \/ v \in R[m].votes
      BY <3>1, <3>2, <1>2, <1>4 DEF OneVotePerKey
    <3>3. CASE n = m /\ v \notin R[m].votes
      <4>1. v \in t.votes => Against(R[m], v) = {}
        BY <3>3, <1>3 DEF MayRecord
      <4> QED
        BY <3>1, <3>3, <4>1, <1>2, <1>4 DEF OneVotePerKey, Against, SameKey
    <3> QED
      BY <3>2, <3>3
  <2>2. ASSUME NEW op \in Op
        PROVE  /\ CommitRequest(op) \in M => Certified(S[Leader], "PREPARE", op)
               /\ CommitCertificate(op) \in M => Certified(S[Leader], "COMMIT", op)
    <3>1. /\ CommitRequest(op) \in M => Certified(R[Leader], "PREPARE", op)
          /\ CommitCertificate(op) \in M => Certified(R[Leader], "COMMIT", op)
      BY DEF Kept, VoteInv
    <3>2. R[Leader].votes \subseteq S[Leader].votes
      BY <1>5, LeaderAssumption
    <3> QED
      BY <3>1, <3>2, CertifiedGrows
  <2>3. ASSUME NEW w \in Vote, w.voter \notin Byzantine,
               VoteMessage(w) \in M \/ w \in S[Leader].votes
        PROVE  w \in S[w.voter].votes
    <3>1. w.voter \in Member
      BY DEF Vote
    <3>2. CASE VoteMessage(w) \in M \/ w \in R[Leader].votes
      <4>1. w \in R[w.voter].votes
        BY <2>3, <3>2 DEF Kept, VoteInv
      <4> QED
        BY <3>1, <4>1, <1>5
    <3>3. CASE w \in S[Leader].votes /\ w \notin R[Leader].votes
      <4>1. m = Leader /\ w = v
        BY <3>3, <1>2, <1>4, LeaderAssumption
      <4>2. CASE v.voter = m
        BY <4>1, <4>2, <3>3
      <4>3. CASE v \in R[v.voter].votes
        BY <4>1, <4>3, <3>1, <1>5
      <4> QED
        BY <2>3, <4>1, <4>2, <4>3 DEF Genuine
    <3> QED
      BY <2>3, <3>2, <3>3
  <2>4. ASSUME NEW n \in Member, NEW e \in S[n].evidence
        PROVE  e.voter = n \/ e.voter \in Byzantine
    <3>1. CASE e \in R[n].evidence
      BY <3>1 DEF Kept, VoteInv
    <3>2. CASE n = m /\ e.voter = v.voter /\ Against(R[m], v) # {}
      <4>1. CASE v.voter = m \/ v.voter \in Byzantine
        BY <3>2, <4>1
      <4>2. CASE m = Leader /\ v.voter \notin Byzantine /\ v \in R[v.voter].votes
        <5>1. PICK w \in R[Leader].votes : w.voter = v.voter /\ SameKey(v, w) /\ w # v
          BY <3>2, <4>2 DEF Against
        <5>2. w \in Vote
          BY <1>1 DEF Replica
        <5>3. w \in R[v.voter].votes
          BY <4>2, <5>1, <5>2 DEF Kept, VoteInv
        <5>4. OneVotePerKey(R[v.voter])
          BY DEF Kept, VoteInv, Vote
        <5> QED
          BY <4>2, <5>1, <5>3, <5>4 DEF OneVotePerKey
      <4> QED
        BY <4>1, <4>2 DEF Genuine
    <3> QED
      BY <3>1, <3>2, <1>2, <1>4
  <2> QED
    BY <2>1, <2>2, <2>3, <2>4 DEF VoteInv
<1>7. ObjectInv(S, M)
  <2>1. \A n \in Member : \A o \in Object : Written(R[n], o) => Written(S[n], o)
    BY <1>5 DEF Written
  <2> QED
    BY <2>1, <1>5, LeaderAssumption DEF Kept, ObjectInv
<1>8. FinalInv(S, P, M, F)
  <2>1. \A op \in F : IsQuorum(AppliedAt(S, op))
    BY <1>5, AppliedGrows DEF Kept, FinalInv
  <2>2. \A op \in DOMAIN P : P[op].acks \subseteq Member
    BY DEF Kept, Types, Pendings, Submission
  <2> QED
    BY <2>1, <2>2, <1>5, LeaderAssumption DEF Kept, FinalInv
<1>9. Types(S, P, M, F)
  BY <1>4 DEF Kept, Types
<1> QED
  BY <1>6, <1>7, <1>8, <1>9 DEF Kept, S, t

\* What may be sent.
Sendable(R, x) ==
    /\ \A op \in Op : /\ x = CommitRequest(op) => Certified(R[Leader], "PREPARE", op)
                      /\ x = CommitCertificate(op) => /\ Certified(R[Leader], "COMMIT", op)
                                                      /\ op \in R[Leader].committed
                      /\ \A m \in Member : x = Ack(op, m) => op \in R[m].committed
    /\ \A v \in Vote : x = VoteMessage(v) /\ v.voter \notin Byzantine => v \in R[v.voter].votes

\* Sending it keeps the invariant.
LEMMA SendKeeps ==
    ASSUME NEW R, NEW P, NEW M, NEW F, Kept(R, P, M, F),
           NEW X \in SUBSET Message, \A x \in X : Sendable(R, x)
    PROVE  Kept(R, P, M \cup X, F)
<1>1. Types(R, P, M \cup X, F)
  BY DEF Kept, Types
<1>2. VoteInv(R, M \cup X)
  BY DEF Kept, VoteInv, Sendable
<1>3. ObjectInv(R, M \cup X)
  BY DEF Kept, ObjectInv, Sendable
<1>4. FinalInv(R, P, M \cup X, F)
  BY DEF Kept, FinalInv, Sendable
<1> QED
  BY <1>1, <1>2, <1>3, <1>4 DEF Kept

\* A submission that says no more than is true.
Truthful(R, op, t) ==
    /\ op \in R[Leader].committed => t.certified
    /\ \A m \in t.acks : op \in R[m].committed

Opened(P, op, t) == [p \in DOMAIN P \cup {op} |-> IF p = op THEN t ELSE P[p]]

\* Noting it keeps the invariant.
LEMMA NoteKeeps ==
    ASSUME NEW R, NEW P, NEW M, NEW F, Kept(R, P, M, F),
           NEW op \in Op, NEW t \in Submission, Truthful(R, op, t)
    PROVE  /\ Kept(R, Opened(P, op, t), M, F)
           /\ op \in DOMAIN P => Kept(R, [P EXCEPT ![op] = t], M, F)
<1> DEFINE Q == [p \in DOMAIN P \cup {op} |-> IF p = op THEN t ELSE P[p]]
<1>1. PICK D \in SUBSET Op : P \in [D -> Submission]
  BY DEF Kept, Types, Pendings
<1>2. Q \in [D \cup {op} -> Submission]
  BY <1>1
<1>3. Q \in Pendings
  BY <1>1, <1>2 DEF Pendings
<1>4. DOMAIN Q = DOMAIN P \cup {op} /\ \A p \in DOMAIN Q : Q[p] = IF p = op THEN t ELSE P[p]
  OBVIOUS
<1>5. op \in DOMAIN P => [P EXCEPT ![op] = t] = Q
  BY <1>1
<1> HIDE DEF Q
<1>6. FinalInv(R, Q, M, F)
  BY <1>4 DEF Kept, FinalInv, Truthful
<1>7. Kept(R, Q, M, F)
  BY <1>3, <1>6 DEF Kept, Types
<1> QED
  BY <1>5, <1>7 DEF Q, Opened

\* A submission ends, with an answer to the client if a quorum has applied the
\* operation.
LEMMA EndKeeps ==
    ASSUME NEW R, NEW P, NEW M, NEW F, Kept(R, P, M, F), NEW op \in Op
    PROVE  /\ Kept(R, Without(P, op), M, F)
           /\ IsQuorum(AppliedAt(R, op))
                => Kept(R, Without(P, op), M, F \cup {op})
<1> DEFINE Q == Without(P, op)
<1>1. PICK D \in SUBSET Op : P \in [D -> Submission]
  BY DEF Kept, Types, Pendings
<1>2. Q \in [D \ {op} -> Submission]
  BY <1>1 DEF Without
<1>3. Q \in Pendings
  BY <1>1, <1>2 DEF Pendings
<1>4. DOMAIN Q \subseteq DOMAIN P /\ \A p \in DOMAIN Q : Q[p] = P[p]
  BY DEF Without
<1> HIDE DEF Q
<1>5. FinalInv(R, Q, M, F)
  BY <1>4 DEF Kept, FinalInv
<1>6. ASSUME IsQuorum(AppliedAt(R, op))
      PROVE  FinalInv(R, Q, M, F \cup {op})
  BY <1>5, <1>6 DEF FinalInv
<1> QED
  BY <1>3, <1>5, <1>6 DEF Kept, Types, Q

\* apply_committed keeps the types, and it consumes the versions that the
\* operation names.
LEMMA AppliedTypes ==
    ASSUME NEW s \in Replica, NEW op \in Op
    PROVE  /\ Applied(s, op) \in Replica
           /\ Applied(s, op).votes = s.votes
           /\ Applied(s, op).evidence = s.evidence
           /\ Applied(s, op).committed = s.committed \cup {op}
           /\ \A o \in Object : Applied(s, op).objects[o] =
                 IF o \in DOMAIN Inputs[op]
                 THEN [version |-> s.objects[o].version + 1, owner |-> NewOwner[op], payload |-> op]
                 ELSE s.objects[o]
<1> DEFINE T == [version : Nat, owner : {FirstOwner} \cup {NewOwner[p] : p \in Op},
                 payload : Op \cup {NoOp}]
           f == [o \in Object |->
                    IF o \in DOMAIN Inputs[op]
                    THEN [version |-> s.objects[o].version + 1, owner |-> NewOwner[op], payload |-> op]
                    ELSE s.objects[o]]
<1>1. s.objects \in [Object -> T]
  BY DEF Replica
<1>2. f \in [Object -> T]
  <2> SUFFICES ASSUME NEW o \in Object PROVE f[o] \in T
    OBVIOUS
  <2>1. s.objects[o] \in T /\ s.objects[o].version \in Nat
    BY <1>1
  <2>2. [version |-> s.objects[o].version + 1, owner |-> NewOwner[op], payload |-> op] \in T
    BY <2>1
  <2> QED
    BY <2>1, <2>2
<1>3. \A o \in Object : f[o] = IF o \in DOMAIN Inputs[op]
                 THEN [version |-> s.objects[o].version + 1, owner |-> NewOwner[op], payload |-> op]
                 ELSE s.objects[o]
  OBVIOUS
<1>4. Applied(s, op) = [s EXCEPT !.objects = f, !.committed = @ \cup {op}]
  BY DEF Applied, Replica
<1> HIDE DEF f
<1>5. [s EXCEPT !.objects = f, !.committed = @ \cup {op}] \in Replica
  BY <1>2 DEF Replica
<1>6. Applied(s, op).objects = f /\ Applied(s, op).committed = s.committed \cup {op}
      /\ Applied(s, op).votes = s.votes /\ Applied(s, op).evidence = s.evidence
  BY <1>4 DEF Replica
<1> QED
  BY <1>3, <1>4, <1>5, <1>6

\* An object after an operation that a replica finds valid was applied there.
LEMMA AppliedWritten ==
    ASSUME NEW s \in Replica, NEW op \in Op, Validates(s, op),
           NEW o \in Object, Written(s, o)
    PROVE  Written(Applied(s, op), o)
<1> DEFINE t == Applied(s, op)
           x == s.objects[o]
<1>1. /\ t.committed = s.committed \cup {op}
      /\ t.objects[o] = IF o \in DOMAIN Inputs[op]
                        THEN [version |-> x.version + 1, owner |-> NewOwner[op], payload |-> op]
                        ELSE x
  BY AppliedTypes
<1>2. x.version \in Nat
  BY DEF Replica
<1> SUFFICES Written(t, o)
  OBVIOUS
<1> HIDE DEF t
<1>3. CASE o \notin DOMAIN Inputs[op]
  BY <1>1, <1>3 DEF Written
<1>4. CASE o \in DOMAIN Inputs[op]
  <2>1. Inputs[op][o] = x.version
    BY <1>4 DEF Validates
  <2>2. /\ t.objects[o].version = x.version + 1 /\ t.objects[o].owner = NewOwner[op]
        /\ t.objects[o].payload = op
    BY <1>1, <1>4
  <2>3. \A p \in t.committed :
           o \in DOMAIN Inputs[p] => Inputs[p][o] \in Nat /\ Inputs[p][o] < x.version + 1
    BY <1>1, <1>2, <2>1 DEF Written
  <2> QED
    BY <1>1, <1>2, <1>4, <2>1, <2>2, <2>3 DEF Written
<1> QED
  BY <1>3, <1>4

\* Applying an operation keeps the invariant: at the leader a valid one whose
\* certificate is noted, elsewhere a valid one that the leader has applied.
LEMMA ApplyKeeps ==
    ASSUME NEW R, NEW P, NEW M, NEW F, Kept(R, P, M, F),
           NEW m \in Member, NEW op \in Op, Validates(R[m], op),
           \/ m = Leader /\ (op \in DOMAIN P => P[op].certified)
           \/ op \in R[Leader].committed
    PROVE  Kept([R EXCEPT ![m] = Applied(R[m], op)], P, M, F)
<1> DEFINE t == Applied(R[m], op)
           S == [R EXCEPT ![m] = t]
<1>1. R \in [Member -> Replica] /\ R[m] \in Replica /\ R[Leader] \in Replica /\ Leader \in Member
  BY LeaderAssumption DEF Kept, Types
<1>2. /\ t \in Replica /\ t.votes = R[m].votes /\ t.evidence = R[m].evidence
      /\ t.committed = R[m].committed \cup {op}
  BY <1>1, AppliedTypes
<1>3. \A o \in Object : Written(t, o)
  BY <1>1, AppliedWritten DEF Kept, ObjectInv
<1> HIDE DEF t
<1>4. S[m] = t /\ S \in [Member -> Replica] /\ \A n \in Member \ {m} : S[n] = R[n]
  BY <1>1, <1>2
<1> HIDE DEF S
<1>5. \A n \in Member : /\ S[n].votes = R[n].votes /\ S[n].evidence = R[n].evidence
                        /\ R[n].committed \subseteq S[n].committed
  BY <1>2, <1>4
<1>6. op \in S[Leader].committed /\ S[Leader].committed \in
        {R[Leader].committed, R[Leader].committed \cup {op}}
  BY <1>1, <1>2, <1>4
<1>7. VoteInv(S, M)
  <2>1. \A n \in Member : OneVotePerKey(R[n]) => OneVotePerKey(S[n])
    BY <1>5 DEF OneVotePerKey
  <2>2. \A phase \in Phase : \A p \in Op :
           Certified(R[Leader], phase, p) => Certified(S[Leader], phase, p)
    BY <1>1, <1>5 DEF Certified
  <2>3. \A v \in Vote : v.voter \in Member
    BY DEF Vote
  <2> QED
    BY <2>1, <2>2, <2>3, <1>1, <1>5 DEF Kept, VoteInv, Phase
<1>8. ObjectInv(S, M)
  <2>1. \A n \in Member : \A o \in Object : Written(S[n], o)
    BY <1>3, <1>4 DEF Kept, ObjectInv
  <2>2. \A n \in Member : S[n].committed \subseteq S[Leader].committed
    BY <1>1, <1>2, <1>4, <1>6 DEF Kept, ObjectInv
  <2>3. \A p \in Op : CommitCertificate(p) \in M => p \in S[Leader].committed
    BY <1>1, <1>5 DEF Kept, ObjectInv
  <2>4. Disjoint(S[Leader].committed)
    <3>0. Disjoint(R[Leader].committed)
      BY DEF Kept, ObjectInv
    <3>1. CASE op \in R[Leader].committed
      BY <3>0, <3>1, <1>6 DEF Disjoint
    <3>2. CASE m = Leader
      <4>1. ASSUME NEW q \in R[Leader].committed,
                   NEW o \in DOMAIN Inputs[op] \cap DOMAIN Inputs[q]
            PROVE  Inputs[op][o] # Inputs[q][o]
        <5>1. o \in Object /\ R[Leader].objects[o].version \in Nat
          BY <1>1, OperationAssumption DEF Replica
        <5>2. Inputs[op][o] = R[Leader].objects[o].version
          BY <3>2, <4>1 DEF Validates
        <5>3. Inputs[q][o] \in Nat /\ Inputs[q][o] < R[Leader].objects[o].version
          BY <1>1, <4>1, <5>1 DEF Kept, ObjectInv, Written
        <5> QED
          BY <5>1, <5>2, <5>3
      <4> QED
        BY <3>0, <4>1, <1>6 DEF Disjoint
    <3> QED
      BY <3>1, <3>2
  <2> QED
    BY <2>1, <2>2, <2>3, <2>4 DEF ObjectInv
<1>9. FinalInv(S, P, M, F)
  <2>1. ASSUME NEW p \in F PROVE IsQuorum(AppliedAt(S, p))
    <3>1. IsQuorum(AppliedAt(R, p))
      BY DEF Kept, FinalInv
    <3>2. \A n \in Member : R[n].committed \subseteq S[n].committed
      BY <1>5
    <3> QED
      BY <3>1, <3>2, AppliedGrows
  <2>2. \A p \in DOMAIN P : p \in Op /\ P[p].acks \subseteq Member
    BY DEF Kept, Types, Pendings, Submission
  <2>3. ASSUME NEW p \in DOMAIN P, p \in S[Leader].committed PROVE P[p].certified
    BY <2>3, <1>6 DEF Kept, FinalInv
  <2> QED
    BY <2>1, <2>2, <2>3, <1>5 DEF Kept, FinalInv
<1>10. Types(S, P, M, F)
  BY <1>4 DEF Kept, Types
<1> QED
  BY <1>7, <1>8, <1>9, <1>10 DEF Kept, S, t

-----------------------------------------------------------------------------
(* The leader's handlers *)

LeaderState == [state : Replica, pending : Pendings, msgs : SUBSET Message,
                finished : SUBSET Op]

\* The replicas, when the leader holds g.
At(g) == [replica EXCEPT ![Leader] = g.state]

Holds(g) == g \in LeaderState /\ Kept(At(g), g.pending, g.msgs, g.finished)

\* How At follows the leader's replica.
LEMMA AtTypes ==
    ASSUME replica \in [Member -> Replica], NEW g \in LeaderState
    PROVE  /\ At(g)[Leader] = g.state
           /\ At(g) \in [Member -> Replica]
           /\ \A h \in LeaderState : /\ At(h) = [At(g) EXCEPT ![Leader] = h.state]
                                     /\ h.state = g.state => At(h) = At(g)
BY LeaderAssumption DEF At, LeaderState

\* A pending operation and its submission.
LEMMA PendingTypes ==
    ASSUME NEW P \in Pendings
    PROVE  /\ DOMAIN P \subseteq Op
           /\ \A op \in DOMAIN P : P[op] \in Submission
           /\ \A op \in DOMAIN P, t \in Submission : [P EXCEPT ![op] = t] \in Pendings
           /\ \A op : Without(P, op) \in Pendings
<1>1. PICK D \in SUBSET Op : P \in [D -> Submission]
  BY DEF Pendings
<1>2. \A op \in DOMAIN P, t \in Submission : [P EXCEPT ![op] = t] \in [D -> Submission]
  BY <1>1
<1>3. \A op : Without(P, op) \in [D \ {op} -> Submission] /\ D \ {op} \in SUBSET Op
  BY <1>1 DEF Without
<1> QED
  BY <1>1, <1>2, <1>3 DEF Pendings

\* _maybe_finish keeps the invariant.
LEMMA FinishedKeeps ==
    ASSUME replica \in [Member -> Replica], NEW g, Holds(g),
           NEW op \in DOMAIN g.pending, NEW t \in Submission, Truthful(At(g), op, t)
    PROVE  Holds(Finished(g, op, t))
<1> DEFINE h == Finished(g, op, t)
<1>1. g \in LeaderState /\ g.pending \in Pendings /\ op \in Op
  BY PendingTypes DEF Holds, LeaderState
<1>2. CASE IsQuorum(t.acks)
  <2>1. h = [g EXCEPT !.pending = Without(@, op), !.finished = @ \cup {op}]
    BY <1>2 DEF Finished
  <2>2. /\ h \in LeaderState /\ h.state = g.state /\ h.msgs = g.msgs
        /\ h.pending = Without(g.pending, op) /\ h.finished = g.finished \cup {op}
    <3>1. Without(g.pending, op) \in Pendings
      BY <1>1, PendingTypes
    <3> HIDE DEF h
    <3> QED
      BY <2>1, <1>1, <3>1 DEF LeaderState
  <2>3. AppliedAt(At(g), op) \in SUBSET Member /\ t.acks \in SUBSET AppliedAt(At(g), op)
    BY DEF AppliedAt, Truthful, Submission
  <2>4. IsQuorum(AppliedAt(At(g), op))
    BY <1>2, <2>3, QuorumMonotone
  <2>5. Kept(At(g), Without(g.pending, op), g.msgs, g.finished \cup {op})
    BY <1>1, <2>4, EndKeeps DEF Holds
  <2>6. At(h) = At(g)
    BY <1>1, <2>2, AtTypes
  <2> HIDE DEF h
  <2> QED
    BY <2>2, <2>5, <2>6 DEF Holds, h
<1>3. CASE ~IsQuorum(t.acks)
  <2>1. h = [g EXCEPT !.pending[op] = t]
    BY <1>3 DEF Finished
  <2>2. /\ h \in LeaderState /\ h.state = g.state /\ h.msgs = g.msgs
        /\ h.pending = [g.pending EXCEPT ![op] = t] /\ h.finished = g.finished
    BY <2>1, <1>1, PendingTypes DEF LeaderState
  <2>3. Kept(At(g), [g.pending EXCEPT ![op] = t], g.msgs, g.finished)
    BY <1>1, NoteKeeps DEF Holds
  <2>4. At(h) = At(g)
    BY <1>1, <2>2, AtTypes
  <2> HIDE DEF h
  <2> QED
    BY <2>2, <2>3, <2>4 DEF Holds, h
<1> QED
  BY <1>2, <1>3

\* The leader records a vote.
LEMMA RecordingKeeps ==
    ASSUME replica \in [Member -> Replica], NEW g, Holds(g),
           NEW v \in Vote, Genuine(At(g), Leader, v)
    PROVE  Holds([g EXCEPT !.state = Recorded(g.state, v)])
<1> DEFINE h == [g EXCEPT !.state = Recorded(g.state, v)]
<1>1. g \in LeaderState /\ g.state \in Replica /\ Leader \in Member
  BY LeaderAssumption DEF Holds, LeaderState
<1>2. /\ h \in LeaderState /\ h.state = Recorded(g.state, v) /\ h.pending = g.pending
      /\ h.msgs = g.msgs /\ h.finished = g.finished
  BY <1>1, RecordedTypes DEF LeaderState
<1> HIDE DEF h
<1>3. At(g)[Leader] = g.state /\ At(h) = [At(g) EXCEPT ![Leader] = h.state]
  BY <1>1, <1>2, AtTypes
<1>4. Kept([At(g) EXCEPT ![Leader] = Recorded(At(g)[Leader], v)], g.pending, g.msgs, g.finished)
  BY <1>1, RecordKeeps DEF Holds
<1>5. Kept(At(h), h.pending, h.msgs, h.finished)
  BY <1>2, <1>3, <1>4
<1> QED
  BY <1>2, <1>5 DEF Holds, h

\* _on_prepare_vote keeps the invariant.
LEMMA PrepareVoteKeeps ==
    ASSUME replica \in [Member -> Replica], NEW g, Holds(g),
           NEW v \in Vote, Genuine(At(g), Leader, v), v.op \in DOMAIN g.pending
    PROVE  Holds(AfterPrepareVote(g, v))
<1> DEFINE s == Recorded(g.state, v)
           k == [g EXCEPT !.state = s]
           op == v.op
           t == [g.pending[op] EXCEPT !.prepared = TRUE]
           h == [g EXCEPT !.state = s, !.pending[op].prepared = TRUE,
                          !.msgs = @ \cup {CommitRequest(op)}]
<1>1. Holds(k)
  BY RecordingKeeps
<1>2. g \in LeaderState /\ g.pending \in Pendings /\ op \in Op /\ s \in Replica
  BY RecordedTypes DEF Holds, LeaderState, Vote
<1>3. k \in LeaderState /\ k.state = s /\ k.pending = g.pending /\ k.msgs = g.msgs
        /\ k.finished = g.finished
  BY <1>2 DEF LeaderState
<1>4. g.pending[op] \in Submission /\ [g.pending EXCEPT ![op] = t] \in Pendings
  <2>1. g.pending[op] \in Submission
    BY <1>2, PendingTypes
  <2>2. t \in Submission
    BY <2>1 DEF Submission
  <2> QED
    BY <1>2, <2>1, <2>2, PendingTypes
<1>5. t \in Submission /\ t.certified = g.pending[op].certified /\ t.acks = g.pending[op].acks
  BY <1>4 DEF Submission
<1>6. CASE Certified(s, "PREPARE", op)
  <2>1. h \in LeaderState /\ h.state = s /\ h.pending = [g.pending EXCEPT ![op] = t]
          /\ h.msgs = g.msgs \cup {CommitRequest(op)} /\ h.finished = g.finished
    <3>1. CommitRequest(op) \in Message
      BY <1>2, MessageTypes
    <3>2. h = [g EXCEPT !.state = s, !.pending = [g.pending EXCEPT ![op] = t],
                        !.msgs = g.msgs \cup {CommitRequest(op)}]
      BY <1>2 DEF LeaderState
    <3> HIDE DEF h, s, t
    <3> QED
      BY <1>2, <1>4, <3>1, <3>2 DEF LeaderState
  <2>2. At(k)[Leader] = s /\ At(h) = At(k)
    BY <1>3, <2>1, AtTypes
  <2> HIDE DEF h, s, t, k
  <2>3. Truthful(At(k), op, t)
    BY <1>1, <1>3, <1>5 DEF Holds, Kept, FinalInv, Truthful
  <2>4. Kept(At(k), [g.pending EXCEPT ![op] = t], g.msgs, g.finished)
    BY <1>1, <1>2, <1>3, <1>5, <2>3, NoteKeeps DEF Holds
  <2>5. Sendable(At(k), CommitRequest(op))
    BY <1>6, <2>2 DEF Sendable, CommitRequest, CommitCertificate, Ack, VoteMessage
  <2>6. {CommitRequest(op)} \in SUBSET Message
    BY <1>2, MessageTypes
  <2>7. Kept(At(k), [g.pending EXCEPT ![op] = t], g.msgs \cup {CommitRequest(op)}, g.finished)
    BY <2>4, <2>5, <2>6, SendKeeps
  <2>8. Holds(h)
    BY <2>1, <2>2, <2>7 DEF Holds
  <2> QED
    BY <1>1, <1>6, <2>8 DEF AfterPrepareVote, h, k, s, t
<1>7. CASE ~Certified(s, "PREPARE", op)
  BY <1>1, <1>7 DEF AfterPrepareVote
<1> QED
  BY <1>6, <1>7

\* The parts of _on_commit_vote: the certificate, its submission, the commit.
WithCertificate(t) == [t EXCEPT !.certified = TRUE]

Noting(k, op, t) == [k EXCEPT !.pending[op] = t]

Committing(k, op) == [k EXCEPT !.state = Applied(k.state, op),
                               !.msgs = @ \cup {CommitCertificate(op)}]

\* The leader notes the commit certificate of an operation that it cannot
\* apply.
LEMMA NotingKeeps ==
    ASSUME replica \in [Member -> Replica], NEW k, Holds(k), NEW op \in DOMAIN k.pending,
           NEW t, t = WithCertificate(k.pending[op])
    PROVE  /\ Holds(Noting(k, op, t))
           /\ t \in Submission /\ t.certified /\ t.acks = k.pending[op].acks
           /\ \A m \in t.acks : op \in At(k)[m].committed
<1> DEFINE h == Noting(k, op, t)
<1>1. k \in LeaderState /\ k.pending \in Pendings
  BY DEF Holds, LeaderState
<1>2. op \in Op /\ k.pending[op] \in Submission
  BY <1>1, PendingTypes
<1>3. t \in Submission /\ t.certified /\ t.acks = k.pending[op].acks
  BY <1>2 DEF Submission, WithCertificate
<1>4. [k.pending EXCEPT ![op] = t] \in Pendings
  BY <1>1, <1>3, PendingTypes
<1>5. /\ h \in LeaderState /\ h.state = k.state /\ h.msgs = k.msgs
      /\ h.pending = [k.pending EXCEPT ![op] = t] /\ h.finished = k.finished
  <2>1. h = [k EXCEPT !.pending = [k.pending EXCEPT ![op] = t]]
    BY <1>1 DEF LeaderState, Noting
  <2> HIDE DEF h
  <2> QED
    BY <1>1, <1>4, <2>1 DEF LeaderState
<1>6. \A m \in t.acks : op \in At(k)[m].committed
  BY <1>3 DEF Holds, Kept, FinalInv
<1>7. Truthful(At(k), op, t)
  BY <1>3, <1>6 DEF Truthful
<1>8. Kept(At(k), [k.pending EXCEPT ![op] = t], k.msgs, k.finished)
  BY <1>2, <1>3, <1>7, NoteKeeps DEF Holds
<1>9. At(h) = At(k)
  BY <1>1, <1>5, AtTypes
<1> HIDE DEF h
<1>10. Holds(h)
  BY <1>5, <1>8, <1>9 DEF Holds
<1> QED
  BY <1>3, <1>6, <1>10 DEF h

\* The leader applies an operation whose certificate it has noted, and sends
\* the certificate.
LEMMA CommittingKeeps ==
    ASSUME replica \in [Member -> Replica], NEW k, Holds(k),
           NEW op \in DOMAIN k.pending, k.pending[op].certified,
           Certified(k.state, "COMMIT", op), Validates(k.state, op),
           NEW h, h = Committing(k, op)
    PROVE  /\ Holds(h)
           /\ h.state = Applied(k.state, op) /\ h.pending = k.pending
           /\ \A m \in Member : At(k)[m].committed \subseteq At(h)[m].committed
           /\ op \in At(h)[Leader].committed
<1> DEFINE s == Applied(k.state, op)
<1>1. k \in LeaderState /\ k.pending \in Pendings /\ k.state \in Replica /\ Leader \in Member
  BY LeaderAssumption DEF Holds, LeaderState
<1>2. op \in Op
  BY <1>1, PendingTypes
<1>3. /\ s \in Replica /\ s.votes = k.state.votes /\ s.committed = k.state.committed \cup {op}
  BY <1>1, <1>2, AppliedTypes
<1>4. CommitCertificate(op) \in Message
  BY <1>2, MessageTypes
<1> HIDE DEF s
<1>5. /\ h \in LeaderState /\ h.state = s /\ h.pending = k.pending
      /\ h.msgs = k.msgs \cup {CommitCertificate(op)} /\ h.finished = k.finished
  BY <1>1, <1>3, <1>4 DEF LeaderState, s, Committing
<1>6. /\ At(k)[Leader] = k.state /\ At(h)[Leader] = s
      /\ At(h) = [At(k) EXCEPT ![Leader] = s] /\ At(k) \in [Member -> Replica]
  BY <1>1, <1>5, AtTypes
<1>7. Kept([At(k) EXCEPT ![Leader] = Applied(At(k)[Leader], op)], k.pending, k.msgs, k.finished)
  <2>1. Validates(At(k)[Leader], op)
    BY <1>6
  <2> QED
    BY <1>1, <1>2, <2>1, ApplyKeeps DEF Holds
<1>8. Kept(At(h), k.pending, k.msgs, k.finished)
  BY <1>6, <1>7 DEF s
<1>9. Certified(s, "COMMIT", op)
  BY <1>3 DEF Certified
<1>10. Sendable(At(h), CommitCertificate(op))
  BY <1>3, <1>6, <1>9 DEF Sendable, CommitRequest, CommitCertificate, Ack, VoteMessage
<1>11. {CommitCertificate(op)} \in SUBSET Message
  BY <1>4
<1>12. Kept(At(h), k.pending, k.msgs \cup {CommitCertificate(op)}, k.finished)
  BY <1>8, <1>10, <1>11, SendKeeps
<1>13. Holds(h)
  BY <1>5, <1>12 DEF Holds
<1>14. \A m \in Member : At(k)[m].committed \subseteq At(h)[m].committed
  BY <1>1, <1>3, <1>6
<1> QED
  BY <1>3, <1>5, <1>6, <1>13, <1>14 DEF s

\* _maybe_finish does not depend on what the submission was.
LEMMA FinishedForgets ==
    ASSUME NEW g \in LeaderState, NEW op \in DOMAIN g.pending, NEW t, NEW u
    PROVE  Finished([g EXCEPT !.pending[op] = u], op, t) = Finished(g, op, t)
<1> DEFINE h == [g EXCEPT !.pending[op] = u]
<1>1. PICK D \in SUBSET Op : g.pending \in [D -> Submission]
  BY DEF LeaderState, Pendings
<1>2. Without([g.pending EXCEPT ![op] = u], op) = Without(g.pending, op)
  BY <1>1 DEF Without
<1>3. [[g.pending EXCEPT ![op] = u] EXCEPT ![op] = t] = [g.pending EXCEPT ![op] = t]
  BY <1>1
<1>4. h = [g EXCEPT !.pending = [g.pending EXCEPT ![op] = u]]
  BY DEF LeaderState
<1>5. [h EXCEPT !.pending = Without(g.pending, op), !.finished = g.finished \cup {op}]
        = [g EXCEPT !.pending = Without(g.pending, op), !.finished = g.finished \cup {op}]
  BY <1>4 DEF LeaderState
<1>6. [h EXCEPT !.pending = [g.pending EXCEPT ![op] = t]]
        = [g EXCEPT !.pending = [g.pending EXCEPT ![op] = t]]
  BY <1>4 DEF LeaderState
<1>7. h.pending = [g.pending EXCEPT ![op] = u] /\ h.finished = g.finished
  BY <1>4 DEF LeaderState
<1> HIDE DEF h
<1>8. Finished(h, op, t) = Finished(g, op, t)
  BY <1>2, <1>3, <1>5, <1>6, <1>7 DEF Finished
<1> QED
  BY <1>8 DEF h

\* _on_commit_vote keeps the invariant.
LEMMA CommitVoteKeeps ==
    ASSUME replica \in [Member -> Replica], NEW g, Holds(g),
           NEW v \in Vote, Genuine(At(g), Leader, v), v.op \in DOMAIN g.pending
    PROVE  Holds(AfterCommitVote(g, v))
<1> DEFINE s == Recorded(g.state, v)
           op == v.op
           k == [g EXCEPT !.state = s]
           u == WithCertificate(g.pending[op])
           j == Noting(k, op, u)
           h == Committing(j, op)
           b == [g EXCEPT !.state = Applied(s, op), !.msgs = @ \cup {CommitCertificate(op)}]
           t == [u EXCEPT !.acks = @ \cup {Leader}]
           issues == MayRecord(g.state, v) /\ ~g.pending[op].certified /\ Certified(s, "COMMIT", op)
<1>1. Holds(k)
  BY RecordingKeeps
<1>2. g \in LeaderState /\ g.pending \in Pendings /\ s \in Replica /\ Leader \in Member
  BY RecordedTypes, LeaderAssumption DEF Holds, LeaderState
<1> HIDE DEF s
<1>3. k \in LeaderState /\ k.state = s /\ k.pending = g.pending /\ k.msgs = g.msgs
        /\ k.finished = g.finished
  BY <1>2 DEF LeaderState
<1> HIDE DEF u
<1>4. /\ Holds(j) /\ u \in Submission /\ u.certified /\ u.acks = g.pending[op].acks
      /\ \A m \in u.acks : op \in At(k)[m].committed
  <2>1. op \in DOMAIN k.pending /\ u = WithCertificate(k.pending[op])
    BY <1>3 DEF u
  <2>2. j = Noting(k, op, u)
    OBVIOUS
  <2> HIDE DEF k, op, j
  <2> QED
    BY <1>1, <1>3, <2>1, <2>2, NotingKeeps
<1>5. /\ j \in LeaderState /\ j.state = s /\ j.pending = [g.pending EXCEPT ![op] = u]
      /\ j.msgs = g.msgs /\ j.finished = g.finished
  BY <1>3, <1>4 DEF Holds, LeaderState, Noting
<1>6. op \in DOMAIN j.pending /\ j.pending[op] = u
  <2>1. PICK D \in SUBSET Op : g.pending \in [D -> Submission]
    BY <1>2 DEF Pendings
  <2> QED
    BY <1>5, <2>1
<1>7. CASE issues /\ Validates(s, op)
  <2>1. /\ Holds(h) /\ h.state = Applied(j.state, op) /\ h.pending = j.pending
        /\ \A m \in Member : At(j)[m].committed \subseteq At(h)[m].committed
        /\ op \in At(h)[Leader].committed
    <3>1. j.pending[op].certified /\ Certified(j.state, "COMMIT", op) /\ Validates(j.state, op)
      BY <1>4, <1>5, <1>6, <1>7
    <3>2. h = Committing(j, op)
      OBVIOUS
    <3> HIDE DEF j, op, h
    <3> QED
      BY <1>4, <1>6, <3>1, <3>2, CommittingKeeps
  <2>2. At(j) = At(k)
    BY <1>3, <1>5, AtTypes
  <2>3. t \in Submission /\ t.certified /\ t.acks = u.acks \cup {Leader}
    BY <1>2, <1>4 DEF Submission
  <2>4. u.acks \subseteq Member
    BY <1>4 DEF Submission
  <2> HIDE DEF t, h
  <2>5. Truthful(At(h), op, t)
    BY <1>4, <2>1, <2>2, <2>3, <2>4 DEF Truthful
  <2>6. op \in DOMAIN h.pending
    BY <1>6, <2>1
  <2>7. Holds(Finished(h, op, t))
    BY <2>1, <2>3, <2>5, <2>6, FinishedKeeps
  <2>8. b \in LeaderState /\ b.pending = g.pending
    BY <1>3, <1>5, <2>1 DEF Holds, LeaderState, h, Committing
  <2>9. h = [b EXCEPT !.pending[op] = u]
    BY <1>2, <1>3, <1>5 DEF LeaderState, h, Committing, Noting
  <2> HIDE DEF b
  <2>10. Finished(h, op, t) = Finished(b, op, t)
    <3> op \in DOMAIN b.pending
      BY <2>8
    <3> HIDE DEF op
    <3> QED
      BY <2>8, <2>9, FinishedForgets
  <2>11. AfterCommitVote(g, v) = Finished(b, op, t)
    BY <1>7 DEF AfterCommitVote, WithCertificate, b, t, u, s
  <2> QED
    BY <2>7, <2>10, <2>11
<1>8. CASE issues /\ ~Validates(s, op)
  <2>1. AfterCommitVote(g, v) = [g EXCEPT !.state = s, !.pending[op] = u]
    BY <1>8 DEF AfterCommitVote, WithCertificate, u, s
  <2>2. [g EXCEPT !.state = s, !.pending[op] = u] = j
    BY <1>2 DEF LeaderState, Noting
  <2> QED
    BY <1>4, <2>1, <2>2
<1>9. CASE ~issues
  <2>1. AfterCommitVote(g, v) = [g EXCEPT !.state = s, !.pending[op] = g.pending[op]]
    BY <1>9 DEF AfterCommitVote, s
  <2>2. PICK D \in SUBSET Op : g.pending \in [D -> Submission]
    BY <1>2 DEF Pendings
  <2>3. [g.pending EXCEPT ![op] = g.pending[op]] = g.pending
    BY <2>2
  <2>4. [g EXCEPT !.state = s, !.pending[op] = g.pending[op]] = k
    BY <1>2, <2>3 DEF LeaderState
  <2> QED
    BY <1>1, <2>1, <2>4
<1> QED
  BY <1>7, <1>8, <1>9

\* Handling a vote at the leader keeps the invariant.
LEMMA VoteKeeps ==
    ASSUME replica \in [Member -> Replica], NEW g, Holds(g),
           NEW v \in Vote, Genuine(At(g), Leader, v)
    PROVE  Holds(AfterVote(g, v))
BY PrepareVoteKeeps, CommitVoteKeeps DEF AfterVote

\* The leader's own votes keep it too.
LEMMA OwnVotesKeep ==
    ASSUME replica \in [Member -> Replica], NEW g, Holds(g), NEW phase \in Phase, NEW op \in Op
    PROVE  Holds(AfterOwnVotes(g, phase, op))
<1> DEFINE v == VoteOf(Leader, phase, op)
           w == AlteredVoteOf(Leader, phase, op)
           h == AfterVote(g, v)
<1>1. v \in Vote /\ v.voter = Leader /\ w \in Vote /\ w.voter = Leader
  BY LeaderAssumption, MessageTypes DEF VoteOf
<1> HIDE DEF v, w
<1>2. \A k : Genuine(At(k), Leader, v) /\ Genuine(At(k), Leader, w)
  BY <1>1 DEF Genuine
<1>3. Holds(h)
  BY <1>1, <1>2, VoteKeeps
<1> HIDE DEF h
<1>4. Holds(AfterVote(h, w))
  BY <1>1, <1>2, <1>3, VoteKeeps
<1> QED
  BY <1>3, <1>4 DEF AfterOwnVotes, h, v, w

\* What the leader becomes satisfies the invariant.
LEMMA BecomesKeeps ==
    ASSUME NEW g, Holds(g), LeaderBecomes(g)
    PROVE  Inv'
BY DEF Holds, At, LeaderBecomes, Inv

\* What the leader holds between two handlers.
LEMMA NowHolds ==
    ASSUME Inv
    PROVE  /\ replica \in [Member -> Replica] /\ replica[Leader] \in Replica
           /\ Holds(Now) /\ Now \in LeaderState /\ At(Now) = replica
           /\ Now.state = replica[Leader] /\ Now.pending = pending
           /\ Now.msgs = msgs /\ Now.finished = finished
<1>1. /\ replica \in [Member -> Replica] /\ replica[Leader] \in Replica
      /\ pending \in Pendings /\ msgs \in SUBSET Message /\ finished \in SUBSET Op
  BY LeaderAssumption DEF Inv, Kept, Types
<1>2. /\ Now \in LeaderState /\ Now.state = replica[Leader] /\ Now.pending = pending
      /\ Now.msgs = msgs /\ Now.finished = finished
  BY <1>1 DEF Now, LeaderState
<1>3. At(Now) = replica
  BY <1>1, <1>2 DEF At
<1> QED
  BY <1>1, <1>2, <1>3 DEF Holds, Inv

\* A request for a vote keeps the invariant.
LEMMA CastKeeps ==
    ASSUME Inv, NEW m \in Member, NEW phase \in Phase, NEW op \in Op, Cast(m, phase, op)
    PROVE  Inv'
<1> DEFINE v == VoteOf(m, phase, op)
           s == Recorded(replica[m], v)
           sends == MayRecord(replica[m], v)
<1>1. v \in Vote /\ v.voter = m
  BY MessageTypes DEF VoteOf
<1>2. replica \in [Member -> Replica] /\ replica[m] \in Replica
  BY NowHolds
<1>3. s \in Replica /\ (sends => v \in s.votes)
  BY <1>1, <1>2, RecordedTypes
<1>4. CASE m = Leader
  <2> DEFINE g == [Now EXCEPT !.state = s]
  <2>1. g = [Now EXCEPT !.state = Recorded(Now.state, v)]
    BY <1>4, NowHolds
  <2>2. Genuine(At(Now), Leader, v)
    BY <1>1, <1>4 DEF Genuine
  <2>3. Holds(g)
    BY <1>1, <1>2, <2>1, <2>2, NowHolds, RecordingKeeps
  <2>4. LeaderBecomes(IF sends THEN AfterOwnVotes(g, phase, op) ELSE g)
    BY <1>4 DEF Cast
  <2> HIDE DEF g, sends
  <2>5. Holds(AfterOwnVotes(g, phase, op))
    BY <1>2, <2>3, OwnVotesKeep
  <2> QED
    BY <2>3, <2>4, <2>5, BecomesKeeps
<1>5. CASE m # Leader
  <2> DEFINE R == [replica EXCEPT ![m] = s]
             X == {VoteMessage(w) : w \in IF sends THEN VotesOf(m, phase, op) ELSE {}}
  <2>1. replica' = R /\ msgs' = msgs \cup X /\ pending' = pending /\ finished' = finished
    BY <1>5 DEF Cast
  <2>2. Genuine(replica, m, v)
    BY <1>1 DEF Genuine
  <2>3. Kept(R, pending, msgs, finished)
    BY <1>1, <2>2, RecordKeeps DEF Inv
  <2>4. R[m] = s
    BY <1>2
  <2>5. ASSUME NEW x \in X PROVE x \in Message /\ Sendable(R, x)
    <3>1. sends /\ (x = VoteMessage(v) \/ (m \in Byzantine /\ x = VoteMessage(AlteredVoteOf(m, phase, op))))
      BY DEF VotesOf
    <3>2. PICK w \in Vote : /\ x = VoteMessage(w)
                            /\ w = v \/ (m \in Byzantine /\ w.voter = m)
      BY <3>1, <1>1, MessageTypes
    <3>3. w.voter = m /\ (w.voter \notin Byzantine => w \in R[w.voter].votes)
      BY <1>1, <1>3, <2>4, <3>1, <3>2
    <3> HIDE DEF R, X, s, v, sends
    <3>4. \A u : x = VoteMessage(u) => u = w
      BY <3>2 DEF VoteMessage
    <3> QED
      BY <3>2, <3>3, <3>4, MessageTypes
         DEF Sendable, CommitRequest, CommitCertificate, Ack, VoteMessage
  <2>6. X \in SUBSET Message /\ \A x \in X : Sendable(R, x)
    BY <2>5
  <2> HIDE DEF R, X
  <2>7. Kept(R, pending, msgs \cup X, finished)
    BY <2>3, <2>6, SendKeeps
  <2> QED
    BY <2>1, <2>7 DEF Inv
<1> QED
  BY <1>4, <1>5

\* A commit certificate that arrives keeps the invariant.
LEMMA CertificateKeeps ==
    ASSUME Inv, NEW m \in Member, NEW op \in Op, CommitCertificate(op) \in msgs,
           OnCommitCertificate(m, op)
    PROVE  Inv'
<1> DEFINE R == [replica EXCEPT ![m] = Applied(replica[m], op)]
<1>1. /\ Validates(replica[m], op) /\ replica' = R /\ msgs' = msgs \cup {Ack(op, m)}
      /\ pending' = pending /\ finished' = finished
  BY DEF OnCommitCertificate
<1>2. op \in replica[Leader].committed
  BY DEF Inv, Kept, ObjectInv
<1>3. Kept(R, pending, msgs, finished)
  BY <1>1, <1>2, ApplyKeeps DEF Inv
<1>4. op \in R[m].committed
  BY NowHolds, AppliedTypes
<1> HIDE DEF R
<1>5. Sendable(R, Ack(op, m))
  BY <1>4 DEF Sendable, CommitRequest, CommitCertificate, Ack, VoteMessage
<1>6. {Ack(op, m)} \in SUBSET Message
  BY MessageTypes
<1>7. Kept(R, pending, msgs \cup {Ack(op, m)}, finished)
  BY <1>3, <1>5, <1>6, SendKeeps
<1> QED
  BY <1>1, <1>7 DEF Inv

\* An acknowledgement that arrives keeps the invariant.
LEMMA AckKeeps ==
    ASSUME Inv, NEW m \in Member, NEW op \in Op, Ack(op, m) \in msgs, OnAck(op, m)
    PROVE  Inv'
<1> DEFINE t == [pending[op] EXCEPT !.acks = @ \cup {m}]
<1>1. op \in DOMAIN pending /\ LeaderBecomes(Finished(Now, op, t))
  BY DEF OnAck
<1>2. pending[op] \in Submission
  BY <1>1, PendingTypes DEF Inv, Kept, Types
<1>3. t \in Submission /\ t.certified = pending[op].certified /\ t.acks = pending[op].acks \cup {m}
  BY <1>2 DEF Submission
<1> HIDE DEF t
<1>4. op \in replica[m].committed
  BY DEF Inv, Kept, FinalInv
<1>5. Truthful(replica, op, t)
  BY <1>1, <1>3, <1>4 DEF Inv, Kept, FinalInv, Truthful
<1>6. Holds(Finished(Now, op, t))
  BY <1>1, <1>3, <1>5, NowHolds, FinishedKeeps
<1> QED
  BY <1>1, <1>6, BecomesKeeps

\* A submission and its timeout keep the invariant.
LEMMA SubmitKeeps ==
    ASSUME Inv, NEW op \in Op, Submit(op) \/ Timeout(op)
    PROVE  Inv'
<1>1. CASE Submit(op)
  <2> DEFINE Q == Opened(pending, op, NewSubmission)
  <2>1. /\ Validates(replica[Leader], op) /\ pending' = Q
        /\ msgs' = msgs \cup {PrepareRequest(op)} /\ replica' = replica /\ finished' = finished
    BY <1>1 DEF Submit, Opened
  <2>2. NewSubmission \in Submission /\ Truthful(replica, op, NewSubmission)
    BY <2>1 DEF NewSubmission, Submission, Truthful, Validates
  <2>3. Kept(replica, Q, msgs, finished)
    BY <2>2, NoteKeeps DEF Inv
  <2> HIDE DEF Q
  <2>4. Sendable(replica, PrepareRequest(op))
    BY DEF Sendable, PrepareRequest, CommitRequest, CommitCertificate, Ack, VoteMessage
  <2>5. {PrepareRequest(op)} \in SUBSET Message
    BY MessageTypes
  <2>6. Kept(replica, Q, msgs \cup {PrepareRequest(op)}, finished)
    BY <2>3, <2>4, <2>5, SendKeeps
  <2> QED
    BY <2>1, <2>6 DEF Inv
<1>2. CASE Timeout(op)
  <2>1. Kept(replica, Without(pending, op), msgs, finished)
    BY EndKeeps DEF Inv
  <2> QED
    BY <1>2, <2>1 DEF Timeout, Inv
<1> QED
  BY <1>1, <1>2

\* What a frame that has been sent carries.
LEMMA FrameTypes ==
    ASSUME NEW x \in Message
    PROVE  /\ x.type \in {"PREPARE_REQUEST", "COMMIT_REQUEST", "COMMIT_CERTIFICATE"} => x.op \in Op
           /\ x.type = "COMMIT_CERTIFICATE" => x = CommitCertificate(x.op)
           /\ x.type = "COMMIT_REQUEST" => x = CommitRequest(x.op)
           /\ x.type = "VOTE" => x.vote \in Vote /\ x = VoteMessage(x.vote)
           /\ x.type = "ACK" => x.op \in Op /\ x.node \in Member /\ x = Ack(x.op, x.node)
<1>1. CASE x \in [type : {"PREPARE_REQUEST", "COMMIT_REQUEST", "COMMIT_CERTIFICATE"}, op : Op]
  BY <1>1 DEF CommitCertificate, CommitRequest
<1>2. CASE x \in [type : {"VOTE"}, vote : Vote]
  BY <1>2 DEF VoteMessage
<1>3. CASE x \in [type : {"ACK"}, op : Op, node : Member]
  BY <1>3 DEF Ack
<1> QED
  BY <1>1, <1>2, <1>3 DEF Message

\* Every step keeps the invariant.
LEMMA NextKeeps == Inv /\ [Next]_vars => Inv'
<1> SUFFICES ASSUME Inv, [Next]_vars PROVE Inv'
  OBVIOUS
<1>1. CASE UNCHANGED vars
  BY <1>1 DEF vars, Inv
<1>2. ASSUME NEW op \in Op, Submit(op) \/ Timeout(op) PROVE Inv'
  BY <1>2, SubmitKeeps
<1>3. ASSUME NEW m \in Member, NEW x \in msgs, Dispatch(m, x) PROVE Inv'
  <2>0. x \in Message
    BY DEF Inv, Kept, Types
  <2>1. CASE x.type = "PREPARE_REQUEST" /\ OnPrepareRequest(m, x.op)
    <3>1. x.op \in Op /\ Cast(m, "PREPARE", x.op) /\ "PREPARE" \in Phase
      BY <2>0, <2>1, FrameTypes DEF OnPrepareRequest, Phase
    <3> QED
      BY <3>1, CastKeeps
  <2>2. CASE x.type = "COMMIT_REQUEST" /\ OnCommitRequest(m, x.op)
    <3>1. x.op \in Op /\ Cast(m, "COMMIT", x.op) /\ "COMMIT" \in Phase
      BY <2>0, <2>2, FrameTypes DEF OnCommitRequest, Phase
    <3> QED
      BY <3>1, CastKeeps
  <2>3. CASE x.type = "COMMIT_CERTIFICATE" /\ OnCommitCertificate(m, x.op)
    <3>1. x.op \in Op /\ CommitCertificate(x.op) \in msgs
      BY <2>0, <2>3, FrameTypes
    <3> QED
      BY <2>3, <3>1, CertificateKeeps
  <2>4. CASE x.type = "VOTE" /\ m = Leader /\ OnVote(x.vote)
    <3> DEFINE v == x.vote
    <3>1. v \in Vote /\ VoteMessage(v) \in msgs
      BY <2>0, <2>4, FrameTypes
    <3>2. v.voter \in Byzantine \/ v \in replica[v.voter].votes
      BY <3>1 DEF Inv, Kept, VoteInv
    <3>3. Genuine(At(Now), Leader, v)
      BY <3>2, NowHolds DEF Genuine
    <3>4. Holds(AfterVote(Now, v))
      BY <3>1, <3>3, NowHolds, VoteKeeps
    <3> QED
      BY <2>4, <3>4, BecomesKeeps DEF OnVote
  <2>5. CASE x.type = "ACK" /\ m = Leader /\ OnAck(x.op, x.node)
    <3>1. x.op \in Op /\ x.node \in Member /\ Ack(x.op, x.node) \in msgs
      BY <2>0, <2>5, FrameTypes
    <3> QED
      BY <2>5, <3>1, AckKeeps
  <2> QED
    BY <1>3, <2>1, <2>2, <2>3, <2>4, <2>5 DEF Dispatch
<1> QED
  BY <1>1, <1>2, <1>3 DEF Next

\* The invariant holds initially.
LEMMA InitKept == Init => Inv
<1> SUFFICES ASSUME Init PROVE Inv
  OBVIOUS
<1>1. EmptyReplica \in Replica
  BY DEF EmptyReplica, Replica
<1>2. /\ replica \in [Member -> Replica] /\ \A m \in Member : replica[m] = EmptyReplica
      /\ Leader \in Member /\ msgs = {} /\ finished = {}
  BY <1>1, LeaderAssumption DEF Init
<1>3. pending \in Pendings /\ DOMAIN pending = {}
  <2>1. pending \in [{} -> Submission] /\ {} \in SUBSET Op
    BY DEF Init
  <2> QED
    BY <2>1 DEF Pendings
<1>4. /\ EmptyReplica.votes = {} /\ EmptyReplica.evidence = {} /\ EmptyReplica.committed = {}
      /\ \A o \in Object : EmptyReplica.objects[o] =
            [version |-> 0, owner |-> FirstOwner, payload |-> NoOp]
  BY DEF EmptyReplica
<1>5. VoteInv(replica, msgs)
  BY <1>2, <1>4 DEF VoteInv, OneVotePerKey
<1>6. ObjectInv(replica, msgs)
  <2>1. \A m \in Member : \A o \in Object : Written(replica[m], o)
    BY <1>2, <1>4 DEF Written
  <2> QED
    BY <2>1, <1>2, <1>4 DEF ObjectInv, Disjoint
<1>7. FinalInv(replica, pending, msgs, finished)
  BY <1>2, <1>3 DEF FinalInv
<1> QED
  BY <1>2, <1>3, <1>5, <1>6, <1>7 DEF Inv, Kept, Types

\* The invariant holds in every run.
LEMMA InvIsKept == Spec => []Inv
BY InitKept, NextKeeps, PTL DEF Spec

-----------------------------------------------------------------------------
(* The theorems *)

(***************************************************************************)
(* The variables keep their shapes, and a submission that somebody has     *)
(* acknowledged has the certificate that _maybe_finish reads: an operation *)
(* that is submitted again after a timeout cannot meet acknowledgements of *)
(* the first submission.                                                   *)
(***************************************************************************)
THEOREM TypesAreKept == Spec => []TypeOK
<1>1. Inv => TypeOK
  <2> SUFFICES ASSUME Inv PROVE TypeOK
    OBVIOUS
  <2>1. pending \in Pendings /\ Leader \in Member
    BY LeaderAssumption DEF Inv, Kept, Types
  <2>2. ASSUME NEW op \in DOMAIN pending, pending[op].acks # {} PROVE pending[op].certified
    <3>1. PICK m \in pending[op].acks : TRUE
      BY <2>2
    <3>2. m \in Member
      BY <2>1, PendingTypes DEF Submission
    <3>3. op \in replica[Leader].committed
      BY <3>1, <3>2 DEF Inv, Kept, FinalInv, ObjectInv
    <3> QED
      BY <3>3 DEF Inv, Kept, FinalInv
  <2> QED
    BY <2>1, <2>2, PendingTypes DEF TypeOK, Inv, Kept, Types
<1> QED
  BY <1>1, InvIsKept, PTL

(***************************************************************************)
(* Certificates exclude each other, security_invariants.md I1 for equal    *)
(* inputs: two quorums of votes in the leader's committee share a voter,   *)
(* and record_vote lets it have one vote for the key.  No bound on the     *)
(* weight of the Byzantine validators is needed, since the leader counts   *)
(* one vote of each.                                                       *)
(***************************************************************************)
THEOREM CertificatesAreExclusive == Spec => []CertificatesExclude
<1>1. WithinFaultBound({})
  BY WeightsAdd, ThresholdBound DEF WithinFaultBound
<1>2. ASSUME Inv, NEW phase \in Phase, NEW p \in Op, NEW q \in Op, Inputs[p] = Inputs[q],
             Certified(replica[Leader], phase, p), Certified(replica[Leader], phase, q)
      PROVE  p = q
  <2> DEFINE A == {m \in Member : VoteOf(m, phase, p) \in replica[Leader].votes}
             B == {m \in Member : VoteOf(m, phase, q) \in replica[Leader].votes}
  <2>1. IsQuorum(A) /\ IsQuorum(B)
    BY <1>2 DEF Certified
  <2>2. PICK m \in A \cap B : TRUE
    <3> HIDE DEF A, B
    <3> QED
      BY <1>1, <2>1, QuorumIntersection
  <2>3. OneVotePerKey(replica[Leader])
    BY <1>2, LeaderAssumption DEF Inv, Kept, VoteInv
  <2>4. VoteOf(m, phase, p) = VoteOf(m, phase, q)
    BY <1>2, <2>2, <2>3 DEF OneVotePerKey, SameKey, VoteOf
  <2> QED
    BY <2>4 DEF VoteOf
<1>3. Inv => CertificatesExclude
  <2> SUFFICES ASSUME Inv, NEW a \in msgs, NEW b \in msgs,
                      a.type \in {"COMMIT_REQUEST", "COMMIT_CERTIFICATE"}, a.type = b.type,
                      Inputs[a.op] = Inputs[b.op]
               PROVE  a.op = b.op
    BY DEF CertificatesExclude
  <2>1. a \in Message /\ b \in Message
    BY DEF Inv, Kept, Types
  <2>2. a.op \in Op /\ b.op \in Op
    BY <2>1, FrameTypes
  <2>3. CASE a.type = "COMMIT_REQUEST"
    <3>1. CommitRequest(a.op) \in msgs /\ CommitRequest(b.op) \in msgs
      BY <2>1, <2>3, FrameTypes
    <3>2. Certified(replica[Leader], "PREPARE", a.op) /\ Certified(replica[Leader], "PREPARE", b.op)
      BY <2>2, <3>1 DEF Inv, Kept, VoteInv
    <3> QED
      BY <1>2, <2>2, <3>2 DEF Phase
  <2>4. CASE a.type = "COMMIT_CERTIFICATE"
    <3>1. CommitCertificate(a.op) \in msgs /\ CommitCertificate(b.op) \in msgs
      BY <2>1, <2>4, FrameTypes
    <3>2. Certified(replica[Leader], "COMMIT", a.op) /\ Certified(replica[Leader], "COMMIT", b.op)
      BY <2>2, <3>1 DEF Inv, Kept, VoteInv
    <3> QED
      BY <1>2, <2>2, <3>2 DEF Phase
  <2> QED
    BY <2>3, <2>4
<1> QED
  BY <1>3, InvIsKept, PTL

(***************************************************************************)
(* Evidence is true: a replica accuses nobody but itself and Byzantine     *)
(* validators, because votes of correct validators reach the leader only   *)
(* after record_vote has admitted them at home.                            *)
(***************************************************************************)
THEOREM AccusationsAreTrue == Spec => []AccusedAreByzantine
<1>1. Inv => AccusedAreByzantine
  BY DEF Inv, Kept, VoteInv, AccusedAreByzantine
<1> QED
  BY <1>1, InvIsKept, PTL

(***************************************************************************)
(* No version of an object is consumed twice, security_invariants.md I2,   *)
(* although overlapping operations may both have certificates: the leader  *)
(* validates again when it applies, and replicas apply what the leader     *)
(* has applied.                                                            *)
(***************************************************************************)
THEOREM NothingIsSpentTwice == Spec => []NoDoubleSpend
<1>1. Inv => NoDoubleSpend
  BY DEF Inv, Kept, ObjectInv, Disjoint, NoDoubleSpend
<1> QED
  BY <1>1, InvIsKept, PTL

(***************************************************************************)
(* Replicas never diverge and never overtake the leader: the version of an *)
(* object determines the operation that wrote it.                          *)
(***************************************************************************)
THEOREM ReplicasNeverDiverge == Spec => []ReplicasAgree
<1>1. Inv => ReplicasAgree
  <2> SUFFICES ASSUME Inv, NEW o \in Object, NEW m \in Member, NEW n \in Member
               PROVE  /\ replica[m].objects[o].version = replica[n].objects[o].version
                            => replica[m].objects[o] = replica[n].objects[o]
                      /\ replica[m].objects[o].version <= replica[Leader].objects[o].version
    BY DEF ReplicasAgree
  <2> DEFINE x == replica[m].objects[o]
             y == replica[n].objects[o]
             z == replica[Leader].objects[o]
             T == [version : Nat, owner : {FirstOwner} \cup {NewOwner[op] : op \in Op},
                   payload : Op \cup {NoOp}]
  <2>0. Leader \in Member /\ \A k \in Member : replica[k].objects \in [Object -> T]
    BY LeaderAssumption DEF Inv, Kept, Types, Replica
  <2>1. x \in T /\ y \in T /\ z \in T
    BY <2>0
  <2>2. /\ Written(replica[m], o) /\ Written(replica[n], o) /\ Written(replica[Leader], o)
        /\ replica[m].committed \subseteq replica[Leader].committed
        /\ replica[n].committed \subseteq replica[Leader].committed
        /\ Disjoint(replica[Leader].committed)
    BY <2>0 DEF Inv, Kept, ObjectInv
  <2>3. ASSUME x.version = y.version PROVE x = y
    <3>1. x.payload = y.payload /\ x.owner = y.owner
      <4>1. CASE x.version = 0
        BY <4>1, <2>2, <2>3 DEF Written
      <4>2. CASE x.version > 0
        <5>1. /\ x.payload \in replica[Leader].committed /\ y.payload \in replica[Leader].committed
              /\ o \in DOMAIN Inputs[x.payload] \cap DOMAIN Inputs[y.payload]
              /\ Inputs[x.payload][o] = Inputs[y.payload][o]
              /\ x.owner = NewOwner[x.payload] /\ y.owner = NewOwner[y.payload]
          BY <4>2, <2>2, <2>3 DEF Written
        <5> QED
          BY <5>1, <2>2 DEF Disjoint
      <4> QED
        BY <2>1, <4>1, <4>2
    <3> HIDE DEF x, y
    <3> QED
      BY <2>1, <2>3, <3>1
  <2>4. x.version <= z.version
    <3>1. CASE x.version = 0
      BY <2>1, <3>1
    <3>2. CASE x.version > 0
      <4>1. /\ x.payload \in replica[Leader].committed /\ o \in DOMAIN Inputs[x.payload]
            /\ Inputs[x.payload][o] = x.version - 1
        BY <3>2, <2>2 DEF Written
      <4>2. Inputs[x.payload][o] < z.version
        BY <4>1, <2>2 DEF Written
      <4> QED
        BY <2>1, <4>1, <4>2
    <3> QED
      BY <2>1, <3>1, <3>2
  <2> QED
    BY <2>3, <2>4
<1> QED
  BY <1>1, InvIsKept, PTL

(***************************************************************************)
(* A client that is told ok can rely on a quorum of replicas that have     *)
(* applied the operation, whatever is delivered late, repeatedly or after  *)
(* a timeout.                                                              *)
(***************************************************************************)
THEOREM FinalityIsSupported == Spec => []FinalityIsQuorum
<1>1. Inv => FinalityIsQuorum
  BY DEF Inv, Kept, FinalInv, FinalityIsQuorum, AppliedAt
<1> QED
  BY <1>1, InvIsKept, PTL

-----------------------------------------------------------------------------
(* The invariant of one domain d with executor s *)

\* The executor of domain d and the votes cast for it.
Executor(d) ==
    [votes     : SUBSET In(d)!Vote,
     evidence  : SUBSET In(d)!Evidence,
     committed : SUBSET OpsIn(d),
     prepared  : SUBSET OpsIn(d),
     objects   : [ObjectsIn(d) ->
                    [version : Nat, owner : {FirstOwner} \cup {NewOwner[op] : op \in Op},
                     payload : Op \cup {NoOp}]]]

\* No validator has voted for two operations with the same local inputs.
VotesDiffer(s, d) ==
    \A v, w \in s.votes : v.voter = w.voter /\ In(d)!SameKey(v, w) => v = w

\* The validators have voted alike, for the operations as signed.
VotesAlike(s, d) ==
    \A v \in s.votes : /\ v = In(d)!VoteOf(v.voter, v.phase, v.op)
                       /\ \A m \in Member : In(d)!VoteOf(m, v.phase, v.op) \in s.votes

\* What is prepared has the votes of all, and only that is committed.
PreparedHasVotes(s, d) ==
    /\ s.committed \subseteq s.prepared
    /\ s.prepared # {} => Member # {}
    /\ \A op \in s.prepared : \A m \in Member : In(d)!VoteOf(m, "PREPARE", op) \in s.votes

Users(s, o) == {op \in s.committed : o \in DOMAIN Inputs[op]}

\* VersionsCountCommits of one object.
VersionsCount(s, o) ==
    /\ {Inputs[op][o] : op \in Users(s, o)} = 0 .. s.objects[o].version - 1
    /\ \A p, q \in Users(s, o) : Inputs[p][o] = Inputs[q][o] => p = q
    /\ \A op \in Users(s, o) :
           Inputs[op][o] = s.objects[o].version - 1 => s.objects[o].payload = op

DomainInv(s, d) ==
    /\ s \in Executor(d)
    /\ VotesDiffer(s, d)
    /\ VotesAlike(s, d)
    /\ PreparedHasVotes(s, d)
    /\ \A o \in ObjectsIn(d) : VersionsCount(s, o)

Sound(D) == D = [d \in Domain |-> D[d]] /\ \A d \in Domain : DomainInv(D[d], d)

JoinInv == Sound(domain) /\ JoinIsAtomic

-----------------------------------------------------------------------------
(* Votes *)

\* The votes of domain d.
LEMMA VoteFacts ==
    ASSUME NEW d, NEW m \in Member, NEW phase \in {"PREPARE", "COMMIT"}, NEW op \in OpsIn(d)
    PROVE  In(d)!VoteOf(m, phase, op) \in In(d)!Vote
BY DEF In!VoteOf, In!Vote, In!Phase

\* A committee that can certify anything has a first voter.
LEMMA FirstVoterVotes ==
    ASSUME Member # {}
    PROVE  FirstVoter \in Member
BY DEF FirstVoter

\* Two votes are the same vote when they agree in all fields.
LEMMA SameVote ==
    ASSUME NEW d, NEW v, NEW m, NEW phase, NEW op,
           v = In(d)!VoteOf(m, phase, op)
    PROVE  v.voter = m /\ v.phase = phase /\ v.op = op
BY DEF In!VoteOf

\* A round of votes changes votes and evidence only and keeps what holds of
\* them.  If it is not refused, all validators have voted.
LEMMA AfterVotesKeeps ==
    ASSUME NEW d, NEW s, DomainInv(s, d), NEW op \in OpsIn(d),
           NEW phase \in {"PREPARE", "COMMIT"}
    PROVE  LET t == AfterVotes(s, d, phase, op)
           IN  /\ DomainInv(t, d)
               /\ t.objects = s.objects /\ t.committed = s.committed /\ t.prepared = s.prepared
               /\ ~VotesRefused(s, d, phase, op) =>
                      \A m \in Member : In(d)!VoteOf(m, phase, op) \in t.votes
<1> DEFINE t == AfterVotes(s, d, phase, op)
           first == In(d)!VoteOf(FirstVoter, phase, op)
           cast == {In(d)!VoteOf(m, phase, op) : m \in Member}
<1>0. s \in Executor(d)
  BY DEF DomainInv
<1>1. CASE VotesRefused(s, d, phase, op)
  <2> DEFINE new == {[voter |-> first.voter, first |-> w.op, second |-> first.op] :
                        w \in In(d)!Against(s, first)}
  <2>1. t = [s EXCEPT !.evidence = @ \cup new]
    BY <1>1 DEF AfterVotes, VotesRefused, In!Recorded
  <2>2. new \subseteq In(d)!Evidence
    <3> SUFFICES ASSUME NEW w \in In(d)!Against(s, first)
                 PROVE  /\ first.voter \in Member /\ w.op \in OpsIn(d) /\ first.op \in OpsIn(d)
      BY DEF In!Evidence
    <3>1. w \in s.votes /\ w.voter = first.voter
      BY DEF In!Against
    <3>2. s.votes \subseteq In(d)!Vote
      BY <1>0 DEF Executor
    <3>3. w.voter \in Member /\ w.op \in OpsIn(d)
      BY <3>1, <3>2 DEF In!Vote
    <3>4. first.op = op
      BY SameVote
    <3> QED
      BY <3>1, <3>3, <3>4
  <2>3. /\ t.votes = s.votes /\ t.objects = s.objects
        /\ t.committed = s.committed /\ t.prepared = s.prepared
    BY <2>1, <1>0 DEF Executor
  <2>4. t \in Executor(d)
    BY <2>1, <2>2, <1>0 DEF Executor
  <2> QED
    BY <1>1, <2>3, <2>4 DEF DomainInv, VotesDiffer, VotesAlike, PreparedHasVotes, VersionsCount, Users
<1>2. CASE ~VotesRefused(s, d, phase, op)
  <2>1. t = [s EXCEPT !.votes = @ \cup cast]
    BY <1>2 DEF AfterVotes
  <2>2. /\ t.votes = s.votes \cup cast /\ t.objects = s.objects
        /\ t.committed = s.committed /\ t.prepared = s.prepared
    BY <2>1, <1>0 DEF Executor
  <2>3. cast \subseteq In(d)!Vote
    <3>1. \A m \in Member : In(d)!VoteOf(m, phase, op) \in In(d)!Vote
      BY VoteFacts
    <3> QED
      BY <3>1
  <2>4. t \in Executor(d)
    BY <2>1, <2>3, <1>0 DEF Executor
  <2>5. \A m \in Member : \A w \in s.votes :
            /\ w.voter = m /\ In(d)!SameKey(In(d)!VoteOf(m, phase, op), w)
            => w = In(d)!VoteOf(m, phase, op)
    <3> SUFFICES ASSUME NEW m \in Member, NEW w \in s.votes, w.voter = m,
                        In(d)!SameKey(In(d)!VoteOf(m, phase, op), w)
                 PROVE  w = In(d)!VoteOf(m, phase, op)
      OBVIOUS
    <3> DEFINE f == In(d)!VoteOf(FirstVoter, w.phase, w.op)
    <3>1. w = In(d)!VoteOf(m, w.phase, w.op)
      BY DEF DomainInv, VotesAlike
    <3>2. f \in s.votes
      BY FirstVoterVotes DEF DomainInv, VotesAlike
    <3>3. f.voter = FirstVoter /\ f.phase = w.phase /\ f.op = w.op
      BY SameVote
    <3>4. first.voter = FirstVoter /\ first.phase = phase /\ first.op = op
      BY SameVote
    <3>5. phase = w.phase /\ LocalInputs(d)[op] = LocalInputs(d)[w.op]
      BY SameVote DEF In!SameKey
    <3>6. f = first
      BY <1>2, <3>2, <3>3, <3>4, <3>5 DEF VotesRefused, In!MayRecord, In!Against, In!SameKey
    <3> QED
      BY <3>1, <3>3, <3>4, <3>6
  <2>6. VotesDiffer(t, d)
    <3> SUFFICES ASSUME NEW v \in s.votes \cup cast, NEW w \in s.votes \cup cast,
                        v.voter = w.voter, In(d)!SameKey(v, w)
                 PROVE  v = w
      BY <2>2 DEF VotesDiffer
    <3>1. CASE v \in s.votes /\ w \in s.votes
      BY <3>1 DEF DomainInv, VotesDiffer
    <3>2. CASE v \in cast /\ w \in s.votes
      <4>1. PICK m \in Member : v = In(d)!VoteOf(m, phase, op)
        BY <3>2
      <4> QED
        BY <4>1, <2>5, <3>2, SameVote
    <3>3. CASE v \in s.votes /\ w \in cast
      <4>1. PICK m \in Member : w = In(d)!VoteOf(m, phase, op)
        BY <3>3
      <4>2. In(d)!SameKey(w, v)
        BY DEF In!SameKey
      <4> QED
        BY <4>1, <4>2, <2>5, <3>3, SameVote
    <3>4. CASE v \in cast /\ w \in cast
      <4>1. PICK m \in Member : v = In(d)!VoteOf(m, phase, op)
        BY <3>4
      <4>2. PICK n \in Member : w = In(d)!VoteOf(n, phase, op)
        BY <3>4
      <4> QED
        BY <4>1, <4>2, SameVote
    <3> QED
      BY <3>1, <3>2, <3>3, <3>4
  <2>7. VotesAlike(t, d)
    <3> SUFFICES ASSUME NEW v \in s.votes \cup cast
                 PROVE  /\ v = In(d)!VoteOf(v.voter, v.phase, v.op)
                        /\ \A m \in Member : In(d)!VoteOf(m, v.phase, v.op) \in s.votes \cup cast
      BY <2>2 DEF VotesAlike
    <3>1. CASE v \in s.votes
      BY <3>1 DEF DomainInv, VotesAlike
    <3>2. CASE v \in cast
      <4>1. PICK m \in Member : v = In(d)!VoteOf(m, phase, op)
        BY <3>2
      <4>2. v.voter = m /\ v.phase = phase /\ v.op = op
        BY <4>1, SameVote
      <4> QED
        BY <4>1, <4>2
    <3> QED
      BY <3>1, <3>2
  <2>8. PreparedHasVotes(t, d)
    BY <2>2 DEF DomainInv, PreparedHasVotes
  <2> QED
    BY <2>2, <2>4, <2>6, <2>7, <2>8 DEF DomainInv, VersionsCount, Users
<1> QED
  BY <1>1, <1>2

-----------------------------------------------------------------------------
(* The calls of a domain *)

\* prepare leaves objects and commits alone, and if it does not raise then
\* the operation is valid and prepared.
LEMMA PrepareKeeps ==
    ASSUME NEW d, NEW s, DomainInv(s, d), NEW op \in OpsIn(d)
    PROVE  LET t == AfterPrepare(s, d, op)
           IN  /\ DomainInv(t, d)
               /\ t.objects = s.objects /\ t.committed = s.committed
<1> DEFINE u == AfterVotes(s, d, "PREPARE", op)
           t == AfterPrepare(s, d, op)
<1>1. CASE ~In(d)!Validates(s, op)
  BY <1>1 DEF AfterPrepare
<1>2. /\ DomainInv(u, d)
      /\ u.objects = s.objects /\ u.committed = s.committed /\ u.prepared = s.prepared
      /\ ~VotesRefused(s, d, "PREPARE", op) =>
             \A m \in Member : In(d)!VoteOf(m, "PREPARE", op) \in u.votes
  BY AfterVotesKeeps
<1>3. CASE In(d)!Validates(s, op) /\ PrepareRaises(s, d, op)
  BY <1>2, <1>3 DEF AfterPrepare
<1>4. CASE In(d)!Validates(s, op) /\ ~PrepareRaises(s, d, op)
  <2>1. t = [u EXCEPT !.prepared = @ \cup {op}]
    BY <1>4 DEF AfterPrepare
  <2>2. u \in Executor(d)
    BY <1>2 DEF DomainInv
  <2>3. /\ t.votes = u.votes /\ t.objects = u.objects
        /\ t.committed = u.committed /\ t.prepared = u.prepared \cup {op}
    BY <2>1, <2>2 DEF Executor
  <2>4. t \in Executor(d)
    BY <2>1, <2>2 DEF Executor
  <2>5. Member # {} /\ \A m \in Member : In(d)!VoteOf(m, "PREPARE", op) \in u.votes
    <3>1. /\ ~VotesRefused(s, d, "PREPARE", op)
          /\ In(d)!Certified(u, "PREPARE", op)
      BY <1>4 DEF PrepareRaises, VoteFails
    <3>2. {m \in Member : In(d)!VoteOf(m, "PREPARE", op) \in u.votes} # {}
      <4> DEFINE signers == {m \in Member : In(d)!VoteOf(m, "PREPARE", op) \in u.votes}
      <4>1. In(d)!IsQuorum(signers)
        BY <3>1 DEF In!Certified
      <4> HIDE DEF signers
      <4>2. IsQuorum(signers)
        BY <4>1 DEF In!IsQuorum, In!WeightOf, In!Units, In!Threshold, In!TotalWeight,
                    IsQuorum, WeightOf, Units, Threshold, TotalWeight, In!Cardinality, Cardinality
      <4>3. signers # {}
        BY <4>2, QuorumNonEmpty
      <4> QED
        BY <4>3 DEF signers
    <3> QED
      BY <1>2, <3>1, <3>2
  <2>6. PreparedHasVotes(t, d)
    BY <1>2, <2>3, <2>5 DEF DomainInv, PreparedHasVotes
  <2> QED
    BY <1>2, <2>3, <2>4, <2>6
    DEF DomainInv, VotesDiffer, VotesAlike, VersionsCount, Users
<1> QED
  BY <1>1, <1>3, <1>4

\* commit_certificate changes votes and evidence only.
LEMMA CertifyKeeps ==
    ASSUME NEW d, NEW s, DomainInv(s, d), NEW op \in OpsIn(d)
    PROVE  LET t == AfterCertify(s, d, op)
           IN  /\ DomainInv(t, d)
               /\ t.objects = s.objects /\ t.committed = s.committed /\ t.prepared = s.prepared
<1>1. CASE MayCertify(s, d, op)
  BY <1>1, AfterVotesKeeps DEF AfterCertify
<1>2. CASE ~MayCertify(s, d, op)
  BY <1>2 DEF AfterCertify
<1> QED
  BY <1>1, <1>2

\* An operation is valid or not by objects and commits alone.
LEMMA ValidByObjects ==
    ASSUME NEW d, NEW s, NEW t, NEW op,
           t.objects = s.objects, t.committed = s.committed
    PROVE  In(d)!Validates(t, op) <=> In(d)!Validates(s, op)
BY DEF In!Validates

\* The inputs of an operation in one of its domains.
LEMMA LocalFacts ==
    ASSUME NEW d, NEW op \in OpsIn(d)
    PROVE  /\ DOMAIN LocalInputs(d)[op] = {o \in ObjectsIn(d) : o \in DOMAIN Inputs[op]}
           /\ \A o \in DOMAIN LocalInputs(d)[op] : LocalInputs(d)[op][o] = Inputs[op][o]
           /\ op \in Op /\ op # NoOp
           /\ \A o \in DOMAIN Inputs[op] : Inputs[op][o] \in Int
BY JoinAssumption, OperationAssumption DEF LocalInputs, OpsIn

\* One more version.
LEMMA OneMore ==
    ASSUME NEW k \in Nat
    PROVE  (0 .. k - 1) \cup {k} = 0 .. k
OBVIOUS

\* apply_committed, for a valid operation that is prepared, counts it at each
\* of its objects.
LEMMA ApplyPreparedKeeps ==
    ASSUME NEW d, NEW s, DomainInv(s, d), NEW op \in OpsIn(d),
           In(d)!Validates(s, op), op \in s.prepared
    PROVE  LET t == AfterApply(s, d, op)
           IN  /\ DomainInv(t, d)
               /\ t.committed = s.committed \cup {op}
<1> DEFINE t == AfterApply(s, d, op)
           mine == DOMAIN LocalInputs(d)[op]
           written(o) == [version |-> s.objects[o].version + 1, owner |-> NewOwner[op], payload |-> op]
           objects == [o \in ObjectsIn(d) |-> IF o \in mine THEN written(o) ELSE s.objects[o]]
<1>0. s \in Executor(d)
  BY DEF DomainInv
<1>1. t = [s EXCEPT !.objects = objects, !.committed = @ \cup {op}]
  BY DEF AfterApply, ApplyRaises, In!Applied
<1>2. /\ t.votes = s.votes /\ t.prepared = s.prepared /\ t.objects = objects
      /\ t.committed = s.committed \cup {op}
  BY <1>0, <1>1 DEF Executor
<1>3. op \in Op
  BY DEF OpsIn
<1>4. t \in Executor(d)
  <2>1. \A o \in ObjectsIn(d) : s.objects[o].version \in Nat
    BY <1>0 DEF Executor
  <2>2. objects \in [ObjectsIn(d) ->
                       [version : Nat, owner : {FirstOwner} \cup {NewOwner[p] : p \in Op},
                        payload : Op \cup {NoOp}]]
    BY <1>0, <1>3, <2>1 DEF Executor
  <2> HIDE DEF objects
  <2> QED
    BY <1>0, <1>1, <2>2 DEF Executor
<1>5. PreparedHasVotes(t, d)
  BY <1>2 DEF DomainInv, PreparedHasVotes
<1>6. ASSUME NEW o \in ObjectsIn(d)
      PROVE  VersionsCount(t, o)
  <2> DEFINE k == s.objects[o].version
  <2>1. k \in Nat
    BY <1>0 DEF Executor
  <2>2. VersionsCount(s, o)
    BY DEF DomainInv
  <2>3. CASE o \in mine
    <3>1. /\ o \in DOMAIN Inputs[op]
          /\ Inputs[op][o] = k
          /\ op \notin s.committed
      BY <2>3, LocalFacts DEF In!Validates
    <3>2. t.objects[o].version = k + 1 /\ t.objects[o].payload = op
      BY <1>2, <2>3
    <3>3. Users(t, o) = Users(s, o) \cup {op}
      BY <1>2, <3>1 DEF Users
    <3>4. \A p \in Users(s, o) : Inputs[p][o] \in 0 .. k - 1
      BY <2>2 DEF VersionsCount
    <3>5. {Inputs[p][o] : p \in Users(s, o)} = 0 .. k - 1
      BY <2>2 DEF VersionsCount
    <3>6. {Inputs[p][o] : p \in Users(s, o) \cup {op}} = 0 .. k
      <4>1. {Inputs[p][o] : p \in Users(s, o) \cup {op}} = {Inputs[p][o] : p \in Users(s, o)} \cup {k}
        BY <3>1
      <4> QED
        BY <2>1, <3>5, <4>1, OneMore
    <3>7. ASSUME NEW p \in Users(s, o) \cup {op}, NEW q \in Users(s, o) \cup {op},
                 Inputs[p][o] = Inputs[q][o]
          PROVE  p = q
      <4>1. CASE p = op \/ q = op
        BY <2>1, <3>1, <3>4, <3>7, <4>1
      <4>2. CASE p # op /\ q # op
        BY <2>2, <3>7, <4>2 DEF VersionsCount
      <4> QED
        BY <4>1, <4>2
    <3>8. ASSUME NEW p \in Users(s, o) \cup {op}, Inputs[p][o] = k
          PROVE  p = op
      BY <2>1, <3>4, <3>8
    <3>9. (k + 1) - 1 = k
      BY <2>1
    <3> QED
      BY <3>2, <3>3, <3>6, <3>7, <3>8, <3>9 DEF VersionsCount
  <2>4. CASE o \notin mine
    <3>1. t.objects[o] = s.objects[o]
      BY <1>2, <2>4
    <3>2. o \notin DOMAIN Inputs[op]
      BY <2>4, LocalFacts
    <3>3. Users(t, o) = Users(s, o)
      BY <1>2, <3>2 DEF Users
    <3> QED
      BY <2>2, <3>1, <3>3 DEF VersionsCount
  <2> QED
    BY <2>3, <2>4
<1> QED
  BY <1>2, <1>4, <1>5, <1>6 DEF DomainInv, VotesDiffer, VotesAlike

-----------------------------------------------------------------------------
(* The calls of all domains of an operation *)

\* Objects and commits are the same in D and E.
SameObjects(D, E) ==
    \A d \in Domain : D[d].objects = E[d].objects /\ D[d].committed = E[d].committed

\* Every domain of op is about to accept it.
Ready(D, op) == \A d \in DomainsOf(op) : In(d)!Validates(D[d], op) /\ op \in D[d].prepared

\* The domains of an operation are domains, and it is one of theirs.
LEMMA DomainFacts ==
    ASSUME NEW op \in Op, NEW d \in DomainsOf(op)
    PROVE  d \in Domain /\ op \in OpsIn(d)
BY JoinAssumption, OperationAssumption DEF DomainsOf, Domain, OpsIn

\* What is committed in a domain spans domains.
LEMMA CommittedFacts ==
    ASSUME NEW D, Sound(D), NEW d \in Domain, NEW op \in D[d].committed
    PROVE  DomainsOf(op) \subseteq Domain
<1>1. op \in Op
  BY DEF Sound, DomainInv, Executor, OpsIn
<1> QED
  BY <1>1, DomainFacts

\* prepare_all, whether it ends or raises on the way.
LEMMA PreparedAllKeeps ==
    ASSUME Sound(domain), NEW op \in Op
    PROVE  LET g == PreparedAll(Started, op)
           IN  Sound(g.domain) /\ SameObjects(g.domain, domain) /\ g.running \in BOOLEAN
<1> DEFINE g == PreparedAll(Started, op)
           raising == {d \in DomainsOf(op) : PrepareRaises(domain[d], d, op)}
           called == {d \in DomainsOf(op) : \A e \in raising : d <= e}
<1>1. /\ g.domain = [d \in Domain |-> IF d \in called THEN AfterPrepare(domain[d], d, op) ELSE domain[d]]
      /\ g.running = (raising = {})
  BY DEF PreparedAll, InTurn, Started
<1>2. ASSUME NEW d \in Domain
      PROVE  /\ DomainInv(g.domain[d], d)
             /\ g.domain[d].objects = domain[d].objects /\ g.domain[d].committed = domain[d].committed
  <2>1. DomainInv(domain[d], d)
    BY DEF Sound
  <2>2. CASE d \in called
    <3>1. g.domain[d] = AfterPrepare(domain[d], d, op)
      BY <1>1, <2>2
    <3> QED
      BY <2>1, <2>2, <3>1, DomainFacts, PrepareKeeps
  <2>3. CASE d \notin called
    BY <1>1, <2>1, <2>3
  <2> QED
    BY <2>2, <2>3
<1>3. g.domain = [d \in Domain |-> g.domain[d]]
  BY <1>1
<1> QED
  BY <1>1, <1>2, <1>3 DEF Sound, SameObjects

\* The commit certificates: the coordinator goes on only if every domain is
\* ready.
LEMMA CertifiedAllKeeps ==
    ASSUME NEW op \in Op,
           NEW g, Sound(g.domain), g.running \in BOOLEAN
    PROVE  LET h == CertifiedAll(g, op)
           IN  /\ Sound(h.domain) /\ SameObjects(h.domain, g.domain) /\ h.running \in BOOLEAN
               /\ h.running => g.running /\ Ready(h.domain, op)
<1> DEFINE h == CertifiedAll(g, op)
           raising == {d \in DomainsOf(op) : CertifyRaises(g.domain[d], d, op)}
           called == {d \in DomainsOf(op) : g.running /\ \A e \in raising : d <= e}
<1>1. /\ h.domain = [d \in Domain |-> IF d \in called THEN AfterCertify(g.domain[d], d, op) ELSE g.domain[d]]
      /\ h.running = (g.running /\ raising = {})
  BY DEF CertifiedAll, InTurn
<1>2. ASSUME NEW d \in Domain
      PROVE  /\ DomainInv(h.domain[d], d)
             /\ h.domain[d].objects = g.domain[d].objects
             /\ h.domain[d].committed = g.domain[d].committed
             /\ h.domain[d].prepared = g.domain[d].prepared
  <2>1. DomainInv(g.domain[d], d)
    BY DEF Sound
  <2>2. CASE d \in called
    <3>1. h.domain[d] = AfterCertify(g.domain[d], d, op)
      BY <1>1, <2>2
    <3> QED
      BY <2>1, <2>2, <3>1, DomainFacts, CertifyKeeps
  <2>3. CASE d \notin called
    BY <1>1, <2>1, <2>3
  <2> QED
    BY <2>2, <2>3
<1>3. h.domain = [d \in Domain |-> h.domain[d]]
  BY <1>1
<1>4. ASSUME h.running
      PROVE  g.running /\ Ready(h.domain, op)
  <2>1. g.running /\ raising = {}
    BY <1>1, <1>4
  <2>2. ASSUME NEW d \in DomainsOf(op)
        PROVE  In(d)!Validates(h.domain[d], op) /\ op \in h.domain[d].prepared
    <3>1. MayCertify(g.domain[d], d, op)
      BY <2>1 DEF CertifyRaises
    <3>2. d \in Domain
      BY DomainFacts
    <3> QED
      BY <1>2, <3>1, <3>2, ValidByObjects DEF MayCertify
  <2> QED
    BY <2>1, <2>2 DEF Ready
<1> HIDE DEF h
<1>5. Sound(h.domain) /\ SameObjects(h.domain, g.domain)
  BY <1>2, <1>3 DEF Sound, SameObjects
<1>6. h.running \in BOOLEAN
  BY <1>1
<1> QED
  BY <1>4, <1>5, <1>6 DEF h

\* Applying: all of the domains or, if the coordinator has stopped, none.
LEMMA AppliedAllKeeps ==
    ASSUME NEW op \in Op,
           NEW g, Sound(g.domain), g.running \in BOOLEAN, g.running => Ready(g.domain, op)
    PROVE  LET h == AppliedAll(g, op)
           IN  /\ Sound(h.domain)
               /\ \A d \in Domain :
                      h.domain[d].committed = IF g.running /\ d \in DomainsOf(op)
                                              THEN g.domain[d].committed \cup {op}
                                              ELSE g.domain[d].committed
<1> DEFINE h == AppliedAll(g, op)
           raising == {d \in DomainsOf(op) : ApplyRaises(g.domain[d], d, op)}
           called == {d \in DomainsOf(op) : g.running /\ \A e \in raising : d <= e}
<1>1. h.domain = [d \in Domain |-> IF d \in called THEN AfterApply(g.domain[d], d, op) ELSE g.domain[d]]
  BY DEF AppliedAll, InTurn
<1>2. g.running => raising = {}
  BY DEF Ready, ApplyRaises
<1>3. called = {d \in DomainsOf(op) : g.running}
  BY <1>2
<1>4. ASSUME NEW d \in Domain
      PROVE  /\ DomainInv(h.domain[d], d)
             /\ h.domain[d].committed = IF g.running /\ d \in DomainsOf(op)
                                        THEN g.domain[d].committed \cup {op}
                                        ELSE g.domain[d].committed
  <2>1. DomainInv(g.domain[d], d)
    BY DEF Sound
  <2>2. CASE g.running /\ d \in DomainsOf(op)
    <3>1. h.domain[d] = AfterApply(g.domain[d], d, op)
      BY <1>1, <1>3, <2>2
    <3>2. In(d)!Validates(g.domain[d], op) /\ op \in g.domain[d].prepared /\ op \in OpsIn(d)
      BY <2>2, DomainFacts DEF Ready
    <3> QED
      BY <2>1, <2>2, <3>1, <3>2, ApplyPreparedKeeps
  <2>3. CASE ~(g.running /\ d \in DomainsOf(op))
    BY <1>1, <1>3, <2>1, <2>3
  <2> QED
    BY <2>2, <2>3
<1>5. h.domain = [d \in Domain |-> h.domain[d]]
  BY <1>1
<1> QED
  BY <1>4, <1>5 DEF Sound

\* JoinCoordinator.finalize and DomainExecutor.finalize: either no domain
\* commits anything new, or op has been prepared everywhere and all of its
\* domains commit it.
LEMMA FinalizeKeeps ==
    ASSUME Sound(domain), NEW op \in Op
    PROVE  LET p == PreparedAll(Started, op)
               D == AppliedAll(CertifiedAll(p, op), op).domain
           IN  /\ Sound(D)
               /\ \/ \A d \in Domain : D[d].committed = domain[d].committed
                  \/ /\ p.running
                     /\ \A d \in Domain :
                            D[d].committed = IF d \in DomainsOf(op)
                                             THEN domain[d].committed \cup {op}
                                             ELSE domain[d].committed
<1> DEFINE p == PreparedAll(Started, op)
           c == CertifiedAll(p, op)
           D == AppliedAll(c, op).domain
<1>1. Sound(p.domain) /\ SameObjects(p.domain, domain) /\ p.running \in BOOLEAN
  BY PreparedAllKeeps
<1> HIDE DEF p
<1>2. /\ Sound(c.domain) /\ SameObjects(c.domain, p.domain) /\ c.running \in BOOLEAN
      /\ c.running => p.running /\ Ready(c.domain, op)
  BY <1>1, CertifiedAllKeeps
<1> HIDE DEF c
<1>3. /\ Sound(D)
      /\ \A d \in Domain : D[d].committed = IF c.running /\ d \in DomainsOf(op)
                                            THEN c.domain[d].committed \cup {op}
                                            ELSE c.domain[d].committed
  BY <1>2, AppliedAllKeeps
<1>4. \A d \in Domain : c.domain[d].committed = domain[d].committed
  BY <1>1, <1>2 DEF SameObjects
<1> HIDE DEF D
<1>5. CASE c.running
  <2>1. p.running
    BY <1>2, <1>5
  <2>2. \A d \in Domain : D[d].committed = IF d \in DomainsOf(op)
                                          THEN domain[d].committed \cup {op}
                                          ELSE domain[d].committed
    BY <1>3, <1>4, <1>5
  <2> QED
    BY <1>3, <2>1, <2>2 DEF D, c, p
<1>6. CASE ~c.running
  <2>1. \A d \in Domain : D[d].committed = domain[d].committed
    BY <1>3, <1>4, <1>6
  <2> QED
    BY <1>3, <2>1 DEF D, c, p
<1> QED
  BY <1>5, <1>6

-----------------------------------------------------------------------------
(* Theorems *)

\* Nothing is voted, prepared, written or committed at the start.
LEMMA JoinStarts ==
    JoinInit => JoinInv
<1> SUFFICES ASSUME JoinInit PROVE JoinInv
  OBVIOUS
<1>1. ASSUME NEW d \in Domain
      PROVE  DomainInv(domain[d], d)
  <2> DEFINE s == domain[d]
  <2>1. /\ s = [votes |-> {}, evidence |-> {}, committed |-> {}, prepared |-> {},
                objects |-> In(d)!EmptyReplica.objects]
        /\ In(d)!EmptyReplica.objects =
               [o \in ObjectsIn(d) |-> [version |-> 0, owner |-> FirstOwner, payload |-> NoOp]]
    BY DEF JoinInit, In!EmptyReplica
  <2>2. /\ s.votes = {} /\ s.committed = {} /\ s.prepared = {}
        /\ s.objects = [o \in ObjectsIn(d) |-> [version |-> 0, owner |-> FirstOwner, payload |-> NoOp]]
    BY <2>1
  <2>3. s \in Executor(d)
    BY <2>1 DEF Executor
  <2>4. \A o \in ObjectsIn(d) : VersionsCount(s, o)
    <3> SUFFICES ASSUME NEW o \in ObjectsIn(d) PROVE VersionsCount(s, o)
      OBVIOUS
    <3>1. s.objects[o].version = 0 /\ Users(s, o) = {}
      BY <2>2 DEF Users
    <3>2. 0 .. 0 - 1 = {}
      OBVIOUS
    <3> QED
      BY <3>1, <3>2 DEF VersionsCount
  <2> QED
    BY <2>2, <2>3, <2>4 DEF DomainInv, VotesDiffer, VotesAlike, PreparedHasVotes
<1>2. domain = [d \in Domain |-> domain[d]]
  BY DEF JoinInit
<1>3. JoinIsAtomic
  BY DomainFacts DEF JoinInit, JoinIsAtomic
<1> QED
  BY <1>1, <1>2, <1>3 DEF JoinInv, Sound

\* Every action keeps the invariant.
LEMMA JoinStep ==
    ASSUME JoinInv, [JoinNext]_joinVars
    PROVE  JoinInv'
<1>0. Sound(domain) /\ JoinIsAtomic
  BY DEF JoinInv
<1>1. CASE UNCHANGED joinVars
  BY <1>0, <1>1 DEF JoinInv, joinVars, Sound, JoinIsAtomic
<1>2. ASSUME NEW op \in Op, PrepareAll(op)
      PROVE  JoinInv'
  <2> DEFINE g == PreparedAll(Started, op)
  <2>1. domain' = g.domain /\ joined' = joined
    BY <1>2 DEF PrepareAll
  <2>2. Sound(domain') /\ SameObjects(domain', domain)
    BY <1>0, <2>1, PreparedAllKeeps
  <2>3. JoinIsAtomic'
    <3>1. \A d \in Domain : domain'[d].committed = domain[d].committed
      BY <2>2 DEF SameObjects
    <3>2. \A d \in Domain : \A q \in domain[d].committed : DomainsOf(q) \subseteq Domain
      BY <1>0, CommittedFacts
    <3> QED
      BY <1>0, <2>1, <3>1, <3>2 DEF JoinIsAtomic
  <2> QED
    BY <2>2, <2>3 DEF JoinInv
<1>3. ASSUME NEW op \in Op, IssueJoinCertificate(op)
      PROVE  JoinInv'
  BY <1>0, <1>3 DEF IssueJoinCertificate, JoinInv, Sound, JoinIsAtomic
<1>4. ASSUME NEW op \in Op, Abort(op)
      PROVE  JoinInv'
  BY <1>0, <1>4 DEF Abort, JoinInv, Sound, JoinIsAtomic
<1>5. ASSUME NEW op \in Op, Finalize(op) \/ FinalizeLocal(op)
      PROVE  JoinInv'
  <2> DEFINE p == PreparedAll(Started, op)
             D == AppliedAll(CertifiedAll(p, op), op).domain
  <2>1. /\ Sound(D)
        /\ \/ \A d \in Domain : D[d].committed = domain[d].committed
           \/ /\ p.running
              /\ \A d \in Domain : D[d].committed = IF d \in DomainsOf(op)
                                                    THEN domain[d].committed \cup {op}
                                                    ELSE domain[d].committed
    BY <1>0, FinalizeKeeps
  <2>2. /\ domain' = D
        /\ joined \subseteq joined'
        /\ p.running /\ Cardinality(DomainsOf(op)) > 1 => op \in joined'
    BY <1>5 DEF Finalize, FinalizeLocal
  <2> HIDE DEF p, D
  <2>3. JoinIsAtomic'
    <3> SUFFICES ASSUME NEW d \in Domain, NEW q \in domain'[d].committed
                 PROVE  /\ \A e \in DomainsOf(q) : q \in domain'[e].committed
                        /\ Cardinality(DomainsOf(q)) > 1 => q \in joined'
      BY DEF JoinIsAtomic
    <3>1. DomainsOf(q) \subseteq Domain
      BY <2>1, <2>2, CommittedFacts
    <3>2. CASE q \in domain[d].committed
      <4>1. /\ \A e \in DomainsOf(q) : q \in domain[e].committed
            /\ Cardinality(DomainsOf(q)) > 1 => q \in joined
        BY <1>0, <3>2 DEF JoinIsAtomic
      <4> QED
        BY <2>1, <2>2, <3>1, <4>1
    <3>3. CASE q \notin domain[d].committed
      <4>1. /\ q = op /\ p.running
            /\ \A e \in Domain : domain'[e].committed = IF e \in DomainsOf(op)
                                                       THEN domain[e].committed \cup {op}
                                                       ELSE domain[e].committed
        BY <2>1, <2>2, <3>3
      <4> QED
        BY <2>2, <3>1, <4>1
    <3> QED
      BY <3>2, <3>3
  <2> QED
    BY <2>1, <2>2, <2>3 DEF JoinInv
<1> QED
  BY <1>1, <1>2, <1>3, <1>4, <1>5, JoinAssumption DEF JoinNext

(***************************************************************************)
(* The domains stay sound in every behaviour of the coordinator: votes are *)
(* cast alike and never for two operations with the same local inputs,     *)
(* prepared operations have the votes of all, and versions count commits.  *)
(***************************************************************************)
THEOREM JoinInvIsKept ==
    JoinSpec => []JoinInv
<1>1. JoinInit => JoinInv
  BY JoinStarts
<1>2. JoinInv /\ [JoinNext]_joinVars => JoinInv'
  BY JoinStep
<1> QED
  BY <1>1, <1>2, PTL DEF JoinSpec

(***************************************************************************)
(* JoinCoordinator.finalize commits in all domains or in none, and only    *)
(* with a join certificate, whatever other operations share its inputs.    *)
(***************************************************************************)
THEOREM JoinsAreAtomic ==
    JoinSpec => []JoinIsAtomic
BY JoinInvIsKept, PTL DEF JoinInv

(***************************************************************************)
(* The commits of an object consume its versions one by one, each once,    *)
(* through whichever coordinator they came.                                *)
(***************************************************************************)
THEOREM CommitsCountVersions ==
    JoinSpec => []VersionsCountCommits
<1>1. JoinInv => VersionsCountCommits
  <2> SUFFICES ASSUME JoinInv, NEW o \in Object
               PROVE  VersionsCount(domain[DomainOf[o]], o)
    BY DEF VersionsCountCommits, VersionsCount, Users
  <2>1. DomainOf[o] \in Domain /\ o \in ObjectsIn(DomainOf[o])
    BY DEF Domain, ObjectsIn
  <2> QED
    BY <2>1 DEF JoinInv, Sound, DomainInv
<1> QED
  BY <1>1, JoinInvIsKept, PTL

(***************************************************************************)
(* A prepared operation keeps all others with its inputs out of its        *)
(* domain, aborted or not.                                                 *)
(***************************************************************************)
THEOREM PreparedHolds ==
    JoinSpec => []OneHolder
<1>1. JoinInv => OneHolder
  <2> SUFFICES ASSUME JoinInv, NEW d \in Domain,
                      NEW p \in domain[d].prepared \cup domain[d].committed,
                      NEW q \in domain[d].prepared,
                      LocalInputs(d)[p] = LocalInputs(d)[q]
               PROVE  p = q
    BY DEF OneHolder
  <2>1. DomainInv(domain[d], d)
    BY DEF JoinInv, Sound
  <2>2. p \in domain[d].prepared /\ Member # {}
    BY <2>1 DEF DomainInv, PreparedHasVotes
  <2>3. PICK m \in Member : TRUE
    BY <2>2
  <2> DEFINE v == In(d)!VoteOf(m, "PREPARE", p)
             w == In(d)!VoteOf(m, "PREPARE", q)
  <2>4. v \in domain[d].votes /\ w \in domain[d].votes
    BY <2>1, <2>2 DEF DomainInv, PreparedHasVotes
  <2>5. /\ v.voter = m /\ v.phase = "PREPARE" /\ v.op = p
        /\ w.voter = m /\ w.phase = "PREPARE" /\ w.op = q
    BY SameVote
  <2>6. v = w
    BY <2>1, <2>4, <2>5 DEF DomainInv, VotesDiffer, In!SameKey
  <2> QED
    BY <2>5, <2>6
<1> QED
  BY <1>1, JoinInvIsKept, PTL

\* Either all validators may cast their vote for op in domain d or none may.
RefusedAlike ==
    \A d \in Domain : \A op \in OpsIn(d) : \A phase \in {"PREPARE", "COMMIT"} : \A m \in Member :
        In(d)!MayRecord(domain[d], In(d)!VoteOf(m, phase, op)) <=> ~VotesRefused(domain[d], d, phase, op)

(***************************************************************************)
(* _record_votes stops at the first vote that record_vote refuses.  That   *)
(* is always the first of the committee: no call leaves the votes of a     *)
(* part of the committee behind.                                           *)
(***************************************************************************)
THEOREM NoVoteIsLeftBehind ==
    JoinSpec => []RefusedAlike
<1>1. ASSUME NEW d, NEW s, DomainInv(s, d), NEW op \in OpsIn(d), NEW phase,
             NEW m \in Member, NEW n \in Member, ~In(d)!MayRecord(s, In(d)!VoteOf(m, phase, op))
      PROVE  ~In(d)!MayRecord(s, In(d)!VoteOf(n, phase, op))
  <2> DEFINE v == In(d)!VoteOf(m, phase, op)
             u == In(d)!VoteOf(n, phase, op)
  <2>1. PICK w \in s.votes : w.voter = v.voter /\ In(d)!SameKey(v, w) /\ w # v
    BY <1>1 DEF In!MayRecord, In!Against
  <2>2. v.voter = m /\ v.phase = phase /\ v.op = op /\ u.voter = n /\ u.phase = phase /\ u.op = op
    BY SameVote
  <2> DEFINE x == In(d)!VoteOf(n, w.phase, w.op)
  <2>3. /\ w = In(d)!VoteOf(w.voter, w.phase, w.op)
        /\ x \in s.votes
    BY <1>1 DEF DomainInv, VotesAlike
  <2>4. x.voter = n /\ x.phase = w.phase /\ x.op = w.op
    BY SameVote
  <2>5. x # u
    BY <2>1, <2>2, <2>3, <2>4
  <2>6. In(d)!SameKey(u, x)
    BY <2>1, <2>2, <2>4 DEF In!SameKey
  <2> QED
    BY <2>2, <2>3, <2>4, <2>5, <2>6 DEF In!MayRecord, In!Against
<1>2. JoinInv => RefusedAlike
  <2> SUFFICES ASSUME JoinInv, NEW d \in Domain, NEW op \in OpsIn(d),
                      NEW phase \in {"PREPARE", "COMMIT"}, NEW m \in Member
               PROVE  In(d)!MayRecord(domain[d], In(d)!VoteOf(m, phase, op))
                          <=> ~VotesRefused(domain[d], d, phase, op)
    BY DEF RefusedAlike
  <2>1. DomainInv(domain[d], d)
    BY DEF JoinInv, Sound
  <2>2. FirstVoter \in Member
    BY FirstVoterVotes
  <2> QED
    BY <1>1, <2>1, <2>2 DEF VotesRefused
<1> QED
  BY <1>2, JoinInvIsKept, PTL

=============================================================================
