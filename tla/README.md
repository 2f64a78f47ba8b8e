# A TLA+ verification of MOSAIC

MOSAIC certifies state transitions one predecessor at a time instead of ordering
them globally. A resource is a chain of *state seals*. A client signs a *capsule*
that consumes one seal; validators sign *receipts* for it; receipts of more than
two thirds of the voting weight form a *closure*, which installs the next seal. A
validator that has signed one capsule for a seal holds a *first-claim lock* and must
not sign a rival. The safety claim is Closure Exclusivity: no seal is consumed
twice, although nobody orders the capsules.

This directory models the closure protocol, the validators that gossip it, the
deterministic executor behind it, the membership with its ledger, randomness rounds
and onboarding, the erasure-coded availability layer, and the replicated and joined
domains of the CCD/NEXUS prototype. TLC checks them on small instances. TLAPS proves
all of the safety properties that the passing runs check, for every value of the
constants: every committee, every set of capsules, operations or transactions, and
every set of stray messages. Where a property needs a hypothesis, section 4 names it;
recovery from any k shards, which some codes do not give, is proved for all the codes
that the repository's daemon, tests and benchmarks use. Liveness is only model-checked.
Paths below are relative to the repository root.

## 1. The system and its hazards

| Component | State | Operations | Used by / uses | What makes it correct |
|---|---|---|---|---|
| Closure protocol, `mosaic/protocol.py`, `model.py`, `ectc.py` | current and known seals, locks, capsules, closures, abandons, conflict evidence | create, validate, witness (ACCEPT/ABANDON), close, abandon, register, apply, bundles, outcome | held by every node; called directly by tests and benchmarks | one closure per seal, one chain per resource, final outcomes |
| Validator node, `mosaic/network.py` | protocol object, receipt pool and history, seen and waiting capsules, pending clients, replay guard, store | SUBMIT, CAPSULE, RECEIPT, CLOSURE handlers, retry of waiting capsules, timeouts, persistence, restart | gossips with its peers; asyncio coroutines share the node's memory between awaits | exclusivity and agreement across nodes, durability of what clients were told, progress when messages arrive |
| Quorum arithmetic, `mosaic/safety.py` | none | thresholds, honest intersection | `threshold` of the protocol | quorums meet in an honest member |
| Durable store, `mosaic/storage.py` | SQLite rows by kind and key, audit events, snapshots | put, get, items, snapshot, prune, migrate | node, onboarding, availability, settlement | what was put before a crash is read after it |
| Security, `mosaic/security.py` | replay table, token buckets, capability vault | accept, allow, issue/redeem | node | at most one delivery within the TTL, bounded load |
| Settlement ledger, `mosaic/economics.py` | balances, bonds, events, slash evidence, settled epochs | fund, bond, unbond, withdraw, slash, fee, rewards | membership, onboarding, randomness | value is conserved, no event twice |
| Membership, `mosaic/membership.py` | validator records, epoch, seed, snapshot, slash history | admit, exit, withdraw, slash, advance, beacon, committee | settlement | snapshots agree with bonds; slashed stake leaves both |
| Randomness and beacon, `mosaic/randomness.py`, `beacon.py` | commitments, reveals, rounds | commit, reveal, finalise, settle | membership, settlement | a round is settled once, non-reveals are penalised once |
| Onboarding, `mosaic/onboarding.py` | coordinator over membership and settlement | admit, restore | node | nobody votes without a bond, and no answered admission is lost, also after a restart |
| Execution, `mosaic/execution.py` | key-value state, nonces, receipts, one row | execute, batch, execute for a capsule, persist, restore | `apply_execution` | nonces and receipts account for the state; the executor stays in step with the seals |
| Availability, `mosaic/availability*.py` | shards in memory and in rows | encode, put, fetch, recover, repair, restore | node | any k correct shards give the data back; memory and rows agree; repairs are correct |
| CCD-NEXUS, `ccd_nexus/` | domain replicas, votes, certificates, a leader's pending submissions, cross-domain joins | submit, vote, certify, apply, acknowledge; prepare, join, commit, abort; governance, membership | an earlier prototype; MOSAIC uses its crypto | no double spend, replicas agree, an ok rests on a quorum, joins are atomic |
| Configuration, keys, testnet log, benchmarks | - | - | - | - |

What is hard to test here, with its line and the property that watches it, is the
`hazards` list of `PROJECT.json`. The main ones: rivals that reach validators in
different orders while a faulty member signs both; a restart that loses the locks; a
crash between the transactions of `_persist_closure`; closures and capsules that
overtake their predecessors; receipts that replace one another in the pool before
they are verified; a client that times out and submits again; ABANDON followed by
ACCEPT; rounding in the threshold; a settlement, a join or a batch that stops half-way;
a crash between the two writes of an admission or between the shards of a repair;
certificates that are lost, late or repeated; operations that overlap in one input.

## 2. Modules

| Module | Models | Uses |
|---|---|---|
| `WeightedQuorum` | weight, threshold, both quorum models of `safety.py` | |
| `WeightedQuorumProofs` | theorems about quorums | `WeightedQuorum` |
| `MosaicProtocol` | the protocol object as a record and its methods as functions on it | `WeightedQuorum` |
| `MosaicNode` | the validators: one object, pool, store and set of interrupted coroutines each, and their refinement of `SealChain` | `MosaicProtocol`, `SealChain` |
| `MosaicNodeProofs` | theorems about `MosaicNode` | `MosaicNode`, `WeightedQuorumProofs` |
| `SealChain` | abstract specification: one growing chain of seals per resource, nodes walk along it | |
| `LocalProtocol` | one object driven through its public API, with attempts, abandons and bundles | `MosaicProtocol` |
| `LocalProtocolProofs` | theorems about `LocalProtocol` | `LocalProtocol` |
| `Settlement` | the settlement ledger as a record and its methods as functions on it | |
| `Membership` | validators' admission, exit, slashing, withdrawal and randomness rounds at one node | `Settlement` |
| `Onboarding` | the same behind a node: admission with its two writes, restarts, the beacon handlers | `Membership` |
| `MembershipProofs` | theorems about `Settlement`, `Membership` and `Onboarding` together | `Onboarding` |
| `Execution` | executor, receipts and `apply_execution` on a protocol object | `LocalProtocol` |
| `ExecutionProofs` | theorems about `Execution`, which implements `LocalProtocol` | `Execution` |
| `ErasureCodec` | GF(256), the encoding matrix, encode and recover, as operators | |
| `ErasureCodecProofs` | theorems about the field, the elimination, encode and recover | `ErasureCodec` |
| `Availability` | shard providers with their rows, clients that publish, fetch and ask for repairs | `ErasureCodec` |
| `AvailabilityProofs` | theorems about `Availability` | `Availability`, `ErasureCodecProofs` |
| `NexusDomain` | a domain replica of CCD/NEXUS: recorded votes, certificates, objects | `WeightedQuorum` |
| `NexusNetwork` | the replicated domain: leader, replicas, frames, timeouts | `NexusDomain` |
| `NexusJoin` | several domains in one process and the join coordinator | `NexusDomain`, one instance per domain |
| `NexusProofs` | theorems about `NexusNetwork` and `NexusJoin` | `NexusNetwork`, `NexusJoin`, `WeightedQuorumProofs` |
| `MCNode`, `MCLocal`, `MCMembership`, `MCExecution`, `MCAvailability`, `MCNexus` | instances for TLC; `MCNexus` chooses between the two deployments of CCD/NEXUS in its initial state | |

Operators whose comment starts with "Mutant" are broken variants of the operator
below them; `PROJECT.json` says which property notices which.

### Protocol object

Digests are taken to be injective, so an object stands for its identifier: the
genesis seal of resource `r` is `r`, and the seal that capsule `c` creates is `c`
(its `capability_hash` is `digest(capsule_id)`). `Pred`, `Attempt`, `ResourceOf` and
`Version` are constant functions, because a capsule's content never changes.
`WellFormed` is the set of capsules that pass the stateless checks of
`validate_capsule`. A receipt carries a flag that abstracts signature verification.
A lock is the pair of capsule and status; the code's third field, the attempt, is a
function of the capsule.

`witness_receipt` is `Signs` (a receipt is returned), `Conflicts`
(`ConflictDetected` is raised, after the evidence was recorded) and `AfterWitness`
(the object afterwards). Note `TakeLock`: signing ACCEPT for the capsule that is
locked already leaves the lock alone, also when it says ABANDON.

### Nodes

| `MosaicNode` field | Code |
|---|---|
| `protocol` | `MosaicNode.protocol` |
| `pool`, `history` | `receipt_pool`, `receipt_history` |
| `seen`, `waiting` | `seen_capsules`, `pending_capsules` |
| `pending` | `pending` (futures of waiting clients) |
| `tasks` | coroutines suspended in `_broadcast` or `_retry_pending` |
| `disk` | the rows of kinds `capsule`, `receipt`, `closure`, `seal_known`, `seal_current` |
| `delivered` | `replay_guard` |
| `msgs` | frames sent so far; a frame may be delayed for ever, which is a loss |

asyncio runs a coroutine without interruption between two awaits, so everything a
handler does up to an await is one action, and the rest is a task. The client of a
closed capsule is therefore answered in a later step (`FinishTask`) than the one that
closes it, and reads the current seal then, as `_finish_pending` does. Each iteration
of `_retry_pending` is a step of its own, which also allows a pause before the first
one. A crash may happen between any two actions and inside `_persist_closure`
after each of its transactions; a crash between persisting a capsule and sending the
receipt is the same as losing the receipt. `Restored` is `_restore`: the locks, the
evidence, the history and the waiting capsules do not come back.

`_broadcast` also dispatches to the node itself, past its replay guard; that is why
`Submit` and `Close` take their own message out of `delivered`. `Redelivery` says
whether the replay guard's entries expire (TTL, or eviction at its limit) or not.
`emitted_closures` is left out: a proof is emitted at most once by the guard on
`closures` already. The test switches `equivocate`, `drop_rate` and `delay_ms` are
covered by `Stray`, by messages that are never delivered and by interleaving.

Faulty members are not modelled as processes. `Stray` is the set of messages nobody
honest sent, constrained only by unforgeability (`FaultAssumption`); the proofs hold
for every such set.

### Local API

`LocalProtocol` allows any order of calls and lets the caller keep receipts and
offer any subset of them later. All members sign through one object and share its
locks, as in the tests and benchmarks.

### Ledger and membership

| `Membership` variable | Code |
|---|---|
| `ledger` | `SettlementLedger`: `balances`, `bonds`, `events`, `slash_evidence_ids`, `settled_reward_epochs` |
| `records`, `deposits`, `slashed`, `epoch` | `_records`, `_deposits`, `_slash_history`, `_epoch` of `MembershipManager` |
| `commitments`, `reveals`, `settled` | the dictionaries of `BeaconRoundCoordinator` |

Dictionaries are functions whose domain grows and shrinks. A validator, its account
and its bond share one number, so sorting by validator and by bond is the same order.
The methods of the ledger change balances before their last check; `Settlement`
therefore gives the ledger a call leaves behind whether it returns or raises. Three
actions stop half-way: `SlashFromFuture` (the ledger is slashed, the record is not),
`Withdraw` of an active validator (the bond is paid, the record stays), and `Finalize`
(penalties up to the first failure, `Punished`; rewards up to the first failure,
`Paid`). `Slash` keeps the code's assignment of `active`, which forgets that the
validator had left.

`Membership` drives one node's objects through their methods, as the tests and an
embedding program do. `Onboarding` adds the node: `store` holds the ledger's row and the
rows of kind `onboarding`, or is `NoStore` when the objects are used without a node.
The behaviours of both are in one specification, `SpecAny`. A node only admits
(`Onboard`), takes commitments and reveals, and finalises rounds; `OnFinalize` writes the
ledger only if `settle_round` returns. `CrashInOnboard` stops after the ledger was
written. `Loaded` is `load_node` with `restore_from_store`: the ledger comes back, the
membership starts at epoch 0 with the full stake of every admission, and the rounds are
forgotten. Three consequences that the model shows and nothing contradicts: the bond of
an interrupted admission stays without a validator, because the same request is refused
by the ledger from then on; a penalised validator has its full vote after a restart; a
validator that was fined for a round may be paid for it after a restart, which is why
`RewardOrPenalty` is claimed until the first restart only. `EarningsAccounted` is what
remains: no round is paid twice.

### Execution

| `Execution` variable | Code |
|---|---|
| `object`, `issued` | the `MosaicProtocol` object and the receipts of `LocalProtocol` |
| `executor` | `state`, `nonces`, `receipts` of `DeterministicExecutor` |
| `disk` | the row of kind `execution_state` |
| `basis` | history only: the seal that the executor stands at |

A state root is the state itself. `Staged` is the loop over the instructions; `Ran` is
`execute`, which keeps the receipt of a failure as well, so that a transaction tried too
early has failed for good (`ReceiptsAreFinal`). `ApplyExecution` follows
`apply_execution` into its error path: when `apply` raises, the executor is put back but
the closure that `apply` registered first stays. A capsule whose transaction has a
receipt already is bound to that receipt if it happens to fit: the seal advances and the
executor does not run. `ExecutorMatchesSeal` names this case as its exception.

### Availability

A byte is the set of its one bits, so the field, the matrix and its inversion are
computed as the code does, not assumed. `GfPow` multiplies by halves where the code
multiplies in a loop; the two give the same (`PowerTurns`). `Eliminated` is a turn of the
loop of `_matrix_inverse`, and `Decoding` is the inverse for every choice of k shards. A content digest is the payload. `valid` stands for
the codec parameters, the index and the shard's own digest. `store[p]` and `disk[p]` are
what a provider has in memory and in its rows. `Repairs` are the results that clients can
obtain with shards fetched from providers that are up; `CrashInRepair` stops between two
of the rebuilt shards. `Restored` reads the rows in key order and stops at the first row
that `put` refuses, as `_restore` does when it catches the exception;
`ServedIsDurable` shows that there never is one.

### CCD/NEXUS

| Variable | Code |
|---|---|
| `replica[m].votes`, `.evidence` | `_votes` and `_statements`, `evidence` of the replica's `QuorumCommittee` |
| `replica[m].objects`, `.committed` | `objects`, `committed_operations` of its `DomainExecutor` |
| `pending`, `finished` | the leader's `pending`; the clients that were answered ok |
| `msgs` | frames; none is taken out, so each may come late, again or never |
| `domain[d]` | executor and votes of domain d in a process with several domains, with `prepared_certificates` |
| `joined`, `aborted` | operations with a join or an abort certificate |

A certificate is determined by its phase and operation, because issuing and verifying
read the same committee. The leader dispatches its own votes inside the handler that
casts them (`_send` to itself), so `AfterOwnVotes` is what its handler of votes makes of
a vote and the altered one behind it. A Byzantine validator sends, after each vote, one with an altered
dependency digest, as the code's own test switch does; the leader is correct. In
`NexusJoin` a call of a domain is a condition under which it raises and the state it
leaves. No domain reads another one, so the coordinator's loop is `InTurn`: the domains
up to the first one that raises are called, and an exception in the second domain keeps
what happened in the first.

What the models make visible: the conflict key of a vote is the exact tuple of input
versions, so two operations that share one input can both get certificates, and I1 of
`security_invariants.md` holds for equal inputs only (`CertificatesExclude`); the double
spend is prevented because the leader validates again before it sends the commit
certificate (`NoDoubleSpend`, and its mutant). A correct validator that is asked to vote
for a rival records evidence against itself. Votes are never released: not after a
timeout, and not after an abort certificate, which changes no state. An operation that
was aborted can therefore still be committed by `finalize`, although
`security_invariants.md:17` says that ABORTED excludes COMMITTED, and one that is
prepared in one domain and stale in another keeps its inputs there for good, although
:79 says that nothing stays PREPARED. A client may be told "commit timeout" for an
operation that is committed. A replica that misses a certificate stays behind; nothing
sends it again.

## 3. Model checking

| Run | Instance | Properties | Result |
|---|---|---|---|
| `node_faulty` | weights 2,1,1; m3 faulty; rivals a, b submitted at m1, m2; redelivery | `TypeOK`, `LockDiscipline`, `ClosureExclusivity`, `SealAgreement` | holds |
| `node_restart` | weights 2,1; m2 crashes and restarts; rivals; redelivery | `ClosureExclusivity`, `RepliesAreDurable`, `ImplementsSealChain` | holds |
| `node_lag` | weights 3,1; all that m1 sends while it closes a, c, e alone reaches m2 in any order; m2 crashes; client at m2; redelivery | `KnownSealsAreClosed`, `SealsAdvance` | holds |
| `node_live` | weights 2,1; a then c, broadcast by the client in any order; fair | `EveryCapsuleCloses` | holds |
| `local` | rivals a, d, second attempt b, x of another resource, bundle {b, x} | `ExclusivePerAttempt`, `LinearHistory`, `ClosedIsFinal`, `LocksAdvance` | holds |
| `membership` | stakes 2 and 1; either two epochs of one round, evidence of epochs 0 and 1, default penalties; or a node with a genesis validator, an applicant and two restarts | `TypeOK`, `Conservation`, `SlashesAccounted`, `BondsBackVotes`, `EarningsAccounted`, `RewardOrPenalty`, `WithdrawalIsDelayed` | holds |
| `execution` | four capsules, five transactions (two that fail), four batches; a counter that returns to an earlier root | `TypeOK`, `NoncesCountSuccesses`, `ReceiptsFormAChain`, `ExecutorMatchesSeal`, `ReceiptsAreFinal` | holds |
| `availability` | 3 + 2 shards, two providers, correct, mislabelled, damaged and rival shards, repairs of one or two shards | `TypeOK`, `ServedIsDurable`, `AnyDataShardsRecover`, `RepairsAreFaithful`, `ContentIsFinal` | holds |
| `nexus` | weights 2,1,1, one Byzantine voter, two operations out of rivals, overlapping ones and a successor, one of them retried; or two domains, three objects and five operations, three of them joint | `TypeOK`, `NoDoubleSpend`, `ReplicasAgree`, `FinalityIsQuorum`, `CertificatesExclude`, `AccusedAreByzantine`, `JoinIsAtomic`, `VersionsCountCommits`, `OneHolder` | holds |
| `membership_loss` | the same, with partial penalties | `Conservation` | violated |
| `node_amnesia` | weights 2,1,1; m1 restarts; nobody faulty | `ClosureExclusivity` | violated |
| `availability_any_k` | 5 + 4 shards, one provider, correct shards only | `AnyDataShardsRecover` | violated |

The three violated properties are statements of the paper or of a docstring; `findings`
in `PROJECT.json` quotes them next to the code.

* `node_amnesia`: m1 signs a, restarts, signs b. Locks are neither written nor
  restored. The proofs show what does hold: exclusivity, as long as faulty *and
  restarting* members together have at most a third of the weight.
* `availability_any_k`: the encoding matrix puts powers of row + 1 below an identity, and
  some of its square submatrices are singular. With 5 + 4 shards, the correct shards
  3, 5, 6, 7 and 8 are not enough. The default 5 + 3 and the tests' sizes are fine.
* `membership_loss`: v exits and is slashed in part, which makes its record active
  again; `withdraw` pays its bond and then raises; v commits and reveals, and
  `distribute_rewards` debits the treasury before it misses the bond. With the default
  penalty (the whole stake) an exited validator is jailed and never comes back, and
  conservation is exact; that is the instance of `membership`.

Three more disagreements with documents were met while modelling; they follow from the
definitions named here and have no run of their own.

* `_persist_closure` commits the closure and the seals in separate transactions
  (`CrashInClose`, `CrashInClosure`), and after a crash between them a resubmission is
  answered with the predecessor seal (`SubmitClosed`);
  `paper/ledger_submission/main.tex:113` says that they are persisted atomically.
* After abandon a, close a (which S3 of `mosaic_specification.md:206` excludes), the lock
  still says ABANDON, so a second attempt takes it and is closed as well, against S1
  (:198). `ExclusivePerAttempt` is what the code does guarantee. A bundle of two such
  closures would install two successors of one seal, so `local` uses a bundle without
  rivals.
* `unweighted_quorum_size` is too small when n is not 3f + 1 (n = 2 and n = 5 are
  examples), where `formal/ectc_safety_argument.md:17` only asks for n >= 3f + 1. The
  weighted threshold that the protocol uses is right.

**Bounds.** Two capsules are the smallest set with a conflict or a chain; a third
does not add a new relation between two capsules at one seal. Closures that overtake
each other are checked on a chain of three, with the peer reduced to the messages it
sends (it is listed as faulty, so it has no state of its own). Two or three members of
unequal weight give quorums that one member can block, one that can be reached
without the lightest member, and a faulty member just below a third. `MaxPending` is
the number of capsules or one. `node_live` disables deadlock checking because the
system stops once every capsule is closed everywhere and no message is redelivered.
`membership` ends at `MaxEpoch`, so it does not check for deadlock either; two epochs
are enough for an exit and its withdrawal after a delay of one, and for evidence from
the future. Its two validators need each other for a beacon when both are active, and
the lighter one can be penalised to zero. On the node the genesis validator is a quorum
of its own, so a round can be settled, forgotten by a restart and run again, and the
treasury could pay twice. Two restarts allow one inside an admission and one after it.
`execution` lets a capsule name a transaction that ran before and lets a root come back,
the cases in which a cached receipt fits. 3 + 2 is the smallest code in which k shards
can mix data and parity in several ways; the payloads differ in one byte.
`nexus` submits at most two operations per behaviour: rivals, overlapping operations or a
chain; a third adds no new relation between two operations and certificates. A join has
five operations, `Requested`. `Timeout` is
limited to operations that are submitted again, since forgetting an operation is
otherwise the same as ignoring its votes. Its frames are used up at the end, so it does
not check for deadlock. The members of `local` are interchangeable, hence its symmetry set.

**Fairness** (`node_live` only). Weak fairness on the handling of every sent message
by every node and on the resumption of tasks: `_send` retries, the event loop runs
every ready coroutine and `gather` resumes its caller. With `drop_rate` 0 and peers
that are up this is what the code provides; when all retries fail a message is lost
and no progress is claimed. Clients, timeouts and crashes are not fair.

## 4. Proofs

The invariants that the runs check are seldom inductive. Each proof module defines one
that is, proves that the initial states satisfy it and every action keeps it (one step
per action), and derives the properties. The assumptions on constants are the named
`ASSUME`s of the modules, which TLC evaluates in every run. The theorems that need more
say so; these hypotheses are in the table.

| Module | Inductive invariant | Theorems | Hypothesis |
|---|---|---|---|
| `WeightedQuorumProofs` | - | `WeightsAdd`, `QuorumIntersection`, `QuorumsPassSafetyChecks`, `UnweightedQuorumIntersection` | n = 3f + 1 in the last |
| `MosaicNodeProofs` | `TypeOK`, `LockDiscipline`, `SealInv` | `TypeCorrectness`, `LocksAreKept`, `KnownSealsWereClosed`, `AnswersSurviveCrashes`, `NodesWalkSealBySeal` | |
| | with `ChainInv` | `ClosuresExclude`, `NodesAgree`, `NodesImplementSealChain` | `WithinFaultBound(Forgetful)` |
| `LocalProtocolProofs` | `TypeInv`, `GrantInv` | `LocksOnlyAdvance`, `ClosuresExcludePerAttempt`, `OutcomesAreFinal` | |
| | `HistoryInv` | `HistoryIsLinear` | `BundlesConsumeOnce` |
| `ExecutionProofs` | `ExecutorInv` | `NoncesAreExact`, `ReceiptsAccountForState`, `ExecutorFollowsSeals`, `ReceiptsStay`, `OneReceiptPerTransaction`, `ExecutionImplementsLocalProtocol` | |
| `ErasureCodecProofs` | - | `MatrixInverseExact` | |
| | | `DecodeEncode` | `Independent(chosen)`: the rows of the k shards are independent |
| | | `SmallCodesIndependent` | `ParityShards = 1 \/ DataShards <= 3` |
| | | `DefaultCodeIndependent` | `DataShards = 5`, `ParityShards = 3` |
| | | `FourTwoIndependent` | `DataShards = 4`, `ParityShards = 2` |
| `AvailabilityProofs` | `Inv` | `OneShardPerIndex`, `RestartsLoseNothing`, `RepairsStoreCorrectShards`, `ContentNeverChanges` | |
| | - | `RecoverExact` | |
| | | `RegularCodesRecover` | every choice of k rows can be inverted |
| | | `SmallCodesRecover`, `DefaultCodeRecovers`, `FourTwoRecovers` | the codes above |
| `NexusProofs` | `Inv` | `TypesAreKept`, `CertificatesAreExclusive`, `AccusationsAreTrue`, `NothingIsSpentTwice`, `ReplicasNeverDiverge`, `FinalityIsSupported` | |
| | `JoinInv` | `JoinsAreAtomic`, `CommitsCountVersions`, `PreparedHolds`, `NoVoteIsLeftBehind` | |
| `MembershipProofs` | `KeptInv` | `NothingGoesNegative`, `VotesAreBacked`, `WithdrawalsWait`, `PenaltiesAreAccounted`, `EarningsAreAccounted`, `NodesConserveMoney` | |
| | `ExactInv` | `MoneyIsConserved` | `PartialPenalty = {}` |
| | `OnceInv` | `NodesRewardOrPenalise` | `RoundsFit` |
| | | `RewardedOrPenalised` | `PartialPenalty = {}`, `RoundsFit` |

**Quorums.** The weight of a set is the number of its units, so the argument is counting
in finite sets (`FiniteSetTheorems`). Two quorums own more than 4/3 of the units between
them, hence share more than 1/3, which no set within the fault bound covers. `WeightsAdd`
shows that counting units is the sum that the code computes, `QuorumsPassSafetyChecks`
that such quorums pass the two runtime checks of `safety.py`.

**Validators.** `ClosureExclusivity` does not say where closures come from;
`LockDiscipline` does. Its four parts are: no node holds an ABANDON lock (or a lock
could be released); every receipt in a pool or a store was sent (so counting a pool
counts real signatures, also after a restart); every member that keeps its memory
still holds the lock of every capsule it has accepted; and every closure in memory or on
disk has a quorum of real signatures. Exclusivity follows by intersecting the two quorums
outside `Forgetful`. `SealInv` says that a node's memory holds the seals of its store,
that each of them was closed, back to the genesis, and that the node is at one of them;
every action is shown to leave seals alone, to sign, to install one closed successor of
the current seal, or to fall back to the store (`StepOf`). These hold with any members
faulty. Agreement needs the bound: an honest member signs successors of closed seals
only, so a quorum cannot close a capsule off the chain (`ChainInv`). The induction along
the chain is carried by the steps: two seals of one version have predecessors of one
version, and the step that closes the second one would close a rival. `SealChain` is then
implemented with `closed <- Closed` and `head <-` the current seals. `Forgetful` holds the
faulty members and those that may restart; `node_amnesia` is what happens when they are
too many.

**Local API.** `GrantInv`: the lock of a seal is at, or beyond, the attempt of every
capsule that was accepted for it, and one attempt has one accepted capsule. No bound on
faults is needed, because the members share the object. `BundlesConsumeOnce` says that no
bundle names two capsules of one seal: `apply_bundle` (protocol.py:433) checks all
predecessors before it installs anything, and without the hypothesis it would install
two successors of one seal.

**Execution.** `ExecutorInv` holds of the executor and of its row, since a restart makes
one the other: one receipt per transaction, the nonces of a caller's successes are
0, 1, 2 ..., the successes can be put in an order in which each starts where the one
before it ended, and the state is that of `basis`. The order is a function that grows at
its end with each success. Execution refines `LocalProtocol` step by step: whatever
`apply_execution` does to the protocol object, its own methods can do.

**Availability.** A provider that is up serves its rows; the rows of a provider agree on
the content of every object, are valid, one per index, and were offered or made by
`encode`. The agreement on contents is what `ServedIsDurable` lacks: without it a restart
could stop at a row.

**Erasure codec.** That k shards give the payload back is proved from the bits up.
`_gf_mul` is additive in each argument, so a law of products holds when it holds for
single bits; that gives commutativity and associativity. Squaring is additive too, and
eight squarings, computed bit by bit, change nothing. Hence value^256 = value; so
value^255 is its own square, that is zero or one, and `_gf_inv` inverts. For
`_matrix_inverse`, a turn of the elimination keeps the solutions of the equations and
makes one more column a unit column; at the end the right half is an inverse. A turn
without a pivot leaves a nonzero vector that the matrix takes to zero. So the code raises
exactly when there is none (`MatrixInverseExact`). Framing, padding, cutting and joining
undo each other, and `DecodeEncode` follows for independent rows; `RecoverExact` says it of
`recover`, in both directions.

Which rows are independent is a question about the bases row + 1. With one missing data
shard any parity shard will do. With two, the ratio of the bases must not be a root of
unity of the distance between the shards; with three, a determinant must not vanish.
Distances 1 and 2 work for all bases, since squaring is one to one: hence `ParityShards =
1 \/ DataShards <= 3`. Longer distances depend on the bases. For the 5 + 3 code, the
default of `daemon.py` and of the example inventory, the powers of 6, 7 and 8 and the
products in question are computed (`DefaultPowers`, `DefaultProducts`); for the 4 + 2 code
of the repair test, the cubes of 5 and 6 (`FourTwoBases`). The hypotheses cannot be
dropped: `availability_any_k` shows that 5 + 4 fails. The induction theorems of the
library take a predicate; here a set of instances stands for it (`UpTo`, `OneByOne`),
which the provers can use.

**CCD/NEXUS.** `VoteInv`: one vote per key and voter at every replica, a vote of a correct
validator anywhere was recorded by itself, and the leader holds the votes behind its
certificates. `ObjectInv`: an object's content was written by the operation that consumed
the version before, replicas have committed a part of what the leader has, and what the
leader has committed is disjoint. `FinalInv`: acknowledgements come from replicas that
have applied the operation. None of it bounds the weight of the Byzantine validators: all
certificates are issued by one leader, which records one vote per key and voter, so two
certificates for one key would need two disjoint quorums. What the bound would have to
protect against, a faulty leader, is not in the model. `JoinInv` holds for each domain of
a join that votes for one key are for one operation and cast by all validators or none,
that what is prepared has the votes of all, that only what is prepared is committed, and
that versions count commits. Atomicity follows because certifying changes no object: if
every domain could certify an operation, every domain can apply it. `NoVoteIsLeftBehind`
justifies the model's own shortcut that the first vote decides for all.

**Money.** `KeptInv` relates three things to the events of the ledger: what is missing from
a bond is the sum of its SLASH events, what an account has is what its FUND and REWARD
events say less its bond, and the delay of a withdrawal is in the events of the request;
each for the ledger and for its row, with the validators that the rows admit. Sums over
sets of events and the loops over validators in a settlement have no recursion that the
provers would have to unfold: the lemmas about `Amounts` argue by a smallest set, or a
least validator, for which they would fail. At a node money is conserved without a
hypothesis. Without one `PartialPenalty = {}` is needed, that is, `slash` is called with
its default, the whole stake; `membership_loss` is the counterexample otherwise.
`RewardOrPenalty` needs it too, because a settlement that fails in the middle of its
rewards can be repeated after a late reveal; at a node, which never slashes by hand,
`NodesRewardOrPenalise` does without. Both are about the time before the first restart.
`RoundsFit` says that rounds are below
1000000, since `RewardKey` is epoch * 1000000 + round: beyond that two rounds may share a
key, and the second one settles without rewards.

**Only model-checked.** `EveryCapsuleCloses`, because fairness and ENABLED are outside the
prover. Of codes other than those above nothing is proved but that recovery is a matter of
independent rows.

## 5. Not modelled

* Wire formats, hashing, signatures and TLS are assumed ideal; metrics, logging,
  benchmarks and the testnet event log make no decisions of the protocol.
* The connection and rate limits of `_handle`, and the capability vault.
* Snapshots, pruning and schema migration of the store; every put is one transaction.
* The gossip of ADMISSION and BEACON messages between nodes: `Onboarding` is one node.
  Finalisation is not gossiped at all, so nothing makes two nodes' ledgers agree.
* Committee selection: its outcome is the order of digests.
* Sampling proofs and availability certificates, which no component consumes.
* Epoch governance, membership changes and state snapshots of `ccd_nexus`, which its
  network does not use.

## 6. Plan

Done: the closure protocol and its validators, quorum arithmetic, execution, ledger,
membership, onboarding, availability, CCD/NEXUS domains, network and joins; theorems
about all of them. Next, in this order:

1. A liveness argument for `EveryCapsuleCloses` as a chain of leads-to lemmas, each
   with its safety part proved.
2. `ReplayGuard` with time, store snapshots and pruning, `ccd_nexus` governance.
