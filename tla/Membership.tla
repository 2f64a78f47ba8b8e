----------------------------- MODULE Membership -----------------------------
(***************************************************************************)
(* The life of validators at one node: MembershipManager with its          *)
(* settlement ledger (mosaic/membership.py), and randomness rounds         *)
(* (mosaic/beacon.py, mosaic/randomness.py), as a program that embeds them *)
(* may call them; Onboarding adds the store and the node.  A call that     *)
(* raises before it changes anything is no step; a call that raises        *)
(* half-way is one.                                                        *)
(*                                                                         *)
(* The snapshot is rebuilt at the end of every method, so it is a function *)
(* of the records.  _validator_bonds has the keys of the records, and      *)
(* _non_reveal_history holds what the ledger holds as evidence of that     *)
(* kind, since settle_round adds to both without a check in between that   *)
(* can fail; neither is a variable.  Seeds, secrets and signatures are     *)
(* ideal: only that a commitment or its opening was accepted is kept.      *)
(***************************************************************************)
EXTENDS Settlement

CONSTANTS
    Genesis,          \* Genesis[a]: genesis balance of account a
    WithdrawalDelay,  \* withdrawal_delay of the manager
    Requested,        \* Requested[v]: requested_epoch of the admission of v
    PartialPenalty,   \* penalties passed to slash other than the default
    Claim,            \* <<offender, epoch, number>> of evidence of equivocation
    Round,            \* rounds of an epoch
    Reward,           \* values of reveal_reward
    RevealPenalty,    \* values of non_reveal_penalty
    Donation,         \* <<account, amount, source>> of later funding
    Fee,              \* <<payer, amount, tx>> of fees
    MaxEpoch          \* bound on the epochs explored

ASSUME MembershipAssumption ==
    /\ Genesis \in [Account -> Nat]
    /\ WithdrawalDelay \in Nat /\ MaxEpoch \in Nat
    /\ Requested \in [Validator -> Nat]
    /\ PartialPenalty \subseteq Nat \ {0}
    /\ Claim \subseteq Validator \X Nat \X Nat
    /\ Round \subseteq Nat /\ Reward \subseteq Nat /\ RevealPenalty \subseteq Nat
    /\ \A d \in Donation : d[1] \in Account /\ d[2] \in Nat
    /\ \A f \in Fee : f[1] \in Account /\ f[2] \in Nat

VARIABLES
    ledger,       \* the settlement ledger
    records,      \* validator records by validator
    deposits,     \* validators whose deposit has been used
    slashed,      \* evidence applied to the membership
    epoch,        \* current epoch
    commitments,  \* accepted <<epoch, round, validator>>
    reveals,      \* opened commitments
    settled       \* finalised <<epoch, round>>

vars == <<ledger, records, deposits, slashed, epoch, commitments, reveals, settled>>
beacon == <<commitments, reveals, settled>>

Record == [stake : Nat, active : BOOLEAN, locked : Nat, jailed : BOOLEAN]

NewRecord(v) == [stake |-> Stake[v], active |-> TRUE, locked |-> 0, jailed |-> FALSE]

Evidence(kind, ep, n, v) == <<kind, ep, n, v>>

Snapshot == {v \in DOMAIN records : records[v].active /\ ~records[v].jailed}

StakeOf(S) == SumFunction([v \in S |-> records[v].stake])

SnapshotThreshold == (2 * StakeOf(Snapshot)) \div 3 + 1

Init ==
    /\ ledger = GenesisLedger(Genesis)
    /\ records = <<>>
    /\ deposits = {} /\ slashed = {} /\ epoch = 0
    /\ commitments = {} /\ reveals = {} /\ settled = {}

\* The request and the bond of v belong together and are signed; a stake below
\* the minimum is refused and not worth a step.
Admit(v) ==
    /\ v \notin DOMAIN records /\ v \notin deposits
    /\ Requested[v] >= epoch
    /\ MayBond(ledger, v)
    /\ ledger' = AfterBond(ledger, {v}, epoch)
    /\ records' = [w \in DOMAIN records \cup {v} |->
                      IF w = v THEN NewRecord(v) ELSE records[w]]
    /\ deposits' = deposits \cup {v}
    /\ UNCHANGED <<slashed, epoch, beacon>>

Exit(v) ==
    /\ v \in DOMAIN records
    /\ MayUnbond(ledger, v)
    /\ ledger' = AfterUnbond(ledger, v, epoch, WithdrawalDelay)
    /\ records' = [records EXCEPT ![v].active = FALSE,
                                  ![v].locked = epoch + WithdrawalDelay]
    /\ UNCHANGED <<deposits, slashed, epoch, beacon>>

\* The ledger pays first; then the manager may still refuse to drop the record.
Withdraw(v) ==
    /\ v \in DOMAIN records
    /\ MayWithdraw(ledger, v, epoch)
    /\ ledger' = AfterWithdraw(ledger, v, epoch)
    /\ records' = IF records[v].active \/ epoch < records[v].locked
                  THEN records
                  ELSE Restrict(records, DOMAIN records \ {v})
    /\ UNCHANGED <<deposits, slashed, epoch, beacon>>

\* What remains of a record after a penalty.
Reduced(rec, amount, mayStay) ==
    LET left == Greatest(0, rec.stake - amount)
    IN  [rec EXCEPT !.stake = left,
                    !.active = left > 0 /\ mayStay,
                    !.jailed = left = 0 \/ @]

MayPunish(v, e, amount) ==
    /\ e \notin slashed
    /\ v \in DOMAIN records
    /\ MaySlash(ledger, v, amount, e)

\* Mutant: the ledger is not told of the penalty.
SlashUnsettled(v, ep, n, amount) ==
    LET e == Evidence("EQUIVOCATION", ep, n, v)
    IN  /\ ep <= epoch
        /\ MayPunish(v, e, amount)
        /\ records' = [records EXCEPT ![v] = Reduced(@, amount, ~@.jailed)]
        /\ slashed' = slashed \cup {e}
        /\ UNCHANGED <<ledger, deposits, epoch, beacon>>

\* slash reactivates an exited validator that keeps some stake.
Slash(v, ep, n, amount) ==
    LET e == Evidence("EQUIVOCATION", ep, n, v)
    IN  /\ ep <= epoch
        /\ MayPunish(v, e, amount)
        /\ ledger' = AfterSlash(ledger, amount, ep, [w \in {v} |-> e])
        /\ records' = [records EXCEPT ![v] = Reduced(@, amount, ~@.jailed)]
        /\ slashed' = slashed \cup {e}
        /\ UNCHANGED <<deposits, epoch, beacon>>

\* Evidence from the future is refused after the ledger has acted on it.
SlashFromFuture(v, ep, n, amount) ==
    LET e == Evidence("EQUIVOCATION", ep, n, v)
    IN  /\ ep > epoch
        /\ MayPunish(v, e, amount)
        /\ ledger' = AfterSlash(ledger, amount, ep, [w \in {v} |-> e])
        /\ UNCHANGED <<records, deposits, slashed, epoch, beacon>>

AdvanceEpoch ==
    /\ epoch < MaxEpoch
    /\ epoch' = epoch + 1
    /\ UNCHANGED <<ledger, records, deposits, slashed, beacon>>

FundAccount(d) ==
    /\ MayFund(ledger, d[1], d[2], d[3])
    /\ ledger' = AfterFund(ledger, d[1], d[2], d[3])
    /\ UNCHANGED <<records, deposits, slashed, epoch, beacon>>

ChargeFee(f) ==
    /\ MayChargeFee(ledger, f[1], f[2])
    /\ ledger' = AfterFee(ledger, f[1], f[2], epoch, f[3])
    /\ UNCHANGED <<records, deposits, slashed, epoch, beacon>>

SubmitCommitment(v, r) ==
    /\ v \in Snapshot
    /\ commitments' = commitments \cup {<<epoch, r, v>>}
    /\ UNCHANGED <<ledger, records, deposits, slashed, epoch, reveals, settled>>

SubmitReveal(c) ==
    /\ c[3] \in Snapshot
    /\ reveals' = reveals \cup {c}
    /\ UNCHANGED <<ledger, records, deposits, slashed, epoch, commitments, settled>>

\* The key under which the ledger remembers the rewards of a round.
RewardKey(ep, r) == ep * 1000000 + r

In(S, r) == {v \in Validator : <<epoch, r, v>> \in S}

NonReveal(ep, r, v) == Evidence("NON-REVEAL", ep, r, v)

\* A beacon needs a quorum of reveals (make_beacon) or, as the fallback, of
\* commitments (make_fallback_beacon); reveals are committed, so the second is
\* the weaker condition.
HasBeacon(r) == StakeOf(In(commitments, r)) >= SnapshotThreshold

\* Mutant: a finalised round may be finalised again.
MayFinalizeAgain(r, reward) ==
    /\ In(commitments, r) # {} /\ In(commitments, r) \subseteq Snapshot
    /\ ledger.balances[Treasury] >= reward * Cardinality(In(reveals, r))
    /\ HasBeacon(r)

\* What finalize and settle_round check before they change anything.
MayFinalize(r, reward) ==
    /\ <<epoch, r>> \notin settled
    /\ In(commitments, r) # {} /\ In(commitments, r) \subseteq Snapshot
    /\ ledger.balances[Treasury] >= reward * Cardinality(In(reveals, r))
    /\ HasBeacon(r)

Silent(r, penalty) == IF penalty > 0 THEN In(commitments, r) \ In(reveals, r) ELSE {}

\* Those penalised, in order of their identifiers, before the first failure.
Punished(r, penalty) ==
    {v \in Silent(r, penalty) : \A w \in Silent(r, penalty) :
        w <= v => MaySlash(ledger, w, penalty, NonReveal(epoch, r, w))}

\* The ledger after settle_round: penalties, then rewards.  A failure stops the
\* settlement where it is.
SettleRound(r, reward, penalty) ==
    LET revealed == In(reveals, r)
        total    == reward * Cardinality(revealed)
        fined    == AfterSlash(ledger, penalty, epoch,
                               [v \in Punished(r, penalty) |-> NonReveal(epoch, r, v)])
    IN  IF /\ Punished(r, penalty) = Silent(r, penalty)
           /\ MayReward(fined, RewardKey(epoch, r), total, revealed)
        THEN AfterReward(fined, RewardKey(epoch, r), total, revealed)
        ELSE fined

\* penalize_non_reveal follows each penalty of the ledger.
PenalizeNonReveal(r, penalty) ==
    [v \in DOMAIN records |->
        IF v \in Punished(r, penalty) THEN Reduced(records[v], penalty, records[v].active)
                                      ELSE records[v]]

\* settle_round returns: everyone silent is penalised, and rewards, if any are
\* due, have been paid.
Returns(r, reward, penalty) ==
    /\ Punished(r, penalty) = Silent(r, penalty)
    /\ \/ reward * Cardinality(In(reveals, r)) = 0
       \/ RewardKey(epoch, r) \in SettleRound(r, reward, penalty).epochs \ ledger.epochs

Finalize(r, reward, penalty) ==
    /\ MayFinalize(r, reward)
    /\ ledger' = SettleRound(r, reward, penalty)
    /\ records' = PenalizeNonReveal(r, penalty)
    /\ settled' = settled \cup (IF Returns(r, reward, penalty) THEN {<<epoch, r>>} ELSE {})
    /\ UNCHANGED <<deposits, slashed, epoch, commitments, reveals>>

\* With no penalty given, slash takes the whole stake of the record.
Penalties(v) == PartialPenalty \cup {records[v].stake}

Next ==
    \/ \E v \in Validator : Admit(v) \/ Exit(v) \/ Withdraw(v)
    \/ \E c \in {d \in Claim : d[1] \in DOMAIN records} :
         \E amount \in Penalties(c[1]) :
             Slash(c[1], c[2], c[3], amount) \/ SlashFromFuture(c[1], c[2], c[3], amount)
    \/ AdvanceEpoch
    \/ \E d \in Donation : FundAccount(d)
    \/ \E f \in Fee : ChargeFee(f)
    \/ \E v \in Validator, r \in Round : SubmitCommitment(v, r)
    \/ \E c \in commitments : SubmitReveal(c)
    \/ \E r \in Round, reward \in Reward, penalty \in RevealPenalty :
         Finalize(r, reward, penalty)

Spec == Init /\ [][Next]_vars

-----------------------------------------------------------------------------
(***************************************************************************)
(* Properties                                                              *)
(***************************************************************************)

\* Every value has its type; in particular no balance, bond or stake ever
\* becomes negative (_debit, the cap on penalties, audit).
TypeOK ==
    /\ ledger.balances \in [Account -> Nat]
    /\ DOMAIN ledger.bonds \subseteq Validator
    /\ \A v \in DOMAIN ledger.bonds : ledger.bonds[v] \in Position
    /\ DOMAIN records \subseteq Validator
    /\ \A v \in DOMAIN records : records[v] \in Record
    /\ deposits \subseteq Validator
    /\ slashed \subseteq ledger.evidence
    /\ epoch \in 0 .. MaxEpoch
    /\ commitments \subseteq (0 .. MaxEpoch) \X Round \X Validator
    /\ reveals \subseteq commitments
    /\ settled \subseteq (0 .. MaxEpoch) \X Round

Entries(kind, v) == {e \in ledger.events : e[1] = kind /\ e[3] = v}

Amounts(events) == SumFunction([e \in events |-> e[4]])

\* Money neither appears nor disappears: balances and bonds together are what
\* was paid in, whatever slashes, fees, rewards and withdrawals did with it and
\* wherever a settlement stopped (economics.py: "enforces conservation").
Conservation ==
    SumFunction(ledger.balances)
        + SumFunction([v \in DOMAIN ledger.bonds |-> ledger.bonds[v].amount])
      = Amounts({e \in ledger.events : e[1] = "FUND"})

\* What is missing from a bond, or was withheld when it was paid out, is the sum
\* of its slash events: no evidence is settled twice, no penalty is lost, and
\* withdraw pays net of penalties.
SlashesAccounted ==
    \A v \in deposits :
        LET taken == Amounts(Entries("SLASH", v))
        IN  IF v \in DOMAIN ledger.bonds
            THEN ledger.bonds[v].amount + taken = Stake[v]
            ELSE Amounts(Entries("WITHDRAW", v)) + taken = Stake[v]

\* A bond is paid out only withdrawal_delay epochs after its owner asked to
\* leave, and not before its own unlock epoch (request_unbond, withdraw).
WithdrawalIsDelayed ==
    \A v \in deposits : \A w \in Entries("WITHDRAW", v) :
        /\ w[2] >= Unlock[v]
        /\ \E u \in Entries("UNBOND_REQUEST", v) : u[2] + WithdrawalDelay <= w[2]

=============================================================================
