----------------------------- MODULE Onboarding -----------------------------
(***************************************************************************)
(* Membership with and without a durable store.  Without one the objects   *)
(* are driven by the program that embeds them (Membership!Next).  With one *)
(* they belong to a node (mosaic/daemon.py): validators come in through    *)
(* AdmissionCoordinator (mosaic/onboarding.py) and the node's ADMISSION    *)
(* and BEACON handlers, the ledger and the admissions are written to the   *)
(* store, and a crash, also between the two writes of an admission, sends  *)
(* the node through load_node and restore_from_store again.  What the node *)
(* never calls (exit, slash, withdraw, fees, epochs) is no step of it.     *)
(***************************************************************************)
EXTENDS Membership

CONSTANTS
    GenesisValidator,  \* validators of genesis_admissions
    MaxRestarts        \* bound on the restarts explored

ASSUME OnboardingAssumption ==
    /\ GenesisValidator \subseteq Validator
    /\ \A v \in GenesisValidator : Genesis[v] >= Stake[v]
    /\ MaxRestarts \in Nat

VARIABLES
    store,     \* the row of the ledger and the rows of kind onboarding
    restarts   \* how often the node was restarted

allVars == <<vars, store, restarts>>

-----------------------------------------------------------------------------
\* No store is bound to the coordinators.
NoStore == <<>>

\* load_node: genesis validators whose bond the ledger has are restored, the
\* others are admitted and bonded.
WithGenesisBonds(l) == AfterBond(l, GenesisValidator \ DOMAIN l.bonds, 0)

\* Mutant: the rewarded rounds are not read back.
LoadedForgetful(l, rows) ==
    /\ ledger' = [WithGenesisBonds(l) EXCEPT !.epochs = {}]
    /\ records' = [v \in GenesisValidator \cup rows |-> NewRecord(v)]
    /\ deposits' = GenesisValidator \cup rows
    /\ slashed' = {} /\ epoch' = 0
    /\ commitments' = {} /\ reveals' = {} /\ settled' = {}
    /\ store' = [ledger |-> ledger', rows |-> rows]

(***************************************************************************)
(* load_node and restore_from_store on a ledger and admission rows.  The   *)
(* membership starts again at epoch 0 with the full stake of every         *)
(* admission, and the beacon rounds are forgotten.                         *)
(***************************************************************************)
Loaded(l, rows) ==
    /\ ledger' = WithGenesisBonds(l)
    /\ records' = [v \in GenesisValidator \cup rows |-> NewRecord(v)]
    /\ deposits' = GenesisValidator \cup rows
    /\ slashed' = {} /\ epoch' = 0
    /\ commitments' = {} /\ reveals' = {} /\ settled' = {}
    /\ store' = [ledger |-> WithGenesisBonds(l), rows |-> rows]

InitNode ==
    LET l == WithGenesisBonds(GenesisLedger(Genesis))
    IN  /\ ledger = l
        /\ records = [v \in GenesisValidator |-> NewRecord(v)]
        /\ deposits = GenesisValidator
        /\ slashed = {} /\ epoch = 0
        /\ commitments = {} /\ reveals = {} /\ settled = {}
        /\ store = [ledger |-> l, rows |-> {}]

InitAny ==
    /\ (Init /\ store = NoStore) \/ InitNode
    /\ restarts = 0

-----------------------------------------------------------------------------
\* AdmissionCoordinator.admit with its two writes, called by _admit.
Onboard(v) ==
    /\ Admit(v)
    /\ store' = [ledger |-> ledger', rows |-> store.rows \cup {v}]
    /\ UNCHANGED restarts

\* Mutant: the admission is written before the ledger.
CrashInOnboardRowFirst(v) ==
    /\ v \notin deposits /\ Requested[v] >= epoch
    /\ MayBond(ledger, v)
    /\ Loaded(store.ledger, store.rows \cup {v})
    /\ restarts' = restarts + 1

\* The node dies after the ledger was written and before the admission was.
CrashInOnboard(v) ==
    /\ v \notin deposits /\ Requested[v] >= epoch
    /\ MayBond(ledger, v)
    /\ Loaded(AfterBond(ledger, {v}, epoch), store.rows)
    /\ restarts' = restarts + 1

OnCommit(v, r) == SubmitCommitment(v, r) /\ UNCHANGED <<store, restarts>>

OnReveal(c) == SubmitReveal(c) /\ UNCHANGED <<store, restarts>>

\* finalize writes the ledger when settle_round returns.
OnFinalize(r, reward, penalty) ==
    /\ Finalize(r, reward, penalty)
    /\ store' = IF Returns(r, reward, penalty) THEN [store EXCEPT !.ledger = ledger'] ELSE store
    /\ UNCHANGED restarts

Restart == Loaded(store.ledger, store.rows) /\ restarts' = restarts + 1

NodeNext ==
    \/ \E v \in Validator : Onboard(v) \/ (restarts < MaxRestarts /\ CrashInOnboard(v))
    \/ \E v \in Validator, r \in Round : OnCommit(v, r)
    \/ \E c \in commitments : OnReveal(c)
    \/ \E r \in Round, reward \in Reward, penalty \in RevealPenalty :
         OnFinalize(r, reward, penalty)
    \/ restarts < MaxRestarts /\ Restart

NextAny ==
    \/ store = NoStore /\ Next /\ UNCHANGED <<store, restarts>>
    \/ store # NoStore /\ NodeNext

SpecAny == InitAny /\ [][NextAny]_allVars

-----------------------------------------------------------------------------
(***************************************************************************)
(* Bonds and votes belong together.  No bond exceeds the stake its         *)
(* validator votes with (slash, penalize_non_reveal tell the ledger), and  *)
(* a bond without a validator is one whose admission a crash interrupted.  *)
(* On a node nobody votes without a bond: the ledger is written before the *)
(* admission that restore_admission trusts, and an admission that was      *)
(* answered survives every restart.                                        *)
(***************************************************************************)
BondsBackVotes ==
    /\ \A v \in DOMAIN ledger.bonds :
          IF v \in DOMAIN records THEN ledger.bonds[v].amount <= records[v].stake
          ELSE restarts > 0 /\ v \notin store.rows
    /\ store # NoStore =>
          /\ DOMAIN records = GenesisValidator \cup store.rows
          /\ DOMAIN records \subseteq DOMAIN ledger.bonds \cap DOMAIN store.ledger.bonds

(***************************************************************************)
(* Until a restart, which forgets what was settled, nobody is both         *)
(* rewarded and penalised for one round: a settlement that was repeated,   *)
(* or a reveal that came late, pays and fines each validator once          *)
(* (finalize, settle_round).                                               *)
(***************************************************************************)
RewardOrPenalty ==
    restarts = 0 =>
        \A ep \in 0 .. MaxEpoch, r \in Round, v \in Validator :
            ~ /\ NonReveal(ep, r, v) \in ledger.evidence
              /\ \E e \in Entries("REWARD", v) : e[2] = RewardKey(ep, r)

(***************************************************************************)
(* Restarts pay no round twice: the coordinator forgets that a round was   *)
(* settled, the ledger does not, so what a validator of a node has earned  *)
(* is what its REWARD events say, each counted once (distribute_rewards,   *)
(* from_store).                                                            *)
(***************************************************************************)
EarningsAccounted ==
    store # NoStore =>
        \A v \in Validator :
            ledger.balances[v] + Amounts(Entries("BOND", v))
                = Amounts(Entries("FUND", v)) + Amounts(Entries("REWARD", v))

=============================================================================
