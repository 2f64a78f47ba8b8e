----------------------------- MODULE Settlement -----------------------------
(***************************************************************************)
(* SettlementLedger of mosaic/economics.py as a record, and its methods as *)
(* functions on it: May...(l, ...) says that a call gets past its checks,  *)
(* After...(l, ...) is the ledger it leaves.  Methods change balances and  *)
(* bonds before their last check, so After... also describes calls that    *)
(* raise half-way: a duplicate event is refused after the money has moved, *)
(* and adding it again to the set of events changes nothing.               *)
(*                                                                         *)
(* A validator stands for its key, for the account of that key and for the *)
(* one bond it signs.  Identifiers are numbers because the code sorts      *)
(* them.  No caller in the repository passes a reporter to slash or a      *)
(* weight other than 1 to distribute_rewards, so neither is a parameter.   *)
(***************************************************************************)
EXTENDS Integers, FiniteSets, FiniteSetsExt, Functions

CONSTANTS
    Validator,   \* identifiers of validators, accounts and bonds
    Treasury,    \* the treasury account
    Stake,       \* Stake[v]: amount of the bond and stake of the request of v
    Unlock       \* Unlock[v]: unlock_epoch of the bond of v

Account == Validator \cup {Treasury}

ASSUME SettlementAssumption ==
    /\ Validator \subseteq Nat /\ IsFiniteSet(Validator)
    /\ Treasury \notin Validator
    /\ Stake \in [Validator -> Nat \ {0}]
    /\ Unlock \in [Validator -> Nat]

Position == [amount : Nat, unlock : Nat, active : BOOLEAN, unbonding : BOOLEAN]

Least(m, n) == IF m < n THEN m ELSE n

Greatest(m, n) == IF m < n THEN n ELSE m

\* The identifier of an event is the digest of its content.
Event(kind, epoch, account, amount, related) == <<kind, epoch, account, amount, related>>

Log(l, new) == [l EXCEPT !.events = @ \cup new]

\* load_node funds the genesis balances of a new ledger.
GenesisLedger(genesis) ==
    [balances |-> genesis, bonds |-> <<>>, evidence |-> {}, epochs |-> {},
     events |-> {Event("FUND", 0, a, genesis[a], <<"genesis", a>>) :
                     a \in {b \in Account : genesis[b] > 0}}]

FundEvent(a, n, source) == Event("FUND", 0, a, n, <<source, a>>)

MayFund(l, a, n, source) == n > 0 /\ FundEvent(a, n, source) \notin l.events

AfterFund(l, a, n, source) ==
    Log([l EXCEPT !.balances[a] = @ + n], {FundEvent(a, n, source)})

MayBond(l, v) == v \notin DOMAIN l.bonds /\ l.balances[v] >= Stake[v]

NewPosition(v) == [amount |-> Stake[v], unlock |-> Unlock[v], active |-> TRUE, unbonding |-> FALSE]

\* Bonds the validators in S, one after the other; each pays from its own account.
AfterBond(l, S, epoch) ==
    Log([l EXCEPT
           !.balances = [a \in DOMAIN @ |-> IF a \in S THEN @[a] - Stake[a] ELSE @[a]],
           !.bonds = [v \in DOMAIN @ \cup S |-> IF v \in S THEN NewPosition(v) ELSE @[v]]],
        {Event("BOND", epoch, v, Stake[v], v) : v \in S})

MayUnbond(l, v) ==
    v \in DOMAIN l.bonds /\ l.bonds[v].active /\ ~l.bonds[v].unbonding

\* Mutant: the bond keeps its own unlock epoch.
AfterUnbondAtOnce(l, v, epoch, delay) ==
    Log([l EXCEPT !.bonds[v] = [@ EXCEPT !.active = FALSE, !.unbonding = TRUE]],
        {Event("UNBOND_REQUEST", epoch, v, 0, v)})

AfterUnbond(l, v, epoch, delay) ==
    Log([l EXCEPT !.bonds[v] = [@ EXCEPT !.unlock = Greatest(l.bonds[v].unlock, epoch + delay),
                                         !.active = FALSE, !.unbonding = TRUE]],
        {Event("UNBOND_REQUEST", epoch, v, 0, v)})

MayWithdraw(l, v, epoch) ==
    /\ v \in DOMAIN l.bonds
    /\ ~l.bonds[v].active /\ l.bonds[v].unbonding
    /\ epoch >= l.bonds[v].unlock

\* Mutant: pays what was bonded and not what is left of it.
AfterWithdrawGross(l, v, epoch) ==
    Log([l EXCEPT !.bonds = Restrict(@, DOMAIN @ \ {v}), !.balances[v] = @ + Stake[v]],
        {Event("WITHDRAW", epoch, v, Stake[v], v)})

AfterWithdraw(l, v, epoch) ==
    Log([l EXCEPT !.bonds = Restrict(@, DOMAIN @ \ {v}),
                  !.balances[v] = @ + l.bonds[v].amount],
        {Event("WITHDRAW", epoch, v, l.bonds[v].amount, v)})

MaySlash(l, v, amount, evidence) ==
    amount > 0 /\ evidence \notin l.evidence /\ v \in DOMAIN l.bonds

\* Mutant: a penalty may exceed the bond.
PenaltyUncapped(l, v, amount) == amount

Penalty(l, v, amount) == Least(amount, l.bonds[v].amount)

\* Slashes, one after the other, the bonds that proof has evidence against; they
\* are distinct, so the order does not matter.
AfterSlash(l, amount, epoch, proof) ==
    LET offenders == DOMAIN proof
        cut == [v \in offenders |-> Penalty(l, v, amount)]
    IN  Log([l EXCEPT
               !.bonds = [v \in DOMAIN @ |->
                   IF v \in offenders
                   THEN [l.bonds[v] EXCEPT
                           !.amount = l.bonds[v].amount - cut[v],
                           !.active = l.bonds[v].active /\ l.bonds[v].amount > cut[v]]
                   ELSE l.bonds[v]],
               !.balances[Treasury] = @ + SumFunction(cut),
               !.evidence = @ \cup {proof[v] : v \in offenders}],
            {Event("SLASH", epoch, v, cut[v], proof[v]) : v \in offenders})

MayChargeFee(l, payer, amount) == amount > 0 /\ l.balances[payer] >= amount

AfterFee(l, payer, amount, epoch, tx) ==
    Log([l EXCEPT !.balances[payer] = @ - amount, !.balances[Treasury] = @ + amount],
        {Event("FEE", epoch, payer, amount, tx)})

\* distribute_rewards divides total among bonds in the order of their
\* identifiers; the last one gets what is left.
MayReward(l, key, total, bonds) ==
    /\ key \notin l.epochs
    /\ total > 0 /\ bonds # {}
    /\ l.balances[Treasury] >= total

\* Mutant: the total is not divided.
ShareUndivided(total, bonds, v) == total

Share(total, bonds, v) ==
    LET each == total \div Cardinality(bonds)
    IN  IF v = Max(bonds) THEN total - each * (Cardinality(bonds) - 1) ELSE each

RewardEvent(key, total, bonds, v) == Event("REWARD", key, v, Share(total, bonds, v), v)

\* The loop pays v unless it stopped before: at a bond the ledger does not
\* have, or after a payment whose event exists already.
Paid(l, key, total, bonds) ==
    {v \in bonds : \A w \in bonds :
        /\ w <= v => w \in DOMAIN l.bonds
        /\ w < v  => RewardEvent(key, total, bonds, w) \notin l.events}

RewardsComplete(l, key, total, bonds) ==
    \A v \in bonds : /\ v \in DOMAIN l.bonds
                     /\ RewardEvent(key, total, bonds, v) \notin l.events

AfterReward(l, key, total, bonds) ==
    LET paid == Paid(l, key, total, bonds)
    IN  Log([l EXCEPT
               !.balances = [a \in Account |->
                   CASE a = Treasury -> @[a] - total
                     [] a \in paid   -> @[a] + Share(total, bonds, a)
                     [] OTHER        -> @[a]],
               !.epochs = IF RewardsComplete(l, key, total, bonds) THEN @ \cup {key} ELSE @],
            {RewardEvent(key, total, bonds, v) : v \in paid})

=============================================================================
