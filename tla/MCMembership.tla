---------------------------- MODULE MCMembership ----------------------------
(***************************************************************************)
(* Instances of Membership: two validators whose joint stake is needed for *)
(* a beacon, one round per epoch.                                          *)
(***************************************************************************)
EXTENDS Onboarding, TLC

Validators == {1, 2}
Stakes == 1 :> 2 @@ 2 :> 1
Unlocks == 1 :> 0 @@ 2 :> 1
Balances == 1 :> 2 @@ 2 :> 2 @@ Treasury :> 2
RequestEpochs == 1 :> 0 @@ 2 :> 1
Donations == {<<Treasury, 1, "grant">>}
Fees == {<<2, 1, "tx">>}
Claims == {<<1, 0, 1>>, <<1, 0, 2>>, <<2, 1, 1>>}

=============================================================================
