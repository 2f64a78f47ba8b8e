SPECIFICATION SpecAny
CONSTANTS
    Validator <- Validators
    Treasury = Treasury
    Stake <- Stakes
    Unlock <- Unlocks
    Genesis <- Balances
    WithdrawalDelay = 1
    Requested <- RequestEpochs
    PartialPenalty = {}
    Claim <- Claims
    Round = {0}
    Reward = {0, 1}
    RevealPenalty = {1}
    Donation <- Donations
    Fee <- Fees
    MaxEpoch = 1
    GenesisValidator = {1}
    MaxRestarts = 2
INVARIANTS TypeOK Conservation SlashesAccounted  EarningsAccounted RewardOrPenalty 
CHECK_DEADLOCK FALSE
