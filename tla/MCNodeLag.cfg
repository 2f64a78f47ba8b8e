SPECIFICATION Spec
CONSTANTS
    Member <- TwoMembers
    Weight <- Leading
    MaxWeight = 3
    Resource <- OneResource
    Capsule <- Long
    Pred <- LongPred
    Attempt <- LongAttempt
    WellFormed <- Long
    ResourceOf <- LongResource
    Version <- LongVersion
    None = None
    Faulty <- OnlyM1
    Unstable <- OnlyM2
    Stray <- FromM1
    SubmittedAt <- ClientsAtM2
    MaxPending = 1
    Redelivery = TRUE
INVARIANT KnownSealsAreClosed
PROPERTY SealsAdvance
