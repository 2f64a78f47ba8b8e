SPECIFICATION Spec
CONSTANTS
    Member <- ThreeMembers
    Weight <- HeavyFirst
    MaxWeight = 2
    Resource <- OneResource
    Capsule <- Rivals
    Pred <- RivalPred
    Attempt <- RivalAttempt
    WellFormed <- Rivals
    ResourceOf <- RivalResource
    Version <- RivalVersion
    None = None
    Faulty <- Nothing
    Unstable <- OnlyM1
    Stray <- Nothing
    SubmittedAt <- RivalClients
    MaxPending = 2
    Redelivery = FALSE
INVARIANT ClosureExclusivity
CHECK_DEADLOCK FALSE
