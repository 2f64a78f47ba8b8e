SPECIFICATION FairSpec
CONSTANTS
    Member <- TwoMembers
    Weight <- TwoWeights
    MaxWeight = 2
    Resource <- OneResource
    Capsule <- Chain
    Pred <- ChainPred
    Attempt <- ChainAttempt
    WellFormed <- Chain
    ResourceOf <- ChainResource
    Version <- ChainVersion
    None = None
    Faulty <- Nothing
    Unstable <- Nothing
    Stray <- Broadcasts
    SubmittedAt <- Nothing
    MaxPending = 1
    Redelivery = FALSE
PROPERTY EveryCapsuleCloses
CHECK_DEADLOCK FALSE
