SPECIFICATION Spec
CONSTANTS
    Member <- TwoMembers
    Weight <- TwoWeights
    MaxWeight = 2
    Resource <- OneResource
    Capsule <- Rivals
    Pred <- RivalPred
    Attempt <- RivalAttempt
    WellFormed <- Rivals
    ResourceOf <- RivalResource
    Version <- RivalVersion
    None = None
    Faulty <- Nothing
    Unstable <- OnlyM2
    Stray <- Nothing
    SubmittedAt <- RivalClients
    MaxPending = 2
    Redelivery = TRUE
INVARIANTS ClosureExclusivity RepliesAreDurable
 
