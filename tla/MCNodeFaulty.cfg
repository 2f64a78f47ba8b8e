SPECIFICATION Spec
CONSTANTS
    Member <- ThreeMembers
    Weight <- HeavyFirst
    MaxWeight = 2
    Resource <- OneResource
    Capsule <- Rivals
    Pred <- RivalPred
    Attempt <- RivalAttempt
    WellFormed <- Rivals
    ResourceOf <- RivalResource
    Version <- RivalVersion
    None = None
    Faulty <- OnlyM3
    Unstable <- Nothing
    Stray <- Equivocation
    SubmittedAt <- RivalClients
    MaxPending = 2
    Redelivery = TRUE
INVARIANTS TypeOK LockDiscipline ClosureExclusivity 
