SPECIFICATION Spec
CONSTANTS
    Member <- OneMember
    Weight <- OneWeight
    MaxWeight = 1
    Resource <- OneResource
    Capsule <- Capsules
    Pred <- Preds
    Attempt <- Attempts
    WellFormed <- Capsules
    ResourceOf <- SealResource
    Version <- SealVersion
    None = None
    Key <- OneKey
    Text = Text
    Absent = Absent
    Tx <- Transactions
    Batch <- Batches
    MaxInstructions = 2
    Genesis <- GenesisRoot
    SuccessorRoot <- Roots
    RuleWitness <- Witnesses
INVARIANTS TypeOK NoncesCountSuccesses ReceiptsFormAChain ExecutorMatchesSeal
PROPERTY ReceiptsAreFinal
