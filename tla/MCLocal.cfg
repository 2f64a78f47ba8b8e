SPECIFICATION Spec
CONSTANTS
    Member = {m1, m2}
    Weight <- EqualWeights
    MaxWeight = 1
    Resource <- Resources
    Capsule <- Capsules
    Pred <- Preds
    Attempt <- Attempts
    WellFormed <- Capsules
    ResourceOf <- SealResource
    Version <- SealVersion
    None = None
    Bundle <- Joint
INVARIANTS ExclusivePerAttempt LinearHistory
PROPERTIES ClosedIsFinal LocksAdvance
SYMMETRY Interchangeable
