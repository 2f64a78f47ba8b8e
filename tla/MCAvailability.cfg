SPECIFICATION Spec
CONSTANTS
    DataShards = 3
    ParityShards = 2
    Provider = {p1, p2}
    Object <- OneObject
    Payload <- TwoPayloads
    Offered <- MixedOffers
    RepairRequests <- SomeRepairs
INVARIANTS TypeOK ServedIsDurable AnyDataShardsRecover 
PROPERTY ContentIsFinal
SYMMETRY Symmetry
