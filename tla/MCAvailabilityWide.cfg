SPECIFICATION Spec
CONSTANTS
    DataShards = 5
    ParityShards = 4
    Provider = {p1}
    Object <- OneObject
    Payload <- OnePayload
    Offered <- CorrectOffers
    RepairRequests <- NoRepairs
INVARIANT AnyDataShardsRecover
