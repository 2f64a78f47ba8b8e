SPECIFICATION EitherSpec
CONSTANTS
    Member <- ThreeMembers
    Weight <- Weights
    MaxWeight = 2
    Object <- Objects
    Op <- Operations
    Inputs <- OperationInputs
    Signer <- Signers
    NewOwner <- Owners
    FirstOwner = "x"
    NoOp = NoOp
    DomainOf <- Domains
    Requested <- JoinRequests
    Leader = "l"
    Byzantine <- OnlyR2
    Workload <- Workloads
    Retried <- OnlyQ
INVARIANTS TypeOK  ReplicasAgree FinalityIsQuorum CertificatesExclude AccusedAreByzantine
     VersionsCountCommits OneHolder
CHECK_DEADLOCK FALSE
