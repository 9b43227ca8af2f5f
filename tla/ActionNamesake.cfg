SPECIFICATION Spec
CONSTANTS
    Calls = {c1, c2}
    NoCall = NoCall
    Configurations <- MCExtraFirst
    Requests <- MCRequests
    Kinds <- MCKinds
    CapabilityOf <- MCCapabilityOf
    CuratedCapability <- MCCurated
    ReadCommands <- MCReads
    DestructiveCommands <- MCDestructive
    Ops <- MCOps
    DeleteOps <- MCDeleteOps
INVARIANT NameReachesItsService
CHECK_DEADLOCK FALSE
