SPECIFICATION FairSpec
CONSTANTS
    Calls = {c1, c2}
    NoCall = NoCall
    Configurations <- MCLists
    Requests <- MCRequests
    Kinds <- MCKinds
    CapabilityOf <- MCCapabilityOf
    CuratedCapability <- MCCurated
    ReadCommands <- MCReads
    DestructiveCommands <- MCDestructive
    Ops <- MCOps
    DeleteOps <- MCDeleteOps
INVARIANTS
    TypeOK
    DeleteHadConsent
    RefusalSendsNothing
    NamesakeReached
PROPERTIES
    CallsEnd
    
CHECK_DEADLOCK FALSE
