SPECIFICATION FairSpec
CONSTANTS
    Rows <- MCRows
    Kind <- MCKind
    TenantOf <- MCTenantOf
    NumTenants = 2
    Batch = 2
    Publishers = {p1, p2}
    NoOwner = NoOwner
    MaxFaults = 1
INVARIANTS
    IncidentBeforePublish
    PublishedBeforeMark
PROPERTIES
    UnblockedRowConsumed
