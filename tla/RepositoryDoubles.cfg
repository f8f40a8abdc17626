SPECIFICATION Spec
CONSTANTS
    Null = Null
    t1 = t1
    t2 = t2
    k1 = k1
    k2 = k2
    Lease = 1
    Families <- MCFamilies
    Tenants <- MCTenants
    Keys <- MCKeys
    Entities <- MCEntities
    Observations <- MCObservations
    Samples <- MCSamples
    Signals <- MCSignals
    Requests <- MCRequests
    Owners = {"w1", "w2"}
    Settings <- MCSettings
    MaxCalls <- MCMaxCalls
    MaxTime = 1
INVARIANTS
    DoublesAgree
CHECK_DEADLOCK FALSE
