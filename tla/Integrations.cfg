SPECIFICATION Spec
SYMMETRY Interchangeable
CONSTANTS
    r1 = r1
    r2 = r2
    r3 = r3
    t1 = t1
    t2 = t2
    c1 = c1
    c2 = c2
    k1 = k1
    k2 = k2
    k3 = k3
    l1 = l1
    l2 = l2
    l3 = l3
    o1 = o1
    o2 = o2
    acme = acme
    i1 = i1
    i2 = i2
    w1 = w1
    w2 = w2
    b1 = b1
    p1 = p1
    p2 = p2
    x1 = x1
    x2 = x2
    Runs <- MCRuns
    TenantOf <- MCTenantOf
    NameOf <- MCNameOf
    SecretKeys <- MCSecretKeys
    Environments <- MCEnvironments
    MaxRunFaults = 1
    MaxEdits = 1
    Callers <- MCCallers
    Tokens <- MCTokens
    NoToken = NoToken
    Leases = {1, 7, 8}
    MaxVaultFaults = 1
    LlmCalls <- MCLlmCalls
    Retries = 1
    MaxBatchSize = 2
    MaxLogFaults = 1
    Issues <- MCIssues
    CompanyTenant <- MCCompanyTenant
    Unnamed <- MCUnnamed
    Replicas <- MCReplicas
    Bootstraps <- MCBootstraps
    NoCompany = NoCompany
    MaxRunIds = 3
    MaxMoves = 1
    MaxBeatFaults = 1
INVARIANTS
    WorkIsHandedOverOnce
    ProvisionedIsComplete
    FailedRunHasCause
    SecretFailureHasCause
    OneRowPerCall
CHECK_DEADLOCK FALSE
