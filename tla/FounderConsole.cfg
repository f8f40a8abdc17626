SPECIFICATION ConsoleSpec
SYMMETRY Interchangeable
CONSTANTS
    p1 = p1
    p2 = p2
    i1 = i1
    i2 = i2
    c1 = c1
    c2 = c2
    k1 = k1
    k2 = k2
    Null = Null
    Calls <- MCCalls
    Setups <- MCSetups
    Sessions <- MCSessions
    DecisionActions <- MCActions
    Issues <- MCIssues
    Components <- MCComponents
    Keys <- MCKeys
    Profiles <- MCProfiles
    Limit = 1
    DecisionScan = 2
    OutboxScan = 2
    HealthLimit = 2
    MaxAttempts = 2
    MaxPatches = 2
    MaxScores = 1
    MaxSamples = 2
    MaxConsoleFaults = 1
INVARIANTS
    ExtraDecisionsWereResent
    LostPatchNeedsOverlap
PROPERTIES
    QueueShowsPending
    SummaryFlagsItsGaps
    DigestGapsNeedFaults
CHECK_DEADLOCK FALSE
