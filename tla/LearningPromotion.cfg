SPECIFICATION FairSpec
CONSTANTS
    Workers <- MCWorkers
    MaxFaults = 2
CHECK_DEADLOCK FALSE
INVARIANTS
    VersionNeedsApproval
    PromotedIsPublished
    ExtraVersionsNeedOverruns
PROPERTIES
    ApprovedIsDecided
