SPECIFICATION FairSpec
CONSTANTS
    Workers <- MCWorkers
    MaxFaults = 1
CHECK_DEADLOCK FALSE
PROPERTIES
    PromotionNotStuck
