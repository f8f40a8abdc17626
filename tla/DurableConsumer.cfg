SPECIFICATION FairSpec
CONSTANTS
    Messages <- MCMessages
    Workers <- MCWorkers
    MaxDeliver = 2
    MaxAckPending = 2
    MaxFaults = 1
CHECK_DEADLOCK FALSE
INVARIANTS
    DoneIsAccountedFor
    LossAndReplayNeedFaults
PROPERTIES
    EveryMessageSettled
