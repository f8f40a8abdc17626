SPECIFICATION FairSpec
CONSTANTS
    Workers <- MCWorkers
    Callbacks <- MCCallbacks
    CallbackTypes = {"progress", "completed", "failed"}
    StepCount = 2
    MaxDeliver = 2
    MaxFaults = 1
INVARIANTS
    OutcomeIsEarned
    AckedIsAnnounced
PROPERTIES
    RequestIsSettled
