SPECIFICATION PipelineFairSpec
CONSTANTS
    Requests <- MCRequests
    Experiments = {"x1"}
    NoExperiment = "none"
    Workers = {w1, w2}
    MaxOpps = 2
    MaxDeliver = 2
    MaxFaults = 1
INVARIANTS
    OneTraceableArtifact
    ExperimentKept
    AckedMeansProduced
PROPERTIES
    AcknowledgedOrDeadLettered
CHECK_DEADLOCK FALSE
