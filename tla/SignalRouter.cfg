SPECIFICATION FairSpec
CONSTANTS
    Signals <- MCSignals
    KindOf <- MCKindOf
    LaneOf <- MCLaneOf
    NumLanes = 2
    Batch = 2
    Routers = {w1, w2}
    NoOwner = NoOwner
    MaxFaults = 2
INVARIANTS
    RoutedOnceUnlessFaults
PROPERTIES
    LeaseFencedFromOthers
    EverySignalProcessed
