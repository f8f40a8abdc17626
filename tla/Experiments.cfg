SPECIFICATION Spec
CONSTANTS
    Calls = {c1, c2}
    Entities = {e1}
    Keys = {k1}
    None = None
    MaxMoves = 3
INVARIANTS
    LinkedObservationMatches
PROPERTIES
    StatusFollowsTable
    WinnerLostOnlyToReturn
SYMMETRY CallSymmetry
CHECK_DEADLOCK FALSE
