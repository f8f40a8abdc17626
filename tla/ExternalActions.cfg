SPECIFICATION FairSpec
CONSTANTS
    Actions <- MCActions
    Publishers <- MCPublishers
    NoOwner = NoOwner
    MaxFaults = 2
INVARIANTS
    NoStrandedAction
    FailureHasIncident
    OneOutcome
    LedgerFollowsAttempts
PROPERTIES
    ImplementsContract
    EveryRowConsumed
