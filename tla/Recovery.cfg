SPECIFICATION FairSpec
CONSTANTS
    Plans <- MCPlans
    MaxCalls = 2
    MaxEvents = 2
    MaxCrashes = 2
INVARIANTS SubmittedOnce OnlyUnsettledStops
PROPERTIES AgreesWithWorld EveryCallAnswered
CHECK_DEADLOCK FALSE
