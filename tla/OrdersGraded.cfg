SPECIFICATION Spec
CHECK_DEADLOCK FALSE
CONSTANTS
    Returns <- GradedReturns
    OrderIds <- GradedOrderIds
    Plans <- GradedPlans
    Path <- MCPath
    Horizon = 10
    Fee = 1
    MaxTime = 2
    MaxPolls = 3
    Rounds = 1
INVARIANT GradedByFacts
