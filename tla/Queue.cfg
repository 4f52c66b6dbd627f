\* Safety of the queue in the four scopes.
SPECIFICATION QueueSpec
CONSTANTS
    r1 = r1
    r2 = r2
    x = x
    k1 = k1
    k2 = k2
    t1 = t1
    None = None
    Actors <- TwoActors
    Submitted = {"settled", "inapplicable"}
    Declaring = {k2}
    Contracts <- TwoContracts
    Channels <- OneChannel
    Keys <- OneKey
    MaxHandles = 3
    MaxTime = 1
CONSTRAINT InScope
INVARIANTS DecisionsWhole NothingOwedReleased DerivedExact
PROPERTIES RoutedToLiving PromiseKept
CHECK_DEADLOCK FALSE
