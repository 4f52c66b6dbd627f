\* Two tranches, two holds, four windows: bills, overruns, venue losses, protection, death.
SPECIFICATION FairSpec
CONSTANTS
    Initial = 3
    Floor = 0
    Multiple = 2
    NTranches = 2
    LockedAfter <- MCLockedAfter
    ReleaseAt <- MCReleaseAt
    DripAmount = 1
    DripStart = 2
    DripEnd = 3
    DripPeriod = 1
    ShareNum = 1
    ShareDen = 2
    AccrualDen = 2
    Cheapest = 1
    Amounts = {1, 2}
    Deltas <- Losses
    MaxHolds = 2
    MaxTime = 2
    MaxMoney = 3
    MaxLoss = 2
    MaxReport = 3
INVARIANTS Conservation EscrowBacked BooksReconcile
PROPERTIES DeathDecidedOnce DeathEndsWorld DormancyEnds
CHECK_DEADLOCK FALSE
