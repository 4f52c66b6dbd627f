\* Two founders and a child, one tranche: calls of two holds, or growing families.
SPECIFICATION BudgetSpec
CONSTANTS
    a = a
    b = b
    c = c
    Seats <- MCSeats
    Genesis <- MCGenesis
    BaseNum = 1
    BaseDen = 1
    Trials = {1}
    Initial = 5
    Floor = 0
    Multiple = 2
    NTranches = 1
    LockedAfter <- MCLockedAfter
    ReleaseAt <- MCReleaseAt
    DripAmount = 0
    DripStart = 0
    DripEnd = 0
    DripPeriod = 1
    ShareNum = 1
    ShareDen = 2
    AccrualDen = 1
    Cheapest = 1
    Amounts = {1}
    Deltas = {1}
    MaxHolds = 2
    MaxTime = 0
    MaxMoney = 5
    MaxLoss = 0
    MaxReport = 2
CONSTRAINT InScope
INVARIANTS SeatNeverOverdrawn NothingMinted RetiredStaysEmpty
PROPERTIES PoolRefilledFirst EqualLineageShares
CHECK_DEADLOCK FALSE
