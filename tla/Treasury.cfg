SPECIFICATION FairSpec
CONSTANTS
    Tranche = 2
    FeeCeil = 1
    Initial = 5
    WindowCap = 4
    TotalCap = 4
    ForwardCap = 1
    ForwardFee = 1
    Wait = 1
    NamesNonce = FALSE
    LateDebits = TRUE
    MaxTransfers = 2
    MaxAuths = 3
    MaxWindow = 1
    MaxLoss = 1
INVARIANTS HoldsAccounted MoneyMovesHeld RealSpendBacked VeniceBounded
PROPERTIES NoSecondAuthorization SlotFrees
CHECK_DEADLOCK FALSE
