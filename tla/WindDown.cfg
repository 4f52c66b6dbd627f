SPECIFICATION Spec
CHECK_DEADLOCK FALSE
CONSTANTS
    Accounts <- MCAccounts
    Dust = 1
    Minimum = 2
    Rounds = 2
    MaxCrashes = 1
    MaxRefusals = 2
CONSTRAINT InScope
INVARIANTS FlatIsFlat SentOnce OwedIsRetried
