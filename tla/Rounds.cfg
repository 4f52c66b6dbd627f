\* Two decisions and a self-request, over three windows.
SPECIFICATION RoundsFairSpec
CONSTANTS
    r1 = r1
    r2 = r2
    x = x
    noop = noop
    p = p
    j = j
    None = None
    Actors <- TwoRouters
    Contracts <- Arms
    Declaring <- Woken
    Judges <- TheJudge
    Noop = noop
    Channels <- OneChannel
    Keys = {}
    Submitted = {"settled", "censored", "inapplicable"}
    MaxHandles = 2
    MaxTime = 4
    Counted = {0}
    Span = 1
    VerdictTimeout = 0
    Patience = 1
    MinRatio = 1
    Horizon = 1
    OpenBy = 0
    CloseBy = 4
    MaxWindow = 2
CONSTRAINT InScope
ACTION_CONSTRAINT OnTicks
INVARIANTS LearnedAlike ClosedByDeadline ReleaseLosesNothing
PROPERTY EveryDecisionCloses
CHECK_DEADLOCK FALSE
