SPECIFICATION FairSpec
CONSTANTS
    r1 = r1
    r2 = r2
    a1 = a1
    d1 = d1
    f1 = f1
    w1 = w1
    NoOne = NoOne
    Runs <- TwoRuns
    Asks <- OneAsk
    Removals <- OneRemoval
    FollowUps <- OneProbe
    Windows <- OneWindow
    Brief <- ProbeAndCopy
INVARIANTS
    LabelNamesHolder
    WantedCountsWaiters
    PolledIsTold
PROPERTIES
    OneInside
    RunGetsIn
    AskIsAnswered
