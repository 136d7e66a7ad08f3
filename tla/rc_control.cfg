SPECIFICATION Spec
CONSTANTS
    first = first
    second = second
    x = x
    y = y
    Backups = {first, second}
    Items = {x, y}
    None = None
    Orders <- OneAtATime
    MaxStops = 2
CHECK_DEADLOCK FALSE
INVARIANTS
    RunningIsReachable
    CancelHitsWhatWasAsked
    EndingNamesItsCause
    CleanLeavesNothingOpen
