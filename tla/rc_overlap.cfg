SPECIFICATION Spec
CONSTANTS
    first = first
    second = second
    x = x
    y = y
    Backups = {first, second}
    Items = {x, y}
    None = None
    Orders <- AnyTime
    MaxStops = 1
CHECK_DEADLOCK FALSE
INVARIANT CancelHitsWhatWasAsked
