SPECIFICATION Spec
CONSTANTS
    root = root
    data = data
    scratch_ = scratch_
    Members <- MCMembers
    Root = root
    Place <- MCPlace
    Excluded = {scratch_}
    None = None
    KeepOnSource = 1
    FaultSets <- Reliable
    MaxRuns = 2
    MaxCrashes = 1
    MaxCleans = 2
    MaxUserActs = 0
CHECK_DEADLOCK FALSE
PROPERTY CleanKeepsBase
