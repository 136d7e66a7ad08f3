SPECIFICATION Spec
CONSTANTS
    root = root
    data = data
    scratch_ = scratch_
    Members <- MCMembers
    Root = root
    Place <- MCPlace
    Excluded = {scratch_}
    None = None
    KeepOnSource = 1
    FaultSets <- Environments
    MaxRuns = 3
    MaxCrashes = 1
    MaxCleans = 1
    MaxUserActs = 1
CHECK_DEADLOCK FALSE
INVARIANTS
    BaseKept
    UndisturbedRunLands
    NothingPilesUp
PROPERTY ResumableKept
