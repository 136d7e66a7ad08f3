SPECIFICATION FairSpec
CONSTANTS
    web = web
    nas = nas
    webSys = webSys
    webData = webData
    nasSys = nasSys
    sys = sys
    data = data
    VMs = {web, nas}
    LiveSets <- MCLiveSets
    Disks <- MCDisks
    OverlayPath <- MCOverlayPath
    None = None
    FaultSets <- Environments
    MaxRuns = 2
    MaxCrashes = 1
    MaxUserActs = 1
CHECK_DEADLOCK FALSE
INVARIANTS
    ReadIsStill
    OverlayIsThere
    OffIsKnown
PROPERTY OffComesBack
