SPECIFICATION FairSpec
CONSTANTS
    app = app
    db = db
    vpn = vpn
    media = media
    library = library
    Containers <- MCContainers
    Items <- MCItems
    StopList <- MCStopList
    Needs <- MCNeeds
    Joins <- MCJoins
    NoItem = NoItem
    FaultSets <- Environments
    MaxCrashes = 2
    MaxUserActs = 1
INVARIANTS
    NothingForgotten
    SnapshotIsQuiet
    AllIsBack
PROPERTIES
    DependentsFirst
    NobodyIsCutOff
    HookIsUndone
