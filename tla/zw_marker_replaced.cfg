SPECIFICATION Spec
CONSTANTS
    app = app
    db = db
    vpn = vpn
    media = media
    library = library
    Containers <- MCContainers
    Items <- MCItems
    StopList <- MCStopList
    Needs <- MCNeeds
    Joins <- MCJoins
    NoItem = NoItem
    FaultSets <- StartsFail
    MaxCrashes = 0
    MaxUserActs = 0
INVARIANT NothingIsWrittenOver
