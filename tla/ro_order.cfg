SPECIFICATION Spec
CONSTANTS
    N = 3
    Joins <- OneOwner
    NeedSets <- AnyNeeds
CHECK_DEADLOCK FALSE
INVARIANTS
    TypeOK
    EachOnce
    OwnersFirst
    NeedsFirstPerSide
    LevelsDependentsFirst
