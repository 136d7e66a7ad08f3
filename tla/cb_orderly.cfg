SPECIFICATION FairSpec
CONSTANTS
  Target = app
  Deps = {db, peer}
  Before = {db}
  Sharers = {peer}
  Snapshots = {TRUE, FALSE}
  Updates = {TRUE, FALSE}
  Faults <- RecordFaults
  Refusals = {}
  MaxCrashes = 2
  UserActs = FALSE
CHECK_DEADLOCK FALSE
INVARIANT EverythingIsBack
PROPERTY DownIsResolved
