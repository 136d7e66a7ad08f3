SPECIFICATION Spec
CONSTANTS
  Target = app
  Deps = {db, peer}
  Before = {db}
  Sharers = {peer}
  Snapshots <- Both
  Updates <- Both
  Faults <- DockerFaults
  Refusals <- LiveRefusals
  MaxCrashes = 2
  UserActs = TRUE
CHECK_DEADLOCK FALSE
INVARIANT DownIsRecorded
INVARIANT ReadIsQuiet
INVARIANT NotBackIsTold
PROPERTY UserOffStaysOff
