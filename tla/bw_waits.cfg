SPECIFICATION FairSpec
CONSTANTS
  a = a
  b = b
  stack = stack
  Apps = {a, b}
  StackOf <- OneStack
  Triggers = {"domain", "item"}
  Own = {b}
  GivesUp = {a}
  Environments <- Around
  Slots = {1, 2}
  MaxFires = 2
  MaxHands = 1
  MaxActs = 1
  MaxCrashes = 1
CHECK_DEADLOCK FALSE
INVARIANT TypeOK
INVARIANT NothingIsLost
INVARIANT OneWaitEach
PROPERTY EveryFireEnds
PROPERTY DeferralEnds
