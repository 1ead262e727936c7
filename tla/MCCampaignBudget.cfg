SPECIFICATION AllSpec

CONSTANTS
  None = None
  Scale = 10000
  Rpm = 2
  ObjectiveMult = 120
  TargetingStep = 25
  TargetingCap = 120
  TakeRate = 30
  Threshold = 60
  Prices <- MCPrices
  SlotCounts <- MCSlotCounts
  Filters <- MCFilters
  Views <- MCViews
  Reach = 3
  Posts = 2
  Floor = 6
  Promoter = {1, 2, 3}
  Proven = {2}
  Slots = 1
  Sweeper = {z1, z2}
  ByHand <- MCByHand
  MaxChanges = 1
  Rpms = {25, 30}
  Takes = {30, 50}
  Thresholds = {60}
  Reaches = {5, 10}
  Asked = {2}
  Typed = {25}
  Reported = {3, 5, 10}
  MaxUpdates = 2

INVARIANTS
  TypeOK
  EscrowCoversOwed
  NoKoboLost
  OffersBounded
  RulesHold

PROPERTIES
  FeeIsCeiling
  ClosedShortOnlyWhenBroke
  KeepsOffering

\* A campaign whose last post was forfeited has nothing left to do.
CHECK_DEADLOCK FALSE
