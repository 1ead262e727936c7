SPECIFICATION CampaignSpec

CONSTANTS
  None = None
  Promoter = {q1, q2}
  Decliner = {}
  SlotId = {1, 2, 3}
  Submission = {1, 2}
  Worker = {w1, w2}
  Sweeper = {z1}
  Posts = 1
  Unit = 4
  Reach = 4
  InitialSlots = 2
  Views = {3}
  Attempts = {1}
  Serial = FALSE
  MaxCrashes = 1
  Scale = 10000
  Rpm = 1000
  ObjectiveMult = 100
  TargetingStep = 0
  TargetingCap = 100
  TakeRate = 30
  Threshold = 60
  Overlaps = {TRUE, FALSE}
  MaxPosts = 2
  Asked = {1, 2}
  Moments = {0, 1}
  Reaches = {3}
  Typed = {14}
  Minimum = 6

SYMMETRY Symmetry

INVARIANTS
  SlotsCounted
  ApprovedIsPaid
  DingedOnce
  QuoteIsCurrent

CHECK_DEADLOCK FALSE
