\* One request at a time, a slot of three posts.
SPECIFICATION Spec

CONSTANTS
  None = None
  Promoter = {q1}
  Decliner = {}
  SlotId = {1, 2}
  Submission = {1, 2}
  Worker = {w1}
  Sweeper = {z1}
  Posts = 3
  Unit = 4
  Reach = 4
  InitialSlots = 1
  Views = {3}
  Attempts = {1}
  Serial = TRUE
  MaxCrashes = 0
  Scale = 10000
  Rpm = 1000
  ObjectiveMult = 100
  TargetingStep = 0
  TargetingCap = 100
  TakeRate = 30
  Threshold = 60

INVARIANTS
  MissesAreDinged

CHECK_DEADLOCK FALSE
