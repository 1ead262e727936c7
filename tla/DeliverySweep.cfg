\* One request at a time, posts that may be sent back and over-delivered.
SPECIFICATION Spec

CONSTANTS
  None = None
  Promoter = {q1, q2}
  Decliner = {q1, q2}
  SlotId = {1, 2, 3}
  Submission = {1, 2, 3}
  Worker = {w1}
  Sweeper = {z1}
  Posts = 1
  Unit = 4
  Reach = 4
  InitialSlots = 2
  Views = {3, 8}
  Attempts = {1, 2}
  Serial = TRUE
  MaxCrashes = 0
  Scale = 10000
  Rpm = 1000
  ObjectiveMult = 100
  TargetingStep = 0
  TargetingCap = 100
  TakeRate = 30
  Threshold = 60

INVARIANTS
  SweptMeansNothingOwed

CHECK_DEADLOCK FALSE
