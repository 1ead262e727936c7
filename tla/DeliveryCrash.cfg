\* One request at a time, and one process that dies between two steps.
SPECIFICATION Spec

CONSTANTS
  None = None
  Promoter = {q1, q2}
  Decliner = {q1, q2}
  SlotId = {1, 2, 3}
  Submission = {1, 2, 3}
  Worker = {w1}
  Sweeper = {z1}
  Posts = 1
  Unit = 4
  Reach = 4
  InitialSlots = 2
  Views = {3, 8}
  Attempts = {1, 2}
  Serial = TRUE
  MaxCrashes = 1
  Scale = 10000
  Rpm = 1000
  ObjectiveMult = 100
  TargetingStep = 0
  TargetingCap = 100
  TakeRate = 30
  Threshold = 60

INVARIANTS
  PaidIsRecorded

CHECK_DEADLOCK FALSE
