SPECIFICATION MoneySpec

CONSTANTS
  None = None
  Refund = Refund
  Transfer = {k1}
  Reference = {r1, r2}
  Worker = {w1, w2}
  Prices = {1, 2}
  Modes = {TRUE, FALSE}
  MaxCrashes = 1
  Promoter = {q1, q2}
  Decliner = {q1, q2}
  SlotId = {1, 2}
  Submission = {1, 2}
  Handler = {h1}
  Sweeper = {z1}
  Posts = 3
  Unit = 4
  Reach = 4
  InitialSlots = 1
  Views = {8}
  Attempts = {1, 2}
  Admin = {a1, a2}
  Amounts = {1, 2}
  Scale = 10000
  Rpm = 1000
  ObjectiveMult = 100
  TargetingStep = 0
  TargetingCap = 100
  TakeRate = 30
  Threshold = 60

SYMMETRY Symmetry

INVARIANTS
  TypeOK
  NothingUnpaid
  RefundedOnce
  StatusTellsMoney
  RecordsAgree

PROPERTY
  Final

CHECK_DEADLOCK FALSE
