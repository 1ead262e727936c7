\* Two requests of one promoter at once.
SPECIFICATION Spec

CONSTANTS
  None = None
  Withdrawal = {1, 2}
  Key = {k1}
  Worker = {w1, w2}
  Amounts = {2, 3}
  Minimum = 2
  Earnings = 4
  Modes = {FALSE}
  MaxCrashes = 0

INVARIANTS
  NotOverRequested

CHECK_DEADLOCK FALSE
