\* One request at a time; a client may close the account.
SPECIFICATION Spec

CONSTANTS
  None = None
  Refund = Refund
  Transfer = {k1}
  Reference = {r1}
  Worker = {w1}
  Prices = {1}
  Modes = {TRUE}
  MaxCrashes = 0

INVARIANTS
  ClosedHoldsNothing

CHECK_DEADLOCK FALSE
