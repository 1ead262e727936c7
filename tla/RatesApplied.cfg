\* One promoter, one slot, and an admin who changes one rate.
SPECIFICATION Spec

CONSTANTS
  None = None
  Promoter = {p1}
  Rpms = {25}
  Takes = {30, 50}
  Thresholds = {60}
  Reaches = {10}
  Asked = {1}
  Typed = {25}
  Views = {6, 10}
  MaxUpdates = 1

INVARIANTS
  OfferIsHonored

CHECK_DEADLOCK FALSE
