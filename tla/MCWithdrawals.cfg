SPECIFICATION PromoterSpec

CONSTANTS
  None = None
  Withdrawal = {1, 2}
  Key = {k1, k2, k3}
  Worker = {w1, w2}
  Amounts = {1, 2, 3}
  Minimum = 2
  Earnings = 4
  Modes = {TRUE, FALSE}
  MaxCrashes = 1
  Channel = {c1, c2}
  Raced = {c1}
  Claims = {400}
  Cap = 100
  Scores = {0}
  ada = ada
  obi = obi
  gt = gt
  uba = uba
  User = {ada, obi}
  Number = {gt, uba}
  Named <- MCNamed
  MaxRows = 4
  MaxTries = 1
  Plays <- MCPlays
  MaxPasswords = 1
  Submission = {1, 2, 3}
  Facts <- MCFacts
  PointCap = 10
  Points <- MCPoints

SYMMETRY Symmetry

INVARIANTS
  TypeOK
  StatusHasMoney
  StatusTellsMoney
  Encumbered
  DecisionsStand
  PaidToOwner
  AccountKept
  PointsHold

CHECK_DEADLOCK FALSE
