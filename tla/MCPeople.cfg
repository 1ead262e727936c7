SPECIFICATION PeopleSpec
CONSTANTS
  None = None
  onTime = onTime
  late = late
  rejected = rejected
  noShow = noShow
  Outcome = {onTime, late, rejected, noShow}
  EventOf <- EventOfOutcome
  Adjustment = {adjustment}
  Worker = {w1, w2}
  Modes = {"alone", "hooks", "free"}
  InitialTrust = 20
  Person = {p1, p2}
  Founder = {p1}
  Invite = {1, 2}
  Request = {r1, r2}
  Overlap = {TRUE, FALSE}
  Note = {1, 2}
  DedupeKey = {key}
  Dispatcher = {d1, d2}
  Limit = 1
  MaxAttempts = 2
  MaxFaults = 1
INVARIANTS
  TypesOK
  ScoreIsSum
  HooksNeverWaitInCircle
  OnlyCommittedCounts
  ReputationAdds
  SomebodyManages
  StatusTellsMail
PROPERTY
  EveryNoteSettles
CHECK_DEADLOCK FALSE
