SPECIFICATION FairSpec

CONSTANTS
  k1 = k1
  k2 = k2
  k3 = k3
  k4 = k4
  NoPosting = NoPosting
  Nobody = Nobody
  BankClearing = 1
  RaliaRevenue = 4
  Request = {r1, r2}
  Account <- MCAccount
  KindOf <- MCKindOf
  Existing <- MCExisting
  Key <- MCKey
  Ref <- MCRef
  Input <- MCInput

INVARIANTS
  TypeOK
  NonNegativeBalances
  BooksClose
  AnswersAreTrue

PROPERTIES
  ImplementsAbstract
  EveryCallAnswered
