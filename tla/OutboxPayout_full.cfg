SPECIFICATION HistorySpec
CONSTANTS
  e1 = e1
  e2 = e2
  u1 = u1
  w1 = w1
  w2 = w2
  NoEvent = NoEvent
  Events <- TwoEvents
  Users <- OneUser
  Workers <- TwoWorkers
  Owner <- MCOwner
  Amount <- MCAmount
  Opening <- MCOpening
  RetryLimit = 1
  PayloadRetries = 1
  ErrorTexts <- AnyText
  MaxFaults = 2
CHECK_DEADLOCK FALSE
INVARIANTS
  NeverOverdrawn
  HeldByOne
  TypeOK
  NoExtraRefund
  TriesBounded
  LedgerAgrees
PROPERTIES
  PaidFromReserve
  KeepsSaga
  EventEnds
  VerdictArrives
