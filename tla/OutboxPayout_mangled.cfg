SPECIFICATION HistorySpec
CONSTANTS
  e1 = e1
  e2 = e2
  u1 = u1
  w1 = w1
  w2 = w2
  NoEvent = NoEvent
  Events <- OneEvent
  Users <- OneUser
  Workers <- OneWorker
  Owner <- MCOwner
  Amount <- MCAmount
  Opening <- MCOpening
  RetryLimit = 2
  PayloadRetries = 2
  ErrorTexts <- AnyText
  MaxFaults = 0
CHECK_DEADLOCK FALSE
INVARIANT LedgerMatchesSqril
