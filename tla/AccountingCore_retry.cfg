SPECIFICATION Spec
CONSTANTS
  a1 = a1
  a2 = a2
  u1 = u1
  r1 = r1
  r2 = r2
  c1 = c1
  c2 = c2
  v1 = v1
  NoCall = NoCall
  Calls <- RetryCalls
  Validations <- NoCalls
  Reference <- RetryReference
  Accounts <- TwoAccounts
  Users <- OneUser
  Replicas <- OneReplicaOnly
  Owner <- MCOwner
  From <- RetryFrom
  To <- RetryTo
  Amount <- RetryAmount
  At <- MCAt
  Opening <- MCOpening
  SpentBefore <- MCBefore
  ReceivedBefore <- MCBefore
  Warm <- NoReplica
  DailyLimit = 4
  TransactionLimit = 2
  MaxDays = 1
  MaxFaults = 0
CHECK_DEADLOCK FALSE
INVARIANT ReferenceUsedOnce
