SPECIFICATION Spec
CONSTANTS
  a1 = a1
  a2 = a2
  u1 = u1
  r1 = r1
  r2 = r2
  c1 = c1
  c2 = c2
  v1 = v1
  NoCall = NoCall
  Calls <- MCCalls
  Validations <- MCValidations
  Reference <- MCReference
  Accounts <- TwoAccounts
  Users <- OneUser
  Replicas <- TwoReplicas
  Owner <- MCOwner
  From <- MCFrom
  To <- MCTo
  Amount <- MCAmount
  At <- MCAt
  Opening <- MCOpening
  SpentBefore <- MCBefore
  ReceivedBefore <- MCBefore
  Warm <- OneReplicaOnly
  DailyLimit = 4
  TransactionLimit = 2
  MaxDays = 2
  MaxFaults = 1
CHECK_DEADLOCK FALSE
INVARIANTS
  TypeOK
  BalanceIsPosted
  LimitHolds
PROPERTY TransfersAreAtomic
