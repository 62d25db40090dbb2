SPECIFICATION FairSpec
CONSTANTS
  c1 = c1
  c2 = c2
  r1 = r1
  r2 = r2
  Email = Email
  None = None
  Cards <- MCCards
  Readers <- OneReader
  MaxFaults = 1
CHECK_DEADLOCK FALSE
INVARIANTS
  TypeOK
  CacheAgrees
  PreferenceExists
  AddedIsListed
PROPERTY EventuallyAccurate
