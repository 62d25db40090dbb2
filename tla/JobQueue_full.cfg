SPECIFICATION FairSpec
CONSTANTS
  j1 = j1
  j2 = j2
  w1 = w1
  w2 = w2
  NoJob = NoJob
  Jobs <- TwoJobs
  Registered <- OneJob
  Slow <- OneJob
  Workers <- TwoWorkers
  MaxFaults = 1
CHECK_DEADLOCK FALSE
INVARIANTS
  TypeOK
  OneRunner
  DoneWasRun
PROPERTIES
  EveryJobEnds
  ResultIsFinal
  KeepsLease
