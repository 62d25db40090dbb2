SPECIFICATION FairSpec
CONSTANTS
  j1 = j1
  j2 = j2
  w1 = w1
  w2 = w2
  NoJob = NoJob
  Jobs <- TwoJobs
  Registered <- OneJob
  Slow <- OneJob
  Workers <- OneWorker
  MaxFaults = 2
CHECK_DEADLOCK FALSE
PROPERTY CrashedJobIsRetried
