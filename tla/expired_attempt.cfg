SPECIFICATION FairRuntimeSpec
CONSTANTS
  Job = {j1}
  Token = {t1, t2, t3, t4}
  NoToken = NoToken
  NoJob = NoJob
  Consumer = {c1}
  Sweeper = {s1}
  MaxAttempts = 2
  BatchSize = 1
  MaxVersion = 3
  MaxEpoch = 1
  MaxDeliveries = 2
  MaxFaults = 1
PROPERTY
  ExpiredAttemptResumes
CHECK_DEADLOCK FALSE
