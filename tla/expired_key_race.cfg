SPECIFICATION Spec
CONSTANTS
  Call = {c1, c2}
  Key = {k1}
  Hash = {h1}
  Sweeper = {s1}
  NoJob = NoJob
  SweepLimit = 1
  MaxAborts = 0
PROPERTIES
  EveryJobReserved
CHECK_DEADLOCK FALSE
