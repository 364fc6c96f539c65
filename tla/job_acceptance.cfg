SPECIFICATION FairSpec
CONSTANTS
  Call = {c1, c2, c3}
  Key = {k1, k2}
  Hash = {h1, h2}
  Sweeper = {s1, s2}
  NoJob = NoJob
  SweepLimit = 1
  MaxAborts = 1
INVARIANTS
  AcceptanceInv
  OneJobPerUnsweptKey
  ReplayNamesOwnRequest
PROPERTIES
  BoundUntilSwept
  ExpiredIsSwept
CHECK_DEADLOCK FALSE
