SPECIFICATION PipelineSpec
CONSTANTS
  Object = {o1}
  Call = {c1, c2}
  Key = {k1}
  Hash = {1, 2}
  NoRecord = NoRecord
  Request = {r1, r2}
  Verifier = {v1}
  Nobody = Nobody
  MaxFaults = 3
  MaxEpoch = 1
SYMMETRY PipelineSymmetry
INVARIANTS
  PipelineInv
  AcceptedIsRecorded
  AmbiguousIsRecovered
  VerdictsWitnessed
PROPERTIES
  ImplementsStore
CHECK_DEADLOCK FALSE
