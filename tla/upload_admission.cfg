SPECIFICATION Spec
CONSTANTS
  Request = {r1, r2, r3}
  Key = {k1}
  Hash = {h1, h2}
  NoIntent = NoIntent
SYMMETRY RequestSymmetry
INVARIANTS
  AdmissionInv
  CreatedIsBacked
  NoStrayUrl
  
CHECK_DEADLOCK FALSE
