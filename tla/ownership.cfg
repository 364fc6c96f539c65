SPECIFICATION Spec
CONSTANTS
  Claim = {k1, k2}
  Person = {a1, a2}
  Method = {m1}
  FullMethod = {m1}
  Call = {c1, c2, c3}
  Nothing = Nothing
  MaxTime = 2
  MaxGuesses = 2
  Lifetime = 1
SYMMETRY OwnershipSymmetry
INVARIANTS
  OwnershipInv
  HistoryUnbroken
PROPERTIES
  ImplementsTitle
CHECK_DEADLOCK FALSE
