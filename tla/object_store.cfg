SPECIFICATION StoreSpec
CONSTANTS
  Object = {o1, o2}
  Call = {c1, c2, c3}
  Key = {k1, k2}
  Hash = {h1, h2}
  NoRecord = NoRecord
  MaxEpoch = 2
SYMMETRY StoreSymmetry
INVARIANTS
  StoreInv
PROPERTIES
  ImplementsLifecycle
  FencedObjectsFrozen
CHECK_DEADLOCK FALSE
