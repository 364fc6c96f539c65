SPECIFICATION StoreSpec
CONSTANTS
  Job = {j1}
  Token = {t1, t2}
  NoToken = NoToken
  MaxAttempts = 3
  BatchSize = 1
  MaxVersion = 5
  MaxEpoch = 2
SYMMETRY TokenSymmetry
INVARIANTS
  LeasePolicyMatchesClaim
  PolicyWithinGuard
  ReadersAgree
PROPERTIES
  ImplementsContract
  FencedRowsFrozen
CHECK_DEADLOCK FALSE
