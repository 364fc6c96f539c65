SPECIFICATION Spec
CONSTANTS
  Operation = {o1}
  Execution = {e1, e2, e3}
  Reconciler = {p1, p2}
  NoOperation = NoOperation
  MaxAttempts = 3
  EvidenceLimit = 3
SYMMETRY ActorSymmetry
INVARIANTS
  EffectInv
  OneSender
  AnswersAreCanonical
PROPERTIES
  OrphansAreReconciled
  ImplementsContract
CHECK_DEADLOCK FALSE
