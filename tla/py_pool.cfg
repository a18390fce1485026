SPECIFICATION Spec
CONSTANTS
  Client = {c1, c2, c3, c4}
  Size = 2
  MaxSpawns = 3
  MaxCalls = 3
  Late = TRUE
SYMMETRY MCSymmetry
CHECK_DEADLOCK FALSE
INVARIANTS
  NoLostWakeup
  CloseLeavesNone
PROPERTIES
  ImplementsPool
  AnswersLag
