SPECIFICATION Spec
CONSTANTS
  Writers = {w1, w2}
  MaxWrites = 2
  MaxRotations = 2
  SizeLimit = 1
  Crashes = {}
  Prunes = FALSE
  PruneTools = {}
CHECK_DEADLOCK FALSE
INVARIANT RotationNeverOverwrites
