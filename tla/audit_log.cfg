SPECIFICATION Spec
CONSTANTS
  Writers = {w1, w2}
  MaxWrites = 2
  MaxRotations = 2
  SizeLimit = 1
  Crashes = {"writer", "pruner"}
  Prunes = TRUE
  PruneTools = {w1}
CHECK_DEADLOCK FALSE
INVARIANTS
  TypeOK
  OnlyOldestDiscarded
  SizeBounded
  PruneSparesRest
