SPECIFICATION Spec
CONSTANTS
  Id = {id1, id2}
  NoId = noid
  HostLine <- MCHostLists
  ToolLine <- MCToolLists
  MaxHostLines = 3
  MaxToolLines = 3
  PipeCapacity = 2
  HostCapacity = 1
  Configs <- MCShield
  AuditMayFail = FALSE
  HonestTool = TRUE
SYMMETRY MCIds
CHECK_DEADLOCK FALSE
INVARIANTS
  ShieldsExact
