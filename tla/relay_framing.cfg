SPECIFICATION Spec
CONSTANTS
  Id = {}
  NoId = noid
  HostLine <- MCHostBrief
  ToolLine <- MCToolBrief
  MaxHostLines = 1
  MaxToolLines = 1
  PipeCapacity = 1
  HostCapacity = 1
  Configs <- MCStrictness
  AuditMayFail = FALSE
  HonestTool = FALSE
CHECK_DEADLOCK FALSE
INVARIANT LinesWhole
