SPECIFICATION FairSession
CONSTANTS
  Id = {id1}
  NoId = noid
  HostLine <- MCHost
  ToolLine <- MCTool
  MaxHostLines = 1
  MaxToolLines = 1
  PipeCapacity = 1
  HostCapacity = 1
  Configs <- MCTimed
  AuditMayFail = FALSE
  HonestTool = TRUE
  Codes = {"ok"}
CHECK_DEADLOCK FALSE
PROPERTY TimeoutIsAbsolute
