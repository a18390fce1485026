SPECIFICATION Spec
CONSTANTS
  Id = {}
  NoId = noid
  HostLine <- MCHostBrief
  ToolLine <- MCToolSecrets
  MaxHostLines = 1
  MaxToolLines = 2
  PipeCapacity = 1
  HostCapacity = 1
  Configs <- MCScans
  AuditMayFail = FALSE
  HonestTool = FALSE
CHECK_DEADLOCK FALSE
INVARIANTS
  AuditFaithful
  ResponsesInOrder
  ScanVerdict
