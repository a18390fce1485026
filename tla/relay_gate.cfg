SPECIFICATION Spec
CONSTANTS
  Id = {}
  NoId = noid
  HostLine <- MCHostAll
  ToolLine <- MCToolBrief
  MaxHostLines = 2
  MaxToolLines = 1
  PipeCapacity = 1
  HostCapacity = 1
  Configs <- MCStrictness
  AuditMayFail = FALSE
  HonestTool = FALSE
CHECK_DEADLOCK FALSE
INVARIANTS
  TypeOK
  ForwardsFaithfully
  StrictStops
  DenialsAnswered
PROPERTY ImplementsGate
