SPECIFICATION FairSession
CONSTANTS
  Id = {id1}
  NoId = noid
  HostLine <- MCHost
  ToolLine <- MCToolAll
  MaxHostLines = 2
  MaxToolLines = 1
  PipeCapacity = 1
  HostCapacity = 1
  Configs <- MCAnyConfig
  AuditMayFail = FALSE
  HonestTool = TRUE
  Codes = {"ok", "failed", "notfound"}
CHECK_DEADLOCK FALSE
INVARIANTS
  SessionTypeOK
  CleanEndLosesNothing
  DiagnosisSound
  NoToolLeftBehind
PROPERTIES
  HangupEndsSession
  DenialArrives
  TimeoutEndsSession
