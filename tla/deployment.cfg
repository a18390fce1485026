SPECIFICATION Spec
CONSTANTS
  Dir <- MCDir
  Name <- MCName
  Parent <- MCParent
  SearchDepth = 3
  Community = "community"
  Dashed <- MCDashed
  Servers <- MCServers
  NewServers <- MCNewServers
  UserFiles <- MCUserFiles
  WrapOptions <- MCWrapOptions
  Index <- MCIndex
  Published <- MCPublished
  Garbled <- MCGarbled
  Draft <- MCDraft
  Target <- MCTarget
  Templates <- MCTemplates
  Cwd = "work"
  HostCwd = "host"
  Platforms <- MCPlatforms
  MaxActs = 4
CHECK_DEADLOCK FALSE
INVARIANTS
  OriginalRecoverable
  LaunchRunsOriginal
  WrapDecides
  StatusHonest
  UpdateComplete
  EffectiveManifest
