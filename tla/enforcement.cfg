SPECIFICATION Spec
CONSTANTS
  Value <- MCValue
  Home <- MCHome
  ToolPath <- MCTool
  Cases <- MCCases
INVARIANTS
  TraversalCaught
  UrlMeansParts
  LayersAgree
  ReplyExact
