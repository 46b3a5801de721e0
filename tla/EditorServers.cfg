CONSTANTS
  c1 = c1
  c2 = c2
  Connections = {c1, c2}
  Lines <- MCLines
  MaxLines = 2
  MaxThreads = 1
  U32 = 16
  OverflowChecks = FALSE
  URLs = {"a", "b"}
  Tables = {"users", "posts", "comments", "orders"}
  Width <- MCWidth
  MaxCalls = 4
  Scripts <- MCScripts
SPECIFICATION MCSpec
INVARIANTS
  AdapterTypeOK RepliesNumbered EndingsExplained
  LspTypeOK CleanExit RangesForward SchemaAccounted
PROPERTIES
  LinesAnswered AdapterImplements
  RequestsAnswered LoopEnds LspImplements
CHECK_DEADLOCK FALSE
