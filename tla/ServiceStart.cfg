CONSTANTS
  NumInterfaces = 2
  Backlog = 1
  ClientStarts = 1
  ServerStarts = 2
  MaxStarts <- MCMaxStarts
  MaxKills = 1
  MaxRefusals = 1
  None = None
SPECIFICATION FairSpec
INVARIANTS
  TypeOK
  ScriptKeepsOrder
PROPERTIES
  ServicesSettle
CHECK_DEADLOCK FALSE
