CONSTANTS
  Cap = 8
  Ports <- MCPorts
  NumRules = 7
  QueueSize = 7
  InitStart = 0
SPECIFICATION Spec
INVARIANTS
  TypeOK
  SearchTreeShape
  RedBlackBalance
  MaxAugmented
  QueryComplete
