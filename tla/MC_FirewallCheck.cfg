\* The MC_Classifier instance; packets of every address and port.
CONSTANTS
  Width = 2
  Ports <- MCPorts
  NumRules = 4
  WordBits = 3
  TrieCap = 9
  TreeCap = 5
  QueueSize = 4
  RuleSpace <- MCRuleSpace
  ProtoIds <- MCProtoIds
SPECIFICATION Spec
INVARIANT TcpVerdictMatchesRules
CHECK_DEADLOCK FALSE
