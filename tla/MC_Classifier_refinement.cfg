CONSTANTS
  Width = 2
  Ports <- MCPorts
  NumRules = 4
  WordBits = 3
  TrieCap = 9
  TreeCap = 5
  QueueSize = 4
  RuleSpace <- MCRuleSpace
  ProtoIds <- MCProtoIds
SPECIFICATION Spec
PROPERTIES
  AbstractClassification
CHECK_DEADLOCK FALSE
