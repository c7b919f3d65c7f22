CONSTANTS
  Width = 3
  NumRules = 4
  Cap = 13
SPECIFICATION Spec
INVARIANTS
  TypeOK
  PrefixMatchBesidesFirstAlloc
