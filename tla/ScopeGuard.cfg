CONSTANTS
  W = 3
  Batch = 4
  Scopes <- MCScopes
  Targets <- MCTargets
  Answers <- MCAnswers
  V6 = V6
SPECIFICATION Spec
INVARIANTS
  TypeOK DialsInScope NamesStayInScope OnlyNetworksAreBlocked EnumeratesTheNetwork
CHECK_DEADLOCK FALSE
