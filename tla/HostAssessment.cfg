CONSTANTS
  Hosts <- MCHosts
  Requests <- MCRequests
  PluginFiles <- MCPluginFiles
  MaxChanges = 1
SPECIFICATION Spec
INVARIANTS
  TypeOK
  FindingsHaveGrounds
  
  ReachabilityHasGrounds
PROPERTIES
  EndsUnlessHeld
CHECK_DEADLOCK FALSE
