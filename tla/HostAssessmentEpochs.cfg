CONSTANTS
  Hosts <- MCHosts
  Requests <- MCRequests
  PluginFiles <- MCPluginFiles
  MaxChanges = 0
SPECIFICATION Safety
INVARIANT EpochsAreCompared
CHECK_DEADLOCK FALSE
