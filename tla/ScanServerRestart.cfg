CONSTANTS
  Assets <- MCAssets
  Keys <- TwoKeys
  AssetOf <- TwoKeysAssetOf
  Groups <- MCGroups
  GroupOf <- TwoKeysGroupOf
  NoItem = NoItem
  Scans = {s1, s2}
  Verifiers = {}
  Requests <- TwoRequests
  CredKeys <- MCCredKeys
  CliRequests <- OneCliRequest
  DiskMayFail = TRUE
  TriageStates <- OneUIState
  DialOutcomes = {"accepted", "refused", "silent"}
  FileAtStart = "none"
  MaxClock = 0
  MaxCrashes = 1
SPECIFICATION Safety
INVARIANTS
  MemoryAgrees
  FileAgrees
  FindingsHaveAssets
  MovesAreReported
CHECK_DEADLOCK FALSE
