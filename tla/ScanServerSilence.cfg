CONSTANTS
  Assets <- MCAssets
  Keys <- TwoKeys
  AssetOf <- TwoKeysAssetOf
  Groups <- MCGroups
  GroupOf <- TwoKeysGroupOf
  NoItem = NoItem
  Scans = {s1}
  Verifiers = {v1}
  Requests <- OneRequest
  CredKeys <- MCCredKeys
  CliRequests = {}
  DiskMayFail = FALSE
  TriageStates <- OneUIState
  DialOutcomes = {"accepted", "silent"}
  FileAtStart = "torn"
  MaxClock = 0
  MaxCrashes = 0
SPECIFICATION Safety
PROPERTIES
  SilenceFixesNothing
CHECK_DEADLOCK FALSE
