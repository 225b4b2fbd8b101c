CONSTANTS
  Assets <- MCAssets
  Keys <- TwoKeys
  AssetOf <- TwoKeysAssetOf
  Groups <- MCGroups
  GroupOf <- TwoKeysGroupOf
  NoItem = NoItem
  Scans = {s1, s2}
  Verifiers = {}
  Requests <- TwoRequests
  CredKeys <- MCCredKeys
  CliRequests = {}
  DiskMayFail = FALSE
  TriageStates = {}
  DialOutcomes = {"accepted", "refused", "silent"}
  FileAtStart = "none"
  MaxClock = 1
  MaxCrashes = 0
SPECIFICATION Safety
INVARIANTS
  SavedRunsAreOnDisk
CHECK_DEADLOCK FALSE
