CONSTANTS
  Assets <- MCAssets
  Keys <- TwoKeys
  AssetOf <- TwoKeysAssetOf
  Groups <- MCGroups
  GroupOf <- TwoKeysGroupOf
  NoItem = NoItem
  Scans = {s1, s2}
  Verifiers = {}
  Requests <- TwoRequests
  CredKeys <- MCCredKeys
  CliRequests = {}
  DiskMayFail = FALSE
  TriageStates = {}
  DialOutcomes = {"accepted", "refused", "silent"}
  FileAtStart = "torn"
  MaxClock = 1
  MaxCrashes = 0
SPECIFICATION Safety
INVARIANTS
  FindingsPointAtTheirItem
CHECK_DEADLOCK FALSE
