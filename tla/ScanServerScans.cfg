CONSTANTS
  Assets <- MCAssets
  Keys <- TwoKeys
  AssetOf <- TwoKeysAssetOf
  Groups <- MCGroups
  GroupOf <- TwoKeysGroupOf
  NoItem = NoItem
  Scans = {s1, s2, s3}
  Verifiers = {}
  Requests <- TwoRequests
  CredKeys <- MCCredKeys
  CliRequests = {}
  DiskMayFail = FALSE
  TriageStates = {}
  DialOutcomes = {"accepted", "refused", "silent"}
  FileAtStart = "torn"
  MaxClock = 0
  MaxCrashes = 0
SPECIFICATION Safety
INVARIANTS
  TypeOK
  DiffBalances
  ItemsExist
PROPERTIES
  LifecycleSpec
SYMMETRY ScanSymmetry
CHECK_DEADLOCK FALSE
