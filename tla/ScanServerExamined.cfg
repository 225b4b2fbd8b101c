CONSTANTS
  Assets <- MCAssets
  Keys <- MCKeys
  AssetOf <- MCAssetOf
  Groups <- MCGroups
  GroupOf <- MCGroupOf
  NoItem = NoItem
  Scans = {s1, s2}
  Verifiers = {}
  Requests <- MCRequests
  CredKeys <- MCCredKeys
  CliRequests = {}
  DiskMayFail = FALSE
  TriageStates = {}
  DialOutcomes = {"accepted", "refused", "silent"}
  FileAtStart = "torn"
  MaxClock = 0
  MaxCrashes = 0
SPECIFICATION Safety
PROPERTIES
  ConfirmedFixedWasExamined
CHECK_DEADLOCK FALSE
