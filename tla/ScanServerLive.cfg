CONSTANTS
  Assets <- MCAssets
  Keys <- TwoKeys
  AssetOf <- TwoKeysAssetOf
  Groups <- MCGroups
  GroupOf <- TwoKeysGroupOf
  NoItem = NoItem
  Scans = {s1}
  Verifiers = {v1, v2}
  Requests <- LiveRequests
  CredKeys <- MCCredKeys
  CliRequests = {}
  DiskMayFail = FALSE
  TriageStates <- OtherWord
  DialOutcomes = {"accepted", "refused", "silent"}
  FileAtStart = "none"
  MaxClock = 1
  MaxCrashes = 0
SPECIFICATION Spec
PROPERTIES
  LifecycleSpec
  EveryRunEnds
  EveryVerifyReplies
