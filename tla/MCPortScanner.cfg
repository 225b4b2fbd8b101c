CONSTANTS
  N = 4
  Concurrency = 2
  ReportEvery = 3
SPECIFICATION Spec
INVARIANTS
  TypeOK
  SendNeverBlocks
  InFlightBounded
PROPERTIES
  NoLateReport
  SweepSpec
