SPECIFICATION Spec
CONSTANTS
  Slots = {s1, s2}
  Ids = {a1, a2}
  FindingLists <- Lists
  Size = 2
  MaxRequests = 2
  MaxRuns = 2
  MaxSARIF = 3
  NoEntry = NoEntry
SYMMETRY Symmetry
CHECK_DEADLOCK FALSE
INVARIANTS ExplainAgreesWithLookup ReportHasViolations
PROPERTIES ImplementsBoundedLog
