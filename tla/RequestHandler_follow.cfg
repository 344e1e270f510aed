SPECIFICATION FairSpec
CONSTANTS
  Slots = {s1}
  Ids = {a1}
  FindingLists <- OneList
  Size = 2
  MaxRequests = 1
  MaxRuns = 1
  MaxSARIF = 3
  NoEntry = NoEntry
CHECK_DEADLOCK FALSE
PROPERTIES FollowShowsNew
