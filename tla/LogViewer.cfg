SPECIFICATION FairSpec
CONSTANTS
  Shards = {a, b, c}
  First = a
  Backlog = 2
  MaxOutput = 3
  SubCap = 1
  ErrorLine = ErrorLine
  MaxCalls = 3
  MaxLines = 3
  MaxCrashes = 1
INVARIANTS
  TypeOK
  ShowsSelectedShard
  NoStreamLeaks
  ShowsLogInOrder
PROPERTIES
  FollowsInTheEnd
CHECK_DEADLOCK FALSE
