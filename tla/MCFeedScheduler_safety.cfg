CONSTANTS
  feed = f1
  MaxUpdates = 4
SPECIFICATION FeedSpec
INVARIANTS
  StatusIsAccurate
PROPERTIES
  FeedImplementsAbstract
  DoneIsClosed
  UpdatesKeepComing
CHECK_DEADLOCK FALSE
