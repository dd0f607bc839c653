\* One system with two feeds, one caller that waits for its answers.
CONSTANTS
  s1 = s1  s2 = s2  f1 = f1  f2 = f2  f3 = f3
  Systems = {s1}
  Feeds = {f1, f2}
  Owner <- MCOwnerOne
  Callers = {c1}
  None = None
  MayAbandon = FALSE
SPECIFICATION FairSpec
PROPERTIES
  ScheduledFeedIsUpdated
  RunReturnsWhenQuiet
  EveryCallReturns

