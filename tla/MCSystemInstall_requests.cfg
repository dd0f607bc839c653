\* Two requests that may overlap, two feeds of which one is required.
CONSTANTS
  Requests = {r1, r2}
  Feeds = {f1, f2}
  Required = {f1}
  None = None
SPECIFICATION FairSpec
INVARIANTS
  QuietScheduleIsCurrent
  SequentiallyActiveMeansInstalled
PROPERTIES
  InProgressEnds
CHECK_DEADLOCK FALSE
