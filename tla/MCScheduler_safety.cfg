\* Two systems with one feed each, one caller that may give up.
CONSTANTS
  s1 = s1  s2 = s2  f1 = f1  f2 = f2  f3 = f3
  Systems = {s1, s2}
  Feeds = {f1, f2}
  Owner <- MCOwner2
  Callers = {c1}
  None = None
  MayAbandon = TRUE
SPECIFICATION Spec
INVARIANTS
  AtMostOneUpdate
  StoppedSystemIsQuiet
  SyncedSystemIsScheduled
PROPERTIES
  ImplementsAbstract
