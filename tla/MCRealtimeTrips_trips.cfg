\* A feed that keeps its sequences and one whose sequences are reassigned, two
\* trips, three stops.
CONSTANTS
  f1 = f1  f2 = f2  t1 = t1  t2 = t2  a = a  b = b  c = c  r1 = r1  r2 = r2
  Feeds = {f1, f2}
  Reassign = {f2}
  Trips = {t1, t2}
  RouteOf <- MCRouteOf
  Stops = {a, b, c}
  Messages <- MCMessages
  None = None
  MaxInt32 = 100
  MaxSeq = 5
SPECIFICATION Spec
INVARIANTS
  UniqueSequences
  FutureIsTheFeed
  TripsAreTheFeeds
PROPERTIES
  RepeatsChangeNothing
  PastIsKept
