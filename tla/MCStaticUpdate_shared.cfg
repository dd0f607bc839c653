\* Two static feeds that share agencies, stops, routes, services and trips, and
\* a CSV feed.
CONSTANTS
  s1 = s1  s2 = s2  c1 = c1  a1 = a1  a2 = a2  r1 = r1  r2 = r2
  x = x  y = y  z = z  v1 = v1  v2 = v2  h1 = h1  h2 = h2  t1 = t1  t2 = t2
  Feeds = {s1, s2, c1}
  Csv = {c1}
  Accessibility = {c1}
  Files <- MCFiles
  None = None
SPECIFICATION Spec
INVARIANTS
  TypeOK
  RowsAreTheFiles
  TripsAreTheFiles
  IndependentUpdatesSucceed
  CsvIsKept
