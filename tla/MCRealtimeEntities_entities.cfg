\* Two feeds with alerts and vehicles in common, three trips.
CONSTANTS
  f1 = f1  f2 = f2  t1 = t1  t2 = t2  t3 = t3  a1 = a1  a2 = a2  c1 = c1  c2 = c2
  v1 = v1  v2 = v2  v3 = v3
  Feeds = {f1, f2}
  Trips = {t1, t2, t3}
  Alerts = {a1, a2}
  Contents = {c1, c2}
  Informs <- MCInforms
  Vehicles = {v1, v2, v3}
  Messages <- MCMessages
  None = None
  MaxBorn = 5
SPECIFICATION Spec
INVARIANTS
  AlertsAreTheFeeds
  VehiclesAreTheFeeds
  UpdatesSettle
