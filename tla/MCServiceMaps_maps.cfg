\* Two routes, five stops, default and other configurations.
CONSTANTS
  r1 = r1  r2 = r2
  Routes = {r1, r2}
  Stops = {1, 2, 3, 4, 5}
  Configs <- MCConfigs
  Defaults <- MCDefaults
  Files <- MCFiles
  Timetables <- MCTimetables
  None = None
SPECIFICATION Spec
INVARIANTS
  MapsAreSorted
  MapsAreCurrent
