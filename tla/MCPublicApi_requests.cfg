\* Stops: four of them, pages of one or two, five states of the tables.  The
\* other requests: four states of the tables, five moments.
CONSTANTS
  Databases <- MCDatabases
  IDs = {1, 2, 3, 4}
  Limits = {1, 2}
  Filters = {{1, 2, 3, 4}, {1, 3}}
  Skips = {{}, {"transfers", "times"}, {"alerts", "maps"}}
  None = None
  AllTables <- PublicDatabases
  LeftOut = {{}, {"maps", "headways"}, {"alerts"}}
  LastMoment = 4
SPECIFICATION ApiSpec
INVARIANTS
  AnswersAreCurrent
  ReferencesAreFound
  PagesAreComplete
  AnswersWereTrue
  EndpointsAgree
