\* Two requests of two clients, one stop; three targets, two lists of users and of
\* passwords, limits from none to seven.
SPECIFICATION WebSpec
CONSTANTS
  Requests = {r1, r2}
  Clients = {k1, k2}
  Pairs <- MCPosted
  Allowed <- MCWeak
  None = None
  MaxStops = 1
  Jobs <- MCJobs
  CmsPaths <- MCPaths
  SensitivePaths <- MCPaths
  COMMON_LOGIN_PATHS <- MCLogins
  Injections <- MCPaths
  CMS_LOGIN_VECTORS <- MCVectors
  GENERIC_FIELD_COMBOS <- MCCombos
  ALLOWED_WP_CREDENTIALS <- MCAllowed
  FAKE_USERS <- MCUsers
  Defaults = {"admin"}
  MANY_CREDENTIALS = 3
  SUSPECT_THRESHOLD = 50
  MAX_DISCOVERED_PATHS = 2
INVARIANTS
  TypeOK
  RequestStory
  AdminExplained
  AttemptsExact
  NoLoginTwice
  TrapIsSuspected
  BaitIsFound
PROPERTIES
  LoggedGetsCaptured
CHECK_DEADLOCK FALSE
