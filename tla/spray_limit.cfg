\* The limit on the attempts of an attack, as docs/ATTACKER.md states it.
SPECIFICATION SpraySpec
CONSTANTS
  Jobs <- MCJobs
  CmsPaths <- MCPaths
  SensitivePaths <- MCPaths
  COMMON_LOGIN_PATHS <- MCLogins
  Injections <- MCPaths
  CMS_LOGIN_VECTORS <- MCVectors
  GENERIC_FIELD_COMBOS <- MCCombos
  ALLOWED_WP_CREDENTIALS <- MCAllowed
  FAKE_USERS <- MCUsers
  Defaults = {"admin"}
  MANY_CREDENTIALS = 3
  SUSPECT_THRESHOLD = 50
  MAX_DISCOVERED_PATHS = 2
INVARIANT
  LimitCapsAttack
CHECK_DEADLOCK FALSE
