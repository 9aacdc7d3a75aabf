\* Two sessions, four events, thresholds that four events can reach.
SPECIFICATION FairSpec
CONSTANTS
  p = p
  q = q
  Paths = {p, q}
  NoPath = nopath
  BRUTEFORCE_MIN_AUTH = 2
  BRUTEFORCE_AUTH_RATIO = 60
  SCANNER_MIN_DISTINCT_PATHS = 2
  SCANNER_UA_MIN_PATHS = 1
  BOT_MIN_RATE_PER_MIN = 3
  BOT_MAX_TIMING_CV = 35
  Sessions = {s1, s2}
  Kinds <- MCKinds
  Gaps <- MCGaps
  MaxEvents = 4
  MaxStops = 1
INVARIANTS
  ProfileExplained
  ScannerIsFinal
PROPERTIES
  Settles
CHECK_DEADLOCK FALSE
