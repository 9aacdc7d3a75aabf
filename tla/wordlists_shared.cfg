SPECIFICATION Spec
CONSTANTS
  Workers = {a, b}
  Lists = {usernames}
  Blocks = 2
  None = none
INVARIANTS
  CachedIsWhole
CHECK_DEADLOCK FALSE
