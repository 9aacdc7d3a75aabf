\* A session that escalates in one channel and opens another.
SPECIFICATION Spec
CONSTANTS
  Logins = {"admin"}
  Chans = {h1, h2}
  Lines <- MCLines
  MaxEvents = 4
INVARIANTS
  RootStays
CHECK_DEADLOCK FALSE
