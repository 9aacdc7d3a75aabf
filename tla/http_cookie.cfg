\* A client that makes its cookie up, as the comment on the admin page forbids.
SPECIFICATION Spec
CONSTANTS
  Requests = {r1, r2}
  Clients = {k1, k2}
  Pairs <- MCPosted
  Allowed <- MCWeak
  None = None
  MaxStops = 1
INVARIANT
  AdminAfterLogin
CHECK_DEADLOCK FALSE
