\* No client uses one address towards both listeners at once.
SPECIFICATION FairSpec
CONSTANTS
  Conns = {c1, c2}
  Chans = {h1, h2}
  Peers = {p1, p2}
  Listeners = {2222}
  Logins = {"admin", "root"}
  Passwords = {"admin123"}
  Credentials <- MCCredentials
  Kinds = {"plain", "exit"}
  PeerReuse = FALSE
  NoRecord = NoRecord
  MaxAttempts = 2
  MaxCommands = 3
INVARIANTS
  Correlated
  StreamShape
  NoCommandLost
PROPERTIES
  SummaryComesTrue
CHECK_DEADLOCK FALSE
