\* Two channels of one connection, five openings and lines in all.
SPECIFICATION Spec
CONSTANTS
  Logins = {"admin", "deploy"}
  Chans = {h1, h2}
  Lines <- MCLines
  MaxEvents = 5
SYMMETRY Channels
INVARIANTS
  IdentityExplained
  PlacesExplained
CHECK_DEADLOCK FALSE
