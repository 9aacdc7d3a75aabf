SPECIFICATION FairSpec
CONSTANTS
  Services = {ssh}
  Ids = {e1, e2}
  Fragments = {"poison"}
  BufferSize = 1
  MaxStops = 1
PROPERTY
  RecordedGetsEnriched
CHECK_DEADLOCK FALSE
