SPECIFICATION FairSpec
CONSTANTS
  Services = {ssh, ftp}
  Ids = {e1, e2, e3}
  Fragments = {"junk", "poison", "whole"}
  BufferSize = 1
  MaxStops = 2
INVARIANTS
  RawOnce
  AtMostOnce
PROPERTIES
  Implements
  DecodableGetsEnriched
CHECK_DEADLOCK FALSE
