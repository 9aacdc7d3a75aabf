\* One service of each protocol; three events of two addresses and two stops; three
\* runs, of which one may find a dashboard.
SPECIFICATION ProgramsSpec
CONSTANTS
  web = web
  ftp = ftp
  ssh = ssh
  Services <- MCServices
  Protocol <- MCProtocol
  Banners = {0}
  Weights = {0, 45, 80}
  CommandLines <- MCCommandLines
  Lists <- MCLists
  Blocks = 2
  None = none
  KeptLists = {"usernames", "directories", "ssh-default", "ftp-default", "http-default"}
  e1 = e1
  e2 = e2
  e3 = e3
  ip1 = ip1
  lan = lan
  Events <- MCEvents
  Ips = {ip1, lan}
  Public = {ip1}
  IpOf <- MCIpOf
  Verdicts = {benign, malicious}
  Neutral = neutral
  Nothing = nothing
  MaxDeaths = 2
  sshBoard = sshBoard
  httpBoard = httpBoard
  Titles = {sshBoard, httpBoard}
  Files <- MCFiles
  Runs = {a, b, c}
  Nobody = nobody
  MaxOld = 1
INVARIANTS
  AllAccounted
  VerdictAgrees
  EndsClean
  CachedDefaultsSuffice
  CallsBounded
  SoleRunIsExact
  LostByOneRun
  RivalsLeaveOne
PROPERTIES
  Ends
  ImplementsWordlists
  VerdictIsFinal
  EverythingIsWritten
  RunsEnd
CHECK_DEADLOCK FALSE
