\* The second connection is refused while the first is open.
SPECIFICATION FairSpec
CONSTANTS
  Conns = {c1, c2}
  Pairs <- MCPairs
  FtpCredentials <- MCFtpCredentials
  SshCredentials <- MCSshCredentials
  AnonymousEnabled = TRUE
  Lines = {"LIST", " LIST", "RETR"}
  MaxOpen = 1
  None = None
  MaxAttempts = 2
  MaxCommands = 2
INVARIANTS
  TypeOK
  StreamShape
  SummaryAgrees
  ReuseTagged
  DownloadsExplained
PROPERTIES
  EverythingReported
CHECK_DEADLOCK FALSE
