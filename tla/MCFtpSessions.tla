--------------------------- MODULE MCFtpSessions ---------------------------
(* An instance of FtpSessions for TLC: the lists of credentials.  admin has *)
(* another password on each service, ubuntu is only known to the SSH       *)
(* honeypot, and root is listed by both.                                   *)
EXTENDS FtpSessions

MCPairs == {<<"admin", "good">>, <<"root", "good">>, <<"ubuntu", "good">>}
MCFtpCredentials == << <<"admin", "good">>, <<"root", "good">> >>
MCSshCredentials ==
  << <<"root", "good">>, <<"admin", "other">>, <<"ubuntu", "good">> >>

============================================================================
