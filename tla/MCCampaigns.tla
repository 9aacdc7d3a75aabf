---------------------------- MODULE MCCampaigns ----------------------------
(* An instance of Campaigns for TLC: one service of each protocol.  `all`   *)
(* runs two campaigns in parallel, or three in sequence; ssh and ftp run    *)
(* one, with the options that lead to the other branches; dirsearch is not  *)
(* installed where the campaigns are parallel.                              *)
EXTENDS Campaigns

CONSTANTS web, ftp, ssh

MCServices == <<web, ftp, ssh>>
MCProtocol == (web :> "http") @@ (ftp :> "ftp") @@ (ssh :> "ssh")
MCLists ==
  {"usernames", "passwords", "directories", "ssh-default", "ftp-default",
   "http-default"}

All(parallel, terminal, skip, forced) ==
  [command |-> "all", parallel |-> parallel, terminal |-> terminal,
   full |-> FALSE, skip |-> skip, forced |-> forced, given |-> {},
   dirsearch |-> ~parallel]

Lone(command, terminal, full, skip, given) ==
  [command |-> command, parallel |-> FALSE, terminal |-> terminal,
   full |-> full, skip |-> skip, forced |-> {}, given |-> given,
   dirsearch |-> TRUE]

MCCommandLines ==
  {All(TRUE, FALSE, {"ftp"}, {}),
   All(FALSE, TRUE, {}, {ssh}),
   Lone("ssh", TRUE, TRUE, {}, {}),
   Lone("ssh", FALSE, FALSE, {}, {"ssh-default"}),
   Lone("ftp", FALSE, FALSE, {"hydra"}, {})}

============================================================================
