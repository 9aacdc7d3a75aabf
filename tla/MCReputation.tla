---------------------------- MODULE MCReputation ----------------------------
(* An instance of Reputation for TLC: two events from one public address   *)
(* and one from a private one.                                             *)
EXTENDS Reputation, TLC

CONSTANTS e1, e2, e3, ip1, lan

MCEvents == {e1, e2, e3}
MCIpOf == (e1 :> ip1) @@ (e2 :> ip1) @@ (e3 :> lan)

============================================================================
