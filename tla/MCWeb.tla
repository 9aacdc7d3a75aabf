-------------------------------- MODULE MCWeb --------------------------------
(***************************************************************************)
(* The web on both sides, for TLC: a behaviour is about the requests to    *)
(* the HTTP honeypot or about an attack on a site, and the other part      *)
(* stays as it is at the start.                                            *)
(***************************************************************************)
EXTENDS MCHttpRequests, MCWebSpray

VARIABLE part

WebInit ==
  /\ part \in {"honeypot", "attack"}
  /\ Init
  /\ SprayInit
  /\ part # "attack" => job = CHOOSE j \in Jobs : TRUE

Serving == part = "honeypot" /\ UNCHANGED <<part, sprayVars>>
Attacking == part = "attack" /\ UNCHANGED <<part, vars>>

\* Next or SprayNext, action by action.
WebNext ==
  \/ \E r \in Requests, k \in Clients, target \in Targets, pair \in Pairs, sent \in Cookies :
       Send(r, k, target, pair, sent) /\ Serving
  \/ \E r \in Requests : Leave(r) /\ Serving
  \/ \E r \in Requests : LogRequest(r) /\ Serving
  \/ \E r \in Requests : Route(r) /\ Serving
  \/ Stop /\ Serving
  \/ Restart /\ Serving
  \/ Probe /\ Attacking
  \/ Probed /\ Attacking
  \/ \E users \in {<<>>, FAKE_USERS} : enumerate_wordpress_users(users) /\ Attacking
  \/ \E looks_like_login \in BOOLEAN : Discover(looks_like_login) /\ Attacking
  \/ Discovered /\ Attacking
  \/ Attempt /\ Attacking
  \/ VectorEnds /\ Attacking
  \/ Sprayed /\ Attacking
  \/ analyze_logins /\ Attacking

\* Before anything was sent, the honeypot has nothing to do.
WebSpec == WebInit /\ [][WebNext]_<<part, vars, sprayVars>> /\ Fairness
=============================================================================
