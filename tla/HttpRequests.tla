---------------------------- MODULE HttpRequests ----------------------------
(***************************************************************************)
(* The HTTP honeypot: an Apache proxy (honeypots/proxy) in front of a      *)
(* FastAPI application (honeypots/http/app).  Requests are tasks of one    *)
(* event loop.  A request that Apache does not answer itself goes through  *)
(* log_requests, which sleeps, reads the body, emits the request event and *)
(* calls the route; the route emits its own events and answers.            *)
(*                                                                         *)
(* What a request asks for is all its route tells apart; pages differ only *)
(* where a property is about them.  Every event carries, for the           *)
(* properties, the request it was emitted for: the source gives it a       *)
(* src_ip and no session_id.                                               *)
(***************************************************************************)
EXTENDS Naturals, Sequences, FiniteSets

CONSTANTS
  Requests,  \* HTTP requests, each sent at most once
  Clients,   \* browsers, each with its cookies
  Pairs,     \* the credentials clients post
  Allowed,   \* ALLOWED_WP_CREDENTIALS
  None,
  MaxStops   \* bound: stops of the application

(* static: a file Apache serves; login: POST of a login form; multicall:   *)
(* POST to xmlrpc.php; malformed: POST of a login form that cannot be      *)
(* parsed; canary: GET /.env; admin: GET /wp-admin; page: every other      *)
(* route, and the paths that have none.                                    *)
Targets == {"static", "login", "other_login", "multicall", "malformed", "canary",
            "admin", "page"}

Posts == {"login", "other_login", "multicall"}

(* The cookie a request carries, if any, under a name that begins with      *)
(* wordpress_logged_in: the one the honeypot gave, or one made up.          *)
Cookies == {"none", "given", "made_up"}

(* The answers of the routes; Apache itself answers with a file or 503. *)
Shown == {"set_cookie", "admin", "page", "400"}

Answers == Shown \cup {"file", "503"}

ASSUME HttpAssumption ==
  /\ IsFiniteSet(Requests)
  /\ Allowed \subseteq Pairs
  /\ None \notin Pairs \cup Clients \cup Answers
  /\ MaxStops \in Nat

VARIABLES
  stops,    \* how often the application was stopped
  up,       \* the application runs
  request,  \* the requests
  cookie,   \* does the client hold LOGGED_IN_COOKIE?
  log       \* the events written, in order

vars == <<stops, up, request, cookie, log>>

Event ==
  [type : {"request", "credential_attempt", "auth_success", "canary_triggered"},
   of : Requests, creds : Pairs \cup {None}]

Entry(type, r) ==
  [type |-> type, of |-> r,
   creds |-> IF type \in {"credential_attempt", "auth_success"}
             THEN request[r].creds ELSE None]

Unsent == [state |-> "unsent", client |-> None, target |-> "page",
           creds |-> None, cookie |-> "none", waiting |-> FALSE, answer |-> None]

Init ==
  /\ stops = 0
  /\ up = TRUE
  /\ request = [r \in Requests |-> Unsent]
  /\ cookie = [k \in Clients |-> FALSE]
  /\ log = <<>>

(* Mutant of Forwarded: Apache finds the application though it is down. *)
ForwardedAnyway(target) == target # "static"

Forwarded(target) == target # "static" /\ up

(* A static file is answered by Apache; the rest is passed on, and answered *)
(* 503 while the application is down.  A client can send any cookie.        *)
Send(r, k, target, pair, sent) ==
  /\ request[r].state = "unsent"
  /\ sent = "given" => cookie[k]
  /\ request' = [request EXCEPT ![r] =
       [state |-> IF Forwarded(target) THEN "sleeping" ELSE "answered",
        client |-> k, target |-> target, cookie |-> sent,
        creds |-> IF target \in Posts THEN pair ELSE None,
        waiting |-> Forwarded(target),
        answer |-> IF Forwarded(target) THEN None
                   ELSE IF target = "static" THEN "file" ELSE "503"]]
  /\ UNCHANGED <<stops, up, cookie, log>>

(* The client, or Apache for it, closes the connection. *)
Leave(r) ==
  /\ request[r].waiting
  /\ request' = [request EXCEPT ![r].waiting = FALSE]
  /\ UNCHANGED <<stops, up, cookie, log>>

(* log_requests after its sleep.  request.body() raises if the client has  *)
(* gone by then, and the request is dropped.                               *)
LogRequest(r) ==
  /\ up
  /\ request[r].state = "sleeping"
  /\ IF request[r].waiting
     THEN /\ log' = Append(log, Entry("request", r))
          /\ request' = [request EXCEPT ![r].state = "routing"]
     ELSE /\ request' = [request EXCEPT ![r].state = "dropped"]
          /\ UNCHANGED log
  /\ UNCHANGED <<stops, up, cookie>>

LogsIn(r) == request[r].target = "login" /\ request[r].creds \in Allowed

(* Mutant of RouteEvents: a good login is logged as a success only. *)
RouteEventsOnce(r) ==
  CASE LogsIn(r) -> <<Entry("auth_success", r)>>
    [] request[r].target \in Posts /\ ~LogsIn(r) -> <<Entry("credential_attempt", r)>>
    [] request[r].target = "canary" -> <<Entry("canary_triggered", r)>>
    [] OTHER -> <<>>

(* What the route emits; only wp_login_post looks at the pair. *)
RouteEvents(r) ==
  CASE LogsIn(r) -> <<Entry("credential_attempt", r), Entry("auth_success", r)>>
    [] request[r].target \in Posts /\ ~LogsIn(r) -> <<Entry("credential_attempt", r)>>
    [] request[r].target = "canary" -> <<Entry("canary_triggered", r)>>
    [] OTHER -> <<>>

(* Mutant of Answer: wp_admin is served to everybody. *)
AnswerAdmin(r) ==
  CASE LogsIn(r) -> "set_cookie"
    [] request[r].target = "admin" -> "admin"
    [] request[r].target = "malformed" -> "400"
    [] OTHER -> "page"

(* request.form() raises before a malformed form is looked at, and wp_admin *)
(* looks at the name of the cookie only.                                    *)
Answer(r) ==
  CASE LogsIn(r) -> "set_cookie"
    [] request[r].target = "admin" /\ request[r].cookie # "none" -> "admin"
    [] request[r].target = "malformed" -> "400"
    [] OTHER -> "page"

(* Mutant of Route: it is cancelled when the client leaves. *)
RouteWhileWaited(r) ==
  /\ up
  /\ request[r].state = "routing"
  /\ request[r].waiting
  /\ log' = log \o RouteEvents(r)
  /\ request' = [request EXCEPT ![r].state = "answered", ![r].waiting = FALSE,
                                ![r].answer = Answer(r)]
  /\ cookie' = [cookie EXCEPT ![request[r].client] = @ \/ Answer(r) = "set_cookie"]
  /\ UNCHANGED <<stops, up>>

(***************************************************************************)
(* The route, which runs whether or not the client still waits; only a     *)
(* client that does gets the answer and its cookie.                        *)
(***************************************************************************)
Route(r) ==
  /\ up
  /\ request[r].state = "routing"
  /\ log' = log \o RouteEvents(r)
  /\ request' = [request EXCEPT ![r].state = "answered", ![r].waiting = FALSE,
                                ![r].answer = Answer(r)]
  /\ cookie' = [cookie EXCEPT ![request[r].client] =
                  @ \/ (request[r].waiting /\ Answer(r) = "set_cookie")]
  /\ UNCHANGED <<stops, up>>

(* The process ends; Apache answers for the requests it was working on. *)
Stop ==
  /\ up
  /\ stops < MaxStops
  /\ stops' = stops + 1
  /\ up' = FALSE
  /\ request' = [r \in Requests |->
       IF request[r].state \in {"sleeping", "routing"}
       THEN [request[r] EXCEPT !.state = "dropped", !.waiting = FALSE]
       ELSE request[r]]
  /\ UNCHANGED <<cookie, log>>

(* restart: unless-stopped *)
Restart ==
  /\ ~up
  /\ up' = TRUE
  /\ UNCHANGED <<stops, request, cookie, log>>

Next ==
  \/ \E r \in Requests, k \in Clients, target \in Targets, pair \in Pairs, sent \in Cookies :
       Send(r, k, target, pair, sent)
  \/ \E r \in Requests : Leave(r) \/ LogRequest(r) \/ Route(r)
  \/ Stop
  \/ Restart

Spec == Init /\ [][Next]_vars

(* The event loop runs what is ready. *)
Fairness == \A r \in Requests : WF_vars(LogRequest(r)) /\ WF_vars(Route(r))

FairSpec == Spec /\ Fairness

----------------------------------------------------------------------------
(***************************************************************************)
(* Properties.                                                             *)
(***************************************************************************)

(* The type of every variable. *)
TypeOK ==
  /\ stops \in 0 .. MaxStops
  /\ up \in BOOLEAN
  /\ request \in [Requests ->
       [state : {"unsent", "sleeping", "routing", "answered", "dropped"},
        client : Clients \cup {None}, target : Targets, creds : Pairs \cup {None},
        cookie : Cookies, waiting : BOOLEAN,
        answer : Answers \cup {None}]]
  /\ \A r \in Requests : request[r].state \in {"sleeping", "routing"}
       => up /\ request[r].client \in Clients
  /\ cookie \in [Clients -> BOOLEAN]
  /\ log \in Seq(Event)

(* Where the events of a request are in the log, and the how many-th of    *)
(* them an entry is.                                                       *)
EventsOf(r) == {i \in DOMAIN log : log[i].of = r}

Nth(r, i) == Cardinality({j \in EventsOf(r) : j <= i})

Story(r) ==
  <<"request">> \o
    (CASE LogsIn(r) -> <<"credential_attempt", "auth_success">>
       [] request[r].target \in Posts /\ ~LogsIn(r) -> <<"credential_attempt">>
       [] request[r].target = "canary" -> <<"canary_triggered">>
       [] OTHER -> <<>>)

(* However requests interleave, the events of one request are a beginning  *)
(* of: its request event, then the credentials it posted, then the success *)
(* if they are allowed; and the log of an answered request is complete.    *)
RequestStory ==
  \A r \in Requests :
    /\ \A i \in EventsOf(r) :
         Nth(r, i) <= Len(Story(r)) /\ log[i].type = Story(r)[Nth(r, i)]
    /\ request[r].answer \in Shown =>
         Cardinality(EventsOf(r)) = Len(Story(r))

(* Is an auth_success of this request's client logged before its event?    *)
AfterLogin(r) ==
  \E i, j \in DOMAIN log :
    /\ i < j
    /\ log[i].type = "auth_success"
    /\ request[log[i].of].client = request[r].client
    /\ log[j] = Entry("request", r)

(* A client that sends only the cookie it was given sees the admin page    *)
(* only after an auth_success of its own was logged, whatever was lost or  *)
(* restarted in between; and no client sees it without a cookie.           *)
AdminExplained ==
  \A r \in Requests : request[r].answer = "admin" =>
    request[r].cookie = "made_up" \/ (request[r].cookie = "given" /\ AfterLogin(r))

(* "Accessible uniquement avec un cookie de session valide (post-login)"   *)
(* (wordpress.py:131): the admin page is shown to nobody before a login of *)
(* theirs.                                                                 *)
AdminAfterLogin ==
  \A r \in Requests : request[r].answer = "admin" => AfterLogin(r)

(* Once its request event is written, a login whose form can be parsed is  *)
(* captured even if the client hangs up at once: only a stop of the        *)
(* application can prevent it.                                             *)
LoggedGetsCaptured ==
  \A r \in Requests :
    (request[r].state = "routing" /\ request[r].target \in Posts)
      ~> \/ \E i \in DOMAIN log : log[i] = Entry("credential_attempt", r)
         \/ request[r].state = "dropped"

============================================================================
