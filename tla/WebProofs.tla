------------------------------ MODULE WebProofs ------------------------------
(* Proofs about the web: HttpRequests, for any requests, clients and       *)
(* credentials, and WebSpray, for any lists, login pages and limits.       *)
EXTENDS HttpRequests, WebSpray, SequenceFacts

(***************************************************************************)
(* HTTP: types.                                                            *)
(***************************************************************************)
RequestType ==
  [state : {"unsent", "sleeping", "routing", "answered", "dropped"},
   client : Clients \cup {None}, target : Targets,
   creds : Pairs \cup {None},
   cookie : Cookies, waiting : BOOLEAN,
   answer : Answers \cup {None}]

(* The events of a request are events. *)
LEMMA WebEntryType ==
  ASSUME request \in [Requests -> RequestType], NEW r \in Requests,
         NEW type \in {"request", "credential_attempt", "auth_success", "canary_triggered"}
  PROVE  /\ Entry(type, r) \in Event
         /\ Entry(type, r).type = type /\ Entry(type, r).of = r
<1>1. request[r].creds \in Pairs \cup {None}
  BY DEF RequestType
<1>. QED
  BY <1>1 DEF Entry, Event

(* The route answers 400 or with a page, the admin page or a cookie, the   *)
(* cookie for a login with allowed credentials.                            *)
LEMMA AnswerCases ==
  ASSUME NEW r \in Requests
  PROVE  /\ Answer(r) \in Shown
         /\ Answer(r) = "set_cookie" <=> LogsIn(r)
         /\ Answer(r) = "admin" => request[r].cookie # "none"
<1>1. LogsIn(r) => request[r].target \notin {"admin", "malformed"}
  BY DEF LogsIn
<1>2. CASE LogsIn(r)
  BY <1>1, <1>2 DEF Answer, Shown
<1>3. CASE ~LogsIn(r) /\ request[r].target = "admin" /\ request[r].cookie # "none"
  BY <1>3 DEF Answer, Shown
<1>4. CASE ~LogsIn(r) /\ request[r].target = "malformed"
  BY <1>4 DEF Answer, Shown
<1>5. CASE /\ ~LogsIn(r) /\ request[r].target # "malformed"
           /\ ~(request[r].target = "admin" /\ request[r].cookie # "none")
  BY <1>5 DEF Answer, Shown
<1>. QED
  BY <1>2, <1>3, <1>4, <1>5

(* What the route emits: both events of a login, one event, or none. *)
LEMMA RouteCases ==
  ASSUME NEW r \in Requests
  PROVE  \/ /\ LogsIn(r)
            /\ RouteEvents(r) =
                 <<Entry("credential_attempt", r), Entry("auth_success", r)>>
            /\ Story(r) = <<"request">> \o <<"credential_attempt", "auth_success">>
         \/ /\ ~LogsIn(r)
            /\ RouteEvents(r) = <<Entry("credential_attempt", r)>>
            /\ Story(r) = <<"request">> \o <<"credential_attempt">>
         \/ /\ ~LogsIn(r)
            /\ RouteEvents(r) = <<Entry("canary_triggered", r)>>
            /\ Story(r) = <<"request">> \o <<"canary_triggered">>
         \/ /\ ~LogsIn(r)
            /\ RouteEvents(r) = <<>>
            /\ Story(r) = <<"request">> \o <<>>
<1>1. LogsIn(r) => request[r].target # "canary"
  BY DEF LogsIn
<1>2. request[r].target \in Posts => request[r].target # "canary"
  BY DEF Posts
<1>3. CASE LogsIn(r)
  BY <1>1, <1>3 DEF RouteEvents, Story
<1>4. CASE ~LogsIn(r) /\ request[r].target \in Posts
  BY <1>2, <1>4 DEF RouteEvents, Story
<1>5. CASE ~LogsIn(r) /\ request[r].target = "canary"
  BY <1>2, <1>5 DEF RouteEvents, Story
<1>6. CASE ~LogsIn(r) /\ request[r].target \notin Posts
           /\ request[r].target # "canary"
  BY <1>6 DEF RouteEvents, Story
<1>. QED
  BY <1>3, <1>4, <1>5, <1>6

(* The honeypot begins with every variable of its type. *)
LEMMA WebTypeInit == Init => TypeOK
<1>1. Unsent \in RequestType
  BY DEF Unsent, RequestType, Targets, Cookies
<1>2. <<>> \in Seq(Event) /\ 0 \in 0 .. MaxStops
  BY HttpAssumption
<1>. QED
  BY <1>1, <1>2 DEF Init, TypeOK, Unsent, RequestType

(* No step takes a variable out of its type. *)
LEMMA WebTypeStep ==
  TypeOK /\ [Next]_vars => TypeOK'
<1> SUFFICES ASSUME TypeOK, [Next]_vars PROVE TypeOK'
  OBVIOUS
<1>t. /\ request \in [Requests -> RequestType] /\ log \in Seq(Event)
      /\ stops \in 0 .. MaxStops /\ up \in BOOLEAN /\ cookie \in [Clients -> BOOLEAN]
      /\ \A r \in Requests : request[r].state \in {"sleeping", "routing"}
           => up /\ request[r].client \in Clients
  BY DEF TypeOK, RequestType
<1>k. ASSUME stops' \in 0 .. MaxStops, up' \in BOOLEAN,
             request' \in [Requests -> RequestType],
             \A r \in Requests : request'[r].state \in {"sleeping", "routing"}
               => up' /\ request'[r].client \in Clients,
             cookie' \in [Clients -> BOOLEAN], log' \in Seq(Event)
      PROVE  TypeOK'
  BY <1>k DEF TypeOK, RequestType, Targets, Event
<1>1. ASSUME NEW r \in Requests, NEW k \in Clients, NEW target \in Targets,
             NEW pair \in Pairs, NEW sent \in Cookies, Send(r, k, target, pair, sent)
      PROVE  TypeOK'
  <2> DEFINE record ==
       [state |-> IF Forwarded(target) THEN "sleeping" ELSE "answered",
        client |-> k, target |-> target, cookie |-> sent,
        creds |-> IF target \in Posts THEN pair ELSE None,
        waiting |-> Forwarded(target),
        answer |-> IF Forwarded(target) THEN None
                   ELSE IF target = "static" THEN "file" ELSE "503"]
  <2>1. request' = [request EXCEPT ![r] = record]
        /\ UNCHANGED <<stops, up, cookie, log>>
    BY <1>1 DEF Send
  <2>2. Forwarded(target) \in BOOLEAN /\ (Forwarded(target) => up)
    BY <1>t DEF Forwarded
  <2>3. record \in RequestType /\ record.client \in Clients
        /\ (record.state \in {"sleeping", "routing"} => up)
    BY <1>t, <2>2 DEF RequestType, Answers
  <2>. HIDE DEF record
  <2>. QED
    BY <1>t, <1>k, <2>1, <2>3
<1>2. ASSUME NEW r \in Requests, Leave(r) PROVE TypeOK'
  <2>1. [request[r] EXCEPT !.waiting = FALSE] \in RequestType
    BY <1>t DEF RequestType
  <2>2. request' = [request EXCEPT ![r] = [request[r] EXCEPT !.waiting = FALSE]]
    BY <1>2 DEF Leave
  <2>3. /\ [request[r] EXCEPT !.waiting = FALSE].state = request[r].state
        /\ [request[r] EXCEPT !.waiting = FALSE].client = request[r].client
    BY <1>t DEF RequestType
  <2>. QED
    BY <1>2, <1>t, <1>k, <2>1, <2>2, <2>3 DEF Leave
<1>3. ASSUME NEW r \in Requests, LogRequest(r) PROVE TypeOK'
  <2>1. PICK x \in {"routing", "dropped"} :
          request' = [request EXCEPT ![r] = [request[r] EXCEPT !.state = x]]
    BY <1>3 DEF LogRequest
  <2>2. /\ [request[r] EXCEPT !.state = x] \in RequestType
        /\ [request[r] EXCEPT !.state = x].client = request[r].client
    BY <1>t DEF RequestType
  <2>3. up /\ request[r].client \in Clients /\ UNCHANGED <<stops, up, cookie>>
    BY <1>3, <1>t DEF LogRequest
  <2>4. log' \in Seq(Event)
    <3>1. Entry("request", r) \in Event
      BY <1>t, WebEntryType
    <3>. QED
      BY <1>3, <1>t, <3>1 DEF LogRequest
  <2>. QED
    BY <1>t, <1>k, <2>1, <2>2, <2>3, <2>4
<1>4. ASSUME NEW r \in Requests, Route(r) PROVE TypeOK'
  <2> DEFINE record == [request[r] EXCEPT !.state = "answered", !.waiting = FALSE,
                                          !.answer = Answer(r)]
  <2>1. request' = [request EXCEPT ![r] = record] /\ UNCHANGED <<stops, up>>
    BY <1>4 DEF Route
  <2>2. record \in RequestType /\ record.state = "answered"
    BY <1>t, AnswerCases DEF RequestType, Answers
  <2>. HIDE DEF record
  <2>3. cookie' \in [Clients -> BOOLEAN]
    <3>1. request[r].client \in Clients /\ request[r].waiting \in BOOLEAN
      BY <1>4, <1>t DEF Route, RequestType
    <3>. QED
      BY <1>4, <1>t, <3>1 DEF Route
  <2>4. log' \in Seq(Event)
    <3>1. /\ Entry("credential_attempt", r) \in Event
          /\ Entry("auth_success", r) \in Event
          /\ Entry("canary_triggered", r) \in Event
      BY <1>t, WebEntryType
    <3>2. /\ <<>> \in Seq(Event)
          /\ \A a, b \in Event : <<a>> \in Seq(Event) /\ <<a, b>> \in Seq(Event)
      OBVIOUS
    <3>3. RouteEvents(r) \in Seq(Event)
      BY <3>1, <3>2, RouteCases
    <3>. QED
      BY <1>4, <1>t, <3>3 DEF Route
  <2>. QED
    BY <1>t, <1>k, <2>1, <2>2, <2>3, <2>4
<1>5. CASE Stop
  <2>1. request' = [r \in Requests |->
          IF request[r].state \in {"sleeping", "routing"}
          THEN [request[r] EXCEPT !.state = "dropped", !.waiting = FALSE]
          ELSE request[r]]
    BY <1>5 DEF Stop
  <2>2. \A r \in Requests :
          /\ [request[r] EXCEPT !.state = "dropped", !.waiting = FALSE] \in RequestType
          /\ [request[r] EXCEPT !.state = "dropped", !.waiting = FALSE].state = "dropped"
    BY <1>t DEF RequestType
  <2>3. stops' \in 0 .. MaxStops
    <3>1. stops < MaxStops /\ stops' = stops + 1
      BY <1>5 DEF Stop
    <3>2. MaxStops \in Nat
      BY HttpAssumption
    <3>. QED
      BY <1>t, <3>1, <3>2
  <2>4. request' \in [Requests -> RequestType]
    BY <1>t, <2>1, <2>2
  <2>5. \A r \in Requests : request'[r].state \notin {"sleeping", "routing"}
    BY <2>1, <2>2
  <2>. QED
    BY <1>5, <1>t, <1>k, <2>3, <2>4, <2>5 DEF Stop
<1>6. CASE Restart
  BY <1>6, <1>t, <1>k DEF Restart
<1>7. CASE UNCHANGED vars
  BY <1>7, <1>t, <1>k DEF vars
<1>. QED
  BY <1>1, <1>2, <1>3, <1>4, <1>5, <1>6, <1>7 DEF Next

(* The variables of the HTTP honeypot always have their types, and only a  *)
(* running application has requests under way.                             *)
THEOREM HttpTyped == Spec => []TypeOK
<1>. QED
  BY WebTypeInit, WebTypeStep, PTL DEF Spec

(***************************************************************************)
(* HTTP: what is told of a request.                                        *)
(***************************************************************************)

(* The events of request r in s, and which of them an entry is.            *)
EventsIn(s, r) == {i \in DOMAIN s : s[i].of = r}

NthIn(s, r, i) == Cardinality({j \in EventsIn(s, r) : j <= i})

(* s has n events of r, and they are the first n of its story.             *)
Told(s, r, n, story) ==
  /\ Cardinality(EventsIn(s, r)) = n
  /\ \A i \in EventsIn(s, r) :
       NthIn(s, r, i) \in 1 .. n /\ s[i].type = story[NthIn(s, r, i)]

(* The next event of the story takes it one further.                       *)
LEMMA TellOne ==
  ASSUME NEW s \in Seq(Event), NEW e \in Event, NEW r, e.of = r,
         NEW n \in Nat, NEW story, Told(s, r, n, story), e.type = story[n + 1]
  PROVE  Told(Append(s, e), r, n + 1, story)
<1> DEFINE t == Append(s, e)
           m == Len(s) + 1
<1>1. /\ DOMAIN t = DOMAIN s \cup {m} /\ t[m] = e /\ m \notin DOMAIN s /\ m \in Nat
      /\ \A i \in DOMAIN s : t[i] = s[i] /\ i \in Nat /\ i < m
  BY AppendEvent
<1>. HIDE DEF t, m
<1>2. EventsIn(t, r) = EventsIn(s, r) \cup {m} /\ EventsIn(s, r) \in SUBSET DOMAIN s
  BY <1>1 DEF EventsIn
<1>3. Cardinality(EventsIn(t, r)) = n + 1
  BY <1>2, CountPositions DEF m, Told
<1>4. ASSUME NEW i \in EventsIn(s, r)
      PROVE  NthIn(t, r, i) = NthIn(s, r, i) /\ t[i] = s[i]
  <2>1. i \in Nat /\ i < m /\ t[i] = s[i]
    BY <1>1, <1>2
  <2>2. {j \in EventsIn(t, r) : j <= i} = {j \in EventsIn(s, r) : j <= i}
    BY <1>1, <1>2, <2>1
  <2>. QED
    BY <2>1, <2>2 DEF NthIn
<1>5. NthIn(t, r, m) = n + 1
  <2>1. {j \in EventsIn(t, r) : j <= m} = EventsIn(t, r)
    BY <1>1, <1>2
  <2>. QED
    BY <1>3, <2>1 DEF NthIn
<1>6. ASSUME NEW i \in EventsIn(t, r)
      PROVE  NthIn(t, r, i) \in 1 .. n + 1 /\ t[i].type = story[NthIn(t, r, i)]
  <2>1. CASE i = m
    BY <1>1, <1>5, <2>1
  <2>2. CASE i \in EventsIn(s, r)
    <3>1. NthIn(s, r, i) \in 1 .. n /\ s[i].type = story[NthIn(s, r, i)]
      BY <2>2 DEF Told
    <3>. QED
      BY <1>4, <2>2, <3>1
  <2>. QED
    BY <1>2, <2>1, <2>2
<1>7. Told(t, r, n + 1, story)
  BY <1>3, <1>6 DEF Told
<1>. QED
  BY <1>7 DEF t

(* An event of another request changes nothing for it.                     *)
LEMMA TellOther ==
  ASSUME NEW s \in Seq(Event), NEW e \in Event, NEW r, e.of # r,
         NEW n, NEW story, Told(s, r, n, story)
  PROVE  Told(Append(s, e), r, n, story)
<1> DEFINE t == Append(s, e)
<1>1. /\ DOMAIN t = DOMAIN s \cup {Len(s) + 1} /\ t[Len(s) + 1] = e
      /\ \A i \in DOMAIN s : t[i] = s[i]
  BY AppendEvent
<1>. HIDE DEF t
<1>2. EventsIn(t, r) = EventsIn(s, r)
  BY <1>1 DEF EventsIn
<1>3. \A i \in EventsIn(s, r) : t[i] = s[i] /\ NthIn(t, r, i) = NthIn(s, r, i)
  BY <1>1, <1>2 DEF EventsIn, NthIn
<1>4. Told(t, r, n, story)
  BY <1>2, <1>3 DEF Told
<1>. QED
  BY <1>4 DEF t

(* Where nothing is told of a request, nothing is told of any story.       *)
LEMMA ToldNothing ==
  ASSUME NEW s \in Seq(Event), NEW r, NEW story
  PROVE  Told(s, r, 0, story) <=> EventsIn(s, r) = {}
<1>1. EventsIn(s, r) \in SUBSET DOMAIN s
  BY DEF EventsIn
<1>2. IsFiniteSet(EventsIn(s, r))
  BY <1>1, CountPositions
<1>. QED
  BY <1>2, FS_EmptySet DEF Told

(* The story of a request: its event, then what its route emits.           *)
LEMMA StoryFacts ==
  ASSUME request \in [Requests -> RequestType], NEW r \in Requests
  PROVE  /\ Len(Story(r)) \in Nat \ {0} /\ Story(r)[1] = "request"
         /\ \/ /\ Len(Story(r)) = 3
               /\ \E a, b \in Event :
                    /\ RouteEvents(r) = <<a, b>> /\ a.of = r /\ b.of = r
                    /\ a.type = Story(r)[2] /\ b.type = Story(r)[3]
            \/ /\ Len(Story(r)) = 2
               /\ \E a \in Event :
                    RouteEvents(r) = <<a>> /\ a.of = r /\ a.type = Story(r)[2]
            \/ Len(Story(r)) = 1 /\ RouteEvents(r) = <<>>
<1>1. \A type \in {"credential_attempt", "auth_success", "canary_triggered"} :
        /\ Entry(type, r) \in Event
        /\ Entry(type, r).type = type /\ Entry(type, r).of = r
  BY WebEntryType
<1>2. CASE /\ RouteEvents(r) =
                <<Entry("credential_attempt", r), Entry("auth_success", r)>>
           /\ Story(r) = <<"request">> \o <<"credential_attempt", "auth_success">>
  <2>1. /\ Len(Story(r)) = 3 /\ Story(r)[1] = "request"
        /\ Story(r)[2] = "credential_attempt" /\ Story(r)[3] = "auth_success"
    BY <1>2
  <2>. QED
    BY <1>1, <1>2, <2>1
<1>3. ASSUME NEW type \in {"credential_attempt", "canary_triggered"},
             RouteEvents(r) = <<Entry(type, r)>>,
             Story(r) = <<"request">> \o <<type>>
      PROVE  /\ Len(Story(r)) = 2 /\ Story(r)[1] = "request"
             /\ \E a \in Event :
                  RouteEvents(r) = <<a>> /\ a.of = r /\ a.type = Story(r)[2]
  <2>1. /\ Len(Story(r)) = 2 /\ Story(r)[1] = "request" /\ Story(r)[2] = type
    BY <1>3
  <2>. QED
    BY <1>1, <1>3, <2>1
<1>4. CASE RouteEvents(r) = <<>> /\ Story(r) = <<"request">> \o <<>>
  <2>1. Len(Story(r)) = 1 /\ Story(r)[1] = "request"
    BY <1>4
  <2>. QED
    BY <1>4, <2>1
<1>5. \/ /\ RouteEvents(r) =
              <<Entry("credential_attempt", r), Entry("auth_success", r)>>
         /\ Story(r) = <<"request">> \o <<"credential_attempt", "auth_success">>
      \/ \E type \in {"credential_attempt", "canary_triggered"} :
           RouteEvents(r) = <<Entry(type, r)>> /\ Story(r) = <<"request">> \o <<type>>
      \/ RouteEvents(r) = <<>> /\ Story(r) = <<"request">> \o <<>>
  BY RouteCases
<1>6. CASE \E type \in {"credential_attempt", "canary_triggered"} :
             /\ RouteEvents(r) = <<Entry(type, r)>>
             /\ Story(r) = <<"request">> \o <<type>>
  <2>1. PICK type \in {"credential_attempt", "canary_triggered"} :
               /\ RouteEvents(r) = <<Entry(type, r)>>
               /\ Story(r) = <<"request">> \o <<type>>
    BY <1>6
  <2>2. /\ Len(Story(r)) = 2 /\ Story(r)[1] = "request"
        /\ \E a \in Event :
             RouteEvents(r) = <<a>> /\ a.of = r /\ a.type = Story(r)[2]
    BY <1>3, <2>1
  <2>. QED
    BY <2>2
<1>. QED
  BY <1>2, <1>4, <1>5, <1>6

(* How much of its story the log tells of a request, by where it stands.   *)
Reached(r, n) ==
  CASE request[r].state \in {"unsent", "sleeping"} -> n = 0
    [] request[r].state = "routing" -> n = 1
    [] request[r].state = "dropped" -> n \in {0, 1}
    [] OTHER -> n = IF request[r].answer \in Shown THEN Len(Story(r)) ELSE 0

ToldAsReached(r) ==
  /\ request[r].answer \in Shown => request[r].state = "answered"
  /\ \E n \in Nat : Reached(r, n) /\ Told(log, r, n, Story(r))

StoryInv == TypeOK /\ \A r \in Requests : ToldAsReached(r)

(* A request keeps its story while it asks for the same.                   *)
LEMMA StoryKept ==
  ASSUME NEW r, request'[r].target = request[r].target,
         request'[r].creds = request[r].creds
  PROVE  Story(r)' = Story(r)
BY DEF Story, LogsIn

(* A request nothing happens to is told of as before.                      *)
LEMMA StoryUntouched ==
  ASSUME NEW r, ToldAsReached(r), request'[r] = request[r],
         \A n, story : Told(log, r, n, story) => Told(log', r, n, story)
  PROVE  ToldAsReached(r)'
<1>1. Story(r)' = Story(r)
  BY StoryKept
<1>2. PICK n \in Nat : Reached(r, n) /\ Told(log, r, n, Story(r))
  BY DEF ToldAsReached
<1>3. Reached(r, n)'
  BY <1>1, <1>2 DEF Reached
<1>4. Told(log, r, n, Story(r))'
  BY <1>1, <1>2 DEF Told
<1>. QED
  BY <1>3, <1>4 DEF ToldAsReached

(* At the start no request has an event.                                   *)
LEMMA StoryInit == Init => StoryInv
<1> SUFFICES ASSUME Init, NEW r \in Requests PROVE ToldAsReached(r)
  BY WebTypeInit DEF StoryInv
<1>1. /\ request[r].state = "unsent" /\ request[r].answer = None
      /\ log = <<>> /\ None \notin Shown
  BY HttpAssumption DEF Init, Unsent, Answers, Shown
<1>2. EventsIn(log, r) = {} /\ log \in Seq(Event)
  BY <1>1 DEF EventsIn
<1>3. Told(log, r, 0, Story(r))
  BY <1>2, ToldNothing
<1>4. Reached(r, 0)
  BY <1>1 DEF Reached
<1>. QED
  BY <1>1, <1>3, <1>4 DEF ToldAsReached

(* Every step tells what it makes of a request.                            *)
LEMMA StoryStep ==
  StoryInv /\ [Next]_vars => StoryInv'
<1> SUFFICES ASSUME StoryInv, [Next]_vars PROVE StoryInv'
  OBVIOUS
<1>t. /\ TypeOK /\ TypeOK' /\ log \in Seq(Event)
      /\ request \in [Requests -> RequestType]
  BY WebTypeStep DEF StoryInv, TypeOK, RequestType
<1>s. \A r \in Requests : ToldAsReached(r)
  BY DEF StoryInv
<1>n. None \notin Shown /\ "file" \notin Shown /\ "503" \notin Shown
  BY HttpAssumption DEF Answers, Shown
<1>1. ASSUME NEW r \in Requests, ToldAsReached(r)',
             \A q \in Requests \ {r} : request'[q] = request[q],
             \A q \in Requests \ {r} : \A n, story :
               Told(log, q, n, story) => Told(log', q, n, story)
      PROVE  StoryInv'
  <2>1. \A q \in Requests \ {r} : ToldAsReached(q)'
    BY <1>1, <1>s, StoryUntouched
  <2>. QED
    BY <1>1, <1>t, <2>1 DEF StoryInv
<1>2. ASSUME NEW r \in Requests, NEW k \in Clients, NEW target \in Targets,
             NEW pair \in Pairs, NEW sent \in Cookies, Send(r, k, target, pair, sent)
      PROVE  StoryInv'
  <2>1. /\ request[r].state = "unsent" /\ log' = log
        /\ \A q \in Requests \ {r} : request'[q] = request[q]
        /\ request'[r].state \in {"sleeping", "answered"}
        /\ request'[r].answer \in {None, "file", "503"}
        /\ request'[r].answer = None <=> request'[r].state = "sleeping"
    BY <1>2, <1>t, HttpAssumption DEF Send, Answers
  <2>2. EventsIn(log, r) = {}
    BY <1>s, <1>t, <2>1, ToldNothing DEF ToldAsReached, Reached
  <2>3. Told(log', r, 0, Story(r)')
    BY <1>t, <2>1, <2>2, ToldNothing
  <2>4. request'[r].answer \notin Shown
    BY <1>n, <2>1
  <2>5. Reached(r, 0)'
    BY <2>1, <2>4 DEF Reached
  <2>6. ToldAsReached(r)'
    BY <2>3, <2>4, <2>5 DEF ToldAsReached, Told
  <2>. QED
    BY <1>1, <2>1, <2>6
<1>3. ASSUME NEW r \in Requests, Leave(r) PROVE StoryInv'
  <2>1. /\ log' = log
        /\ \A q \in Requests \ {r} : request'[q] = request[q]
        /\ request'[r].state = request[r].state /\ request'[r].answer = request[r].answer
        /\ request'[r].target = request[r].target /\ request'[r].creds = request[r].creds
    BY <1>3, <1>t DEF Leave, RequestType
  <2>2. Story(r)' = Story(r)
    BY <2>1, StoryKept
  <2>3. ToldAsReached(r)'
    <3>1. PICK n \in Nat : Reached(r, n) /\ Told(log, r, n, Story(r))
      BY <1>s DEF ToldAsReached
    <3>2. Reached(r, n)' /\ Told(log, r, n, Story(r))'
      BY <2>1, <2>2, <3>1 DEF Reached, Told
    <3>. QED
      BY <1>s, <2>1, <3>2 DEF ToldAsReached
  <2>. QED
    BY <1>1, <2>1, <2>3
<1>4. ASSUME NEW r \in Requests, LogRequest(r) PROVE StoryInv'
  <2> DEFINE e == Entry("request", r)
  <2>1. e \in Event /\ e.type = "request" /\ e.of = r
    BY <1>t, WebEntryType
  <2>2. /\ request[r].state = "sleeping"
        /\ \A q \in Requests \ {r} : request'[q] = request[q]
        /\ \/ log' = Append(log, e) /\ request'[r].state = "routing"
           \/ log' = log /\ request'[r].state = "dropped"
        /\ request'[r].answer = request[r].answer
        /\ request'[r].target = request[r].target /\ request'[r].creds = request[r].creds
    BY <1>4, <1>t DEF LogRequest, RequestType
  <2>. HIDE DEF e
  <2>3. Story(r)' = Story(r) /\ Story(r)[1] = "request"
    BY <1>t, <2>2, StoryKept, StoryFacts
  <2>4. Told(log, r, 0, Story(r)) /\ request[r].answer \notin Shown
    BY <1>s, <2>2 DEF ToldAsReached, Reached
  <2>5. ToldAsReached(r)'
    <3>1. CASE log' = Append(log, e) /\ request'[r].state = "routing"
      <4>1. Told(Append(log, e), r, 0 + 1, Story(r))
        BY <1>t, <2>1, <2>3, <2>4, TellOne
      <4>2. Told(log', r, 1, Story(r))
        BY <3>1, <4>1
      <4>3. Told(log, r, 1, Story(r))'
        BY <2>3, <4>2 DEF Told
      <4>4. Reached(r, 1)'
        BY <3>1 DEF Reached
      <4>. QED
        BY <2>2, <2>4, <4>3, <4>4 DEF ToldAsReached
    <3>2. CASE log' = log /\ request'[r].state = "dropped"
      <4>1. Told(log, r, 0, Story(r))'
        BY <2>3, <2>4, <3>2 DEF Told
      <4>2. Reached(r, 0)'
        BY <3>2 DEF Reached
      <4>. QED
        BY <2>2, <2>4, <4>1, <4>2 DEF ToldAsReached
    <3>. QED
      BY <2>2, <3>1, <3>2
  <2>6. ASSUME NEW q \in Requests \ {r}, NEW n, NEW story, Told(log, q, n, story)
        PROVE  Told(log', q, n, story)
    <3>1. Told(Append(log, e), q, n, story)
      BY <1>t, <2>1, <2>6, TellOther
    <3>. QED
      BY <2>2, <2>6, <3>1
  <2>. QED
    BY <1>1, <2>2, <2>5, <2>6
<1>5. ASSUME NEW r \in Requests, Route(r) PROVE StoryInv'
  <2>1. /\ request[r].state = "routing"
        /\ log' = log \o RouteEvents(r)
        /\ \A q \in Requests \ {r} : request'[q] = request[q]
        /\ request'[r].state = "answered" /\ request'[r].answer = Answer(r)
        /\ request'[r].target = request[r].target /\ request'[r].creds = request[r].creds
    BY <1>5, <1>t DEF Route, RequestType
  <2>2. Answer(r) \in Shown
    BY AnswerCases DEF Shown
  <2>3. Story(r)' = Story(r) /\ Len(Story(r)) \in Nat
    BY <1>t, <2>1, StoryKept, StoryFacts
  <2>4. Told(log, r, 1, Story(r))
    BY <1>s, <2>1 DEF ToldAsReached, Reached
  <2>5. /\ Told(log', r, Len(Story(r)), Story(r))
        /\ \A q \in Requests \ {r} : \A n, story :
             Told(log, q, n, story) => Told(log', q, n, story)
    <3>1. CASE /\ Len(Story(r)) = 3
               /\ \E a, b \in Event :
                    /\ RouteEvents(r) = <<a, b>> /\ a.of = r /\ b.of = r
                    /\ a.type = Story(r)[2] /\ b.type = Story(r)[3]
      <4>1. PICK a \in Event, b \in Event :
              /\ RouteEvents(r) = <<a, b>> /\ a.of = r /\ b.of = r
              /\ a.type = Story(r)[1 + 1] /\ b.type = Story(r)[2 + 1]
        BY <3>1
      <4>2. log' = Append(Append(log, a), b) /\ Append(log, a) \in Seq(Event)
        BY <1>t, <2>1, <4>1
      <4>3. Told(Append(log, a), r, 1 + 1, Story(r))
        BY <1>t, <2>4, <4>1, TellOne
      <4>4. Told(Append(Append(log, a), b), r, 2 + 1, Story(r))
        <5>1. Told(Append(log, a), r, 2, Story(r))
          BY <4>3
        <5>. QED
          BY <4>1, <4>2, <5>1, TellOne
      <4>5. ASSUME NEW q \in Requests \ {r}, NEW n, NEW story, Told(log, q, n, story)
            PROVE  Told(log', q, n, story)
        <5>1. Told(Append(log, a), q, n, story)
          BY <1>t, <4>1, <4>5, TellOther
        <5>2. Told(Append(Append(log, a), b), q, n, story)
          BY <4>1, <4>2, <5>1, TellOther
        <5>. QED
          BY <4>2, <5>2
      <4>. QED
        BY <3>1, <4>2, <4>4, <4>5
    <3>2. CASE /\ Len(Story(r)) = 2
               /\ \E a \in Event :
                    RouteEvents(r) = <<a>> /\ a.of = r /\ a.type = Story(r)[2]
      <4>1. PICK a \in Event :
              RouteEvents(r) = <<a>> /\ a.of = r /\ a.type = Story(r)[1 + 1]
        BY <3>2
      <4>2. log' = Append(log, a)
        BY <1>t, <2>1, <4>1
      <4>3. Told(Append(log, a), r, 1 + 1, Story(r))
        BY <1>t, <2>4, <4>1, TellOne
      <4>4. ASSUME NEW q \in Requests \ {r}, NEW n, NEW story, Told(log, q, n, story)
            PROVE  Told(log', q, n, story)
        <5>1. Told(Append(log, a), q, n, story)
          BY <1>t, <4>1, <4>4, TellOther
        <5>. QED
          BY <4>2, <5>1
      <4>. QED
        BY <3>2, <4>2, <4>3, <4>4
    <3>3. CASE Len(Story(r)) = 1 /\ RouteEvents(r) = <<>>
      <4>1. log' = log
        BY <1>t, <2>1, <3>3
      <4>. QED
        BY <2>4, <3>3, <4>1
    <3>. QED
      BY <1>t, <3>1, <3>2, <3>3, StoryFacts
  <2>6. ToldAsReached(r)'
    <3>1. Told(log, r, Len(Story(r)), Story(r))'
      BY <2>3, <2>5 DEF Told
    <3>2. Reached(r, Len(Story(r)))'
      BY <2>1, <2>2 DEF Reached
    <3>3. \E n \in Nat : Reached(r, n)' /\ Told(log, r, n, Story(r))'
      <4>1. PICK n \in Nat : n = Len(Story(r))
        BY <2>3
      <4>2. Reached(r, n)' /\ Told(log, r, n, Story(r))'
        BY <2>3, <3>1, <3>2, <4>1 DEF Reached, Told
      <4>. QED
        BY <4>2
    <3>. QED
      BY <2>1, <3>3 DEF ToldAsReached
  <2>. QED
    BY <1>1, <2>1, <2>5, <2>6
<1>6. CASE Stop
  <2>1. log' = log
    BY <1>6 DEF Stop
  <2>2. ASSUME NEW r \in Requests PROVE ToldAsReached(r)'
    <3>1. CASE request[r].state \in {"sleeping", "routing"}
      <4>1. /\ request'[r].state = "dropped" /\ request'[r].answer = request[r].answer
            /\ request'[r].target = request[r].target /\ request'[r].creds = request[r].creds
        BY <1>6, <1>t, <3>1 DEF Stop, RequestType
      <4>2. PICK n \in {0, 1} : Told(log, r, n, Story(r))
        BY <1>s, <3>1 DEF ToldAsReached, Reached
      <4>3. Story(r)' = Story(r)
        BY <4>1, StoryKept
      <4>4. Reached(r, n)' /\ Told(log, r, n, Story(r))' /\ n \in Nat
        BY <2>1, <4>1, <4>2, <4>3 DEF Reached, Told
      <4>5. request[r].answer \notin Shown
        BY <1>s, <3>1 DEF ToldAsReached
      <4>. QED
        BY <4>1, <4>4, <4>5 DEF ToldAsReached
    <3>2. CASE request[r].state \notin {"sleeping", "routing"}
      <4>1. request'[r] = request[r]
        BY <1>6, <1>t, <3>2 DEF Stop
      <4>. QED
        BY <1>s, <2>1, <4>1, StoryUntouched
    <3>. QED
      BY <3>1, <3>2
  <2>. QED
    BY <1>t, <2>2 DEF StoryInv
<1>7. CASE UNCHANGED <<request, log>>
  <2>1. \A r \in Requests : ToldAsReached(r)'
    BY <1>7, <1>s, StoryUntouched
  <2>. QED
    BY <1>t, <2>1 DEF StoryInv
<1>. QED
  BY <1>2, <1>3, <1>4, <1>5, <1>6, <1>7 DEF Next, Restart, vars

(* However requests interleave, the events of one request are a beginning  *)
(* of its story, and an answered request was told to the end.              *)
THEOREM HttpRequestStory == Spec => []RequestStory
<1>1. StoryInv => RequestStory
  <2> SUFFICES ASSUME StoryInv, NEW r \in Requests
               PROVE  /\ \A i \in EventsOf(r) :
                           /\ Nth(r, i) <= Len(Story(r))
                           /\ log[i].type = Story(r)[Nth(r, i)]
                      /\ request[r].answer \in Shown =>
                           Cardinality(EventsOf(r)) = Len(Story(r))
    BY DEF RequestStory
  <2>1. /\ EventsOf(r) = EventsIn(log, r)
        /\ \A i : Nth(r, i) = NthIn(log, r, i)
    BY DEF EventsOf, Nth, EventsIn, NthIn
  <2>2. PICK n \in Nat : Reached(r, n) /\ Told(log, r, n, Story(r))
    BY DEF StoryInv, ToldAsReached
  <2>3. Len(Story(r)) \in Nat \ {0}
    BY StoryFacts DEF StoryInv, TypeOK, RequestType
  <2>4. n <= Len(Story(r))
    BY <2>2, <2>3 DEF Reached
  <2>5. request[r].answer \in Shown => n = Len(Story(r))
    BY <2>2 DEF Reached, StoryInv, ToldAsReached
  <2>6. ASSUME NEW i \in EventsIn(log, r)
        PROVE  /\ NthIn(log, r, i) <= Len(Story(r))
               /\ log[i].type = Story(r)[NthIn(log, r, i)]
    <3>1. NthIn(log, r, i) \in 1 .. n
      BY <2>2, <2>6 DEF Told
    <3>2. NthIn(log, r, i) <= Len(Story(r))
      BY <2>3, <2>4, <3>1
    <3>. QED
      BY <2>2, <2>6, <3>2 DEF Told
  <2>. QED
    BY <2>1, <2>2, <2>5, <2>6 DEF Shown, Told
<1>. QED
  BY StoryInit, StoryStep, <1>1, PTL DEF Spec

(***************************************************************************)
(* HTTP: the admin page.                                                   *)
(***************************************************************************)

(* A login of client k succeeded.                                          *)
Earned(k) ==
  \E i \in DOMAIN log :
    log[i].type = "auth_success" /\ request[log[i].of].client = k

Sent(r) == request[r].state # "unsent"

CookieEarned(k) == cookie[k] => Earned(k)

(* What a request knows of a login, and that only sent ones have events.   *)
AdminFacts(r) ==
  /\ Sent(r) /\ request[r].cookie = "given" => Earned(request[r].client)
  /\ request[r].state = "routing" /\ request[r].cookie = "given" => AfterLogin(r)
  /\ request[r].answer = "admin" =>
       /\ request[r].state = "answered"
       /\ request[r].cookie = "made_up" \/ (request[r].cookie = "given" /\ AfterLogin(r))

OnlySentLogged == \A i \in DOMAIN log : Sent(log[i].of)

AdminInv ==
  /\ TypeOK
  /\ \A k \in Clients : CookieEarned(k)
  /\ \A r \in Requests : AdminFacts(r)
  /\ OnlySentLogged

(* The log is only extended, and a sent request stays what it was sent as. *)
KeepsWhatWas ==
  /\ \A i \in DOMAIN log : i \in DOMAIN log' /\ log'[i] = log[i]
  /\ \A r \in Requests : Sent(r) =>
       /\ Sent(r)'
       /\ request'[r].client = request[r].client /\ request'[r].cookie = request[r].cookie

(* What was earned stays earned, and who entered stays so.                 *)
LEMMA EarnedStays ==
  ASSUME KeepsWhatWas, OnlySentLogged, log \in Seq(Event), NEW k, Earned(k)
  PROVE  Earned(k)'
<1>1. PICK i \in DOMAIN log :
        log[i].type = "auth_success" /\ request[log[i].of].client = k
  BY DEF Earned
<1>2. log[i].of \in Requests /\ Sent(log[i].of)
  <2>1. log[i] \in Event
    OBVIOUS
  <2>. QED
    BY <2>1 DEF Event, OnlySentLogged
<1>3. request'[log[i].of].client = k /\ i \in DOMAIN log' /\ log'[i] = log[i]
  BY <1>1, <1>2 DEF KeepsWhatWas
<1>. QED
  BY <1>1, <1>3 DEF Earned

(* That a request came after a login of its client is not forgotten. *)
LEMMA AfterLoginStays ==
  ASSUME KeepsWhatWas, OnlySentLogged, log \in Seq(Event),
         NEW r \in Requests, Sent(r), AfterLogin(r)
  PROVE  AfterLogin(r)'
<1>1. PICK i \in DOMAIN log, j \in DOMAIN log :
        /\ i < j
        /\ log[i].type = "auth_success"
        /\ request[log[i].of].client = request[r].client
        /\ log[j] = Entry("request", r)
  BY DEF AfterLogin
<1>2. log[i].of \in Requests /\ Sent(log[i].of)
  <2>1. log[i] \in Event
    OBVIOUS
  <2>. QED
    BY <2>1 DEF Event, OnlySentLogged
<1>3. /\ request'[log[i].of].client = request'[r].client
      /\ i \in DOMAIN log' /\ log'[i] = log[i]
      /\ j \in DOMAIN log' /\ log'[j] = log[j]
  BY <1>1, <1>2 DEF KeepsWhatWas
<1>4. Entry("request", r)' = Entry("request", r)
  BY DEF Entry
<1>. QED
  BY <1>1, <1>3, <1>4 DEF AfterLogin

(* A request nothing happens to knows what it knew.                        *)
LEMMA AdminUntouched ==
  ASSUME KeepsWhatWas, OnlySentLogged, log \in Seq(Event),
         NEW r \in Requests, AdminFacts(r),
         request'[r].client = request[r].client, request'[r].cookie = request[r].cookie,
         request'[r].answer = request[r].answer, request'[r].state # "unsent" => Sent(r),
         request'[r].state = "routing" => request[r].state = "routing",
         request[r].state = "answered" => request'[r].state = "answered"
  PROVE  AdminFacts(r)'
<1>1. PICK k : k = request[r].client
  OBVIOUS
<1>2. (Sent(r) /\ request[r].cookie = "given" => Earned(request[r].client))'
  <2>1. ASSUME Sent(r)', request'[r].cookie = "given" PROVE Earned(k)'
    BY <1>1, <2>1, EarnedStays DEF AdminFacts, Sent
  <2>2. Earned(k)' => Earned(request[r].client)'
    BY <1>1 DEF Earned
  <2>. QED
    BY <2>1, <2>2
<1>3. request'[r].state = "routing" /\ request'[r].cookie = "given" => AfterLogin(r)'
  BY AfterLoginStays DEF AdminFacts, Sent
<1>4. request'[r].answer = "admin" =>
        /\ request'[r].state = "answered"
        /\ \/ request'[r].cookie = "made_up"
           \/ request'[r].cookie = "given" /\ AfterLogin(r)'
  BY AfterLoginStays DEF AdminFacts, Sent
<1>. QED
  BY <1>2, <1>3, <1>4 DEF AdminFacts

(* At the start there is nothing to know.                                  *)
LEMMA AdminInit == Init => AdminInv
<1> SUFFICES ASSUME Init PROVE AdminInv
  OBVIOUS
<1>1. /\ TypeOK /\ log = <<>> /\ None # "admin"
      /\ \A r \in Requests : request[r] = Unsent
      /\ \A k \in Clients : ~cookie[k]
  BY WebTypeInit, HttpAssumption DEF Init, Answers, Shown
<1>2. \A r \in Requests : AdminFacts(r)
  BY <1>1 DEF AdminFacts, Sent, Unsent
<1>. QED
  BY <1>1, <1>2 DEF AdminInv, CookieEarned, OnlySentLogged

(* A cookie comes with a login, an admin page with the cookie.             *)
LEMMA AdminStep ==
  AdminInv /\ [Next]_vars => AdminInv'
<1> SUFFICES ASSUME AdminInv, [Next]_vars PROVE AdminInv'
  OBVIOUS
<1>t. /\ TypeOK' /\ log \in Seq(Event)
      /\ request \in [Requests -> RequestType] /\ cookie \in [Clients -> BOOLEAN]
      /\ \A r \in Requests : request[r].state \in {"sleeping", "routing"}
           => request[r].client \in Clients
  BY WebTypeStep DEF AdminInv, TypeOK, RequestType
<1>s. /\ \A k \in Clients : CookieEarned(k)
      /\ \A r \in Requests : AdminFacts(r)
      /\ OnlySentLogged
  BY DEF AdminInv
<1>o. ASSUME NEW i \in DOMAIN log PROVE log[i].of \in Requests
  <2>1. log[i] \in Event
    BY <1>t
  <2>. QED
    BY <2>1 DEF Event
<1>n. None # "admin"
  BY HttpAssumption DEF Answers, Shown
<1>c. ASSUME KeepsWhatWas, UNCHANGED cookie PROVE \A k \in Clients : CookieEarned(k)'
  BY <1>c, <1>s, <1>t, EarnedStays DEF CookieEarned
<1>1. ASSUME NEW r \in Requests, NEW k \in Clients, NEW target \in Targets,
             NEW pair \in Pairs, NEW sent \in Cookies, Send(r, k, target, pair, sent)
      PROVE  AdminInv'
  <2>1. /\ ~Sent(r) /\ log' = log /\ cookie' = cookie
        /\ \A q \in Requests \ {r} : request'[q] = request[q]
        /\ request'[r].state \in {"sleeping", "answered"}
        /\ request'[r].client = k /\ (request'[r].cookie = "given" => cookie[k])
        /\ request'[r].answer \in {None, "file", "503"}
    BY <1>1, <1>t DEF Send, Sent
  <2>2. KeepsWhatWas
    BY <2>1 DEF KeepsWhatWas, Sent
  <2>3. AdminFacts(r)'
    <3>1. (Sent(r) /\ request[r].cookie = "given" => Earned(request[r].client))'
      <4>1. ASSUME request'[r].cookie = "given" PROVE Earned(k)'
        BY <1>s, <1>t, <2>1, <2>2, <4>1, EarnedStays DEF CookieEarned
      <4>2. Earned(k)' => Earned(request[r].client)'
        BY <2>1 DEF Earned
      <4>. QED
        BY <4>1, <4>2
    <3>. QED
      BY <1>n, <2>1, <3>1 DEF AdminFacts
  <2>4. \A q \in Requests \ {r} : AdminFacts(q)'
    BY <1>s, <1>t, <2>1, <2>2, AdminUntouched DEF Sent
  <2>5. OnlySentLogged'
    BY <1>o, <1>s, <2>1, <2>2 DEF OnlySentLogged, KeepsWhatWas, Sent
  <2>. QED
    BY <1>c, <1>t, <2>1, <2>2, <2>3, <2>4, <2>5 DEF AdminInv
<1>2. ASSUME \A r \in Requests :
               /\ request'[r].client = request[r].client
               /\ request'[r].cookie = request[r].cookie
               /\ request'[r].answer = request[r].answer
               /\ request'[r].state = request[r].state
                    \/ /\ request[r].state \in {"sleeping", "routing"}
                       /\ request'[r].state = "dropped",
             UNCHANGED <<cookie, log>>
      PROVE  AdminInv'
  <2>1. KeepsWhatWas
    BY <1>2 DEF KeepsWhatWas, Sent
  <2>2. \A r \in Requests : AdminFacts(r)'
    BY <1>2, <1>s, <1>t, <2>1, AdminUntouched DEF Sent
  <2>3. OnlySentLogged'
    BY <1>2, <1>o, <1>s, <2>1 DEF OnlySentLogged, KeepsWhatWas, Sent
  <2>. QED
    BY <1>2, <1>c, <1>t, <2>1, <2>2, <2>3 DEF AdminInv
<1>3. ASSUME NEW r \in Requests, Leave(r) PROVE AdminInv'
  <2>1. /\ UNCHANGED <<cookie, log>>
        /\ \A q \in Requests :
             /\ request'[q].client = request[q].client
             /\ request'[q].cookie = request[q].cookie
             /\ request'[q].answer = request[q].answer
             /\ request'[q].state = request[q].state
    BY <1>3, <1>t DEF Leave, RequestType
  <2>. QED
    BY <1>2, <2>1
<1>4. CASE Stop
  <2>1. /\ UNCHANGED <<cookie, log>>
        /\ \A q \in Requests :
             \/ request'[q] = request[q]
             \/ /\ request[q].state \in {"sleeping", "routing"}
                /\ request'[q].state = "dropped"
                /\ request'[q].client = request[q].client
                /\ request'[q].cookie = request[q].cookie
                /\ request'[q].answer = request[q].answer
    BY <1>4, <1>t DEF Stop, RequestType
  <2>2. \A q \in Requests :
          /\ request'[q].client = request[q].client
          /\ request'[q].cookie = request[q].cookie
          /\ request'[q].answer = request[q].answer
          /\ request'[q].state = request[q].state
               \/ /\ request[q].state \in {"sleeping", "routing"}
                  /\ request'[q].state = "dropped"
    BY <2>1
  <2>. QED
    BY <1>2, <2>1, <2>2
<1>5. CASE UNCHANGED <<request, cookie, log>>
  <2>1. /\ UNCHANGED <<cookie, log>>
        /\ \A q \in Requests :
             /\ request'[q].client = request[q].client
             /\ request'[q].cookie = request[q].cookie
             /\ request'[q].answer = request[q].answer
             /\ request'[q].state = request[q].state
    BY <1>5
  <2>. QED
    BY <1>2, <2>1
<1>6. ASSUME NEW r \in Requests, NEW events \in Seq(Event),
             log' = log \o events, \A i \in DOMAIN events : events[i].of = r,
             Sent(r), Sent(r)',
             request'[r].client = request[r].client, request'[r].cookie = request[r].cookie,
             \A q \in Requests \ {r} : request'[q] = request[q]
      PROVE  /\ KeepsWhatWas /\ OnlySentLogged'
             /\ \A q \in Requests \ {r} : AdminFacts(q)'
             /\ \A i \in DOMAIN events :
                  Len(log) + i \in DOMAIN log' /\ log'[Len(log) + i] = events[i]
  <2>1. /\ DOMAIN log = 1 .. Len(log) /\ DOMAIN events = 1 .. Len(events)
        /\ Len(log) \in Nat /\ Len(events) \in Nat
        /\ DOMAIN log' = 1 .. Len(log) + Len(events)
        /\ \A i \in 1 .. Len(log) : log'[i] = log[i]
        /\ \A i \in 1 .. Len(events) : log'[Len(log) + i] = events[i]
    BY <1>6, <1>t
  <2>2. KeepsWhatWas
    BY <1>6, <2>1 DEF KeepsWhatWas, Sent
  <2>3. \A i \in DOMAIN events :
          Len(log) + i \in DOMAIN log' /\ log'[Len(log) + i] = events[i]
    BY <2>1
  <2>4. ASSUME NEW i \in DOMAIN log' PROVE request'[log'[i].of].state # "unsent"
    <3>1. CASE i \in DOMAIN log
      <4>1. log[i] \in Event /\ log'[i] = log[i]
        BY <1>t, <2>1, <3>1
      <4>2. log[i].of \in Requests
        BY <4>1 DEF Event
      <4>. QED
        BY <1>s, <2>2, <3>1, <4>1, <4>2 DEF OnlySentLogged, KeepsWhatWas, Sent
    <3>2. CASE i \notin DOMAIN log
      <4>1. i - Len(log) \in 1 .. Len(events) /\ Len(log) + (i - Len(log)) = i
        BY <2>1, <3>2
      <4>2. log'[i] = events[i - Len(log)]
        BY <2>1, <4>1
      <4>. QED
        BY <1>6, <2>1, <4>1, <4>2 DEF Sent
    <3>. QED
      BY <3>1, <3>2
  <2>5. \A q \in Requests \ {r} : AdminFacts(q)'
    BY <1>6, <1>s, <1>t, <2>2, AdminUntouched DEF Sent
  <2>. QED
    BY <2>2, <2>3, <2>4, <2>5 DEF OnlySentLogged, Sent
<1>7. ASSUME NEW r \in Requests, LogRequest(r) PROVE AdminInv'
  <2> DEFINE e == Entry("request", r)
  <2>1. /\ e \in Event /\ e.of = r
        /\ <<e>> \in Seq(Event) /\ DOMAIN <<e>> = {1} /\ <<e>>[1] = e
    BY <1>t, WebEntryType
  <2>2. /\ request[r].state = "sleeping" /\ cookie' = cookie
        /\ \A q \in Requests \ {r} : request'[q] = request[q]
        /\ request'[r].answer = request[r].answer
        /\ request'[r].client = request[r].client /\ request'[r].cookie = request[r].cookie
        /\ \/ log' = Append(log, e) /\ request'[r].state = "routing"
           \/ log' = log /\ request'[r].state = "dropped"
    BY <1>7, <1>t DEF LogRequest, RequestType
  <2>3. e' = e
    BY DEF Entry
  <2>. HIDE DEF e
  <2>4. CASE log' = log /\ request'[r].state = "dropped"
    <3>1. \A q \in Requests :
            /\ request'[q].client = request[q].client
            /\ request'[q].cookie = request[q].cookie
            /\ request'[q].answer = request[q].answer
            /\ request'[q].state = request[q].state
                 \/ /\ request[q].state \in {"sleeping", "routing"}
                    /\ request'[q].state = "dropped"
      BY <2>2, <2>4
    <3>. QED
      BY <1>2, <2>2, <2>4, <3>1
  <2>5. CASE log' = Append(log, e) /\ request'[r].state = "routing"
    <3>1. log' = log \o <<e>>
      BY <1>t, <2>1, <2>5
    <3>2. Sent(r) /\ Sent(r)'
      BY <2>2, <2>5 DEF Sent
    <3>3. /\ KeepsWhatWas /\ OnlySentLogged'
          /\ \A q \in Requests \ {r} : AdminFacts(q)'
          /\ Len(log) + 1 \in DOMAIN log' /\ log'[Len(log) + 1] = e
      BY <1>6, <2>1, <2>2, <3>1, <3>2
    <3>4. ASSUME request[r].cookie = "given" PROVE Earned(request[r].client)' /\ AfterLogin(r)'
      <4>1. PICK i \in DOMAIN log :
              /\ log[i].type = "auth_success"
              /\ request[log[i].of].client = request[r].client
        BY <1>s, <3>2, <3>4 DEF AdminFacts, Earned
      <4>2. log[i] \in Event /\ i < Len(log) + 1
        BY <1>t
      <4>3. log[i].of \in Requests
        BY <4>2 DEF Event
      <4>4. /\ i \in DOMAIN log' /\ log'[i] = log[i]
            /\ request'[log[i].of].client = request'[r].client
        BY <1>s, <2>2, <3>3, <4>1, <4>3 DEF KeepsWhatWas, OnlySentLogged
      <4>5. Earned(request[r].client)'
        BY <4>1, <4>4 DEF Earned
      <4>6. AfterLogin(r)'
        <5>1. log'[Len(log) + 1] = e'
          BY <2>3, <3>3
        <5>. QED
          BY <3>3, <4>1, <4>2, <4>4, <5>1 DEF AfterLogin, e
      <4>. QED
        BY <4>5, <4>6
    <3>5. request'[r].answer # "admin"
      BY <1>s, <2>2 DEF AdminFacts
    <3>6. AdminFacts(r)'
      BY <2>2, <3>2, <3>4, <3>5 DEF AdminFacts
    <3>. QED
      BY <1>c, <1>t, <2>2, <3>3, <3>6 DEF AdminInv
  <2>. QED
    BY <2>2, <2>4, <2>5
<1>8. ASSUME NEW r \in Requests, Route(r) PROVE AdminInv'
  <2>1. /\ request[r].state = "routing" /\ log' = log \o RouteEvents(r)
        /\ \A q \in Requests \ {r} : request'[q] = request[q]
        /\ request'[r].state = "answered" /\ request'[r].answer = Answer(r)
        /\ request'[r].client = request[r].client /\ request'[r].cookie = request[r].cookie
        /\ request[r].client \in Clients
        /\ cookie' = [cookie EXCEPT ![request[r].client] =
             cookie[request[r].client] \/ (request[r].waiting /\ Answer(r) = "set_cookie")]
    BY <1>8, <1>t DEF Route, RequestType
  <2>2. Sent(r) /\ Sent(r)'
    BY <2>1 DEF Sent
  <2>3. /\ RouteEvents(r) \in Seq(Event)
        /\ \A i \in DOMAIN RouteEvents(r) : RouteEvents(r)[i].of = r
        /\ LogsIn(r) => 2 \in DOMAIN RouteEvents(r)
                              /\ RouteEvents(r)[2].type = "auth_success"
    <3>1. \A type \in {"credential_attempt", "auth_success", "canary_triggered"} :
            /\ Entry(type, r) \in Event
            /\ Entry(type, r).type = type /\ Entry(type, r).of = r
      BY <1>t, WebEntryType
    <3>2. CASE /\ LogsIn(r)
               /\ RouteEvents(r) =
                    <<Entry("credential_attempt", r), Entry("auth_success", r)>>
      BY <3>1, <3>2
    <3>3. CASE /\ ~LogsIn(r)
               /\ \/ RouteEvents(r) = <<Entry("credential_attempt", r)>>
                  \/ RouteEvents(r) = <<Entry("canary_triggered", r)>>
      <4>1. PICK a \in Event : RouteEvents(r) = <<a>> /\ a.of = r
        BY <3>1, <3>3
      <4>. QED
        BY <3>3, <4>1
    <3>4. CASE ~LogsIn(r) /\ RouteEvents(r) = <<>>
      BY <3>4
    <3>. QED
      BY <3>2, <3>3, <3>4, RouteCases
  <2>4. /\ KeepsWhatWas /\ OnlySentLogged'
        /\ \A q \in Requests \ {r} : AdminFacts(q)'
        /\ \A i \in DOMAIN RouteEvents(r) :
             /\ Len(log) + i \in DOMAIN log'
             /\ log'[Len(log) + i] = RouteEvents(r)[i]
    BY <1>6, <2>1, <2>2, <2>3
  <2>5. \A k \in Clients : CookieEarned(k)'
    <3>1. ASSUME NEW k \in Clients, cookie'[k] PROVE Earned(k)'
      <4>1. CASE cookie[k]
        BY <1>s, <1>t, <2>4, <4>1, EarnedStays DEF CookieEarned
      <4>2. CASE ~cookie[k]
        <5>1. k = request[r].client /\ LogsIn(r)
          BY <1>t, <2>1, <3>1, <4>2, AnswerCases
        <5>2. PICK i \in DOMAIN log' : log'[i].type = "auth_success" /\ log'[i].of = r
          BY <2>3, <2>4, <5>1
        <5>3. request'[log'[i].of].client = k
          BY <2>1, <5>1, <5>2
        <5>. QED
          BY <5>2, <5>3 DEF Earned
      <4>. QED
        BY <4>1, <4>2
    <3>. QED
      BY <3>1 DEF CookieEarned
  <2>6. AdminFacts(r)'
    <3>1. (Sent(r) /\ request[r].cookie = "given" => Earned(request[r].client))'
      <4>1. PICK k : k = request[r].client
        OBVIOUS
      <4>2. ASSUME request[r].cookie = "given" PROVE Earned(k)'
        BY <1>s, <1>t, <2>2, <2>4, <4>1, <4>2, EarnedStays DEF AdminFacts
      <4>3. Earned(k)' => Earned(request[r].client)'
        BY <2>1, <4>1 DEF Earned
      <4>. QED
        BY <2>1, <4>2, <4>3
    <3>2. request'[r].answer = "admin" =>
            \/ request'[r].cookie = "made_up"
            \/ request'[r].cookie = "given" /\ AfterLogin(r)'
      <4>1. request[r].cookie = "given" => AfterLogin(r)'
        BY <1>s, <1>t, <2>1, <2>2, <2>4, AfterLoginStays DEF AdminFacts
      <4>2. request[r].cookie \in Cookies
        BY <1>t DEF RequestType
      <4>. QED
        BY <2>1, <4>1, <4>2, AnswerCases DEF Cookies
    <3>. QED
      BY <2>1, <3>1, <3>2 DEF AdminFacts
  <2>. QED
    BY <1>t, <2>4, <2>5, <2>6 DEF AdminInv
<1>. QED
  BY <1>1, <1>3, <1>4, <1>5, <1>7, <1>8 DEF Next, Restart, vars

(* A client that sends only the cookie it was given sees the admin page    *)
(* only after an auth_success of its own was logged, whatever was lost or  *)
(* restarted in between; and no client sees it without a cookie.           *)
THEOREM HttpAdminExplained == Spec => []AdminExplained
<1>1. AdminInv => AdminExplained
  BY DEF AdminInv, AdminFacts, AdminExplained
<1>. QED
  BY AdminInit, AdminStep, <1>1, PTL DEF Spec

(***************************************************************************)
(* Distinct as a fold.                                                     *)
(***************************************************************************)
(* Distinct goes through a sequence from its first element to its last.    *)
LEMMA DistinctFolds ==
  ASSUME NEW S, NEW seq \in Seq(S)
  PROVE  \E f : /\ f[0] = <<>>
                /\ \A k \in 1 .. Len(seq) :
                     f[k] = IF seq[k] \in Range(f[k - 1]) THEN f[k - 1]
                            ELSE Append(f[k - 1], seq[k])
                /\ Distinct(seq) = f[Len(seq)]
<1> DEFINE n == Len(seq)
           Body(f, s) == IF seq[Max(s)] \in Range(f[s \ {Max(s)}])
                         THEN f[s \ {Max(s)}]
                         ELSE Append(f[s \ {Max(s)}], seq[Max(s)])
           Folds(f) == f = [s \in SUBSET (1 .. n) |-> IF s = {} THEN <<>> ELSE Body(f, s)]
           iter == CHOOSE f : Folds(f)
<1>1. n \in Nat /\ DOMAIN seq = 1 .. n /\ \A i \in 1 .. n : seq[i] \in S
  OBVIOUS
<1>2. Distinct(seq) = iter[1 .. n]
  BY <1>1 DEF Distinct, FoldLeft, MapThenFoldSet
<1>. HIDE DEF n
<1>3. \E f : Folds(f)
  <2> DEFINE step == [p \in Seq(S) \X (1 .. n) |->
                        IF seq[p[2]] \in Range(p[1]) THEN p[1]
                        ELSE Append(p[1], seq[p[2]])]
  <2>1. step \in [Seq(S) \X (1 .. n) -> Seq(S)]
    BY <1>1
  <2>2. \A kept \in Seq(S), i \in 1 .. n :
          step[<<kept, i>>] = IF seq[i] \in Range(kept) THEN kept ELSE Append(kept, seq[i])
    OBVIOUS
  <2>. HIDE DEF step
  <2>3. PICK f \in [SUBSET (1 .. n) -> Seq(S)] :
          \A s \in SUBSET (1 .. n) :
            f[s] = IF s = {} THEN <<>> ELSE step[<<f[s \ {Max(s)}], Max(s)>>]
    <3> DEFINE A == Seq(S)
               none == <<>>
    <3>1. none \in A /\ step \in [A \X (1 .. n) -> A]
      BY <2>1
    <3>. HIDE DEF A, none
    <3>2. \E f : FoldsBy(f, n, A, none, step)
      BY <1>1, <3>1, FoldExists
    <3>. QED
      BY <3>2 DEF A, none, FoldsBy
  <2>4. ASSUME NEW s \in SUBSET (1 .. n)
        PROVE  f[s] = IF s = {} THEN <<>> ELSE Body(f, s)
    <3>1. CASE s = {}
      BY <2>3, <3>1
    <3>2. CASE s # {}
      <4>1. Max(s) \in 1 .. n /\ s \ {Max(s)} \in SUBSET (1 .. n)
        BY <1>1, <3>2, GreatestOf
      <4>2. f[s \ {Max(s)}] \in Seq(S)
        BY <4>1
      <4>3. f[s] = step[<<f[s \ {Max(s)}], Max(s)>>]
        BY <2>3, <3>2
      <4>. QED
        BY <2>2, <3>2, <4>1, <4>2, <4>3
    <3>. QED
      BY <3>1, <3>2
  <2>5. f = [s \in SUBSET (1 .. n) |-> f[s]]
    BY <2>3
  <2>. HIDE DEF Body
  <2>. QED
    BY <2>4, <2>5
<1>4. \A s \in SUBSET (1 .. n) : iter[s] = IF s = {} THEN <<>> ELSE Body(iter, s)
  <2>1. Folds(iter)
    BY <1>3
  <2>. HIDE DEF iter, Body
  <2>. QED
    BY <2>1
<1>. HIDE DEF iter
<1> DEFINE f == [k \in 0 .. n |-> iter[1 .. k]]
<1>5. f[0] = <<>>
  <2>1. 1 .. 0 = {} /\ 0 \in 0 .. n
    BY <1>1
  <2>. QED
    BY <1>4, <2>1
<1>6. ASSUME NEW k \in 1 .. n
      PROVE  f[k] = IF seq[k] \in Range(f[k - 1]) THEN f[k - 1]
                    ELSE Append(f[k - 1], seq[k])
  <2>1. 1 .. k # {} /\ Max(1 .. k) = k /\ (1 .. k) \ {k} = 1 .. k - 1
    <3>1. k \in Nat \ {0}
      BY <1>1
    <3>. QED
      BY <3>1, GreatestOfFirst
  <2>2. 1 .. k \in SUBSET (1 .. n) /\ k \in 0 .. n /\ k - 1 \in 0 .. n
    BY <1>1
  <2>3. iter[1 .. k] = Body(iter, 1 .. k)
    BY <1>4, <2>1, <2>2
  <2>4. f[k] = iter[1 .. k] /\ f[k - 1] = iter[1 .. k - 1]
    BY <2>2
  <2>. HIDE DEF f
  <2>. QED
    BY <2>1, <2>3, <2>4
<1>7. Distinct(seq) = f[n]
  BY <1>1, <1>2
<1>. HIDE DEF f
<1>. QED
  BY <1>5, <1>6, <1>7 DEF n

-----------------------------------------------------------------------------
(***************************************************************************)
(* Sequences of pairs.                                                     *)
(***************************************************************************)
(* Division leaves less than the divisor.                                  *)
LEMMA DivMod ==
  ASSUME NEW a \in Nat, NEW l \in Nat \ {0}
  PROVE  /\ a \div l \in Nat /\ a % l \in 0 .. l - 1
         /\ a = l * (a \div l) + (a % l)
OBVIOUS

(* No place is reached beyond the last row.                                *)
LEMMA DivBelow ==
  ASSUME NEW n \in Nat, NEW l \in Nat \ {0}, NEW a \in Nat, a < n * l
  PROVE  a \div l < n
<1> DEFINE q == a \div l
<1>1. q \in Nat /\ a >= l * q
  BY DivMod
<1>. HIDE DEF q
<1>2. q >= n => l * q >= l * n
  BY <1>1
<1>3. l * n = n * l /\ n * l \in Nat /\ l * q \in Nat
  BY <1>1
<1>. QED
  BY <1>1, <1>2, <1>3 DEF q

(* What Combinations makes of a list over S and one over T.                       *)
ArePairs(pairs, users, words, S, T) ==
  /\ pairs \in Seq(S \X T)
  /\ Len(pairs) = Len(users) * Len(words)
  /\ Len(users) * Len(words) \in Nat
  /\ IsInjective(users) /\ IsInjective(words) => IsInjective(pairs)
  /\ users # <<>> /\ Len(words) >= 2 =>
       /\ Len(pairs) >= 2
       /\ pairs[1] = <<users[1], words[1]>>
       /\ pairs[2] = <<users[1], words[2]>>

LEMMA PairsAre ==
  ASSUME NEW S, NEW T, NEW users \in Seq(S), NEW words \in Seq(T)
  PROVE  ArePairs(Combinations(users, words), users, words, S, T)
<1> DEFINE m == Len(users)
           l == Len(words)
           row(i) == ((i - 1) \div l) + 1
           column(i) == ((i - 1) % l) + 1
           pairs == [i \in 1 .. m * l |-> <<users[row(i)], words[column(i)]>>]
<1>1. Combinations(users, words) = pairs
  BY DEF Combinations
<1>2. m \in Nat /\ l \in Nat /\ m * l \in Nat /\ DOMAIN users = 1 .. m /\ DOMAIN words = 1 .. l
  OBVIOUS
<1>3. /\ \A i \in 1 .. m : users[i] \in S
      /\ \A i \in 1 .. l : words[i] \in T
  OBVIOUS
<1>. HIDE DEF m, l
<1>4. ASSUME NEW i \in 1 .. m * l
      PROVE  /\ row(i) \in 1 .. m /\ column(i) \in 1 .. l
             /\ i = l * (row(i) - 1) + column(i)
  <2>1. l # 0
    BY <1>2
  <2>2. i - 1 \in Nat /\ i - 1 < m * l /\ l \in Nat \ {0}
    BY <1>2, <2>1
  <2> DEFINE q == (i - 1) \div l
             r == (i - 1) % l
  <2>3. q \in Nat /\ r \in 0 .. l - 1 /\ i - 1 = l * q + r
    BY <2>2, DivMod
  <2>4. q < m
    BY <1>2, <2>2, DivBelow
  <2>5. row(i) = q + 1 /\ column(i) = r + 1
    OBVIOUS
  <2>. HIDE DEF q, r, row, column
  <2>6. row(i) - 1 = q
    BY <2>3, <2>5
  <2>. QED
    BY <1>2, <2>2, <2>3, <2>4, <2>5, <2>6
<1>5. IsInjective(users) /\ IsInjective(words) => IsInjective(pairs)
  <2> SUFFICES ASSUME IsInjective(users), IsInjective(words),
                      NEW i \in 1 .. m * l, NEW j \in 1 .. m * l, pairs[i] = pairs[j]
               PROVE  i = j
    BY DEF IsInjective
  <2>1. users[row(i)] = users[row(j)] /\ words[column(i)] = words[column(j)]
    OBVIOUS
  <2>2. /\ row(i) \in 1 .. m /\ column(i) \in 1 .. l /\ i = l * (row(i) - 1) + column(i)
        /\ row(j) \in 1 .. m /\ column(j) \in 1 .. l /\ j = l * (row(j) - 1) + column(j)
    BY <1>4
  <2>. HIDE DEF row, column, pairs
  <2>3. row(i) = row(j) /\ column(i) = column(j)
    BY <1>2, <2>1, <2>2 DEF IsInjective
  <2>. QED
    BY <2>2, <2>3
<1>6. pairs \in [1 .. m * l -> S \X T]
  <2>1. ASSUME NEW i \in 1 .. m * l
        PROVE  <<users[row(i)], words[column(i)]>> \in S \X T
    <3>1. row(i) \in 1 .. m /\ column(i) \in 1 .. l
      BY <1>4
    <3>. HIDE DEF row, column
    <3>. QED
      BY <1>3, <3>1
  <2>. HIDE DEF row, column
  <2>. QED
    BY <2>1
<1>7. pairs \in Seq(S \X T) /\ Len(pairs) = m * l
  <2>. HIDE DEF pairs
  <2>. QED
    BY <1>2, <1>6
<1>8. ASSUME users # <<>>, l >= 2
      PROVE  /\ m * l >= 2
             /\ pairs[1] = <<users[1], words[1]>>
             /\ pairs[2] = <<users[1], words[2]>>
  <2>1. m >= 1
    BY <1>2, <1>8 DEF m
  <2>2. m * l >= 2
    BY <1>2, <1>8, <2>1
  <2>3. 0 \div l = 0 /\ 0 % l = 0 /\ 1 \div l = 0 /\ 1 % l = 1
    BY <1>2, <1>8
  <2>4. row(1) = 1 /\ column(1) = 1 /\ row(2) = 1 /\ column(2) = 2
    BY <2>3
  <2>5. 1 \in 1 .. m * l /\ 2 \in 1 .. m * l
    BY <1>2, <2>2
  <2>. HIDE DEF row, column
  <2>. QED
    BY <2>2, <2>4, <2>5
<1>. HIDE DEF pairs
<1>. QED
  BY <1>1, <1>2, <1>5, <1>7, <1>8 DEF m, l, ArePairs

(***************************************************************************)
(* Plans.                                                                  *)
(***************************************************************************)
(* Distinct repeats nothing, and leaves two different elements first.      *)
LEMMA DistinctIs ==
  ASSUME NEW S, NEW seq \in Seq(S)
  PROVE  /\ Distinct(seq) \in Seq(S)
         /\ IsInjective(Distinct(seq))
         /\ Len(seq) >= 1 => Len(Distinct(seq)) >= 1
         /\ Len(seq) >= 2 /\ seq[1] # seq[2] =>
              /\ Len(Distinct(seq)) >= 2
              /\ Distinct(seq)[1] = seq[1] /\ Distinct(seq)[2] = seq[2]
<1>1. PICK f : /\ f[0] = <<>>
               /\ \A k \in 1 .. Len(seq) :
                    f[k] = IF seq[k] \in Range(f[k - 1]) THEN f[k - 1]
                           ELSE Append(f[k - 1], seq[k])
               /\ Distinct(seq) = f[Len(seq)]
  BY DistinctFolds
<1> DEFINE Good(k) ==
             /\ f[k] \in Seq(S) /\ IsInjective(f[k])
             /\ k >= 1 => Len(f[k]) >= 1
             /\ k = 1 => f[k] = <<seq[1]>>
             /\ k >= 2 /\ seq[1] # seq[2] =>
                  Len(f[k]) >= 2 /\ f[k][1] = seq[1] /\ f[k][2] = seq[2]
           Bad == {k \in 0 .. Len(seq) : ~Good(k)}
<1>2. Len(seq) \in Nat /\ \A k \in 1 .. Len(seq) : seq[k] \in S
  OBVIOUS
<1>3. Good(0)
  BY <1>1 DEF IsInjective
<1>4. ASSUME NEW k \in 1 .. Len(seq), Good(k - 1)
      PROVE  Good(k)
  <2>1. k \in Nat /\ k # 0 /\ (k - 1 = 0 <=> k = 1) /\ (k - 1 = 1 <=> k = 2) /\ seq[k] \in S
    BY <1>2
  <2>2. f[k] = IF seq[k] \in Range(f[k - 1]) THEN f[k - 1] ELSE Append(f[k - 1], seq[k])
    BY <1>1
  <2>3. f[k - 1] \in Seq(S) /\ IsInjective(f[k - 1])
    BY <1>4
  <2> DEFINE g == f[k - 1]
  <2>4. g \in Seq(S) /\ IsInjective(g) /\ Len(g) \in Nat /\ DOMAIN g = 1 .. Len(g)
    BY <2>3
  <2>5. CASE seq[k] \in Range(g)
    <3>1. f[k] = g
      BY <2>2, <2>5
    <3>2. k # 1
      <4>1. k = 1 => g = <<>>
        BY <1>1
      <4>2. Range(<<>>) = {}
        BY DEF Range
      <4>. HIDE DEF g
      <4>. QED
        BY <2>5, <4>1, <4>2
    <3>3. k = 2 => seq[1] = seq[2]
      <4>1. SUFFICES ASSUME k = 2 PROVE seq[1] = seq[2]
        OBVIOUS
      <4>2. g = <<seq[1]>>
        BY <1>4, <4>1
      <4>3. Range(g) = {seq[1]}
        BY <4>2 DEF Range
      <4>. QED
        BY <2>5, <4>1, <4>3
    <3>4. k >= 2 /\ seq[1] # seq[2] => k - 1 >= 2
      BY <2>1, <3>3
    <3>5. Len(f[k]) >= 1
      BY <1>4, <2>1, <3>1, <3>2
    <3>. QED
      BY <1>4, <2>1, <3>1, <3>2, <3>4, <3>5
  <2>6. CASE seq[k] \notin Range(g)
    <3>1. f[k] = Append(g, seq[k])
      BY <2>2, <2>6
    <3>2. IsInjective(Append(g, seq[k]))
      <4>1. \A i \in 1 .. Len(g) : g[i] # seq[k]
        BY <2>4, <2>6 DEF Range
      <4>. HIDE DEF g
      <4>2. DOMAIN Append(g, seq[k]) = 1 .. Len(g) + 1
        BY <2>1, <2>4
      <4>3. \A i \in 1 .. Len(g) + 1 :
              Append(g, seq[k])[i] = IF i = Len(g) + 1 THEN seq[k] ELSE g[i]
        BY <2>1, <2>4
      <4>4. \A i \in 1 .. Len(g) + 1 : i # Len(g) + 1 => i \in 1 .. Len(g)
        BY <2>4
      <4>. QED
        BY <2>4, <4>1, <4>2, <4>3, <4>4 DEF IsInjective
    <3>3. f[k] \in Seq(S) /\ IsInjective(f[k])
      <4>. HIDE DEF g
      <4>. QED
        BY <2>1, <2>4, <3>1, <3>2
    <3>4. k = 1 => f[k] = <<seq[1]>>
      <4>1. k = 1 => g = <<>>
        BY <1>1
      <4>. HIDE DEF g
      <4>. QED
        BY <3>1, <4>1
    <3>5. k = 2 => Len(f[k]) = 2 /\ f[k][1] = seq[1] /\ f[k][2] = seq[2]
      <4>1. SUFFICES ASSUME k = 2
                     PROVE  Len(f[k]) = 2 /\ f[k][1] = seq[1] /\ f[k][2] = seq[2]
        OBVIOUS
      <4>2. g = <<seq[1]>>
        BY <1>4, <4>1
      <4>. HIDE DEF g
      <4>3. Len(g) = 1 /\ g[1] = seq[1]
        BY <4>2
      <4>4. f[k] = Append(g, seq[2])
        BY <3>1, <4>1
      <4>5. seq[2] \in S
        BY <2>1, <4>1
      <4>6. /\ Len(Append(g, seq[2])) = 2 /\ Append(g, seq[2])[1] = g[1]
            /\ Append(g, seq[2])[2] = seq[2]
        <5>1. /\ Len(Append(g, seq[2])) = Len(g) + 1
              /\ \A i \in 1 .. Len(g) + 1 :
                   Append(g, seq[2])[i] = IF i = Len(g) + 1 THEN seq[2] ELSE g[i]
          BY <2>4, <4>5
        <5>2. Len(g) + 1 = 2 /\ 1 \in 1 .. 2 /\ 2 \in 1 .. 2
          BY <4>3
        <5>. QED
          BY <5>1, <5>2
      <4>. QED
        BY <4>3, <4>4, <4>6
    <3>6. k > 2 /\ seq[1] # seq[2] =>
            Len(f[k]) >= 2 /\ f[k][1] = seq[1] /\ f[k][2] = seq[2]
      <4>1. k > 2 /\ seq[1] # seq[2] => Len(g) >= 2 /\ g[1] = seq[1] /\ g[2] = seq[2]
        BY <1>4, <2>1
      <4>. HIDE DEF g
      <4>. QED
        BY <2>1, <2>4, <3>1, <4>1
    <3>7. k >= 2 => k = 2 \/ k > 2
      BY <2>1
    <3>8. k = 2 => Len(f[k]) >= 2
      BY <3>5
    <3>9. Len(f[k]) >= 1
      <4>. HIDE DEF g
      <4>. QED
        BY <2>1, <2>4, <3>1
    <3>. QED
      BY <3>3, <3>4, <3>5, <3>6, <3>7, <3>8, <3>9
  <2>. QED
    BY <2>5, <2>6
<1>5. \A k \in 0 .. Len(seq) : Good(k)
  <2>1. SUFFICES ASSUME Bad # {} PROVE FALSE
    OBVIOUS
  <2>2. PICK k \in Bad : \A m \in Bad : k <= m
    <3>1. Bad \in SUBSET Nat
      OBVIOUS
    <3>. HIDE DEF Bad
    <3>. QED
      BY <2>1, <3>1, LeastOf
  <2>3. k \in 0 .. Len(seq) /\ ~Good(k)
    BY <2>2
  <2>. HIDE DEF Good
  <2>4. k # 0
    BY <1>3, <2>3
  <2>5. k - 1 \in 0 .. Len(seq) /\ k \in 1 .. Len(seq) /\ ~(k <= k - 1)
    BY <1>2, <2>3, <2>4
  <2>6. Good(k - 1)
    BY <2>2, <2>5
  <2>. QED
    BY <1>4, <2>3, <2>5, <2>6
<1>6. Good(Len(seq))
  <2>1. Len(seq) \in 0 .. Len(seq)
    BY <1>2
  <2>. HIDE DEF Good
  <2>. QED
    BY <1>5, <2>1
<1>. QED
  BY <1>1, <1>2, <1>6

(* The first n elements of a sequence.                                     *)
LEMMA FirstIs ==
  ASSUME NEW S, NEW seq \in Seq(S), NEW n \in Nat
  PROVE  /\ First(n, seq) \in Seq(S)
         /\ Len(First(n, seq)) = Smaller(n, Len(seq))
         /\ Smaller(n, Len(seq)) \in 0 .. Len(seq)
         /\ \A i \in 1 .. Smaller(n, Len(seq)) : First(n, seq)[i] = seq[i]
         /\ IsInjective(seq) => IsInjective(First(n, seq))
<1> DEFINE m == Smaller(n, Len(seq))
<1>1. m \in 0 .. Len(seq) /\ m \in Nat
  BY DEF Smaller
<1>2. First(n, seq) = SubSeq(seq, 1, m)
  BY DEF First
<1>. HIDE DEF m
<1>3. SubSeq(seq, 1, m) = [i \in 1 .. m |-> seq[i]]
  BY <1>1
<1>4. [i \in 1 .. m |-> seq[i]] \in Seq(S) /\ Len([i \in 1 .. m |-> seq[i]]) = m
  BY <1>1
<1>5. IsInjective(seq) => IsInjective([i \in 1 .. m |-> seq[i]])
  BY <1>1 DEF IsInjective
<1>. QED
  BY <1>1, <1>2, <1>3, <1>4, <1>5 DEF m

(* The root is a path like any other.                                      *)
Path == STRING \cup {Root}

LEMMA AllPaths ==
  ASSUME NEW seq \in Seq(STRING)
  PROVE  seq \in Seq(Path)
<1> DEFINE S == STRING
           T == Path
<1>1. seq \in Seq(S) /\ S \subseteq T
  BY DEF Path
<1>. HIDE DEF S, T
<1>2. seq \in Seq(T)
  BY <1>1
<1>. QED
  BY <1>2 DEF T

(* What a report names are paths.                                          *)
LEMMA ReportPaths ==
  ASSUME NEW report \in Seq(STRING)
  PROVE  parse_dirsearch_json(report) \in Seq(Path)
<1> DEFINE S == Path
           named == <<Root>> \o report
<1>1. named \in Seq(S) /\ Len(named) >= 1
  <2>1. Root \in S /\ report \in Seq(S)
    BY AllPaths DEF Path
  <2>. HIDE DEF S
  <2>2. <<Root>> \in Seq(S) /\ Len(<<Root>>) = 1
    BY <2>1
  <2>3. Len(report) \in Nat /\ Len(named) = Len(<<Root>>) + Len(report) /\ named \in Seq(S)
    BY <2>1, <2>2
  <2>. HIDE DEF named
  <2>. QED
    BY <2>2, <2>3
<1>2. MAX_DISCOVERED_PATHS \in Nat
  BY InputsAssumption
<1>3. parse_dirsearch_json(report) = First(MAX_DISCOVERED_PATHS, Tail(Distinct(named)))
  BY DEF parse_dirsearch_json
<1>. HIDE DEF S, named
<1>4. Distinct(named) \in Seq(S) /\ Len(Distinct(named)) >= 1
  BY <1>1, DistinctIs
<1>5. Tail(Distinct(named)) \in Seq(S)
  BY <1>4
<1>6. First(MAX_DISCOVERED_PATHS, Tail(Distinct(named))) \in Seq(S)
  BY <1>2, <1>5, FirstIs
<1>. QED
  BY <1>3, <1>6 DEF S

(* No path is a candidate twice.                                           *)
LEMMA CandidatesDiffer ==
  ASSUME job \in Jobs
  PROVE  Candidates \in Seq(Path) /\ IsInjective(Candidates)
<1> DEFINE S == Path
           paths == COMMON_LOGIN_PATHS \o parse_dirsearch_json(job.report)
<1>1. job.report \in Seq(STRING) /\ COMMON_LOGIN_PATHS \in Seq(STRING)
  BY InputsAssumption, VectorsAssumption DEF Job
<1>2. paths \in Seq(S)
  <2>1. COMMON_LOGIN_PATHS \in Seq(S) /\ parse_dirsearch_json(job.report) \in Seq(S)
    BY <1>1, AllPaths, ReportPaths
  <2>. HIDE DEF S
  <2>. QED
    BY <2>1
<1>3. Candidates = Distinct(paths)
  BY DEF Candidates
<1>. HIDE DEF S, paths
<1>4. Distinct(paths) \in Seq(S) /\ IsInjective(Distinct(paths))
  BY <1>2, DistinctIs
<1>. QED
  BY <1>3, <1>4 DEF S

-----------------------------------------------------------------------------
(***************************************************************************)
(* The invariant.                                                          *)
(***************************************************************************)
Pair == STRING \X STRING
Passed == {"spray", "inject", "done"}

SprayTyped ==
  /\ job \in Jobs
  /\ phase \in {"probe", "users", "discover"} \cup Passed
  /\ phase = "users" => job.attackable
  /\ phase = "discover" => ~job.attackable
  /\ panels \in Seq(Path)
  /\ vector \in 1 .. Len(Vectors) + 1
  /\ phase \in {"inject", "done"} => vector = Len(Vectors) + 1
  /\ attempts \in Nat /\ budget \in Nat /\ login_attempts \in Nat
  /\ found_credentials \in Seq([vector : Nat, pair : Pair])
  /\ lost \in BOOLEAN

(* Nothing has been tried before the spray.                                *)
Fresh ==
  phase \notin Passed =>
    /\ plan = build_credentials(job)
    /\ vector = 1 /\ attempts = 0 /\ budget = job.max_attempts /\ login_attempts = 0
    /\ found_credentials = <<>>

(* What the vectors before this one have used, and what they have left.    *)
Spent ==
  /\ attempts <= Smaller(budget, Len(plan))
  /\ vector = Len(Vectors) + 1 => attempts = 0
  /\ IF job.attackable
     THEN /\ budget = job.max_attempts
          /\ login_attempts = (vector - 1) * Smaller(job.max_attempts, Len(plan))
     ELSE /\ login_attempts = Smaller(job.max_attempts, (vector - 1) * Len(plan))
          /\ budget = job.max_attempts - login_attempts

(* No path is discovered twice.                                            *)
PagesDiffer ==
  /\ IsInjective(panels)
  /\ phase = "probe" => panels = <<>>
  /\ phase = "discover" =>
       /\ todo \in Seq(Path) /\ IsInjective(todo)
       /\ Range(panels) \cap Range(todo) = {}

TwoPasswords(j) ==
  /\ j.usernames # <<>> /\ Len(j.passwords) >= 2 /\ j.passwords[1] # j.passwords[2]
  /\ j.max_attempts >= 2

ListsDiffer(j) == IsInjective(j.usernames) /\ IsInjective(j.passwords)

(* A plan repeats nothing that the lists do not, and two passwords of one  *)
(* user are its beginning if they can be.                                  *)
Planned(pairs, j) ==
  /\ pairs \in Seq(Pair)
  /\ ListsDiffer(j) => IsInjective(pairs)
  /\ TwoPasswords(j) =>
       /\ Len(pairs) >= 2
       /\ pairs[1][1] = pairs[2][1] /\ pairs[1][2] # pairs[2][2]

(* The plan for a CMS repeats nothing at all.                              *)
PlanDiffers == phase \in Passed /\ job.attackable => IsInjective(plan)

(* The attempts that have been made: the k-th pair at the w-th vector.     *)
Made(w, k) ==
  /\ w \in 1 .. Len(Vectors) /\ k \in 1 .. Len(plan)
  /\ (w < vector \/ (w = vector /\ k <= attempts))

(* Nobody is let in without a name and a password: as the honeypot knows a *)
(* form by its fields, it would let in everybody who uses others.          *)
NoEmptyCredentials ==
  \A pair \in ALLOWED_WP_CREDENTIALS : pair[1] # "" /\ pair[2] # ""

(* Only what was tried is found, not more often, and the honeypot gives nothing away.*)
FoundWasTried ==
  /\ \A i \in DOMAIN found_credentials :
       \E k \in 1 .. Len(plan) :
         /\ Made(found_credentials[i].vector, k)
         /\ found_credentials[i].pair = plan[k]
  /\ IsInjective(plan) => IsInjective(found_credentials)
  /\ NoEmptyCredentials /\ job.target = "laruche" => Found \subseteq ALLOWED_WP_CREDENTIALS

Takes(w, k) ==
  \A r \in Replies(Vectors[w], plan[k]) : r = Lost \/ login_succeeded(r, Vectors[w])

(* What was tried and is taken is found unless an answer was lost.         *)
TakenIsFound ==
  ~lost => \A w \in 1 .. Len(Vectors), k \in 1 .. Smaller(job.max_attempts, Len(plan)) :
             (w = 1 \/ job.attackable) /\ Made(w, k) /\ Takes(w, k) => plan[k] \in Found

(* What is reported of a trap.                                             *)
Weighed ==
  /\ phase = "done"
  /\ \E user \in {p[1] : p \in Found} : Cardinality(Passwords(user)) >= 2
  => weight = 85

SprayInv ==
  /\ SprayTyped /\ PagesDiffer /\ Fresh /\ Spent /\ Planned(plan, job) /\ PlanDiffers
  /\ FoundWasTried /\ TakenIsFound /\ Weighed

(* The pairs of the lists.                                                 *)
LEMMA ListsPlanned ==
  ASSUME NEW j \in Jobs
  PROVE  Planned(build_credentials(j), j)
<1>1. /\ j.usernames \in Seq(STRING) /\ j.passwords \in Seq(STRING)
      /\ j.max_attempts \in Nat
  BY InputsAssumption DEF Job
<1>2. CASE j.usernames = <<>> \/ j.passwords = <<>>
  <2>1. build_credentials(j) = <<>>
    BY <1>2 DEF build_credentials
  <2>2. ~TwoPasswords(j)
    BY <1>2 DEF TwoPasswords
  <2>. QED
    BY <2>1, <2>2 DEF Planned, IsInjective
<1>3. CASE j.usernames # <<>> /\ j.passwords # <<>>
  <2> DEFINE pairs == Combinations(j.usernames, j.passwords)
             n == IF j.max_attempts = 0 THEN 1 ELSE j.max_attempts
  <2>1. build_credentials(j) = First(n, pairs)
    BY <1>3 DEF build_credentials
  <2>2. n \in Nat /\ (j.max_attempts >= 2 => n >= 2)
    BY <1>1
  <2>3. /\ pairs \in Seq(Pair) /\ (ListsDiffer(j) => IsInjective(pairs))
        /\ Len(pairs) \in Nat
        /\ Len(j.passwords) >= 2 =>
             /\ Len(pairs) >= 2
             /\ pairs[1] = <<j.usernames[1], j.passwords[1]>>
             /\ pairs[2] = <<j.usernames[1], j.passwords[2]>>
    <3> DEFINE S == STRING
               users == j.usernames
               words == j.passwords
    <3>1. users \in Seq(S) /\ words \in Seq(S)
      BY <1>1
    <3>. HIDE DEF S, users, words
    <3>2. ArePairs(Combinations(users, words), users, words, S, S)
      BY <3>1, PairsAre
    <3>. QED
      BY <1>3, <3>1, <3>2 DEF S, users, words, Pair, ArePairs, ListsDiffer
  <2>4. TwoPasswords(j) => j.passwords[1] # j.passwords[2]
    BY DEF TwoPasswords
  <2>. HIDE DEF n, pairs
  <2>5. /\ First(n, pairs) \in Seq(Pair)
        /\ Len(First(n, pairs)) = Smaller(n, Len(pairs))
        /\ \A i \in 1 .. Smaller(n, Len(pairs)) : First(n, pairs)[i] = pairs[i]
        /\ ListsDiffer(j) => IsInjective(First(n, pairs))
    BY <2>2, <2>3, FirstIs
  <2>6. n >= 2 /\ Len(pairs) >= 2 =>
          /\ Smaller(n, Len(pairs)) >= 2
          /\ 1 \in 1 .. Smaller(n, Len(pairs)) /\ 2 \in 1 .. Smaller(n, Len(pairs))
    BY <2>2, <2>3 DEF Smaller
  <2>7. TwoPasswords(j) =>
          /\ Len(First(n, pairs)) >= 2
          /\ First(n, pairs)[1] = <<j.usernames[1], j.passwords[1]>>
          /\ First(n, pairs)[2] = <<j.usernames[1], j.passwords[2]>>
    BY <2>2, <2>3, <2>5, <2>6 DEF TwoPasswords
  <2>8. TwoPasswords(j) => Len(j.passwords) >= 2
    BY DEF TwoPasswords
  <2>. QED
    BY <2>1, <2>4, <2>5, <2>7, <2>8 DEF Planned
<1>. QED
  BY <1>2, <1>3

(* The pairs of the users found, and then those of the lists.              *)
LEMMA UsersPlanned ==
  ASSUME Planned(plan, job), job \in Jobs, NEW users \in {<<>>, FAKE_USERS}
  PROVE  Planned(cred_plan(users), job) /\ IsInjective(cred_plan(users))
<1> DEFINE words == [i \in 1 .. Len(plan) |-> plan[i][2]]
           pairs == Combinations(users, words)
           seq == pairs \o plan
<1>1. cred_plan(users) = Distinct(seq)
  BY DEF cred_plan
<1>2. users \in Seq(STRING)
  <2>1. FAKE_USERS \in Seq(STRING)
    BY VectorsAssumption
  <2>2. <<>> \in Seq(STRING)
    OBVIOUS
  <2>. QED
    BY <2>1, <2>2
<1>3. plan \in Seq(Pair) /\ Len(plan) \in Nat /\ \A i \in 1 .. Len(plan) : plan[i] \in Pair
  BY DEF Planned
<1>4. words \in Seq(STRING) /\ Len(words) = Len(plan)
  <2>1. words \in [1 .. Len(plan) -> STRING]
    BY <1>3 DEF Pair
  <2>. QED
    BY <1>3, <2>1
<1>5. /\ pairs \in Seq(Pair)
      /\ Len(pairs) = Len(users) * Len(words)
      /\ users # <<>> /\ Len(words) >= 2 =>
           /\ Len(pairs) >= 2
           /\ pairs[1] = <<users[1], words[1]>>
           /\ pairs[2] = <<users[1], words[2]>>
  <2> DEFINE S == STRING
  <2>1. users \in Seq(S) /\ words \in Seq(S)
    BY <1>2, <1>4
  <2>. HIDE DEF S, words
  <2>2. ArePairs(pairs, users, words, S, S)
    BY <2>1, PairsAre
  <2>. HIDE DEF pairs
  <2>. QED
    BY <2>2 DEF S, Pair, ArePairs
<1>6. Len(plan) >= 2 => words[1] = plan[1][2] /\ words[2] = plan[2][2]
  BY <1>3
<1>7. users = <<>> => pairs = <<>>
  <2>. HIDE DEF words, pairs
  <2>1. users = <<>> => Len(pairs) = 0
    BY <1>4, <1>5
  <2>. QED
    BY <1>5, <2>1
<1>. HIDE DEF words, pairs
<1>8. seq \in Seq(Pair)
  BY <1>3, <1>5
<1>9. TwoPasswords(job) =>
        /\ Len(seq) >= 2
        /\ seq[1][1] = seq[2][1] /\ seq[1][2] # seq[2][2]
  <2>1. SUFFICES ASSUME TwoPasswords(job)
                 PROVE  /\ Len(seq) >= 2
                        /\ seq[1][1] = seq[2][1] /\ seq[1][2] # seq[2][2]
    OBVIOUS
  <2>2. Len(plan) >= 2 /\ plan[1][1] = plan[2][1] /\ plan[1][2] # plan[2][2]
    BY <2>1 DEF Planned
  <2>3. CASE users = <<>>
    <3>1. Len(seq) = Len(plan) /\ \A i \in 1 .. Len(plan) : seq[i] = plan[i]
      BY <1>3, <1>5, <1>7, <2>3
    <3>2. 1 \in 1 .. Len(plan) /\ 2 \in 1 .. Len(plan)
      BY <1>3, <2>2
    <3>. HIDE DEF seq
    <3>. QED
      BY <2>2, <3>1, <3>2
  <2>4. CASE users # <<>>
    <3>1. Len(pairs) \in Nat /\ Len(pairs) >= 2
      BY <1>4, <1>5, <2>2, <2>4
    <3>2. Len(seq) = Len(pairs) + Len(plan) /\ \A i \in 1 .. Len(pairs) : seq[i] = pairs[i]
      BY <1>3, <1>5
    <3>3. 1 \in 1 .. Len(pairs) /\ 2 \in 1 .. Len(pairs)
      BY <3>1
    <3>4. pairs[1] = <<users[1], plan[1][2]>> /\ pairs[2] = <<users[1], plan[2][2]>>
      BY <1>4, <1>5, <1>6, <2>2, <2>4
    <3>. HIDE DEF seq
    <3>5. Len(seq) >= 2
      BY <1>3, <3>1, <3>2
    <3>6. seq[1] = <<users[1], plan[1][2]>> /\ seq[2] = <<users[1], plan[2][2]>>
      BY <3>2, <3>3, <3>4
    <3>. QED
      BY <2>2, <3>5, <3>6
  <2>. QED
    BY <2>3, <2>4
<1>. HIDE DEF seq
<1>10. /\ Distinct(seq) \in Seq(Pair)
       /\ IsInjective(Distinct(seq))
       /\ Len(seq) >= 2 /\ seq[1] # seq[2] =>
            /\ Len(Distinct(seq)) >= 2
            /\ Distinct(seq)[1] = seq[1] /\ Distinct(seq)[2] = seq[2]
  BY <1>8, DistinctIs
<1>11. TwoPasswords(job) => seq[1] # seq[2]
  BY <1>9
<1>. QED
  BY <1>1, <1>9, <1>10, <1>11 DEF Planned

(* However many login pages there are, they and the names of fields make   *)
(* so many forms.                                                          *)
LEMMA FormsCounted ==
  ASSUME NEW p \in Seq(Path)
  PROVE  Len(Combinations(p, GENERIC_FIELD_COMBOS)) \in Nat
<1> DEFINE S == Path
           T == Pair
<1>1. p \in Seq(S) /\ GENERIC_FIELD_COMBOS \in Seq(T)
  BY VectorsAssumption DEF Pair
<1>. HIDE DEF S, T
<1>3. ArePairs(Combinations(p, GENERIC_FIELD_COMBOS), p, GENERIC_FIELD_COMBOS, S, T)
  BY <1>1, PairsAre
<1>. QED
  BY <1>3 DEF ArePairs

(* There are so many vectors, and those of a CMS are what they are.        *)
LEMMA VectorsAre ==
  ASSUME panels \in Seq(Path)
  PROVE  /\ Len(Vectors) \in Nat
         /\ job.attackable => Vectors = CMS_LOGIN_VECTORS
<1>1. CASE job.attackable
  BY <1>1, VectorsAssumption DEF Vectors
<1>2. CASE ~job.attackable
  <2>1. Len(Combinations(panels, GENERIC_FIELD_COMBOS)) \in Nat
    BY FormsCounted
  <2>2. Len(Vectors) = Len(Combinations(panels, GENERIC_FIELD_COMBOS))
    BY <1>2, <2>1 DEF Vectors
  <2>. QED
    BY <1>2, <2>1, <2>2
<1>. QED
  BY <1>1, <1>2

(* A form of a generic attack marks neither a success nor a failure; what  *)
(* marks a success is not what a refused login brings.                     *)
LEMMA VectorMarks ==
  ASSUME panels \in Seq(Path), NEW w \in 1 .. Len(Vectors)
  PROVE  /\ Vectors[w].successes \cap {"login_error", "faultCode", "denied"} = {}
         /\ Vectors[w].successes \cap Vectors[w].failures = {}
<1>1. CASE job.attackable
  <2>1. Vectors[w] \in Range(CMS_LOGIN_VECTORS)
    <3>1. Vectors = CMS_LOGIN_VECTORS /\ CMS_LOGIN_VECTORS \in Seq(LoginVector)
      BY <1>1, VectorsAre, VectorsAssumption
    <3>2. w \in DOMAIN CMS_LOGIN_VECTORS
      BY <3>1
    <3>. QED
      BY <3>1, <3>2 DEF Range
  <2>2. \A v \in Range(CMS_LOGIN_VECTORS) :
          v.successes \cap (v.failures \cup {"login_error", "faultCode", "denied"}) = {}
    BY VectorsAssumption
  <2>3. Vectors[w].successes
          \cap (Vectors[w].failures \cup {"login_error", "faultCode", "denied"}) = {}
    BY <2>1, <2>2
  <2>. QED
    BY <2>3
<1>2. CASE ~job.attackable
  <2> DEFINE forms == Combinations(panels, GENERIC_FIELD_COMBOS)
             made == [i \in 1 .. Len(forms) |->
                        [path |-> forms[i][1], fields |-> forms[i][2],
                         failures |-> {}, successes |-> {}]]
  <2>1. Vectors = made
    BY <1>2 DEF Vectors
  <2>2. Len(forms) \in Nat
    BY FormsCounted
  <2>. HIDE DEF forms
  <2>3. Len(made) = Len(forms)
    BY <2>2
  <2>4. w \in 1 .. Len(forms)
    BY <2>1, <2>3
  <2>5. made[w].successes = {}
    BY <2>4
  <2>. HIDE DEF made
  <2>. QED
    BY <2>1, <2>5
<1>. QED
  BY <1>1, <1>2

(* The honeypot lets in who gives a pair it allows.                        *)
LEMMA LetInByLaRuche ==
  ASSUME NoEmptyCredentials, job.target = "laruche", panels \in Seq(Path),
         NEW w \in 1 .. Len(Vectors), NEW pair \in Pair,
         NEW r \in Replies(Vectors[w], pair), login_succeeded(r, Vectors[w])
  PROVE  pair \in ALLOWED_WP_CREDENTIALS
<1> DEFINE v == Vectors[w]
<1>1. v.successes \cap {"login_error", "faultCode", "denied"} = {}
  BY VectorMarks
<1>. HIDE DEF v
<1>2. r.status # "none" /\ (v.successes # {} => r.text \cap v.successes # {})
      /\ (v.successes = {} => r.cookie)
  BY DEF login_succeeded, v
<1>3. r = LaRuche(v, pair)
  <2>1. r # Lost
    BY <1>2 DEF Lost, Response
  <2>. QED
    BY <2>1 DEF Replies, v
<1>4. \A text, status : r # Response(status, text, FALSE, {})
                        \/ text \cap v.successes # {}
  BY <1>2 DEF Response
<1>5. v.path = "/wp-login.php" /\ r = wp_login_post(v.fields, pair)
  <2>1. v.path # "/wp-login.php" =>
          \/ r = Response("ok", {"faultCode"}, FALSE, {})
          \/ r = Response("ok", {"denied"}, FALSE, {})
          \/ r = Response("missing", {}, FALSE, {})
    BY <1>3 DEF LaRuche
  <2>2. v.path = "/wp-login.php" => r = wp_login_post(v.fields, pair)
    BY <1>3 DEF LaRuche
  <2>. QED
    BY <1>1, <1>4, <2>1, <2>2
<1> DEFINE username == pick(v.fields[1], {"log", "username", "user", "pma_username", "email"},
                            pair[1])
           password == pick(v.fields[2], {"pwd", "password", "pass", "pma_password"}, pair[2])
<1>6. <<username, password>> \in ALLOWED_WP_CREDENTIALS
  <2>1. <<username, password>> \notin ALLOWED_WP_CREDENTIALS =>
          r = Response("ok", {"login_error"}, FALSE, {})
    BY <1>5 DEF wp_login_post
  <2>. QED
    BY <1>1, <1>4, <2>1
<1>7. username # "" /\ password # ""
  <2>. HIDE DEF username, password
  <2>. QED
    BY <1>6 DEF NoEmptyCredentials
<1>8. username = pair[1] /\ password = pair[2]
  BY <1>7 DEF pick
<1>. HIDE DEF username, password
<1>. QED
  BY <1>6, <1>8 DEF Pair

-----------------------------------------------------------------------------
(***************************************************************************)
(* The invariant is kept.                                                  *)
(***************************************************************************)
(* The attack begins in the invariant.                                     *)
LEMMA SprayBegins == SprayInit => SprayInv
<1> SUFFICES ASSUME SprayInit PROVE SprayInv
  OBVIOUS
<1>1. /\ job \in Jobs /\ phase = "probe" /\ panels = <<>> /\ plan = build_credentials(job)
      /\ vector = 1 /\ attempts = 0 /\ budget = job.max_attempts /\ login_attempts = 0
      /\ found_credentials = <<>> /\ lost = FALSE
  BY DEF SprayInit
<1>2. job.max_attempts \in Nat
  BY <1>1, InputsAssumption DEF Job
<1>3. panels \in Seq(Path)
  BY <1>1
<1>4. Len(Vectors) \in Nat
  BY <1>3, VectorsAre
<1>5. Planned(plan, job)
  BY <1>1, ListsPlanned
<1>6. Len(plan) \in Nat
  BY <1>5 DEF Planned
<1>7. SprayTyped
  <2>1. vector \in 1 .. Len(Vectors) + 1
    BY <1>1, <1>4
  <2>2. found_credentials \in Seq([vector : Nat, pair : Pair])
    BY <1>1
  <2>3. lost \in BOOLEAN /\ attempts \in Nat /\ budget \in Nat /\ login_attempts \in Nat
    BY <1>1, <1>2
  <2>. QED
    BY <1>1, <1>3, <2>1, <2>2, <2>3 DEF SprayTyped, Passed
<1>8. Fresh
  BY <1>1 DEF Fresh
<1>9. Spent
  <2>1. /\ Smaller(job.max_attempts, 0 * Len(plan)) = 0
        /\ 0 * Smaller(job.max_attempts, Len(plan)) = 0
        /\ 0 <= Smaller(budget, Len(plan))
    BY <1>1, <1>2, <1>6 DEF Smaller
  <2>. QED
    BY <1>1, <1>2, <2>1 DEF Spent
<1>10. FoundWasTried
  BY <1>1 DEF FoundWasTried, Found, IsInjective
<1>11. TakenIsFound
  <2>1. \A w \in 1 .. Len(Vectors), k \in 1 .. Len(plan) : ~Made(w, k)
    BY <1>1, <1>4, <1>6 DEF Made
  <2>. QED
    BY <2>1 DEF TakenIsFound, Made
<1>12. Weighed
  BY <1>1 DEF Weighed
<1>13. PagesDiffer /\ PlanDiffers
  BY <1>1 DEF PagesDiffer, PlanDiffers, Passed, IsInjective
<1>. QED
  BY <1>5, <1>7, <1>8, <1>9, <1>10, <1>11, <1>12, <1>13 DEF SprayInv

(* What a step that tries nothing leaves alone.                            *)
tried ==
  <<job, panels, plan, vector, attempts, budget, login_attempts, found_credentials, lost>>

(* A step tries nothing, adds users to the plan, finds a login page, makes *)
(* an attempt or leaves a vector.                                          *)
LEMMA SprayStep ==
  ASSUME [SprayNext]_sprayVars
  PROVE  \/ UNCHANGED tried
         \/ \E users \in {<<>>, FAKE_USERS} : enumerate_wordpress_users(users)
         \/ \E looks_like_login \in BOOLEAN : Discover(looks_like_login)
         \/ Attempt
         \/ VectorEnds
<1>1. CASE SprayNext
  BY <1>1 DEF SprayNext, Probe, Probed, Discovered, Sprayed, analyze_logins, tried
<1>2. CASE UNCHANGED sprayVars
  BY <1>2 DEF sprayVars, tried
<1>. QED
  BY <1>1, <1>2

(* Before the spray, whatever is planned or found, nothing has been tried. *)
LEMMA StillFresh ==
  ASSUME SprayInv, phase \notin Passed,
         UNCHANGED <<job, vector, attempts, budget, login_attempts, found_credentials, lost>>,
         Len(Vectors') \in Nat, Len(plan') \in Nat
  PROVE  Spent' /\ FoundWasTried' /\ TakenIsFound'
<1>1. /\ vector' = 1 /\ attempts' = 0 /\ budget' = job'.max_attempts /\ login_attempts' = 0
      /\ found_credentials' = <<>>
  BY DEF SprayInv, Fresh
<1>2. job'.max_attempts \in Nat
  BY InputsAssumption DEF SprayInv, SprayTyped, Job
<1>3. Spent'
  <2>1. /\ Smaller(job'.max_attempts, 0 * Len(plan')) = 0
        /\ 0 * Smaller(job'.max_attempts, Len(plan')) = 0
        /\ 0 <= Smaller(budget', Len(plan'))
    BY <1>1, <1>2 DEF Smaller
  <2>. QED
    BY <1>1, <1>2, <2>1 DEF Spent
<1>4. FoundWasTried'
  BY <1>1 DEF FoundWasTried, Found, IsInjective
<1>5. TakenIsFound'
  <2>1. \A w \in 1 .. Len(Vectors'), k \in 1 .. Len(plan') :
          ~(w < vector' \/ (w = vector' /\ k <= attempts'))
    BY <1>1
  <2>. QED
    BY <2>1 DEF TakenIsFound, Made
<1>. QED
  BY <1>3, <1>4, <1>5

(* The vectors depend on the job and the login pages.                      *)
LEMMA VectorsKept ==
  ASSUME UNCHANGED <<job, panels>>
  PROVE  Vectors' = Vectors
BY DEF Vectors

(* The variables keep their types, and the phases their order.             *)
LEMMA SprayTypedStep == SprayInv /\ [SprayNext]_sprayVars => SprayTyped'
<1> SUFFICES ASSUME SprayInv, [SprayNext]_sprayVars PROVE SprayTyped'
  OBVIOUS
<1>1. /\ job \in Jobs /\ phase \in {"probe", "users", "discover", "spray", "inject", "done"}
      /\ panels \in Seq(Path)
      /\ vector \in 1 .. Len(Vectors) + 1 /\ Len(Vectors) \in Nat
      /\ attempts \in Nat /\ budget \in Nat /\ login_attempts \in Nat
      /\ found_credentials \in Seq([vector : Nat, pair : Pair])
      /\ lost \in BOOLEAN
  BY VectorsAre DEF SprayInv, SprayTyped, Passed
<1>2. CASE UNCHANGED tried
  <2>1. Vectors' = Vectors
    BY <1>2, VectorsKept DEF tried
  <2>2. /\ job' \in Jobs /\ panels' \in Seq(Path)
        /\ vector' \in 1 .. Len(Vectors') + 1
        /\ attempts' \in Nat /\ budget' \in Nat /\ login_attempts' \in Nat
        /\ found_credentials' \in Seq([vector : Nat, pair : Pair])
        /\ lost' \in BOOLEAN
    BY <1>1, <1>2, <2>1 DEF tried
  <2>3. /\ phase' \in {"probe", "users", "discover"} \cup Passed
        /\ phase' = "users" => job'.attackable
        /\ phase' = "discover" => ~job'.attackable
        /\ phase' \in {"inject", "done"} => vector' = Len(Vectors') + 1
    <3>1. CASE phase' = phase
      BY <1>1, <1>2, <2>1, <3>1 DEF tried, SprayInv, SprayTyped
    <3>2. CASE Probed
      BY <1>2, <3>2 DEF tried, Probed, Passed
    <3>3. CASE Discovered
      BY <3>3 DEF Discovered, Passed
    <3>4. CASE Sprayed
      <4>1. phase' = "inject" /\ vector > Len(Vectors)
        BY <3>4 DEF Sprayed
      <4>2. vector = Len(Vectors) + 1
        BY <1>1, <4>1
      <4>. QED
        BY <1>2, <2>1, <4>1, <4>2 DEF tried, Passed
    <3>5. CASE analyze_logins
      <4>1. phase = "inject" /\ phase' = "done"
        BY <3>5 DEF analyze_logins
      <4>2. vector = Len(Vectors) + 1
        BY <4>1 DEF SprayInv, SprayTyped
      <4>. QED
        BY <1>2, <2>1, <4>1, <4>2 DEF tried, Passed
    <3>6. CASE \E users \in {<<>>, FAKE_USERS} : enumerate_wordpress_users(users)
      BY <3>6 DEF enumerate_wordpress_users, Passed
    <3>7. phase' = phase \/ Probed \/ Discovered \/ Sprayed \/ analyze_logins
          \/ \E users \in {<<>>, FAKE_USERS} : enumerate_wordpress_users(users)
      BY DEF SprayNext, sprayVars, Probe, Discover, Attempt, VectorEnds
    <3>. QED
      BY <3>1, <3>2, <3>3, <3>4, <3>5, <3>6, <3>7
  <2>. QED
    BY <2>2, <2>3 DEF SprayTyped
<1>3. ASSUME NEW users \in {<<>>, FAKE_USERS}, enumerate_wordpress_users(users)
      PROVE  SprayTyped'
  <2>1. /\ phase' = "spray"
        /\ UNCHANGED <<job, panels, vector, attempts, budget, login_attempts, found_credentials,
                       lost>>
    BY <1>3 DEF enumerate_wordpress_users
  <2>2. Vectors' = Vectors
    BY <2>1, VectorsKept
  <2>. QED
    BY <1>1, <2>1, <2>2 DEF SprayTyped, Passed
<1>4. ASSUME NEW looks_like_login \in BOOLEAN, Discover(looks_like_login)
      PROVE  SprayTyped'
  <2>1. /\ phase = "discover" /\ phase' = "discover"
        /\ panels' = panels \/ panels' = Append(panels, Head(todo))
        /\ UNCHANGED <<job, vector, attempts, budget, login_attempts, found_credentials, lost>>
    BY <1>4 DEF Discover
  <2>2. panels' \in Seq(Path)
    <3>1. todo \in Seq(Path) /\ todo # <<>>
      BY <1>4, <2>1 DEF SprayInv, PagesDiffer, Discover
    <3> DEFINE S == Path
    <3>2. todo \in Seq(S) /\ panels \in Seq(S)
      BY <1>1, <3>1
    <3>. HIDE DEF S
    <3>3. Head(todo) \in S
      BY <3>1, <3>2
    <3>4. Append(panels, Head(todo)) \in Seq(S)
      BY <3>2, <3>3
    <3>5. panels' \in Seq(S)
      BY <2>1, <3>2, <3>4
    <3>. QED
      BY <3>5 DEF S
  <2>3. ~job.attackable
    BY <2>1 DEF SprayInv, SprayTyped
  <2>4. Len(Combinations(panels', GENERIC_FIELD_COMBOS)) \in Nat
    BY <2>2, FormsCounted
  <2>5. Len(Vectors') \in Nat
    BY <2>1, <2>3, <2>4 DEF Vectors
  <2>6. vector' = 1
    BY <2>1 DEF SprayInv, Fresh, Passed
  <2>7. vector' \in 1 .. Len(Vectors') + 1
    BY <2>5, <2>6
  <2>. QED
    BY <1>1, <2>1, <2>2, <2>3, <2>7 DEF SprayTyped
<1>5. CASE Attempt
  <2>1. /\ phase = "spray" /\ vector <= Len(Vectors) /\ attempts' = attempts + 1
        /\ lost' \in BOOLEAN
        /\ attempts < Smaller(budget, Len(plan))
        /\ UNCHANGED <<job, phase, panels, plan, vector, budget, login_attempts>>
        /\ \/ found_credentials' = found_credentials
           \/ found_credentials' =
                Append(found_credentials, [vector |-> vector, pair |-> plan[attempts + 1]])
    BY <1>5 DEF Attempt, Spraying, Tried
  <2>2. Vectors' = Vectors
    BY <2>1, VectorsKept
  <2>3. plan[attempts + 1] \in Pair
    <3>1. plan \in Seq(Pair) /\ Len(plan) \in Nat
      BY DEF SprayInv, Planned
    <3>2. attempts + 1 \in 1 .. Len(plan)
      BY <1>1, <2>1, <3>1 DEF Smaller
    <3>. QED
      BY <3>1, <3>2
  <2>4. found_credentials' \in Seq([vector : Nat, pair : Pair])
    <3> DEFINE Hit == [vector : Nat, pair : Pair]
               e == [vector |-> vector, pair |-> plan[attempts + 1]]
    <3>1. found_credentials \in Seq(Hit) /\ e \in Hit
      BY <1>1, <2>3
    <3>2. \/ found_credentials' = found_credentials
          \/ found_credentials' = Append(found_credentials, e)
      BY <2>1
    <3>. HIDE DEF e, Hit
    <3>3. found_credentials' \in Seq(Hit)
      BY <3>1, <3>2
    <3>. QED
      BY <3>3 DEF Hit
  <2>5. attempts' \in Nat
    BY <1>1, <2>1
  <2>. QED
    BY <1>1, <2>1, <2>2, <2>4, <2>5 DEF SprayTyped, Passed
<1>6. CASE VectorEnds
  <2>1. /\ phase = "spray" /\ vector <= Len(Vectors) /\ vector' = vector + 1 /\ attempts' = 0
        /\ login_attempts' = login_attempts + attempts
        /\ budget' = IF job.attackable THEN budget ELSE budget - attempts
        /\ UNCHANGED <<job, phase, panels, found_credentials, lost>>
    BY <1>6 DEF VectorEnds, BudgetLeft
  <2>2. Vectors' = Vectors
    BY <2>1, VectorsKept
  <2>3. budget' \in Nat
    <3>1. attempts <= Smaller(budget, Len(plan)) /\ Len(plan) \in Nat
      BY DEF SprayInv, Spent, Planned
    <3>2. attempts <= budget
      BY <1>1, <3>1 DEF Smaller
    <3>. QED
      BY <1>1, <2>1, <3>2
  <2>4. vector' \in 1 .. Len(Vectors') + 1 /\ attempts' \in Nat /\ login_attempts' \in Nat
    BY <1>1, <2>1, <2>2
  <2>. QED
    BY <1>1, <2>1, <2>3, <2>4 DEF SprayTyped, Passed
<1>. QED
  BY <1>2, <1>3, <1>4, <1>5, <1>6, SprayStep

(* A path that is taken from the candidates is not among the others.       *)
LEMMA PagesStep == SprayInv /\ [SprayNext]_sprayVars => PagesDiffer'
<1> SUFFICES ASSUME SprayInv, [SprayNext]_sprayVars PROVE PagesDiffer'
  OBVIOUS
<1>1. PagesDiffer /\ job \in Jobs /\ panels \in Seq(Path)
  BY DEF SprayInv, SprayTyped
<1>2. CASE Probed
  <2>1. /\ phase = "probe" /\ phase' \in {"users", "discover"} /\ panels' = panels
        /\ phase' = "discover" => todo' = Candidates
    BY <1>2 DEF Probed
  <2>2. Candidates \in Seq(Path) /\ IsInjective(Candidates)
    BY <1>1, CandidatesDiffer
  <2>3. panels' = <<>>
    BY <1>1, <2>1 DEF PagesDiffer
  <2>4. IsInjective(panels') /\ Range(panels') = {}
    BY <2>3 DEF IsInjective, Range
  <2>. QED
    BY <2>1, <2>2, <2>4 DEF PagesDiffer
<1>3. ASSUME NEW looks_like_login \in BOOLEAN, Discover(looks_like_login)
      PROVE  PagesDiffer'
  <2>1. /\ phase = "discover" /\ phase' = "discover" /\ todo # <<>> /\ todo' = Tail(todo)
        /\ panels' = panels \/ panels' = Append(panels, Head(todo))
    BY <1>3 DEF Discover
  <2>2. /\ todo \in Seq(Path) /\ IsInjective(todo) /\ IsInjective(panels)
        /\ Range(panels) \cap Range(todo) = {}
    BY <1>1, <2>1 DEF PagesDiffer
  <2> DEFINE S == Path
             n == Len(todo)
             p == Len(panels)
  <2>3. todo \in Seq(S) /\ panels \in Seq(S)
    BY <1>1, <2>2
  <2>. HIDE DEF S
  <2>4. /\ n \in Nat \ {0} /\ DOMAIN todo = 1 .. n /\ Head(todo) = todo[1]
        /\ Tail(todo) \in Seq(S) /\ DOMAIN Tail(todo) = 1 .. n - 1
        /\ \A i \in 1 .. n - 1 : Tail(todo)[i] = todo[i + 1]
    BY <2>1, <2>3
  <2>5. /\ p \in Nat /\ DOMAIN panels = 1 .. p
        /\ DOMAIN Append(panels, Head(todo)) = 1 .. p + 1
        /\ \A i \in 1 .. p + 1 :
             Append(panels, Head(todo))[i] = IF i = p + 1 THEN todo[1] ELSE panels[i]
    <3>1. todo[1] \in S
      BY <2>3, <2>4
    <3>. QED
      BY <2>3, <2>4, <3>1
  <2>. HIDE DEF n, p
  <2>6. IsInjective(todo')
    <3>1. SUFFICES ASSUME NEW i \in 1 .. n - 1, NEW k \in 1 .. n - 1,
                          todo[i + 1] = todo[k + 1]
                   PROVE  i = k
      BY <2>1, <2>4 DEF IsInjective
    <3>2. i + 1 \in DOMAIN todo /\ k + 1 \in DOMAIN todo
      BY <2>4
    <3>3. i + 1 = k + 1
      BY <2>2, <3>1, <3>2 DEF IsInjective
    <3>. QED
      BY <2>4, <3>3
  <2>7. /\ todo[1] \in Range(todo) /\ Range(todo') \subseteq Range(todo)
        /\ todo[1] \notin Range(todo')
    <3>1. \A i \in 1 .. n - 1 : i + 1 \in DOMAIN todo /\ 1 \in DOMAIN todo /\ i + 1 # 1
      BY <2>4
    <3>2. \A i \in 1 .. n - 1 : todo[i + 1] # todo[1]
      BY <2>2, <3>1 DEF IsInjective
    <3>3. 1 \in DOMAIN todo
      BY <2>4
    <3>. QED
      BY <2>1, <2>4, <3>1, <3>2, <3>3 DEF Range
  <2>8. CASE panels' = panels
    BY <2>1, <2>2, <2>3, <2>4, <2>6, <2>7, <2>8 DEF PagesDiffer, S
  <2>9. CASE panels' = Append(panels, Head(todo))
    <3>1. \A i \in 1 .. p : panels[i] # todo[1]
      BY <2>2, <2>5, <2>7 DEF Range
    <3>2. \A i \in 1 .. p + 1 : i \in 1 .. p \/ i = p + 1
      BY <2>5
    <3>3. IsInjective(panels')
      BY <2>2, <2>5, <2>9, <3>1, <3>2 DEF IsInjective
    <3>4. Range(panels') \subseteq Range(panels) \cup {todo[1]}
      BY <2>5, <2>9, <3>2 DEF Range
    <3>. QED
      BY <2>1, <2>2, <2>4, <2>6, <2>7, <3>3, <3>4 DEF PagesDiffer, S
  <2>. QED
    BY <2>1, <2>8, <2>9
<1>4. CASE panels' = panels /\ phase' \notin {"probe", "discover"}
  BY <1>1, <1>4 DEF PagesDiffer
<1>5. CASE phase = "probe" /\ phase' = "probe" /\ panels' = panels
  BY <1>1, <1>5 DEF PagesDiffer
<1>6. CASE UNCHANGED <<phase, panels, todo>>
  BY <1>1, <1>6 DEF PagesDiffer
<1>7. \/ Probed \/ (\E looks_like_login \in BOOLEAN : Discover(looks_like_login))
      \/ panels' = panels /\ phase' \notin {"probe", "discover"}
      \/ phase = "probe" /\ phase' = "probe" /\ panels' = panels
      \/ UNCHANGED <<phase, panels, todo>>
  BY DEF SprayNext, sprayVars, Probe, enumerate_wordpress_users, Discovered, Attempt, VectorEnds,
         Sprayed, analyze_logins
<1>. QED
  BY <1>2, <1>3, <1>4, <1>5, <1>6, <1>7

(* Until the spray nothing is tried and the plan is that of the lists.     *)
LEMMA FreshStep == SprayInv /\ [SprayNext]_sprayVars => Fresh'
<1> SUFFICES ASSUME SprayInv, [SprayNext]_sprayVars, phase' \notin Passed PROVE Fresh'
  BY DEF Fresh
<1>1. phase \notin Passed
      /\ UNCHANGED <<job, plan, vector, attempts, budget, login_attempts, found_credentials>>
  BY DEF Passed, SprayNext, sprayVars, Probe, Probed, enumerate_wordpress_users, Discover, Discovered,
         Attempt, Spraying, VectorEnds, Sprayed, analyze_logins
<1>. QED
  BY <1>1 DEF SprayInv, Fresh

(* The plan is made of the lists once, and of the users found once.        *)
LEMMA PlannedStep == SprayInv /\ [SprayNext]_sprayVars => Planned(plan, job)'
<1> SUFFICES ASSUME SprayInv, [SprayNext]_sprayVars PROVE Planned(plan, job)'
  OBVIOUS
<1>1. Planned(plan, job) /\ job \in Jobs
  BY DEF SprayInv, SprayTyped
<1>2. CASE \E users \in {<<>>, FAKE_USERS} : enumerate_wordpress_users(users)
  <2>1. PICK users \in {<<>>, FAKE_USERS} : plan' = cred_plan(users) /\ job' = job
    BY <1>2 DEF enumerate_wordpress_users
  <2>2. Planned(cred_plan(users), job)
    BY <1>1, UsersPlanned
  <2>. QED
    BY <2>1, <2>2 DEF Planned, ListsDiffer, TwoPasswords
<1>3. CASE UNCHANGED <<plan, job>>
  BY <1>1, <1>3 DEF Planned, ListsDiffer, TwoPasswords
<1>4. (\E users \in {<<>>, FAKE_USERS} : enumerate_wordpress_users(users))
      \/ UNCHANGED <<plan, job>>
  BY SprayStep DEF tried, Discover, Attempt, VectorEnds
<1>. QED
  BY <1>2, <1>3, <1>4

(* A CMS is sprayed with the plan that its users' enumeration left.        *)
LEMMA PlanDiffersStep == SprayInv /\ [SprayNext]_sprayVars => PlanDiffers'
<1> SUFFICES ASSUME SprayInv, [SprayNext]_sprayVars, phase' \in Passed, job'.attackable
             PROVE  IsInjective(plan')
  BY DEF PlanDiffers
<1>1. Planned(plan, job) /\ job \in Jobs /\ PlanDiffers
      /\ (phase = "discover" => ~job.attackable)
  BY DEF SprayInv, SprayTyped
<1>2. CASE \E users \in {<<>>, FAKE_USERS} : enumerate_wordpress_users(users)
  <2>1. PICK users \in {<<>>, FAKE_USERS} : plan' = cred_plan(users)
    BY <1>2 DEF enumerate_wordpress_users
  <2>. QED
    BY <1>1, <2>1, UsersPlanned
<1>3. CASE phase \in Passed /\ UNCHANGED <<plan, job>>
  BY <1>1, <1>3 DEF PlanDiffers
<1>4. CASE Discovered
  BY <1>1, <1>4 DEF Discovered
<1>5. \/ \E users \in {<<>>, FAKE_USERS} : enumerate_wordpress_users(users)
      \/ phase \in Passed /\ UNCHANGED <<plan, job>>
      \/ Discovered
  BY DEF SprayNext, sprayVars, Probe, Probed, Discover, Attempt, Spraying, VectorEnds, Sprayed,
         analyze_logins, Passed
<1>. QED
  BY <1>2, <1>3, <1>4, <1>5

(* Plans and vectors are counted, before a step and after it.              *)
LEMMA Counted ==
  ASSUME SprayInv, [SprayNext]_sprayVars
  PROVE  /\ Len(plan) \in Nat /\ Len(plan') \in Nat
         /\ Len(Vectors) \in Nat /\ Len(Vectors') \in Nat
<1>1. Len(Vectors) \in Nat
  BY VectorsAre DEF SprayInv, SprayTyped
<1>2. Len(Vectors') \in Nat
  <2>1. panels' \in Seq(Path)
    BY SprayTypedStep DEF SprayTyped
  <2>2. Len(Combinations(panels', GENERIC_FIELD_COMBOS)) \in Nat
    BY <2>1, FormsCounted
  <2>3. CASE job'.attackable
    BY <2>3, VectorsAssumption DEF Vectors
  <2>4. CASE ~job'.attackable
    BY <2>2, <2>4 DEF Vectors
  <2>. QED
    BY <2>3, <2>4
<1>3. Len(plan) \in Nat
  BY DEF SprayInv, Planned
<1>4. Len(plan') \in Nat
  <2>1. Planned(plan, job)'
    BY PlannedStep
  <2>. QED
    BY <2>1 DEF Planned
<1>. QED
  BY <1>1, <1>2, <1>3, <1>4

(* What is used of the limit M when a attempts at P pairs follow those at n *)
(* vectors.                                                                *)
UsesLimit(M, P, n, a) ==
  /\ a = Smaller(M, P) => n * Smaller(M, P) + a = (n + 1) * Smaller(M, P)
  /\ a = Smaller(M - Smaller(M, n * P), P)
       => Smaller(M, n * P) + a = Smaller(M, (n + 1) * P)

LEMMA LimitUsed ==
  ASSUME NEW M \in Nat, NEW P \in Nat, NEW n \in Nat, NEW a \in Nat
  PROVE  UsesLimit(M, P, n, a)
<1>1. Smaller(M, P) \in Nat /\ n * P \in Nat /\ (n + 1) * P = n * P + P
  BY DEF Smaller
<1>2. (n + 1) * Smaller(M, P) = n * Smaller(M, P) + Smaller(M, P)
  BY <1>1
<1> DEFINE x == n * P
           y == (n + 1) * P
<1>3. x \in Nat /\ y = x + P
  BY <1>1
<1>. HIDE DEF x, y
<1>4. a = Smaller(M - Smaller(M, x), P) => Smaller(M, x) + a = Smaller(M, y)
  BY <1>3 DEF Smaller
<1>. QED
  BY <1>2, <1>4 DEF x, y, UsesLimit

(* The account of the limits.                                              *)
LEMMA SpentStep == SprayInv /\ [SprayNext]_sprayVars => Spent'
<1> SUFFICES ASSUME SprayInv, [SprayNext]_sprayVars PROVE Spent'
  OBVIOUS
<1>1. /\ vector \in 1 .. Len(Vectors) + 1 /\ Len(Vectors) \in Nat
      /\ attempts \in Nat /\ budget \in Nat /\ login_attempts \in Nat
      /\ Len(plan) \in Nat /\ Len(plan') \in Nat /\ Len(Vectors') \in Nat
      /\ job.max_attempts \in Nat
  <2>1. job.max_attempts \in Nat
    BY InputsAssumption DEF SprayInv, SprayTyped, Job
  <2>. QED
    BY <2>1, Counted DEF SprayInv, SprayTyped
<1>2. CASE UNCHANGED tried
  <2>1. Vectors' = Vectors
    BY <1>2, VectorsKept DEF tried
  <2>. QED
    BY <1>2, <2>1 DEF tried, SprayInv, Spent
<1>3. CASE \E users \in {<<>>, FAKE_USERS} : enumerate_wordpress_users(users)
  <2>1. /\ phase \notin Passed
        /\ UNCHANGED <<job, vector, attempts, budget, login_attempts, found_credentials, lost>>
    BY <1>3 DEF enumerate_wordpress_users, Passed
  <2>. QED
    BY <1>1, <2>1, StillFresh
<1>4. CASE \E looks_like_login \in BOOLEAN : Discover(looks_like_login)
  <2>1. /\ phase \notin Passed
        /\ UNCHANGED <<job, vector, attempts, budget, login_attempts, found_credentials, lost>>
    BY <1>4 DEF Discover, Passed
  <2>. QED
    BY <1>1, <2>1, StillFresh
<1>5. CASE Attempt
  <2>1. /\ vector <= Len(Vectors) /\ attempts' = attempts + 1
        /\ attempts < Smaller(budget, Len(plan))
        /\ UNCHANGED <<job, panels, plan, vector, budget, login_attempts>>
    BY <1>5 DEF Attempt, Spraying, Tried
  <2>2. Vectors' = Vectors
    BY <2>1, VectorsKept
  <2>3. attempts' <= Smaller(budget', Len(plan')) /\ vector' # Len(Vectors') + 1
    BY <1>1, <2>1, <2>2 DEF Smaller
  <2>. QED
    BY <2>1, <2>3 DEF SprayInv, Spent
<1>6. CASE VectorEnds
  <2>1. /\ phase = "spray" /\ vector <= Len(Vectors) /\ ~Spraying
        /\ vector' = vector + 1 /\ attempts' = 0
        /\ login_attempts' = login_attempts + attempts
        /\ budget' = IF job.attackable THEN budget ELSE budget - attempts
        /\ UNCHANGED <<job, phase, panels, plan>>
    BY <1>6 DEF VectorEnds, BudgetLeft
  <2>2. Vectors' = Vectors
    BY <2>1, VectorsKept
  <2>3. attempts = Smaller(budget, Len(plan))
    <3>1. ~(attempts < Smaller(budget, Len(plan)))
      BY <2>1 DEF Spraying
    <3>2. attempts <= Smaller(budget, Len(plan))
      BY DEF SprayInv, Spent
    <3>. QED
      BY <1>1, <3>1, <3>2 DEF Smaller
  <2>4. attempts' <= Smaller(budget', Len(plan'))
    <3>1. attempts <= budget
      BY <1>1, <2>3 DEF Smaller
    <3>. QED
      BY <1>1, <2>1, <3>1 DEF Smaller
  <2> DEFINE M == job.max_attempts
             P == Len(plan)
             n == vector - 1
  <2>5. n \in Nat /\ n + 1 = vector /\ vector' - 1 = n + 1
    BY <1>1, <2>1
  <2>6. M \in Nat /\ P \in Nat /\ P = Len(plan') /\ M = job'.max_attempts
    BY <1>1, <2>1
  <2>7. job.attackable => budget = M /\ login_attempts = n * Smaller(M, P)
    BY DEF SprayInv, Spent
  <2>8. ~job.attackable => login_attempts = Smaller(M, n * P) /\ budget = M - login_attempts
    BY DEF SprayInv, Spent
  <2>p. P = Len(plan) /\ M = job.max_attempts
    OBVIOUS
  <2>. HIDE DEF M, P, n
  <2>l. /\ attempts = Smaller(M, P) => n * Smaller(M, P) + attempts = (n + 1) * Smaller(M, P)
        /\ attempts = Smaller(M - Smaller(M, n * P), P)
             => Smaller(M, n * P) + attempts = Smaller(M, (n + 1) * P)
    <3>1. UsesLimit(M, P, n, attempts)
      BY <1>1, <2>5, <2>6, LimitUsed
    <3>. QED
      BY <3>1 DEF UsesLimit
  <2>9. CASE job.attackable
    <3>1. login_attempts' = (n + 1) * Smaller(M, P)
      <4>1. attempts = Smaller(M, P) /\ login_attempts = n * Smaller(M, P)
        BY <2>3, <2>7, <2>9, <2>p
      <4>. QED
        BY <2>1, <2>l, <4>1
    <3>. QED
      BY <2>1, <2>4, <2>5, <2>6, <2>7, <2>9, <3>1 DEF Spent
  <2>10. CASE ~job.attackable
    <3>1. login_attempts' = Smaller(M, (n + 1) * P)
      <4>1. budget = M - Smaller(M, n * P) /\ login_attempts = Smaller(M, n * P)
        BY <2>8, <2>10
      <4>2. attempts = Smaller(M - Smaller(M, n * P), P)
        BY <2>3, <2>p, <4>1
      <4>. QED
        BY <2>1, <2>l, <4>1, <4>2
    <3>2. budget' = M - login_attempts'
      <4>1. budget = M - login_attempts /\ budget' = budget - attempts
        BY <2>1, <2>8, <2>10
      <4>2. login_attempts' = login_attempts + attempts
        BY <2>1
      <4>3. M \in Nat /\ login_attempts \in Nat /\ attempts \in Nat
        BY <1>1, <2>6
      <4>. QED
        BY <4>1, <4>2, <4>3
    <3>. QED
      BY <2>1, <2>4, <2>5, <2>6, <2>10, <3>1, <3>2 DEF Spent
  <2>. QED
    BY <2>9, <2>10
<1>. QED
  BY <1>2, <1>3, <1>4, <1>5, <1>6, SprayStep

(* The same after a step.                                                  *)
MadeThen(w, k) ==
  /\ w \in 1 .. Len(Vectors') /\ k \in 1 .. Len(plan')
  /\ (w < vector' \/ (w = vector' /\ k <= attempts'))

(* Leaving a vector, or a further attempt, undoes no attempt.              *)
LEMMA MadeKept ==
  ASSUME SprayInv, Attempt \/ VectorEnds, NEW w, NEW k, Made(w, k)
  PROVE  MadeThen(w, k)
<1>1. /\ vector \in Nat /\ attempts \in Nat /\ Len(Vectors) \in Nat
      /\ Vectors' = Vectors /\ plan' = plan
  BY VectorsAre, VectorsKept DEF SprayInv, SprayTyped, Planned, Attempt, VectorEnds
<1>2. w \in Nat /\ k \in 1 .. Len(plan) /\ (w < vector \/ (w = vector /\ k <= attempts))
  BY DEF Made
<1>3. CASE Attempt
  <2>1. vector' = vector /\ attempts' = attempts + 1
    BY <1>3 DEF Attempt, Tried
  <2>2. k <= attempts => k <= attempts + 1
    BY <1>1, <1>2
  <2>. QED
    BY <1>1, <1>2, <2>1, <2>2 DEF Made, MadeThen
<1>4. CASE VectorEnds
  <2>1. vector' = vector + 1
    BY <1>4 DEF VectorEnds
  <2>2. w < vector'
    BY <1>1, <1>2, <2>1
  <2>. QED
    BY <1>1, <2>2 DEF Made, MadeThen
<1>. QED
  BY <1>3, <1>4

(* An accepted pair is one that was tried, and it was not tried before.    *)
LEMMA FoundStep == SprayInv /\ [SprayNext]_sprayVars => FoundWasTried'
<1> SUFFICES ASSUME SprayInv, [SprayNext]_sprayVars PROVE FoundWasTried'
  OBVIOUS
<1>1. /\ Len(plan) \in Nat /\ Len(plan') \in Nat
      /\ Len(Vectors) \in Nat /\ Len(Vectors') \in Nat
  BY Counted
<1>2. CASE UNCHANGED tried
  <2>1. Vectors' = Vectors
    BY <1>2, VectorsKept DEF tried
  <2>. QED
    BY <1>2, <2>1 DEF tried, SprayInv, FoundWasTried, Made, Found
<1>3. CASE \E users \in {<<>>, FAKE_USERS} : enumerate_wordpress_users(users)
  <2>1. /\ phase \notin Passed
        /\ UNCHANGED <<job, vector, attempts, budget, login_attempts, found_credentials, lost>>
    BY <1>3 DEF enumerate_wordpress_users, Passed
  <2>. QED
    BY <1>1, <2>1, StillFresh
<1>4. CASE \E looks_like_login \in BOOLEAN : Discover(looks_like_login)
  <2>1. /\ phase \notin Passed
        /\ UNCHANGED <<job, vector, attempts, budget, login_attempts, found_credentials, lost>>
    BY <1>4 DEF Discover, Passed
  <2>. QED
    BY <1>1, <2>1, StillFresh
<1>5. FoundWasTried
  BY DEF SprayInv
<1>6. CASE Attempt \/ VectorEnds
  <2>1. plan' = plan /\ job' = job /\ Vectors' = Vectors
    BY <1>6, VectorsKept DEF Attempt, VectorEnds
  <2>2. ASSUME NEW i \in DOMAIN found_credentials
        PROVE  \E k \in 1 .. Len(plan') :
                 MadeThen(found_credentials[i].vector, k) /\ found_credentials[i].pair = plan'[k]
    <3> DEFINE w == found_credentials[i].vector
               pair == found_credentials[i].pair
    <3>2. PICK k \in 1 .. Len(plan) : Made(w, k) /\ pair = plan[k]
      BY <1>5 DEF FoundWasTried
    <3>3. PICK w0 : w0 = w
      OBVIOUS
    <3>4. Made(w0, k)
      BY <3>2, <3>3
    <3>5. MadeThen(w0, k)
      BY <1>6, <3>4, MadeKept
    <3>. QED
      BY <2>1, <3>2, <3>3, <3>5
  <2>3. CASE found_credentials' = found_credentials
    BY <1>5, <2>1, <2>2, <2>3 DEF FoundWasTried, Found, Made, MadeThen
  <2>4. CASE found_credentials' # found_credentials
    <3>1. Attempt
      BY <1>6, <2>4 DEF VectorEnds
    <3> DEFINE pair == plan[attempts + 1]
               e == [vector |-> vector, pair |-> pair]
    <3>2. /\ phase = "spray" /\ vector <= Len(Vectors)
          /\ attempts < Smaller(budget, Len(plan))
          /\ attempts' = attempts + 1 /\ vector' = vector
          /\ found_credentials' = Append(found_credentials, e)
      BY <2>4, <3>1 DEF Attempt, Spraying, Tried
    <3>3. PICK r \in Replies(Vectors[vector], pair) : login_succeeded(r, Vectors[vector])
      BY <2>4, <3>1 DEF Attempt
    <3>4. /\ vector \in 1 .. Len(Vectors) /\ attempts \in Nat /\ budget \in Nat
          /\ panels \in Seq(Path)
          /\ found_credentials \in Seq([vector : Nat, pair : Pair])
          /\ plan \in Seq(Pair)
      BY <1>1, <3>2 DEF SprayInv, SprayTyped, Planned
    <3>5. attempts + 1 \in 1 .. Len(plan)
      BY <1>1, <3>2, <3>4 DEF Smaller
    <3>6. pair \in Pair
      BY <3>4, <3>5
    <3>. HIDE DEF pair
    <3>7. NoEmptyCredentials /\ job.target = "laruche" => pair \in ALLOWED_WP_CREDENTIALS
      BY <3>3, <3>4, <3>6, LetInByLaRuche
    <3>8. e.vector = vector /\ e.pair = pair
      OBVIOUS
    <3>9. IsInjective(plan) => \A i \in DOMAIN found_credentials : found_credentials[i] # e
      <4>1. SUFFICES ASSUME IsInjective(plan),
                            NEW i \in DOMAIN found_credentials, found_credentials[i] = e
                     PROVE  FALSE
        OBVIOUS
      <4>2. PICK k \in 1 .. Len(plan) : Made(vector, k) /\ pair = plan[k]
        BY <1>5, <3>8, <4>1 DEF FoundWasTried
      <4>3. k <= attempts
        BY <3>4, <4>2 DEF Made
      <4>4. plan[k] = plan[attempts + 1] /\ DOMAIN plan = 1 .. Len(plan)
        BY <3>4, <4>2 DEF pair
      <4>5. k = attempts + 1
        BY <3>4, <3>5, <4>1, <4>2, <4>4 DEF IsInjective
      <4>. QED
        BY <3>4, <4>3, <4>5
    <3> DEFINE n == Len(found_credentials)
    <3>. HIDE DEF e
    <3>10. /\ n \in Nat /\ DOMAIN found_credentials = 1 .. n
           /\ DOMAIN found_credentials' = 1 .. n + 1
           /\ \A i \in 1 .. n : found_credentials'[i] = found_credentials[i]
           /\ found_credentials'[n + 1] = e
           /\ \A i \in 1 .. n + 1 : i \in 1 .. n \/ i = n + 1
      <4> DEFINE Hit == [vector : Nat, pair : Pair]
      <4>1. found_credentials \in Seq(Hit)
        BY <3>4
      <4>. HIDE DEF Hit
      <4>. QED
        BY <3>2, <4>1
    <3>. HIDE DEF n
    <3>11. IsInjective(plan') => IsInjective(found_credentials')
      <4>1. IsInjective(plan) => IsInjective(found_credentials)
        BY <1>5 DEF FoundWasTried
      <4>. QED
        BY <2>1, <3>9, <3>10, <4>1 DEF IsInjective
    <3>12. MadeThen(vector, attempts + 1)
      <4>1. attempts + 1 <= attempts'
        BY <3>2, <3>4
      <4>. QED
        BY <2>1, <3>2, <3>4, <3>5, <4>1 DEF MadeThen
    <3>13. \A i \in DOMAIN found_credentials' :
             \E k \in 1 .. Len(plan') :
               MadeThen(found_credentials'[i].vector, k) /\ found_credentials'[i].pair = plan'[k]
      <4>1. SUFFICES ASSUME NEW i \in 1 .. n + 1
                     PROVE  \E k \in 1 .. Len(plan') :
                              /\ MadeThen(found_credentials'[i].vector, k)
                              /\ found_credentials'[i].pair = plan'[k]
        BY <3>10
      <4>2. CASE i \in 1 .. n
        BY <2>2, <3>10, <4>2
      <4>3. CASE i = n + 1
        <5>1. plan'[attempts + 1] = pair /\ attempts + 1 \in 1 .. Len(plan')
          BY <2>1, <3>5 DEF pair
        <5>. QED
          BY <3>8, <3>10, <3>12, <4>3, <5>1
      <4>. QED
        BY <3>10, <4>2, <4>3
    <3>14. NoEmptyCredentials /\ job'.target = "laruche" => Found' \subseteq ALLOWED_WP_CREDENTIALS
      <4>1. Found' \subseteq Found \cup {pair}
        BY <3>8, <3>10 DEF Found
      <4>2. NoEmptyCredentials /\ job.target = "laruche" => Found \subseteq ALLOWED_WP_CREDENTIALS
        BY <1>5 DEF FoundWasTried
      <4>. QED
        BY <2>1, <3>7, <4>1, <4>2
    <3>. QED
      BY <3>11, <3>13, <3>14 DEF FoundWasTried, Made, MadeThen
  <2>. QED
    BY <2>3, <2>4
<1>. QED
  BY <1>2, <1>3, <1>4, <1>6, SprayStep

(* What is taken is found as it is tried, and a vector that shares its     *)
(* limit with none before it is left when all within the limit was tried.  *)
LEMMA TakenStep == SprayInv /\ [SprayNext]_sprayVars => TakenIsFound'
<1> SUFFICES ASSUME SprayInv, [SprayNext]_sprayVars PROVE TakenIsFound'
  OBVIOUS
<1>1. /\ Len(plan) \in Nat /\ Len(plan') \in Nat
      /\ Len(Vectors) \in Nat /\ Len(Vectors') \in Nat
  BY Counted
<1>2. CASE UNCHANGED tried
  <2>1. Vectors' = Vectors
    BY <1>2, VectorsKept DEF tried
  <2>2. TakenIsFound
    BY DEF SprayInv
  <2>3. \A w, k : Made(w, k)' = Made(w, k) /\ Takes(w, k)' = Takes(w, k)
    BY <1>2, <2>1 DEF tried, Made, Takes, Replies
  <2>4. Found' = Found
    BY <1>2 DEF tried, Found
  <2>. QED
    BY <1>2, <2>1, <2>2, <2>3, <2>4 DEF tried, TakenIsFound
<1>3. CASE \E users \in {<<>>, FAKE_USERS} : enumerate_wordpress_users(users)
  <2>1. /\ phase \notin Passed
        /\ UNCHANGED <<job, vector, attempts, budget, login_attempts, found_credentials, lost>>
    BY <1>3 DEF enumerate_wordpress_users, Passed
  <2>. QED
    BY <1>1, <2>1, StillFresh
<1>4. CASE \E looks_like_login \in BOOLEAN : Discover(looks_like_login)
  <2>1. /\ phase \notin Passed
        /\ UNCHANGED <<job, vector, attempts, budget, login_attempts, found_credentials, lost>>
    BY <1>4 DEF Discover, Passed
  <2>. QED
    BY <1>1, <2>1, StillFresh
<1>5. CASE Attempt \/ VectorEnds
  <2>1. plan' = plan /\ job' = job /\ Vectors' = Vectors
    BY <1>5, VectorsKept DEF Attempt, VectorEnds
  <2>2. SUFFICES ASSUME ~lost', NEW w \in 1 .. Len(Vectors),
                        NEW k \in 1 .. Smaller(job.max_attempts, Len(plan)),
                        w = 1 \/ job.attackable, Made(w, k)', Takes(w, k)'
                 PROVE  plan[k] \in Found'
    BY <2>1 DEF TakenIsFound
  <2>3. Takes(w, k)
    BY <2>1, <2>2 DEF Takes, Replies
  <2>4. ~lost /\ Found \subseteq Found'
    <3>1. CASE Attempt
      <4>1. \/ found_credentials' = found_credentials
            \/ found_credentials' =
                 Append(found_credentials, [vector |-> vector, pair |-> plan[attempts + 1]])
        BY <3>1 DEF Attempt
      <4>2. found_credentials \in Seq([vector : Nat, pair : Pair])
        BY DEF SprayInv, SprayTyped
      <4> DEFINE Hit == [vector : Nat, pair : Pair]
                 e == [vector |-> vector, pair |-> plan[attempts + 1]]
      <4>3. found_credentials \in Seq(Hit)
        BY <4>2
      <4>4. \/ found_credentials' = found_credentials
            \/ found_credentials' = Append(found_credentials, e)
        BY <4>1
      <4>. HIDE DEF Hit, e
      <4>5. \A i \in DOMAIN found_credentials :
              i \in DOMAIN found_credentials' /\ found_credentials'[i] = found_credentials[i]
        BY <4>3, <4>4
      <4>6. Found \subseteq Found'
        BY <4>5 DEF Found
      <4>7. ~lost
        BY <2>2, <3>1 DEF Attempt
      <4>. QED
        BY <4>6, <4>7
    <3>2. CASE VectorEnds
      BY <2>2, <3>2 DEF VectorEnds, Found
    <3>. QED
      BY <1>5, <3>1, <3>2
  <2>5. CASE Made(w, k)
    <3>1. plan[k] \in Found
      BY <2>2, <2>3, <2>4, <2>5 DEF SprayInv, TakenIsFound
    <3>. QED
      BY <2>4, <3>1
  <2>6. CASE ~Made(w, k)
    <3>1. /\ k \in 1 .. Len(plan) /\ w \in Nat /\ k \in Nat
          /\ vector \in Nat /\ attempts \in Nat /\ budget \in Nat /\ job.max_attempts \in Nat
          /\ Smaller(job.max_attempts, Len(plan)) \in Nat
      <4>1. job.max_attempts \in Nat
        BY InputsAssumption DEF SprayInv, SprayTyped, Job
      <4>. QED
        BY <1>1, <4>1 DEF Smaller, SprayInv, SprayTyped
    <3>2. ~(w < vector) /\ ~(w = vector /\ k <= attempts)
      BY <2>6, <3>1 DEF Made
    <3>3. w < vector' \/ (w = vector' /\ k <= attempts')
      BY <2>2 DEF Made
    <3>4. CASE VectorEnds
      <4>1. vector' = vector + 1 /\ attempts' = 0 /\ ~Spraying /\ phase = "spray"
            /\ vector <= Len(Vectors)
        BY <3>4 DEF VectorEnds
      <4>2. w = vector
        BY <3>1, <3>2, <3>3, <4>1
      <4>3. budget = job.max_attempts
        <5>1. job.attackable => budget = job.max_attempts
          BY DEF SprayInv, Spent
        <5>2. vector = 1 /\ ~job.attackable => budget = job.max_attempts
          <6>1. vector = 1 /\ ~job.attackable =>
                  login_attempts = Smaller(job.max_attempts, (1 - 1) * Len(plan))
                  /\ budget = job.max_attempts - login_attempts
            BY DEF SprayInv, Spent
          <6>2. Smaller(job.max_attempts, (1 - 1) * Len(plan)) = 0
            BY <1>1, <3>1 DEF Smaller
          <6>. QED
            BY <3>1, <6>1, <6>2
        <5>. QED
          BY <2>2, <4>2, <5>1, <5>2
      <4>4. ~(attempts < Smaller(budget, Len(plan)))
        BY <4>1 DEF Spraying
      <4>. QED
        BY <2>2, <3>1, <3>2, <4>2, <4>3, <4>4
    <3>5. CASE Attempt
      <4>1. vector' = vector /\ attempts' = attempts + 1
        BY <3>5 DEF Attempt, Tried
      <4>2. w = vector /\ k = attempts + 1
        BY <3>1, <3>2, <3>3, <4>1
      <4>3. PICK r \in Replies(Vectors[vector], plan[attempts + 1]) :
              /\ lost' = (lost \/ r = Lost)
              /\ found_credentials' =
                   IF login_succeeded(r, Vectors[vector])
                   THEN Append(found_credentials, [vector |-> vector, pair |-> plan[attempts + 1]])
                   ELSE found_credentials
        BY <3>5 DEF Attempt
      <4>4. r # Lost
        BY <2>2, <4>3
      <4>5. login_succeeded(r, Vectors[vector])
        BY <2>3, <4>2, <4>3, <4>4 DEF Takes
      <4> DEFINE Hit == [vector : Nat, pair : Pair]
                 e == [vector |-> vector, pair |-> plan[attempts + 1]]
      <4>6. found_credentials \in Seq(Hit)
        BY DEF SprayInv, SprayTyped
      <4>7. found_credentials' = Append(found_credentials, e) /\ e.pair = plan[k]
        BY <4>2, <4>3, <4>5
      <4>. HIDE DEF Hit, e
      <4>8. Len(found_credentials) + 1 \in DOMAIN found_credentials'
            /\ found_credentials'[Len(found_credentials) + 1] = e
        BY <4>6, <4>7
      <4>. QED
        BY <4>7, <4>8 DEF Found
    <3>. QED
      BY <1>5, <3>4, <3>5
  <2>. QED
    BY <2>5, <2>6
<1>. QED
  BY <1>2, <1>3, <1>4, <1>5, SprayStep

(* The verdict is drawn once, from all that was found.                     *)
LEMMA WeighedStep == SprayInv /\ [SprayNext]_sprayVars => Weighed'
<1> SUFFICES ASSUME SprayInv, [SprayNext]_sprayVars, phase' = "done" PROVE Weighed'
  BY DEF Weighed
<1>1. CASE analyze_logins
  <2>1. found_credentials' = found_credentials
        /\ ((\E user \in {p[1] : p \in Found} : Cardinality(Passwords(user)) >= 2)
              => weight' = 85)
    BY <1>1 DEF analyze_logins
  <2>2. Found' = Found
    BY <2>1 DEF Found
  <2>3. \A user : Passwords(user)' = Passwords(user)
    BY <2>2 DEF Passwords
  <2>. QED
    BY <2>1, <2>2, <2>3 DEF Weighed
<1>2. CASE phase = "done" /\ UNCHANGED <<found_credentials, weight>>
  <2>1. Found' = Found
    BY <1>2 DEF Found
  <2>2. \A user : Passwords(user)' = Passwords(user)
    BY <2>1 DEF Passwords
  <2>3. Weighed
    BY DEF SprayInv
  <2>. QED
    BY <1>2, <2>1, <2>2, <2>3 DEF Weighed
<1>3. analyze_logins \/ (phase = "done" /\ UNCHANGED <<found_credentials, weight>>)
  BY DEF SprayNext, sprayVars, Probe, Probed, enumerate_wordpress_users, Discover, Discovered,
         Attempt, Spraying, VectorEnds, Sprayed
<1>. QED
  BY <1>1, <1>2, <1>3

(* A trap takes whatever is tried at any vector.                           *)
LEMMA TrapTakes ==
  ASSUME job.target = "trap", panels \in Seq(Path), NEW w \in 1 .. Len(Vectors), NEW k
  PROVE  Takes(w, k)
<1> SUFFICES ASSUME NEW r \in Replies(Vectors[w], plan[k]), r # Lost
             PROVE  login_succeeded(r, Vectors[w])
  BY DEF Takes
<1> DEFINE v == Vectors[w]
<1>1. v.successes \cap v.failures = {}
  BY VectorMarks
<1>2. r \in Trap(v)
  BY DEF Replies
<1>. HIDE DEF v
<1>3. CASE v.successes # {}
  BY <1>1, <1>2, <1>3 DEF Trap, Response, login_succeeded, v
<1>4. CASE v.successes = {}
  <2>1. r.status \in {"redirect", "ok"} /\ r.text = {} /\ r.cookie /\ r.location = {}
    BY <1>2, <1>4 DEF Trap, Response
  <2>. QED
    BY <1>4, <2>1 DEF login_succeeded, v
<1>. QED
  BY <1>3, <1>4

(* The honeypot takes what it allows at the login form of WordPress.       *)
LEMMA LaRucheTakes ==
  ASSUME job.target = "laruche", NEW w, NEW k,
         Vectors[w].path = "/wp-login.php", Vectors[w].fields = <<"log", "pwd">>,
         Vectors[w].successes = {},
         plan[k] \in Pair, plan[k] \in ALLOWED_WP_CREDENTIALS
  PROVE  Takes(w, k)
<1> SUFFICES ASSUME NEW r \in Replies(Vectors[w], plan[k]), r # Lost
             PROVE  login_succeeded(r, Vectors[w])
  BY DEF Takes
<1> DEFINE v == Vectors[w]
           pair == plan[k]
<1>1. r = LaRuche(v, pair)
  BY DEF Replies
<1>2. r = wp_login_post(v.fields, pair)
  BY <1>1 DEF LaRuche
<1>3. <<pair[1], pair[2]>> \in ALLOWED_WP_CREDENTIALS
  BY DEF Pair
<1>4. r = Response("redirect", {}, TRUE, {})
  <2>. HIDE DEF pair
  <2>. QED
    BY <1>2, <1>3 DEF wp_login_post, pick
<1>. QED
  BY <1>4 DEF login_succeeded, Response

(* Finitely many passwords were accepted.                                  *)
LEMMA PasswordsFinite ==
  ASSUME SprayTyped, NEW user
  PROVE  IsFiniteSet(Passwords(user))
<1> DEFINE n == Len(found_credentials)
           f == [i \in 1 .. n |-> found_credentials[i].pair[2]]
           all == {f[i] : i \in 1 .. n}
<1>1. n \in Nat /\ DOMAIN found_credentials = 1 .. n
  BY DEF SprayTyped
<1>. HIDE DEF n
<1>2. IsFiniteSet(1 .. n)
  BY <1>1, FS_Interval
<1>3. f \in Surjection(1 .. n, all)
  BY DEF Surjection
<1>. HIDE DEF f
<1>4. IsFiniteSet(all)
  <2>. HIDE DEF all
  <2>. QED
    BY <1>2, <1>3, FS_Surjection
<1>5. Passwords(user) \subseteq all
  BY <1>1 DEF Passwords, Found, f
<1>. QED
  BY <1>4, <1>5, FS_Subset

(* Two elements make a set of at least two.                                *)
LEMMA AtLeastTwo ==
  ASSUME NEW S, IsFiniteSet(S), NEW a \in S, NEW b \in S, a # b
  PROVE  Cardinality(S) >= 2
<1>1. IsFiniteSet({a}) /\ Cardinality({a}) = 1
  BY FS_Singleton
<1>2. Cardinality({a} \cup {b}) = 2
  BY <1>1, FS_AddElement
<1>3. {a} \cup {b} \in SUBSET S
  OBVIOUS
<1>4. Cardinality({a} \cup {b}) <= Cardinality(S) /\ Cardinality(S) \in Nat
  BY <1>3, FS_Subset, FS_CardinalityType
<1>. QED
  BY <1>2, <1>4

-----------------------------------------------------------------------------
(***************************************************************************)
(* What holds.                                                             *)
(***************************************************************************)
LEMMA SprayInvariant == SpraySpec => []SprayInv
<1>1. SprayInv /\ [SprayNext]_sprayVars => SprayInv'
  BY SprayTypedStep, PagesStep, FreshStep, SpentStep, PlannedStep, PlanDiffersStep, FoundStep,
     TakenStep, WeighedStep
     DEF SprayInv
<1>. QED
  BY <1>1, SprayBegins, PTL DEF SpraySpec

(* A limit at each of L forms leaves no fewer attempts at P pairs than one *)
(* over all of them, and no more than there are.                           *)
LEMMA LimitOfEach ==
  ASSUME NEW M \in Nat, NEW P \in Nat, NEW L \in Nat
  PROVE  /\ L * Smaller(M, P) <= L * P
         /\ L * Smaller(M, P) >= Smaller(M, L * P)
<1>1. CASE M <= P
  <2>1. Smaller(M, P) = M
    BY <1>1 DEF Smaller
  <2>2. L * M <= L * P /\ L * M \in Nat /\ L * P \in Nat
    BY <1>1
  <2>3. CASE L = 0
    <3>1. L * M = 0 /\ L * P = 0
      BY <2>3
    <3>. QED
      BY <2>1, <3>1 DEF Smaller
  <2>4. CASE L >= 1
    <3>1. L * M >= M
      BY <2>4
    <3>. QED
      BY <2>1, <2>2, <3>1 DEF Smaller
  <2>. QED
    BY <2>3, <2>4
<1>2. CASE ~(M <= P)
  <2>1. Smaller(M, P) = P /\ L * P \in Nat
    BY <1>2 DEF Smaller
  <2>. QED
    BY <2>1 DEF Smaller
<1>. QED
  BY <1>1, <1>2

(* Whatever the lists, the limit and the login pages, the attack makes no  *)
(* fewer attempts than the limit and the pairs allow, and, without a CMS,  *)
(* no more than the limit.                                                 *)
THEOREM SprayAttemptsExact == SpraySpec => []AttemptsExact
<1>1. SprayInv => AttemptsExact
  <2> SUFFICES ASSUME SprayInv, phase = "done" PROVE AttemptsExact
    BY DEF AttemptsExact
  <2> DEFINE M == job.max_attempts
             P == Len(plan)
             L == Len(Vectors)
  <2>1. vector = L + 1 /\ L \in Nat /\ P \in Nat /\ M \in Nat
    BY VectorsAre, InputsAssumption DEF SprayInv, SprayTyped, Planned, Job
  <2>2. vector - 1 = L
    BY <2>1
  <2>3. IF job.attackable THEN login_attempts = L * Smaller(M, P)
        ELSE login_attempts = Smaller(M, L * P)
    BY <2>2 DEF SprayInv, Spent
  <2>. HIDE DEF M, P, L
  <2>4. /\ L * Smaller(M, P) <= L * P
        /\ L * Smaller(M, P) >= Smaller(M, L * P)
    BY <2>1, LimitOfEach
  <2>5. /\ Smaller(M, L * P) <= L * P /\ Smaller(M, L * P) >= Smaller(M, L * P)
        /\ Smaller(M, L * P) <= M
    <3>1. L * P \in Nat
      BY <2>1
    <3>. QED
      BY <2>1, <3>1 DEF Smaller
  <2>6. /\ login_attempts <= L * P /\ login_attempts >= Smaller(M, L * P)
        /\ ~job.attackable => login_attempts <= M
    BY <2>3, <2>4, <2>5
  <2>. QED
    BY <2>6 DEF AttemptsExact, M, P, L
<1>. QED
  BY <1>1, SprayInvariant, PTL

(* A vector is known by its page and its fields.                           *)
LEMMA VectorsDiffer ==
  ASSUME panels \in Seq(Path), IsInjective(panels),
         NEW v \in 1 .. Len(Vectors), NEW w \in 1 .. Len(Vectors),
         Vectors[v].path = Vectors[w].path, Vectors[v].fields = Vectors[w].fields
  PROVE  v = w
<1>1. CASE job.attackable
  <2>1. Vectors = CMS_LOGIN_VECTORS /\ DOMAIN CMS_LOGIN_VECTORS = 1 .. Len(CMS_LOGIN_VECTORS)
    BY <1>1, VectorsAre, VectorsAssumption
  <2>. QED
    BY <2>1, VectorsAssumption
<1>2. CASE ~job.attackable
  <2> DEFINE forms == Combinations(panels, GENERIC_FIELD_COMBOS)
             made == [i \in 1 .. Len(forms) |->
                        [path |-> forms[i][1], fields |-> forms[i][2],
                         failures |-> {}, successes |-> {}]]
             S == Path
             T == Pair
  <2>1. Vectors = made
    BY <1>2 DEF Vectors
  <2>2. panels \in Seq(S) /\ GENERIC_FIELD_COMBOS \in Seq(T) /\ IsInjective(GENERIC_FIELD_COMBOS)
    BY VectorsAssumption DEF Pair
  <2>. HIDE DEF S, T
  <2>3. ArePairs(forms, panels, GENERIC_FIELD_COMBOS, S, T)
    BY <2>2, PairsAre
  <2>. HIDE DEF forms
  <2>4. forms \in Seq(S \X T) /\ Len(forms) \in Nat /\ IsInjective(forms)
    BY <2>2, <2>3 DEF ArePairs
  <2>5. Len(made) = Len(forms)
    BY <2>4
  <2>6. v \in 1 .. Len(forms) /\ w \in 1 .. Len(forms)
    BY <2>1, <2>5
  <2>7. /\ made[v].path = forms[v][1] /\ made[v].fields = forms[v][2]
        /\ made[w].path = forms[w][1] /\ made[w].fields = forms[w][2]
    BY <2>6
  <2>8. forms[v] \in S \X T /\ forms[w] \in S \X T
    BY <2>4, <2>6
  <2>. HIDE DEF made
  <2>9. forms[v] = forms[w]
    BY <2>1, <2>7, <2>8
  <2>. QED
    BY <2>4, <2>6, <2>9 DEF IsInjective
<1>. QED
  BY <1>1, <1>2

(* No page takes a pair twice in the same fields: dict.fromkeys keeps one  *)
(* of each pair, whatever the users found and the lists have in common,    *)
(* and no path is a candidate twice.  Without a CMS the lists themselves   *)
(* must not repeat anything.                                               *)
THEOREM SprayNoLoginTwice == SpraySpec => []NoLoginTwice
<1>1. SprayInv => NoLoginTwice
  <2> SUFFICES ASSUME SprayInv, job.attackable \/ ListsDiffer(job),
                      NEW i \in DOMAIN found_credentials, NEW j \in DOMAIN found_credentials,
                      Login(found_credentials[i]) = Login(found_credentials[j])
               PROVE  i = j
    BY DEF NoLoginTwice, ListsDiffer
  <2>1. IsInjective(plan)
    <3>1. phase \in Passed
      <4>1. phase \notin Passed => found_credentials = <<>>
        BY DEF SprayInv, Fresh
      <4>. QED
        BY <4>1
    <3>. QED
      BY <3>1 DEF SprayInv, Planned, PlanDiffers
  <2>2. IsInjective(found_credentials)
    BY <2>1 DEF SprayInv, FoundWasTried
  <2> DEFINE a == found_credentials[i]
             b == found_credentials[j]
             Hit == [vector : Nat, pair : Pair]
  <2>3. a \in Hit /\ b \in Hit
    <3>1. found_credentials \in Seq(Hit)
      BY DEF SprayInv, SprayTyped
    <3>. HIDE DEF Hit
    <3>. QED
      BY <3>1
  <2>4. a.vector \in 1 .. Len(Vectors) /\ b.vector \in 1 .. Len(Vectors)
    BY DEF SprayInv, FoundWasTried, Made
  <2>5. /\ Vectors[a.vector].path = Vectors[b.vector].path
        /\ Vectors[a.vector].fields = Vectors[b.vector].fields
        /\ a.pair = b.pair
    BY DEF Login
  <2>6. panels \in Seq(Path) /\ IsInjective(panels)
    BY DEF SprayInv, SprayTyped, PagesDiffer
  <2>7. a.vector = b.vector
    <3>1. PICK v \in 1 .. Len(Vectors) : v = a.vector
      BY <2>4
    <3>2. PICK w \in 1 .. Len(Vectors) : w = b.vector
      BY <2>4
    <3>3. Vectors[v].path = Vectors[w].path /\ Vectors[v].fields = Vectors[w].fields
      BY <2>5, <3>1, <3>2
    <3>4. v = w
      BY <2>6, <3>3, VectorsDiffer
    <3>. QED
      BY <3>1, <3>2, <3>4
  <2>8. a = b
    <3>. HIDE DEF a, b
    <3>. QED
      BY <2>3, <2>5, <2>7
  <2>. QED
    BY <2>2, <2>8 DEF IsInjective
<1>. QED
  BY <1>1, SprayInvariant, PTL

(* A target that lets everybody in is suspected when two passwords of one  *)
(* user could be tried and no answer was lost, whatever users it leaks.    *)
THEOREM SprayTrapIsSuspected == SpraySpec => []TrapIsSuspected
<1>1. SprayInv => TrapIsSuspected
  <2> SUFFICES ASSUME SprayInv, phase = "done", job.target = "trap", ~lost,
                      Len(job.passwords) >= 2, job.passwords[1] # job.passwords[2],
                      job.usernames # <<>>, job.max_attempts >= 2,
                      Len(Vectors) > 0
               PROVE  weight >= SUSPECT_THRESHOLD
    BY DEF TrapIsSuspected
  <2>1. /\ vector = Len(Vectors) + 1 /\ Len(Vectors) \in Nat
        /\ panels \in Seq(Path)
        /\ plan \in Seq(Pair) /\ Len(plan) \in Nat
        /\ job.max_attempts \in Nat
    BY VectorsAre, InputsAssumption DEF SprayInv, SprayTyped, Planned, Job
  <2>2. Len(plan) >= 2 /\ plan[1][1] = plan[2][1] /\ plan[1][2] # plan[2][2]
    BY DEF SprayInv, Planned, TwoPasswords
  <2>3. ASSUME NEW k \in {1, 2} PROVE plan[k] \in Found
    <3>1. 1 \in 1 .. Len(Vectors) /\ 1 < vector /\ k \in 1 .. Len(plan)
          /\ k \in 1 .. Smaller(job.max_attempts, Len(plan))
      BY <2>1, <2>2 DEF Smaller
    <3>2. Made(1, k)
      BY <3>1 DEF Made
    <3>3. Takes(1, k)
      BY <2>1, <3>1, TrapTakes
    <3>. QED
      BY <3>1, <3>2, <3>3 DEF SprayInv, TakenIsFound
  <2> DEFINE user == plan[1][1]
  <2>4. user \in {p[1] : p \in Found} /\ plan[1][2] \in Passwords(user)
        /\ plan[2][2] \in Passwords(user)
    BY <2>2, <2>3 DEF Passwords
  <2>. HIDE DEF user
  <2>5. IsFiniteSet(Passwords(user))
    BY PasswordsFinite DEF SprayInv
  <2>6. Cardinality(Passwords(user)) >= 2
    BY <2>2, <2>4, <2>5, AtLeastTwo
  <2>7. weight = 85
    BY <2>4, <2>6 DEF SprayInv, Weighed
  <2>8. SUSPECT_THRESHOLD \in 0 .. 85
    BY VectorsAssumption
  <2>. QED
    BY <2>7, <2>8
<1>. QED
  BY <1>1, SprayInvariant, PTL

(* Of this repository's honeypot the attack finds, of all the pairs it may *)
(* try, just those it allows, when it allows none without a name or a      *)
(* password.                                                               *)
THEOREM SprayBaitIsFound == ASSUME NoEmptyCredentials PROVE SpraySpec => []BaitIsFound
<1>1. SprayInv => BaitIsFound
  <2> SUFFICES ASSUME SprayInv, phase = "done", job.target = "laruche" PROVE BaitIsFound
    BY DEF BaitIsFound
  <2>1. Found \subseteq ALLOWED_WP_CREDENTIALS
    BY DEF SprayInv, FoundWasTried
  <2>2. ASSUME job.attackable, ~lost,
               NEW pair \in ALLOWED_WP_CREDENTIALS \cap Range(First(job.max_attempts, plan))
        PROVE  pair \in Found
    <3>1. /\ vector = Len(Vectors) + 1 /\ Len(Vectors) \in Nat
          /\ plan \in Seq(Pair) /\ Len(plan) \in Nat
          /\ job.max_attempts \in Nat
          /\ Vectors = CMS_LOGIN_VECTORS
      BY <2>2, VectorsAre, InputsAssumption DEF SprayInv, SprayTyped, Planned, Job
    <3> DEFINE m == Smaller(job.max_attempts, Len(plan))
               T == Pair
    <3>2. plan \in Seq(T)
      BY <3>1
    <3>. HIDE DEF T
    <3>3. /\ First(job.max_attempts, plan) \in Seq(T)
          /\ Len(First(job.max_attempts, plan)) = m
          /\ m \in 0 .. Len(plan)
          /\ \A i \in 1 .. m : First(job.max_attempts, plan)[i] = plan[i]
      BY <3>1, <3>2, FirstIs
    <3>. HIDE DEF m
    <3>4. PICK k \in 1 .. m : pair = plan[k]
      <4>1. DOMAIN First(job.max_attempts, plan) = 1 .. m
        BY <3>3
      <4>. QED
        BY <3>3, <4>1 DEF Range
    <3>5. k \in 1 .. Len(plan)
      BY <3>1, <3>3
    <3>6. plan[k] \in Pair
      BY <3>1, <3>5
    <3>7. PICK w \in 1 .. Len(Vectors) :
            /\ Vectors[w].path = "/wp-login.php" /\ Vectors[w].fields = <<"log", "pwd">>
            /\ Vectors[w].successes = {}
      <4>1. PICK v \in Range(CMS_LOGIN_VECTORS) :
              v.path = "/wp-login.php" /\ v.fields = <<"log", "pwd">> /\ v.successes = {}
        BY VectorsAssumption
      <4>2. DOMAIN CMS_LOGIN_VECTORS = 1 .. Len(CMS_LOGIN_VECTORS)
        BY VectorsAssumption
      <4>3. PICK w \in 1 .. Len(CMS_LOGIN_VECTORS) : v = CMS_LOGIN_VECTORS[w]
        BY <4>2 DEF Range
      <4>. QED
        BY <3>1, <4>1, <4>3
    <3>8. Takes(w, k)
      BY <3>4, <3>6, <3>7, LaRucheTakes
    <3>9. Made(w, k)
      BY <3>1, <3>5 DEF Made
    <3>. QED
      BY <2>2, <3>4, <3>8, <3>9 DEF SprayInv, TakenIsFound, m
  <2>. QED
    BY <2>1, <2>2 DEF BaitIsFound
<1>. QED
  BY <1>1, SprayInvariant, PTL

==============================================================================
