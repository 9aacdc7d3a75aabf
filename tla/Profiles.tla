------------------------------ MODULE Profiles ------------------------------
(***************************************************************************)
(* analyzer/enrich.py: the profile that each line of the enriched log gets.*)
(* A pass classifies every session by all the events the raw logs hold     *)
(* when it begins, and writes the result on the lines of its new events    *)
(* only; sessions go on meanwhile, and the analyzer may stop between two   *)
(* lines.  A session is what _session_key puts together: the events of one *)
(* session_id, or all the events of one address in the HTTP log, which has *)
(* no session_id.  Either way its events are in one raw log, in order, so  *)
(* it does not matter that the logs are read one after the other.  Torn    *)
(* and invalid lines are the subject of LogPipeline.                       *)
(***************************************************************************)
EXTENDS Classifier

CONSTANTS
  Sessions,
  Kinds,      \* the events there are, without their time
  Gaps,       \* seconds that may pass from one event of a session to the next
  MaxEvents,  \* bound: events in all
  MaxStops    \* bound: how often the analyzer is stopped

ASSUME InputsAssumption ==
  /\ Kinds \subseteq [auth : BOOLEAN, path : Paths \cup {NoPath}, agent : BOOLEAN]
  /\ Gaps \subseteq Nat
  /\ MaxEvents \in Nat
  /\ MaxStops \in Nat

VARIABLES
  log,       \* the events of each session in the raw logs
  out,       \* the lines of each session in the enriched log
  seen,      \* how many events of each session the pass has read
  profiles,  \* what it has made of them
  state,     \* "idle", "appending" or "down"
  stops

vars == <<log, out, seen, profiles, state, stops>>

Init ==
  /\ log = [s \in Sessions |-> <<>>]
  /\ out = [s \in Sessions |-> <<>>]
  /\ seen = [s \in Sessions |-> 0]
  /\ profiles = [s \in Sessions |-> "human"]
  /\ state = "idle"
  /\ stops = 0

\* A honeypot writes an event of session s.
Log(s, kind, gap) ==
  /\ MapThenSumSet(LAMBDA x : Len(log[x]), Sessions) < MaxEvents
  /\ log' = [log EXCEPT ![s] = Append(@,
       [auth |-> kind.auth, path |-> kind.path, agent |-> kind.agent,
        time |-> IF @ = <<>> THEN 0 ELSE @[Len(@)].time + gap])]
  /\ UNCHANGED <<out, seen, profiles, state, stops>>

\* Mutant of Fresh: a session is done when one of its events is.
FreshSessions(s, n) == IF out[s] = <<>> THEN 1 .. n ELSE {}

\* Of the first n events of session s, those the enriched log does not have.
Fresh(s, n) == 1 .. n \ {out[s][k].event : k \in DOMAIN out[s]}

\* Mutant of session_profile: only the new events are classified.
session_profileFresh(s) ==
  classify_session(SubSeq(log[s], Len(out[s]) + 1, Len(log[s])))

session_profile(s) == classify_session(log[s])

StartPass ==
  /\ state = "idle"
  /\ \E s \in Sessions : Fresh(s, Len(log[s])) # {}
  /\ seen' = [s \in Sessions |-> Len(log[s])]
  /\ profiles' = [s \in Sessions |-> session_profile(s)]
  /\ state' = "appending"
  /\ UNCHANGED <<log, out, stops>>

Left == UNION {{<<s, i>> : i \in Fresh(s, seen[s])} : s \in Sessions}

\* The next line; events are written in the order of the raw log.
AppendLine(s) ==
  /\ state = "appending"
  /\ \E i \in Fresh(s, seen[s]) :
       /\ \A j \in Fresh(s, seen[s]) : i <= j
       /\ out' = [out EXCEPT ![s] = Append(@, [event |-> i, profile |-> profiles[s]])]
       /\ state' = IF Left = {<<s, i>>} THEN "idle" ELSE "appending"
  /\ UNCHANGED <<log, seen, profiles, stops>>

\* Killed, or an exception out of an enricher, between two lines.
Stop ==
  /\ state = "appending"
  /\ stops < MaxStops
  /\ stops' = stops + 1
  /\ state' = "down"
  /\ UNCHANGED <<log, out, seen, profiles>>

\* restart: unless-stopped
Restart ==
  /\ state = "down"
  /\ state' = "idle"
  /\ UNCHANGED <<log, out, seen, profiles, stops>>

Next ==
  \/ \E s \in Sessions, kind \in Kinds, gap \in Gaps : Log(s, kind, gap)
  \/ StartPass
  \/ \E s \in Sessions : AppendLine(s)
  \/ Stop
  \/ Restart

Spec == Init /\ [][Next]_vars

\* run_forever starts passes and goes through them; compose restarts it.
Fairness ==
  /\ WF_vars(StartPass)
  /\ WF_vars(\E s \in Sessions : AppendLine(s))
  /\ WF_vars(Restart)

FairSpec == Spec /\ Fairness
-----------------------------------------------------------------------------
Lines == [event : Nat, profile : Profiles]

TypeOK ==
  /\ log \in [Sessions -> Seq(Event)]
  /\ out \in [Sessions -> Seq(Lines)]
  /\ seen \in [Sessions -> Nat]
  /\ profiles \in [Sessions -> Profiles]
  /\ state \in {"idle", "appending", "down"}
  /\ stops \in Nat

Prefix(s, n) == SubSeq(log[s], 1, n)

\* Whatever stops in between, the lines of a session are its events in order,
\* and each says what the session was, as a whole, at some time since that
\* event: never less than up to the event itself, nor a part of the session.
ProfileExplained ==
  \A s \in Sessions : \A k \in DOMAIN out[s] :
    /\ out[s][k].event = k
    /\ \E n \in k .. Len(log[s]) : out[s][k].profile = classify_session(Prefix(s, n))

\* The lines of a session may contradict each other as it goes on, but scanning
\* is not forgotten: after a line that says so, none says bot or human.
ScannerIsFinal ==
  \A s \in Sessions : \A j, k \in DOMAIN out[s] :
    j < k /\ out[s][j].profile = "scanner"
      => out[s][k].profile \in {"scanner", "bruteforcer"}

\* In the end the last line of a session has the profile of all its events:
\* looking at the last line is enough, at any other it is not.
Settles ==
  \A s \in Sessions :
    <>[](log[s] # <<>> =>
           /\ Len(out[s]) = Len(log[s])
           /\ out[s][Len(out[s])].profile = classify_session(log[s]))
=============================================================================
