----------------------------- MODULE Reputation -----------------------------
(***************************************************************************)
(* How the analyzer asks AbuseIPDB and GreyNoise about the address of an   *)
(* event (analyzer/enrichers/*.py) and remembers what they answer: in a    *)
(* SQLite table per provider, which survives the process, and in           *)
(* Enricher._ip_cache (analyzer/enrich.py), which does not.  The process   *)
(* stops, between any two steps or because an enricher raises, and is      *)
(* restarted, perhaps with other API keys.                                 *)
(*                                                                         *)
(* GeoIP reads a local file, keeps nothing and answers the same for the    *)
(* life of the process; it is left out, and so is the throttling.  A line  *)
(* counts as written once write returns: see LogPipeline for its fate.     *)
(***************************************************************************)
EXTENDS Naturals

CONSTANTS
  Events,
  Ips,
  Public,     \* the addresses _is_public accepts
  IpOf,       \* src_ip of an event
  Verdicts,   \* what a provider may say of an address
  Neutral,    \* _EMPTY, _UNKNOWN
  Nothing,    \* no row, no entry, no line
  MaxDeaths   \* bound: how often the process stops

Providers == {"abuseipdb", "greynoise"}

ASSUME ReputationAssumption ==
  /\ Public \subseteq Ips
  /\ IpOf \in [Events -> Ips]
  /\ Neutral \notin Verdicts
  /\ Nothing \notin Verdicts \cup {Neutral}
  /\ Nothing \notin Events
  /\ Nothing \notin Providers
  /\ MaxDeaths \in Nat

VARIABLES
  alive,     \* the process runs
  key,       \* does it have the key of a provider?
  memory,    \* Enricher._ip_cache
  table,     \* the SQLite tables
  work,      \* the event under way: what enrichment_for has found so far,
             \* and the answer that _store has not committed yet
  written,   \* the enrichment on the line of an event
  calls,     \* requests made to a provider about an address
  deaths     \* how often it stopped

reputationVars == <<alive, key, memory, table, work, written, calls, deaths>>

Answers == Verdicts \cup {Neutral}

Enrichments == [Providers -> Answers]

NothingFound == [p \in Providers |-> Nothing]

Rest ==
  [event |-> Nothing, found |-> NothingFound, asked |-> Nothing, answer |-> Nothing]

ReputationInit ==
  /\ alive = TRUE
  /\ key \in [Providers -> BOOLEAN]
  /\ memory = [i \in Ips |-> Nothing]
  /\ table = [p \in Providers |-> [i \in Ips |-> Nothing]]
  /\ work = Rest
  /\ written = [e \in Events |-> Nothing]
  /\ calls = [p \in Providers |-> [i \in Ips |-> 0]]
  /\ deaths = 0

(* enrich_event on an address enrichment_for remembers. *)
Reuse(e) ==
  /\ alive
  /\ work.event = Nothing
  /\ written[e] = Nothing
  /\ memory[IpOf[e]] # Nothing
  /\ written' = [written EXCEPT ![e] = memory[IpOf[e]]]
  /\ UNCHANGED <<alive, key, memory, table, work, calls, deaths>>

Begin(e) ==
  /\ alive
  /\ work.event = Nothing
  /\ written[e] = Nothing
  /\ memory[IpOf[e]] = Nothing
  /\ work' = [Rest EXCEPT !.event = e]
  /\ UNCHANGED <<alive, key, memory, table, written, calls, deaths>>

Ip == IpOf[work.event]

(* Mutant of Turn: GreyNoise waits for a verdict of AbuseIPDB. *)
TurnAfterVerdict(p) ==
  /\ work.event # Nothing
  /\ work.asked = Nothing
  /\ work.found[p] = Nothing
  /\ p = "greynoise" => work.found["abuseipdb"] \in Verdicts

(* Provider p is the next one: AbuseIPDB goes before GreyNoise. *)
Turn(p) ==
  /\ work.event # Nothing
  /\ work.asked = Nothing
  /\ work.found[p] = Nothing
  /\ p = "greynoise" => work.found["abuseipdb"] # Nothing

(* Mutant of Known: without a key the table is not consulted. *)
KnownWithKey(p) ==
  IF Ip \in Public /\ key[p] THEN table[p][Ip] ELSE Neutral

(* What enrich returns without asking, or Nothing. *)
Known(p) ==
  IF Ip \notin Public THEN Neutral
  ELSE IF table[p][Ip] = Nothing /\ ~key[p] THEN Neutral
  ELSE table[p][Ip]

Lookup(p) ==
  /\ alive
  /\ Turn(p)
  /\ Known(p) # Nothing
  /\ work' = [work EXCEPT !.found[p] = Known(p)]
  /\ UNCHANGED <<alive, key, memory, table, written, calls, deaths>>

Call(p) == calls' = [calls EXCEPT ![p][Ip] = @ + 1]

(* _query_api returns: a verdict, or neutral fields for an HTTP error,     *)
(* another status than 200 or a body that is not JSON.                     *)
Ask(p, answer) ==
  /\ alive
  /\ Turn(p)
  /\ Known(p) = Nothing
  /\ Call(p)
  /\ work' = [work EXCEPT !.asked = p, !.answer = answer]
  /\ UNCHANGED <<alive, key, memory, table, written, deaths>>

Dies ==
  /\ deaths < MaxDeaths
  /\ deaths' = deaths + 1
  /\ alive' = FALSE
  /\ work' = Rest

(* _query_api raises on JSON that is not the object it expects; neither    *)
(* run_once nor run_forever catches it.                                    *)
AskRaises(p) ==
  /\ alive
  /\ Turn(p)
  /\ Known(p) = Nothing
  /\ Call(p)
  /\ Dies
  /\ UNCHANGED <<key, memory, table, written>>

(* Mutant of Row: an error is not worth a row. *)
RowOfVerdict(answer) == IF answer = Neutral THEN Nothing ELSE answer

(* What _store writes: neutral answers too, whatever they come from. *)
Row(answer) == answer

(* _store commits. *)
Store ==
  /\ alive
  /\ work.asked # Nothing
  /\ table' = [table EXCEPT ![work.asked][Ip] = Row(work.answer)]
  /\ work' = [work EXCEPT !.found[work.asked] = work.answer,
                          !.asked = Nothing, !.answer = Nothing]
  /\ UNCHANGED <<alive, key, memory, written, calls, deaths>>

AllFound == \A p \in Providers : work.found[p] # Nothing

(* enrichment_for returns and run_once writes the line. *)
WriteEnriched ==
  /\ alive
  /\ work.event # Nothing
  /\ AllFound
  /\ memory' = [memory EXCEPT ![Ip] = work.found]
  /\ written' = [written EXCEPT ![work.event] = work.found]
  /\ work' = Rest
  /\ UNCHANGED <<alive, key, table, calls, deaths>>

AnalyzerStops ==
  /\ alive
  /\ Dies
  /\ UNCHANGED <<key, memory, table, written, calls>>

(* A new process: a new Enricher, and the keys of its environment. *)
AnalyzerRestarts(keys) ==
  /\ ~alive
  /\ alive' = TRUE
  /\ key' = keys
  /\ memory' = [i \in Ips |-> Nothing]
  /\ UNCHANGED <<table, work, written, calls, deaths>>

ReputationNext ==
  \/ \E e \in Events : Reuse(e)
  \/ \E e \in Events : Begin(e)
  \/ \E p \in Providers : Lookup(p)
  \/ \E p \in Providers, a \in Answers : Ask(p, a)
  \/ \E p \in Providers : AskRaises(p)
  \/ Store
  \/ WriteEnriched
  \/ AnalyzerStops
  \/ \E keys \in [Providers -> BOOLEAN] : AnalyzerRestarts(keys)

ReputationSpec == ReputationInit /\ [][ReputationNext]_reputationVars

(***************************************************************************)
(* The analyzer is one sequential program, every call of which has a       *)
(* timeout, and compose restarts it.  That a provider does not send        *)
(* unexpected JSON for ever is part of the bound on stops.                 *)
(***************************************************************************)
AnalyzerWorks ==
  \/ \E e \in Events : Reuse(e) \/ Begin(e)
  \/ \E p \in Providers : Lookup(p)
  \/ \E p \in Providers, a \in Answers : Ask(p, a)
  \/ Store
  \/ WriteEnriched

ReputationFairness ==
  /\ WF_reputationVars(AnalyzerWorks)
  /\ WF_reputationVars(\E keys \in [Providers -> BOOLEAN] : AnalyzerRestarts(keys))

ReputationFairSpec == ReputationSpec /\ ReputationFairness

----------------------------------------------------------------------------
(***************************************************************************)
(* Properties.                                                             *)
(***************************************************************************)
(* The type of every variable; an answer comes from a provider that was    *)
(* asked, for an event under way.                                          *)
ReputationTypeOK ==
  /\ alive \in BOOLEAN
  /\ key \in [Providers -> BOOLEAN]
  /\ memory \in [Ips -> Enrichments \cup {Nothing}]
  /\ table \in [Providers -> [Ips -> Answers \cup {Nothing}]]
  /\ work \in [event : Events \cup {Nothing},
               found : [Providers -> Answers \cup {Nothing}],
               asked : Providers \cup {Nothing},
               answer : Answers \cup {Nothing}]
  /\ (work.asked = Nothing) = (work.answer = Nothing)
  /\ work.event = Nothing => work.found = NothingFound /\ work.asked = Nothing
  /\ written \in [Events -> Enrichments \cup {Nothing}]
  /\ calls \in [Providers -> [Ips -> Nat]]
  /\ deaths \in Nat

(* Calls about an address beyond the first. *)
Repeated(p, i) == IF calls[p][i] = 0 THEN 0 ELSE calls[p][i] - 1

(* Only a stop makes the analyzer ask a provider again about an address,   *)
(* and one stop costs one call to one of the two: whatever was stored is   *)
(* never asked for again, however many events name the address and         *)
(* whatever the answers were, for an error counts as an answer.            *)
CallsBounded ==
  \A i \in Ips : Repeated("abuseipdb", i) + Repeated("greynoise", i) <= deaths

(* What a provider answered about an address is final: the row never       *)
(* changes, and every line written from then on carries it, with or        *)
(* without a key, from the table or from memory, before and after stops.   *)
VerdictIsFinal ==
  [][\A p \in Providers, i \in Public :
       table[p][i] # Nothing =>
         /\ table'[p][i] = table[p][i]
         /\ \A e \in Events :
              IpOf[e] = i /\ written'[e] # written[e]
                => written'[e][p] = table[p][i]]_reputationVars

(* Once the analyzer has begun, every event is written in the end, although *)
(* its address may be unknown to every provider, no key be set and every    *)
(* stop happen.                                                             *)
EverythingIsWritten ==
  work.event # Nothing ~> \A e \in Events : written[e] # Nothing

============================================================================
