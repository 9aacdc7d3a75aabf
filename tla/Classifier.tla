----------------------------- MODULE Classifier -----------------------------
(***************************************************************************)
(* analyzer/classifier.py: the profile of a session, from its events.  A   *)
(* session is the sequence of its events in the order of their timestamps, *)
(* in seconds; ratios and the coefficient of variation are percentages,    *)
(* and fractions are compared without division.                            *)
(***************************************************************************)
EXTENDS Naturals, Sequences, FiniteSets, FiniteSetsExt

CONSTANTS
  Paths,                       \* what payload.path may be
  NoPath,                      \* no payload.path
  BRUTEFORCE_MIN_AUTH,         \* 8
  BRUTEFORCE_AUTH_RATIO,       \* 60
  SCANNER_MIN_DISTINCT_PATHS,  \* 20
  SCANNER_UA_MIN_PATHS,        \* 10
  BOT_MIN_RATE_PER_MIN,        \* 30
  BOT_MAX_TIMING_CV            \* 35

ASSUME ThresholdsAssumption ==
  /\ {BRUTEFORCE_MIN_AUTH, BRUTEFORCE_AUTH_RATIO, SCANNER_MIN_DISTINCT_PATHS,
      SCANNER_UA_MIN_PATHS, BOT_MIN_RATE_PER_MIN, BOT_MAX_TIMING_CV} \subseteq Nat
  /\ NoPath \notin Paths

Profiles == {"bot", "bruteforcer", "human", "scanner"}

\* auth: is event_type in _AUTH_TYPES?  agent: payload.is_scanner.
Event == [auth : BOOLEAN, path : Paths \cup {NoPath}, agent : BOOLEAN, time : Nat]

Duration(session) ==
  IF session = <<>> THEN 0 ELSE session[Len(session)].time - session[1].time

Gap(session, i) == session[i + 1].time - session[i].time

\* With k gaps of sum S and sum of squares Q, the square of pstdev / fmean is
\* k * Q / S^2 - 1; a mean of 0 counts as a variation of 0.
Regular(session) ==
  LET k == Len(session) - 1
      S == Duration(session)
      Q == MapThenSumSet(LAMBDA i : Gap(session, i) * Gap(session, i), 1 .. k)
  IN 10000 * k * Q <= (10000 + BOT_MAX_TIMING_CV * BOT_MAX_TIMING_CV) * S * S

\* Events of one instant have no rate: their number stands in for it.
Fast(session) ==
  IF Duration(session) = 0
  THEN Len(session) >= BOT_MIN_RATE_PER_MIN
  ELSE 60 * Len(session) >= BOT_MIN_RATE_PER_MIN * Duration(session)

Auths(session) == {i \in DOMAIN session : session[i].auth}

DistinctPaths(session) == {session[i].path : i \in DOMAIN session} \ {NoPath}

\* Mutant of ScannerAgent: all(...) in place of any(...).
ScannerAgentAll(session) == \A i \in DOMAIN session : session[i].agent

ScannerAgent(session) == \E i \in DOMAIN session : session[i].agent

Bruteforces(session) ==
  LET n == Cardinality(Auths(session)) IN
  /\ n >= BRUTEFORCE_MIN_AUTH
  /\ 100 * n >= BRUTEFORCE_AUTH_RATIO * Len(session)

Scans(session) ==
  LET n == Cardinality(DistinctPaths(session)) IN
  \/ n >= SCANNER_MIN_DISTINCT_PATHS
  \/ ScannerAgent(session) /\ n >= SCANNER_UA_MIN_PATHS

classify_session(session) ==
  IF Bruteforces(session) THEN "bruteforcer"
  ELSE IF Scans(session) THEN "scanner"
  ELSE IF Fast(session) /\ Regular(session) THEN "bot"
  ELSE "human"
=============================================================================
