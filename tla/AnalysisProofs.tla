--------------------------- MODULE AnalysisProofs ---------------------------
(* Proofs about what is made of the logs: Reputation, for any events,      *)
(* addresses, verdicts and number of stops; what Profiles says of a        *)
(* session, for any sessions, events and thresholds; and, last, what       *)
(* Provisioner guarantees, for any runs, titles and files.                 *)
EXTENDS Profiles, Reputation, Provisioner, Integers, FiniteSetTheorems,
        FunctionTheorems, SequenceTheorems, TLAPS

WorkState == [event : Events \cup {Nothing},
           found : [Providers -> Answers \cup {Nothing}],
           asked : Providers \cup {Nothing},
           answer : Answers \cup {Nothing}]

LEMMA RestType == Rest \in WorkState
BY DEF Rest, WorkState, NothingFound

LEMMA DiesType ==
  ASSUME deaths \in Nat, Dies
  PROVE  /\ work' \in WorkState /\ deaths' = deaths + 1 /\ deaths' \in Nat
         /\ work'.event = Nothing /\ work'.found = NothingFound
         /\ work'.asked = Nothing /\ work'.answer = Nothing
         /\ alive' = FALSE
BY RestType DEF Dies, Rest

(* One more request, to the provider and about the address at hand. *)
LEMMA CallCounts ==
  ASSUME calls \in [Providers -> [Ips -> Nat]], NEW p \in Providers,
         Ip \in Ips, Call(p)
  PROVE  /\ calls' \in [Providers -> [Ips -> Nat]]
         /\ calls'[p][Ip] = calls[p][Ip] + 1
         /\ \A q \in Providers, i \in Ips :
              q # p \/ i # Ip => calls'[q][i] = calls[q][i]
<1>1. calls[p][Ip] \in Nat /\ calls[p] \in [Ips -> Nat]
  OBVIOUS
<1>2. calls' = [calls EXCEPT ![p] = [calls[p] EXCEPT ![Ip] = calls[p][Ip] + 1]]
  BY DEF Call
<1>3. calls[p][Ip] + 1 \in Nat
  BY <1>1
<1>4. [calls[p] EXCEPT ![Ip] = calls[p][Ip] + 1] \in [Ips -> Nat]
  BY <1>1, <1>3
<1>. QED
  BY <1>1, <1>2, <1>3, <1>4

LEMMA IpType ==
  ASSUME ReputationTypeOK, work.event # Nothing
  PROVE  Ip \in Ips /\ work.event \in Events
BY ReputationAssumption DEF ReputationTypeOK, Ip
LEMMA ReputationTypeInit == ReputationInit => ReputationTypeOK
<1> SUFFICES ASSUME ReputationInit PROVE ReputationTypeOK
  OBVIOUS
<1>1. work \in WorkState
  BY RestType DEF ReputationInit
<1>. QED
  BY <1>1 DEF ReputationInit, ReputationTypeOK, WorkState, Rest

(* What a lookup puts into the event under way. *)
LEMMA FoundType ==
  ASSUME NEW w \in WorkState, NEW p \in Providers, NEW a \in Answers
  PROVE  /\ [w EXCEPT !.found[p] = a] \in WorkState
         /\ [w EXCEPT !.found[p] = a].event = w.event
         /\ [w EXCEPT !.found[p] = a].asked = w.asked
         /\ [w EXCEPT !.found[p] = a].answer = w.answer
         /\ [w EXCEPT !.found[p] = a].found = [w.found EXCEPT ![p] = a]
<1>1. [w.found EXCEPT ![p] = a] \in [Providers -> Answers \cup {Nothing}]
  BY DEF WorkState
<1>. QED
  BY <1>1 DEF WorkState

LEMMA KnownType ==
  ASSUME ReputationTypeOK, work.event # Nothing,
         NEW p \in Providers, Known(p) # Nothing
  PROVE  Known(p) \in Answers
BY IpType DEF ReputationTypeOK, Known, Answers

LEMMA AskedType ==
  ASSUME ReputationTypeOK, work.asked # Nothing
  PROVE  /\ work.asked \in Providers /\ work.answer \in Answers
         /\ work.event # Nothing /\ Ip \in Ips
BY IpType DEF ReputationTypeOK

LEMMA ReputationTypeStep ==
  ReputationTypeOK /\ [ReputationNext]_reputationVars => ReputationTypeOK'
<1> SUFFICES ASSUME ReputationTypeOK, [ReputationNext]_reputationVars
             PROVE  ReputationTypeOK'
  OBVIOUS
<1>0. work \in WorkState
  BY DEF ReputationTypeOK, WorkState
<1>1. ASSUME NEW e \in Events, Reuse(e) PROVE ReputationTypeOK'
  BY <1>1, ReputationAssumption DEF Reuse, ReputationTypeOK
<1>2. ASSUME NEW e \in Events, Begin(e) PROVE ReputationTypeOK'
  <2>1. /\ work' \in WorkState /\ work'.event = e /\ work'.asked = Nothing
        /\ work'.answer = Nothing
    BY <1>2 DEF Begin, Rest, WorkState, NothingFound
  <2>. QED
    BY <1>2, <2>1, ReputationAssumption DEF Begin, ReputationTypeOK, WorkState
<1>3. ASSUME NEW p \in Providers, Lookup(p) PROVE ReputationTypeOK'
  <2>1. work.event # Nothing /\ Known(p) \in Answers
    BY <1>3, KnownType DEF Lookup, Turn
  <2>2. /\ work' \in WorkState /\ work'.event = work.event
        /\ work'.asked = work.asked /\ work'.answer = work.answer
    BY <1>0, <1>3, <2>1, FoundType DEF Lookup
  <2>. QED
    BY <1>3, <2>1, <2>2 DEF Lookup, ReputationTypeOK, WorkState
<1>4. ASSUME NEW p \in Providers, NEW a \in Answers, Ask(p, a) PROVE ReputationTypeOK'
  <2>1. work.event # Nothing /\ Ip \in Ips
    BY <1>4, IpType DEF Ask, Turn
  <2>2. calls' \in [Providers -> [Ips -> Nat]]
    BY <1>4, <2>1, CallCounts DEF Ask, ReputationTypeOK
  <2>3. /\ work' \in WorkState /\ work'.event = work.event
        /\ work'.asked = p /\ work'.answer = a
    BY <1>0, <1>4 DEF Ask, WorkState
  <2>4. p # Nothing /\ a # Nothing
    BY ReputationAssumption DEF Answers
  <2>. QED
    BY <1>4, <2>1, <2>2, <2>3, <2>4 DEF Ask, ReputationTypeOK, WorkState
<1>5. ASSUME NEW p \in Providers, AskRaises(p) PROVE ReputationTypeOK'
  <2>1. Ip \in Ips
    BY <1>5, IpType DEF AskRaises, Turn
  <2>2. calls' \in [Providers -> [Ips -> Nat]]
    BY <1>5, <2>1, CallCounts DEF AskRaises, ReputationTypeOK
  <2>. QED
    BY <1>5, <2>2, DiesType DEF AskRaises, ReputationTypeOK, WorkState
<1>6. CASE Store
  <2>1. /\ work.asked \in Providers /\ work.answer \in Answers
        /\ work.event # Nothing /\ Ip \in Ips
    BY <1>6, AskedType DEF Store
  <2>2. /\ work' \in WorkState /\ work'.event = work.event
        /\ work'.asked = Nothing /\ work'.answer = Nothing
    <3> DEFINE p == work.asked
               a == work.answer
    <3>1. work' = [work EXCEPT !.found[p] = a, !.asked = Nothing, !.answer = Nothing]
      BY <1>6 DEF Store
    <3>2. p \in Providers /\ a \in Answers
      BY <2>1
    <3>. HIDE DEF p, a
    <3> DEFINE w == [work EXCEPT !.found[p] = a, !.asked = Nothing, !.answer = Nothing]
    <3>3. /\ w \in WorkState /\ w.event = work.event
          /\ w.asked = Nothing /\ w.answer = Nothing
      <4>1. [work.found EXCEPT ![p] = a] \in [Providers -> Answers \cup {Nothing}]
        BY <1>0, <3>2 DEF WorkState
      <4>. QED
        BY <1>0, <3>2, <4>1 DEF WorkState
    <3>. QED
      BY <3>1, <3>3
  <2>3. table' \in [Providers -> [Ips -> Answers \cup {Nothing}]]
    BY <1>6, <2>1 DEF Store, Row, ReputationTypeOK
  <2>. QED
    BY <1>6, <2>1, <2>2, <2>3 DEF Store, ReputationTypeOK, WorkState
<1>7. CASE WriteEnriched
  <2>1. work.event \in Events /\ Ip \in Ips
    BY <1>7, IpType DEF WriteEnriched
  <2>2. work.found \in Enrichments
    BY <1>7 DEF WriteEnriched, AllFound, ReputationTypeOK, Enrichments
  <2>3. /\ memory' \in [Ips -> Enrichments \cup {Nothing}]
        /\ written' \in [Events -> Enrichments \cup {Nothing}]
    BY <1>7, <2>1, <2>2 DEF WriteEnriched, ReputationTypeOK
  <2>. QED
    BY <1>7, <2>3, RestType DEF WriteEnriched, ReputationTypeOK, WorkState, Rest
<1>8. CASE AnalyzerStops
  BY <1>8, DiesType DEF AnalyzerStops, ReputationTypeOK, WorkState
<1>9. ASSUME NEW keys \in [Providers -> BOOLEAN], AnalyzerRestarts(keys)
      PROVE  ReputationTypeOK'
  BY <1>9 DEF AnalyzerRestarts, ReputationTypeOK
<1>10. CASE UNCHANGED reputationVars
  BY <1>10 DEF reputationVars, ReputationTypeOK
<1>. QED
  BY <1>1, <1>2, <1>3, <1>4, <1>5, <1>6, <1>7, <1>8, <1>9, <1>10 DEF ReputationNext

(* The variables of the reputation enrichers always have their types. *)
THEOREM ReputationTyped ==
  ReputationSpec => []ReputationTypeOK
BY ReputationTypeInit, ReputationTypeStep, PTL DEF ReputationSpec

----------------------------------------------------------------------------
(* An answer that is not stored yet is about a public address without a    *)
(* row, and nothing was found from its provider before.                    *)
Pending ==
  work.asked # Nothing =>
    /\ work.found[work.asked] = Nothing
    /\ Ip \in Public
    /\ table[work.asked][Ip] = Nothing

LEMMA PendingStep ==
  ReputationTypeOK /\ Pending /\ [ReputationNext]_reputationVars => Pending'
<1> SUFFICES ASSUME ReputationTypeOK, Pending, [ReputationNext]_reputationVars,
                    work'.asked # Nothing
             PROVE  Pending'
  BY DEF Pending
<1>0. Nothing \notin Answers
  BY ReputationAssumption DEF Answers
<1>1. ASSUME UNCHANGED <<work, table>> PROVE Pending'
  BY <1>1 DEF Pending, Ip
<1>2. ASSUME NEW p \in Providers, NEW a \in Answers, Ask(p, a) PROVE Pending'
  <2>1. work'.asked = p /\ work'.event = work.event /\ work'.found = work.found
    BY <1>2 DEF Ask, ReputationTypeOK
  <2>2. Ip \in Public /\ table[p][Ip] = Nothing /\ work.found[p] = Nothing
    BY <1>0, <1>2 DEF Ask, Turn, Known, Answers
  <2>. QED
    BY <1>2, <2>1, <2>2 DEF Ask, Pending, Ip
<1>3. ASSUME NEW p \in Providers, Lookup(p) PROVE Pending'
  BY <1>3 DEF Lookup, Turn, ReputationTypeOK
<1>4. CASE Store
  BY <1>4 DEF Store, ReputationTypeOK
<1>5. CASE \/ \E e \in Events : Begin(e)
           \/ \E p \in Providers : AskRaises(p)
           \/ WriteEnriched
           \/ AnalyzerStops
  BY <1>5 DEF Begin, AskRaises, WriteEnriched, AnalyzerStops, Dies, Rest
<1>. QED
  BY <1>1, <1>2, <1>3, <1>4, <1>5 DEF ReputationNext, reputationVars, Reuse, AnalyzerRestarts

----------------------------------------------------------------------------
(***************************************************************************)
(* The bound on calls.  The call under way, or the row, accounts for one   *)
(* call to a provider about an address; the others were lost, and each     *)
(* stop loses one.                                                         *)
(***************************************************************************)
Settled(p, i) == table[p][i] # Nothing \/ (work.asked = p /\ Ip = i)

Lost(p, i) == IF Settled(p, i) THEN calls[p][i] - 1 ELSE calls[p][i]

SettledWasAsked ==
  \A p \in Providers, i \in Ips : Settled(p, i) => calls[p][i] >= 1

LostByStops ==
  \A i \in Ips : Lost("abuseipdb", i) + Lost("greynoise", i) <= deaths

CallsInv == ReputationTypeOK /\ Pending /\ SettledWasAsked /\ LostByStops

LEMMA LostType ==
  ASSUME ReputationTypeOK, NEW p \in Providers, NEW i \in Ips
  PROVE  calls[p][i] \in Nat /\ Lost(p, i) \in Int
BY DEF ReputationTypeOK, Lost

(* A step that loses no call. *)
LEMMA NothingLost ==
  ASSUME LostByStops, deaths' = deaths,
         \A q \in Providers, i \in Ips : Lost(q, i)' = Lost(q, i)
  PROVE  LostByStops'
BY DEF LostByStops, Providers

(* A step that is a stop, and loses calls to at most one provider. *)
LEMMA OneLost ==
  ASSUME ReputationTypeOK, ReputationTypeOK', LostByStops, deaths' = deaths + 1,
         NEW p \in Providers,
         \A i \in Ips : Lost(p, i)' <= Lost(p, i) + 1,
         \A q \in Providers \ {p}, i \in Ips : Lost(q, i)' = Lost(q, i)
  PROVE  LostByStops'
<1> SUFFICES ASSUME NEW i \in Ips
             PROVE  Lost("abuseipdb", i)' + Lost("greynoise", i)' <= deaths'
  BY DEF LostByStops
<1>1. \A q \in Providers : Lost(q, i) \in Int /\ Lost(q, i)' \in Int
  <2>1. \A q \in Providers : Lost(q, i) \in Int
    BY LostType
  <2>2. \A q \in Providers : Lost(q, i)' \in Int
    BY DEF ReputationTypeOK, Lost
  <2>. QED
    BY <2>1, <2>2
<1>2. Lost("abuseipdb", i) + Lost("greynoise", i) <= deaths /\ deaths \in Nat
  BY DEF LostByStops, ReputationTypeOK
<1>3. CASE p = "abuseipdb"
  BY <1>1, <1>2, <1>3 DEF Providers
<1>4. CASE p = "greynoise"
  BY <1>1, <1>2, <1>4 DEF Providers
<1>. QED
  BY <1>3, <1>4 DEF Providers

LEMMA CallsStep ==
  CallsInv /\ [ReputationNext]_reputationVars => CallsInv'
<1> SUFFICES ASSUME CallsInv, [ReputationNext]_reputationVars, ReputationTypeOK'
             PROVE  SettledWasAsked' /\ LostByStops'
  BY ReputationTypeStep, PendingStep DEF CallsInv
<1> USE DEF CallsInv
<1>0. /\ calls \in [Providers -> [Ips -> Nat]] /\ deaths \in Nat
      /\ \A q \in Providers, i \in Ips : calls[q][i] \in Nat
  BY DEF ReputationTypeOK
<1>n. /\ Nothing \notin Providers /\ Nothing \notin Answers
  BY ReputationAssumption DEF Answers
<1>1. ASSUME UNCHANGED <<calls, deaths>>,
             \A q \in Providers, i \in Ips : Settled(q, i)' = Settled(q, i)
      PROVE  SettledWasAsked' /\ LostByStops'
  <2>1. \A q \in Providers, i \in Ips : Lost(q, i)' = Lost(q, i)
    BY <1>1 DEF Lost
  <2>. QED
    BY <1>1, <2>1, NothingLost DEF SettledWasAsked
<1>2. ASSUME UNCHANGED <<table, calls, deaths>>,
             work'.asked = work.asked,
             work'.event = work.event \/ work.asked = Nothing
      PROVE  SettledWasAsked' /\ LostByStops'
  <2>1. \A q \in Providers, i \in Ips : Settled(q, i)' = Settled(q, i)
    BY <1>2, <1>n DEF Settled, Ip
  <2>. QED
    BY <1>1, <1>2, <2>1
<1>3. ASSUME NEW e \in Events, Reuse(e) PROVE SettledWasAsked' /\ LostByStops'
  BY <1>2, <1>3 DEF Reuse
<1>4. ASSUME NEW e \in Events, Begin(e) PROVE SettledWasAsked' /\ LostByStops'
  <2>1. work.asked = Nothing /\ work'.asked = Nothing
    BY <1>4 DEF Begin, Rest, ReputationTypeOK
  <2>. QED
    BY <1>2, <1>4, <2>1 DEF Begin
<1>5. ASSUME NEW p \in Providers, Lookup(p) PROVE SettledWasAsked' /\ LostByStops'
  <2>1. work'.asked = work.asked /\ work'.event = work.event
    BY <1>5 DEF Lookup, ReputationTypeOK
  <2>. QED
    BY <1>2, <1>5, <2>1 DEF Lookup
<1>6. ASSUME NEW p \in Providers, NEW a \in Answers, Ask(p, a)
      PROVE  SettledWasAsked' /\ LostByStops'
  <2>1. Ip \in Ips /\ table[p][Ip] = Nothing /\ work.asked = Nothing
    BY <1>6, <1>n, IpType DEF Ask, Turn, Known, Answers
  <2>2. /\ calls'[p][Ip] = calls[p][Ip] + 1
        /\ \A q \in Providers, i \in Ips :
             q # p \/ i # Ip => calls'[q][i] = calls[q][i]
    BY <1>0, <1>6, <2>1, CallCounts DEF Ask
  <2>3. work'.asked = p /\ Ip' = Ip
    BY <1>6 DEF Ask, ReputationTypeOK, Ip
  <2>4. UNCHANGED <<table, deaths>>
    BY <1>6 DEF Ask
  <2>5. ~Settled(p, Ip) /\ Settled(p, Ip)'
    BY <2>1, <2>3, <1>n DEF Settled
  <2>6. \A q \in Providers, i \in Ips :
          q # p \/ i # Ip => Settled(q, i)' = Settled(q, i)
    BY <2>1, <2>3, <2>4, <1>n DEF Settled
  <2>7. Lost(p, Ip)' = Lost(p, Ip)
    <3>1. calls[p][Ip] \in Nat /\ calls'[p][Ip] - 1 = calls[p][Ip]
      BY <1>0, <2>1, <2>2
    <3>2. Lost(p, Ip) = calls[p][Ip]
      BY <2>5 DEF Lost
    <3>3. Lost(p, Ip)' = calls'[p][Ip] - 1
      BY <2>3, <2>5 DEF Lost
    <3>. QED
      BY <3>1, <3>2, <3>3
  <2>8. ASSUME NEW q \in Providers, NEW i \in Ips
        PROVE  /\ Lost(q, i)' = Lost(q, i)
               /\ Settled(q, i)' => calls'[q][i] >= 1
    <3>1. CASE q = p /\ i = Ip
      BY <1>0, <2>1, <2>2, <2>3, <2>7, <3>1
    <3>2. CASE q # p \/ i # Ip
      BY <2>2, <2>6, <3>2 DEF Lost, SettledWasAsked
    <3>. QED
      BY <3>1, <3>2
  <2>. QED
    BY <2>4, <2>8, NothingLost DEF SettledWasAsked
<1>7. ASSUME NEW p \in Providers, AskRaises(p) PROVE SettledWasAsked' /\ LostByStops'
  <2>1. Ip \in Ips /\ table[p][Ip] = Nothing /\ work.asked = Nothing
    BY <1>7, <1>n, IpType DEF AskRaises, Turn, Known, Answers
  <2>2. /\ calls'[p][Ip] = calls[p][Ip] + 1
        /\ \A q \in Providers, i \in Ips :
             q # p \/ i # Ip => calls'[q][i] = calls[q][i]
    BY <1>0, <1>7, <2>1, CallCounts DEF AskRaises
  <2>3. deaths' = deaths + 1 /\ work'.asked = Nothing /\ table' = table
    BY <1>7 DEF AskRaises, Dies, Rest
  <2>4. \A q \in Providers, i \in Ips : Settled(q, i)' = Settled(q, i)
    BY <2>1, <2>3, <1>n DEF Settled
  <2>5. ~Settled(p, Ip)
    BY <2>1, <1>n DEF Settled
  <2>6. \A i \in Ips : Lost(p, i)' <= Lost(p, i) + 1
    <3> TAKE i \in Ips
    <3>1. CASE i = Ip
      BY <1>0, <2>1, <2>2, <2>4, <2>5, <3>1 DEF Lost
    <3>2. CASE i # Ip
      BY <1>0, <2>2, <2>4, <3>2 DEF Lost
    <3>. QED
      BY <3>1, <3>2
  <2>7. \A q \in Providers \ {p}, i \in Ips : Lost(q, i)' = Lost(q, i)
    BY <2>2, <2>4 DEF Lost
  <2>8. SettledWasAsked'
    BY <1>0, <2>1, <2>2, <2>4, <2>5 DEF SettledWasAsked
  <2>. QED
    BY <2>3, <2>6, <2>7, <2>8, OneLost
<1>8. CASE Store
  <2>1. work.asked \in Providers /\ work.answer \in Answers /\ Ip \in Ips
    BY <1>8, AskedType DEF Store
  <2>2. /\ table'[work.asked][Ip] # Nothing
        /\ \A q \in Providers, i \in Ips :
             q # work.asked \/ i # Ip => table'[q][i] = table[q][i]
    <3>1. table \in [Providers -> [Ips -> Answers \cup {Nothing}]]
      BY DEF ReputationTypeOK
    <3>2. table' = [table EXCEPT ![work.asked][Ip] = work.answer]
      BY <1>8 DEF Store, Row
    <3>. QED
      BY <2>1, <3>1, <3>2, <1>n
  <2>3. work'.asked = Nothing
    BY <1>8 DEF Store, ReputationTypeOK
  <2>4. \A q \in Providers, i \in Ips : Settled(q, i)' = Settled(q, i)
    BY <2>1, <2>2, <2>3, <1>n DEF Settled
  <2>. QED
    BY <1>1, <1>8, <2>4 DEF Store
<1>9. CASE WriteEnriched
  <2>1. work.asked = Nothing /\ work'.asked = Nothing
    <3>1. work.asked # Nothing => work.asked \in Providers
      BY DEF ReputationTypeOK
    <3>. QED
      BY <1>9, <3>1 DEF WriteEnriched, AllFound, Rest, Pending
  <2>. QED
    BY <1>2, <1>9, <2>1 DEF WriteEnriched
<1>10. CASE AnalyzerStops
  <2>1. UNCHANGED <<table, calls>> /\ deaths' = deaths + 1 /\ work'.asked = Nothing
    BY <1>10 DEF AnalyzerStops, Dies, Rest
  <2>2. \A q \in Providers, i \in Ips : Settled(q, i)' => Settled(q, i)
    BY <2>1, <1>n DEF Settled
  <2>3. SettledWasAsked'
    BY <2>1, <2>2 DEF SettledWasAsked
  <2>4. \A q \in Providers, i \in Ips : Lost(q, i)' <= Lost(q, i) + 1
    BY <1>0, <2>1, <2>2 DEF Lost
  <2>5. \A q \in Providers, i \in Ips :
          q # work.asked => Lost(q, i)' = Lost(q, i)
    BY <2>1, <1>n DEF Lost, Settled
  <2>6. PICK p \in Providers : \A q \in Providers \ {p} : q # work.asked
    BY DEF ReputationTypeOK, Providers
  <2>. QED
    BY <2>1, <2>3, <2>4, <2>5, <2>6, OneLost
<1>11. ASSUME NEW keys \in [Providers -> BOOLEAN], AnalyzerRestarts(keys)
       PROVE  SettledWasAsked' /\ LostByStops'
  BY <1>2, <1>11 DEF AnalyzerRestarts
<1>12. CASE UNCHANGED reputationVars
  BY <1>2, <1>12 DEF reputationVars
<1>. QED
  BY <1>3, <1>4, <1>5, <1>6, <1>7, <1>8, <1>9, <1>10, <1>11, <1>12 DEF ReputationNext

(* However many events name an address, and whatever a provider answers,   *)
(* it is asked about it once and per stop once more, the other provider's  *)
(* repetitions included.                                                   *)
THEOREM ReputationCallsBounded ==
  ReputationSpec => []CallsBounded
<1>1. ReputationInit => CallsInv
  <2> SUFFICES ASSUME ReputationInit, ReputationTypeOK
               PROVE  Pending /\ SettledWasAsked /\ LostByStops
    BY ReputationTypeInit DEF CallsInv
  <2>1. \A p \in Providers, i \in Ips : calls[p][i] = 0 /\ table[p][i] = Nothing
    BY DEF ReputationInit
  <2>2. deaths = 0 /\ work.asked = Nothing
    BY DEF ReputationInit, Rest
  <2>3. \A p \in Providers, i \in Ips : ~Settled(p, i)
    BY <2>1, <2>2, ReputationAssumption DEF Settled
  <2>4. \A p \in Providers, i \in Ips : Lost(p, i) = 0
    BY <2>1, <2>3 DEF Lost
  <2>. QED
    BY <2>2, <2>3, <2>4 DEF Pending, SettledWasAsked, LostByStops, Providers
<1>2. CallsInv => CallsBounded
  <2> SUFFICES ASSUME CallsInv, NEW i \in Ips
               PROVE  Repeated("abuseipdb", i) + Repeated("greynoise", i) <= deaths
    BY DEF CallsBounded
  <2>1. \A p \in Providers :
          Repeated(p, i) \in Int /\ Lost(p, i) \in Int /\ Repeated(p, i) <= Lost(p, i)
    <3> TAKE p \in Providers
    <3>1. calls[p][i] \in Nat /\ Lost(p, i) \in Int
      BY LostType DEF CallsInv
    <3>2. Settled(p, i) => calls[p][i] >= 1
      BY DEF CallsInv, SettledWasAsked
    <3>. QED
      BY <3>1, <3>2 DEF Repeated, Lost
  <2>2. Lost("abuseipdb", i) + Lost("greynoise", i) <= deaths /\ deaths \in Nat
    BY DEF CallsInv, LostByStops, ReputationTypeOK
  <2>. QED
    BY <2>1, <2>2 DEF Providers
<1>. QED
  BY <1>1, <1>2, CallsStep, PTL DEF ReputationSpec

----------------------------------------------------------------------------
(***************************************************************************)
(* Verdicts are final.  What the process remembers, and what it has found  *)
(* for the event under way, agree with the rows.                           *)
(***************************************************************************)
MemoryAgrees ==
  \A i \in Public, p \in Providers :
    /\ memory[i] # Nothing /\ table[p][i] # Nothing => memory[i][p] = table[p][i]
    /\ work.event # Nothing /\ Ip = i /\ work.found[p] # Nothing /\ table[p][i] # Nothing
         => work.found[p] = table[p][i]

WorkIsNew == work.event # Nothing => memory[Ip] = Nothing

VerdictInv == ReputationTypeOK /\ Pending /\ WorkIsNew /\ MemoryAgrees

(* One step, taken alone: rows stay, and the lines written follow them. *)
FollowsTable ==
  \A p \in Providers, i \in Public :
    table[p][i] # Nothing =>
      /\ table'[p][i] = table[p][i]
      /\ \A e \in Events :
           IpOf[e] = i /\ written'[e] # written[e] => written'[e][p] = table[p][i]

LEMMA VerdictStep ==
  VerdictInv /\ [ReputationNext]_reputationVars => VerdictInv' /\ FollowsTable
<1> SUFFICES ASSUME VerdictInv, [ReputationNext]_reputationVars
             PROVE  WorkIsNew' /\ MemoryAgrees' /\ FollowsTable
  BY ReputationTypeStep, PendingStep DEF VerdictInv
<1> USE DEF VerdictInv
<1>0. /\ Nothing \notin Answers /\ Public \subseteq Ips
      /\ \A e \in Events : IpOf[e] \in Ips
  BY ReputationAssumption DEF Answers
<1>1. ASSUME UNCHANGED <<memory, table, work, written>>
      PROVE  WorkIsNew' /\ MemoryAgrees' /\ FollowsTable
  BY <1>1 DEF WorkIsNew, MemoryAgrees, FollowsTable, Ip
<1>2. ASSUME UNCHANGED <<memory, table, written>>, work'.event = Nothing
      PROVE  WorkIsNew' /\ MemoryAgrees' /\ FollowsTable
  BY <1>2 DEF WorkIsNew, MemoryAgrees, FollowsTable
<1>3. ASSUME NEW e \in Events, Reuse(e)
      PROVE  WorkIsNew' /\ MemoryAgrees' /\ FollowsTable
  <2>1. FollowsTable
    BY <1>3 DEF Reuse, ReputationTypeOK, MemoryAgrees, FollowsTable
  <2>. QED
    BY <1>3, <2>1 DEF Reuse, WorkIsNew, MemoryAgrees, Ip
<1>4. ASSUME NEW e \in Events, Begin(e)
      PROVE  WorkIsNew' /\ MemoryAgrees' /\ FollowsTable
  <2>1. work'.event = e /\ work'.found = NothingFound
    BY <1>4 DEF Begin, Rest
  <2>. QED
    BY <1>4, <2>1 DEF Begin, WorkIsNew, MemoryAgrees, FollowsTable, Ip, NothingFound
<1>5. ASSUME NEW p \in Providers, Lookup(p)
      PROVE  WorkIsNew' /\ MemoryAgrees' /\ FollowsTable
  <2>1. /\ work'.event = work.event /\ Ip' = Ip
        /\ work'.found = [work.found EXCEPT ![p] = Known(p)]
        /\ UNCHANGED <<memory, table, written>>
    BY <1>5 DEF Lookup, ReputationTypeOK, Ip
  <2>2. \A i \in Public : Ip = i /\ table[p][i] # Nothing => Known(p) = table[p][i]
    BY DEF Known
  <2>3. /\ work'.found[p] = Known(p)
        /\ \A q \in Providers \ {p} : work'.found[q] = work.found[q]
    BY <2>1 DEF ReputationTypeOK
  <2>4. MemoryAgrees'
    BY <2>1, <2>2, <2>3 DEF MemoryAgrees
  <2>. QED
    BY <2>1, <2>4 DEF WorkIsNew, FollowsTable
<1>6. ASSUME NEW p \in Providers, NEW a \in Answers, Ask(p, a)
      PROVE  WorkIsNew' /\ MemoryAgrees' /\ FollowsTable
  <2>1. /\ work'.event = work.event /\ Ip' = Ip /\ work'.found = work.found
        /\ UNCHANGED <<memory, table, written>>
    BY <1>6 DEF Ask, ReputationTypeOK, Ip
  <2>. QED
    BY <2>1 DEF WorkIsNew, MemoryAgrees, FollowsTable
<1>7. ASSUME NEW p \in Providers, AskRaises(p)
      PROVE  WorkIsNew' /\ MemoryAgrees' /\ FollowsTable
  BY <1>2, <1>7 DEF AskRaises, Dies, Rest
<1>8. CASE Store
  <2> DEFINE p == work.asked
             a == work.answer
             ip == Ip
  <2>1. /\ p \in Providers /\ a \in Answers /\ work.event # Nothing
        /\ ip \in Public /\ table[p][ip] = Nothing
    BY <1>8, AskedType DEF Store, Pending
  <2>2. /\ table' = [table EXCEPT ![p][ip] = a]
        /\ work' = [work EXCEPT !.found[p] = a, !.asked = Nothing, !.answer = Nothing]
        /\ UNCHANGED <<memory, written>>
    BY <1>8 DEF Store, Row
  <2>3. /\ work'.event = work.event /\ Ip' = Ip
        /\ work'.found = [work.found EXCEPT ![p] = a]
    BY <2>2 DEF ReputationTypeOK, Ip
  <2>4. Ip = ip /\ memory[ip] = Nothing
    BY <2>1 DEF WorkIsNew
  <2>. HIDE DEF p, a, ip
  <2>5. /\ table'[p][ip] = a
        /\ \A q \in Providers, i \in Ips :
             q # p \/ i # ip => table'[q][i] = table[q][i]
    <3>1. table \in [Providers -> [Ips -> Answers \cup {Nothing}]]
      BY DEF ReputationTypeOK
    <3>. QED
      BY <1>0, <2>1, <2>2, <3>1
  <2>6. /\ work'.found[p] = a
        /\ \A q \in Providers \ {p} : work'.found[q] = work.found[q]
    <3>1. work.found \in [Providers -> Answers \cup {Nothing}]
      BY DEF ReputationTypeOK
    <3>. QED
      BY <2>1, <2>3, <3>1
  <2>7. MemoryAgrees'
    <3> SUFFICES ASSUME NEW i \in Public, NEW q \in Providers
                 PROVE  /\ memory[i] # Nothing /\ table'[q][i] # Nothing
                             => memory[i][q] = table'[q][i]
                        /\ /\ work'.event # Nothing /\ Ip = i
                           /\ work'.found[q] # Nothing /\ table'[q][i] # Nothing
                           => work'.found[q] = table'[q][i]
      BY <2>2, <2>3 DEF MemoryAgrees
    <3>1. CASE q = p /\ i = ip
      BY <3>1, <2>4, <2>5, <2>6
    <3>2. CASE i # ip
      BY <1>0, <3>2, <2>4, <2>5 DEF MemoryAgrees
    <3>3. CASE q # p
      <4>1. table'[q][i] = table[q][i] /\ work'.found[q] = work.found[q]
        BY <1>0, <3>3, <2>5, <2>6
      <4>. QED
        BY <4>1, <2>3 DEF MemoryAgrees
    <3>. QED
      BY <3>1, <3>2, <3>3
  <2>8. FollowsTable
    BY <1>0, <2>1, <2>2, <2>5 DEF FollowsTable
  <2>. QED
    BY <2>2, <2>3, <2>7, <2>8 DEF WorkIsNew
<1>9. CASE WriteEnriched
  <2>1. work.event \in Events /\ Ip \in Ips /\ Ip = IpOf[work.event]
    BY <1>9, IpType DEF WriteEnriched, Ip
  <2>2. /\ memory'[Ip] = work.found
        /\ \A i \in Ips : i # Ip => memory'[i] = memory[i]
        /\ \A e \in Events : e # work.event => written'[e] = written[e]
        /\ written'[work.event] = work.found
        /\ UNCHANGED table /\ work'.event = Nothing
        /\ \A q \in Providers : work.found[q] # Nothing
    BY <1>9, <2>1 DEF WriteEnriched, ReputationTypeOK, Rest, AllFound
  <2>3. MemoryAgrees'
    BY <1>0, <1>9, <2>1, <2>2 DEF MemoryAgrees, WriteEnriched
  <2>4. FollowsTable
    BY <1>9, <2>1, <2>2 DEF MemoryAgrees, FollowsTable, WriteEnriched
  <2>. QED
    BY <2>2, <2>3, <2>4 DEF WorkIsNew
<1>10. CASE AnalyzerStops
  BY <1>2, <1>10 DEF AnalyzerStops, Dies, Rest
<1>11. ASSUME NEW keys \in [Providers -> BOOLEAN], AnalyzerRestarts(keys)
       PROVE  WorkIsNew' /\ MemoryAgrees' /\ FollowsTable
  <2>1. \A i \in Ips : memory'[i] = Nothing
    BY <1>11 DEF AnalyzerRestarts
  <2>2. UNCHANGED <<table, work, written>>
    BY <1>11 DEF AnalyzerRestarts
  <2>3. work.event # Nothing => Ip \in Ips
    BY IpType
  <2>. QED
    BY <1>0, <2>1, <2>2, <2>3 DEF WorkIsNew, MemoryAgrees, FollowsTable, Ip
<1>12. CASE UNCHANGED reputationVars
  BY <1>1, <1>12 DEF reputationVars
<1>. QED
  BY <1>3, <1>4, <1>5, <1>6, <1>7, <1>8, <1>9, <1>10, <1>11, <1>12 DEF ReputationNext

(* Once a provider's answer about an address is stored, it never changes   *)
(* and every line written about that address carries it, across restarts.  *)
THEOREM ReputationVerdictIsFinal ==
  ReputationSpec => VerdictIsFinal
<1>1. ReputationInit => VerdictInv
  <2> SUFFICES ASSUME ReputationInit PROVE Pending /\ WorkIsNew /\ MemoryAgrees
    BY ReputationTypeInit DEF VerdictInv
  <2>1. work.event = Nothing /\ work.asked = Nothing
    BY DEF ReputationInit, Rest
  <2>2. \A i \in Ips : memory[i] = Nothing
    BY DEF ReputationInit
  <2>. QED
    BY <2>1, <2>2, ReputationAssumption DEF Pending, WorkIsNew, MemoryAgrees
<1>2. VerdictInv /\ [ReputationNext]_reputationVars => [FollowsTable]_reputationVars
  BY VerdictStep
<1>. QED
  BY <1>1, <1>2, VerdictStep, PTL DEF ReputationSpec, VerdictIsFinal, FollowsTable

-----------------------------------------------------------------------------
(* What Profiles says of a session.                                        *)
USE InputsAssumption, ThresholdsAssumption

\* A classification is one of the four profiles.
LEMMA ProfileType == ASSUME NEW session PROVE classify_session(session) \in Profiles
  BY DEF classify_session, Profiles

\* What a prefix is, and that an event more does not change it.
LEMMA PrefixIs ==
  ASSUME NEW S, NEW seq \in Seq(S), NEW n \in 0 .. Len(seq)
  PROVE  /\ SubSeq(seq, 1, n) \in Seq(S)
         /\ Len(SubSeq(seq, 1, n)) = n
         /\ \A i \in 1 .. n : SubSeq(seq, 1, n)[i] = seq[i]
<1>1. \A i \in 1 .. n : seq[i] \in S
  BY ElementOfSeq
<1> QED
  BY <1>1, SubSeqProperties

LEMMA PrefixKept ==
  ASSUME NEW S, NEW seq \in Seq(S), NEW x \in S, NEW n \in 0 .. Len(seq)
  PROVE  SubSeq(Append(seq, x), 1, n) = SubSeq(seq, 1, n)
<1>1. /\ Append(seq, x) \in Seq(S)
      /\ Len(Append(seq, x)) = Len(seq) + 1
      /\ \A i \in 1 .. Len(seq) : Append(seq, x)[i] = seq[i]
  BY AppendProperties
<1>2. Len(seq) \in Nat /\ n \in 0 .. Len(Append(seq, x))
  BY <1>1, LenProperties
<1>3. /\ SubSeq(Append(seq, x), 1, n) \in Seq(S)
      /\ Len(SubSeq(Append(seq, x), 1, n)) = n
      /\ \A i \in 1 .. n : SubSeq(Append(seq, x), 1, n)[i] = Append(seq, x)[i]
  <2> HIDE <1>1
  <2> QED BY <1>1, <1>2, PrefixIs
<1>4. /\ SubSeq(seq, 1, n) \in Seq(S)
      /\ Len(SubSeq(seq, 1, n)) = n
      /\ \A i \in 1 .. n : SubSeq(seq, 1, n)[i] = seq[i]
  BY PrefixIs
<1>5. \A i \in 1 .. n : SubSeq(Append(seq, x), 1, n)[i] = SubSeq(seq, 1, n)[i]
  BY <1>1, <1>2, <1>3, <1>4
<1> QED
  BY <1>3, <1>4, <1>5, SeqEqual

\* A session has finitely many paths.
LEMMA PathsFinite ==
  ASSUME NEW session \in Seq(Event)
  PROVE  IsFiniteSet(DistinctPaths(session))
<1> DEFINE f == [i \in DOMAIN session |-> session[i].path]
           T == {session[i].path : i \in DOMAIN session}
<1> DEFINE n == Len(session)
<1>n. n \in Int /\ DOMAIN session = 1 .. n
  BY LenProperties
<1> HIDE DEF n
<1>1. IsFiniteSet(DOMAIN session)
  BY <1>n, FS_Interval
<1>2. f \in Surjection(DOMAIN session, T)
  BY DEF Surjection
<1>3. IsFiniteSet(T)
  BY <1>1, <1>2, FS_Surjection
<1> QED
  BY <1>3, FS_Subset DEF DistinctPaths

\* Scanning is not forgotten: it shows in every longer prefix.
LEMMA ScansOn ==
  ASSUME NEW session \in Seq(Event), NEW n \in Nat, NEW m \in Nat,
         n <= m, m <= Len(session), Scans(SubSeq(session, 1, n))
  PROVE  Scans(SubSeq(session, 1, m))
<1> DEFINE short == SubSeq(session, 1, n)
           long == SubSeq(session, 1, m)
<1>1. short \in Seq(Event) /\ Len(short) = n /\ \A i \in 1 .. n : short[i] = session[i]
  BY PrefixIs
<1>2. long \in Seq(Event) /\ Len(long) = m /\ \A i \in 1 .. m : long[i] = session[i]
  BY PrefixIs
<1> HIDE DEF short, long
<1>3. \A i \in DOMAIN short : i \in DOMAIN long /\ short[i] = long[i]
  BY <1>1, <1>2, LenProperties
<1>4. DistinctPaths(short) \subseteq DistinctPaths(long)
  BY <1>3 DEF DistinctPaths
<1>5. /\ Cardinality(DistinctPaths(short)) <= Cardinality(DistinctPaths(long))
      /\ Cardinality(DistinctPaths(short)) \in Nat
      /\ Cardinality(DistinctPaths(long)) \in Nat
  BY <1>1, <1>2, <1>4, PathsFinite, FS_Subset, FS_CardinalityType
<1>6. ScannerAgent(short) => ScannerAgent(long)
  BY <1>3 DEF ScannerAgent
<1>7. Scans(short)
  BY DEF short
<1>8. Scans(long)
  BY <1>5, <1>6, <1>7 DEF Scans
<1> QED
  BY <1>8 DEF long
-----------------------------------------------------------------------------
LEMMA TypeInit == Init => TypeOK
  BY DEF Init, TypeOK, Profiles

LEMMA TypeStep == TypeOK /\ [Next]_vars => TypeOK'
<1> SUFFICES ASSUME TypeOK, [Next]_vars PROVE TypeOK'
  OBVIOUS
<1> USE DEF TypeOK
<1>1. CASE UNCHANGED vars
  BY <1>1 DEF vars
<1>2. ASSUME NEW s \in Sessions, NEW kind \in Kinds, NEW gap \in Gaps, Log(s, kind, gap)
      PROVE  TypeOK'
  <2> DEFINE t == IF log[s] = <<>> THEN 0 ELSE log[s][Len(log[s])].time + gap
             e == [auth |-> kind.auth, path |-> kind.path, agent |-> kind.agent, time |-> t]
  <2>1. log[s] \in Seq(Event) /\ gap \in Nat
    OBVIOUS
  <2>2. log[s] # <<>> => Len(log[s]) \in 1 .. Len(log[s])
    BY <2>1, EmptySeq, LenProperties
  <2>3. log[s] # <<>> => log[s][Len(log[s])] \in Event
    BY <2>1, <2>2, ElementOfSeq
  <2>4. t \in Nat
    BY <2>1, <2>3 DEF Event
  <2>5. e \in Event
    BY <2>4 DEF Event
  <2>6. log' = [log EXCEPT ![s] = Append(@, e)]
    BY <1>2 DEF Log
  <2> HIDE DEF e
  <2>7. log' \in [Sessions -> Seq(Event)]
    BY <2>1, <2>5, <2>6, AppendProperties
  <2> QED BY <1>2, <2>7 DEF Log
<1>3. CASE StartPass
  <2>1. seen' \in [Sessions -> Nat]
    BY <1>3, LenProperties DEF StartPass
  <2>2. profiles' \in [Sessions -> Profiles]
    BY <1>3, ProfileType DEF StartPass, session_profile
  <2> QED BY <1>3, <2>1, <2>2 DEF StartPass
<1>4. ASSUME NEW s \in Sessions, AppendLine(s) PROVE TypeOK'
  <2>1. PICK i \in Fresh(s, seen[s]) :
          /\ out' = [out EXCEPT ![s] = Append(@, [event |-> i, profile |-> profiles[s]])]
          /\ state' = IF Left = {<<s, i>>} THEN "idle" ELSE "appending"
    BY <1>4 DEF AppendLine
  <2>2. [event |-> i, profile |-> profiles[s]] \in Lines
    BY DEF Fresh, Lines
  <2>3. out' \in [Sessions -> Seq(Lines)]
    BY <2>1, <2>2, AppendProperties
  <2>4. state' \in {"idle", "appending", "down"}
    BY <2>1
  <2> QED BY <1>4, <2>3, <2>4 DEF AppendLine
<1>5. CASE Stop
  BY <1>5 DEF Stop
<1>6. CASE Restart
  BY <1>6 DEF Restart
<1> QED
  BY <1>1, <1>2, <1>3, <1>4, <1>5, <1>6 DEF Next

\* The variables keep their types, whatever the constants are.
THEOREM ProfilesTyped == Spec => []TypeOK
<1> QED
  BY TypeInit, TypeStep, PTL DEF Spec
-----------------------------------------------------------------------------
\* Where the analyzer stands: the enriched log has the first events of a session,
\* a pass has read at least those, and knows what these events amount to.
Standing ==
  /\ \A s \in Sessions : Len(out[s]) <= seen[s] /\ seen[s] <= Len(log[s])
  /\ state = "appending" =>
       \A s \in Sessions : profiles[s] = classify_session(Prefix(s, seen[s]))
  /\ \A s \in Sessions : \A k \in DOMAIN out[s] :
       /\ out[s][k].event = k
       /\ \E n \in k .. seen[s] : out[s][k].profile = classify_session(Prefix(s, n))

\* A session that was called a scanner has been scanning.
Scanned ==
  \A s \in Sessions : \A k \in DOMAIN out[s] :
    out[s][k].profile = "scanner" => Scans(Prefix(s, seen[s]))

\* Only a scanning session is called a scanner, and it is not called less than that.
LEMMA ScannerScans ==
  ASSUME NEW session
  PROVE  /\ classify_session(session) = "scanner" => Scans(session)
         /\ Scans(session) => classify_session(session) \in {"scanner", "bruteforcer"}
  BY DEF classify_session

LEMMA Lengths ==
  ASSUME TypeOK, NEW s \in Sessions
  PROVE  /\ Len(log[s]) \in Nat /\ DOMAIN log[s] = 1 .. Len(log[s])
         /\ Len(out[s]) \in Nat /\ DOMAIN out[s] = 1 .. Len(out[s])
  BY LenProperties DEF TypeOK

\* The step that writes a line: it is the next one.
LEMMA NextLine ==
  ASSUME TypeOK, Standing, NEW s \in Sessions, AppendLine(s)
  PROVE  LET k == Len(out[s]) + 1 IN
         /\ k <= seen[s]
         /\ out' = [out EXCEPT ![s] = Append(@, [event |-> k, profile |-> profiles[s]])]
<1>1. PICK i \in Fresh(s, seen[s]) :
        /\ \A j \in Fresh(s, seen[s]) : i <= j
        /\ out' = [out EXCEPT ![s] = Append(@, [event |-> i, profile |-> profiles[s]])]
  BY DEF AppendLine
<1>a. /\ Len(out[s]) \in Nat /\ DOMAIN out[s] = 1 .. Len(out[s])
      /\ seen[s] \in Nat
  BY Lengths DEF TypeOK
<1>b. \A k \in DOMAIN out[s] : out[s][k].event = k
  BY DEF Standing
<1>2. {out[s][k].event : k \in DOMAIN out[s]} = 1 .. Len(out[s])
  BY <1>a, <1>b
<1>3. Fresh(s, seen[s]) = (Len(out[s]) + 1) .. seen[s]
  <2>1. Fresh(s, seen[s]) = (1 .. seen[s]) \ (1 .. Len(out[s]))
    BY <1>2 DEF Fresh
  <2> QED BY <1>a, <2>1
<1>4. i = Len(out[s]) + 1 /\ i <= seen[s]
  <2>1. i \in (Len(out[s]) + 1) .. seen[s]
    BY <1>3
  <2>2. Len(out[s]) + 1 \in Fresh(s, seen[s])
    BY <2>1, <1>a, <1>3
  <2> QED BY <2>1, <2>2, <1>a, <1>1
<1> QED
  BY <1>1, <1>4

\* An event more changes no prefix.
LEMMA PrefixStays ==
  ASSUME TypeOK, TypeOK', NEW s \in Sessions, NEW kind \in Kinds, NEW gap \in Gaps,
         Log(s, kind, gap), NEW t \in Sessions, NEW n \in 0 .. Len(log[t])
  PROVE  /\ Prefix(t, n)' = Prefix(t, n)
         /\ Len(log[t]) <= Len(log'[t])
<1>1. CASE t # s
  <2>1. log'[t] = log[t]
    BY <1>1 DEF Log, TypeOK
  <2> QED BY <2>1, Lengths DEF Prefix
<1>2. CASE t = s
  <2>1. PICK e : log' = [log EXCEPT ![s] = Append(@, e)]
    BY DEF Log
  <2>2. log'[s] = Append(log[s], e)
    BY <2>1 DEF TypeOK
  <2>3. e \in Event
    <3>1. log'[s] \in Seq(Event)
      BY DEF TypeOK
    <3> QED BY <3>1, <2>2 DEF TypeOK
  <2>4. SubSeq(log'[s], 1, n) = SubSeq(log[s], 1, n) /\ Len(log'[s]) = Len(log[s]) + 1
    BY <1>2, <2>2, <2>3, PrefixKept, AppendProperties DEF TypeOK
  <2> QED BY <1>2, <2>4, Lengths DEF Prefix
<1> QED
  BY <1>1, <1>2

LEMMA StandingInit == Init => Standing /\ Scanned
  BY DEF Init, Standing, Scanned

LEMMA StandingStep ==
  TypeOK /\ TypeOK' /\ Standing /\ Scanned /\ [Next]_vars => Standing' /\ Scanned'
<1> SUFFICES ASSUME TypeOK, TypeOK', Standing, Scanned, [Next]_vars
             PROVE  Standing' /\ Scanned'
  OBVIOUS
<1>1. CASE UNCHANGED vars
  BY <1>1 DEF vars, Standing, Scanned, Prefix
<1>2. ASSUME NEW s \in Sessions, NEW kind \in Kinds, NEW gap \in Gaps, Log(s, kind, gap)
      PROVE  Standing' /\ Scanned'
  <2>1. /\ out' = out /\ seen' = seen /\ profiles' = profiles /\ state' = state
    BY <1>2 DEF Log
  <2>2. \A t \in Sessions : Len(log[t]) <= Len(log'[t])
    <3> SUFFICES ASSUME NEW t \in Sessions PROVE Len(log[t]) <= Len(log'[t])
      OBVIOUS
    <3>1. 0 \in 0 .. Len(log[t])
      BY Lengths
    <3> QED BY <3>1, <1>2, PrefixStays
  <2>3. \A t \in Sessions : \A n \in 0 .. seen[t] : Prefix(t, n)' = Prefix(t, n)
    <3> SUFFICES ASSUME NEW t \in Sessions, NEW n \in 0 .. seen[t]
                 PROVE  Prefix(t, n)' = Prefix(t, n)
      OBVIOUS
    <3>1. n \in 0 .. Len(log[t])
      <4>1. seen[t] \in Nat /\ Len(log[t]) \in Nat /\ seen[t] <= Len(log[t])
        BY Lengths DEF Standing, TypeOK
      <4> QED BY <4>1
    <3> QED BY <3>1, <1>2, PrefixStays
  <2>4. \A t \in Sessions : seen[t] \in Nat /\ seen[t] \in 0 .. seen[t]
    BY DEF TypeOK
  <2>5. \A t \in Sessions : seen'[t] <= Len(log'[t])
    <3> SUFFICES ASSUME NEW t \in Sessions PROVE seen'[t] <= Len(log'[t])
      OBVIOUS
    <3>1. Len(log[t]) \in Nat /\ Len(log'[t]) \in Nat
      BY Lengths, LenProperties DEF TypeOK
    <3> QED BY <2>1, <2>2, <2>4, <3>1 DEF Standing
  <2>6. state' = "appending" =>
          \A t \in Sessions : profiles'[t] = classify_session(Prefix(t, seen[t])')
    BY <2>1, <2>3, <2>4 DEF Standing
  <2>7. \A t \in Sessions : \A k \in DOMAIN out'[t] :
          /\ out'[t][k].event = k
          /\ \E n \in k .. seen'[t] : out'[t][k].profile = classify_session(Prefix(t, n)')
    <3> SUFFICES ASSUME NEW t \in Sessions, NEW k \in DOMAIN out[t]
                 PROVE  /\ out[t][k].event = k
                        /\ \E n \in k .. seen[t] :
                             out[t][k].profile = classify_session(Prefix(t, n)')
      BY <2>1
    <3>1. PICK n \in k .. seen[t] : out[t][k].profile = classify_session(Prefix(t, n))
      BY DEF Standing
    <3>2. n \in 0 .. seen[t]
      BY <3>1, Lengths
    <3> QED BY <2>3, <3>1, <3>2 DEF Standing
  <2>8. Scanned'
    BY <2>1, <2>3, <2>4 DEF Scanned
  <2>9. \A t \in Sessions : Len(out'[t]) <= seen'[t]
    BY <2>1 DEF Standing
  <2> QED BY <2>1, <2>5, <2>6, <2>7, <2>8, <2>9 DEF Standing, Prefix
<1>3. CASE StartPass
  <2>1. /\ log' = log /\ out' = out
        /\ \A s \in Sessions : seen'[s] = Len(log[s])
        /\ \A s \in Sessions : profiles'[s] = classify_session(log[s])
    BY <1>3 DEF StartPass, session_profile
  <2>2. \A s \in Sessions : Prefix(s, Len(log[s])) = log[s]
    BY SubSeqFull DEF Prefix, TypeOK
  <2>3. \A s \in Sessions : /\ Len(out[s]) \in Nat /\ seen[s] \in Nat /\ Len(log[s]) \in Nat
                           /\ seen[s] <= Len(log[s]) /\ Len(out[s]) <= seen[s]
    BY Lengths DEF TypeOK, Standing
  <2>4. \A s \in Sessions : Len(out'[s]) <= seen'[s] /\ seen'[s] <= Len(log'[s])
    BY <2>1, <2>3
  <2>5. \A s \in Sessions : profiles'[s] = classify_session(Prefix(s, seen[s])')
    BY <2>1, <2>2 DEF Prefix
  <2>6. \A s \in Sessions : \A k \in DOMAIN out'[s] :
          /\ out'[s][k].event = k
          /\ \E n \in k .. seen'[s] : out'[s][k].profile = classify_session(Prefix(s, n)')
    <3> SUFFICES ASSUME NEW s \in Sessions, NEW k \in DOMAIN out[s]
                 PROVE  /\ out[s][k].event = k
                        /\ \E n \in k .. Len(log[s]) :
                             out[s][k].profile = classify_session(Prefix(s, n))
      BY <2>1 DEF Prefix
    <3>1. PICK n \in k .. seen[s] : out[s][k].profile = classify_session(Prefix(s, n))
      BY DEF Standing
    <3>2. k \in Nat
      BY Lengths
    <3>3. n \in k .. Len(log[s])
      BY <2>3, <3>1, <3>2
    <3> QED BY <3>1, <3>3 DEF Standing
  <2>7. Scanned'
    <3> SUFFICES ASSUME NEW s \in Sessions, NEW k \in DOMAIN out[s],
                        out[s][k].profile = "scanner"
                 PROVE  Scans(Prefix(s, Len(log[s])))
      BY <2>1 DEF Scanned, Prefix
    <3>1. Scans(Prefix(s, seen[s]))
      BY DEF Scanned
    <3> QED BY <2>3, <3>1, ScansOn DEF Prefix, TypeOK
  <2> QED BY <2>4, <2>5, <2>6, <2>7 DEF Standing, Prefix
<1>4. ASSUME NEW s \in Sessions, AppendLine(s) PROVE Standing' /\ Scanned'
  <2> DEFINE k == Len(out[s]) + 1
             line == [event |-> k, profile |-> profiles[s]]
  <2>1. k <= seen[s] /\ out' = [out EXCEPT ![s] = Append(@, line)]
    BY <1>4, NextLine
  <2>2. log' = log /\ seen' = seen /\ profiles' = profiles /\ state = "appending"
    BY <1>4 DEF AppendLine
  <2>3. Len(out[s]) \in Nat /\ DOMAIN out[s] = 1 .. Len(out[s]) /\ seen[s] \in Nat
    BY Lengths DEF TypeOK
  <2>4. line \in Lines
    BY <2>3 DEF Lines, TypeOK
  <2> HIDE DEF line
  <2>5. /\ out'[s] = Append(out[s], line) /\ \A t \in Sessions \ {s} : out'[t] = out[t]
    BY <2>1 DEF TypeOK
  <2>6. /\ Len(out'[s]) = k /\ DOMAIN out'[s] = 1 .. k
        /\ \A j \in 1 .. Len(out[s]) : out'[s][j] = out[s][j]
        /\ out'[s][k] = line
    BY <2>3, <2>4, <2>5, AppendProperties, LenProperties DEF TypeOK
  <2>7. /\ line.event = k /\ line.profile = profiles[s]
        /\ profiles[s] = classify_session(Prefix(s, seen[s]))
    BY <2>2 DEF line, Standing
  <2>8. \A t \in Sessions : Len(out'[t]) <= seen'[t] /\ seen'[t] <= Len(log'[t])
    BY <2>1, <2>2, <2>5, <2>6 DEF Standing
  <2>9. \A t \in Sessions : \A j \in DOMAIN out'[t] :
          \/ t = s /\ j = k
          \/ j \in DOMAIN out[t] /\ out'[t][j] = out[t][j]
    <3> SUFFICES ASSUME NEW t \in Sessions, NEW j \in DOMAIN out'[t]
                 PROVE  \/ t = s /\ j = k
                        \/ j \in DOMAIN out[t] /\ out'[t][j] = out[t][j]
      OBVIOUS
    <3>1. CASE t # s
      BY <3>1, <2>5
    <3>2. CASE t = s
      <4>1. j \in 1 .. k
        BY <3>2, <2>6
      <4>2. j = k \/ j \in 1 .. Len(out[s])
        BY <4>1, <2>3
      <4> QED BY <3>2, <4>2, <2>3, <2>6
    <3> QED BY <3>1, <3>2
  <2>10. \A t \in Sessions : \A j \in DOMAIN out'[t] :
           /\ out'[t][j].event = j
           /\ \E n \in j .. seen'[t] : out'[t][j].profile = classify_session(Prefix(t, n)')
    <3> SUFFICES ASSUME NEW t \in Sessions, NEW j \in DOMAIN out'[t]
                 PROVE  /\ out'[t][j].event = j
                        /\ \E n \in j .. seen[t] :
                             out'[t][j].profile = classify_session(Prefix(t, n))
      BY <2>2 DEF Prefix
    <3>1. CASE t = s /\ j = k
      <4>1. seen[s] \in k .. seen[s]
        BY <2>1, <2>3
      <4> QED BY <3>1, <4>1, <2>6, <2>7
    <3>2. CASE j \in DOMAIN out[t] /\ out'[t][j] = out[t][j]
      BY <3>2 DEF Standing
    <3> QED BY <2>9, <3>1, <3>2
  <2>11. Scanned'
    <3> SUFFICES ASSUME NEW t \in Sessions, NEW j \in DOMAIN out'[t],
                        out'[t][j].profile = "scanner"
                 PROVE  Scans(Prefix(t, seen[t]))
      BY <2>2 DEF Scanned, Prefix
    <3>1. CASE t = s /\ j = k
      BY <3>1, <2>6, <2>7, ScannerScans
    <3>2. CASE j \in DOMAIN out[t] /\ out'[t][j] = out[t][j]
      BY <3>2 DEF Scanned
    <3> QED BY <2>9, <3>1, <3>2
  <2>12. state' = "appending" =>
           \A t \in Sessions : profiles'[t] = classify_session(Prefix(t, seen[t])')
    BY <2>2 DEF Standing, Prefix
  <2> QED BY <2>8, <2>10, <2>11, <2>12 DEF Standing, Prefix
<1>5. CASE Stop
  BY <1>5 DEF Stop, Standing, Scanned, Prefix
<1>6. CASE Restart
  BY <1>6 DEF Restart, Standing, Scanned, Prefix
<1> QED
  BY <1>1, <1>2, <1>3, <1>4, <1>5, <1>6 DEF Next

\* The state of the analyzer says where each profile comes from.
LEMMA StandingHolds == Spec => [](TypeOK /\ Standing /\ Scanned)
<1>1. TypeOK /\ Standing /\ Scanned /\ [Next]_vars => (TypeOK /\ Standing /\ Scanned)'
  BY TypeStep, StandingStep
<1> QED
  BY TypeInit, StandingInit, <1>1, PTL DEF Spec

\* Each line carries the profile of its session as a whole, as it was at some time
\* since the event, and the lines of a session are in the order of its events.
THEOREM ProfilesExplained == Spec => []ProfileExplained
<1>1. TypeOK /\ Standing => ProfileExplained
  <2> SUFFICES ASSUME TypeOK, Standing, NEW s \in Sessions, NEW k \in DOMAIN out[s]
               PROVE  /\ out[s][k].event = k
                      /\ \E n \in k .. Len(log[s]) :
                           out[s][k].profile = classify_session(Prefix(s, n))
    BY DEF ProfileExplained
  <2>1. PICK n \in k .. seen[s] : out[s][k].profile = classify_session(Prefix(s, n))
    BY DEF Standing
  <2>2. k \in Nat /\ seen[s] \in Nat /\ Len(log[s]) \in Nat /\ seen[s] <= Len(log[s])
    BY Lengths DEF Standing, TypeOK
  <2>3. n \in k .. Len(log[s])
    BY <2>1, <2>2
  <2> QED BY <2>1, <2>3 DEF Standing
<1> QED
  BY StandingHolds, <1>1, PTL

\* The last line of a session all of whose events are in the enriched log tells what
\* the whole session is, so that readers may go by it.
LastWord ==
  \A s \in Sessions :
    Len(out[s]) = Len(log[s]) /\ log[s] # <<>> =>
      out[s][Len(out[s])].profile = classify_session(log[s])

THEOREM ProfilesLastWord == Spec => []LastWord
<1>1. TypeOK /\ Standing => LastWord
  <2> SUFFICES ASSUME TypeOK, Standing, NEW s \in Sessions,
                      Len(out[s]) = Len(log[s]), log[s] # <<>>
               PROVE  out[s][Len(out[s])].profile = classify_session(log[s])
    BY DEF LastWord
  <2> DEFINE k == Len(out[s])
  <2>1. /\ k \in Nat /\ DOMAIN out[s] = 1 .. k /\ seen[s] \in Nat
        /\ k <= seen[s] /\ seen[s] <= Len(log[s])
    BY Lengths DEF Standing, TypeOK
  <2>2. k # 0
    BY EmptySeq, LenProperties DEF TypeOK
  <2>3. PICK n \in k .. seen[s] : out[s][k].profile = classify_session(Prefix(s, n))
    BY <2>1, <2>2 DEF Standing
  <2>4. n = Len(log[s])
    BY <2>1, <2>3
  <2>5. Prefix(s, n) = log[s]
    BY <2>4, SubSeqFull DEF Prefix, TypeOK
  <2> QED BY <2>3, <2>5
<1> QED
  BY StandingHolds, <1>1, PTL

LEMMA ScannerStep ==
  TypeOK /\ TypeOK' /\ Standing /\ Scanned /\ ScannerIsFinal /\ [Next]_vars => ScannerIsFinal'
<1> SUFFICES ASSUME TypeOK, TypeOK', Standing, Scanned, ScannerIsFinal, [Next]_vars
             PROVE  ScannerIsFinal'
  OBVIOUS
<1>1. CASE out' = out
  BY <1>1 DEF ScannerIsFinal
<1>2. ASSUME NEW s \in Sessions, AppendLine(s) PROVE ScannerIsFinal'
  <2> DEFINE n == Len(out[s]) + 1
             line == [event |-> n, profile |-> profiles[s]]
  <2>1. out' = [out EXCEPT ![s] = Append(@, line)]
    BY <1>2, NextLine
  <2>2. /\ Len(out[s]) \in Nat /\ DOMAIN out[s] = 1 .. Len(out[s])
        /\ profiles[s] = classify_session(Prefix(s, seen[s]))
    BY <1>2, Lengths DEF AppendLine, Standing
  <2>3. line \in Lines /\ line.profile = profiles[s]
    BY <2>2 DEF Lines, TypeOK
  <2> HIDE DEF line
  <2>4. out'[s] = Append(out[s], line) /\ \A t \in Sessions \ {s} : out'[t] = out[t]
    BY <2>1 DEF TypeOK
  <2>5. /\ DOMAIN out'[s] = 1 .. n
        /\ \A j \in 1 .. Len(out[s]) : out'[s][j] = out[s][j]
        /\ out'[s][n] = line
    BY <2>2, <2>3, <2>4, AppendProperties, LenProperties DEF TypeOK
  <2> SUFFICES ASSUME NEW t \in Sessions, NEW j \in DOMAIN out'[t], NEW k \in DOMAIN out'[t],
                      j < k, out'[t][j].profile = "scanner"
               PROVE  out'[t][k].profile \in {"scanner", "bruteforcer"}
    BY DEF ScannerIsFinal
  <2>6. CASE t # s
    BY <2>4, <2>6 DEF ScannerIsFinal
  <2>7. CASE t = s /\ k # n
    <3>1. j \in DOMAIN out[s] /\ k \in DOMAIN out[s]
      <4>1. j \in 1 .. n /\ k \in 1 .. n
        BY <2>5, <2>7
      <4> QED BY <4>1, <2>2, <2>7
    <3> QED BY <2>2, <2>5, <2>7, <3>1 DEF ScannerIsFinal
  <2>8. CASE t = s /\ k = n
    <3>1. j \in DOMAIN out[s] /\ out'[s][j] = out[s][j]
      <4>1. j \in 1 .. n /\ j < n
        BY <2>5, <2>8
      <4>2. j \in 1 .. Len(out[s])
        BY <4>1, <2>2
      <4> QED BY <4>2, <2>2, <2>5
    <3>2. Scans(Prefix(s, seen[s]))
      BY <3>1, <2>8 DEF Scanned
    <3> QED BY <2>2, <2>3, <2>5, <2>8, <3>2, ScannerScans
  <2> QED BY <2>6, <2>7, <2>8
<1> QED
  BY <1>1, <1>2 DEF Next, vars, Log, StartPass, Stop, Restart

\* Once a session was called a scanner, none of its later lines says bot or human.
THEOREM ProfilesScannerIsFinal == Spec => []ScannerIsFinal
<1>1. Init => ScannerIsFinal
  BY DEF Init, ScannerIsFinal
<1>2. TypeOK /\ Standing /\ Scanned /\ (TypeOK /\ Standing /\ Scanned)'
        /\ ScannerIsFinal /\ [Next]_vars => ScannerIsFinal'
  BY ScannerStep
<1> QED
  BY StandingHolds, <1>1, <1>2, PTL DEF Spec

-----------------------------------------------------------------------------
(* The dashboards of Provisioner.                                          *)
USE FilesAssumption, NobodyAssumption, BoundsAssumption

\* Appending keeps what is in a sequence and adds one element.
LEMMA AppendIsLast ==
  ASSUME NEW S, NEW s \in Seq(S), NEW x \in S
  PROVE  /\ Append(s, x) \in Seq(S)
         /\ Len(Append(s, x)) = Len(s) + 1
         /\ \A i \in 1..Len(s) : Append(s, x)[i] = s[i]
         /\ Append(s, x)[Len(s) + 1] = x
  OBVIOUS

\* The title a run works on is a title of dashboards/*.json.
LEMMA CurrentIsTitle ==
  ASSUME ProvisionerTypeOK, NEW r \in Runs, pc[r] # "done"
  PROVE  Current(r) \in Titles
  BY DEF ProvisionerTypeOK, Current

\* Where a run that has not begun, or has a request under way, stands.
Owned ==
  /\ \A r \in Runs : pc[r] = "off" => at[r] = 1
  /\ \A r \in latePosts : pc[r] = "interrupted"

\* A run lists dashboards of its title only, and deletes all before it posts.
Listed ==
  /\ \A r \in Runs : pc[r] \in Replacing => \A i \in found[r] : made[i] = Current(r)
  /\ \A r \in Runs : pc[r] = "posting" => found[r] = {}
  /\ \A i \in lateDeletes : \E r \in Runs : pc[r] = "interrupted" /\ i \in Foremost(r)
-----------------------------------------------------------------------------
LEMMA ProvisionerTypeInit ==
  ProvisionerInit => ProvisionerTypeOK /\ Owned
<1> SUFFICES ASSUME ProvisionerInit PROVE ProvisionerTypeOK /\ Owned
  OBVIOUS
<1>1. made \in Seq(Titles)
  BY DEF ProvisionerInit
<1>2. at \in [Runs -> 1..(Len(Files) + 1)] /\ \A r \in Runs : at[r] <= Len(Files)
  BY DEF ProvisionerInit
<1> QED
  BY <1>1, <1>2 DEF ProvisionerInit, ProvisionerTypeOK, Owned, Ids, Active, Over

LEMMA ProvisionerTypeStep ==
  ProvisionerTypeOK /\ Owned /\ [ProvisionerNext]_provisionerVars => ProvisionerTypeOK'
<1> SUFFICES ASSUME ProvisionerTypeOK, Owned, [ProvisionerNext]_provisionerVars
             PROVE  ProvisionerTypeOK'
  OBVIOUS
<1> USE DEF ProvisionerTypeOK, server, late, Active, Over
<1>1. CASE UNCHANGED provisionerVars
  BY <1>1 DEF provisionerVars, Ids
<1>2. ASSUME NEW r \in Runs, StartRun(r) \/ ServerReady(r) \/ GiveUp(r) PROVE ProvisionerTypeOK'
  BY <1>2 DEF StartRun, ServerReady, GiveUp, Ids
<1>3. ASSUME NEW r \in Runs, Request(r) PROVE ProvisionerTypeOK'
  <2>1. CASE List(r)
    <3>1. found' \in [Runs -> SUBSET Ids]
      BY <2>1 DEF List, existing_by_title, Copies
    <3> QED BY <2>1, <3>1 DEF List, Ids
  <2>2. CASE Delete(r)
    <3>1. PICK i \in Foremost(r) \ gone :
            gone' = gone \cup {i} /\ found' = [found EXCEPT ![r] = @ \ {i}]
      BY <2>2 DEF Delete
    <3>2. i \in Ids
      BY DEF Foremost
    <3>3. gone' \subseteq Ids /\ found' \in [Runs -> SUBSET Ids]
      BY <3>1, <3>2
    <3> QED BY <2>2, <3>3 DEF Delete, Ids
  <2>3. CASE DeleteGone(r) \/ AllDeleted(r)
    BY <2>3 DEF DeleteGone, AllDeleted, Ids
  <2>4. CASE Post(r)
    <3>1. Current(r) \in Titles
      BY <2>4, CurrentIsTitle DEF Post
    <3>2. made' \in Seq(Titles) /\ Ids \subseteq Ids'
      BY <2>4, <3>1, AppendIsLast DEF Post, Ids
    <3>3. /\ at' \in [Runs -> 1..(Len(Files) + 1)]
          /\ \A q \in Runs : pc'[q] # "done" => at'[q] <= Len(Files)
      BY <2>4 DEF Post
    <3>4. pc' \in [Runs -> Active \cup Over \cup {"off"}]
      BY <2>4 DEF Post
    <3> QED BY <2>4, <3>2, <3>3, <3>4 DEF Post
  <2>5. CASE Fail(r)
    <3>1. Foremost(r) \subseteq Ids
      BY DEF Foremost
    <3>2. lateDeletes' \subseteq Ids
      BY <2>5, <3>1 DEF Fail
    <3> QED BY <2>5, <3>2 DEF Fail, Ids
  <2> QED BY <1>3, <2>1, <2>2, <2>3, <2>4, <2>5 DEF Request
<1>4. ASSUME NEW r \in Runs, LatePost(r) PROVE ProvisionerTypeOK'
  <2>1. CASE made' = made
    BY <1>4, <2>1 DEF LatePost, Ids
  <2>2. CASE made' = Append(made, Current(r)) /\ pc[r] # "done"
    <3>1. made' \in Seq(Titles) /\ Ids \subseteq Ids'
      BY <2>2, CurrentIsTitle, AppendIsLast DEF Ids
    <3> QED BY <1>4, <3>1 DEF LatePost
  <2> QED BY <1>4, <2>1, <2>2 DEF LatePost, Owned
<1>5. ASSUME NEW i \in lateDeletes, LateDelete(i) PROVE ProvisionerTypeOK'
  BY <1>5 DEF LateDelete, Ids
<1> QED
  BY <1>1, <1>2, <1>3, <1>4, <1>5 DEF ProvisionerNext

LEMMA OwnedStep ==
  ProvisionerTypeOK /\ Owned /\ [ProvisionerNext]_provisionerVars => Owned'
<1> SUFFICES ASSUME ProvisionerTypeOK, Owned, [ProvisionerNext]_provisionerVars PROVE Owned'
  OBVIOUS
<1> USE DEF ProvisionerTypeOK, Owned, server, late
<1>1. CASE UNCHANGED provisionerVars
  BY <1>1 DEF provisionerVars
<1>2. ASSUME NEW r \in Runs, StartRun(r) \/ ServerReady(r) \/ GiveUp(r) PROVE Owned'
  BY <1>2 DEF StartRun, ServerReady, GiveUp
<1>3. ASSUME NEW r \in Runs, Request(r) PROVE Owned'
  <2>1. CASE List(r) \/ Delete(r) \/ DeleteGone(r) \/ AllDeleted(r)
    BY <2>1 DEF List, Delete, DeleteGone, AllDeleted
  <2>2. CASE Post(r)
    BY <2>2 DEF Post
  <2>3. CASE Fail(r)
    BY <2>3 DEF Fail
  <2> QED BY <1>3, <2>1, <2>2, <2>3 DEF Request
<1>4. ASSUME NEW r \in Runs, LatePost(r) PROVE Owned'
  BY <1>4 DEF LatePost
<1>5. ASSUME NEW i \in lateDeletes, LateDelete(i) PROVE Owned'
  BY <1>5 DEF LateDelete
<1> QED
  BY <1>1, <1>2, <1>3, <1>4, <1>5 DEF ProvisionerNext

\* The variables of the provisioner always have their types.
THEOREM ProvisionerTyped ==
  ProvisionerSpec => []ProvisionerTypeOK
<1>1. ProvisionerTypeOK /\ Owned /\ [ProvisionerNext]_provisionerVars
        => (ProvisionerTypeOK /\ Owned)'
  BY ProvisionerTypeStep, OwnedStep
<1> QED
  BY ProvisionerTypeInit, <1>1, PTL DEF ProvisionerSpec
-----------------------------------------------------------------------------
LEMMA ListedInit ==
  ProvisionerInit => Listed
  BY DEF ProvisionerInit, Listed, Replacing

LEMMA ListedStep ==
  ProvisionerTypeOK /\ Owned /\ Listed /\ [ProvisionerNext]_provisionerVars => Listed'
<1> SUFFICES ASSUME ProvisionerTypeOK, Owned, Listed, [ProvisionerNext]_provisionerVars
             PROVE  Listed'
  OBVIOUS
<1> USE DEF server, late, Replacing
<1> DEFINE Own == \A r \in Runs : pc[r] \in Replacing =>
                    \A i \in found[r] : made[i] = Current(r)
           None == \A r \in Runs : pc[r] = "posting" => found[r] = {}
           Late == \A i \in lateDeletes :
                     \E r \in Runs : pc[r] = "interrupted" /\ i \in Foremost(r)
<1>0. Own /\ None /\ Late
  BY DEF Listed
<1>1. CASE UNCHANGED provisionerVars
  BY <1>0, <1>1 DEF provisionerVars, Listed, Foremost, Current
<1>2. ASSUME NEW r \in Runs, StartRun(r) \/ ServerReady(r) \/ GiveUp(r) PROVE Listed'
  <2>1. /\ pc'[r] \notin Replacing /\ UNCHANGED <<made, found, at>>
        /\ pc[r] # "interrupted" /\ UNCHANGED <<oldestFirst, lateDeletes>>
        /\ \A q \in Runs \ {r} : pc'[q] = pc[q]
    BY <1>2 DEF StartRun, ServerReady, GiveUp, ProvisionerTypeOK
  <2>3. Own' /\ None'
    BY <1>0, <2>1 DEF Current
  <2>2. Late'
    BY <1>0, <2>1 DEF Foremost
  <2> QED BY <2>3, <2>2 DEF Listed
<1>3. ASSUME NEW r \in Runs, Request(r) PROVE Listed'
  <2>1. CASE List(r)
    <3>1. Own'
      BY <1>0, <2>1 DEF List, existing_by_title, Copies, Current, ProvisionerTypeOK
    <3>2. None' /\ Late'
      BY <1>0, <2>1 DEF List, Foremost, ProvisionerTypeOK
    <3> QED BY <3>1, <3>2 DEF Listed
  <2>2. CASE Delete(r)
    <3>1. Own' /\ None'
      BY <1>0, <2>2 DEF Delete, Current, ProvisionerTypeOK
    <3>2. Late'
      BY <1>0, <2>2 DEF Delete, Foremost, ProvisionerTypeOK
    <3> QED BY <3>1, <3>2 DEF Listed
  <2>3. CASE DeleteGone(r) \/ AllDeleted(r)
    <3>0. /\ UNCHANGED <<server, at, found, lateDeletes>>
          /\ pc[r] = "deleting"
          /\ pc'[r] = "outrun" \/ (pc'[r] = "posting" /\ found[r] = {})
          /\ \A q \in Runs \ {r} : pc'[q] = pc[q]
      BY <2>3 DEF DeleteGone, AllDeleted, ProvisionerTypeOK
    <3>1. Own' /\ None'
      BY <1>0, <3>0 DEF Current
    <3>2. Late'
      BY <1>0, <3>0 DEF Foremost
    <3> QED BY <3>1, <3>2 DEF Listed
  <2>4. CASE Post(r)
    <3>1. \A i \in Ids : made'[i] = made[i]
      BY <2>4, AppendIsLast, CurrentIsTitle DEF Post, ProvisionerTypeOK, Ids
    <3>2. Own' /\ None'
      BY <1>0, <2>4, <3>1 DEF Post, Current, ProvisionerTypeOK
    <3>3. Late'
      BY <1>0, <2>4 DEF Post, Foremost, ProvisionerTypeOK
    <3> QED BY <3>2, <3>3 DEF Listed
  <2>5. CASE Fail(r)
    <3>1. Own' /\ None'
      <4>1. /\ UNCHANGED <<made, found, at>>
            /\ pc'[r] = "failed" \/ (pc[r] \in Replacing /\ pc'[r] = "interrupted")
            /\ \A q \in Runs \ {r} : pc'[q] = pc[q]
        BY <2>5 DEF Fail, ProvisionerTypeOK
      <4> QED BY <1>0, <4>1 DEF Current
    <3>2. Late'
      <4> SUFFICES ASSUME NEW i \in lateDeletes'
                   PROVE  \E q \in Runs : pc'[q] = "interrupted" /\ i \in Foremost(q)'
        OBVIOUS
      <4>1. CASE i \in lateDeletes
        BY <1>0, <2>5, <4>1 DEF Fail, Foremost, ProvisionerTypeOK
      <4>2. CASE i \notin lateDeletes
        BY <2>5, <4>2 DEF Fail, Foremost, ProvisionerTypeOK
      <4> QED BY <4>1, <4>2
    <3> QED BY <3>1, <3>2 DEF Listed
  <2> QED BY <1>3, <2>1, <2>2, <2>3, <2>4, <2>5 DEF Request
<1>4. ASSUME NEW r \in Runs, LatePost(r) PROVE Listed'
  <2>1. \A i \in Ids : made'[i] = made[i]
    <3>1. pc[r] = "interrupted" /\ Current(r) \in Titles /\ made \in Seq(Titles)
      BY <1>4, CurrentIsTitle DEF LatePost, ProvisionerTypeOK, Owned
    <3> QED BY <1>4, <3>1, AppendIsLast DEF LatePost, Ids
  <2>2. Own' /\ None' /\ Late'
    BY <1>0, <1>4, <2>1 DEF LatePost, Foremost, Current, ProvisionerTypeOK
  <2> QED BY <2>2 DEF Listed
<1>5. ASSUME NEW i \in lateDeletes, LateDelete(i) PROVE Listed'
  BY <1>0, <1>5 DEF Listed, LateDelete, Foremost, Current
<1> QED
  BY <1>1, <1>2, <1>3, <1>4, <1>5 DEF ProvisionerNext
-----------------------------------------------------------------------------
LEMMA LostInit ==
  ProvisionerInit => LostByOneRun
  BY DEF ProvisionerInit, LostByOneRun, Copies, Ids

\* A dashboard that leaves Copies was deleted by a run that works on its title,
\* or had been when its request was given up.
LEMMA LostStep ==
  ProvisionerTypeOK /\ Owned /\ Listed /\ LostByOneRun /\ [ProvisionerNext]_provisionerVars
    => LostByOneRun'
<1> SUFFICES ASSUME ProvisionerTypeOK, Owned, Listed, LostByOneRun,
                    [ProvisionerNext]_provisionerVars,
                    NEW t \in {made'[i] : i \in Ids'}, Copies(t)' = {}
             PROVE  \E r \in Runs : pc'[r] \in Replacing /\ Current(r)' = t
  BY DEF LostByOneRun
<1> USE DEF server, late, Replacing
<1> DEFINE Goal == \E r \in Runs : pc'[r] \in Replacing /\ Current(r)' = t
<1>0. ASSUME UNCHANGED <<made, gone, at>>, 
             \A r \in Runs : pc[r] \in Replacing => pc'[r] \in Replacing
      PROVE  Goal
  BY <1>0 DEF LostByOneRun, Copies, Ids, Current
<1>1. CASE UNCHANGED provisionerVars
  BY <1>0, <1>1 DEF provisionerVars
<1>2. ASSUME NEW r \in Runs, StartRun(r) \/ ServerReady(r) \/ GiveUp(r) PROVE Goal
  BY <1>0, <1>2 DEF StartRun, ServerReady, GiveUp, ProvisionerTypeOK
<1>3. ASSUME NEW r \in Runs, Request(r) PROVE Goal
  <2>1. CASE List(r) \/ DeleteGone(r) \/ AllDeleted(r)
    BY <1>0, <2>1 DEF List, DeleteGone, AllDeleted, ProvisionerTypeOK
  <2>2. CASE Fail(r)
    BY <1>0, <2>2 DEF Fail, ProvisionerTypeOK
  <2>3. CASE Delete(r)
    <3>1. PICK i \in Foremost(r) : gone' = gone \cup {i}
      BY <2>3 DEF Delete
    <3>2. made[i] = Current(r) /\ pc[r] \in Replacing
      BY <2>3 DEF Delete, Listed, Foremost
    <3>3. UNCHANGED <<made, at, pc>>
      BY <2>3 DEF Delete
    <3>4. CASE t = Current(r)
      BY <3>2, <3>3, <3>4 DEF Current
    <3>5. CASE t # Current(r)
      <4>1. Copies(t)' = Copies(t)
        BY <3>1, <3>2, <3>3, <3>5 DEF Copies, Ids
      <4> QED BY <4>1, <3>3 DEF LostByOneRun, Ids, Current
    <3> QED BY <3>4, <3>5
  <2>4. CASE Post(r)
    <3>1. /\ Len(made') = Len(made) + 1 /\ made'[Len(made) + 1] = Current(r)
          /\ \A i \in Ids : made'[i] = made[i]
      BY <2>4, AppendIsLast, CurrentIsTitle DEF Post, ProvisionerTypeOK, Ids
    <3>2. gone' = gone /\ gone \subseteq Ids /\ Len(made) \in Nat
      BY <2>4 DEF Post, ProvisionerTypeOK
    <3>3. t # Current(r)
      BY <3>1, <3>2 DEF Copies, Ids
    <3>4. t \in {made[i] : i \in Ids} /\ Copies(t) = {}
      BY <3>1, <3>2, <3>3 DEF Copies, Ids
    <3>5. PICK q \in Runs : pc[q] \in Replacing /\ Current(q) = t
      BY <3>4 DEF LostByOneRun
    <3>6. pc'[q] = pc[q] /\ at'[q] = at[q]
      BY <2>4, <3>3, <3>5 DEF Post, ProvisionerTypeOK
    <3> QED BY <3>5, <3>6 DEF Current
  <2> QED BY <1>3, <2>1, <2>2, <2>3, <2>4 DEF Request
<1>4. ASSUME NEW r \in Runs, LatePost(r) PROVE Goal
  <2>1. pc[r] = "interrupted" /\ UNCHANGED <<pc, at, gone>>
    BY <1>4 DEF LatePost, Owned
  <2>2. CASE UNCHANGED made
    BY <1>0, <2>1, <2>2
  <2>3. CASE t = Current(r)
    BY <2>1, <2>3 DEF Current
  <2>4. CASE made' = Append(made, Current(r)) /\ t # Current(r)
    <3>1. /\ Len(made') = Len(made) + 1 /\ made'[Len(made) + 1] = Current(r)
          /\ \A i \in Ids : made'[i] = made[i]
      BY <2>1, <2>4, AppendIsLast, CurrentIsTitle DEF ProvisionerTypeOK, Ids
    <3>2. t \in {made[i] : i \in Ids} /\ Copies(t) = {}
      BY <2>1, <2>4, <3>1 DEF Copies, Ids, ProvisionerTypeOK
    <3> QED BY <2>1, <3>2 DEF LostByOneRun, Current
  <2> QED BY <1>4, <2>2, <2>3, <2>4 DEF LatePost
<1>5. ASSUME NEW i \in lateDeletes, LateDelete(i) PROVE Goal
  <2>1. PICK r \in Runs : pc[r] = "interrupted" /\ i \in Foremost(r)
    BY DEF Listed
  <2>2. made[i] = Current(r)
    BY <2>1 DEF Listed, Foremost
  <2>3. UNCHANGED <<made, at, pc>> /\ gone' \in {gone, gone \cup {i}}
    BY <1>5 DEF LateDelete
  <2>4. CASE t = made[i]
    BY <2>1, <2>2, <2>3, <2>4 DEF Current
  <2>5. CASE t # made[i]
    <3>1. Copies(t)' = Copies(t)
      BY <2>3, <2>5 DEF Copies, Ids
    <3> QED BY <2>3, <3>1 DEF LostByOneRun, Ids, Current
  <2> QED BY <2>4, <2>5
<1> QED
  BY <1>1, <1>2, <1>3, <1>4, <1>5 DEF ProvisionerNext

\* A title that was there once is missing only while a run replaces it or if one
\* ended while replacing it.
THEOREM ProvisionerLostByOneRun ==
  ProvisionerSpec => []LostByOneRun
<1> DEFINE I == ProvisionerTypeOK /\ Owned /\ Listed /\ LostByOneRun
<1>1. ProvisionerInit => I
  BY ProvisionerTypeInit, ListedInit, LostInit
<1>2. I /\ [ProvisionerNext]_provisionerVars => I'
  BY ProvisionerTypeStep, OwnedStep, ListedStep, LostStep
<1> QED
  BY <1>1, <1>2, PTL DEF ProvisionerSpec
-----------------------------------------------------------------------------
\* What the run that has OpenObserve to itself knows of it.
Alone ==
  sole # Nobody =>
    /\ \A q \in Runs \ {sole} : pc[q] \notin Active
    /\ pc[sole] = "deleting" => found[sole] = Copies(Current(sole))
    /\ pc[sole] = "posting" => Copies(Current(sole)) = {}

LEMMA AloneInit ==
  ProvisionerInit => Alone /\ SoleRunIsExact
  BY DEF ProvisionerInit, Alone, SoleRunIsExact

\* Steps that leave the dashboards alone.
LEMMA ExactKept ==
  ASSUME ProvisionerTypeOK, SoleRunIsExact, sole # Nobody, UNCHANGED <<made, gone, at, sole>>,
         pc[sole] \in Replacing => pc'[sole] \in Replacing
  PROVE  SoleRunIsExact'
<1>1. Replaced(sole)' \subseteq Replaced(sole)
  BY DEF Replaced, Current, Replacing
<1>2. \A t : Copies(t)' = Copies(t)
  BY DEF Copies, Ids
<1> QED
  BY <1>1, <1>2 DEF SoleRunIsExact, Ids

LEMMA AloneStep ==
  ProvisionerTypeOK /\ Owned /\ Alone /\ SoleRunIsExact /\ [ProvisionerNext]_provisionerVars
           => (Alone /\ SoleRunIsExact)'
<1> SUFFICES ASSUME ProvisionerTypeOK, Owned, Alone, SoleRunIsExact,
                    [ProvisionerNext]_provisionerVars
             PROVE  (Alone /\ SoleRunIsExact)'
  OBVIOUS
<1> USE DEF server, late
<1>0. ASSUME sole' = Nobody PROVE (Alone /\ SoleRunIsExact)'
  BY <1>0 DEF Alone, SoleRunIsExact
<1>1. CASE UNCHANGED provisionerVars
  <2>1. Alone'
    BY <1>1 DEF provisionerVars, Alone, Copies, Ids, Current
  <2>2. SoleRunIsExact'
    BY <1>0, <1>1, ExactKept DEF provisionerVars
  <2> QED BY <2>1, <2>2
<1>2. ASSUME NEW r \in Runs, StartRun(r) PROVE (Alone /\ SoleRunIsExact)'
  <2>1. CASE ~Quiet
    BY <1>0, <1>2, <2>1 DEF StartRun
  <2>2. CASE Quiet
    <3>1. sole' = r /\ pc'[r] = "waiting" /\ at'[r] = 1
      BY <1>2, <2>2 DEF StartRun, ProvisionerTypeOK, Owned
    <3>2. \A q \in Runs \ {r} : pc'[q] \notin Active
      BY <1>2, <2>2 DEF StartRun, Quiet, ProvisionerTypeOK
    <3>3. Replaced(r)' = {}
      BY <3>1 DEF Replaced
    <3> QED BY <3>1, <3>2, <3>3 DEF Alone, SoleRunIsExact
  <2> QED BY <2>1, <2>2
\* From here on the step is that of the sole run, if there is one.
<1>3. ASSUME NEW r \in Runs, pc[r] \in Active, sole' = sole, sole # Nobody
      PROVE  r = sole
  BY <1>3 DEF Alone
<1>4. ASSUME NEW r \in Runs, ServerReady(r) \/ GiveUp(r) PROVE (Alone /\ SoleRunIsExact)'
  <2> SUFFICES ASSUME sole # Nobody PROVE (Alone /\ SoleRunIsExact)'
    BY <1>0, <1>4 DEF ServerReady, GiveUp
  <2>1. r = sole
    BY <1>3, <1>4 DEF ServerReady, GiveUp, Active
  <2>2. Alone'
    BY <1>4, <2>1 DEF ServerReady, GiveUp, Alone, Active, ProvisionerTypeOK
  <2>3. SoleRunIsExact'
    BY <1>4, <2>1, ExactKept DEF ServerReady, GiveUp, Replacing
  <2> QED BY <2>2, <2>3
<1>5. ASSUME NEW r \in Runs, Request(r) PROVE (Alone /\ SoleRunIsExact)'
  <2> SUFFICES ASSUME sole # Nobody PROVE (Alone /\ SoleRunIsExact)'
    BY <1>0, <1>5 DEF Request, List, Delete, DeleteGone, AllDeleted, Post, Fail
  <2>1. r = sole /\ sole' = sole
    BY <1>3, <1>5 DEF Request, List, Delete, DeleteGone, AllDeleted, Post,
                      Fail, Active
  <2>2. \A q \in Runs \ {sole} : pc'[q] \notin Active
    <3>1. \A q \in Runs \ {r} : pc'[q] = pc[q]
      BY <1>5 DEF Request, List, Delete, DeleteGone, AllDeleted, Post, Fail,
                  ProvisionerTypeOK
    <3> QED BY <2>1, <3>1 DEF Alone
  <2>3. CASE List(r)
    <3>1. Alone'
      BY <2>1, <2>2, <2>3 DEF List, Alone, existing_by_title, Copies, Ids, Current,
                              ProvisionerTypeOK
    <3>2. SoleRunIsExact'
      BY <2>1, <2>3, ExactKept DEF List, Replacing
    <3> QED BY <3>1, <3>2
  <2>4. CASE DeleteGone(r) \/ Fail(r)
    <3>1. Alone'
      BY <2>1, <2>2, <2>4 DEF DeleteGone, Fail, Alone, ProvisionerTypeOK
    <3>2. SoleRunIsExact'
      BY <2>1, <2>4, ExactKept DEF DeleteGone, Fail, Replacing, ProvisionerTypeOK
    <3> QED BY <3>1, <3>2
  <2>5. CASE AllDeleted(r)
    <3>1. Alone'
      BY <2>1, <2>2, <2>5 DEF AllDeleted, Alone, Copies, Ids, Current, ProvisionerTypeOK
    <3>2. SoleRunIsExact'
      BY <2>1, <2>5, ExactKept DEF AllDeleted, Replacing, ProvisionerTypeOK
    <3> QED BY <3>1, <3>2
  <2>6. CASE Delete(r)
    <3>1. PICK i \in found[r] : gone' = gone \cup {i} /\ found' = [found EXCEPT ![r] = @ \ {i}]
      BY <2>6 DEF Delete, Foremost
    <3>2. UNCHANGED <<made, pc, at>> /\ pc[r] = "deleting"
      BY <2>6 DEF Delete
    <3>3. found[r] = Copies(Current(r))
      BY <2>1, <3>2 DEF Alone
    <3>4. found'[r] = Copies(Current(r))' /\ pc'[r] = "deleting"
      BY <3>1, <3>2, <3>3 DEF Copies, Ids, Current, ProvisionerTypeOK
    <3>5. Alone'
      BY <2>1, <2>2, <3>4 DEF Alone
    <3>6. \A t \in Replaced(r)' : t # Current(r) /\ t \in Replaced(r)
      BY <3>2 DEF Replaced, Replacing, Current
    <3>7. \A t : t # Current(r) => Copies(t)' = Copies(t)
      BY <3>1, <3>2, <3>3 DEF Copies, Ids
    <3>8. SoleRunIsExact'
      BY <2>1, <3>2, <3>6, <3>7 DEF SoleRunIsExact, Ids
    <3> QED BY <3>5, <3>8
  <2>7. CASE Post(r)
    <3>1. /\ Len(made') = Len(made) + 1 /\ made'[Len(made) + 1] = Current(r)
          /\ \A i \in Ids : made'[i] = made[i]
      BY <2>7, AppendIsLast, CurrentIsTitle DEF Post, ProvisionerTypeOK, Ids
    <3>2. pc[r] = "posting" /\ gone' = gone /\ gone \subseteq Ids /\ Len(made) \in Nat
      BY <2>7 DEF Post, ProvisionerTypeOK
    <3>3. pc'[r] \in {"done", "listing"} /\ at'[r] = at[r] + 1 /\ at[r] \in Nat
      BY <2>7 DEF Post, ProvisionerTypeOK
    <3>4. Alone'
      BY <2>1, <2>2, <3>3 DEF Alone
    <3>5. Copies(Current(r)) = {}
      BY <2>1, <3>2 DEF Alone
    <3>6. \A t \in Replaced(r)' : t = Current(r) \/ t \in Replaced(r)
      BY <3>2, <3>3 DEF Replaced, Replacing, Current
    <3>7. Copies(Current(r))' = {} \/ (Len(made) + 1) \in Ids'
      BY <3>1, <3>2 DEF Ids
    <3>8. \A t : t = Current(r) => Copies(t)' = {Len(made) + 1}
      BY <3>1, <3>2, <3>5 DEF Copies, Ids
    <3>9. \A t : t # Current(r) => Copies(t)' = Copies(t)
      BY <3>1, <3>2 DEF Copies, Ids
    <3>10. SoleRunIsExact'
      <4> SUFFICES ASSUME NEW t \in Replaced(r)'
                   PROVE  \E i \in Ids' : Copies(t)' = {i}
        BY <2>1 DEF SoleRunIsExact
      <4>1. CASE t = Current(r)
        BY <3>1, <3>2, <3>8, <4>1 DEF Ids
      <4>2. CASE t # Current(r)
        <5>1. \E i \in Ids : Copies(t) = {i}
          BY <2>1, <3>6, <4>2 DEF SoleRunIsExact
        <5> QED BY <3>1, <3>2, <3>9, <4>2, <5>1 DEF Ids
      <4> QED BY <4>1, <4>2
    <3> QED BY <3>4, <3>10
  <2> QED BY <1>5, <2>3, <2>4, <2>5, <2>6, <2>7 DEF Request
\* A request that is carried out late comes between: there is no sole run any more.
<1>6. ASSUME UNCHANGED <<made, gone, pc, at, found, sole>> PROVE (Alone /\ SoleRunIsExact)'
  <2>1. Alone'
    BY <1>6 DEF Alone, Copies, Ids, Current
  <2>2. SoleRunIsExact'
    BY <1>0, <1>6, ExactKept
  <2> QED BY <2>1, <2>2
<1>7. ASSUME NEW r \in Runs, LatePost(r) PROVE (Alone /\ SoleRunIsExact)'
  BY <1>0, <1>6, <1>7 DEF LatePost
<1>8. ASSUME NEW i \in lateDeletes, LateDelete(i) PROVE (Alone /\ SoleRunIsExact)'
  BY <1>0, <1>6, <1>8 DEF LateDelete
<1> QED
  BY <1>1, <1>2, <1>4, <1>5, <1>7, <1>8 DEF ProvisionerNext

\* What a run has replaced is there exactly once, as long as nothing comes between.
THEOREM ProvisionerSoleRunIsExact ==
  ProvisionerSpec => []SoleRunIsExact
<1> DEFINE I == ProvisionerTypeOK /\ Owned /\ Alone /\ SoleRunIsExact
<1>1. ProvisionerInit => I
  BY ProvisionerTypeInit, AloneInit
<1>2. I /\ [ProvisionerNext]_provisionerVars => I'
  BY ProvisionerTypeStep, OwnedStep, AloneStep
<1> QED
  BY <1>1, <1>2, PTL DEF ProvisionerSpec
-----------------------------------------------------------------------------
LEMMA RivalsInit ==
  ProvisionerInit => RivalsLeaveOne
  BY DEF ProvisionerInit, RivalsLeaveOne

\* Run r answers for the title t, whose newest dashboard i is gone.
Vouches(r, t, i) ==
  /\ Current(r) = t
  /\ \/ pc[r] \in {"deleting", "posting"} /\ found[r] = {}
     \/ pc[r] = "interrupted" /\ found[r] \subseteq {i}

\* The oldest of what a run has listed is the newest of all: it is the last it
\* has to delete.
LEMMA LastOfTurn ==
  ASSUME ProvisionerTypeOK, Listed, oldestFirst, NEW r \in Runs, pc[r] \in Replacing,
         NEW i \in Foremost(r), NEW t, i \in Newest(t)
  PROVE  Current(r) = t /\ found[r] = {i}
<1>1. \A j \in found[r] : j \in Ids /\ made[j] = Current(r)
  BY DEF ProvisionerTypeOK, Listed
<1>2. \A j \in found[r] : i <= j /\ j <= i /\ j \in Nat /\ i \in Nat
  BY <1>1 DEF Foremost, Newest, Ids
<1> QED
  BY <1>1, <1>2 DEF Foremost, Newest

LEMMA RivalsStep ==
  ProvisionerTypeOK /\ Owned /\ Listed /\ RivalsLeaveOne /\ [ProvisionerNext]_provisionerVars
           => RivalsLeaveOne'
<1> SUFFICES ASSUME ProvisionerTypeOK, Owned, Listed, RivalsLeaveOne,
                    [ProvisionerNext]_provisionerVars, oldestFirst',
                    NEW t \in {made'[j] : j \in Ids'}, NEW i \in Newest(t)' \cap gone'
             PROVE  \E r \in Runs : Vouches(r, t, i)'
  BY DEF RivalsLeaveOne, Vouches
<1> USE DEF server, late, Replacing
<1> DEFINE Goal == \E r \in Runs : Vouches(r, t, i)'
<1>a. oldestFirst
  BY DEF ProvisionerNext, provisionerVars, StartRun, ServerReady, GiveUp, Request, List, Delete,
         DeleteGone, AllDeleted, Post, Fail, LatePost, LateDelete
<1>b. ASSUME UNCHANGED made PROVE i \in Newest(t) /\ t \in {made[j] : j \in Ids}
  BY <1>b DEF Newest, Ids
<1>c. ASSUME t \in {made[j] : j \in Ids}, i \in Newest(t) \cap gone
      PROVE  \E r \in Runs : Vouches(r, t, i)
  BY <1>a, <1>c DEF RivalsLeaveOne, Vouches
<1>0. ASSUME UNCHANGED <<made, gone>>, \A r \in Runs : Vouches(r, t, i) => Vouches(r, t, i)'
      PROVE  Goal
  BY <1>0, <1>b, <1>c
<1>1. CASE UNCHANGED provisionerVars
  BY <1>0, <1>1 DEF provisionerVars, Vouches, Current
<1>2. ASSUME NEW r \in Runs, StartRun(r) \/ ServerReady(r) \/ GiveUp(r) PROVE Goal
  BY <1>0, <1>2 DEF StartRun, ServerReady, GiveUp, ProvisionerTypeOK, Vouches, Current
<1>3. ASSUME NEW r \in Runs, Request(r) PROVE Goal
  <2>1. CASE List(r)
    BY <1>0, <2>1 DEF List, ProvisionerTypeOK, Vouches, Current
  <2>2. CASE AllDeleted(r)
    BY <1>0, <2>2 DEF AllDeleted, ProvisionerTypeOK, Vouches, Current
  <2>3. CASE DeleteGone(r)
    <3>1. found[r] # {}
      BY <2>3 DEF DeleteGone, Foremost
    <3>2. \A q \in Runs \ {r} : pc'[q] = pc[q]
      BY <2>3 DEF DeleteGone, ProvisionerTypeOK
    <3> QED BY <1>0, <2>3, <3>1, <3>2 DEF DeleteGone, Vouches, Current
  <2>4. CASE Fail(r)
    BY <1>0, <2>4 DEF Fail, ProvisionerTypeOK, Vouches, Current
  <2>5. CASE Delete(r)
    <3>1. PICK d \in Foremost(r) :
            gone' = gone \cup {d} /\ found' = [found EXCEPT ![r] = @ \ {d}]
      BY <2>5 DEF Delete
    <3>2. UNCHANGED <<made, at, pc>> /\ pc[r] = "deleting"
      BY <2>5 DEF Delete
    <3>3. CASE i = d
      <4>1. Current(r) = t /\ found[r] = {d}
        BY <1>a, <1>b, <3>1, <3>2, <3>3, LastOfTurn
      <4>2. found'[r] = {}
        BY <3>1, <4>1 DEF ProvisionerTypeOK
      <4> QED BY <3>2, <4>1, <4>2 DEF Vouches, Current
    <3>4. CASE i # d
      <4>1. PICK q \in Runs : Vouches(q, t, i)
        BY <1>b, <1>c, <3>1, <3>2, <3>4
      <4>2. found'[q] \subseteq found[q]
        BY <3>1 DEF ProvisionerTypeOK
      <4> QED BY <3>2, <4>1, <4>2 DEF Vouches, Current
    <3> QED BY <3>3, <3>4
  <2>6. CASE Post(r)
    <3>1. /\ Len(made') = Len(made) + 1 /\ made'[Len(made) + 1] = Current(r)
          /\ \A j \in Ids : made'[j] = made[j]
      BY <2>6, AppendIsLast, CurrentIsTitle DEF Post, ProvisionerTypeOK, Ids
    <3>2. gone' = gone /\ gone \subseteq Ids /\ Len(made) \in Nat
      BY <2>6 DEF Post, ProvisionerTypeOK
    <3>3. i \in Ids
      BY <3>2
    <3>4. t # Current(r)
      BY <3>1, <3>2, <3>3 DEF Newest, Ids
    <3>5. t \in {made[j] : j \in Ids} /\ i \in Newest(t) \cap gone
      BY <3>1, <3>2, <3>3 DEF Newest, Ids
    <3>6. PICK q \in Runs : Vouches(q, t, i)
      BY <1>c, <3>5
    <3>7. q # r /\ pc'[q] = pc[q] /\ at'[q] = at[q] /\ found'[q] = found[q]
      BY <2>6, <3>4, <3>6 DEF Post, ProvisionerTypeOK, Vouches
    <3> QED BY <3>6, <3>7 DEF Vouches, Current
  <2> QED BY <1>3, <2>1, <2>2, <2>3, <2>4, <2>5, <2>6 DEF Request
<1>4. ASSUME NEW r \in Runs, LatePost(r) PROVE Goal
  <2>1. pc[r] = "interrupted" /\ UNCHANGED <<pc, at, gone, found>>
    BY <1>4 DEF LatePost, Owned
  <2>2. \A q \in Runs : Vouches(q, t, i) => Vouches(q, t, i)'
    BY <2>1 DEF Vouches, Current
  <2>3. CASE UNCHANGED made
    BY <1>0, <2>1, <2>2, <2>3
  <2>4. CASE made' = Append(made, Current(r))
    <3>1. /\ Len(made') = Len(made) + 1 /\ made'[Len(made) + 1] = Current(r)
          /\ \A j \in Ids : made'[j] = made[j]
      BY <2>1, <2>4, AppendIsLast, CurrentIsTitle DEF ProvisionerTypeOK, Ids
    <3>2. i \in Ids
      BY <2>1 DEF ProvisionerTypeOK
    <3>3. t \in {made[j] : j \in Ids} /\ i \in Newest(t) \cap gone
      BY <2>1, <3>1, <3>2 DEF Newest, Ids, ProvisionerTypeOK
    <3> QED BY <1>c, <2>2, <3>3
  <2> QED BY <1>4, <2>3, <2>4 DEF LatePost
<1>5. ASSUME NEW d \in lateDeletes, LateDelete(d) PROVE Goal
  <2>1. PICK r \in Runs : pc[r] = "interrupted" /\ d \in Foremost(r)
    BY DEF Listed
  <2>2. UNCHANGED <<made, at, pc, found>> /\ gone' \in {gone, gone \cup {d}}
    BY <1>5 DEF LateDelete
  <2>3. \A q \in Runs : Vouches(q, t, i) => Vouches(q, t, i)'
    BY <2>2 DEF Vouches, Current
  <2>4. CASE i \in gone
    BY <1>b, <1>c, <2>2, <2>3, <2>4
  <2>5. CASE i = d
    <3>1. Current(r) = t /\ found[r] = {d}
      BY <1>a, <1>b, <2>1, <2>2, <2>5, LastOfTurn
    <3> QED BY <2>1, <2>2, <2>5, <3>1 DEF Vouches, Current
  <2> QED BY <2>2, <2>4, <2>5
<1> QED
  BY <1>1, <1>2, <1>3, <1>4, <1>5 DEF ProvisionerNext

\* If lists are in order of creation, one that deletes the newest dashboard of a
\* title goes on to post the next, unless it fails for a reason of its own.
THEOREM ProvisionerRivalsLeaveOne ==
  ProvisionerSpec => []RivalsLeaveOne
<1> DEFINE I == ProvisionerTypeOK /\ Owned /\ Listed /\ RivalsLeaveOne
<1>1. ProvisionerInit => I
  BY ProvisionerTypeInit, ListedInit, RivalsInit
<1>2. I /\ [ProvisionerNext]_provisionerVars => I'
  BY ProvisionerTypeStep, OwnedStep, ListedStep, RivalsStep
<1> QED
  BY <1>1, <1>2, PTL DEF ProvisionerSpec

=============================================================================
