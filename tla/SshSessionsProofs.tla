------------------------- MODULE SshSessionsProofs -------------------------
(***************************************************************************)
(* Proofs about SshSessions, for any numbers of connections, channels and  *)
(* addresses.                                                              *)
(***************************************************************************)
EXTENDS SshSessions, FiniteSetTheorems, TLAPS

USE DEF Records

(* Appending events to a session's log keeps the logs well typed. *)
LEMMA EmitType ==
  ASSUME log \in [Records -> Seq(Event)],
         NEW r \in Records,
         NEW events \in Seq(Event),
         Emit(r, events)
  PROVE  /\ log' \in [Records -> Seq(Event)]
         /\ log'[r] = log[r] \o events
         /\ \A q \in Records \ {r} : log'[q] = log[q]
BY DEF Emit

(* What handle_shell finds or makes is a session record. *)
LEMMA SessionOfType ==
  ASSUME TypeOK, NEW h \in Chans, NEW c \in Conns, conn[c].state # "none"
  PROVE  SessionOf(h, c) \in Records
BY DEF TypeOK, SessionOf

(* What the callbacks hand to the sink are events. *)
LEMMA HappenedType ==
  ASSUME NEW t \in EventTypes, NEW c \in Conns
  PROVE  Happened(t, c) \in Event
BY DEF Event, Happened, Entry

LEMMA EntryType ==
  ASSUME NEW t \in EventTypes, NEW c \in Conns, NEW k \in Kinds \cup {""}, NEW n \in Nat
  PROVE  Entry(t, c, k, n) \in Event
BY DEF Event, Entry

(* The updates of one field keep a record in its type. *)
LEMMA RecordUpdates ==
  ASSUME NEW x \in RecordState
  PROVE  /\ [x EXCEPT !.commands = @ + 1] \in RecordState
         /\ [x EXCEPT !.interactive = FALSE, !.commands = @ + 1] \in RecordState
         /\ [x EXCEPT !.summary = TRUE] \in RecordState
<1>1. x.commands + 1 \in Nat
  <2>1. x.commands \in Nat
    BY DEF RecordState
  <2>. QED
    BY <2>1
<1>2. [x EXCEPT !.commands = @ + 1] \in RecordState
  <2>1. \A n \in Nat : [x EXCEPT !.commands = n] \in RecordState
    BY DEF RecordState
  <2>. QED
    BY <1>1, <2>1
<1>3. [x EXCEPT !.interactive = FALSE, !.commands = @ + 1] \in RecordState
  <2>1. \A n \in Nat : [x EXCEPT !.interactive = FALSE, !.commands = n] \in RecordState
    BY DEF RecordState
  <2>. QED
    BY <1>1, <2>1
<1>4. [x EXCEPT !.summary = TRUE] \in RecordState
  BY DEF RecordState
<1>. QED
  BY <1>2, <1>3, <1>4

LEMMA ConnUpdate ==
  ASSUME NEW x \in ConnState, NEW a \in {"idle", "tarpit", "done"}
  PROVE  [x EXCEPT !.state = "lost", !.auth = a] \in ConnState
BY DEF ConnState

LEMMA ChanUpdate ==
  ASSUME NEW x \in ChanState
  PROVE  /\ [x EXCEPT !.state = "done"] \in ChanState
         /\ \A s \in {"done", "reading"} :
              [x EXCEPT !.state = s, !.line = ""] \in ChanState
BY DEF ChanState

LEMMA TypeInit == Init => TypeOK
<1> SUFFICES ASSUME Init PROVE TypeOK
  OBVIOUS
<1>1. FreshRecord \in RecordState
  BY DEF FreshRecord, RecordState
<1>2. record \in [Records -> RecordState]
  BY <1>1 DEF Init
<1>3. conn \in [Conns -> ConnState]
  BY DEF Init, ConnState
<1>4. chan \in [Chans -> ChanState]
  BY DEF Init, ChanState
<1>5. log \in [Records -> Seq(Event)]
  <2>1. <<>> \in Seq(Event)
    OBVIOUS
  <2>. QED
    BY <2>1 DEF Init
<1>. QED
  BY <1>2, <1>3, <1>4, <1>5 DEF Init, TypeOK

LEMMA TypeStep == TypeOK /\ [Next]_vars => TypeOK'
<1> SUFFICES ASSUME TypeOK, [Next]_vars PROVE TypeOK'
  OBVIOUS
<1>1. ASSUME NEW c \in Conns, NEW p \in Peers, NEW l \in Listeners,
             ConnectionMade(c, p, l)
      PROVE  TypeOK'
  <2>1. <<Happened("connection", c)>> \in Seq(Event)
    BY HappenedType DEF EventTypes
  <2>2. log' \in [Records -> Seq(Event)]
    BY <1>1, <2>1, EmitType DEF TypeOK, ConnectionMade
  <2>3. conn' \in [Conns -> ConnState]
        /\ \A d \in Conns : conn'[d].state # "none" => conn'[d].peer \in Peers
    BY <1>1 DEF TypeOK, ConnectionMade, ConnState
  <2>. QED
    BY <1>1, <2>2, <2>3 DEF TypeOK, ConnectionMade, Publish
<1>2. ASSUME NEW c \in Conns, NEW u \in Logins, BeginAuth(c, u)
      PROVE  TypeOK'
  BY <1>2 DEF TypeOK, BeginAuth, RecordState
<1>3. ASSUME NEW c \in Conns, NEW p \in Passwords, ValidatePassword(c, p)
      PROVE  TypeOK'
  <2>1. /\ <<Happened("auth_attempt", c)>> \in Seq(Event)
        /\ <<Happened("auth_attempt", c), Happened("auth_success", c)>> \in Seq(Event)
    BY HappenedType DEF EventTypes
  <2>2. log' \in [Records -> Seq(Event)]
    BY <1>3, <2>1, EmitType DEF TypeOK, ValidatePassword
  <2>3. conn' \in [Conns -> ConnState]
        /\ \A d \in Conns : conn'[d].state # "none" => conn'[d].peer \in Peers
    <3>1. PICK a \in {"done", "tarpit"} : conn' = [conn EXCEPT ![c].auth = a]
      BY <1>3 DEF ValidatePassword
    <3>2. conn[c] \in ConnState /\ conn \in [Conns -> ConnState]
      BY DEF TypeOK
    <3>3. [conn[c] EXCEPT !.auth = a] \in ConnState
      BY <3>2 DEF ConnState
    <3>4. /\ conn'[c] = [conn[c] EXCEPT !.auth = a]
          /\ \A d \in Conns \ {c} : conn'[d] = conn[d]
          /\ conn' \in [Conns -> ConnState]
      BY <3>1, <3>2, <3>3
    <3>5. conn'[c].state = conn[c].state /\ conn'[c].peer = conn[c].peer
      BY <3>2, <3>4 DEF ConnState
    <3>. QED
      BY <3>4, <3>5 DEF TypeOK
  <2>4. record' \in [Records -> RecordState]
    <3>1. CASE UNCHANGED record
      BY <3>1 DEF TypeOK
    <3>2. CASE record' = [record EXCEPT ![c].authenticated = TRUE]
      BY <3>2 DEF TypeOK, RecordState
    <3>. QED
      BY <1>3, <3>1, <3>2 DEF ValidatePassword
  <2>. QED
    BY <1>3, <2>2, <2>3, <2>4 DEF TypeOK, ValidatePassword
<1>4. ASSUME NEW c \in Conns, TarpitEnds(c)
      PROVE  TypeOK'
  BY <1>4 DEF TypeOK, TarpitEnds, ConnState
<1>5. ASSUME NEW c \in Conns, ValidatePublicKey(c)
      PROVE  TypeOK'
  <2>1. <<Happened("auth_attempt", c)>> \in Seq(Event)
    BY HappenedType DEF EventTypes
  <2>2. log' \in [Records -> Seq(Event)]
    BY <1>5, <2>1, EmitType DEF TypeOK, ValidatePublicKey
  <2>3. conn' \in [Conns -> ConnState]
        /\ \A d \in Conns : conn'[d].state # "none" => conn'[d].peer \in Peers
    BY <1>5 DEF TypeOK, ValidatePublicKey, AuthAfterKey, ConnState
  <2>. QED
    BY <1>5, <2>2, <2>3 DEF TypeOK, ValidatePublicKey
<1>6. ASSUME NEW h \in Chans, NEW c \in Conns, OpenShell(h, c)
      PROVE  TypeOK'
  <2>1. SessionOf(h, c) \in Records
    BY <1>6, SessionOfType DEF OpenShell
  <2>2. record' \in [Records -> RecordState]
    BY <1>6 DEF TypeOK, OpenShell
  <2>3. chan' \in [Chans -> ChanState]
    BY <1>6, <2>1 DEF TypeOK, OpenShell, ChanState
  <2>. QED
    BY <1>6, <2>1, <2>2, <2>3 DEF TypeOK, OpenShell, ChanState
<1>7. ASSUME NEW h \in Chans, NEW c \in Conns, NEW k \in Kinds,
             OpenExec(h, c, k)
      PROVE  TypeOK'
  <2>1. SessionOf(h, c) \in Records
    BY <1>7, SessionOfType DEF OpenExec
  <2>2. record' \in [Records -> RecordState]
    <3>1. record[SessionOf(h, c)] \in RecordState
      BY <2>1 DEF TypeOK
    <3>2. [record[SessionOf(h, c)] EXCEPT !.interactive = FALSE, !.commands = @ + 1]
            \in RecordState
      BY <3>1, RecordUpdates
    <3>. QED
      BY <1>7, <2>1, <3>2 DEF TypeOK, OpenExec
  <2>3. chan' \in [Chans -> ChanState]
    BY <1>7, <2>1 DEF TypeOK, OpenExec, ChanState
  <2>. QED
    BY <1>7, <2>1, <2>2, <2>3 DEF TypeOK, OpenExec, ChanState
<1>8. ASSUME NEW h \in Chans, NEW k \in Kinds, ReadLine(h, k)
      PROVE  TypeOK'
  <2>1. chan[h].rec \in Records
    BY <1>8 DEF TypeOK, ReadLine
  <2>2. record' \in [Records -> RecordState]
    <3>1. [record[chan[h].rec] EXCEPT !.commands = @ + 1] \in RecordState
      <4>1. record[chan[h].rec] \in RecordState
        BY <2>1 DEF TypeOK
      <4>. QED
        BY <4>1, RecordUpdates
    <3>. QED
      BY <1>8, <2>1, <3>1 DEF TypeOK, ReadLine
  <2>3. chan' \in [Chans -> ChanState]
    <3>1. chan \in [Chans -> ChanState] /\ chan[h] \in ChanState
      BY DEF TypeOK
    <3>2. [chan[h] EXCEPT !.state = "sleeping", !.line = k] \in ChanState
      BY <3>1 DEF ChanState
    <3>3. chan' = [chan EXCEPT ![h] = [chan[h] EXCEPT !.state = "sleeping", !.line = k]]
      BY <1>8, <3>1 DEF ReadLine
    <3>. QED
      BY <3>1, <3>2, <3>3
  <2>4. \A g \in Chans : /\ chan'[g].conn = chan[g].conn /\ chan'[g].rec = chan[g].rec
                         /\ g # h => chan'[g] = chan[g]
    BY <1>8 DEF TypeOK, ReadLine, ChanState
  <2>5. chan[h].state # "none" /\ chan'[h].line \in Kinds
    BY <1>8 DEF TypeOK, ReadLine, ChanState
  <2>6. UNCHANGED <<up, conn, registry, log>>
    BY <1>8 DEF ReadLine
  <2>. QED
    BY <2>2, <2>3, <2>4, <2>5, <2>6 DEF TypeOK
<1>9. ASSUME NEW h \in Chans, CommandEnds(h)
      PROVE  TypeOK'
  <2>1. chan[h].rec \in Records /\ chan[h].conn \in Conns /\ chan[h].line \in Kinds
    BY <1>9 DEF TypeOK, CommandEnds
  <2>2. CommandEvents(h) \in Seq(Event)
    <3>1. Entry("command", chan[h].conn, chan[h].line, 0) \in Event
      BY <2>1, EntryType DEF EventTypes
    <3>. QED
      BY <3>1 DEF CommandEvents
  <2>3. log' \in [Records -> Seq(Event)]
    BY <1>9, <2>1, <2>2, EmitType DEF TypeOK, CommandEnds
  <2>4. record' \in [Records -> RecordState]
    BY <1>9 DEF TypeOK, CommandEnds
  <2>5. chan' \in [Chans -> ChanState] /\ chan'[h].state # "sleeping"
        /\ chan'[h].conn = chan[h].conn /\ chan'[h].rec = chan[h].rec
        /\ \A g \in Chans \ {h} : chan'[g] = chan[g]
    <3>1. PICK s \in {"done", "reading"} :
            chan' = [chan EXCEPT ![h].state = s, ![h].line = ""]
      BY <1>9 DEF CommandEnds
    <3>2. chan[h] \in ChanState
      BY DEF TypeOK
    <3>3. [chan[h] EXCEPT !.state = s, !.line = ""] \in ChanState
      BY <3>2, ChanUpdate
    <3>4. chan' = [chan EXCEPT ![h] = [chan[h] EXCEPT !.state = s, !.line = ""]]
      BY <3>1, <3>2 DEF TypeOK
    <3>. QED
      BY <3>2, <3>3, <3>4 DEF TypeOK, ChanState
  <2>6. conn' = conn /\ registry' = registry /\ up' = up
    BY <1>9 DEF CommandEnds
  <2>7. /\ \A g \in Chans : chan'[g].state # "none"
             => chan'[g].conn \in Conns /\ chan'[g].rec \in Records
        /\ \A g \in Chans : chan'[g].state = "sleeping" => chan'[g].line \in Kinds
    BY <2>1, <2>5 DEF TypeOK
  <2>. QED
    BY <2>3, <2>4, <2>5, <2>6, <2>7 DEF TypeOK
<1>10. ASSUME NEW h \in Chans, EndOfInput(h)
       PROVE  TypeOK'
  BY <1>10 DEF TypeOK, EndOfInput, ChanState
<1>11. ASSUME NEW c \in Conns, ConnectionLost(c)
       PROVE  TypeOK'
  <2>1. <<Summary(c)>> \in Seq(Event)
    <3>1. record[c].commands \in Nat
      BY DEF TypeOK, RecordState
    <3>2. Summary(c) \in Event
      BY <3>1, EntryType DEF Summary, EventTypes
    <3>. QED
      BY <3>2
  <2>2. log' \in [Records -> Seq(Event)]
    BY <1>11, <2>1, EmitType DEF TypeOK, ConnectionLost
  <2>3. record' \in [Records -> RecordState]
    <3>1. [record[c] EXCEPT !.summary = TRUE] \in RecordState
      BY RecordUpdates DEF TypeOK
    <3>2. record' \in {record, [record EXCEPT ![c].summary = TRUE]}
      BY <1>11 DEF ConnectionLost
    <3>. QED
      BY <3>1, <3>2 DEF TypeOK
  <2>4. conn' \in [Conns -> ConnState]
        /\ \A d \in Conns : conn'[d].state # "none" => conn'[d].peer \in Peers
    <3>1. PICK a \in {"idle", "tarpit", "done"} :
            conn' = [conn EXCEPT ![c].state = "lost", ![c].auth = a]
      BY <1>11 DEF ConnectionLost, TypeOK, ConnState
    <3>2. [conn[c] EXCEPT !.state = "lost", !.auth = a] \in ConnState
      BY ConnUpdate DEF TypeOK
    <3>3. conn' = [conn EXCEPT ![c] = [conn[c] EXCEPT !.state = "lost", !.auth = a]]
      BY <3>1 DEF TypeOK
    <3>. QED
      BY <3>2, <3>3, <1>11 DEF TypeOK, ConnectionLost
  <2>5. chan' \in [Chans -> ChanState]
    <3>1. \A h \in Chans : [chan[h] EXCEPT !.state = "done"] \in ChanState
      BY ChanUpdate DEF TypeOK
    <3>. QED
      BY <1>11, <3>1 DEF TypeOK, ConnectionLost
  <2>6. registry' \in [Peers -> Records \cup {NoRecord}]
    BY <1>11 DEF TypeOK, ConnectionLost, Withdraw
  <2>7. \A h \in Chans : chan'[h].state # "none" => chan[h].state # "none"
                         /\ chan'[h].conn = chan[h].conn
                         /\ chan'[h].rec = chan[h].rec
    BY <1>11 DEF TypeOK, ConnectionLost, ChanState
  <2>8. \A h \in Chans : chan'[h].state = "sleeping"
                         => chan[h].state = "sleeping" /\ chan'[h].line = chan[h].line
    BY <1>11 DEF TypeOK, ConnectionLost, ChanState
  <2>. QED
    BY <1>11, <2>2, <2>3, <2>4, <2>5, <2>6, <2>7, <2>8 DEF TypeOK, ConnectionLost
<1>12. CASE Shutdown
  BY <1>12 DEF TypeOK, Shutdown
<1>13. CASE UNCHANGED vars
  BY <1>13 DEF TypeOK, vars
<1>. QED
  BY <1>1, <1>2, <1>3, <1>4, <1>5, <1>6, <1>7, <1>8, <1>9, <1>10, <1>11,
     <1>12, <1>13 DEF Next

(* The variables of the SSH honeypot always have their types. *)
THEOREM SshTyped == Spec => []TypeOK
BY TypeInit, TypeStep, PTL DEF Spec

----------------------------------------------------------------------------
(***************************************************************************)
(* Correlation.  When no client uses one address for two connections at    *)
(* once, the registry is exact, hence a channel finds the record of its    *)
(* own connection, hence what it logs is logged under that session.        *)
(***************************************************************************)
ChannelsOwn ==
  \A h \in Chans : chan[h].state # "none"
    => chan[h].rec = chan[h].conn /\ conn[chan[h].conn].state # "none"

SessionInv == TypeOK /\ RegistryExact /\ ChannelsOwn /\ Correlated

(* Appending an event of connection c to its own log keeps it correlated. *)
LEMMA EmitCorrelated ==
  ASSUME log \in [Records -> Seq(Event)], Correlated,
         NEW c \in Conns, NEW events \in Seq(Event),
         \A i \in DOMAIN events : events[i].conn = c,
         Emit(c, events)
  PROVE  Correlated'
<1> SUFFICES ASSUME NEW r \in Records, NEW i \in DOMAIN log'[r]
             PROVE  log'[r][i].conn = r
  BY DEF Correlated
<1>1. CASE r # c
  BY <1>1, EmitType DEF Correlated
<1>2. CASE r = c
  <2>1. log'[r] = log[r] \o events /\ log[r] \in Seq(Event)
    BY <1>2, EmitType
  <2>2. CASE i \in DOMAIN log[r]
    BY <2>1, <2>2 DEF Correlated
  <2>3. CASE i \notin DOMAIN log[r]
    <3>1. i - Len(log[r]) \in DOMAIN events /\ log'[r][i] = events[i - Len(log[r])]
      BY <2>1, <2>3
    <3>. QED
      BY <3>1, <1>2
  <2>. QED
    BY <2>2, <2>3
<1>. QED
  BY <1>1, <1>2

(* With an exact registry the lookup of handle_shell is right. *)
LEMMA LookupOwn ==
  ASSUME TypeOK, RegistryExact, NEW h \in Chans, NEW c \in Conns,
         conn[c].state = "open"
  PROVE  SessionOf(h, c) = c
<1>1. registry[conn[c].peer] = c
  BY DEF RegistryExact
<1>2. c # NoRecord
  BY SshAssumption
<1>. QED
  BY <1>1, <1>2 DEF SessionOf

LEMMA SessionInit == Init => SessionInv
<1> SUFFICES ASSUME Init PROVE SessionInv
  OBVIOUS
<1>1. RegistryExact /\ ChannelsOwn
  BY DEF Init, RegistryExact, ChannelsOwn
<1>2. \A r \in Records : DOMAIN log[r] = {}
  <2>1. \A r \in Records : log[r] = <<>>
    BY DEF Init
  <2>. QED
    BY <2>1
<1>3. Correlated
  BY <1>2 DEF Correlated
<1>. QED
  BY <1>1, <1>3, TypeInit DEF SessionInv

LEMMA Singleton ==
  ASSUME NEW S, NEW e \in S
  PROVE  <<e>> \in Seq(S) /\ DOMAIN <<e>> = {1} /\ <<e>>[1] = e
OBVIOUS

(* An entry alone in a sequence: the form in which callbacks emit. *)
LEMMA SingleEvent ==
  ASSUME NEW t \in EventTypes, NEW c \in Conns, NEW k \in Kinds \cup {""}, NEW n \in Nat
  PROVE  /\ <<Entry(t, c, k, n)>> \in Seq(Event)
         /\ \A i \in DOMAIN <<Entry(t, c, k, n)>> : <<Entry(t, c, k, n)>>[i].conn = c
<1> DEFINE e == Entry(t, c, k, n)
<1>1. e \in Event
  BY EntryType
<1>2. e.conn = c
  BY DEF Entry
<1>. HIDE DEF e
<1>3. <<e>> \in Seq(Event) /\ DOMAIN <<e>> = {1} /\ <<e>>[1] = e
  BY <1>1, Singleton
<1>. QED
  BY <1>2, <1>3 DEF e

LEMMA SessionStep ==
  ASSUME PeerReuse = FALSE
  PROVE  SessionInv /\ [Next]_vars => SessionInv'
<1> SUFFICES ASSUME SessionInv, [Next]_vars
             PROVE  RegistryExact' /\ ChannelsOwn' /\ Correlated'
  BY TypeStep DEF SessionInv
<1> USE DEF SessionInv
<1>1. ASSUME NEW c \in Conns, NEW p \in Peers, NEW l \in Listeners,
             ConnectionMade(c, p, l)
      PROVE  RegistryExact' /\ ChannelsOwn' /\ Correlated'
  <2>1. \A d \in Conns : conn[d].state = "open" => conn[d].peer # p
    BY <1>1 DEF ConnectionMade, Free
  <2>2. /\ conn'[c].state = "open" /\ conn'[c].peer = p
        /\ \A d \in Conns \ {c} : conn'[d] = conn[d]
    BY <1>1 DEF ConnectionMade, TypeOK
  <2>3. /\ registry'[p] = c
        /\ \A q \in Peers \ {p} : registry'[q] = registry[q]
    BY <1>1 DEF ConnectionMade, Publish, TypeOK
  <2>4. RegistryExact'
    <3>1. ASSUME NEW d \in Conns, conn'[d].state = "open"
          PROVE  registry'[conn'[d].peer] = d
      <4>1. CASE d = c
        BY <4>1, <2>2, <2>3
      <4>2. CASE d # c
        <5>1. conn[d].state = "open" /\ conn'[d].peer = conn[d].peer
          BY <2>2, <3>1, <4>2
        <5>2. conn[d].peer \in Peers \ {p}
          BY <5>1, <2>1 DEF TypeOK
        <5>. QED
          BY <5>1, <5>2, <2>3 DEF RegistryExact
      <4>. QED
        BY <4>1, <4>2
    <3>2. ASSUME NEW q \in Peers, registry'[q] # NoRecord
          PROVE  /\ registry'[q] \in Conns
                 /\ conn'[registry'[q]].state = "open"
                 /\ conn'[registry'[q]].peer = q
      <4>1. CASE q = p
        BY <4>1, <2>2, <2>3
      <4>2. CASE q # p
        <5>1. registry'[q] = registry[q]
          BY <2>3, <4>2
        <5>2. /\ registry[q] \in Conns
              /\ conn[registry[q]].state = "open"
              /\ conn[registry[q]].peer = q
          BY <5>1, <3>2 DEF RegistryExact
        <5>3. registry[q] # c
          BY <1>1, <5>2 DEF ConnectionMade
        <5>. QED
          BY <5>1, <5>2, <5>3, <2>2
      <4>. QED
        BY <4>1, <4>2
    <3>. QED
      BY <3>1, <3>2 DEF RegistryExact
  <2>5. ChannelsOwn'
    BY <1>1, <2>2 DEF ChannelsOwn, ConnectionMade, TypeOK
  <2>6. /\ <<Happened("connection", c)>> \in Seq(Event)
        /\ \A i \in DOMAIN <<Happened("connection", c)>> :
             <<Happened("connection", c)>>[i].conn = c
    BY SingleEvent DEF EventTypes, Happened
  <2>7. Correlated'
    BY <1>1, <2>6, EmitCorrelated DEF ConnectionMade, TypeOK
  <2>. QED
    BY <2>4, <2>5, <2>7
<1>2. ASSUME NEW c \in Conns, NEW u \in Logins, BeginAuth(c, u)
      PROVE  RegistryExact' /\ ChannelsOwn' /\ Correlated'
  BY <1>2 DEF BeginAuth, RegistryExact, ChannelsOwn, Correlated
<1>3. ASSUME NEW c \in Conns, NEW p \in Passwords, ValidatePassword(c, p)
      PROVE  RegistryExact' /\ ChannelsOwn' /\ Correlated'
  <2>1. PICK state \in {"done", "tarpit"} : conn' = [conn EXCEPT ![c].auth = state]
    BY <1>3 DEF ValidatePassword
  <2>2. \A d \in Conns : conn'[d].state = conn[d].state /\ conn'[d].peer = conn[d].peer
    BY <2>1 DEF TypeOK, ConnState
  <2>3. RegistryExact'
    <3>1. registry' = registry
      BY <1>3 DEF ValidatePassword
    <3>. QED
      BY <3>1, <2>2 DEF RegistryExact
  <2>4. ChannelsOwn'
    BY <1>3, <2>2 DEF ChannelsOwn, ValidatePassword, TypeOK
  <2>5. PICK events \in {<<Happened("auth_attempt", c)>>,
                         <<Happened("auth_attempt", c), Happened("auth_success", c)>>} :
          Emit(c, events)
    BY <1>3 DEF ValidatePassword
  <2>6. events \in Seq(Event) /\ \A i \in DOMAIN events : events[i].conn = c
    <3>1. \A t \in EventTypes : Happened(t, c) \in Event /\ Happened(t, c).conn = c
      BY HappenedType DEF Happened, Entry
    <3> DEFINE a == Happened("auth_attempt", c)
               b == Happened("auth_success", c)
    <3>2. a \in Event /\ a.conn = c /\ b \in Event /\ b.conn = c
      BY <3>1 DEF EventTypes
    <3>3. events = <<a>> \/ events = <<a, b>>
      OBVIOUS
    <3>. HIDE DEF a, b
    <3>4. /\ <<a>> \in Seq(Event) /\ DOMAIN <<a>> = {1} /\ <<a>>[1] = a
          /\ <<a, b>> \in Seq(Event) /\ DOMAIN <<a, b>> = {1, 2}
          /\ <<a, b>>[1] = a /\ <<a, b>>[2] = b
      BY <3>2
    <3>5. CASE events = <<a>>
      BY <3>2, <3>4, <3>5
    <3>6. CASE events = <<a, b>>
      BY <3>2, <3>4, <3>6
    <3>. QED
      BY <3>3, <3>5, <3>6
  <2>7. Correlated'
    BY <2>5, <2>6, EmitCorrelated DEF TypeOK
  <2>. QED
    BY <2>3, <2>4, <2>7
<1>4. ASSUME NEW c \in Conns, TarpitEnds(c)
      PROVE  RegistryExact' /\ ChannelsOwn' /\ Correlated'
  <2>1. \A d \in Conns : conn'[d].state = conn[d].state /\ conn'[d].peer = conn[d].peer
    BY <1>4 DEF TarpitEnds, TypeOK, ConnState
  <2>. QED
    BY <1>4, <2>1 DEF TarpitEnds, RegistryExact, ChannelsOwn, Correlated, TypeOK
<1>5. ASSUME NEW c \in Conns, ValidatePublicKey(c)
      PROVE  RegistryExact' /\ ChannelsOwn' /\ Correlated'
  <2>1. \A d \in Conns : conn'[d].state = conn[d].state /\ conn'[d].peer = conn[d].peer
    BY <1>5 DEF ValidatePublicKey, TypeOK, ConnState
  <2>2. RegistryExact' /\ ChannelsOwn'
    BY <1>5, <2>1 DEF ValidatePublicKey, RegistryExact, ChannelsOwn, TypeOK
  <2>3. /\ <<Happened("auth_attempt", c)>> \in Seq(Event)
        /\ \A i \in DOMAIN <<Happened("auth_attempt", c)>> :
             <<Happened("auth_attempt", c)>>[i].conn = c
    BY SingleEvent DEF EventTypes, Happened
  <2>4. Correlated'
    BY <1>5, <2>3, EmitCorrelated DEF ValidatePublicKey, TypeOK
  <2>. QED
    BY <2>2, <2>4
<1>6. ASSUME NEW h \in Chans, NEW c \in Conns, OpenShell(h, c)
      PROVE  RegistryExact' /\ ChannelsOwn' /\ Correlated'
  <2>1. SessionOf(h, c) = c
    BY <1>6, LookupOwn DEF OpenShell
  <2>. QED
    BY <1>6, <2>1 DEF OpenShell, RegistryExact, ChannelsOwn, Correlated, TypeOK
<1>7. ASSUME NEW h \in Chans, NEW c \in Conns, NEW k \in Kinds,
             OpenExec(h, c, k)
      PROVE  RegistryExact' /\ ChannelsOwn' /\ Correlated'
  <2>1. SessionOf(h, c) = c
    BY <1>7, LookupOwn DEF OpenExec
  <2>. QED
    BY <1>7, <2>1 DEF OpenExec, RegistryExact, ChannelsOwn, Correlated, TypeOK
<1>8. ASSUME NEW h \in Chans, NEW k \in Kinds, ReadLine(h, k)
      PROVE  RegistryExact' /\ ChannelsOwn' /\ Correlated'
  <2>1. \A g \in Chans : /\ (chan'[g].state = "none") = (chan[g].state = "none")
                         /\ chan'[g].rec = chan[g].rec
                         /\ chan'[g].conn = chan[g].conn
    BY <1>8 DEF ReadLine, TypeOK, ChanState
  <2>2. UNCHANGED <<conn, registry, log>>
    BY <1>8 DEF ReadLine
  <2>. QED
    BY <2>1, <2>2 DEF RegistryExact, ChannelsOwn, Correlated
<1>9. ASSUME NEW h \in Chans, CommandEnds(h)
      PROVE  RegistryExact' /\ ChannelsOwn' /\ Correlated'
  <2>1. \A g \in Chans : /\ (chan'[g].state = "none") = (chan[g].state = "none")
                         /\ chan'[g].rec = chan[g].rec
                         /\ chan'[g].conn = chan[g].conn
    BY <1>9 DEF CommandEnds, TypeOK, ChanState
  <2>2. RegistryExact' /\ ChannelsOwn'
    <3>1. UNCHANGED <<conn, registry>>
      BY <1>9 DEF CommandEnds
    <3>. QED
      BY <2>1, <3>1 DEF RegistryExact, ChannelsOwn
  <2>3. chan[h].conn \in Conns /\ chan[h].line \in Kinds /\ chan[h].rec = chan[h].conn
    BY <1>9 DEF CommandEnds, TypeOK, ChannelsOwn
  <2>5. CommandEvents(h) \in Seq(Event)
        /\ \A i \in DOMAIN CommandEvents(h) : CommandEvents(h)[i].conn = chan[h].conn
    <3>1. /\ "command" \in EventTypes
          /\ chan[h].line \in Kinds \cup {""}
          /\ 0 \in Nat
      BY <2>3 DEF EventTypes
    <3>. QED
      BY <2>3, <3>1, SingleEvent DEF CommandEvents
  <2>6. Correlated'
    BY <1>9, <2>3, <2>5, EmitCorrelated DEF CommandEnds, TypeOK
  <2>. QED
    BY <2>2, <2>6
<1>10. ASSUME NEW h \in Chans, EndOfInput(h)
       PROVE  RegistryExact' /\ ChannelsOwn' /\ Correlated'
  <2>1. \A g \in Chans : /\ (chan'[g].state = "none") = (chan[g].state = "none")
                         /\ chan'[g].rec = chan[g].rec
                         /\ chan'[g].conn = chan[g].conn
    BY <1>10 DEF EndOfInput, TypeOK, ChanState
  <2>. QED
    BY <1>10, <2>1 DEF EndOfInput, RegistryExact, ChannelsOwn, Correlated
<1>11. ASSUME NEW c \in Conns, ConnectionLost(c)
       PROVE  RegistryExact' /\ ChannelsOwn' /\ Correlated'
  <2>1. /\ conn'[c].state = "lost"
        /\ \A d \in Conns : conn'[d].peer = conn[d].peer
        /\ \A d \in Conns \ {c} : conn'[d].state = conn[d].state
    BY <1>11 DEF ConnectionLost, TypeOK, ConnState
  <2>2. conn[c].state = "open" /\ registry[conn[c].peer] = c /\ conn[c].peer \in Peers
    BY <1>11 DEF ConnectionLost, RegistryExact, TypeOK
  <2>3. /\ registry'[conn[c].peer] = NoRecord
        /\ \A q \in Peers \ {conn[c].peer} : registry'[q] = registry[q]
    BY <1>11, <2>2 DEF ConnectionLost, Withdraw, TypeOK
  <2>4. RegistryExact'
    <3>1. ASSUME NEW d \in Conns, conn'[d].state = "open"
          PROVE  registry'[conn'[d].peer] = d
      <4>1. d # c /\ conn[d].state = "open" /\ conn'[d].peer = conn[d].peer
        BY <2>1, <3>1
      <4>2. registry[conn[d].peer] = d /\ conn[d].peer \in Peers
        BY <4>1 DEF RegistryExact, TypeOK
      <4>3. conn[d].peer # conn[c].peer
        BY <4>1, <4>2, <2>2
      <4>. QED
        BY <4>1, <4>2, <4>3, <2>3
    <3>2. ASSUME NEW q \in Peers, registry'[q] # NoRecord
          PROVE  /\ registry'[q] \in Conns
                 /\ conn'[registry'[q]].state = "open"
                 /\ conn'[registry'[q]].peer = q
      <4>1. q # conn[c].peer /\ registry'[q] = registry[q]
        BY <2>3, <3>2
      <4>2. /\ registry[q] \in Conns
            /\ conn[registry[q]].state = "open"
            /\ conn[registry[q]].peer = q
        BY <4>1, <3>2 DEF RegistryExact
      <4>. QED
        BY <4>1, <4>2, <2>1
    <3>. QED
      BY <3>1, <3>2 DEF RegistryExact
  <2>5. \A g \in Chans : /\ chan'[g].state # "none" => chan[g].state # "none"
                         /\ chan'[g].rec = chan[g].rec
                         /\ chan'[g].conn = chan[g].conn
    BY <1>11 DEF ConnectionLost, TypeOK, ChanState
  <2>6. ChannelsOwn'
    <3> SUFFICES ASSUME NEW g \in Chans, chan'[g].state # "none"
                 PROVE  /\ chan'[g].rec = chan'[g].conn
                        /\ conn'[chan'[g].conn].state # "none"
      BY DEF ChannelsOwn
    <3>1. chan[g].rec = chan[g].conn /\ conn[chan[g].conn].state # "none"
      BY <2>5 DEF ChannelsOwn
    <3>2. chan[g].conn \in Conns
      BY <2>5 DEF TypeOK
    <3>. QED
      BY <3>1, <3>2, <2>1, <2>5
  <2>7. /\ <<Summary(c)>> \in Seq(Event)
        /\ \A i \in DOMAIN <<Summary(c)>> : <<Summary(c)>>[i].conn = c
    <3>1. record[c].commands \in Nat
      BY DEF TypeOK, RecordState
    <3>2. "disconnection" \in EventTypes /\ "" \in Kinds \cup {""}
      BY DEF EventTypes
    <3>. DEFINE e == Entry("disconnection", c, "", record[c].commands)
    <3>3. <<e>> \in Seq(Event) /\ \A i \in DOMAIN <<e>> : <<e>>[i].conn = c
      <4>1. \A n \in Nat :
              LET d == Entry("disconnection", c, "", n) IN
              <<d>> \in Seq(Event) /\ \A i \in DOMAIN <<d>> : <<d>>[i].conn = c
        BY <3>2, SingleEvent, Zenon
      <4>. QED
        BY <3>1, <4>1, Zenon
    <3>4. Summary(c) = e
      BY DEF Summary
    <3>. HIDE DEF e
    <3>. QED
      BY <3>3, <3>4
  <2>8. Correlated'
    <3>1. CASE UNCHANGED log
      BY <3>1 DEF Correlated
    <3>2. CASE Emit(c, <<Summary(c)>>)
      BY <2>7, <3>2, EmitCorrelated DEF TypeOK
    <3>. QED
      BY <1>11, <3>1, <3>2 DEF ConnectionLost
  <2>. QED
    BY <2>4, <2>6, <2>8
<1>12. CASE Shutdown
  BY <1>12 DEF Shutdown, RegistryExact, ChannelsOwn, Correlated
<1>13. CASE UNCHANGED vars
  BY <1>13 DEF vars, RegistryExact, ChannelsOwn, Correlated
<1>. QED
  BY <1>1, <1>2, <1>3, <1>4, <1>5, <1>6, <1>7, <1>8, <1>9, <1>10, <1>11,
     <1>12, <1>13 DEF Next

(* What the comment at server.py:71 relies on is also enough: if an        *)
(* address belongs to one connection at a time, _REGISTRY holds exactly    *)
(* the open connections.                                                   *)
THEOREM SshRegistryExact ==
  ASSUME PeerReuse = FALSE
  PROVE  Spec => []RegistryExact
<1>1. SessionInv => RegistryExact
  BY DEF SessionInv
<1>2. SessionInv /\ [Next]_vars => SessionInv'
  BY SessionStep
<1>. QED
  BY <1>1, <1>2, SessionInit, PTL DEF Spec

(* Under the same assumption every event is logged under the session of    *)
(* the connection it happened on.                                          *)
THEOREM SshCorrelated ==
  ASSUME PeerReuse = FALSE
  PROVE  Spec => []Correlated
<1>1. SessionInv => Correlated
  BY DEF SessionInv
<1>2. SessionInv /\ [Next]_vars => SessionInv'
  BY SessionStep
<1>. QED
  BY <1>1, <1>2, SessionInit, PTL DEF Spec

----------------------------------------------------------------------------
(***************************************************************************)
(* The shape of a session's log.  What may be appended to it depends on    *)
(* what it holds already, so the invariant relates the state of a          *)
(* connection and of its channels to the events in the log.                *)
(***************************************************************************)
Holds(s, type) == \E i \in DOMAIN s : s[i].type = type

Earlier(s, i, type) == \E j \in 1 .. i - 1 : s[j].type = type

WellShaped(s) ==
  \A i \in DOMAIN s :
    /\ (s[i].type = "connection") = (i = 1)
    /\ Earlier(s, i, "disconnection") => s[i].type = "command"
    /\ s[i].type = "command" => Earlier(s, i, "auth_success")

(* What a log that grows by one event holds. *)
LEMMA AppendHolds ==
  ASSUME NEW s \in Seq(Event), NEW e \in Event
  PROVE  /\ Append(s, e) \in Seq(Event)
         /\ Append(s, e) # <<>>
         /\ Holds(Append(s, e), e.type)
         /\ \A t : Holds(s, t) => Holds(Append(s, e), t)
         /\ \A t : Holds(Append(s, e), t) => Holds(s, t) \/ e.type = t
<1> DEFINE n == Len(s)
           u == Append(s, e)
<1>1. /\ n \in Nat /\ DOMAIN s = 1 .. n
      /\ u \in Seq(Event) /\ Len(u) = n + 1 /\ DOMAIN u = 1 .. n + 1
      /\ u[n + 1] = e /\ \A i \in 1 .. n : u[i] = s[i]
  OBVIOUS
<1>. HIDE DEF n, u
<1>2. u # <<>>
  BY <1>1
<1>3. Holds(u, e.type)
  <2>1. n + 1 \in DOMAIN u
    BY <1>1
  <2>. QED
    BY <1>1, <2>1 DEF Holds
<1>4. \A t : Holds(s, t) => Holds(u, t)
  <2>1. \A i \in 1 .. n : i \in 1 .. n + 1
    BY <1>1
  <2>. QED
    BY <1>1, <2>1 DEF Holds
<1>5. \A t : Holds(u, t) => Holds(s, t) \/ e.type = t
  <2>1. \A i \in 1 .. n + 1 : i \in 1 .. n \/ i = n + 1
    BY <1>1
  <2>. QED
    BY <1>1, <2>1 DEF Holds
<1>. QED
  BY <1>1, <1>2, <1>3, <1>4, <1>5 DEF u

(* When one more event keeps a log in shape. *)
LEMMA AppendShaped ==
  ASSUME NEW s \in Seq(Event), NEW e \in Event, WellShaped(s),
         (e.type = "connection") = (s = <<>>),
         Holds(s, "disconnection") => e.type = "command",
         e.type = "command" => Holds(s, "auth_success")
  PROVE  WellShaped(Append(s, e))
<1> DEFINE n == Len(s)
           u == Append(s, e)
<1>1. /\ n \in Nat /\ DOMAIN s = 1 .. n /\ DOMAIN u = 1 .. n + 1
      /\ u[n + 1] = e /\ \A i \in 1 .. n : u[i] = s[i]
      /\ (s = <<>>) = (n = 0)
  OBVIOUS
<1>. HIDE DEF n, u
<1>2. \A i \in 1 .. n : \A t : Earlier(u, i, t) = Earlier(s, i, t)
  <2>1. \A i \in 1 .. n : \A j \in 1 .. i - 1 : u[j] = s[j]
    BY <1>1
  <2>. QED
    BY <2>1 DEF Earlier
<1>3. \A t : Earlier(u, n + 1, t) = Holds(s, t)
  <2>1. 1 .. (n + 1) - 1 = 1 .. n
    BY <1>1
  <2>. QED
    BY <1>1, <2>1 DEF Earlier, Holds
<1>4. ASSUME NEW i \in DOMAIN u
      PROVE  /\ (u[i].type = "connection") = (i = 1)
             /\ Earlier(u, i, "disconnection") => u[i].type = "command"
             /\ u[i].type = "command" => Earlier(u, i, "auth_success")
  <2>1. CASE i \in 1 .. n
    BY <1>1, <1>2, <2>1 DEF WellShaped
  <2>2. CASE i = n + 1
    <3>1. (n = 0) = (i = 1)
      BY <1>1, <2>2
    <3>. QED
      BY <1>1, <1>3, <2>2, <3>1
  <2>. QED
    BY <1>1, <2>1, <2>2
<1>. QED
  BY <1>4 DEF WellShaped, u

(* A callback that writes one event appends it. *)
LEMMA EmitOne ==
  ASSUME log \in [Records -> Seq(Event)], NEW r \in Records, NEW e \in Event,
         Emit(r, <<e>>)
  PROVE  /\ log'[r] = Append(log[r], e)
         /\ \A q \in Records \ {r} : log'[q] = log[q]
<1>1. <<e>> \in Seq(Event) /\ \A s \in Seq(Event) : s \o <<e>> = Append(s, e)
  OBVIOUS
<1>. QED
  BY <1>1, EmitType

(* Two events that are written one after the other. *)
LEMMA EmitTwo ==
  ASSUME log \in [Records -> Seq(Event)], NEW r \in Records,
         NEW e \in Event, NEW f \in Event, Emit(r, <<e, f>>)
  PROVE  /\ log'[r] = Append(Append(log[r], e), f)
         /\ \A q \in Records \ {r} : log'[q] = log[q]
<1>1. /\ <<e, f>> \in Seq(Event)
      /\ \A s \in Seq(Event) : s \o <<e, f>> = Append(Append(s, e), f)
  OBVIOUS
<1>. QED
  BY <1>1, EmitType

StreamState ==
  /\ \A r \in Records : WellShaped(log[r])
  /\ \A c \in Conns :
       /\ (log[c] = <<>>) = (conn[c].state = "none")
       /\ Holds(log[c], "disconnection") => conn[c].state = "lost"
       /\ conn[c].auth = "done"
            => conn[c].state # "none" /\ Holds(log[c], "auth_success")
  /\ \A h \in Chans : chan[h].state # "none" => conn[chan[h].conn].auth = "done"

StreamInv == SessionInv /\ StreamState

(* There is no log at the start. *)
LEMMA StreamInit == Init => StreamInv
<1> SUFFICES ASSUME Init PROVE StreamState
  BY SessionInit DEF StreamInv
<1>1. \A r \in Records : log[r] = <<>> /\ DOMAIN log[r] = {}
  <2>1. \A r \in Records : log[r] = <<>>
    BY DEF Init
  <2>. QED
    BY <2>1
<1>. QED
  BY <1>1 DEF Init, StreamState, WellShaped, Holds

(* What is left to show if the log and the state of one connection change. *)
LEMMA OneLogChanges ==
  ASSUME StreamState, NEW c \in Conns,
         \A q \in Records \ {c} : log'[q] = log[q],
         \A d \in Conns \ {c} : conn'[d] = conn[d],
         WellShaped(log'[c]),
         (log'[c] = <<>>) = (conn'[c].state = "none"),
         Holds(log'[c], "disconnection") => conn'[c].state = "lost",
         conn'[c].auth = "done"
           => conn'[c].state # "none" /\ Holds(log'[c], "auth_success"),
         \A h \in Chans : chan'[h].state # "none" => conn'[chan'[h].conn].auth = "done"
  PROVE  StreamState'
<1>1. \A r \in Records : WellShaped(log'[r])
  BY DEF StreamState
<1>2. ASSUME NEW d \in Conns
      PROVE  /\ (log'[d] = <<>>) = (conn'[d].state = "none")
             /\ Holds(log'[d], "disconnection") => conn'[d].state = "lost"
             /\ conn'[d].auth = "done"
                  => conn'[d].state # "none" /\ Holds(log'[d], "auth_success")
  <2>1. CASE d = c
    BY <2>1
  <2>2. CASE d # c
    <3>1. log'[d] = log[d] /\ conn'[d] = conn[d]
      BY <2>2
    <3>. QED
      BY <3>1 DEF StreamState
  <2>. QED
    BY <2>1, <2>2
<1>. QED
  BY <1>1, <1>2 DEF StreamState

(* Every step that writes appends to the log of one connection; the others  *)
(* keep their shape, and their state.                                      *)
LEMMA StreamStep ==
  ASSUME PeerReuse = FALSE
  PROVE  StreamInv /\ [Next]_vars => StreamInv'
<1> SUFFICES ASSUME StreamInv, [Next]_vars PROVE StreamState'
  BY SessionStep DEF StreamInv
<1>t. /\ TypeOK /\ RegistryExact /\ ChannelsOwn
      /\ log \in [Records -> Seq(Event)]
      /\ conn \in [Conns -> ConnState] /\ chan \in [Chans -> ChanState]
  BY DEF StreamInv, SessionInv, TypeOK
<1>s. StreamState
  BY DEF StreamInv
<1>e. \A c \in Conns, t \in EventTypes : Happened(t, c) \in Event /\ Happened(t, c).type = t
  BY HappenedType DEF Happened, Entry
<1>1. ASSUME NEW c \in Conns, NEW p \in Peers, NEW l \in Listeners,
             ConnectionMade(c, p, l)
      PROVE  StreamState'
  <2> DEFINE e == Happened("connection", c)
  <2>1. e \in Event /\ e.type = "connection"
    BY <1>e DEF EventTypes
  <2>2. /\ log'[c] = Append(log[c], e)
        /\ \A q \in Records \ {c} : log'[q] = log[q]
    BY <1>1, <1>t, <2>1, EmitOne DEF ConnectionMade
  <2>. HIDE DEF e
  <2>3. conn[c].state = "none" /\ log[c] = <<>> /\ ~Holds(log[c], "disconnection")
        /\ log[c] \in Seq(Event) /\ WellShaped(log[c])
    BY <1>1, <1>s, <1>t DEF ConnectionMade, StreamState
  <2>4. WellShaped(log'[c]) /\ log'[c] # <<>> /\ ~Holds(log'[c], "disconnection")
    <3>1. WellShaped(Append(log[c], e))
      BY <2>1, <2>3, AppendShaped
    <3>2. Append(log[c], e) # <<>> /\ ~Holds(Append(log[c], e), "disconnection")
      <4>. DEFINE s == log[c]
      <4>1. s \in Seq(Event) /\ ~Holds(s, "disconnection")
        BY <2>3
      <4>. HIDE DEF s
      <4>2. Append(s, e) # <<>> /\ ~Holds(Append(s, e), "disconnection")
        BY <2>1, <4>1, AppendHolds
      <4>. QED
        BY <4>2 DEF s
    <3>. QED
      BY <2>2, <3>1, <3>2
  <2>5. /\ conn'[c].state = "open" /\ conn'[c].auth = "idle"
        /\ \A d \in Conns \ {c} : conn'[d] = conn[d]
    BY <1>1, <1>t DEF ConnectionMade
  <2>6. \A h \in Chans : chan'[h].state # "none" => conn'[chan'[h].conn].auth = "done"
    <3>1. chan' = chan
      BY <1>1 DEF ConnectionMade
    <3>2. \A h \in Chans : chan[h].state # "none" => chan[h].conn \in Conns \ {c}
      BY <1>t, <2>3 DEF TypeOK, ChannelsOwn
    <3>. QED
      BY <1>s, <2>5, <3>1, <3>2 DEF StreamState
  <2>. QED
    BY <1>s, <2>2, <2>4, <2>5, <2>6, OneLogChanges
<1>2. ASSUME NEW c \in Conns, NEW u \in Logins, BeginAuth(c, u)
      PROVE  StreamState'
  BY <1>2, <1>s DEF BeginAuth, StreamState
<1>3. ASSUME NEW c \in Conns, NEW p \in Passwords, ValidatePassword(c, p)
      PROVE  StreamState'
  <2> DEFINE a == Happened("auth_attempt", c)
             b == Happened("auth_success", c)
  <2>1. a \in Event /\ a.type = "auth_attempt" /\ b \in Event /\ b.type = "auth_success"
    BY <1>e DEF EventTypes
  <2>2. /\ conn[c].state = "open" /\ conn[c].auth = "idle" /\ log[c] # <<>>
        /\ ~Holds(log[c], "disconnection") /\ WellShaped(log[c]) /\ log[c] \in Seq(Event)
    BY <1>3, <1>s, <1>t DEF ValidatePassword, StreamState
  <2>3. chan' = chan /\ \A h \in Chans : chan[h].state # "none"
          => chan[h].conn \in Conns \ {c}
    BY <1>3, <1>t, <1>s, <2>2 DEF ValidatePassword, TypeOK, StreamState
  <2>4. /\ WellShaped(Append(log[c], a)) /\ Append(log[c], a) \in Seq(Event)
        /\ Append(log[c], a) # <<>> /\ ~Holds(Append(log[c], a), "disconnection")
    <3>. HIDE DEF a, b
    <3>. QED
      BY <2>1, <2>2, AppendShaped, AppendHolds
  <2>5. CASE /\ Emit(c, <<a, b>>)
             /\ conn' = [conn EXCEPT ![c].auth = "done"]
    <3>1. /\ log'[c] = Append(Append(log[c], a), b)
          /\ \A q \in Records \ {c} : log'[q] = log[q]
      BY <1>t, <2>1, <2>5, EmitTwo
    <3>. HIDE DEF a, b
    <3>2. /\ WellShaped(log'[c]) /\ log'[c] # <<>> /\ ~Holds(log'[c], "disconnection")
          /\ Holds(log'[c], "auth_success")
      <4>1. WellShaped(Append(Append(log[c], a), b))
        BY <2>1, <2>4, AppendShaped
      <4>. DEFINE s == Append(log[c], a)
      <4>2. s \in Seq(Event) /\ ~Holds(s, "disconnection")
        BY <2>4
      <4>. HIDE DEF s
      <4>3. /\ Append(s, b) # <<>> /\ ~Holds(Append(s, b), "disconnection")
            /\ Holds(Append(s, b), "auth_success")
        BY <2>1, <4>2, AppendHolds
      <4>. QED
        BY <3>1, <4>1, <4>3 DEF s
    <3>3. /\ conn'[c].state = "open" /\ conn'[c].auth = "done"
          /\ \A d \in Conns \ {c} : conn'[d] = conn[d]
      BY <1>t, <2>2, <2>5 DEF ConnState
    <3>4. \A h \in Chans : chan'[h].state # "none" => conn'[chan'[h].conn].auth = "done"
      BY <1>s, <2>3, <3>3 DEF StreamState
    <3>. QED
      BY <1>s, <3>1, <3>2, <3>3, <3>4, OneLogChanges
  <2>6. CASE /\ Emit(c, <<a>>)
             /\ conn' = [conn EXCEPT ![c].auth = "tarpit"]
    <3>1. /\ log'[c] = Append(log[c], a)
          /\ \A q \in Records \ {c} : log'[q] = log[q]
      BY <1>t, <2>1, <2>6, EmitOne
    <3>3. /\ conn'[c].state = "open" /\ conn'[c].auth = "tarpit"
          /\ \A d \in Conns \ {c} : conn'[d] = conn[d]
      BY <1>t, <2>2, <2>6 DEF ConnState
    <3>. HIDE DEF a, b
    <3>4. \A h \in Chans : chan'[h].state # "none" => conn'[chan'[h].conn].auth = "done"
      BY <1>s, <2>3, <3>3 DEF StreamState
    <3>. QED
      BY <1>s, <2>4, <3>1, <3>3, <3>4, OneLogChanges
  <2>. QED
    BY <1>3, <2>5, <2>6 DEF ValidatePassword
<1>4. ASSUME NEW c \in Conns, TarpitEnds(c)
      PROVE  StreamState'
  <2>1. \A d \in Conns : /\ conn'[d].state = conn[d].state
                         /\ (conn'[d].auth = "done") = (conn[d].auth = "done")
    BY <1>4, <1>t DEF TarpitEnds, ConnState
  <2>2. \A h \in Chans : chan[h].state # "none" => chan[h].conn \in Conns
    BY <1>t DEF TypeOK
  <2>3. UNCHANGED <<chan, log>>
    BY <1>4 DEF TarpitEnds
  <2>. QED
    BY <1>s, <2>1, <2>2, <2>3 DEF StreamState
<1>5. ASSUME NEW c \in Conns, ValidatePublicKey(c)
      PROVE  StreamState'
  <2> DEFINE a == Happened("auth_attempt", c)
  <2>1. a \in Event /\ a.type = "auth_attempt"
    BY <1>e DEF EventTypes
  <2>2. /\ conn[c].state = "open" /\ conn[c].auth = "idle" /\ log[c] # <<>>
        /\ ~Holds(log[c], "disconnection") /\ WellShaped(log[c]) /\ log[c] \in Seq(Event)
    BY <1>5, <1>s, <1>t DEF ValidatePublicKey, StreamState
  <2>3. /\ log'[c] = Append(log[c], a)
        /\ \A q \in Records \ {c} : log'[q] = log[q]
    BY <1>5, <1>t, <2>1, EmitOne DEF ValidatePublicKey
  <2>. HIDE DEF a
  <2>4. /\ WellShaped(log'[c]) /\ log'[c] # <<>> /\ ~Holds(log'[c], "disconnection")
        /\ (Holds(log[c], "auth_success") => Holds(log'[c], "auth_success"))
    <3>1. WellShaped(Append(log[c], a))
      BY <2>1, <2>2, AppendShaped
    <3>. QED
      BY <2>1, <2>2, <2>3, <3>1, AppendHolds
  <2>5. \A d \in Conns : /\ conn'[d].state = conn[d].state
                         /\ (conn'[d].auth = "done") = (conn[d].auth = "done")
    BY <1>5, <1>t DEF ValidatePublicKey, AuthAfterKey, ConnState
  <2>6. chan' = chan /\ \A h \in Chans : chan[h].state # "none" => chan[h].conn \in Conns
    BY <1>5, <1>t DEF ValidatePublicKey, TypeOK
  <2>. QED
    BY <1>s, <2>2, <2>3, <2>4, <2>5, <2>6 DEF StreamState
<1>6. ASSUME NEW h \in Chans, NEW c \in Conns, OpenShell(h, c)
      PROVE  StreamState'
  <2>1. /\ conn[c].auth = "done" /\ chan'[h].conn = c
        /\ \A g \in Chans \ {h} : chan'[g] = chan[g]
        /\ UNCHANGED <<conn, log>>
    BY <1>6, <1>t DEF OpenShell
  <2>. QED
    BY <1>s, <2>1 DEF StreamState
<1>7. ASSUME NEW h \in Chans, NEW c \in Conns, NEW k \in Kinds,
             OpenExec(h, c, k)
      PROVE  StreamState'
  <2>1. /\ conn[c].auth = "done" /\ chan'[h].conn = c
        /\ \A g \in Chans \ {h} : chan'[g] = chan[g]
        /\ UNCHANGED <<conn, log>>
    BY <1>7, <1>t DEF OpenExec
  <2>. QED
    BY <1>s, <2>1 DEF StreamState
<1>8. ASSUME NEW h \in Chans, NEW k \in Kinds, ReadLine(h, k)
      PROVE  StreamState'
  <2>1. /\ \A g \in Chans : /\ (chan'[g].state = "none") = (chan[g].state = "none")
                            /\ chan'[g].conn = chan[g].conn
        /\ UNCHANGED <<conn, log>>
    BY <1>8, <1>t DEF ReadLine, ChanState
  <2>. QED
    BY <1>s, <2>1 DEF StreamState
<1>9. ASSUME NEW h \in Chans, CommandEnds(h)
      PROVE  StreamState'
  <2> DEFINE c == chan[h].conn
             e == Entry("command", c, chan[h].line, 0)
  <2>1. c \in Conns /\ chan[h].rec = c /\ e \in Event /\ e.type = "command"
    <3>1. c \in Conns /\ chan[h].rec = c /\ chan[h].line \in Kinds
      BY <1>9, <1>t DEF CommandEnds, TypeOK, ChannelsOwn
    <3>2. e \in Event
      BY <3>1, EntryType DEF EventTypes
    <3>. QED
      BY <3>1, <3>2 DEF Entry
  <2>2. /\ log'[c] = Append(log[c], e)
        /\ \A q \in Records \ {c} : log'[q] = log[q]
    BY <1>9, <1>t, <2>1, EmitOne DEF CommandEnds, CommandEvents
  <2>3. /\ conn[c].auth = "done" /\ conn[c].state # "none"
        /\ Holds(log[c], "auth_success") /\ log[c] # <<>>
        /\ log[c] \in Seq(Event) /\ WellShaped(log[c])
    <3>1. conn[c].auth = "done"
      BY <1>9, <1>s DEF StreamState, CommandEnds
    <3>. QED
      BY <1>s, <1>t, <2>1, <3>1 DEF StreamState
  <2>4. \A g \in Chans : /\ (chan'[g].state = "none") = (chan[g].state = "none")
                         /\ chan'[g].conn = chan[g].conn
    BY <1>9, <1>t DEF CommandEnds, ChanState
  <2>5. conn' = conn
    BY <1>9 DEF CommandEnds
  <2>. HIDE DEF c, e
  <2>6. /\ WellShaped(log'[c]) /\ log'[c] # <<>>
        /\ (Holds(log'[c], "disconnection") => Holds(log[c], "disconnection"))
        /\ Holds(log'[c], "auth_success")
    <3>1. WellShaped(Append(log[c], e))
      BY <2>1, <2>3, AppendShaped
    <3>. DEFINE s == log[c]
    <3>2. s \in Seq(Event) /\ Holds(s, "auth_success")
      BY <2>3
    <3>. HIDE DEF s
    <3>3. /\ Append(s, e) # <<>> /\ Holds(Append(s, e), "auth_success")
          /\ Holds(Append(s, e), "disconnection") => Holds(s, "disconnection")
      BY <2>1, <3>2, AppendHolds
    <3>. QED
      BY <2>2, <3>1, <3>3 DEF s
  <2>. QED
    BY <1>s, <2>1, <2>2, <2>3, <2>4, <2>5, <2>6 DEF StreamState
<1>10. ASSUME NEW h \in Chans, EndOfInput(h)
       PROVE  StreamState'
  <2>1. /\ \A g \in Chans : /\ (chan'[g].state = "none") = (chan[g].state = "none")
                            /\ chan'[g].conn = chan[g].conn
        /\ UNCHANGED <<conn, log>>
    BY <1>10, <1>t DEF EndOfInput, ChanState
  <2>. QED
    BY <1>s, <2>1 DEF StreamState
<1>11. ASSUME NEW c \in Conns, ConnectionLost(c)
       PROVE  StreamState'
  <2>1. /\ conn'[c].state = "lost" /\ (conn'[c].auth = "done") = (conn[c].auth = "done")
        /\ \A d \in Conns \ {c} : conn'[d] = conn[d]
    BY <1>11, <1>t DEF ConnectionLost, ConnState
  <2>2. \A g \in Chans : /\ (chan'[g].state = "none") = (chan[g].state = "none")
                         /\ chan'[g].conn = chan[g].conn
    BY <1>11, <1>t DEF ConnectionLost, ChanState
  <2>3. /\ conn[c].state = "open" /\ log[c] # <<>>
        /\ ~Holds(log[c], "disconnection") /\ WellShaped(log[c]) /\ log[c] \in Seq(Event)
    BY <1>11, <1>s, <1>t DEF ConnectionLost, StreamState
  <2>4. /\ WellShaped(log'[c]) /\ log'[c] # <<>>
        /\ (Holds(log[c], "auth_success") => Holds(log'[c], "auth_success"))
        /\ \A q \in Records \ {c} : log'[q] = log[q]
    <3>1. CASE UNCHANGED log
      BY <2>3, <3>1
    <3>2. CASE Emit(c, <<Summary(c)>>)
      <4> DEFINE e == Summary(c)
      <4>1. e \in Event /\ e.type = "disconnection"
        <5>1. record[c].commands \in Nat
          BY <1>t DEF TypeOK, RecordState
        <5>2. e \in Event
          BY <5>1, EntryType DEF Summary, EventTypes
        <5>. QED
          BY <5>2 DEF Summary, Entry
      <4>2. /\ log'[c] = Append(log[c], e)
            /\ \A q \in Records \ {c} : log'[q] = log[q]
        BY <1>t, <3>2, <4>1, EmitOne
      <4>. HIDE DEF e
      <4>3. WellShaped(Append(log[c], e))
        BY <2>3, <4>1, AppendShaped
      <4>. QED
        BY <2>3, <4>1, <4>2, <4>3, AppendHolds
    <3>. QED
      BY <1>11, <3>1, <3>2 DEF ConnectionLost
  <2>5. \A g \in Chans : chan[g].state # "none" => chan[g].conn \in Conns
    BY <1>t DEF TypeOK
  <2>. QED
    BY <1>s, <2>1, <2>2, <2>3, <2>4, <2>5 DEF StreamState
<1>12. CASE Shutdown
  BY <1>12, <1>s DEF Shutdown, StreamState
<1>13. CASE UNCHANGED vars
  BY <1>13, <1>s DEF vars, StreamState
<1>. QED
  BY <1>1, <1>2, <1>3, <1>4, <1>5, <1>6, <1>7, <1>8, <1>9, <1>10, <1>11,
     <1>12, <1>13 DEF Next

(* With one connection per address, every session's log opens with its     *)
(* connection event, only commands follow its disconnection, and commands  *)
(* come after its auth_success.                                            *)
THEOREM SshStreamShape ==
  ASSUME PeerReuse = FALSE
  PROVE  Spec => []StreamShape
<1>1. StreamInv => StreamShape
  <2>1. ASSUME StreamState PROVE StreamShape
    BY <2>1 DEF StreamState, WellShaped, Earlier, StreamShape, Before
  <2>. QED
    BY <2>1 DEF StreamInv
<1>2. StreamInv /\ [Next]_vars => StreamInv'
  BY StreamStep
<1>. QED
  BY <1>1, <1>2, StreamInit, PTL DEF Spec

----------------------------------------------------------------------------
(***************************************************************************)
(* Counting commands.  A record's counter goes up with the channels asleep *)
(* under it, and one of them wakes with each command in its log; this      *)
(* needs no hypothesis about addresses, since a channel keeps its record.  *)
(***************************************************************************)
CommandsIn(s) == {i \in DOMAIN s : s[i].type = "command"}

(* An event adds one command to a log or none. *)
LEMMA AppendCommands ==
  ASSUME NEW s \in Seq(Event), NEW e \in Event
  PROVE  /\ Cardinality(CommandsIn(s)) \in Nat
         /\ Cardinality(CommandsIn(Append(s, e)))
              = Cardinality(CommandsIn(s)) + (IF e.type = "command" THEN 1 ELSE 0)
<1> DEFINE n == Len(s)
           u == Append(s, e)
<1>1. /\ n \in Nat /\ DOMAIN s = 1 .. n /\ DOMAIN u = 1 .. n + 1
      /\ u[n + 1] = e /\ \A i \in 1 .. n : u[i] = s[i]
  OBVIOUS
<1>. HIDE DEF n, u
<1>2. IsFiniteSet(CommandsIn(s)) /\ Cardinality(CommandsIn(s)) \in Nat
  <2>1. IsFiniteSet(1 .. n)
    BY <1>1, FS_Interval
  <2>2. CommandsIn(s) \subseteq 1 .. n
    BY <1>1 DEF CommandsIn
  <2>3. IsFiniteSet(CommandsIn(s))
    BY <2>1, <2>2, FS_Subset
  <2>. QED
    BY <2>3, FS_CardinalityType
<1>3. n + 1 \notin CommandsIn(s)
  BY <1>1 DEF CommandsIn
<1>4. CASE e.type = "command"
  <2>1. CommandsIn(u) = CommandsIn(s) \cup {n + 1}
    BY <1>1, <1>4 DEF CommandsIn
  <2>2. Cardinality(CommandsIn(u)) = Cardinality(CommandsIn(s)) + 1
    BY <1>2, <1>3, <2>1, FS_AddElement
  <2>. QED
    BY <1>2, <1>4, <2>2 DEF u
<1>5. CASE e.type # "command"
  <2>1. CommandsIn(u) = CommandsIn(s)
    BY <1>1, <1>5 DEF CommandsIn
  <2>. QED
    BY <1>2, <1>5, <2>1 DEF u
<1>. QED
  BY <1>4, <1>5

(* The sleepers of a record are finitely many. *)
LEMMA SleepingFinite ==
  ASSUME NEW r
  PROVE  IsFiniteSet(Sleeping(r)) /\ Cardinality(Sleeping(r)) \in Nat
<1>1. Sleeping(r) \subseteq Chans /\ IsFiniteSet(Chans)
  BY SshAssumption DEF Sleeping
<1>2. IsFiniteSet(Sleeping(r))
  BY <1>1, FS_Subset
<1>. QED
  BY <1>2, FS_CardinalityType

(* What the count of a record and of its sleepers become when channel h    *)
(* begins to sleep. *)
LEMMA FallAsleep ==
  ASSUME TypeOK, NEW h \in Chans, NEW r \in Records,
         chan[h].state # "sleeping",
         chan'[h].state = "sleeping", chan'[h].rec = r,
         \A g \in Chans \ {h} : chan'[g] = chan[g]
  PROVE  /\ Cardinality(Sleeping(r)') = Cardinality(Sleeping(r)) + 1
         /\ \A q \in Records \ {r} : Sleeping(q)' = Sleeping(q)
<1>1. h \notin Sleeping(r) /\ Sleeping(r)' = Sleeping(r) \cup {h}
  BY DEF Sleeping
<1>2. Cardinality(Sleeping(r) \cup {h}) = Cardinality(Sleeping(r)) + 1
  BY <1>1, SleepingFinite, FS_AddElement
<1>3. \A q \in Records \ {r} : Sleeping(q)' = Sleeping(q)
  BY DEF Sleeping
<1>. QED
  BY <1>1, <1>2, <1>3

(* And when it wakes. *)
LEMMA WakeUp ==
  ASSUME TypeOK, NEW h \in Chans, NEW r \in Records,
         chan[h].state = "sleeping", chan[h].rec = r,
         chan'[h].state # "sleeping",
         \A g \in Chans \ {h} : chan'[g] = chan[g]
  PROVE  /\ Cardinality(Sleeping(r)') + 1 = Cardinality(Sleeping(r))
         /\ \A q \in Records \ {r} : Sleeping(q)' = Sleeping(q)
<1>1. h \notin Sleeping(r)' /\ Sleeping(r) = Sleeping(r)' \cup {h}
  BY DEF Sleeping
<1>2. IsFiniteSet(Sleeping(r)')
  <2>1. Sleeping(r)' \subseteq Chans /\ IsFiniteSet(Chans)
    BY SshAssumption DEF Sleeping
  <2>. QED
    BY <2>1, FS_Subset
<1>3. Cardinality(Sleeping(r)' \cup {h}) = Cardinality(Sleeping(r)') + 1
  BY <1>1, <1>2, FS_AddElement
<1>4. \A q \in Records \ {r} : Sleeping(q)' = Sleeping(q)
  BY DEF Sleeping
<1>. QED
  BY <1>1, <1>3, <1>4

Balanced(r) ==
  record[r].commands = Cardinality(CommandsIn(log[r])) + Cardinality(Sleeping(r))

CommandInv == TypeOK /\ (up => \A r \in Records : Balanced(r))

(* Nothing that counts changes for a record. *)
LEMMA BalanceKept ==
  ASSUME NEW r \in Records, Balanced(r),
         record'[r].commands = record[r].commands,
         Cardinality(CommandsIn(log'[r])) = Cardinality(CommandsIn(log[r])),
         Sleeping(r)' = Sleeping(r)
  PROVE  Balanced(r)'
BY DEF Balanced

(* No command is recorded, logged or asleep at the start. *)
LEMMA CommandInit == Init => CommandInv
<1> SUFFICES ASSUME Init, NEW r \in Records PROVE Balanced(r)
  BY TypeInit DEF CommandInv
<1>1. CommandsIn(log[r]) = {}
  <2>1. log[r] = <<>>
    BY DEF Init
  <2>. QED
    BY <2>1 DEF CommandsIn
<1>2. Sleeping(r) = {}
  BY DEF Init, Sleeping
<1>3. record[r].commands = 0
  BY DEF Init, FreshRecord
<1>. QED
  BY <1>1, <1>2, <1>3, FS_EmptySet DEF Balanced

(* A command that is recorded sleeps, one that wakes is logged. *)
LEMMA CommandStep == CommandInv /\ [Next]_vars => CommandInv'
<1> SUFFICES ASSUME CommandInv, [Next]_vars, up', NEW r \in Records
             PROVE  Balanced(r)'
  BY TypeStep DEF CommandInv
<1>u. up
  BY DEF Next, vars, ConnectionMade, BeginAuth, ValidatePassword, TarpitEnds,
         ValidatePublicKey, OpenShell, OpenExec, ReadLine, CommandEnds, EndOfInput,
         ConnectionLost, Shutdown
<1>b. Balanced(r)
  BY <1>u DEF CommandInv
<1>t. /\ TypeOK /\ log \in [Records -> Seq(Event)]
      /\ record \in [Records -> RecordState] /\ chan \in [Chans -> ChanState]
  BY DEF CommandInv, TypeOK
<1>e. \A c \in Conns, t \in EventTypes : Happened(t, c) \in Event /\ Happened(t, c).type = t
  BY HappenedType DEF Happened, Entry
<1>n. \A e \in Event : \A q \in Records :
        Emit(q, <<e>>) /\ e.type # "command"
          => Cardinality(CommandsIn(log'[r])) = Cardinality(CommandsIn(log[r]))
  <2> SUFFICES ASSUME NEW e \in Event, NEW q \in Records, Emit(q, <<e>>),
                      e.type # "command"
               PROVE  Cardinality(CommandsIn(log'[r])) = Cardinality(CommandsIn(log[r]))
    OBVIOUS
  <2>1. CASE q = r
    <3>1. log'[r] = Append(log[r], e) /\ log[r] \in Seq(Event)
      BY <1>t, <2>1, EmitOne
    <3>. QED
      BY <3>1, AppendCommands
  <2>2. CASE q # r
    BY <1>t, <2>2, EmitOne
  <2>. QED
    BY <2>1, <2>2
<1>1. ASSUME NEW c \in Conns, NEW p \in Peers, NEW l \in Listeners,
             ConnectionMade(c, p, l)
      PROVE  Balanced(r)'
  <2>1. Cardinality(CommandsIn(log'[r])) = Cardinality(CommandsIn(log[r]))
    BY <1>1, <1>e, <1>n DEF ConnectionMade, EventTypes
  <2>2. UNCHANGED <<record, chan>> /\ Sleeping(r)' = Sleeping(r)
    BY <1>1 DEF ConnectionMade, Sleeping
  <2>. QED
    BY <1>b, <2>1, <2>2, BalanceKept
<1>2. ASSUME NEW c \in Conns, NEW u \in Logins, BeginAuth(c, u)
      PROVE  Balanced(r)'
  <2>1. record'[r].commands = record[r].commands
    BY <1>2, <1>t DEF BeginAuth, RecordState
  <2>2. UNCHANGED <<log, chan>> /\ Sleeping(r)' = Sleeping(r)
    BY <1>2 DEF BeginAuth, Sleeping
  <2>. QED
    BY <1>b, <2>1, <2>2, BalanceKept
<1>3. ASSUME NEW c \in Conns, NEW p \in Passwords, ValidatePassword(c, p)
      PROVE  Balanced(r)'
  <2> DEFINE a == Happened("auth_attempt", c)
             b == Happened("auth_success", c)
  <2>1. a \in Event /\ a.type = "auth_attempt" /\ b \in Event /\ b.type = "auth_success"
    BY <1>e DEF EventTypes
  <2>2. chan' = chan /\ Sleeping(r)' = Sleeping(r)
    BY <1>3 DEF ValidatePassword, Sleeping
  <2>3. record'[r].commands = record[r].commands
    <3>1. record' = record \/ record' = [record EXCEPT ![c].authenticated = TRUE]
      BY <1>3 DEF ValidatePassword
    <3>2. record[r] \in RecordState
      BY <1>t
    <3>3. record'[r] = record[r] \/ record'[r] = [record[r] EXCEPT !.authenticated = TRUE]
      BY <1>t, <3>1
    <3>. QED
      BY <3>2, <3>3 DEF RecordState
  <2>4. Emit(c, <<a, b>>) \/ Emit(c, <<a>>)
    BY <1>3 DEF ValidatePassword
  <2>. HIDE DEF a, b
  <2>5. CASE Emit(c, <<a>>)
    BY <1>b, <1>n, <2>1, <2>2, <2>3, <2>5, BalanceKept
  <2>6. CASE Emit(c, <<a, b>>)
    <3>1. /\ log'[c] = Append(Append(log[c], a), b)
          /\ \A q \in Records \ {c} : log'[q] = log[q]
      BY <1>t, <2>1, <2>6, EmitTwo
    <3>2. Cardinality(CommandsIn(log'[r])) = Cardinality(CommandsIn(log[r]))
      <4>1. CASE r = c
        <5> DEFINE s == Append(log[c], a)
        <5>1. s \in Seq(Event)
              /\ Cardinality(CommandsIn(s)) = Cardinality(CommandsIn(log[c]))
          BY <1>t, <2>1, AppendCommands, AppendHolds
        <5>2. log'[c] = Append(s, b)
          BY <3>1
        <5>. HIDE DEF s
        <5>3. Cardinality(CommandsIn(Append(s, b))) = Cardinality(CommandsIn(s))
          BY <2>1, <5>1, AppendCommands
        <5>. QED
          BY <4>1, <5>1, <5>2, <5>3
      <4>2. CASE r # c
        BY <3>1, <4>2
      <4>. QED
        BY <4>1, <4>2
    <3>. QED
      BY <1>b, <2>2, <2>3, <3>2, BalanceKept
  <2>. QED
    BY <2>4, <2>5, <2>6
<1>4. ASSUME NEW c \in Conns, TarpitEnds(c)
      PROVE  Balanced(r)'
  BY <1>4, <1>b DEF TarpitEnds, Balanced, Sleeping
<1>5. ASSUME NEW c \in Conns, ValidatePublicKey(c)
      PROVE  Balanced(r)'
  <2>1. Cardinality(CommandsIn(log'[r])) = Cardinality(CommandsIn(log[r]))
    BY <1>5, <1>e, <1>n DEF ValidatePublicKey, EventTypes
  <2>2. UNCHANGED <<record, chan>> /\ Sleeping(r)' = Sleeping(r)
    BY <1>5 DEF ValidatePublicKey, Sleeping
  <2>. QED
    BY <1>b, <2>1, <2>2, BalanceKept
<1>6. ASSUME NEW h \in Chans, NEW c \in Conns, OpenShell(h, c)
      PROVE  Balanced(r)'
  <2>1. Sleeping(r)' = Sleeping(r)
    BY <1>6, <1>t DEF OpenShell, Sleeping
  <2>2. UNCHANGED <<record, log>>
    BY <1>6 DEF OpenShell
  <2>. QED
    BY <1>b, <2>1, <2>2, BalanceKept
<1>7. ASSUME NEW h \in Chans, NEW c \in Conns, NEW k \in Kinds,
             OpenExec(h, c, k)
      PROVE  Balanced(r)'
  <2>1. PICK q \in Records : q = SessionOf(h, c)
    BY <1>7, <1>t, SessionOfType DEF OpenExec
  <2>2. /\ chan[h].state = "none" /\ chan'[h].state = "sleeping" /\ chan'[h].rec = q
        /\ \A g \in Chans \ {h} : chan'[g] = chan[g]
        /\ log' = log
    BY <1>7, <1>t, <2>1 DEF OpenExec
  <2>3. /\ record'[q].commands = record[q].commands + 1
        /\ \A p \in Records \ {q} : record'[p] = record[p]
    <3>1. record' = [record EXCEPT ![q].interactive = FALSE, ![q].commands = @ + 1]
      BY <1>7, <2>1 DEF OpenExec
    <3>2. record[q] \in RecordState
      BY <1>t
    <3>. QED
      BY <1>t, <3>1, <3>2 DEF RecordState
  <2>4. /\ Cardinality(Sleeping(q)') = Cardinality(Sleeping(q)) + 1
        /\ \A p \in Records \ {q} : Sleeping(p)' = Sleeping(p)
    BY <1>t, <2>1, <2>2, FallAsleep
  <2>5. CASE r = q
    <3>1. Cardinality(CommandsIn(log[q])) \in Nat /\ Cardinality(Sleeping(q)) \in Nat
      <4>1. \E e : e \in Event
        BY <1>7, <1>e DEF EventTypes
      <4>. QED
        BY <1>t, <2>1, <4>1, AppendCommands, SleepingFinite
    <3>. QED
      BY <1>b, <2>2, <2>3, <2>4, <2>5, <3>1 DEF Balanced
  <2>6. CASE r # q
    BY <1>b, <2>2, <2>3, <2>4, <2>6, BalanceKept
  <2>. QED
    BY <2>5, <2>6
<1>8. ASSUME NEW h \in Chans, NEW k \in Kinds, ReadLine(h, k)
      PROVE  Balanced(r)'
  <2>0. PICK q \in Records : q = chan[h].rec
    BY <1>8, <1>t DEF ReadLine, TypeOK
  <2>1. chan[h].state = "reading" /\ chan[h].conn \in Conns
    BY <1>8, <1>t DEF ReadLine, TypeOK
  <2>2. /\ chan'[h].state = "sleeping" /\ chan'[h].rec = q
        /\ \A g \in Chans \ {h} : chan'[g] = chan[g]
        /\ log' = log
    BY <1>8, <1>t, <2>0 DEF ReadLine, ChanState
  <2>3. /\ record'[q].commands = record[q].commands + 1
        /\ \A p \in Records \ {q} : record'[p] = record[p]
    <3>1. record' = [record EXCEPT ![q].commands = @ + 1]
      BY <1>8, <2>0 DEF ReadLine
    <3>2. record[q] \in RecordState
      BY <1>t
    <3>. QED
      BY <1>t, <3>1, <3>2 DEF RecordState
  <2>4. /\ Cardinality(Sleeping(q)') = Cardinality(Sleeping(q)) + 1
        /\ \A p \in Records \ {q} : Sleeping(p)' = Sleeping(p)
    BY <1>t, <2>1, <2>2, FallAsleep
  <2>5. CASE r = q
    <3>1. Cardinality(CommandsIn(log[q])) \in Nat /\ Cardinality(Sleeping(q)) \in Nat
      <4>1. \E e : e \in Event
        BY <2>1, <1>e DEF EventTypes
      <4>. QED
        BY <1>t, <2>1, <4>1, AppendCommands, SleepingFinite
    <3>. QED
      BY <1>b, <2>2, <2>3, <2>4, <2>5, <3>1 DEF Balanced
  <2>6. CASE r # q
    BY <1>b, <2>2, <2>3, <2>4, <2>6, BalanceKept
  <2>. QED
    BY <2>5, <2>6
<1>9. ASSUME NEW h \in Chans, CommandEnds(h)
      PROVE  Balanced(r)'
  <2>0. PICK q \in Records : q = chan[h].rec
    BY <1>9, <1>t DEF CommandEnds, TypeOK
  <2> DEFINE e == Entry("command", chan[h].conn, chan[h].line, 0)
  <2>1. chan[h].state = "sleeping" /\ e \in Event /\ e.type = "command"
    <3>1. chan[h].conn \in Conns /\ chan[h].line \in Kinds
      BY <1>9, <1>t DEF CommandEnds, TypeOK
    <3>2. e \in Event
      BY <3>1, EntryType DEF EventTypes
    <3>. QED
      BY <1>9, <3>1, <3>2 DEF Entry, CommandEnds
  <2>2. /\ log'[q] = Append(log[q], e)
        /\ \A p \in Records \ {q} : log'[p] = log[p]
    BY <1>9, <1>t, <2>0, <2>1, EmitOne DEF CommandEnds, CommandEvents
  <2>3. /\ chan'[h].state # "sleeping"
        /\ \A g \in Chans \ {h} : chan'[g] = chan[g]
        /\ record' = record
    BY <1>9, <1>t DEF CommandEnds, ChanState
  <2>. HIDE DEF e
  <2>4. /\ Cardinality(Sleeping(q)') + 1 = Cardinality(Sleeping(q))
        /\ \A p \in Records \ {q} : Sleeping(p)' = Sleeping(p)
    BY <1>t, <2>0, <2>1, <2>3, WakeUp
  <2>5. Cardinality(Sleeping(q)') \in Nat
    <3>1. Sleeping(q)' \subseteq Chans /\ IsFiniteSet(Chans)
      BY SshAssumption DEF Sleeping
    <3>. QED
      BY <3>1, FS_Subset, FS_CardinalityType
  <2>6. CASE r = q
    <3>1. /\ Cardinality(CommandsIn(log[q])) \in Nat
          /\ Cardinality(CommandsIn(log'[q])) = Cardinality(CommandsIn(log[q])) + 1
      BY <1>t, <2>1, <2>2, AppendCommands
    <3>. QED
      BY <1>b, <2>3, <2>4, <2>5, <2>6, <3>1 DEF Balanced
  <2>7. CASE r # q
    BY <1>b, <2>2, <2>3, <2>4, <2>7, BalanceKept
  <2>. QED
    BY <2>6, <2>7
<1>10. ASSUME NEW h \in Chans, EndOfInput(h)
       PROVE  Balanced(r)'
  <2>1. Sleeping(r)' = Sleeping(r)
    BY <1>10, <1>t DEF EndOfInput, Sleeping, ChanState
  <2>2. UNCHANGED <<record, log>>
    BY <1>10 DEF EndOfInput
  <2>. QED
    BY <1>b, <2>1, <2>2, BalanceKept
<1>11. ASSUME NEW c \in Conns, ConnectionLost(c)
       PROVE  Balanced(r)'
  <2>1. Sleeping(r)' = Sleeping(r)
    BY <1>11, <1>t DEF ConnectionLost, Sleeping, ChanState
  <2>2. record'[r].commands = record[r].commands
    <3>1. record' = record \/ record' = [record EXCEPT ![c].summary = TRUE]
      BY <1>11 DEF ConnectionLost
    <3>2. record[r] \in RecordState
      BY <1>t
    <3>3. record'[r] = record[r] \/ record'[r] = [record[r] EXCEPT !.summary = TRUE]
      BY <1>t, <3>1
    <3>. QED
      BY <3>2, <3>3 DEF RecordState
  <2>3. Cardinality(CommandsIn(log'[r])) = Cardinality(CommandsIn(log[r]))
    <3>1. CASE UNCHANGED log
      BY <3>1
    <3>2. CASE Emit(c, <<Summary(c)>>)
      <4> DEFINE e == Summary(c)
      <4>1. e \in Event /\ e.type = "disconnection"
        <5>1. record[c].commands \in Nat
          BY <1>t DEF RecordState
        <5>2. e \in Event
          BY <5>1, EntryType DEF Summary, EventTypes
        <5>. QED
          BY <5>2 DEF Summary, Entry
      <4>. HIDE DEF e
      <4>2. Emit(c, <<e>>)
        BY <3>2 DEF e
      <4>. QED
        BY <1>n, <4>1, <4>2
    <3>. QED
      BY <1>11, <3>1, <3>2 DEF ConnectionLost
  <2>. QED
    BY <1>b, <2>1, <2>2, <2>3, BalanceKept
<1>12. CASE Shutdown
  BY <1>12 DEF Shutdown
<1>13. CASE UNCHANGED vars
  BY <1>13, <1>b DEF vars, Balanced, Sleeping
<1>. QED
  BY <1>1, <1>2, <1>3, <1>4, <1>5, <1>6, <1>7, <1>8, <1>9, <1>10, <1>11,
     <1>12, <1>13 DEF Next

(* While the process runs, what a session's profiler has counted is what   *)
(* is in its log or asleep: _handle_command neither loses a command nor    *)
(* logs it twice, in any interleaving of any number of channels.           *)
THEOREM SshNoCommandLost == Spec => []NoCommandLost
<1>1. CommandInv => NoCommandLost
  BY DEF CommandInv, Balanced, CommandsIn, Logged, NoCommandLost
<1>. QED
  BY <1>1, CommandInit, CommandStep, PTL DEF Spec

============================================================================
