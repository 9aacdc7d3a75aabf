------------------------------ MODULE FtpProofs ------------------------------
(* Proofs about FtpSessions, for any connections, credentials and command  *)
(* lines.                                                                  *)
EXTENDS FtpSessions, SequenceFacts, TLAPS

(***************************************************************************)
(* FTP: events, and how a callback writes them.                            *)
(***************************************************************************)
(* The events of the honeypot are events. *)
LEMMA EventTypes ==
  ASSUME TypeOK
  PROVE  /\ Entry("connection") \in Event /\ Entry("file_download") \in Event
         /\ \A pair \in Pairs : Attempt(pair) \in Event /\ Success(pair) \in Event
         /\ \A line \in Lines : CommandEvent(line) \in Event
         /\ \A c \in Conns : Summary(c) \in Event
<1>1. \A c \in Conns : Summary(c) \in Event
  <2>1. \A c \in Conns : profiler[c].commands \in Nat /\ profiler[c].recon \in Nat
    BY DEF TypeOK
  <2>. QED
    BY <2>1 DEF Summary, SessionClass, Entry, Event
<1>2. \A line \in Lines : CommandEvent(line) \in Event
  <2>1. \A line \in Lines : strip(line) \in CommandLines
    BY FtpAssumption DEF strip, CommandLines
  <2>. QED
    BY <2>1 DEF CommandEvent, Entry, Event
<1>3. \A pair \in Pairs : Attempt(pair) \in Event /\ Success(pair) \in Event
  BY DEF Attempt, Success, Entry, Event
<1>. QED
  BY <1>1, <1>2, <1>3 DEF Entry, Event

(* What the events of the honeypot are told apart by. *)
LEMMA EventFields ==
  /\ \A type \in {"connection", "file_download"} : Entry(type).type = type
  /\ \A pair \in Pairs :
       /\ Attempt(pair).type = "auth_attempt" /\ Attempt(pair).creds = pair
       /\ Success(pair).type = "auth_success" /\ Success(pair).creds = pair
       /\ Success(pair).class =
            (IF IsSshCredential(pair) THEN "CREDENTIAL_STUFFING" ELSE "")
  /\ \A line \in Lines :
       /\ CommandEvent(line).type = "command" /\ CommandEvent(line).line = strip(line)
       /\ CommandEvent(line).class = (IF IsRecon(line) THEN "RECON" ELSE "")
  /\ \A c \in Conns :
       /\ Summary(c).type = "disconnection" /\ Summary(c).count = profiler[c].commands
       /\ Summary(c).class = SessionClass(profiler[c].commands, profiler[c].recon)
BY DEF Entry, Attempt, Success, CommandEvent, Summary

(* A callback with one event writes it or is interrupted. *)
LEMMA EmitOne ==
  ASSUME TypeOK, NEW c \in Conns, NEW e \in Event, Emit(c, <<e>>)
  PROVE  \/ log' = [log EXCEPT ![c] = Append(log[c], e)] /\ up' = up
         \/ log' = log /\ up' = FALSE
<1>1. log \in [Conns -> Seq(Event)] /\ log[c] \in Seq(Event)
  BY DEF TypeOK
<1>2. CASE Whole(c, <<e>>)
  <2>1. log[c] \o <<e>> = Append(log[c], e)
    BY <1>1
  <2>. QED
    BY <1>2, <2>1 DEF Whole
<1>3. CASE Interrupted(c, <<e>>)
  <2>1. PICK n \in 0 .. Len(<<e>>) - 1 : log' = [log EXCEPT ![c] = @ \o SubSeq(<<e>>, 1, n)]
    BY <1>3 DEF Interrupted
  <2>2. n = 0 /\ SubSeq(<<e>>, 1, 0) = <<>>
    OBVIOUS
  <2>3. log[c] \o <<>> = log[c]
    BY <1>1
  <2>. QED
    BY <1>1, <1>3, <2>1, <2>2, <2>3 DEF Interrupted
<1>. QED
  BY <1>2, <1>3 DEF Emit

(* One with two writes both, the first or none. *)
LEMMA EmitTwo ==
  ASSUME TypeOK, NEW c \in Conns, NEW a \in Event, NEW b \in Event, Emit(c, <<a, b>>)
  PROVE  \/ log' = [log EXCEPT ![c] = Append(Append(log[c], a), b)] /\ up' = up
         \/ log' = [log EXCEPT ![c] = Append(log[c], a)] /\ up' = FALSE
         \/ log' = log /\ up' = FALSE
<1>1. log \in [Conns -> Seq(Event)] /\ log[c] \in Seq(Event)
  BY DEF TypeOK
<1>2. CASE Whole(c, <<a, b>>)
  <2>1. log[c] \o <<a, b>> = Append(Append(log[c], a), b)
    BY <1>1
  <2>. QED
    BY <1>2, <2>1 DEF Whole
<1>3. CASE Interrupted(c, <<a, b>>)
  <2>1. PICK n \in 0 .. Len(<<a, b>>) - 1 :
          log' = [log EXCEPT ![c] = @ \o SubSeq(<<a, b>>, 1, n)]
    BY <1>3 DEF Interrupted
  <2>2. n = 0 \/ n = 1
    OBVIOUS
  <2>3. /\ log[c] \o SubSeq(<<a, b>>, 1, 0) = log[c]
        /\ log[c] \o SubSeq(<<a, b>>, 1, 1) = Append(log[c], a)
    BY <1>1
  <2>. QED
    BY <1>1, <1>3, <2>1, <2>2, <2>3 DEF Interrupted
<1>. QED
  BY <1>2, <1>3 DEF Emit

(***************************************************************************)
(* FTP: types.                                                             *)
(***************************************************************************)
(* The events a step writes keep the types of up and log. *)
LEMMA EmitTypes ==
  ASSUME TypeOK, NEW c \in Conns
  PROVE  /\ \A e \in Event :
              Emit(c, <<e>>) => up' \in BOOLEAN /\ log' \in [Conns -> Seq(Event)]
         /\ \A a, b \in Event :
              Emit(c, <<a, b>>) => up' \in BOOLEAN /\ log' \in [Conns -> Seq(Event)]
<1>1. up \in BOOLEAN /\ log \in [Conns -> Seq(Event)] /\ log[c] \in Seq(Event)
  BY DEF TypeOK
<1>2. \A a, b \in Event : /\ Append(log[c], a) \in Seq(Event)
                          /\ Append(Append(log[c], a), b) \in Seq(Event)
  BY <1>1
<1>. QED
  BY <1>1, <1>2, EmitOne, EmitTwo

LEMMA FtpTypeInit == Init => TypeOK
<1>1. <<>> \in Seq(Pairs) /\ <<>> \in Seq(Event)
  OBVIOUS
<1>. QED
  BY <1>1 DEF Init, TypeOK

LEMMA FtpTypeStep == TypeOK /\ [Next]_vars => TypeOK'
<1> SUFFICES ASSUME TypeOK, [Next]_vars PROVE TypeOK'
  OBVIOUS
<1> USE DEF TypeOK
<1>1. ASSUME NEW c \in Conns, Connect(c) PROVE TypeOK'
  BY <1>1, EventTypes, EmitTypes DEF Connect
<1>2. ASSUME NEW c \in Conns, Refuse(c) PROVE TypeOK'
  BY <1>2 DEF Refuse
<1>3. ASSUME NEW c \in Conns, Relogin(c) PROVE TypeOK'
  BY <1>3 DEF Relogin
<1>4. ASSUME NEW c \in Conns, LoginFailed(c) PROVE TypeOK'
  <2>1. failing[c] \in Seq(Pairs) /\ failing[c] # <<>>
    BY <1>4 DEF LoginFailed
  <2>2. Head(failing[c]) \in Pairs /\ Tail(failing[c]) \in Seq(Pairs)
    BY <2>1
  <2>3. up' \in BOOLEAN /\ log' \in [Conns -> Seq(Event)]
    BY <1>4, <2>2, EventTypes, EmitTypes DEF LoginFailed
  <2>. QED
    BY <1>4, <2>2, <2>3 DEF LoginFailed
<1>5. ASSUME NEW c \in Conns, FileSent(c) PROVE TypeOK'
  BY <1>5, EventTypes, EmitTypes DEF FileSent
<1>6. ASSUME NEW c \in Conns, TransferAborted(c) PROVE TypeOK'
  BY <1>6 DEF TransferAborted
<1>7. ASSUME NEW c \in Conns, Close(c) PROVE TypeOK'
  BY <1>7 DEF Close
<1>8. ASSUME NEW c \in Conns, Disconnected(c) PROVE TypeOK'
  BY <1>8, EventTypes, EmitTypes DEF Disconnected
<1>9. ASSUME NEW c \in Conns, RefusedGone(c) PROVE TypeOK'
  BY <1>9 DEF RefusedGone
<1>10. ASSUME NEW c \in Conns, NEW pair \in Pairs, Pass(c, pair) PROVE TypeOK'
  <2>1. CASE Login(c, pair)
    <3>1. up' \in BOOLEAN /\ log' \in [Conns -> Seq(Event)]
      BY <2>1, EventTypes, EmitTypes DEF Login
    <3>. QED
      BY <1>10, <2>1, <3>1 DEF Pass, Login
  <2>2. CASE Refusal(c, pair)
    <3>1. Append(failing[c], pair) \in Seq(Pairs)
      OBVIOUS
    <3>. QED
      BY <1>10, <2>2, <3>1 DEF Pass, Refusal
  <2>. QED
    BY <1>10, <2>1, <2>2 DEF Pass
<1>11. ASSUME NEW c \in Conns, NEW line \in Lines, Command(c, line) PROVE TypeOK'
  <2>1. up' \in BOOLEAN /\ log' \in [Conns -> Seq(Event)]
    BY <1>11, EventTypes, EmitTypes DEF Command, Emit
  <2>2. /\ Recorded(c, line) \in [commands : Nat, recon : Nat]
        /\ Recorded(c, line).recon <= Recorded(c, line).commands
    BY DEF Recorded
  <2>3. /\ profiler' \in [Conns -> [commands : Nat, recon : Nat]]
        /\ \A d \in Conns : profiler'[d].recon <= profiler'[d].commands
    BY <1>11, <2>2 DEF Command
  <2>4. transfer' \in [Conns -> BOOLEAN]
    BY <1>11 DEF Command, MaySend
  <2>. QED
    BY <1>11, <2>1, <2>3, <2>4 DEF Command
<1>12. CASE Stop
  BY <1>12 DEF Stop
<1>13. CASE UNCHANGED vars
  BY <1>13 DEF vars
<1>. QED
  BY <1>1, <1>2, <1>3, <1>4, <1>5, <1>6, <1>7, <1>8, <1>9, <1>10, <1>11, <1>12, <1>13 DEF Next

(* The variables of the FTP honeypot always have their types, and no more  *)
(* commands count as reconnaissance than were recorded.                    *)
THEOREM FtpTyped == Spec => []TypeOK
<1>. QED
  BY FtpTypeInit, FtpTypeStep, PTL DEF Spec

(***************************************************************************)
(* FTP: the shape of a session's log.  A session writes nothing before it  *)
(* is opened, and its disconnection only when it is over; while the        *)
(* process runs, what was opened has a connection event.                   *)
(***************************************************************************)
Stage(c) ==
  /\ phase[c] \in {"none", "refused", "refused_gone"} => log[c] = <<>> /\ failing[c] = <<>>
  /\ up /\ phase[c] \in {"open", "closing", "gone"} => log[c] # <<>>
  /\ up /\ transfer[c] => phase[c] = "open"
  /\ summary[c] <=> phase[c] = "gone"
  /\ \A i \in DOMAIN log[c] : log[c][i].type = "disconnection" => summary[c]

(* StreamShape of one log. *)
Shaped(s, running) ==
  \A i \in DOMAIN s :
    /\ s[i].type = "connection" => i = 1
    /\ i = 1 => s[i].type = "connection" \/ (~running /\ s[i].type = "disconnection")
    /\ \A j \in 1 .. i - 1 : s[j].type = "disconnection" => s[i].type = "auth_attempt"
    /\ s[i].type = "auth_success" => i > 1 /\ s[i - 1] = Attempt(s[i].creds)

ShapeInv == TypeOK /\ \A c \in Conns : Stage(c) /\ Shaped(log[c], up)

(* The event e may follow the log s. *)
Follows(e, s, running) ==
  /\ e.type = "connection" => s = <<>>
  /\ s = <<>> => e.type = "connection" \/ (~running /\ e.type = "disconnection")
  /\ (\E j \in DOMAIN s : s[j].type = "disconnection") => e.type = "auth_attempt"
  /\ e.type = "auth_success" => s # <<>> /\ s[Len(s)] = Attempt(e.creds)

(* An event that may follow a log leaves it in shape. *)
LEMMA ShapedAppend ==
  ASSUME NEW s \in Seq(Event), NEW e \in Event, NEW running \in BOOLEAN,
         Shaped(s, running), Follows(e, s, running)
  PROVE  Shaped(Append(s, e), running)
<1> DEFINE t == Append(s, e)
           n == Len(s)
<1>1. /\ n \in Nat /\ DOMAIN s = 1 .. n /\ DOMAIN t = 1 .. n + 1 /\ t[n + 1] = e
      /\ \A i \in DOMAIN s : t[i] = s[i]
      /\ n = 0 <=> s = <<>>
  BY AppendEvent
<1>. HIDE DEF t
<1> SUFFICES ASSUME NEW i \in DOMAIN t
             PROVE  /\ t[i].type = "connection" => i = 1
                    /\ i = 1 => \/ t[i].type = "connection"
                                \/ ~running /\ t[i].type = "disconnection"
                    /\ \A j \in 1 .. i - 1 :
                         t[j].type = "disconnection" => t[i].type = "auth_attempt"
                    /\ t[i].type = "auth_success" => i > 1 /\ t[i - 1] = Attempt(t[i].creds)
  BY DEF Shaped, t
<1>2. CASE i \in DOMAIN s
  <2>1. \A j \in 1 .. i - 1 : j \in DOMAIN s /\ t[j] = s[j]
    BY <1>1, <1>2
  <2>2. i > 1 => t[i - 1] = s[i - 1]
    BY <1>1, <1>2
  <2>. QED
    BY <1>1, <1>2, <2>1, <2>2 DEF Shaped
<1>3. CASE i = n + 1
  <2>1. \A j \in 1 .. i - 1 : j \in DOMAIN s /\ t[j] = s[j]
    BY <1>1, <1>3
  <2>2. s # <<>> => i > 1 /\ i - 1 = n /\ t[i - 1] = s[n]
    BY <1>1, <1>3
  <2>3. i = 1 <=> s = <<>>
    BY <1>1, <1>3
  <2>. QED
    BY <1>1, <1>3, <2>1, <2>2, <2>3 DEF Follows
<1>. QED
  BY <1>1, <1>2, <1>3

(* So it is when the process stops. *)
LEMMA ShapedStopped ==
  ASSUME NEW s, Shaped(s, TRUE)
  PROVE  Shaped(s, FALSE)
BY DEF Shaped

(* A session nothing happened to, while the process went on or stopped. *)
LEMMA ShapeUntouched ==
  ASSUME ShapeInv, TypeOK', NEW c \in Conns, up' => up,
         phase'[c] = phase[c], failing'[c] = failing[c], transfer'[c] = transfer[c],
         summary'[c] = summary[c], log'[c] = log[c]
  PROVE  (Stage(c) /\ Shaped(log[c], up))'
<1>1. Stage(c) /\ Shaped(log[c], up) /\ up \in BOOLEAN /\ up' \in BOOLEAN
  BY DEF ShapeInv, TypeOK
<1>2. Stage(c)'
  BY <1>1 DEF Stage
<1>3. Shaped(log[c], up')
  BY <1>1, ShapedStopped
<1>4. Shaped(log'[c], up')
  BY <1>3
<1>. QED
  BY <1>2, <1>4

(* A session that wrote an event: of what it wrote before, nothing says it *)
(* is over, unless it is and this is a late auth_attempt.                  *)
LEMMA StageAppend ==
  ASSUME TypeOK, NEW c \in Conns, Stage(c), NEW e \in Event,
         log'[c] = Append(log[c], e),
         e.type = "disconnection" => summary'[c], summary[c] => summary'[c]
  PROVE  /\ log'[c] # <<>>
         /\ \A i \in DOMAIN log'[c] : log'[c][i].type = "disconnection" => summary'[c]
<1>1. log[c] \in Seq(Event)
  BY DEF TypeOK
<1>2. /\ \A i \in DOMAIN log'[c] : i \in DOMAIN log[c] \/ i = Len(log[c]) + 1
      /\ \A i \in DOMAIN log[c] : log'[c][i] = log[c][i]
      /\ log'[c][Len(log[c]) + 1] = e
      /\ log'[c] # <<>>
  BY <1>1, AppendEvent
<1>. QED
  BY <1>2 DEF Stage

LEMMA ShapeInit == Init => ShapeInv
<1> SUFFICES ASSUME Init PROVE ShapeInv
  OBVIOUS
<1>1. \A c \in Conns : log[c] = <<>> /\ failing[c] = <<>>
                       /\ phase[c] = "none" /\ ~transfer[c] /\ ~summary[c]
  BY DEF Init
<1>2. DOMAIN <<>> = {}
  OBVIOUS
<1>. QED
  BY <1>1, <1>2, FtpTypeInit DEF ShapeInv, Stage, Shaped

LEMMA ShapeStep == ShapeInv /\ [Next]_vars => ShapeInv'
<1> SUFFICES ASSUME ShapeInv, [Next]_vars PROVE ShapeInv'
  OBVIOUS
<1>t. TypeOK /\ TypeOK'
  BY FtpTypeStep DEF ShapeInv
<1>s. ASSUME NEW c \in Conns
      PROVE  Stage(c) /\ Shaped(log[c], up) /\ log[c] \in Seq(Event) /\ up \in BOOLEAN
  BY DEF ShapeInv, TypeOK
(* Only the session of the callback needs to be looked at. *)
<1>o. ASSUME NEW c \in Conns, (Stage(c) /\ Shaped(log[c], up))', up' => up,
             \A d \in Conns \ {c} :
               /\ phase'[d] = phase[d] /\ failing'[d] = failing[d]
               /\ transfer'[d] = transfer[d]
               /\ summary'[d] = summary[d] /\ log'[d] = log[d]
      PROVE  ShapeInv'
  <2>1. \A d \in Conns \ {c} : (Stage(d) /\ Shaped(log[d], up))'
    BY <1>t, <1>o, ShapeUntouched
  <2>. QED
    BY <1>t, <1>o, <2>1 DEF ShapeInv
(* What it wrote, if anything, has to follow its log. *)
<1>a. ASSUME NEW c \in Conns, NEW e \in Event,
             \/ log' = [log EXCEPT ![c] = Append(log[c], e)] /\ up' = up
             \/ log' = log /\ up' = FALSE,
             Follows(e, log[c], up)
      PROVE  /\ Shaped(log'[c], up') /\ (up' => up)
             /\ \A d \in Conns \ {c} : log'[d] = log[d]
             /\ \/ log'[c] = Append(log[c], e)
                \/ log'[c] = log[c] /\ up' = FALSE
  <2>1. \A d \in Conns \ {c} : log'[d] = log[d]
    BY <1>a, <1>t DEF TypeOK
  <2>2. CASE log' = [log EXCEPT ![c] = Append(log[c], e)] /\ up' = up
    <3>1. log'[c] = Append(log[c], e)
      BY <2>2, <1>t DEF TypeOK
    <3>2. Shaped(Append(log[c], e), up)
      BY <1>a, <1>s, ShapedAppend
    <3>. QED
      BY <2>1, <2>2, <3>1, <3>2
  <2>3. CASE log' = log /\ up' = FALSE
    BY <1>s, <2>1, <2>3, ShapedStopped
  <2>. QED
    BY <1>a, <2>2, <2>3
<1>1. ASSUME NEW c \in Conns, Connect(c) PROVE ShapeInv'
  <2> DEFINE e == Entry("connection")
  <2>1. e \in Event /\ e.type = "connection"
    BY <1>t, EventTypes, EventFields
  <2>2. Emit(c, <<e>>) /\ phase[c] = "none"
        /\ phase' = [phase EXCEPT ![c] = "open"] /\ UNCHANGED <<failing, transfer, summary>>
    BY <1>1 DEF Connect
  <2>. HIDE DEF e
  <2>3. log[c] = <<>> /\ ~summary[c]
    BY <1>s, <2>2 DEF Stage
  <2>4. Follows(e, log[c], up)
    BY <2>1, <2>3 DEF Follows
  <2>5. /\ Shaped(log'[c], up') /\ (up' => up)
        /\ \A d \in Conns \ {c} : log'[d] = log[d]
        /\ \/ log'[c] = Append(log[c], e)
           \/ log'[c] = log[c] /\ up' = FALSE
    BY <1>a, <1>t, <2>1, <2>2, <2>4, EmitOne
  <2>6. phase'[c] = "open" /\ \A d \in Conns \ {c} : phase'[d] = phase[d]
    BY <1>t, <2>2 DEF TypeOK
  <2>7. Stage(c)'
    <3>1. CASE log'[c] = Append(log[c], e)
      BY <1>t, <1>s, <2>1, <2>2, <2>3, <2>6, <3>1, StageAppend DEF Stage
    <3>2. CASE log'[c] = log[c] /\ up' = FALSE
      BY <1>s, <2>2, <2>3, <2>6, <3>2 DEF Stage
    <3>. QED
      BY <2>5, <3>1, <3>2
  <2>. QED
    BY <1>o, <2>2, <2>5, <2>6, <2>7
<1>2. ASSUME NEW c \in Conns, Refuse(c) PROVE ShapeInv'
  <2>1. phase[c] = "none" /\ phase' = [phase EXCEPT ![c] = "refused"]
        /\ UNCHANGED <<up, failing, transfer, summary, log>>
    BY <1>2 DEF Refuse
  <2>2. phase'[c] = "refused" /\ \A d \in Conns \ {c} : phase'[d] = phase[d]
    BY <1>t, <2>1 DEF TypeOK
  <2>3. (Stage(c) /\ Shaped(log[c], up))'
    BY <1>s, <2>1, <2>2 DEF Stage
  <2>. QED
    BY <1>o, <2>1, <2>2, <2>3
<1>3. ASSUME NEW c \in Conns, Relogin(c) PROVE ShapeInv'
  <2>1. UNCHANGED <<up, phase, failing, transfer, summary, log>>
    BY <1>3 DEF Relogin
  <2>. QED
    BY <1>t, <2>1, ShapeUntouched DEF ShapeInv
<1>4. ASSUME NEW c \in Conns, LoginFailed(c) PROVE ShapeInv'
  <2>1. /\ up /\ failing[c] # <<>> /\ failing[c] \in Seq(Pairs)
        /\ UNCHANGED <<phase, transfer, summary>>
        /\ failing' = [failing EXCEPT ![c] = Tail(@)]
    BY <1>4, <1>t DEF LoginFailed, TypeOK
  <2> DEFINE e == Attempt(Head(failing[c]))
  <2>2. e \in Event /\ e.type = "auth_attempt" /\ Emit(c, <<e>>)
    <3>1. Head(failing[c]) \in Pairs
      BY <2>1
    <3>. QED
      BY <1>4, <1>t, <3>1, EventTypes, EventFields DEF LoginFailed
  <2>. HIDE DEF e
  <2>3. phase[c] \in {"open", "closing", "gone"} /\ log[c] # <<>>
    BY <1>s, <1>t, <2>1 DEF Stage, TypeOK
  <2>4. Follows(e, log[c], up)
    BY <2>2, <2>3 DEF Follows
  <2>5. /\ Shaped(log'[c], up') /\ (up' => up)
        /\ \A d \in Conns \ {c} : log'[d] = log[d]
        /\ \/ log'[c] = Append(log[c], e)
           \/ log'[c] = log[c] /\ up' = FALSE
    BY <1>a, <1>t, <2>2, <2>4, EmitOne
  <2>6. \A d \in Conns \ {c} : failing'[d] = failing[d]
    BY <1>t, <2>1 DEF TypeOK
  <2>7. Stage(c)'
    <3>1. CASE log'[c] = Append(log[c], e)
      BY <1>t, <1>s, <2>1, <2>2, <2>3, <3>1, StageAppend DEF Stage
    <3>2. CASE log'[c] = log[c] /\ up' = FALSE
      BY <1>s, <2>1, <2>3, <3>2 DEF Stage
    <3>. QED
      BY <2>5, <3>1, <3>2
  <2>. QED
    BY <1>o, <2>1, <2>5, <2>6, <2>7
<1>5. ASSUME NEW c \in Conns, FileSent(c) PROVE ShapeInv'
  <2> DEFINE e == Entry("file_download")
  <2>1. e \in Event /\ e.type = "file_download"
    BY <1>t, EventTypes, EventFields
  <2>2. /\ Emit(c, <<e>>) /\ up /\ transfer[c]
        /\ transfer' = [transfer EXCEPT ![c] = FALSE] /\ UNCHANGED <<phase, failing, summary>>
    BY <1>5 DEF FileSent
  <2>. HIDE DEF e
  <2>3. phase[c] = "open" /\ log[c] # <<>> /\ ~summary[c]
    BY <1>s, <2>2 DEF Stage
  <2>4. Follows(e, log[c], up)
    BY <1>s, <2>1, <2>3 DEF Follows, Stage
  <2>5. /\ Shaped(log'[c], up') /\ (up' => up)
        /\ \A d \in Conns \ {c} : log'[d] = log[d]
        /\ \/ log'[c] = Append(log[c], e)
           \/ log'[c] = log[c] /\ up' = FALSE
    BY <1>a, <1>t, <2>1, <2>2, <2>4, EmitOne
  <2>6. ~transfer'[c] /\ \A d \in Conns \ {c} : transfer'[d] = transfer[d]
    BY <1>t, <2>2 DEF TypeOK
  <2>7. Stage(c)'
    <3>1. CASE log'[c] = Append(log[c], e)
      BY <1>t, <1>s, <2>1, <2>2, <2>3, <2>6, <3>1, StageAppend DEF Stage
    <3>2. CASE log'[c] = log[c] /\ up' = FALSE
      BY <1>s, <2>2, <2>3, <2>6, <3>2 DEF Stage
    <3>. QED
      BY <2>5, <3>1, <3>2
  <2>. QED
    BY <1>o, <2>2, <2>5, <2>6, <2>7
<1>6. ASSUME NEW c \in Conns, TransferAborted(c) PROVE ShapeInv'
  <2>1. transfer' = [transfer EXCEPT ![c] = FALSE]
        /\ UNCHANGED <<up, phase, failing, summary, log>>
    BY <1>6 DEF TransferAborted
  <2>2. ~transfer'[c] /\ \A d \in Conns \ {c} : transfer'[d] = transfer[d]
    BY <1>t, <2>1 DEF TypeOK
  <2>3. (Stage(c) /\ Shaped(log[c], up))'
    BY <1>s, <2>1, <2>2 DEF Stage
  <2>. QED
    BY <1>o, <2>1, <2>2, <2>3
<1>7. ASSUME NEW c \in Conns, Close(c) PROVE ShapeInv'
  <2>1. /\ phase[c] = "open" /\ phase' = [phase EXCEPT ![c] = "closing"]
        /\ transfer' = [transfer EXCEPT ![c] = FALSE]
        /\ UNCHANGED <<up, failing, summary, log>>
    BY <1>7 DEF Close
  <2>2. /\ ~transfer'[c] /\ phase'[c] = "closing"
        /\ \A d \in Conns \ {c} : transfer'[d] = transfer[d] /\ phase'[d] = phase[d]
    BY <1>t, <2>1 DEF TypeOK
  <2>3. (Stage(c) /\ Shaped(log[c], up))'
    BY <1>s, <2>1, <2>2 DEF Stage
  <2>. QED
    BY <1>o, <2>1, <2>2, <2>3
<1>8. ASSUME NEW c \in Conns, Disconnected(c) PROVE ShapeInv'
  <2> DEFINE e == Summary(c)
  <2>1. e \in Event /\ e.type = "disconnection"
    BY <1>t, EventTypes, EventFields
  <2>2. /\ phase[c] \in {"closing", "gone"} \/ (~up /\ phase[c] = "open")
        /\ ~summary[c] /\ Emit(c, <<e>>)
        /\ phase' = [phase EXCEPT ![c] = "gone"]
        /\ summary' = [summary EXCEPT ![c] = TRUE]
        /\ UNCHANGED <<failing, transfer>>
    BY <1>8 DEF Disconnected, Once
  <2>. HIDE DEF e
  <2>3. /\ log[c] = <<>> => ~up
        /\ ~\E j \in DOMAIN log[c] : log[c][j].type = "disconnection"
        /\ up => ~transfer[c]
    BY <1>s, <2>2 DEF Stage
  <2>4. Follows(e, log[c], up)
    BY <2>1, <2>3 DEF Follows
  <2>5. /\ Shaped(log'[c], up') /\ (up' => up)
        /\ \A d \in Conns \ {c} : log'[d] = log[d]
        /\ \/ log'[c] = Append(log[c], e)
           \/ log'[c] = log[c] /\ up' = FALSE
    BY <1>a, <1>t, <2>1, <2>2, <2>4, EmitOne
  <2>6. /\ phase'[c] = "gone" /\ summary'[c] = TRUE
        /\ \A d \in Conns \ {c} : phase'[d] = phase[d] /\ summary'[d] = summary[d]
    BY <1>t, <2>2 DEF TypeOK
  <2>7. Stage(c)'
    <3>1. CASE log'[c] = Append(log[c], e)
      BY <1>t, <1>s, <2>1, <2>2, <2>3, <2>5, <2>6, <3>1, StageAppend DEF Stage
    <3>2. CASE log'[c] = log[c] /\ up' = FALSE
      BY <1>s, <2>2, <2>3, <2>6, <3>2 DEF Stage
    <3>. QED
      BY <2>5, <3>1, <3>2
  <2>. QED
    BY <1>o, <2>2, <2>5, <2>6, <2>7
<1>9. ASSUME NEW c \in Conns, RefusedGone(c) PROVE ShapeInv'
  <2>1. phase[c] = "refused" /\ phase' = [phase EXCEPT ![c] = "refused_gone"]
        /\ UNCHANGED <<up, failing, transfer, summary, log>>
    BY <1>9 DEF RefusedGone
  <2>2. phase'[c] = "refused_gone" /\ \A d \in Conns \ {c} : phase'[d] = phase[d]
    BY <1>t, <2>1 DEF TypeOK
  <2>3. (Stage(c) /\ Shaped(log[c], up))'
    BY <1>s, <2>1, <2>2 DEF Stage
  <2>. QED
    BY <1>o, <2>1, <2>2, <2>3
<1>10. ASSUME NEW c \in Conns, NEW pair \in Pairs, Pass(c, pair) PROVE ShapeInv'
  <2>1. up /\ phase[c] \in {"open", "closing"} /\ UNCHANGED <<phase, transfer, summary>>
    BY <1>10 DEF Pass
  <2>2. log[c] # <<>> /\ ~summary[c]
        /\ ~\E j \in DOMAIN log[c] : log[c][j].type = "disconnection"
    BY <1>s, <2>1 DEF Stage
  <2>3. CASE Refusal(c, pair)
    <3>1. failing' = [failing EXCEPT ![c] = Append(@, pair)] /\ UNCHANGED <<up, log>>
      BY <2>3 DEF Refusal
    <3>2. \A d \in Conns \ {c} : failing'[d] = failing[d]
      BY <1>t, <3>1 DEF TypeOK
    <3>3. (Stage(c) /\ Shaped(log[c], up))'
      BY <1>s, <2>1, <3>1 DEF Stage
    <3>. QED
      BY <1>o, <2>1, <3>1, <3>2, <3>3
  <2>4. CASE Login(c, pair)
    <3> DEFINE a == Attempt(pair)
               b == Success(pair)
               one == Append(log[c], a)
    <3>1. /\ a \in Event /\ b \in Event /\ a.type = "auth_attempt"
          /\ b.type = "auth_success" /\ a = Attempt(b.creds)
      BY <1>t, EventTypes, EventFields
    <3>2. Emit(c, <<a, b>>) /\ failing' = failing
      BY <2>4 DEF Login
    <3>. HIDE DEF a, b
    <3>3. \/ log' = [log EXCEPT ![c] = Append(one, b)] /\ up' = up
          \/ log' = [log EXCEPT ![c] = one] /\ up' = FALSE
          \/ log' = log /\ up' = FALSE
      BY <1>t, <3>1, <3>2, EmitTwo
    <3>4. one \in Seq(Event) /\ one # <<>> /\ one[Len(one)] = a
          /\ ~\E j \in DOMAIN one : one[j].type = "disconnection"
      <4>1. /\ one \in Seq(Event) /\ Len(one) = Len(log[c]) + 1
            /\ \A i \in DOMAIN one : i \in DOMAIN log[c] \/ i = Len(log[c]) + 1
            /\ \A i \in DOMAIN log[c] : one[i] = log[c][i]
            /\ one[Len(log[c]) + 1] = a
        BY <1>s, <3>1, AppendEvent
      <4>2. one # <<>>
        BY <1>s, <3>1
      <4>. QED
        BY <2>2, <3>1, <4>1, <4>2
    <3>5. Shaped(one, up)
      <4>1. Follows(a, log[c], up)
        BY <2>2, <3>1 DEF Follows
      <4>. QED
        BY <1>s, <3>1, <4>1, ShapedAppend
    <3>. HIDE DEF one
    <3>6. Shaped(Append(one, b), up)
      <4>1. Follows(b, one, up)
        BY <3>1, <3>4 DEF Follows
      <4>. QED
        BY <1>s, <3>1, <3>4, <3>5, <4>1, ShapedAppend
    <3>7. ~\E j \in DOMAIN Append(one, b) : Append(one, b)[j].type = "disconnection"
      <4>1. /\ \A i \in DOMAIN Append(one, b) : i \in DOMAIN one \/ i = Len(one) + 1
            /\ \A i \in DOMAIN one : Append(one, b)[i] = one[i]
            /\ Append(one, b)[Len(one) + 1] = b
        BY <3>1, <3>4, AppendEvent
      <4>. QED
        BY <3>1, <3>4, <4>1
    <3>8. Append(one, b) # <<>>
      BY <3>1, <3>4
    <3>9. /\ \A d \in Conns \ {c} : log'[d] = log[d]
          /\ up' => up /\ log'[c] # <<>>
          /\ log'[c] \in {log[c], one, Append(one, b)}
          /\ Shaped(log'[c], up')
      <4>1. \A s : log' = [log EXCEPT ![c] = s] =>
              log'[c] = s /\ \A d \in Conns \ {c} : log'[d] = log[d]
        BY <1>t DEF TypeOK
      <4>2. CASE log' = [log EXCEPT ![c] = Append(one, b)] /\ up' = up
        BY <3>6, <3>8, <4>1, <4>2
      <4>3. CASE log' = [log EXCEPT ![c] = one] /\ up' = FALSE
        BY <2>1, <3>5, <4>1, <4>3, ShapedStopped
      <4>4. CASE log' = log /\ up' = FALSE
        BY <2>1, <1>s, <4>4, ShapedStopped
      <4>. QED
        BY <3>3, <4>2, <4>3, <4>4
    <3>10. \A j \in DOMAIN log'[c] : log'[c][j].type # "disconnection"
      BY <2>2, <3>4, <3>7, <3>9
    <3>11. Stage(c)'
      BY <1>s, <2>1, <2>2, <3>2, <3>9, <3>10 DEF Stage
    <3>. QED
      BY <1>o, <2>1, <3>2, <3>9, <3>11
  <2>. QED
    BY <1>10, <2>3, <2>4 DEF Pass
<1>11. ASSUME NEW c \in Conns, NEW line \in Lines, Command(c, line) PROVE ShapeInv'
  <2> DEFINE e == CommandEvent(line)
  <2>1. e \in Event /\ e.type = "command"
    BY <1>t, EventTypes, EventFields
  <2>2. /\ up /\ phase[c] \in {"open", "closing"} /\ UNCHANGED <<phase, failing, summary>>
        /\ Emit(c, <<e>>)
        /\ transfer' = transfer \/ transfer' = [transfer EXCEPT ![c] = @ \/ MaySend(c, line)]
    BY <1>11 DEF Command, Emit
  <2>. HIDE DEF e
  <2>3. log[c] # <<>> /\ ~summary[c]
    BY <1>s, <2>2 DEF Stage
  <2>4. Follows(e, log[c], up)
    BY <1>s, <2>1, <2>3 DEF Follows, Stage
  <2>5. /\ Shaped(log'[c], up') /\ (up' => up)
        /\ \A d \in Conns \ {c} : log'[d] = log[d]
        /\ \/ log'[c] = Append(log[c], e)
           \/ log'[c] = log[c] /\ up' = FALSE
    BY <1>a, <1>t, <2>1, <2>2, <2>4, EmitOne
  <2>6. /\ transfer'[c] => transfer[c] \/ phase[c] = "open"
        /\ \A d \in Conns \ {c} : transfer'[d] = transfer[d]
    BY <1>t, <2>2 DEF TypeOK, MaySend
  <2>7. Stage(c)'
    <3>1. CASE log'[c] = Append(log[c], e)
      BY <1>t, <1>s, <2>1, <2>2, <2>3, <2>6, <3>1, StageAppend DEF Stage
    <3>2. CASE log'[c] = log[c] /\ up' = FALSE
      BY <1>s, <2>2, <2>3, <2>6, <3>2 DEF Stage
    <3>. QED
      BY <2>5, <3>1, <3>2
  <2>. QED
    BY <1>o, <2>2, <2>5, <2>6, <2>7
<1>12. CASE Stop
  <2>1. ~up' /\ UNCHANGED <<phase, failing, transfer, summary, log>>
    BY <1>12 DEF Stop
  <2>. QED
    BY <1>t, <2>1, ShapeUntouched DEF ShapeInv
<1>13. CASE UNCHANGED vars
  BY <1>t, <1>13, ShapeUntouched DEF ShapeInv, vars
<1>. QED
  BY <1>1, <1>2, <1>3, <1>4, <1>5, <1>6, <1>7, <1>8, <1>9, <1>10, <1>11, <1>12, <1>13 DEF Next

(* Whenever callbacks come late or SIGTERM cuts one short: the log of each *)
(* session begins with its connection, ends with its disconnection but for *)
(* late refusals, and puts a success right after its attempt.              *)
THEOREM FtpStreamShape == Spec => []StreamShape
<1>1. ShapeInv => StreamShape
  BY DEF ShapeInv, Shaped, StreamShape
<1>. QED
  BY ShapeInit, ShapeStep, <1>1, PTL DEF Spec

(***************************************************************************)
(* FTP: reuse of SSH credentials.                                          *)
(***************************************************************************)
(* If all events a step can write are in S, so are the logs. *)
LEMMA WrittenIn ==
  ASSUME TypeOK, [Next]_vars, NEW S \in SUBSET Event, log \in [Conns -> Seq(S)],
         Entry("connection") \in S, Entry("file_download") \in S,
         \A pair \in Pairs : Attempt(pair) \in S /\ (Authorized(pair) => Success(pair) \in S),
         \A line \in Lines : CommandEvent(line) \in S,
         \A c \in Conns : Summary(c) \in S
  PROVE  log' \in [Conns -> Seq(S)]
<1>1. ASSUME NEW c \in Conns, NEW e \in S, Emit(c, <<e>>)
      PROVE  log' \in [Conns -> Seq(S)]
  <2>1. Append(log[c], e) \in Seq(S)
    OBVIOUS
  <2>. QED
    BY <1>1, <2>1, EmitOne
<1>2. ASSUME NEW c \in Conns, NEW a \in S, NEW b \in S, Emit(c, <<a, b>>)
      PROVE  log' \in [Conns -> Seq(S)]
  <2>1. Append(log[c], a) \in Seq(S) /\ Append(Append(log[c], a), b) \in Seq(S)
    OBVIOUS
  <2>. QED
    BY <1>2, <2>1, EmitTwo
<1>3. ASSUME NEW c \in Conns,
             Connect(c) \/ FileSent(c) \/ Disconnected(c) \/ LoginFailed(c)
      PROVE  log' \in [Conns -> Seq(S)]
  <2>1. CASE Connect(c) \/ FileSent(c) \/ Disconnected(c)
    BY <1>1, <2>1 DEF Connect, FileSent, Disconnected
  <2>2. CASE LoginFailed(c)
    <3>1. failing[c] \in Seq(Pairs) /\ failing[c] # <<>>
      BY <2>2 DEF LoginFailed, TypeOK
    <3>2. Head(failing[c]) \in Pairs
      BY <3>1
    <3>. QED
      BY <1>1, <2>2, <3>2 DEF LoginFailed
  <2>. QED
    BY <1>3, <2>1, <2>2
<1>4. ASSUME NEW c \in Conns, NEW pair \in Pairs, Pass(c, pair)
      PROVE  log' \in [Conns -> Seq(S)]
  BY <1>2, <1>4 DEF Pass, Login, Refusal
<1>5. ASSUME NEW c \in Conns, NEW line \in Lines, Command(c, line)
      PROVE  log' \in [Conns -> Seq(S)]
  BY <1>1, <1>5 DEF Command, Emit
<1>6. ASSUME log' = log PROVE log' \in [Conns -> Seq(S)]
  BY <1>6
<1>. QED
  BY <1>3, <1>4, <1>5, <1>6
     DEF Next, Refuse, Relogin, TransferAborted, Close, RefusedGone, Stop, vars

(* A success is of a pair that is accepted, and tagged if the list of SSH  *)
(* credentials, as it was parsed, has the pair.                            *)
TaggedEvents ==
  {e \in Event :
     e.type = "auth_success" =>
       /\ e.creds \in Pairs /\ Authorized(e.creds)
       /\ e.class = "CREDENTIAL_STUFFING" <=> IsSshCredential(e.creds)}

TagInv == TypeOK /\ log \in [Conns -> Seq(TaggedEvents)]

LEMMA TagInit == Init => TagInv
<1>1. <<>> \in Seq(TaggedEvents)
  OBVIOUS
<1>. QED
  BY <1>1, FtpTypeInit DEF Init, TagInv

LEMMA TagStep == TagInv /\ [Next]_vars => TagInv'
<1> SUFFICES ASSUME TagInv, [Next]_vars PROVE TagInv'
  OBVIOUS
<1>1. TypeOK /\ TypeOK' /\ TaggedEvents \in SUBSET Event
  BY FtpTypeStep DEF TagInv, TaggedEvents
<1>2. /\ Entry("connection") \in TaggedEvents /\ Entry("file_download") \in TaggedEvents
      /\ \A pair \in Pairs : Attempt(pair) \in TaggedEvents
      /\ \A line \in Lines : CommandEvent(line) \in TaggedEvents
      /\ \A c \in Conns : Summary(c) \in TaggedEvents
  BY <1>1, EventTypes, EventFields DEF TaggedEvents
<1>3. \A pair \in Pairs : Authorized(pair) => Success(pair) \in TaggedEvents
  <2> SUFFICES ASSUME NEW pair \in Pairs, Authorized(pair)
               PROVE  Success(pair) \in TaggedEvents
    OBVIOUS
  <2>1. /\ Success(pair) \in Event /\ Success(pair).creds = pair
        /\ Success(pair).class = (IF IsSshCredential(pair) THEN "CREDENTIAL_STUFFING" ELSE "")
    BY <1>1, EventTypes, EventFields
  <2>. QED
    BY <2>1 DEF TaggedEvents
<1>4. log' \in [Conns -> Seq(TaggedEvents)]
  BY <1>1, <1>2, <1>3, WrittenIn DEF TagInv
<1>. QED
  BY <1>1, <1>4 DEF TagInv

(* Of two entries for one user _parse_credentials keeps the first, so the  *)
(* lists have to agree: an accepted pair that FTP_SSH_CREDENTIALS names at *)
(* all is what it names first for that user.                               *)
ListsAgree ==
  \A pair \in Pairs :
    Authorized(pair) /\ InSequence(pair, SshCredentials) => pair \in Parsed(SshCredentials)

(* With lists that agree, a login is tagged as the reuse of credentials    *)
(* exactly when the SSH honeypot accepts its pair; root never logs in.     *)
THEOREM FtpReuseTagged == ASSUME ListsAgree PROVE Spec => []ReuseTagged
<1>1. \A pair : Authorized(pair) => pair[1] # "root"
  BY DEF Authorized, Accepted
<1>2. \A pair \in Pairs :
        Authorized(pair) => (IsSshCredential(pair) <=> InSequence(pair, SshCredentials))
  <2>1. \A pair : pair \in Parsed(SshCredentials) => InSequence(pair, SshCredentials)
    BY DEF Parsed, InSequence
  <2>. QED
    BY <1>1, <2>1 DEF ListsAgree, IsSshCredential
<1>3. TagInv => ReuseTagged
  <2> SUFFICES ASSUME TagInv, NEW c \in Conns, NEW i \in DOMAIN log[c],
                      log[c][i].type = "auth_success"
               PROVE  /\ log[c][i].creds[1] # "root"
                      /\ log[c][i].class = "CREDENTIAL_STUFFING"
                           <=> InSequence(log[c][i].creds, SshCredentials)
    BY DEF ReuseTagged, Of
  <2>1. log[c][i] \in TaggedEvents
    BY DEF TagInv
  <2>. QED
    BY <1>1, <1>2, <2>1 DEF TaggedEvents
<1>. QED
  BY TagInit, TagStep, <1>3, PTL DEF Spec

(***************************************************************************)
(* FTP: counting events.                                                   *)
(***************************************************************************)
Positions(s, type) == {i \in DOMAIN s : s[i].type = type}

Recons(s) == {i \in Positions(s, "command") : IsRecon(s[i].line)}

Retrs(s) == {i \in Positions(s, "command") : s[i].line = "RETR"}

(* What one more event adds to the positions. *)
LEMMA AppendPositions ==
  ASSUME NEW s \in Seq(Event), NEW e \in Event
  PROVE  LET t == Append(s, e)
             n == Len(s) + 1
         IN  /\ \A type : Positions(t, type) =
                            Positions(s, type) \cup (IF e.type = type THEN {n} ELSE {})
             /\ Recons(t) = Recons(s) \cup
                  (IF e.type = "command" /\ IsRecon(e.line) THEN {n} ELSE {})
             /\ Retrs(t) = Retrs(s) \cup
                  (IF e.type = "command" /\ e.line = "RETR" THEN {n} ELSE {})
<1> DEFINE t == Append(s, e)
           n == Len(s) + 1
<1>1. /\ DOMAIN t = DOMAIN s \cup {n} /\ t[n] = e /\ n \notin DOMAIN s
      /\ \A i \in DOMAIN s : t[i] = s[i]
  BY AppendEvent
<1>. HIDE DEF t, n
<1>2. \A type : Positions(t, type) =
                  Positions(s, type) \cup (IF e.type = type THEN {n} ELSE {})
  BY <1>1 DEF Positions
<1>3. Recons(t) = Recons(s) \cup
        (IF e.type = "command" /\ IsRecon(e.line) THEN {n} ELSE {})
  BY <1>1 DEF Recons, Positions
<1>4. Retrs(t) = Retrs(s) \cup
        (IF e.type = "command" /\ e.line = "RETR" THEN {n} ELSE {})
  BY <1>1 DEF Retrs, Positions
<1>. QED
  BY <1>2, <1>3, <1>4 DEF t, n

(* An event is not among the events of another type. *)
LEMMA OtherPositions ==
  ASSUME NEW s \in Seq(Event), NEW e \in Event, NEW type, e.type # type
  PROVE  Positions(Append(s, e), type) = Positions(s, type)
<1>1. Positions(Append(s, e), type) =
        Positions(s, type) \cup (IF e.type = type THEN {Len(s) + 1} ELSE {})
  BY AppendPositions
<1>. QED
  BY <1>1

(* The same in numbers. *)
LEMMA AppendCounts ==
  ASSUME NEW s \in Seq(Event), NEW e \in Event
  PROVE  LET t == Append(s, e)
         IN  /\ \A type : /\ Cardinality(Positions(s, type)) \in Nat
                          /\ Cardinality(Positions(t, type)) =
                               Cardinality(Positions(s, type)) + (IF e.type = type THEN 1 ELSE 0)
             /\ Cardinality(Recons(s)) \in Nat
             /\ Cardinality(Recons(t)) = Cardinality(Recons(s)) +
                  (IF e.type = "command" /\ IsRecon(e.line) THEN 1 ELSE 0)
             /\ Cardinality(Retrs(s)) \in Nat
             /\ Cardinality(Retrs(t)) = Cardinality(Retrs(s)) +
                  (IF e.type = "command" /\ e.line = "RETR" THEN 1 ELSE 0)
<1>1. \A A \in SUBSET DOMAIN s :
        /\ Cardinality(A) \in Nat
        /\ Cardinality(A \cup {Len(s) + 1}) = Cardinality(A) + 1
        /\ A \cup {} = A
  BY CountPositions
<1>2. /\ \A type : Positions(s, type) \in SUBSET DOMAIN s
      /\ Recons(s) \in SUBSET DOMAIN s /\ Retrs(s) \in SUBSET DOMAIN s
  BY DEF Positions, Recons, Retrs
<1> DEFINE t == Append(s, e)
           n == Len(s) + 1
<1>3. /\ \A type : Positions(t, type) =
                     Positions(s, type) \cup (IF e.type = type THEN {n} ELSE {})
      /\ Recons(t) = Recons(s) \cup
           (IF e.type = "command" /\ IsRecon(e.line) THEN {n} ELSE {})
      /\ Retrs(t) = Retrs(s) \cup
           (IF e.type = "command" /\ e.line = "RETR" THEN {n} ELSE {})
  BY AppendPositions
<1>4. ASSUME NEW A \in SUBSET DOMAIN s, NEW B, NEW more \in BOOLEAN,
             B = A \cup (IF more THEN {n} ELSE {})
      PROVE  /\ Cardinality(A) \in Nat
             /\ Cardinality(B) = Cardinality(A) + (IF more THEN 1 ELSE 0)
  <2>1. CASE more
    BY <1>1, <1>4, <2>1
  <2>2. CASE ~more
    <3>1. B = A /\ Cardinality(A) \in Nat
      BY <1>1, <1>4, <2>2
    <3>. QED
      BY <2>2, <3>1
  <2>. QED
    BY <2>1, <2>2
<1>. HIDE DEF t, n
<1>5. \A type : /\ Cardinality(Positions(s, type)) \in Nat
                /\ Cardinality(Positions(t, type)) =
                     Cardinality(Positions(s, type)) + (IF e.type = type THEN 1 ELSE 0)
  BY <1>2, <1>3, <1>4
<1>6. /\ Cardinality(Recons(s)) \in Nat
      /\ Cardinality(Recons(t)) = Cardinality(Recons(s)) +
           (IF e.type = "command" /\ IsRecon(e.line) THEN 1 ELSE 0)
  BY <1>2, <1>3, <1>4
<1>7. /\ Cardinality(Retrs(s)) \in Nat
      /\ Cardinality(Retrs(t)) = Cardinality(Retrs(s)) +
           (IF e.type = "command" /\ e.line = "RETR" THEN 1 ELSE 0)
  BY <1>2, <1>3, <1>4
<1>. QED
  BY <1>5, <1>6, <1>7 DEF t

(* An empty log has none of them. *)
LEMMA NoPositions ==
  /\ \A type : Cardinality(Positions(<<>>, type)) = 0
  /\ Cardinality(Recons(<<>>)) = 0 /\ Cardinality(Retrs(<<>>)) = 0
<1>1. DOMAIN <<>> = {}
  OBVIOUS
<1>2. /\ \A type : Positions(<<>>, type) = {}
      /\ Recons(<<>>) = {} /\ Retrs(<<>>) = {}
  BY <1>1 DEF Positions, Recons, Retrs
<1>. QED
  BY <1>2, FS_EmptySet

(***************************************************************************)
(* FTP: a download that is reported was asked for.                         *)
(***************************************************************************)
HasSuccess(s) == Positions(s, "auth_success") # {}

(* DownloadsExplained of one log. *)
Explained(s) ==
  \A i \in Positions(s, "file_download") :
    /\ Cardinality({j \in Positions(s, "file_download") : j <= i})
         <= Cardinality({j \in Retrs(s) : j < i})
    /\ \E j \in Positions(s, "auth_success") : j < i

(* A transfer under way was asked for by a RETR that no file_download is   *)
(* about yet.                                                              *)
Asked(c) ==
  /\ Cardinality(Positions(log[c], "file_download")) + (IF transfer[c] THEN 1 ELSE 0)
       <= Cardinality(Retrs(log[c]))
  /\ transfer[c] \/ (up /\ loggedIn[c]) => HasSuccess(log[c])
  /\ Explained(log[c])

DownloadInv == TypeOK /\ \A c \in Conns : Asked(c)

(* A file_download may follow if a RETR is left to explain it. *)
LEMMA ExplainedAppend ==
  ASSUME NEW s \in Seq(Event), NEW e \in Event, Explained(s),
         e.type = "file_download" =>
           /\ Cardinality(Positions(s, "file_download")) + 1 <= Cardinality(Retrs(s))
           /\ HasSuccess(s)
  PROVE  Explained(Append(s, e))
<1> DEFINE t == Append(s, e)
           n == Len(s) + 1
           fd == "file_download"
<1>1. /\ n \in Nat /\ \A i \in DOMAIN s : i \in Nat /\ i < n
  OBVIOUS
<1>2. /\ \A type : Positions(t, type) =
                     Positions(s, type) \cup (IF e.type = type THEN {n} ELSE {})
      /\ Retrs(t) = Retrs(s) \cup
           (IF e.type = "command" /\ e.line = "RETR" THEN {n} ELSE {})
  BY AppendPositions
<1>3. Retrs(s) \subseteq DOMAIN s /\ \A type : Positions(s, type) \subseteq DOMAIN s
  BY DEF Retrs, Positions
<1>. HIDE DEF t, n
<1> SUFFICES ASSUME NEW i \in Positions(t, fd)
             PROVE  /\ Cardinality({j \in Positions(t, fd) : j <= i})
                         <= Cardinality({j \in Retrs(t) : j < i})
                    /\ \E j \in Positions(t, "auth_success") : j < i
  BY DEF Explained, t
<1>4. CASE i \in Positions(s, fd)
  <2>1. i \in Nat /\ i < n
    BY <1>1, <1>3, <1>4
  <2>2. /\ {j \in Positions(t, fd) : j <= i} = {j \in Positions(s, fd) : j <= i}
        /\ {j \in Retrs(t) : j < i} = {j \in Retrs(s) : j < i}
    BY <1>1, <1>2, <2>1
  <2>. QED
    BY <1>2, <1>4, <2>2 DEF Explained
<1>5. CASE i = n /\ e.type = fd
  <2>1. {j \in Positions(t, fd) : j <= i} = Positions(s, fd) \cup {n}
    BY <1>1, <1>2, <1>3, <1>5
  <2>2. {j \in Retrs(t) : j < i} = Retrs(s)
    BY <1>1, <1>2, <1>3, <1>5
  <2>3. Cardinality(Positions(s, fd) \cup {n}) = Cardinality(Positions(s, fd)) + 1
    BY <1>3, CountPositions DEF n
  <2>4. \E j \in Positions(t, "auth_success") : j < i
    <3>1. PICK j \in Positions(s, "auth_success") : TRUE
      BY <1>5 DEF HasSuccess
    <3>2. j \in Positions(t, "auth_success") /\ j < n
      BY <1>1, <1>2, <1>3, <3>1
    <3>. QED
      BY <1>5, <3>2
  <2>. QED
    BY <1>5, <2>1, <2>2, <2>3, <2>4
<1>. QED
  BY <1>2, <1>4, <1>5

(* One more event, a download or not, keeps a session's downloads asked    *)
(* for if what it takes from those under way is what it reports.           *)
LEMMA AskedAppend ==
  ASSUME TypeOK, NEW c \in Conns, Asked(c), NEW e \in Event,
         log'[c] = Append(log[c], e), e.type = "file_download" => transfer[c] /\ ~transfer'[c],
         transfer[c] \in BOOLEAN, transfer'[c] \in BOOLEAN,
         transfer'[c] /\ ~transfer[c] =>
           /\ e.type = "command" /\ e.line = "RETR"
           /\ up /\ loggedIn[c],
         up' /\ loggedIn'[c] => (up /\ loggedIn[c]) \/ HasSuccess(log'[c])
  PROVE  Asked(c)'
<1> DEFINE s == log[c]
           t == Append(s, e)
           fd == "file_download"
<1>1. s \in Seq(Event)
  BY DEF TypeOK
<1>2. /\ Cardinality(Positions(s, fd)) \in Nat /\ Cardinality(Retrs(s)) \in Nat
      /\ Cardinality(Positions(t, fd)) =
           Cardinality(Positions(s, fd)) + (IF e.type = fd THEN 1 ELSE 0)
      /\ Cardinality(Retrs(t)) = Cardinality(Retrs(s)) +
           (IF e.type = "command" /\ e.line = "RETR" THEN 1 ELSE 0)
  BY <1>1, AppendCounts
<1>3. HasSuccess(s) => HasSuccess(t)
  BY <1>1, AppendPositions DEF HasSuccess
<1>4. Explained(t)
  BY <1>1, <1>2, ExplainedAppend DEF Asked
<1>5. log'[c] = t
  OBVIOUS
<1>6. /\ Cardinality(Positions(s, fd)) + (IF transfer[c] THEN 1 ELSE 0)
           <= Cardinality(Retrs(s))
      /\ transfer[c] \/ (up /\ loggedIn[c]) => HasSuccess(s)
  BY DEF Asked
<1>. HIDE DEF t, s
<1>7. Cardinality(Positions(t, fd)) + (IF transfer'[c] THEN 1 ELSE 0)
        <= Cardinality(Retrs(t))
  BY <1>2, <1>6
<1>8. transfer'[c] \/ (up' /\ loggedIn'[c]) => HasSuccess(t)
  BY <1>3, <1>5, <1>6
<1>. QED
  BY <1>4, <1>5, <1>7, <1>8 DEF Asked

(* A session that wrote nothing. *)
LEMMA AskedUntouched ==
  ASSUME NEW c \in Conns, Asked(c), log'[c] = log[c],
         transfer'[c] = transfer[c] \/ (transfer'[c] = FALSE /\ TypeOK),
         up' /\ loggedIn'[c] => up /\ loggedIn[c]
  PROVE  Asked(c)'
<1>1. CASE transfer'[c] = transfer[c]
  BY <1>1 DEF Asked
<1>2. CASE transfer'[c] = FALSE /\ TypeOK
  <2>1. /\ Cardinality(Positions(log[c], "file_download")) \in Nat
        /\ Cardinality(Retrs(log[c])) \in Nat
    <3>1. log[c] \in Seq(Event)
      BY <1>2 DEF TypeOK
    <3>2. /\ Positions(log[c], "file_download") \in SUBSET DOMAIN log[c]
          /\ Retrs(log[c]) \in SUBSET DOMAIN log[c]
      BY DEF Positions, Retrs
    <3>. QED
      BY <3>1, <3>2, CountPositions
  <2>2. Cardinality(Positions(log[c], "file_download")) + 0 <= Cardinality(Retrs(log[c]))
    BY <2>1 DEF Asked
  <2>. QED
    BY <1>2, <2>2 DEF Asked
<1>. QED
  BY <1>1, <1>2

LEMMA DownloadInit == Init => DownloadInv
<1> SUFFICES ASSUME Init PROVE DownloadInv
  OBVIOUS
<1>1. \A c \in Conns : log[c] = <<>> /\ ~transfer[c] /\ ~loggedIn[c]
  BY DEF Init
<1>2. Positions(<<>>, "file_download") = {} /\ 0 + 0 <= 0
  BY DEF Positions
<1>. QED
  BY <1>1, <1>2, FtpTypeInit, NoPositions DEF DownloadInv, Asked, Explained

LEMMA DownloadStep == DownloadInv /\ [Next]_vars => DownloadInv'
<1> SUFFICES ASSUME DownloadInv, [Next]_vars PROVE DownloadInv'
  OBVIOUS
<1>t. TypeOK /\ TypeOK'
  BY FtpTypeStep DEF DownloadInv
<1>s. ASSUME NEW c \in Conns
      PROVE  /\ Asked(c) /\ log[c] \in Seq(Event)
             /\ transfer[c] \in BOOLEAN /\ transfer'[c] \in BOOLEAN
  BY <1>t DEF DownloadInv, TypeOK
<1>o. ASSUME NEW c \in Conns, Asked(c)', up' => up,
             \A d \in Conns \ {c} :
               transfer'[d] = transfer[d] /\ loggedIn'[d] = loggedIn[d] /\ log'[d] = log[d]
      PROVE  DownloadInv'
  <2>1. \A d \in Conns \ {c} : Asked(d)'
    BY <1>o, <1>s, AskedUntouched
  <2>. QED
    BY <1>t, <1>o, <2>1 DEF DownloadInv
(* A session that writes one event, while what it sends and whether it is  *)
(* logged in stay the same.                                                *)
<1>a. ASSUME NEW c \in Conns, NEW e \in Event, e.type # "file_download",
             Emit(c, <<e>>), UNCHANGED <<transfer, loggedIn>>
      PROVE  DownloadInv'
  <2>1. /\ (up' => up) /\ \A d \in Conns \ {c} : log'[d] = log[d]
        /\ log'[c] = Append(log[c], e) \/ log'[c] = log[c]
    BY <1>t, <1>a, EmitOne DEF TypeOK
  <2>2. Asked(c)'
    BY <1>t, <1>a, <1>s, <2>1, AskedAppend, AskedUntouched
  <2>. QED
    BY <1>a, <1>o, <2>1, <2>2
<1>1. ASSUME NEW c \in Conns, Connect(c) \/ LoginFailed(c) \/ Disconnected(c)
      PROVE  DownloadInv'
  <2>1. CASE Connect(c)
    BY <1>t, <1>a, <2>1, EventTypes, EventFields DEF Connect
  <2>2. CASE LoginFailed(c)
    <3>1. failing[c] \in Seq(Pairs) /\ failing[c] # <<>>
      BY <1>t, <2>2 DEF LoginFailed, TypeOK
    <3>2. Head(failing[c]) \in Pairs
      BY <3>1
    <3>. QED
      BY <1>t, <1>a, <2>2, <3>2, EventTypes, EventFields DEF LoginFailed
  <2>3. CASE Disconnected(c)
    BY <1>t, <1>a, <2>3, EventTypes, EventFields DEF Disconnected
  <2>. QED
    BY <1>1, <2>1, <2>2, <2>3
<1>2. ASSUME NEW c \in Conns, FileSent(c) PROVE DownloadInv'
  <2> DEFINE e == Entry("file_download")
  <2>1. e \in Event /\ e.type = "file_download"
    BY <1>t, EventTypes, EventFields
  <2>2. /\ Emit(c, <<e>>) /\ up /\ transfer[c]
        /\ transfer' = [transfer EXCEPT ![c] = FALSE] /\ loggedIn' = loggedIn
    BY <1>2 DEF FileSent
  <2>. HIDE DEF e
  <2>3. transfer'[c] = FALSE /\ \A d \in Conns \ {c} : transfer'[d] = transfer[d]
    BY <1>t, <2>2 DEF TypeOK
  <2>4. /\ (up' => up) /\ \A d \in Conns \ {c} : log'[d] = log[d]
        /\ log'[c] = Append(log[c], e) \/ log'[c] = log[c]
    BY <1>t, <2>1, <2>2, EmitOne DEF TypeOK
  <2>5. Asked(c)'
    BY <1>t, <1>s, <2>1, <2>2, <2>3, <2>4, AskedAppend, AskedUntouched
  <2>. QED
    BY <1>o, <2>2, <2>3, <2>4, <2>5
<1>3. ASSUME NEW c \in Conns, TransferAborted(c) \/ Close(c) \/ Relogin(c)
      PROVE  DownloadInv'
  <2>1. /\ UNCHANGED <<up, log>>
        /\ transfer'[c] = FALSE \/ transfer' = transfer
        /\ loggedIn'[c] => loggedIn[c]
        /\ \A d \in Conns \ {c} : transfer'[d] = transfer[d] /\ loggedIn'[d] = loggedIn[d]
    BY <1>t, <1>3 DEF TransferAborted, Close, Relogin, TypeOK
  <2>2. Asked(c)'
    BY <1>t, <1>s, <2>1, AskedUntouched
  <2>. QED
    BY <1>o, <2>1, <2>2
<1>4. ASSUME NEW c \in Conns, NEW pair \in Pairs, Pass(c, pair) PROVE DownloadInv'
  <2>1. CASE Refusal(c, pair)
    <3>1. UNCHANGED <<up, log, transfer, loggedIn>>
      BY <1>4, <2>1 DEF Pass, Refusal
    <3>. QED
      BY <1>t, <1>s, <3>1, AskedUntouched DEF DownloadInv
  <2>2. CASE Login(c, pair)
    <3> DEFINE a == Attempt(pair)
               b == Success(pair)
               one == Append(log[c], a)
    <3>1. /\ a \in Event /\ b \in Event
          /\ a.type = "auth_attempt" /\ b.type = "auth_success"
      BY <1>t, EventTypes, EventFields
    <3>2. /\ Emit(c, <<a, b>>) /\ transfer' = transfer
          /\ loggedIn' = [loggedIn EXCEPT ![c] = TRUE] /\ up /\ ~loggedIn[c]
      BY <1>4, <2>2 DEF Pass, Login
    <3>3. one \in Seq(Event)
      BY <1>s, <3>1, AppendEvent
    <3>. HIDE DEF a, b
    <3>4. /\ \A d \in Conns \ {c} : log'[d] = log[d] /\ loggedIn'[d] = loggedIn[d]
          /\ \/ log'[c] = Append(one, b) /\ up' = up
             \/ log'[c] = one /\ up' = FALSE
             \/ log'[c] = log[c] /\ up' = FALSE
      BY <1>t, <3>1, <3>2, EmitTwo DEF TypeOK
    <3>5. /\ HasSuccess(Append(one, b))
          /\ Explained(one) /\ Explained(Append(one, b))
          /\ HasSuccess(log[c]) => HasSuccess(one)
      <4>1. Explained(one)
        BY <1>s, <3>1, ExplainedAppend DEF Asked
      <4>2. HasSuccess(log[c]) => HasSuccess(one)
        BY <1>s, <3>1, AppendPositions DEF HasSuccess
      <4>. HIDE DEF one
      <4>3. Explained(Append(one, b))
        BY <3>1, <3>3, <4>1, ExplainedAppend
      <4>4. HasSuccess(Append(one, b))
        BY <3>1, <3>3, AppendPositions DEF HasSuccess
      <4>. QED
        BY <4>1, <4>2, <4>3, <4>4
    <3>6. /\ Cardinality(Positions(one, "file_download"))
               = Cardinality(Positions(log[c], "file_download"))
          /\ Cardinality(Retrs(one)) = Cardinality(Retrs(log[c]))
      BY <1>s, <3>1, AppendCounts
    <3>. HIDE DEF one
    <3>7. /\ Cardinality(Positions(Append(one, b), "file_download"))
               = Cardinality(Positions(one, "file_download"))
          /\ Cardinality(Retrs(Append(one, b))) = Cardinality(Retrs(one))
      BY <3>1, <3>3, AppendCounts
    <3>8. Asked(c)'
      BY <1>s, <3>2, <3>4, <3>5, <3>6, <3>7 DEF Asked
    <3>. QED
      BY <1>o, <3>2, <3>4, <3>8
  <2>. QED
    BY <1>4, <2>1, <2>2 DEF Pass
<1>5. ASSUME NEW c \in Conns, NEW line \in Lines, Command(c, line) PROVE DownloadInv'
  <2> DEFINE e == CommandEvent(line)
  <2>1. /\ e \in Event /\ e.type = "command" /\ e.line = strip(line)
        /\ line = "RETR" => e.line = "RETR"
    BY <1>t, EventTypes, EventFields DEF strip
  <2>2. loggedIn' = loggedIn /\ up
    BY <1>5 DEF Command
  <2>3. CASE Whole(c, <<e>>) /\ transfer' = [transfer EXCEPT ![c] = @ \/ MaySend(c, line)]
    <3>1. Emit(c, <<e>>) /\ up' = up
      BY <2>3 DEF Emit, Whole
    <3>2. log'[c] = Append(log[c], e) /\ \A d \in Conns \ {c} : log'[d] = log[d]
      BY <1>t, <2>1, <2>2, <3>1, EmitOne DEF TypeOK
    <3>3. /\ \A d \in Conns \ {c} : transfer'[d] = transfer[d]
          /\ transfer[c] => transfer'[c]
          /\ transfer'[c] /\ ~transfer[c] => line = "RETR" /\ loggedIn[c]
      BY <1>t, <2>3 DEF TypeOK, MaySend
    <3>. HIDE DEF e
    <3>4. Asked(c)'
      BY <1>t, <1>s, <2>1, <2>2, <3>1, <3>2, <3>3, AskedAppend
    <3>. QED
      BY <1>o, <2>2, <3>1, <3>2, <3>3, <3>4
  <2>4. CASE Interrupted(c, <<e>>) /\ UNCHANGED transfer
    BY <1>a, <2>1, <2>2, <2>4 DEF Emit
  <2>. QED
    BY <1>5, <2>3, <2>4 DEF Command
<1>6. ASSUME UNCHANGED <<log, transfer, loggedIn>>, up' => up PROVE DownloadInv'
  BY <1>t, <1>s, <1>6, AskedUntouched DEF DownloadInv
<1>. QED
  BY <1>1, <1>2, <1>3, <1>4, <1>5, <1>6 DEF Next, Refuse, RefusedGone, Stop, vars

(* Before the n-th file_download of a session its log has n RETR commands  *)
(* and a login, whatever is aborted, interrupted or sent after a re-login. *)
THEOREM FtpDownloadsExplained == Spec => []DownloadsExplained
<1>1. DownloadInv => DownloadsExplained
  <2> SUFFICES ASSUME DownloadInv, NEW c \in Conns, NEW i \in Of(c, "file_download")
               PROVE  /\ Cardinality({j \in Of(c, "file_download") : j <= i})
                           <= Cardinality({j \in Of(c, "command") :
                                             j < i /\ log[c][j].line = "RETR"})
                      /\ \E j \in Of(c, "auth_success") : j < i
    BY DEF DownloadsExplained
  <2>1. \A type : Of(c, type) = Positions(log[c], type)
    BY DEF Of, Positions
  <2>2. {j \in Of(c, "command") : j < i /\ log[c][j].line = "RETR"}
          = {j \in Retrs(log[c]) : j < i}
    BY <2>1 DEF Retrs
  <2>. QED
    BY <2>1, <2>2 DEF DownloadInv, Asked, Explained
<1>. QED
  BY DownloadInit, DownloadStep, <1>1, PTL DEF Spec

(***************************************************************************)
(* FTP: the summary tells what the log tells.                              *)
(***************************************************************************)
(* The profiler of a session has seen the commands its log has, *)
Counted(c) ==
  /\ profiler[c].commands = Cardinality(Positions(log[c], "command"))
  /\ profiler[c].recon = Cardinality(Recons(log[c]))

(* or SIGTERM came between the profiler and the log. *)
Ahead(c) ==
  ~up /\ profiler[c].commands = Cardinality(Positions(log[c], "command")) + 1

Marks(c) ==
  \A i \in Positions(log[c], "disconnection") :
    /\ log[c][i].count = profiler[c].commands
    /\ log[c][i].class = SessionClass(profiler[c].commands, profiler[c].recon)

CountInv ==
  /\ ShapeInv
  /\ \A c \in Conns : (Counted(c) \/ Ahead(c)) /\ Marks(c)
  /\ \A c, d \in Conns : ~Counted(c) /\ ~Counted(d) => c = d

(* A session whose profiler stays as it is and which writes nothing, or no *)
(* command, and of its disconnections one that agrees with the profiler.   *)
LEMMA CountUntouched ==
  ASSUME TypeOK, NEW c \in Conns, Counted(c) \/ Ahead(c), Marks(c), up' => up,
         profiler'[c] = profiler[c],
         \/ log'[c] = log[c]
         \/ \E e \in Event :
              /\ log'[c] = Append(log[c], e) /\ e.type # "command"
              /\ e.type = "disconnection" =>
                   /\ e.count = profiler[c].commands
                   /\ e.class = SessionClass(profiler[c].commands, profiler[c].recon)
  PROVE  ((Counted(c) \/ Ahead(c)) /\ Marks(c))' /\ (Counted(c) => Counted(c)')
<1>1. CASE log'[c] = log[c]
  BY <1>1 DEF Counted, Ahead, Marks
<1>2. CASE \E e \in Event :
             /\ log'[c] = Append(log[c], e) /\ e.type # "command"
             /\ e.type = "disconnection" =>
                  /\ e.count = profiler[c].commands
                  /\ e.class = SessionClass(profiler[c].commands, profiler[c].recon)
  <2>1. PICK e \in Event :
          /\ log'[c] = Append(log[c], e) /\ e.type # "command"
          /\ e.type = "disconnection" =>
               /\ e.count = profiler[c].commands
               /\ e.class = SessionClass(profiler[c].commands, profiler[c].recon)
    BY <1>2
  <2> DEFINE s == log[c]
             t == Append(s, e)
  <2>2. s \in Seq(Event)
    BY DEF TypeOK
  <2>3. /\ Cardinality(Positions(t, "command")) = Cardinality(Positions(s, "command"))
        /\ Cardinality(Recons(t)) = Cardinality(Recons(s))
    BY <2>1, <2>2, AppendCounts
  <2>4. /\ \A i \in Positions(t, "disconnection") :
             \/ i \in Positions(s, "disconnection") /\ t[i] = s[i]
             \/ t[i] = e /\ e.type = "disconnection"
    BY <2>2, AppendEvent DEF Positions
  <2>5. log'[c] = t
    BY <2>1
  <2>. HIDE DEF t
  <2>6. \A i \in Positions(t, "disconnection") :
          /\ t[i].count = profiler[c].commands
          /\ t[i].class = SessionClass(profiler[c].commands, profiler[c].recon)
    BY <2>1, <2>4 DEF Marks
  <2>7. Marks(c)'
    BY <2>5, <2>6 DEF Marks, SessionClass
  <2>8. (Counted(c) => Counted(c)') /\ (Ahead(c) => Ahead(c)')
    BY <2>3, <2>5 DEF Counted, Ahead
  <2>. QED
    BY <2>7, <2>8
<1>. QED
  BY <1>1, <1>2

LEMMA CountInit == Init => CountInv
<1> SUFFICES ASSUME Init PROVE CountInv
  OBVIOUS
<1>1. \A c \in Conns : /\ log[c] = <<>> /\ profiler[c].commands = 0
                       /\ profiler[c].recon = 0
  BY DEF Init
<1>2. Positions(<<>>, "disconnection") = {}
  BY DEF Positions
<1>. QED
  BY <1>1, <1>2, ShapeInit, NoPositions DEF CountInv, Counted, Marks

LEMMA CountStep == CountInv /\ [Next]_vars => CountInv'
<1> SUFFICES ASSUME CountInv, [Next]_vars PROVE CountInv'
  OBVIOUS
<1>t. TypeOK /\ ShapeInv /\ ShapeInv'
  BY ShapeStep DEF CountInv, ShapeInv
<1>s. ASSUME NEW c \in Conns
      PROVE  /\ Counted(c) \/ Ahead(c)
             /\ Marks(c) /\ Stage(c) /\ log[c] \in Seq(Event)
  BY <1>t DEF CountInv, ShapeInv, TypeOK
(* Steps that profile nothing. *)
<1>q. ASSUME UNCHANGED profiler, up' => up,
             \A c \in Conns :
               \/ log'[c] = log[c]
               \/ \E e \in Event :
                    /\ log'[c] = Append(log[c], e) /\ e.type # "command"
                    /\ e.type = "disconnection" =>
                         /\ e.count = profiler[c].commands
                         /\ e.class = SessionClass(profiler[c].commands, profiler[c].recon)
      PROVE  CountInv'
  <2>1. \A c \in Conns :
          ((Counted(c) \/ Ahead(c)) /\ Marks(c))' /\ (Counted(c) => Counted(c)')
    BY <1>t, <1>s, <1>q, CountUntouched
  <2>. QED
    BY <1>t, <2>1 DEF CountInv
<1>e. ASSUME NEW c \in Conns, NEW e \in Event, Emit(c, <<e>>), UNCHANGED profiler,
             e.type # "command",
             e.type = "disconnection" =>
               /\ e.count = profiler[c].commands
               /\ e.class = SessionClass(profiler[c].commands, profiler[c].recon)
      PROVE  CountInv'
  <2>1. /\ (up' => up) /\ \A d \in Conns \ {c} : log'[d] = log[d]
        /\ log'[c] = Append(log[c], e) \/ log'[c] = log[c]
    BY <1>t, <1>e, EmitOne DEF TypeOK
  <2>. QED
    BY <1>e, <1>q, <2>1
<1>1. ASSUME NEW c \in Conns, Connect(c) PROVE CountInv'
  BY <1>t, <1>1, <1>e, EventTypes, EventFields DEF Connect
<1>2. ASSUME NEW c \in Conns, LoginFailed(c) PROVE CountInv'
  <2>1. failing[c] \in Seq(Pairs) /\ failing[c] # <<>>
    BY <1>t, <1>2 DEF LoginFailed, TypeOK
  <2>2. Head(failing[c]) \in Pairs
    BY <2>1
  <2>. QED
    BY <1>t, <1>2, <1>e, <2>2, EventTypes, EventFields DEF LoginFailed
<1>3. ASSUME NEW c \in Conns, FileSent(c) PROVE CountInv'
  BY <1>t, <1>3, <1>e, EventTypes, EventFields DEF FileSent
<1>4. ASSUME NEW c \in Conns, Disconnected(c) PROVE CountInv'
  BY <1>t, <1>4, <1>e, EventTypes, EventFields DEF Disconnected
<1>5. ASSUME NEW c \in Conns, NEW pair \in Pairs, Pass(c, pair) PROVE CountInv'
  <2>1. CASE Refusal(c, pair)
    BY <1>5, <1>q, <2>1 DEF Pass, Refusal
  <2>2. CASE Login(c, pair)
    <3> DEFINE a == Attempt(pair)
               b == Success(pair)
               one == Append(log[c], a)
    <3>1. /\ a \in Event /\ b \in Event
          /\ a.type = "auth_attempt" /\ b.type = "auth_success"
      BY <1>t, EventTypes, EventFields
    <3>2. Emit(c, <<a, b>>) /\ profiler' = profiler /\ up
      BY <1>5, <2>2 DEF Pass, Login
    <3>3. one \in Seq(Event)
      BY <1>s, <3>1, AppendEvent
    <3>. HIDE DEF a, b
    <3>4. /\ \A d \in Conns \ {c} : log'[d] = log[d]
          /\ log'[c] \in {log[c], one, Append(one, b)}
      BY <1>t, <3>1, <3>2, EmitTwo DEF TypeOK
    <3>5. Counted(c)
      BY <1>s, <3>2 DEF Ahead
    <3>6. /\ Cardinality(Positions(one, "command")) = Cardinality(Positions(log[c], "command"))
          /\ Cardinality(Recons(one)) = Cardinality(Recons(log[c]))
      BY <1>s, <3>1, AppendCounts
    <3>p. Positions(one, "disconnection") = Positions(log[c], "disconnection")
      BY <1>s, <3>1, OtherPositions
    <3>7. \A i \in DOMAIN log[c] : one[i] = log[c][i]
      BY <1>s, <3>1, AppendEvent
    <3>. HIDE DEF one
    <3>8. /\ Cardinality(Positions(Append(one, b), "command"))
               = Cardinality(Positions(one, "command"))
          /\ Cardinality(Recons(Append(one, b))) = Cardinality(Recons(one))
      BY <3>1, <3>3, AppendCounts
    <3>r. Positions(Append(one, b), "disconnection") = Positions(one, "disconnection")
      BY <3>1, <3>3, OtherPositions
    <3>9. \A i \in DOMAIN one : Append(one, b)[i] = one[i]
      BY <3>1, <3>3, AppendEvent
    <3>10. Counted(c)'
      BY <3>2, <3>4, <3>5, <3>6, <3>8 DEF Counted
    <3>11. /\ Positions(log'[c], "disconnection") = Positions(log[c], "disconnection")
           /\ \A i \in Positions(log[c], "disconnection") : log'[c][i] = log[c][i]
      BY <3>4, <3>7, <3>9, <3>p, <3>r DEF Positions
    <3>12. Marks(c)'
      <4>1. \A i \in Positions(log[c], "disconnection") :
              /\ log[c][i].count = profiler[c].commands
              /\ log[c][i].class = SessionClass(profiler[c].commands, profiler[c].recon)
        BY <1>s DEF Marks
      <4>2. \A i \in Positions(log'[c], "disconnection") :
              /\ log'[c][i].count = profiler'[c].commands
              /\ log'[c][i].class = SessionClass(profiler'[c].commands, profiler'[c].recon)
        BY <3>2, <3>11, <4>1
      <4>. QED
        BY <4>2 DEF Marks, SessionClass
    <3>13. up' => up
      BY <3>2
    <3>14. \A d \in Conns \ {c} :
             ((Counted(d) \/ Ahead(d)) /\ Marks(d))' /\ (Counted(d) => Counted(d)')
      BY <1>t, <1>s, <3>2, <3>4, <3>13, CountUntouched
    <3>. QED
      BY <1>t, <3>10, <3>12, <3>14 DEF CountInv
  <2>. QED
    BY <1>5, <2>1, <2>2 DEF Pass
<1>6. ASSUME NEW c \in Conns, NEW line \in Lines, Command(c, line) PROVE CountInv'
  <2> DEFINE e == CommandEvent(line)
  <2>1. e \in Event /\ e.type = "command" /\ e.line = strip(line)
    BY <1>t, EventTypes, EventFields
  <2>2. /\ up /\ phase[c] \in {"open", "closing"} /\ Emit(c, <<e>>)
        /\ profiler' = [profiler EXCEPT ![c] = Recorded(c, line)]
    BY <1>6 DEF Command, Emit
  <2>. HIDE DEF e
  <2>3. /\ \A d \in Conns \ {c} : log'[d] = log[d] /\ profiler'[d] = profiler[d]
        /\ profiler'[c] = Recorded(c, line)
        /\ \/ log'[c] = Append(log[c], e)
           \/ log'[c] = log[c] /\ up' = FALSE
    BY <1>t, <2>1, <2>2, EmitOne DEF TypeOK
  <2>4. \A d \in Conns : Counted(d)
    BY <1>s, <2>2 DEF Ahead
  <2>5. Positions(log[c], "disconnection") = {} /\ Positions(log'[c], "disconnection") = {}
    <3>1. Positions(log[c], "disconnection") = {}
      BY <1>s, <2>2 DEF Stage, Positions
    <3>2. Positions(Append(log[c], e), "disconnection") = {}
      BY <1>s, <2>1, <3>1, OtherPositions
    <3>. QED
      BY <2>3, <3>1, <3>2
  <2>6. Marks(c)'
    BY <2>5 DEF Marks
  <2>7. Counted(c)' \/ Ahead(c)'
    <3>1. /\ profiler[c].commands = Cardinality(Positions(log[c], "command"))
          /\ profiler[c].recon = Cardinality(Recons(log[c]))
          /\ profiler'[c].commands = profiler[c].commands + 1
          /\ profiler'[c].recon = profiler[c].recon + (IF IsRecon(strip(line)) THEN 1 ELSE 0)
      BY <2>3, <2>4 DEF Counted, Recorded
    <3>2. CASE log'[c] = Append(log[c], e)
      <4>1. /\ Cardinality(Positions(Append(log[c], e), "command"))
                 = Cardinality(Positions(log[c], "command")) + 1
            /\ Cardinality(Recons(Append(log[c], e)))
                 = Cardinality(Recons(log[c])) + (IF IsRecon(strip(line)) THEN 1 ELSE 0)
        BY <1>s, <2>1, AppendCounts
      <4>. QED
        BY <3>1, <3>2, <4>1 DEF Counted
    <3>3. CASE log'[c] = log[c] /\ up' = FALSE
      BY <3>1, <3>3 DEF Ahead
    <3>. QED
      BY <2>3, <3>2, <3>3
  <2>8. \A d \in Conns \ {c} : (Counted(d) /\ Marks(d))'
    <3>1. up' => up
      BY <2>2
    <3>2. \A d \in Conns \ {c} : Counted(d)' /\ Marks(d)'
      BY <1>t, <1>s, <2>3, <2>4, <3>1, CountUntouched
    <3>. QED
      BY <3>2
  <2>. QED
    BY <1>t, <2>6, <2>7, <2>8 DEF CountInv
<1>7. ASSUME UNCHANGED <<log, profiler>>, up' => up PROVE CountInv'
  BY <1>7, <1>q
<1>. QED
  BY <1>1, <1>2, <1>3, <1>4, <1>5, <1>6, <1>7
     DEF Next, Refuse, Relogin, TransferAborted, Close, RefusedGone, Stop, vars

(* An event tagged RECON shows a command of reconnaissance. *)
ReconEvents ==
  {e \in Event : e.type = "command" /\ e.class = "RECON" => IsRecon(e.line)}

ReconInv == TypeOK /\ log \in [Conns -> Seq(ReconEvents)]

LEMMA ReconInit == Init => ReconInv
<1>1. <<>> \in Seq(ReconEvents)
  OBVIOUS
<1>. QED
  BY <1>1, FtpTypeInit DEF Init, ReconInv

LEMMA ReconStep == ReconInv /\ [Next]_vars => ReconInv'
<1> SUFFICES ASSUME ReconInv, [Next]_vars PROVE ReconInv'
  OBVIOUS
<1>1. TypeOK /\ TypeOK' /\ ReconEvents \in SUBSET Event
  BY FtpTypeStep DEF ReconInv, ReconEvents
<1>2. /\ Entry("connection") \in ReconEvents /\ Entry("file_download") \in ReconEvents
      /\ \A pair \in Pairs : Attempt(pair) \in ReconEvents /\ Success(pair) \in ReconEvents
      /\ \A c \in Conns : Summary(c) \in ReconEvents
  BY <1>1, EventTypes, EventFields DEF ReconEvents
<1>3. ASSUME NEW line \in Lines PROVE CommandEvent(line) \in ReconEvents
  <2>1. /\ CommandEvent(line) \in Event /\ CommandEvent(line).line = strip(line)
        /\ CommandEvent(line).class = (IF IsRecon(line) THEN "RECON" ELSE "")
    BY <1>1, EventTypes, EventFields
  <2>2. IsRecon(line) => IsRecon(strip(line))
    BY DEF IsRecon, strip
  <2>. QED
    BY <2>1, <2>2 DEF ReconEvents
<1>4. log' \in [Conns -> Seq(ReconEvents)]
  BY <1>1, <1>2, <1>3, WrittenIn DEF ReconInv
<1>. QED
  BY <1>1, <1>4 DEF ReconInv

(* The disconnection event of a session counts the command events of its   *)
(* log and judges the session by what those show, blanks in front of a      *)
(* command or not, in all sessions but the one whose command SIGTERM       *)
(* interrupted; the RECON tags are among the commands that count.          *)
THEOREM FtpSummaryAgrees == Spec => []SummaryAgrees
<1>1. CountInv /\ ReconInv => SummaryAgrees
  <2> SUFFICES ASSUME CountInv, ReconInv PROVE SummaryAgrees
    OBVIOUS
  <2> DEFINE Logged(c) == Cardinality(Of(c, "command"))
             Recon(c) == {i \in Of(c, "command") : IsRecon(log[c][i].line)}
             Missed == {c \in Conns : profiler[c].commands # Logged(c)}
  <2>1. ASSUME NEW c \in Conns
        PROVE  /\ Logged(c) = Cardinality(Positions(log[c], "command"))
               /\ Cardinality(Recon(c)) = Cardinality(Recons(log[c]))
               /\ Of(c, "disconnection") = Positions(log[c], "disconnection")
               /\ Logged(c) \in Nat
    <3>1. \A type : Of(c, type) = Positions(log[c], type)
      BY DEF Of, Positions
    <3>2. log[c] \in Seq(Event) /\ Positions(log[c], "command") \in SUBSET DOMAIN log[c]
      BY DEF CountInv, ShapeInv, TypeOK, Positions
    <3>3. Logged(c) \in Nat
      BY <3>1, <3>2, CountPositions
    <3>. QED
      BY <3>1, <3>3 DEF Recons
  <2>2. \A c \in Missed : ~Counted(c) /\ Ahead(c)
    BY <2>1 DEF CountInv, Counted
  <2>3. \A c \in Conns \ Missed : Counted(c) /\ Marks(c)
    <3>1. ASSUME NEW c \in Conns \ Missed PROVE ~Ahead(c)
      <4>1. /\ profiler[c].commands = Cardinality(Positions(log[c], "command"))
            /\ Cardinality(Positions(log[c], "command")) \in Nat
        BY <2>1
      <4>. QED
        BY <4>1 DEF Ahead
    <3>. QED
      BY <3>1 DEF CountInv
  <2>4. up => Missed = {}
    BY <2>2 DEF Ahead
  <2>5. Cardinality(Missed) <= 1
    <3>1. CASE Missed = {}
      BY <3>1, FS_EmptySet
    <3>2. CASE Missed # {}
      <4>1. PICK c \in Missed : TRUE
        BY <3>2
      <4>2. \A d \in Missed : d = c
        BY <2>2 DEF CountInv
      <4>3. Missed = {c}
        BY <4>1, <4>2
      <4>4. Cardinality({c}) = 1
        BY FS_Singleton
      <4>. HIDE DEF Missed
      <4>5. Cardinality(Missed) = 1
        BY <4>3, <4>4
      <4>. QED
        BY <4>5
    <3>. QED
      BY <3>1, <3>2
  <2>6. \A c \in Missed : profiler[c].commands = Logged(c) + 1
    BY <2>1, <2>2 DEF Ahead
  <2>7. \A c \in Conns \ Missed : \A i \in Of(c, "disconnection") :
          /\ log[c][i].count = Logged(c)
          /\ log[c][i].class = SessionClass(Logged(c), Cardinality(Recon(c)))
    BY <2>1, <2>3 DEF Counted, Marks
  <2>8. \A c \in Conns :
          {i \in Of(c, "command") : log[c][i].class = "RECON"} \subseteq Recon(c)
    <3> SUFFICES ASSUME NEW c \in Conns, NEW i \in Of(c, "command"),
                        log[c][i].class = "RECON"
                 PROVE  IsRecon(log[c][i].line)
      OBVIOUS
    <3>1. log[c][i] \in ReconEvents /\ log[c][i].type = "command"
      BY DEF ReconInv, Of
    <3>. QED
      BY <3>1 DEF ReconEvents
  <2>. QED
    BY <2>4, <2>5, <2>6, <2>7, <2>8 DEF SummaryAgrees
<1>. QED
  BY CountInit, CountStep, ReconInit, ReconStep, <1>1, PTL DEF Spec

==============================================================================
