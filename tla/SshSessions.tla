---------------------------- MODULE SshSessions ----------------------------
(***************************************************************************)
(* The SSH honeypot (honeypots/ssh/server.py): one asyncio loop in which   *)
(* the callbacks of asyncssh.SSHServer, one handle_shell task per channel  *)
(* and the timers of their sleeps interleave.  A step is what runs between *)
(* two awaits.                                                             *)
(*                                                                         *)
(* Each TCP connection makes one SessionRecord, kept by its HoneypotServer *)
(* and published in _REGISTRY under the client's (host, port); a channel   *)
(* finds its session again by looking that address up.  The record of      *)
(* connection c is named c; the record a channel h has to make for itself  *)
(* when the lookup finds nothing is named h.  What the sink writes is kept *)
(* per session_id, which is how its readers group it.  What a line does to *)
(* the shell and what it is answered is in Shell.                          *)
(***************************************************************************)
EXTENDS Naturals, Sequences, FiniteSets

CONSTANTS
  Conns,        \* TCP connections, each used at most once
  Chans,        \* session channels, each used at most once
  Peers,        \* client addresses (host, port)
  Listeners,    \* the keys of config.port_map
  Logins,       \* user names clients try
  Passwords,
  Credentials,  \* config.allowed_credentials
  Kinds,        \* the kinds of command lines clients type
  PeerReuse,    \* may a client use one (host, port) towards two listeners?
  NoRecord,     \* dict.get on a missing key
  MaxAttempts,  \* bound: password or key attempts per connection
  MaxCommands   \* bound: commands recorded per session

(* What handle_shell tells apart in a line. *)
CommandKinds == {"plain", "exit"}

ASSUME SshAssumption ==
  /\ IsFiniteSet(Chans)
  /\ Conns \cap Chans = {}
  /\ NoRecord \notin Conns \cup Chans
  /\ Credentials \subseteq Logins \X Passwords
  /\ Kinds \subseteq CommandKinds
  /\ PeerReuse \in BOOLEAN
  /\ MaxAttempts \in Nat
  /\ MaxCommands \in Nat
  /\ "" \notin Logins

VARIABLES
  up,        \* the process runs and its sink is open
  conn,      \* the connections, as asyncssh sees them
  registry,  \* _REGISTRY
  record,    \* the SessionRecords
  chan,      \* the handle_shell tasks
  log        \* the events written, per session_id

vars == <<up, conn, registry, record, chan, log>>

Records == Conns \cup Chans

(***************************************************************************)
(* Events.  The field conn is not in the source: it remembers on which     *)
(* connection the event really happened, for the properties.               *)
(***************************************************************************)
EventTypes ==
  {"connection", "auth_attempt", "auth_success", "command", "disconnection"}

Event == [type : EventTypes, conn : Conns, kind : Kinds \cup {""}, count : Nat]

Entry(type, c, kind, count) ==
  [type |-> type, conn |-> c, kind |-> kind, count |-> count]

Happened(type, c) == Entry(type, c, "", 0)

Emit(r, events) == log' = [log EXCEPT ![r] = @ \o events]

(* A SessionRecord as its constructor leaves it. *)
FreshRecord ==
  [user |-> "", authenticated |-> FALSE, interactive |-> TRUE, commands |-> 0,
   summary |-> FALSE]

IsAllowed(u, p) == u # "root" /\ <<u, p>> \in Credentials

Attempts(c) ==
  Cardinality({i \in DOMAIN log[c] : log[c][i].type = "auth_attempt"})

(* Mutant of Publish: the key is the host alone, the same for all peers. *)
PublishByHost(c, p) == [q \in Peers |-> c]

(* _REGISTRY[(host, port)] = record and _REGISTRY.pop((host, port), None). *)
Publish(c, p) == [registry EXCEPT ![p] = c]

Withdraw(c) == [registry EXCEPT ![conn[c].peer] = NoRecord]

----------------------------------------------------------------------------
Init ==
  /\ up = TRUE
  /\ conn = [c \in Conns |-> [state |-> "none", peer |-> NoRecord,
                              listener |-> NoRecord, auth |-> "idle"]]
  /\ registry = [p \in Peers |-> NoRecord]
  /\ record = [r \in Records |-> FreshRecord]
  /\ chan = [h \in Chans |-> [state |-> "none", conn |-> NoRecord,
                              rec |-> NoRecord, exec |-> FALSE, line |-> ""]]
  /\ log = [r \in Records |-> <<>>]

(***************************************************************************)
(* A TCP connection is identified by the client's address and the listener *)
(* that accepted it, so two open ones differ in at least one of the two.   *)
(***************************************************************************)
Free(p, l) ==
  \A d \in Conns :
    conn[d].state = "open" /\ conn[d].peer = p
      => PeerReuse /\ conn[d].listener # l

ConnectionMade(c, p, l) ==
  /\ up
  /\ conn[c].state = "none"
  /\ Free(p, l)
  /\ conn' = [conn EXCEPT ![c] = [state |-> "open", peer |-> p,
                                  listener |-> l, auth |-> "idle"]]
  /\ registry' = Publish(c, p)
  /\ Emit(c, <<Happened("connection", c)>>)
  /\ UNCHANGED <<up, record, chan>>

(* asyncssh calls begin_auth whenever the client names another user. *)
BeginAuth(c, u) ==
  /\ up
  /\ conn[c].state = "open"
  /\ conn[c].auth = "idle"
  /\ u # record[c].user
  /\ record' = [record EXCEPT ![c].user = u]
  /\ UNCHANGED <<up, conn, registry, chan, log>>

(* Up to the return of True, or up to the tarpit's sleep. *)
ValidatePassword(c, p) ==
  LET u == record[c].user
      attempt == Happened("auth_attempt", c)
  IN
  /\ up
  /\ conn[c].state = "open"
  /\ conn[c].auth = "idle"
  /\ u # ""
  /\ Attempts(c) < MaxAttempts
  /\ \/ /\ IsAllowed(u, p)
        /\ record' = [record EXCEPT ![c].authenticated = TRUE]
        /\ Emit(c, <<attempt, Happened("auth_success", c)>>)
        /\ conn' = [conn EXCEPT ![c].auth = "done"]
     \/ /\ ~IsAllowed(u, p)
        /\ Emit(c, <<attempt>>)
        /\ conn' = [conn EXCEPT ![c].auth = "tarpit"]
        /\ UNCHANGED record
  /\ UNCHANGED <<up, registry, chan>>

(* The tarpit's sleep ends: validate_password returns False. *)
TarpitEnds(c) ==
  /\ up
  /\ conn[c].state = "open"
  /\ conn[c].auth = "tarpit"
  /\ conn' = [conn EXCEPT ![c].auth = "idle"]
  /\ UNCHANGED <<up, registry, record, chan, log>>

(* Mutant of AuthAfterKey: validate_public_key returns True. *)
AuthAfterKeyAccepted == "done"

(* validate_public_key returns False: the client goes on to passwords. *)
AuthAfterKey == "idle"

ValidatePublicKey(c) ==
  /\ up
  /\ conn[c].state = "open"
  /\ conn[c].auth = "idle"
  /\ record[c].user # ""
  /\ Attempts(c) < MaxAttempts
  /\ Emit(c, <<Happened("auth_attempt", c)>>)
  /\ conn' = [conn EXCEPT ![c].auth = AuthAfterKey]
  /\ UNCHANGED <<up, registry, record, chan>>

----------------------------------------------------------------------------
(***************************************************************************)
(* handle_shell.  asyncssh starts it on an authenticated connection, and   *)
(* its first segment runs before any later callback of that connection.    *)
(***************************************************************************)
SessionOf(h, c) ==
  IF registry[conn[c].peer] = NoRecord THEN h ELSE registry[conn[c].peer]

OpenShell(h, c) ==
  /\ up
  /\ chan[h].state = "none"
  /\ conn[c].state = "open"
  /\ conn[c].auth = "done"
  /\ chan' = [chan EXCEPT ![h] = [state |-> "reading", conn |-> c,
                                  rec |-> SessionOf(h, c), exec |-> FALSE, line |-> ""]]
  /\ UNCHANGED <<up, conn, registry, record, log>>

(* `ssh user@host cmd`: the command is recorded, then the task sleeps. *)
OpenExec(h, c, kind) ==
  LET r == SessionOf(h, c) IN
  /\ up
  /\ chan[h].state = "none"
  /\ conn[c].state = "open"
  /\ conn[c].auth = "done"
  /\ record[r].commands < MaxCommands
  /\ record' = [record EXCEPT ![r].interactive = FALSE, ![r].commands = @ + 1]
  /\ chan' = [chan EXCEPT ![h] = [state |-> "sleeping", conn |-> c, rec |-> r,
                                  exec |-> TRUE, line |-> kind]]
  /\ UNCHANGED <<up, conn, registry, log>>

(* readline returns: _handle_command up to its sleep. *)
ReadLine(h, kind) ==
  /\ up
  /\ chan[h].state = "reading"
  /\ record[chan[h].rec].commands < MaxCommands
  /\ record' = [record EXCEPT ![chan[h].rec].commands = @ + 1]
  /\ chan' = [chan EXCEPT ![h].state = "sleeping", ![h].line = kind]
  /\ UNCHANGED <<up, conn, registry, log>>

(* Mutant of CommandEvents: nothing is logged once the client has gone. *)
CommandEventsWhileOpen(h) ==
  IF conn[chan[h].conn].state = "open"
  THEN <<Entry("command", chan[h].conn, chan[h].line, 0)>>
  ELSE <<>>

CommandEvents(h) ==
  <<Entry("command", chan[h].conn, chan[h].line, 0)>>

Stops(h) ==
  \/ chan[h].exec
  \/ chan[h].line = "exit"
  \/ conn[chan[h].conn].state # "open"

(***************************************************************************)
(* The sleep ends: the rest of _handle_command, then handle_shell up to    *)
(* its next await.  It stops after an exec command, after exit or logout,  *)
(* and when the connection has gone meanwhile, because the write of the    *)
(* next prompt raises or stdin is at its end.                              *)
(***************************************************************************)
CommandEnds(h) ==
  /\ up
  /\ chan[h].state = "sleeping"
  /\ Emit(chan[h].rec, CommandEvents(h))
  /\ chan' = [chan EXCEPT ![h].state = IF Stops(h) THEN "done" ELSE "reading",
                          ![h].line = ""]
  /\ UNCHANGED <<up, conn, registry, record>>

(* End of file or a break on the channel: handle_shell returns. *)
EndOfInput(h) ==
  /\ up
  /\ chan[h].state = "reading"
  /\ chan' = [chan EXCEPT ![h].state = "done"]
  /\ UNCHANGED <<up, conn, registry, record, log>>

----------------------------------------------------------------------------
(* Mutant of Summary: only the commands already logged are counted. *)
SummaryOfLogged(c) ==
  Entry("disconnection", c, "",
        Cardinality({i \in DOMAIN log[c] : log[c][i].type = "command"}))

Summary(c) == Entry("disconnection", c, "", record[c].commands)

(* asyncssh cancels a pending authentication and ends the readers. *)
ConnectionLost(c) ==
  /\ up
  /\ conn[c].state = "open"
  /\ conn' = [conn EXCEPT ![c].state = "lost",
                          ![c].auth = IF @ = "tarpit" THEN "idle" ELSE @]
  /\ IF record[c].summary
     THEN UNCHANGED <<record, log>>
     ELSE /\ record' = [record EXCEPT ![c].summary = TRUE]
          /\ Emit(c, <<Summary(c)>>)
  /\ registry' = Withdraw(c)
  /\ chan' = [h \in Chans |->
                IF chan[h].conn = c /\ chan[h].state = "reading"
                THEN [chan[h] EXCEPT !.state = "done"]
                ELSE chan[h]]
  /\ UNCHANGED up

(***************************************************************************)
(* SIGTERM: the listeners and the sink are closed, asyncio.run cancels     *)
(* what is left.  No summary is written for the sessions that are open.    *)
(***************************************************************************)
Shutdown ==
  /\ up
  /\ up' = FALSE
  /\ UNCHANGED <<conn, registry, record, chan, log>>

Next ==
  \/ \E c \in Conns, p \in Peers, l \in Listeners : ConnectionMade(c, p, l)
  \/ \E c \in Conns, u \in Logins : BeginAuth(c, u)
  \/ \E c \in Conns, p \in Passwords : ValidatePassword(c, p)
  \/ \E c \in Conns : TarpitEnds(c)
  \/ \E c \in Conns : ValidatePublicKey(c)
  \/ \E h \in Chans, c \in Conns : OpenShell(h, c)
  \/ \E h \in Chans, c \in Conns, k \in Kinds : OpenExec(h, c, k)
  \/ \E h \in Chans, k \in Kinds : ReadLine(h, k)
  \/ \E h \in Chans : CommandEnds(h)
  \/ \E h \in Chans : EndOfInput(h)
  \/ \E c \in Conns : ConnectionLost(c)
  \/ Shutdown

Spec == Init /\ [][Next]_vars

(***************************************************************************)
(* The event loop fires every timer that is due: a sleeping command or     *)
(* tarpit ends unless its task is cancelled.  Clients owe nothing.         *)
(***************************************************************************)
Fairness ==
  /\ \A h \in Chans : WF_vars(CommandEnds(h))
  /\ \A c \in Conns : WF_vars(TarpitEnds(c))

FairSpec == Spec /\ Fairness

----------------------------------------------------------------------------
(***************************************************************************)
(* Properties.                                                             *)
(***************************************************************************)
ConnState == [state : {"none", "open", "lost"}, peer : Peers \cup {NoRecord},
              listener : Listeners \cup {NoRecord},
              auth : {"idle", "tarpit", "done"}]

RecordState == [user : Logins \cup {""}, authenticated : BOOLEAN,
                interactive : BOOLEAN, commands : Nat, summary : BOOLEAN]

ChanState == [state : {"none", "reading", "sleeping", "done"},
              conn : Conns \cup {NoRecord}, rec : Records \cup {NoRecord},
              exec : BOOLEAN, line : Kinds \cup {""}]

(* The type of every variable; what is in use names real objects. *)
TypeOK ==
  /\ up \in BOOLEAN
  /\ conn \in [Conns -> ConnState]
  /\ \A c \in Conns : conn[c].state # "none" => conn[c].peer \in Peers
  /\ registry \in [Peers -> Records \cup {NoRecord}]
  /\ record \in [Records -> RecordState]
  /\ chan \in [Chans -> ChanState]
  /\ \A h \in Chans : chan[h].state # "none"
       => chan[h].conn \in Conns /\ chan[h].rec \in Records
  /\ \A h \in Chans : chan[h].state = "sleeping" => chan[h].line \in Kinds
  /\ log \in [Records -> Seq(Event)]

(* _REGISTRY holds exactly the open connections, each under its own        *)
(* address: connection_made and connection_lost neither leak an entry nor  *)
(* drop or replace the one of another connection.                          *)
RegistryExact ==
  /\ \A c \in Conns : conn[c].state = "open" => registry[conn[c].peer] = c
  /\ \A p \in Peers : registry[p] # NoRecord
       => /\ registry[p] \in Conns
          /\ conn[registry[p]].state = "open"
          /\ conn[registry[p]].peer = p

(* Every event of a session_id happened on the connection that opened the  *)
(* session (docs/HONEYPOTS.md: "Session ID to group all events from the    *)
(* same connection"); in particular handle_shell never logs under a record *)
(* it had to make for itself.                                              *)
Correlated ==
  \A r \in Records : \A i \in DOMAIN log[r] : log[r][i].conn = r

Before(r, i, type) == \E j \in 1 .. i - 1 : log[r][j].type = type

(* Each session's events open with its connection event and hold it once;  *)
(* it has at most one disconnection, after which only commands that were   *)
(* still sleeping may follow; and a command only comes after the           *)
(* auth_success of its session, so no shell activity is ever attributed to *)
(* a session that did not log in.                                          *)
StreamShape ==
  \A r \in Records : \A i \in DOMAIN log[r] :
    /\ (log[r][i].type = "connection") = (i = 1)
    /\ Before(r, i, "disconnection") => log[r][i].type = "command"
    /\ log[r][i].type = "command" => Before(r, i, "auth_success")

Logged(r) == {i \in DOMAIN log[r] : log[r][i].type = "command"}

Sleeping(r) == {h \in Chans : chan[h].state = "sleeping" /\ chan[h].rec = r}

(* While the process runs, the commands a session's profiler has recorded  *)
(* are those logged plus those whose sleep is not over: none is logged     *)
(* twice or forgotten, however the channels of the connection interleave.  *)
NoCommandLost ==
  up => \A r \in Records :
          record[r].commands = Cardinality(Logged(r)) + Cardinality(Sleeping(r))

(* Unless the process stops, the log of a closed session comes to hold, and *)
(* keeps holding, as many commands as its disconnection announced: those    *)
(* that slept when the client left are counted and logged, and none is      *)
(* recorded after the summary.                                              *)
SummaryComesTrue ==
  \A c \in Conns :
    (conn[c].state = "lost")
      ~> [](~up \/ \E i \in DOMAIN log[c] :
                     /\ log[c][i].type = "disconnection"
                     /\ log[c][i].count = Cardinality(Logged(c)))

============================================================================
