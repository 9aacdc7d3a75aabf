---------------------------- MODULE FtpSessions ----------------------------
(***************************************************************************)
(* The FTP honeypot (honeypots/ftp/server.py): LoggingFTPHandler overrides *)
(* callbacks of pyftpdlib, whose single-threaded loop runs one callback at *)
(* a time.  Two of them come later than what they report: on_login_failed, *)
(* which the library delays, and on_disconnect, which it schedules when    *)
(* the handler closes.  SIGTERM raises SystemExit in whatever callback is  *)
(* running, between any two of its events.                                 *)
(*                                                                         *)
(* One handler is one connection and one session_id, so the events are     *)
(* kept per connection.  A command line is what the profiler and           *)
(* classify_command tell apart in it; directories, file names and the      *)
(* severities they give are left out, and so is the profile, which depends *)
(* on timing.                                                              *)
(***************************************************************************)
EXTENDS Naturals, Sequences, FiniteSets, FiniteSetsExt

CONSTANTS
  Conns,           \* connections, each used at most once
  Pairs,           \* the pairs <<user, password>> clients try
  FtpCredentials,  \* FTP_ALLOWED_CREDENTIALS, a sequence of pairs
  SshCredentials,  \* FTP_SSH_CREDENTIALS, a sequence of pairs
  AnonymousEnabled,
  Lines,           \* the kinds of command lines clients send
  MaxOpen,         \* connections pyftpdlib accepts at once (its max_cons)
  None,
  MaxAttempts,     \* bound: refused or accepted logins over all sessions
  MaxCommands      \* bound: other commands over all sessions

(* LIST stands for every command of _RECON_COMMANDS, NOOP for the others,   *)
(* and " LIST" for one of the former with blanks in front.                  *)
CommandLines == {"LIST", " LIST", "RETR", "NOOP"}

ASSUME FtpAssumption ==
  /\ IsFiniteSet(Conns)
  /\ Pairs \subseteq STRING \X STRING
  /\ FtpCredentials \in Seq(STRING \X STRING)
  /\ SshCredentials \in Seq(STRING \X STRING)
  /\ AnonymousEnabled \in BOOLEAN
  /\ Lines \subseteq CommandLines
  /\ MaxOpen \in Nat
  /\ MaxAttempts \in Nat
  /\ MaxCommands \in Nat
  /\ None \notin Pairs \cup CommandLines

VARIABLES
  up,        \* no SIGTERM yet
  phase,     \* the handlers, as pyftpdlib sees them
  loggedIn,  \* FTPHandler.authenticated
  failing,   \* refused pairs whose on_login_failed has yet to run
  transfer,  \* is a file being sent?
  profiler,  \* the SessionProfilers: commands recorded, recon ones among them
  summary,   \* _summary_emitted
  log        \* the events written, per session_id

vars == <<up, phase, loggedIn, failing, transfer, profiler, summary, log>>

----------------------------------------------------------------------------
(* Credentials. *)

(* _parse_credentials: of the pairs of one user the first is kept. *)
Parsed(raw) ==
  {raw[i] : i \in {i \in DOMAIN raw : \A j \in 1 .. i - 1 : raw[j][1] # raw[i][1]}}

(* accepted_credentials: the FTP accounts go first, root never. *)
Accepted ==
  {pair \in Parsed(FtpCredentials) \cup Parsed(SshCredentials) :
     /\ pair[1] # "root"
     /\ \/ pair \in Parsed(FtpCredentials)
        \/ \A other \in Parsed(FtpCredentials) : other[1] # pair[1]}

(* What build_authorizer's DummyAuthorizer lets in. *)
Authorized(pair) ==
  \/ AnonymousEnabled /\ pair[1] = "anonymous"
  \/ pair \in Accepted

(* Mutant of IsSshCredential: the user name decides. *)
IsSshUser(pair) == \E other \in Parsed(SshCredentials) : other[1] = pair[1]

IsSshCredential(pair) == pair[1] # "root" /\ pair \in Parsed(SshCredentials)

----------------------------------------------------------------------------
(* Events. *)

Event ==
  [type : {"connection", "auth_attempt", "auth_success", "command",
           "file_download", "disconnection"},
   creds : Pairs \cup {None},
   line : CommandLines \cup {None},
   class : {"", "RECON", "CREDENTIAL_STUFFING", "recon_session"},
   count : Nat]

Entry(type) ==
  [type |-> type, creds |-> None, line |-> None, class |-> "", count |-> 0]

Attempt(pair) == [Entry("auth_attempt") EXCEPT !.creds = pair]

Success(pair) ==
  [Entry("auth_success") EXCEPT
     !.creds = pair,
     !.class = IF IsSshCredential(pair) THEN "CREDENTIAL_STUFFING" ELSE ""]

(* raw_line.strip(): blanks around a line are neither logged nor recorded. *)
strip(line) == IF line = " LIST" THEN "LIST" ELSE line

(* Does the first word of the line, up to a blank, name a command of        *)
(* reconnaissance?  The library cuts cmd out of the raw line in this way,   *)
(* and _recon_ratio the first word out of a recorded one.                   *)
IsRecon(line) == line = "LIST"

(* Mutant of CommandEvent: only reconnaissance is worth its command line. *)
CommandEventOfRecon(line) ==
  [Entry("command") EXCEPT !.line = IF IsRecon(line) THEN strip(line) ELSE None,
                           !.class = IF IsRecon(line) THEN "RECON" ELSE ""]

(* The event shows the line without its blanks; classify_command looks at   *)
(* cmd, which is empty if blanks come first.                                *)
CommandEvent(line) ==
  [Entry("command") EXCEPT !.line = strip(line),
                           !.class = IF IsRecon(line) THEN "RECON" ELSE ""]

(* session_classification: is the session tagged recon_session? *)
SessionClass(commands, recon) ==
  IF commands > 0 /\ 5 * recon >= 4 * commands THEN "recon_session" ELSE ""

Summary(c) ==
  [Entry("disconnection") EXCEPT
     !.class = SessionClass(profiler[c].commands, profiler[c].recon),
     !.count = profiler[c].commands]

(* A callback's events, all of them or those before SystemExit. *)
Whole(c, events) ==
  /\ log' = [log EXCEPT ![c] = @ \o events]
  /\ UNCHANGED up

Interrupted(c, events) ==
  /\ \E n \in 0 .. Len(events) - 1 :
       log' = [log EXCEPT ![c] = @ \o SubSeq(events, 1, n)]
  /\ up' = FALSE

Emit(c, events) == Whole(c, events) \/ Interrupted(c, events)

----------------------------------------------------------------------------
Init ==
  /\ up = TRUE
  /\ phase = [c \in Conns |-> "none"]
  /\ loggedIn = [c \in Conns |-> FALSE]
  /\ failing = [c \in Conns |-> <<>>]
  /\ transfer = [c \in Conns |-> FALSE]
  /\ profiler = [c \in Conns |-> [commands |-> 0, recon |-> 0]]
  /\ summary = [c \in Conns |-> FALSE]
  /\ log = [c \in Conns |-> <<>>]

Full == Cardinality({c \in Conns : phase[c] \in {"open", "refused"}}) >= MaxOpen

(* on_connect *)
Connect(c) ==
  /\ up
  /\ phase[c] = "none"
  /\ ~Full
  /\ phase' = [phase EXCEPT ![c] = "open"]
  /\ Emit(c, <<Entry("connection")>>)
  /\ UNCHANGED <<loggedIn, failing, transfer, profiler, summary>>

(* pyftpdlib answers 421 and closes without calling on_connect. *)
Refuse(c) ==
  /\ up
  /\ phase[c] = "none"
  /\ Full
  /\ phase' = [phase EXCEPT ![c] = "refused"]
  /\ UNCHANGED <<up, loggedIn, failing, transfer, profiler, summary, log>>

Attempted(c) ==
  Cardinality({i \in DOMAIN log[c] : log[c][i].type = "auth_attempt"})
    + Len(failing[c])

Attempts == MapThenSumSet(Attempted, Conns)

(* USER in the middle of a session: the library forgets the login. *)
Relogin(c) ==
  /\ up
  /\ phase[c] \in {"open", "closing"}
  /\ loggedIn[c]
  /\ loggedIn' = [loggedIn EXCEPT ![c] = FALSE]
  /\ UNCHANGED <<up, phase, failing, transfer, profiler, summary, log>>

(* on_login: a pair the authorizer accepts. *)
Login(c, pair) ==
  /\ Authorized(pair)
  /\ loggedIn' = [loggedIn EXCEPT ![c] = TRUE]
  /\ Emit(c, <<Attempt(pair), Success(pair)>>)
  /\ UNCHANGED failing

(* A pair it refuses: the library keeps it for on_login_failed. *)
Refusal(c, pair) ==
  /\ ~Authorized(pair)
  /\ failing' = [failing EXCEPT ![c] = Append(@, pair)]
  /\ UNCHANGED <<up, loggedIn, log>>

(* USER and PASS of a client that is not logged in, perhaps behind QUIT. *)
Pass(c, pair) ==
  /\ up
  /\ phase[c] \in {"open", "closing"}
  /\ ~loggedIn[c]
  /\ Attempts < MaxAttempts
  /\ Login(c, pair) \/ Refusal(c, pair)
  /\ UNCHANGED <<phase, transfer, profiler, summary>>

(* Mutant of LoginFailed: nothing is logged once the handler is closed. *)
LoginFailedWhileOpen(c) ==
  /\ up
  /\ failing[c] # <<>>
  /\ failing' = [failing EXCEPT ![c] = Tail(@)]
  /\ IF phase[c] = "open"
     THEN Emit(c, <<Attempt(Head(failing[c]))>>)
     ELSE UNCHANGED <<up, log>>
  /\ UNCHANGED <<phase, loggedIn, transfer, profiler, summary>>

(* on_login_failed, some seconds after the PASS, the connection open or not. *)
LoginFailed(c) ==
  /\ up
  /\ failing[c] # <<>>
  /\ failing' = [failing EXCEPT ![c] = Tail(@)]
  /\ Emit(c, <<Attempt(Head(failing[c]))>>)
  /\ UNCHANGED <<phase, loggedIn, transfer, profiler, summary>>

Commands(c) == profiler[c].commands

(* Mutant of Recorded: a command typed before the login is only counted as *)
(* recon.                                                                   *)
RecordedReconOnly(c, line) ==
  [commands |-> profiler[c].commands + (IF loggedIn[c] THEN 1 ELSE 0),
   recon |-> profiler[c].recon + (IF IsRecon(strip(line)) THEN 1 ELSE 0)]

(* Mutant of Recorded: the raw line is recorded, blanks and all. *)
RecordedRaw(c, line) ==
  [commands |-> profiler[c].commands + 1,
   recon |-> profiler[c].recon + (IF IsRecon(line) THEN 1 ELSE 0)]

(* SessionProfiler.record, of the line without its blanks *)
Recorded(c, line) ==
  [commands |-> profiler[c].commands + 1,
   recon |-> profiler[c].recon + (IF IsRecon(strip(line)) THEN 1 ELSE 0)]

MaySend(c, line) ==
  /\ line = "RETR"
  /\ phase[c] = "open"
  /\ loggedIn[c]
  /\ ~transfer[c]

(***************************************************************************)
(* pre_process_command: any line but USER and PASS is recorded and logged, *)
(* before the library looks at it and whatever it then answers.  The lines *)
(* a client sent together with QUIT are still processed.                   *)
(***************************************************************************)
Command(c, line) ==
  /\ up
  /\ phase[c] \in {"open", "closing"}
  /\ MapThenSumSet(Commands, Conns) < MaxCommands
  /\ profiler' = [profiler EXCEPT ![c] = Recorded(c, line)]
  /\ \/ /\ Whole(c, <<CommandEvent(line)>>)
        /\ transfer' = [transfer EXCEPT ![c] = @ \/ MaySend(c, line)]
     \/ Interrupted(c, <<CommandEvent(line)>>) /\ UNCHANGED transfer
  /\ UNCHANGED <<phase, loggedIn, failing, summary>>

(* on_file_sent: the data channel closes after the last byte was sent. *)
FileSent(c) ==
  /\ up
  /\ transfer[c]
  /\ transfer' = [transfer EXCEPT ![c] = FALSE]
  /\ Emit(c, <<Entry("file_download")>>)
  /\ UNCHANGED <<phase, loggedIn, failing, profiler, summary>>

(* An incomplete transfer has a callback of its own, not overridden. *)
TransferAborted(c) ==
  /\ up
  /\ transfer[c]
  /\ transfer' = [transfer EXCEPT ![c] = FALSE]
  /\ UNCHANGED <<up, phase, loggedIn, failing, profiler, summary, log>>

----------------------------------------------------------------------------
(* The handler closes: the client left, sent QUIT, was idle or failed to   *)
(* log in too often.                                                       *)
Close(c) ==
  /\ up
  /\ phase[c] = "open"
  /\ phase' = [phase EXCEPT ![c] = "closing"]
  /\ transfer' = [transfer EXCEPT ![c] = FALSE]
  /\ UNCHANGED <<up, loggedIn, failing, profiler, summary, log>>

(* Mutant of Once: _summary_emitted is not consulted. *)
OnceOrMore(c) == TRUE

Once(c) == ~summary[c]

(* on_disconnect, once the handler or close_all has closed the connection; *)
(* it does nothing the second time.                                        *)
Disconnected(c) ==
  /\ phase[c] \in {"closing", "gone"} \/ (~up /\ phase[c] = "open")
  /\ Once(c)
  /\ phase' = [phase EXCEPT ![c] = "gone"]
  /\ summary' = [summary EXCEPT ![c] = TRUE]
  /\ Emit(c, <<Summary(c)>>)
  /\ UNCHANGED <<loggedIn, failing, transfer, profiler>>

(* on_disconnect of a handler that was refused, and so has no profiler. *)
RefusedGone(c) ==
  /\ phase[c] = "refused"
  /\ phase' = [phase EXCEPT ![c] = "refused_gone"]
  /\ UNCHANGED <<up, loggedIn, failing, transfer, profiler, summary, log>>

(***************************************************************************)
(* SIGTERM while the loop waits.  serve_forever and main then close every  *)
(* handler and the sink; whether an on_disconnect still runs in between is *)
(* the library's choice, so Disconnected may or may not follow.            *)
(***************************************************************************)
Stop ==
  /\ up
  /\ up' = FALSE
  /\ UNCHANGED <<phase, loggedIn, failing, transfer, profiler, summary, log>>

Next ==
  \/ \E c \in Conns :
       \/ Connect(c) \/ Refuse(c)
       \/ Relogin(c) \/ LoginFailed(c)
       \/ FileSent(c) \/ TransferAborted(c)
       \/ Close(c) \/ Disconnected(c) \/ RefusedGone(c)
  \/ \E c \in Conns, pair \in Pairs : Pass(c, pair)
  \/ \E c \in Conns, line \in Lines : Command(c, line)
  \/ Stop

Spec == Init /\ [][Next]_vars

(* The loop runs every callback that is due; clients owe nothing. *)
Fairness ==
  \A c \in Conns : WF_vars(LoginFailed(c)) /\ WF_vars(Disconnected(c))

FairSpec == Spec /\ Fairness

----------------------------------------------------------------------------
(***************************************************************************)
(* Properties.                                                             *)
(***************************************************************************)

(* The type of every variable. *)
TypeOK ==
  /\ up \in BOOLEAN
  /\ phase \in [Conns -> {"none", "refused", "refused_gone", "open", "closing",
                       "gone"}]
  /\ loggedIn \in [Conns -> BOOLEAN]
  /\ failing \in [Conns -> Seq(Pairs)]
  /\ transfer \in [Conns -> BOOLEAN]
  /\ profiler \in [Conns -> [commands : Nat, recon : Nat]]
  /\ \A c \in Conns : profiler[c].recon <= profiler[c].commands
  /\ summary \in [Conns -> BOOLEAN]
  /\ log \in [Conns -> Seq(Event)]

Of(c, type) == {i \in DOMAIN log[c] : log[c][i].type = type}

(* A session's log begins with its connection event (unless SIGTERM cut it *)
(* off) and holds it once; what follows its disconnection can only be a    *)
(* refused login reported late; and an auth_success comes right after the  *)
(* auth_attempt with the same credentials.                                 *)
StreamShape ==
  \A c \in Conns : \A i \in DOMAIN log[c] :
    LET e == log[c][i] IN
    /\ e.type = "connection" => i = 1
    /\ i = 1 => e.type = "connection" \/ (~up /\ e.type = "disconnection")
    /\ \A j \in 1 .. i - 1 :
         log[c][j].type = "disconnection" => e.type = "auth_attempt"
    /\ e.type = "auth_success" => i > 1 /\ log[c][i - 1] = Attempt(e.creds)

(* The disconnection event tells what its session's command events tell:   *)
(* their number, and whether the commands they show are at least 80%       *)
(* reconnaissance.  Every event tagged RECON is among those that count,    *)
(* but not the reverse: blanks in front of a command hide it from the tag  *)
(* (cmd, server.py:119) and not from the summary (raw_line.strip(),        *)
(* server.py:123).  Only the one command SIGTERM interrupts can be counted *)
(* and not logged.                                                         *)
SummaryAgrees ==
  LET Logged(c) == Cardinality(Of(c, "command"))
      Recon(c) == {i \in Of(c, "command") : IsRecon(log[c][i].line)}
      Cut == {c \in Conns : profiler[c].commands # Logged(c)}
  IN
  /\ up => Cut = {}
  /\ Cardinality(Cut) <= 1
  /\ \A c \in Cut : profiler[c].commands = Logged(c) + 1
  /\ \A c \in Conns : {i \in Of(c, "command") : log[c][i].class = "RECON"} \subseteq Recon(c)
  /\ \A c \in Conns \ Cut : \A i \in Of(c, "disconnection") :
       /\ log[c][i].count = Logged(c)
       /\ log[c][i].class = SessionClass(Logged(c), Cardinality(Recon(c)))

InSequence(pair, raw) == \E i \in DOMAIN raw : raw[i] = pair

(* A login is tagged as the reuse of SSH credentials exactly when its pair *)
(* is one of those the SSH honeypot accepts (config.py: FTP_SSH_CREDENTIALS *)
(* is to be kept equal to SSH_ALLOWED_CREDENTIALS), and root never logs in. *)
ReuseTagged ==
  \A c \in Conns : \A i \in Of(c, "auth_success") :
    LET e == log[c][i] IN
    /\ e.creds[1] # "root"
    /\ e.class = "CREDENTIAL_STUFFING" <=> InSequence(e.creds, SshCredentials)

(* Every download that is reported was asked for: before the n-th          *)
(* file_download of a session there are n RETR commands and a login, and   *)
(* nothing is sent to a client that never logged in.                       *)
DownloadsExplained ==
  \A c \in Conns : \A i \in Of(c, "file_download") :
    /\ Cardinality({j \in Of(c, "file_download") : j <= i})
         <= Cardinality({j \in Of(c, "command") : j < i /\ log[c][j].line = "RETR"})
    /\ \E j \in Of(c, "auth_success") : j < i

(* Unless the process stops, every refused pair gets its auth_attempt, also *)
(* when the client has left before the library reports the refusal          *)
(* (build_authorizer: refused logins are captured all the same), and every  *)
(* session that was opened and closed gets its one summary.                 *)
EverythingReported ==
  \A c \in Conns :
    /\ \A pair \in Pairs :
         (\E i \in DOMAIN failing[c] : failing[c][i] = pair)
           ~> (~up \/ \E i \in DOMAIN log[c] : log[c][i] = Attempt(pair))
    /\ (phase[c] = "closing") ~> (~up \/ Cardinality(Of(c, "disconnection")) = 1)

============================================================================
