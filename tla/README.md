# LaRuche in TLA+

LaRuche is a set of honeypots (SSH, FTP, HTTP) that log what clients do as JSON
lines, an analyzer that enriches these events, Fluent Bit and OpenObserve that
show them, and an "attacker" program that exercises the whole. This directory
holds TLA+ specifications of its parts, TLC configurations that check them on
small instances, and theorems checked by TLAPS. Every definition is translated
from the source; `PROJECT.json` says from which lines.

    tlc -config ssh_sessions.cfg MCSshSessions      # a run
    tlapm SshSessionsProofs.tla                     # a module of proofs

## 1. The system and its parts

| part | state | operations | modelled in |
|---|---|---|---|
| SSH honeypot, `honeypots/ssh/server.py` | one `SessionRecord` per connection, `_REGISTRY` by client address, one `handle_shell` task per channel | callbacks of `asyncssh.SSHServer`, `handle_shell`, `_handle_command`, shutdown | `SshSessions` |
| SSH classification, `detection.py` | commands and intervals of a session | `classify_command`, `is_escalation`, `profile` | escalation in `Shell`, the count of commands in `SshSessions` |
| emulated shell, `commands.py` | cwd, user, root; one for all channels of a connection | `run_command`, `_resolve`, `_ls` | `Shell` |
| FTP honeypot, `honeypots/ftp/` | per handler: session id, profiler, `_summary_emitted` | callbacks of pyftpdlib's `FTPHandler`, SIGTERM | `FtpSessions` |
| HTTP honeypot, `honeypots/http/app/` | none but the client's cookies | `log_requests`, the routes | `HttpRequests` |
| Apache, `honeypots/proxy/` | none | answers static paths, passes the rest on | `HttpRequests` |
| `EventSink` (three copies) | an append handle and its buffer | `emit`, `close` | `LogPipeline` |
| analyzer passes, `analyzer/enrich.py`, `events.py` | the enriched log | `run_once`, `run_forever`, `iter_events` | `LogPipeline` |
| reputation, `analyzer/enrichers/` | two SQLite caches, `_ip_cache` | `enrich`, `_query_api`, `_store` | `Reputation` |
| behaviour classifier, `analyzer/classifier.py` | none | `classify_session` | `Classifier` |
| profiles of sessions, `analyzer/enrich.py` | the profiles of a pass, the lines written | `session_profiles`, `enrich_event` | `Profiles` |
| provisioner, `openobserve/provision.py` | the dashboards of OpenObserve | wait, list, delete, post | `Provisioner` |
| GeoIP | none | lookup | no |
| Fluent Bit, OpenObserve | offsets; dashboards | tail; store and show | no |
| attacker, `attacker/main.py`, `attacks/` | the plan, threads, reports | discovery, campaigns, brute force, verdicts, consolidated report | `Campaigns` |
| word lists, `attacker/wordlists.py` | a directory of lists and temporary files | `ensure_...`, `_download` | `Wordlists` |
| web attacks, `web_attacks.py` | the plan of pairs, what is left of the limit | probes, discovery, spraying | `WebSpray` |
| fingerprinting, dependency checks of the attacker | none | requests and the reading of their answers | no |

They interact in three ways. Libraries call the honeypots back: asyncssh and
FastAPI on an asyncio loop, pyftpdlib on a loop of its own; in each a callback
runs undisturbed up to its next `await` or return, and what makes them hard is
what happens in between. The honeypots and the analyzer share files only: raw
logs with one writer each, and the enriched log, which is also the analyzer's
memory of what it has done. The analyzer calls two web services through caches.
The attacker is a program of its own: it touches the honeypots only as a client,
runs its campaigns in threads if asked to, and these meet in the word lists.

What is hard in each, and what makes it correct:

- **SSH.** Two callbacks and a task per channel meet in `_REGISTRY`, commands
  sleep between being recorded and being logged, and clients leave at any time.
  Correct when each event is logged under the session of its own connection, no
  recorded command is lost or logged twice, and the summary of a session comes
  true and stays so.
- **Shell.** Channels share one state, and lines act on it when their sleeps end.
  Correct when what the shell says of its user and its place follows from the
  lines in that order, and a path leads where walking it leads.
- **FTP.** The library reports a refused login seconds late and schedules the
  end of a session; lines pipelined behind QUIT are still processed; SIGTERM is
  an exception in whatever runs. Correct when each session's log is in order,
  its summary agrees with its commands, and reuse of SSH credentials is tagged
  exactly.
- **HTTP.** Requests sleep, are abandoned, or never reach the application.
  Correct when each answered request has its complete story in the log, and what
  the admin page shows to whom can be explained from it.
- **Files.** Flushes fail half-way, processes stop inside a line. Correct when
  nothing is written or enriched twice and what was recorded gets enriched.
- **Reputation.** Answers are lost before they are stored, keys come and go.
  Correct when calls are bounded and an answer, once stored, is what every later
  line says.
- **Profiles.** A pass looks at sessions that go on. Correct when each line's
  profile is that of the whole session at some time since its event, and the last
  line comes to be right.
- **Provisioner.** It deletes before it posts, may fail in between, may overlap
  with another run or with a request that was given up. Correct when a run alone
  leaves each title once and no more than one title is lost by a run.
- **Web attacks.** Correct when the limit of attempts is used up and kept, no page
  gets a pair twice, and a trap is told from a weak password.
- **Attacker.** Campaigns run in threads, end in any order or raise, share
  temporary files without knowing it, and Ctrl-C reaches the main thread only.
  Correct when the exit code and the consolidated report are those of the
  campaigns, nothing outlives the program, no part of a list is taken for a
  list, and the noisy brute force is not begun unasked.

`PROJECT.json` lists the hazards line by line with the properties that cover
them, and the components with what is left out of each.

## 2. The modules

Each module has its Init, Next, Spec, TypeOK and so on. In `Reputation`,
`Provisioner` and `WebSpray` these names begin with that of the module, because a
module of proofs extends them together with another component.

### SshSessions (MCSshSessions, SshSessionsProofs)

A step is what the code runs between two awaits.

| code | module |
|---|---|
| `connection_made`, `connection_lost` | `ConnectionMade`, `ConnectionLost`; their writes to `_REGISTRY` are `Publish`, `Withdraw` |
| `begin_auth`, `validate_public_key` | `BeginAuth`, `ValidatePublicKey` |
| `validate_password` before and after its sleep | `ValidatePassword`, `TarpitEnds` |
| `handle_shell` to its first await | `OpenShell`, `OpenExec` with `SessionOf` (the lookup) |
| `readline` returns, `_handle_command` to its sleep | `ReadLine` |
| the sleep ends, to the next await | `CommandEnds` |
| end of file, break | `EndOfInput` |
| SIGTERM | `Shutdown` |

The log is kept per `session_id`. Each event also remembers the connection it
happened on, which the source does not, so that `Correlated` can compare the
two. Of a command line only whether it is `exit` or `logout` is kept; the rest is in
`Shell`. `PeerReuse` says whether a client may use one
(host, port) towards two listeners at once; TCP allows it, the code assumes it
does not happen.

### Shell (MCShell, ShellProofs)

One connection after its login, its channels and the `ShellState` they share.
`attach` is what `handle_shell` does to the state when a channel opens, `after`
what a line does to it, `run_command` what it is answered; `CommandEnds` executes
a line when its sleep is over, so lines act in another order than they were
typed. A directory is the sequence of names that leads to it from `/`; `base` and
`resolve` are `_resolve` (`Take` is one turn of its loop), `dir_key` and `ls` the
catalogue, whose entry for any home, `~HOME~`, is `HomeKey` and the name of nobody.
`done` remembers what was opened and executed, with the answers, and is what the
properties look at: they walk the tree by a name at a time, where the code
resolves a whole path.

### FtpSessions (MCFtpSessions, FtpProofs)

One action per callback of `LoggingFTPHandler` (`Connect`, `Pass` with `Login`
or `Refusal`, `LoginFailed`, `Command`, `FileSent`, `Disconnected`), and one per
thing pyftpdlib does between them that decides what may come next: `Refuse` and
`RefusedGone` beyond `max_cons`, `Relogin`, `TransferAborted`, `Close`. `Emit`
writes a callback's events, or, when SIGTERM interrupts it, a proper beginning
of them. `Parsed`, `Accepted`, `Authorized` and `IsSshCredential` are the
credential lists of `config.py`; the order of a list matters, so lists are
sequences.

A command line reaches `_record_command` twice over: as `cmd`, which pyftpdlib cuts
out of the raw line and by which the event is classified, and as
`raw_line.strip()`, which is logged, recorded, and classified once more for the
summary. `" LIST"` stands for the lines on which the two differ: `strip` is applied
where the code does it (`CommandEvent`, `Recorded`), and `IsRecon` is asked of
either.

### HttpRequests (MCHttpRequests, WebProofs)

`Send` is Apache's decision, `LogRequest` the middleware after its sleep,
`Route` the route, `Leave` the client (or `ProxyTimeout`) closing the
connection. A target is what routes tell apart; `malformed` is the POST of a form
that cannot be parsed, which is answered with 400 after the request event and
before any other. `cookie` says which clients were given `LOGGED_IN_COOKIE`. A
request carries no such cookie, the one its client was given, or one made up: the
route looks at the beginning of a cookie's name only.

### LogPipeline and EventDelivery (LogPipelineProofs)

`LogPipeline` has the sinks and the analyzer. A line of a file is the id of an
event, `junk` (refused by `json.loads`) or `poison` (not UTF-8); a file is its
complete lines and an unfinished `tail`, and `Glue` says what text becomes when
more text follows it on the same line. The four `Emit...` actions are the ways a
write and flush may end: all written; `OSError` with the rest kept in the
handle; `OSError` with a full buffer, so that the new line is dropped; `OSError`
inside a line longer than the buffer. `StartPass`, `AppendLine`, `PassRaises`,
`AnalyzerStops`, `AnalyzerRestarts` are `run_once` and `run_forever`; because a
pass's handle is buffered, nothing orders its lines relative to the honeypots'.

`EventDelivery` is the abstract specification: an event is emitted once, may
become recorded, may become enriched, and nothing is taken back. The refinement
maps `recorded` and `enriched` to the events on complete lines of the raw logs
and of the enriched log.

### Reputation (MCReputation, AnalysisProofs)

The work of one `enrich_event`, provider by provider, cut where the process may
stop: `Lookup` (the answer is known without asking), `Ask` (the web service has
answered), `Store` (the row is committed), `WriteEnriched` (the line is written), and
`Reuse` for an address in `_ip_cache`. `AskRaises` is an answer whose JSON is
not the expected object: nothing catches that exception, the process ends.

### Classifier and Profiles (MCProfiles, AnalysisProofs)

`Classifier` is `classify_session` in exact arithmetic: a rate is compared by
multiplying, and the coefficient of variation through the sum of the squares of
the gaps. The thresholds are constants. `Profiles` has the honeypots writing
events of several sessions (`Log`), a pass (`StartPass`, `AppendLine`) that
classifies all of each session when it begins and writes the result on the lines
that are missing, and an analyzer that stops between two lines.

### Provisioner (MCProvisioner, AnalysisProofs)

| code | module |
|---|---|
| `compose` or an operator starts it | `StartRun` |
| `wait_ready` | `ServerReady`, `GiveUp` |
| `existing_by_title` | `List` |
| the loop over what was found | `Delete`, `DeleteGone` (404), `AllDeleted` |
| the POST, the next file | `Post` |
| a request raises or the run is killed | `Fail` |
| a request given up after 15 s arrives after all | `LateDelete`, `LatePost` |

Dashboards are numbered in the order of their creation. In which order
OpenObserve lists them is its own affair (`oldestFirst`, either). `sole` is the
run that nothing has come between since it began.

### WebSpray (MCWebSpray, WebProofs)

`attack_cms` and `attack_generic` request by request: `Probe` and `Probed`,
`enumerate_wordpress_users` and `cred_plan`, `Discover` and `Discovered`, then
`Attempt` and `VectorEnds` for each login form (`Vectors`), the injections, and
what `analyze_logins` makes of the pairs that were accepted. Word lists, the report
of dirsearch and the users found may overlap and repeat themselves: `Distinct` is
applied where the code drops repetitions (`dict.fromkeys` in `attack_cms`, `not in`
in `_parse_dirsearch_json` and `attack_generic`) and nowhere else. Three targets
answer: the login routes of the HTTP honeypot of this repository, a trap that
lets everybody in, a wall that lets nobody in; any answer may be lost. A text is
the set of the words that `login_succeeded` looks for in it. `VectorsAssumption`
says of the tables of `web_attacks.py` what the properties need: no marker of a
success is a marker of a failure or a word of a refusal of the honeypot, the form
of WordPress is among the forms, the tables repeat nothing, and `SUSPECT_THRESHOLD` is at most the weight of
the evidence a trap gives (85).

### Campaigns and Wordlists (MCCampaigns, CampaignsProofs)

`Wordlists` is `_download` for any number of threads. Contents of a file are the
set of blocks written to it, since one who truncates it takes blocks from under
another who goes on writing. What a thread has open is a file and not a name:
`at` says under which name it is found now, and `Rename` and the unlink in
`Fail` move the files of the others.

`Campaigns` has the main thread and one campaign per service:

| code | module |
|---|---|
| `_preflight`, `discover_services` fail | `StartFails` |
| `_plan_campaigns`; `_cmd_ssh`, `_cmd_ftp`, `_cmd_http` | `Discover`, `Single` |
| the pool, or the list of calls | `Due` |
| `is_reachable`, `detect_...` | `Unreachable`, `Reachable` |
| `resolve_...`, `ensure_...` | `Resolve`, `Fetch`, `Fetching`, `Fetched`, `FetchFails` |
| `run_credential_bruteforce`, `prompt_yes_no` | `TryDefaults`, `Answer`, `TryAll`, `SkipHydra`; for HTTP `Spray` |
| `analyze_logins` | `Judge`, `Compare` |
| post-exploitation | `Loot` |
| `write_report` | `Report` |
| an exception of a campaign | `Raise` |
| end of `_cmd_all`, of the pool, of `main` | `Finish`, `Crash`, `Interrupt`, `Interrupted` |

Whether dirsearch is installed is a part of `options`: without it, or with
`--skip-dirsearch`, a web campaign asks for no list of directories (`Searches`).

`Wordlists` is instantiated with the campaigns as workers and is at the same time
the specification that `Campaigns` refines (`ImplementsWordlists`).

## 3. The runs

| run | instance | shows |
|---|---|---|
| `ssh_sessions` | 2 connections, 2 channels, 2 addresses, 2 users, 2 attempts and 3 commands per session | `Correlated`, `StreamShape`, `NoCommandLost`, `SummaryComesTrue` |
| `shell` | 2 channels, 2 logins, 16 lines, 5 openings and lines in all | `IdentityExplained`, `PlacesExplained` |
| `shell_root` | 2 channels, 4 openings and lines in all | **violation** of `RootStays` |
| `ftp_sessions` | 2 connections, one of which may be refused, 3 pairs on two lists, 2 logins, 2 commands, with blanks in front or not | `StreamShape`, `SummaryAgrees`, `ReuseTagged`, `DownloadsExplained`, `EverythingReported` |
| `pipeline` | 2 honeypots, 3 events, a buffer of 1 line, 2 stops, every fragment | `RawOnce`, `AtMostOnce`, `DecodableGetsEnriched`, refinement of `EventDelivery` |
| `pipeline_utf8` | 1 honeypot, 2 events, undecodable fragments | **violation** of `RecordedGetsEnriched` |
| `profiles` | 2 sessions, 4 events of 4 kinds, gaps of 0 and 30 s, 1 stop, thresholds that 4 events reach | `ProfileExplained`, `ScannerIsFinal`, `Settles` |
| `web` | the HTTP honeypot: 2 requests, 2 clients, 8 targets, 3 sorts of cookies, 1 stop | `RequestStory`, `AdminExplained`, `LoggedGetsCaptured` |
| | the web attack: 3 targets, 2 kinds of attack, 2 login forms, up to 2 users and 3 passwords with repetitions, 3 reports of dirsearch, limits of 0 to 7 | `AttemptsExact`, `NoLoginTwice`, `TrapIsSuspected`, `BaitIsFound` |
| `http_cookie` | the HTTP honeypot as above | **violation** of `AdminAfterLogin` |
| `spray_limit` | the web attack as above | **violation** of `LimitCapsAttack` |
| `programs` | the attacker: 3 services; `all` with two of them in threads or three in sequence, `ssh` and `ftp` with other options; 2 blocks; all lists there at the start but, in some behaviours, the passwords | `AllAccounted`, `VerdictAgrees`, `EndsClean`, `CachedDefaultsSuffice`, `Ends`, refinement of `Wordlists` |
| | the analyzer's lookups: 2 events of a public and 1 of a private address, 2 verdicts, 2 stops | `CallsBounded`, `VerdictIsFinal`, `EverythingIsWritten` |
| | the provisioner: 3 runs, 2 titles, at most 1 dashboard before | `SoleRunIsExact`, `LostByOneRun`, `RivalsLeaveOne`, `RunsEnd` |
| `wordlists_shared` | 2 threads, 1 list of 2 blocks | **violation** of `CachedIsWhole` |

`web` and `programs` check components that share nothing, side by side: in each
behaviour `part` says which of them it is about, all others stay as they are at the
start, and the next-state relations are those of the components, action by action.
The instances are those of `MCHttpRequests`, `MCWebSpray`, `MCCampaigns`,
`MCReputation` and `MCProvisioner`; no state is lost by checking them in one run,
and none is added that a component could tell from its own.

The type invariants of `FtpSessions` and `HttpRequests` are checked by their
runs and proved; those of the other modules are proved (section 4), so no run
repeats them. Of the state of `Shell` and `WebSpray` the proofs type what they
need as a part of their invariants; `EventDelivery` is a specification only.

Every property of a passing run comes with a mutant (an operator defined just
before the one it replaces, marked "Mutant of" in the modules) under which TLC
finds it violated, so none holds by the shape of the model.

**Why these bounds.** The hazards of SSH need two actors of each sort: two
connections for one address used again, two channels of one connection, and a
third command while another sleeps and one is logged. In the shell five events
let one channel open, read, escalate or move, and another open or act in
between; the paths go above `/`, and to both homes by more than one way. In FTP
a second login is needed for a late refusal to arrive after an accepted one, a
second command for the ratio behind `recon_session` to differ from all or
nothing, and a second connection for the limit. Two HTTP requests interleave in
every way two can, and a login followed by a visit to the admin page takes two; a
cookie that is made up takes one.
In the pipeline three events are enough for a held line, a line glued to it and
a third that gets through, and two stops for a torn line that meets another one.
In `Reputation` two stops let an answer be lost twice, and two events of one
address let the table, the memory of the process and a new process answer for
it. Two campaigns in threads meet in one list, and two blocks tell an empty
list, a part and a whole apart; three in sequence are needed for one before and
one after that which fails. The passwords, which every campaign wants, are the
list that may be missing (`KeptLists`); the weights 0, 45 and 80 lie on both
sides of the threshold of 50, alone and together, and beyond the cap with a
bonus. In sequence no campaign interrupts another, so one list is fetched by one
of them. In `profiles` a session of four events goes through all four profiles
and a second one may keep a pass busy meanwhile; a gap of 0 is the case without
a rate. Of three runs of the provisioner one may have failed earlier while two
overlap; two titles make a run go from one file to the next. The limits 0 to 7
lie below, at and above the number of pairs, of those of one form and of those
of all forms; the lists repeat an element, a report repeats a path, names the root
and one that is known, and a user that is found is also in a list.

`CHECK_DEADLOCK FALSE` is set everywhere: clients may fall silent, processes may
be stopped, and the bounds run out.

**Fairness.** Only what the schedulers guarantee. An event loop runs timers and
tasks that are due: weak fairness of `CommandEnds` and `TarpitEnds`; of
`LogRequest` and `Route`; of `LoginFailed` and `Disconnected`. `run_forever`
starts passes and goes through them, and compose restarts the process: weak
fairness of `StartPass`, of appending and of the restart. The threads of the
attacker run, and its commands and requests have timeouts (that of hydra is an
option): weak fairness of the steps of each campaign that wait for nothing else.
urlretrieve has no timeout and a user need not answer, so `Ends` says that the
program ends unless it waits for one of the two for ever. Clients, disks,
networks and signals owe nothing: no fairness on any of their actions. That
stops are finite is a bound of the models (`MaxStops`), needed for progress: an
analyzer killed in every pass makes none. The provisioner's wait has a deadline
and its requests a timeout, so runs come to an end (`RunsEnd`), whatever
OpenObserve does.

**Findings.** The violated properties are statements of the repository's own
comments and documents which the code does not keep:

1. One line that is not UTF-8 stops the analyzer for good ("lignes invalides
   ignorées").
2. Two threads that fetch one list share its temporary file, and an empty or
   partial file can become the list, for good (`test_wordlists.py`: a partial
   write leaves nothing).

3. A channel that opens after an escalation gives the root shell its login name
   back (server.py:308), while "la session passe en root (prompt #, whoami root)"
   (server.py:268). `IdentityExplained` says what holds nevertheless.
4. A cookie whose name begins with `wordpress_logged_in` opens the admin page, also
   one the client has made up (wordpress.py:132), while the comment above it says
   "uniquement avec un cookie de session valide (post-login)". `AdminExplained` says
   what holds of the others.
5. `--max-login-attempts` is the "cap on credential-spray attempts"
   (docs/ATTACKER.md:150), but each login form of a CMS gets all of it
   (web_attacks.py:464). `AttemptsExact` says what holds of either kind of attack,
   and does not say which of the two limits is meant.

Met while modelling and not given a run:

- `_REGISTRY` is keyed by the client's address alone (server.py:73; "unique par
  connexion TCP"), which two connections to the two listeners may share: with
  `PeerReuse = TRUE` and two listeners TLC refutes `Correlated`, and the theorem
  about it has `PeerReuse = FALSE` as its hypothesis.
- Without the list of default credentials the brute force begins with the large
  lists, unasked though not without a warning (common.py:531; "We never run the large
  list silently", common.py:492). `CachedDefaultsSuffice` speaks of lists that are in
  the cache and stay there only.
- In a generic attack the first page and the first names of fields may use all of the
  limit, so that the others are not tried.
- A blank in front of an FTP command hides it from the tag RECON (server.py:131) and
  not from the tag of the session (server.py:126). `SummaryAgrees` states both.
- An address can cost more than one call although the comments say one
  (`CallsBounded` says how many); of two SSH pairs of one user only the first is
  accepted on FTP; what Apache answers itself is not logged.

## 4. The proofs

Every invariant, action property and refinement that a passing run checks is also a
theorem: TLAPS checks it for every value of the constants that satisfies the
assumptions named in the modules. A theorem that needs more than those says so in
its hypothesis, and the hypothesis is one that the deployment can be held against.
Almost no property is inductive as it stands; what each adds is named below.

**SshSessionsProofs**

- `SshTyped`: the type invariant, for any instance.
- `SshRegistryExact`, `SshCorrelated`, under `PeerReuse = FALSE`. The registry needs
  that two open connections have different addresses, which `ConnectionMade` keeps
  because of `Free`. Correlation needs in addition that the task of every channel
  holds the record of its own connection, which the registry gives at the moment
  the channel opens and nothing changes afterwards. The hypothesis cannot be
  dropped (see the observations above).
- `SshStreamShape`, under the same hypothesis: `StreamState` says for each state of a
  connection, of its authentication and of its channels what its log must hold.
- `SshNoCommandLost`, with no hypothesis about addresses: `Balanced` counts, for each
  record, the commands in its log and the channels asleep over one of its own.

**ShellProofs**

- `ShellIdentityExplained`: the state of the shell is what the events so far make of
  it; channels and their order do not matter because a line reads the state only
  when it is executed. Of whoami it says what it answers before an escalation and
  from there to the next opening of a channel; finding 3 is about the rest.
- `ShellPlacesExplained`: whole paths, resolved by a fold, against a walk of one
  name at a time (`Traced`). The invariant `Placed` says that a walk through all
  that was done exists, and that every such walk ends where the state of the shell
  is and explains each answer. `TakeIsMove` compares one turn of the loop with one
  step of the walk, `WalkExists` and `WalksTogether` make a walk of the steps and
  compare two, and `ResolveIsWalk` compares the results.

**LogPipelineProofs**

- `PipelineTyped`.
- `PipelineAtMostOnce`: the events a pass has yet to write are in no line of the
  output.
- `PipelineRawOnce`: `PlacedOnce` says that an event is in one place only, a line, a
  tail or a handle, and in it once, and that text cut off in a tail is of the
  first line its handle still holds.
- `PipelineImplements`: every step of the sinks and the analyzer maps to a step or
  a stutter of `EventDelivery`. The invariant says that whatever a raw log, a
  handle, a pass or the enriched log contains was emitted; the lemmas on `Glue`
  say that gluing never makes an event out of other text.

**FtpProofs**

- `FtpTyped`.
- `FtpStreamShape`: `Stage` says what the log of a handler looks like at each
  point of its life, and `Shaped` is kept by each way to add to a log, a callback
  cut off by SIGTERM included.
- `FtpReuseTagged`, under `ListsAgree`: if an accepted pair is named in
  `FTP_SSH_CREDENTIALS` at all, it is what this list names first for its user.
  Both lists become dictionaries by user; without the hypothesis the code accepts a
  pair through one list that the other one hides, and does not tag it.
- `FtpDownloadsExplained`: a transfer under way was asked for by a RETR of its
  session that no `file_download` is about yet.
- `FtpSummaryAgrees`: the profiler agrees with the commands the log shows (`Counted`),
  but for at most one session, once SIGTERM has come (`Ahead`); and the line of an
  event tagged RECON is reconnaissance without its blanks too (`ReconInv`).

**AnalysisProofs** (`Reputation`, `Profiles`, `Provisioner`)

- `ReputationTyped`; `ReputationCallsBounded`, by accounting: a stored row or an
  answer in hand settles one call to a provider about an address, the others were
  lost, and each stop loses one call to one provider at most;
  `ReputationVerdictIsFinal`, from the invariant that memory and the work in hand
  agree with the tables.
- `ProfilesTyped`; `ProfilesExplained` and `ProfilesLastWord`, from the invariant
  that a pass has seen a prefix of each session, that its profiles are those of
  the prefixes, and that what is written is a prefix of what is seen;
  `ProfilesScannerIsFinal`, because the paths and agents of a prefix are among
  those of the session, so that scanning is never lost.
- `ProvisionerTyped`, `ProvisionerLostByOneRun`, `ProvisionerSoleRunIsExact`,
  `ProvisionerRivalsLeaveOne`: a run deletes dashboards of the title it works on
  only, posts when nothing of what it listed is left, and a request given up
  belongs to a run that was interrupted at that title. For the run alone one adds
  that what it has listed is all there is of the title; for rivals, that a run
  which deletes the oldest first has the newest last.

**CampaignsProofs** (with `Wordlists` as `W`)

- `WordlistsTyped`; `WordlistsWhole`: whatever fails, a cached list that no two
  workers have fetched at once is whole. Of a list outside `shared`, at most one
  worker has it in hand, the temporary file then holds exactly the blocks this
  worker has written, and nobody has the final file open.
- `CampaignsTyped`; `CampaignsImplementWordlists`: every step of the program is a
  step or a stutter of `Wordlists`; `CampaignsListsWhole` follows from it and
  `WordlistsWhole`, without a look at the campaigns.
- `CampaignsAccounted`: a campaign that is done has a report and changes no more,
  and the main thread goes on only after all of them.
- `CampaignsVerdict`: a report holds an assessment exactly if its campaign
  succeeded, and what is shown at the end was consolidated from the reports of all
  of them. Lemmas on the maximum of a set of scores and on the cap of the combined
  score show that it says no less than the worst.
- `CampaignsEndClean`: `InTurn` (in sequence, whoever has begun, all before it are
  done), `Quiet` (after the end nobody is under way) and `TmpOwned` (a temporary
  file is that of a download under way, unless an interrupt came).
- `CampaignsFrugal`: where nobody can answer and the default list stays, a campaign
  has taken this list or takes it next, so that the large ones stay out.

**WebProofs** (`HttpRequests`, `WebSpray`)

- `HttpTyped`.
- `HttpRequestStory`: `ToldAsReached` says which beginning of its story a request
  has told at each point of its way.
- `HttpAdminExplained`: whoever sends the given cookie had an answer that gave it, and
  the login this answer was about is in the log; nobody sees the page without a
  cookie. What a client with a cookie of its own making sees is finding 4.
- `SprayAttemptsExact`, `SprayNoLoginTwice`, `SprayTrapIsSuspected`: one invariant,
  `SprayInv`. Before the spray nothing has been tried (`Fresh`); what the forms
  before this one have used and what they have left adds up (`Spent`); paths
  discovered differ, whatever the report repeats (`PagesDiffer`), and the pairs of a
  plan do unless a list repeats itself (`Planned`, `PlanDiffers`); only what was tried is found, and once
  (`FoundWasTried`); what was tried and is taken is found unless an answer was lost
  (`TakenIsFound`); and two passwords of one user weigh 85 (`Weighed`).
- `SprayBaitIsFound`, under `NoEmptyCredentials`: no allowed pair of the honeypot has
  an empty half. `_parse_credentials` would take one, and then the honeypot lets
  in whoever sends a form whose fields it does not know.

**SequenceFacts** has what these proofs share: one more element of a sequence, sets
of places in it, and the folds in which loops over a list are written. The value
of a fold after n elements is a function of n that starts at the base and goes on
by the operator (`FoldSteps`). The libraries state this by an induction theorem
with an operator parameter, which the provers here cannot use; the lemmas find a
least counterexample instead (`LeastOf`).

Only model-checked: the liveness properties (`SummaryComesTrue`,
`EverythingReported`, `LoggedGetsCaptured`, `DecodableGetsEnriched`, `Settles`,
`EverythingIsWritten`, `Ends`, `RunsEnd`), because weak fairness and `ENABLED`
are outside what the prover can do. Of what a recursive definition computes for
every input little could be proved (induction over data): the folds were reached
as above, but that the classifier's sums are those of Python's `statistics`, and
that exact comparisons come out as those of floating point, is by inspection.

## 5. Not modelled, and why

- Text: prompts, pages, banners, file names, regular expressions. Commands,
  targets and credentials are abstracted to what the properties tell apart.
- Wall-clock time: jitter, tarpit lengths, throttling, and the `profile()`
  functions that depend on measured intervals.
- asyncssh, pyftpdlib, Starlette and Apache beyond the order in which they call
  the code; Fluent Bit and OpenObserve.
- GeoIP, a lookup in a read-only file, and the decoy tree of the FTP honeypot, a table
  written at start.
- Severities, categories and tags of events, and the scanner and exploit detection of
  the HTTP honeypot: regular expressions over one line or request, without state.
- Of the attacker: fingerprinting (`web_fingerprint.py`, weights of regular
  expressions), nikto, dependency checks (`deps.py`, calls of the package manager),
  and the findings and wording of reports. In `Campaigns` what a login shows is a
  weight chosen freely among those the code may add up to; `WebSpray` derives it from
  the answers.

## 6. Plan

Done, in this order, each with its proofs: A `SshSessions`; B `LogPipeline` over
`EventDelivery`; C `Reputation`; D `FtpSessions`; E `HttpRequests`; F
`Provisioner`; G `Wordlists` and `Campaigns`; H `Classifier` and `Profiles`, and
`Shell`; I `WebSpray`.

What is left: the safety halves of the liveness properties, as `ProfilesLastWord`
is of `Settles` (for instance that a pass which ends has written every decodable
event it found); that under distinct names in both lists `ListsAgree` holds, so that
`FtpReuseTagged` has a hypothesis one can check by looking at the configuration;
and proofs that lean less on large leaves.
