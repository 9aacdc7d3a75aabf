------------------------------- MODULE Shell -------------------------------
(***************************************************************************)
(* The emulated shell of the SSH honeypot (honeypots/ssh/commands.py) as   *)
(* handle_shell and _handle_command (server.py) drive it.  The channels of *)
(* a connection share one ShellState: what one of them does between two    *)
(* commands of another is seen by the latter.  Each line is answered when  *)
(* the sleep that follows its reading ends, so lines are executed in an    *)
(* order that need not be the one they were typed in.                      *)
(*                                                                         *)
(* A directory is the sequence of the names that lead to it from /.  Of    *)
(* the commands, those whose answer is a fixed text are one verb, "text".  *)
(***************************************************************************)
EXTENDS Naturals, Sequences, FiniteSets, SequencesExt

CONSTANTS
  Logins,    \* the accounts that may log in
  Chans,     \* the session channels of the connection, each used once
  Lines,     \* what clients type
  MaxEvents  \* bound: channels opened and lines read

Verbs == {"cd", "ls", "pwd", "home", "whoami", "id", "escalate", "exit", "text"}

\* "absent" and "home" are the arguments "" and ~, or what follows ~/.
Path == [from : {"absent", "root", "home", "cwd"}, segments : Seq(STRING)]
Line == [verb : Verbs, sudo : BOOLEAN, path : Path]

\* What the catalogue has for the current home, ~HOME~.  It is no name: names are
\* what is between slashes.
HomeKey == "~/"

ASSUME ShellAssumption ==
  /\ Logins \subseteq STRING \ {"root", ".", "..", HomeKey}
  /\ Lines \subseteq Line
  /\ \A line \in Lines : /\ HomeKey \notin Range(line.path.segments)
                         /\ line.path.from = "absent" => line.path.segments = <<>>
  /\ MaxEvents \in Nat

VARIABLES
  login,      \* the account the connection logged in with
  connected,
  shell,      \* record.shell
  chan,       \* the handle_shell tasks
  done        \* the channels opened and the lines answered, in order

vars == <<login, connected, shell, chan, done>>

NoPath == [from |-> "absent", segments |-> <<>>]
NoLine == [verb |-> "text", sudo |-> FALSE, path |-> NoPath]

Answer(kind, who, dir) == [kind |-> kind, who |-> who, dir |-> dir]
Quiet == Answer("quiet", "", <<>>)
Event(verb, path, answer) == [verb |-> verb, path |-> path, answer |-> answer]
Opened == Event("open", NoPath, Quiet)

----------------------------------------------------------------------------
(***************************************************************************)
(* ShellState and its paths.                                               *)
(***************************************************************************)
home(s) == IF s.is_root THEN <<"root">> ELSE <<"home", s.user>>

\* Mutant of base: a relative path starts at home, wherever the shell is.
baseHome(s, path) ==
  CASE path.from = "root" -> path.segments
    [] path.from \in {"home", "cwd"} -> home(s) \o path.segments

base(s, path) ==
  CASE path.from = "root" -> path.segments
    [] path.from = "home" -> home(s) \o path.segments
    [] path.from = "cwd" -> s.cwd \o path.segments

\* .. at / stays at /.
Take(parts, segment) ==
  CASE segment = "." -> parts
    [] segment = ".." -> IF parts = <<>> THEN parts ELSE Front(parts)
    [] OTHER -> Append(parts, segment)

resolve(s, path) ==
  IF path.from = "absent" THEN home(s) ELSE FoldLeft(Take, <<>>, base(s, path))

\* The catalogue knows the home of the current user by a key of its own.
dir_key(s, dir) ==
  IF IsPrefix(home(s), dir)
  THEN <<HomeKey>> \o SubSeq(dir, Len(home(s)) + 1, Len(dir))
  ELSE dir

DIR_PLAIN ==
  {<<>>, <<"home">>, <<"tmp">>, <<"var">>, <<"var", "www">>, <<"var", "log">>,
   <<"etc">>, <<HomeKey>>, <<HomeKey, "app">>, <<"var", "www", "app">>}

\* Mutant of ls: the permission is looked up for the argument as it was typed.
lsTyped(s, path) ==
  LET key == dir_key(s, IF path.from = "absent" THEN s.cwd ELSE resolve(s, path))
  IN CASE path.from = "root" /\ path.segments = <<"root">> /\ ~s.is_root
            -> Answer("denied", "", <<>>)
       [] key \in DIR_PLAIN -> Answer("listing", "", key)
       [] OTHER -> Quiet

\* Without a path, the current directory; one that is not known is empty.
ls(s, path) ==
  LET key == dir_key(s, IF path.from = "absent" THEN s.cwd ELSE resolve(s, path))
  IN CASE key = <<"root">> /\ ~s.is_root -> Answer("denied", "", <<>>)
       [] key \in DIR_PLAIN -> Answer("listing", "", key)
       [] OTHER -> Quiet

escalate_to_root == [user |-> "root", is_root |-> TRUE, cwd |-> <<"root">>]

\* `sudo cmd` runs cmd for the same user.
after(s, line) ==
  CASE line.verb = "escalate" -> escalate_to_root
    [] line.verb = "cd" -> [s EXCEPT !.cwd = resolve(s, line.path)]
    [] OTHER -> s

run_command(s, line) ==
  CASE line.verb = "ls" -> ls(s, line.path)
    [] line.verb = "pwd" -> Answer("dir", "", s.cwd)
    [] line.verb = "home" -> Answer("dir", "", home(s))
    [] line.verb = "whoami" -> Answer("user", s.user, <<>>)
    [] line.verb = "id" -> Answer("user", IF s.is_root THEN "root" ELSE s.user, <<>>)
    [] OTHER -> Quiet

----------------------------------------------------------------------------
(***************************************************************************)
(* The channels.                                                           *)
(***************************************************************************)
Sleeping == {h \in Chans : chan[h].state = "sleeping"}
Room(n) == Len(done) + Cardinality(Sleeping) + n <= MaxEvents

Init ==
  /\ login \in Logins
  /\ connected = TRUE
  /\ shell = [user |-> login, is_root |-> FALSE, cwd |-> <<"home", login>>]
  /\ chan = [h \in Chans |-> [state |-> "none", exec |-> FALSE, line |-> NoLine]]
  /\ done = <<>>

\* Mutant of attach: each channel has a shell of its own.
attachFresh ==
  [user |-> login, is_root |-> FALSE, cwd |-> <<"home", login>>]

\* handle_shell starts: the user is the login again, root or not.
attach ==
  [shell EXCEPT !.user = login,
                !.cwd = IF shell.is_root THEN @ ELSE <<"home", login>>]

Starts(h, state, exec, line) ==
  /\ connected
  /\ chan[h].state = "none"
  /\ shell' = attach
  /\ chan' = [chan EXCEPT ![h] = [state |-> state, exec |-> exec, line |-> line]]
  /\ done' = Append(done, Opened)
  /\ UNCHANGED <<login, connected>>

OpenShell(h) == Room(1) /\ Starts(h, "reading", FALSE, NoLine)

\* `ssh user@host cmd`: one line, which sleeps at once.
OpenExec(h, line) == Room(2) /\ Starts(h, "sleeping", TRUE, line)

ReadLine(h, line) ==
  /\ chan[h].state = "reading"
  /\ Room(1)
  /\ chan' = [chan EXCEPT ![h].state = "sleeping", ![h].line = line]
  /\ UNCHANGED <<login, connected, shell, done>>

Stops(h) ==
  \/ ~connected
  \/ chan[h].exec
  \/ chan[h].line.verb = "exit" /\ ~chan[h].line.sudo

\* The sleep ends: the rest of _handle_command, then up to the next readline.
CommandEnds(h) ==
  LET line == chan[h].line IN
  /\ chan[h].state = "sleeping"
  /\ shell' = after(shell, line)
  /\ done' = Append(done, Event(line.verb, line.path, run_command(shell, line)))
  /\ chan' = [chan EXCEPT ![h] = [state |-> IF Stops(h) THEN "done" ELSE "reading",
                                  exec |-> @.exec, line |-> NoLine]]
  /\ UNCHANGED <<login, connected>>

EndOfInput(h) ==
  /\ chan[h].state = "reading"
  /\ chan' = [chan EXCEPT ![h].state = "done"]
  /\ UNCHANGED <<login, connected, shell, done>>

\* The channels that read are at their end; a line that sleeps is still executed.
ConnectionLost ==
  /\ connected
  /\ connected' = FALSE
  /\ chan' = [h \in Chans |-> IF chan[h].state = "reading"
                              THEN [chan[h] EXCEPT !.state = "done"] ELSE chan[h]]
  /\ UNCHANGED <<login, shell, done>>

Next ==
  \/ \E h \in Chans : \/ OpenShell(h)
                      \/ CommandEnds(h)
                      \/ EndOfInput(h)
  \/ \E h \in Chans, line \in Lines : OpenExec(h, line) \/ ReadLine(h, line)
  \/ ConnectionLost

Spec == Init /\ [][Next]_vars

----------------------------------------------------------------------------
(***************************************************************************)
(* Properties.                                                             *)
(***************************************************************************)
ChanState ==
  [state : {"none", "reading", "sleeping", "done"}, exec : BOOLEAN,
   line : Lines \cup {NoLine}]

TypeOK ==
  /\ login \in Logins
  /\ connected \in BOOLEAN
  /\ shell \in [user : Logins \cup {"root"}, is_root : BOOLEAN, cwd : Seq(STRING)]
  /\ chan \in [Chans -> ChanState]
  /\ done \in Seq([verb : Verbs \cup {"open"}, path : Path,
                   answer : [kind : STRING, who : STRING, dir : Seq(STRING)]])

\* Has the session escalated before the n-th event?
RootBefore(n) == \E i \in 1 .. n - 1 : done[i].verb = "escalate"

\* ... and has no channel been opened since?
RootSince(n) ==
  \E i \in 1 .. n - 1 : /\ done[i].verb = "escalate"
                        /\ \A j \in i + 1 .. n - 1 : done[j].verb # "open"

\* Whatever the channels and the order in which their lines are executed, id
\* answers root, and $HOME is /root, exactly once one line of the connection has
\* escalated (US-04).  Before that whoami answers the login, and from an escalation
\* to the next opening of a channel it answers root.  What it answers after that
\* opening is the subject of RootStays.
IdentityExplained ==
  \A n \in DOMAIN done :
    LET said == done[n].answer IN
    /\ done[n].verb = "id" => said.who = IF RootBefore(n) THEN "root" ELSE login
    /\ done[n].verb = "whoami" /\ RootSince(n) => said.who = "root"
    /\ done[n].verb = "whoami" /\ ~RootBefore(n) => said.who = login
    /\ done[n].verb = "home" =>
         (said.dir = <<"root">>) = RootBefore(n)

\* "escalade réussie → la session passe en root (prompt #, whoami root)"
\* (server.py:268): the state is the session's, so a session that has escalated is
\* root in all of its channels, those opened later included.  The code violates it:
\* handle_shell gives shell.user the login again whenever a channel opens.
RootStays ==
  \A n \in DOMAIN done :
    done[n].verb = "whoami" /\ RootBefore(n) => done[n].answer.who = "root"

(***************************************************************************)
(* Where a walk of the tree leads: it moves by a name at a time from where *)
(* the shell was left by the events before, never by way of a whole path.  *)
(***************************************************************************)
Move(dir, segment) ==
  CASE segment = "." -> dir
    [] segment = ".." -> SubSeq(dir, 1, Len(dir) - 1)
    [] OTHER -> Append(dir, segment)

Walk(dir, path, own) ==
  LET start == CASE path.from = "root" -> <<>>
                 [] path.from \in {"home", "absent"} -> own
                 [] path.from = "cwd" -> dir
  IN FoldLeft(Move, start, path.segments)

\* Where an event leaves a shell that was at dir, own being its home.
Onward(dir, e, own) ==
  CASE e.verb = "escalate" -> <<"root">>
    [] e.verb = "open" /\ own # <<"root">> -> own
    [] e.verb = "cd" -> Walk(dir, e.path, own)
    [] OTHER -> dir

\* The home, and the place, where the n-th event finds the shell.
HomeAt(n) == IF RootBefore(n) THEN <<"root">> ELSE <<"home", login>>

Whereabouts[n \in 1 .. Len(done) + 1] ==
  IF n = 1 THEN <<"home", login>>
  ELSE Onward(Whereabouts[n - 1], done[n - 1], HomeAt(n - 1))

Explains(here, e, own) ==
  LET there == IF e.path.from = "absent" THEN here ELSE Walk(here, e.path, own)
      said == e.answer
  IN /\ e.verb = "pwd" => said.dir = here
     /\ e.verb = "ls" =>
          /\ (said.kind = "denied") = (there = <<"root">> /\ own # <<"root">>)
          /\ (said.kind = "listing" /\ said.dir = <<HomeKey>>) = (there = own)

\* pwd and ls answer for the directory to which the cd's of all channels, in the
\* order of their execution, lead from the last opening (that is not root's) or
\* escalation: _resolve never climbs above /, and a path leads to the same place
\* whether it is walked at once or not.  /root is refused, however it is reached,
\* unless the session has escalated; the user's own home, and no other directory,
\* is listed as the home.
PlacesExplained ==
  \A n \in DOMAIN done : Explains(Whereabouts[n], done[n], HomeAt(n))
============================================================================
