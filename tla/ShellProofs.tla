---------------------------- MODULE ShellProofs ----------------------------
(* Who the emulated shell says it is, for any accounts, channels and lines. *)
EXTENDS Shell, SequenceFacts, SequenceTheorems

USE ShellAssumption

\* A state of the shell is a record; what cwd holds does not matter here.
IsShell(s) == s = [user |-> s.user, is_root |-> s.is_root, cwd |-> s.cwd]

(***************************************************************************)
(* What the shell is follows from the events so far: they are what the     *)
(* answers to come are explained by.                                       *)
(***************************************************************************)
ShellFollows ==
  /\ IsShell(shell)
  /\ shell.is_root = RootBefore(Len(done) + 1)
  /\ shell.user = IF RootSince(Len(done) + 1) THEN "root" ELSE login

\* The answers so far, those after a later opening included: whoami then names the
\* login, since handle_shell sets shell.user.
IdentityTold ==
  \A n \in DOMAIN done :
    LET said == done[n].answer IN
    /\ done[n].verb = "id" => said.who = IF RootBefore(n) THEN "root" ELSE login
    /\ done[n].verb = "whoami" => said.who = IF RootSince(n) THEN "root" ELSE login
    /\ done[n].verb = "home" =>
         (said.dir = <<"root">>) = RootBefore(n)

Story ==
  /\ login \in Logins
  /\ \E S : done \in Seq(S)
  /\ ShellFollows
  /\ IdentityTold

IInv == Story /\ chan \in [Chans -> ChanState]

\* One event more.
LEMMA OneMore ==
  ASSUME NEW e, NEW S, done \in Seq(S), done' = Append(done, e)
  PROVE  /\ Len(done) \in Nat
         /\ Len(done') = Len(done) + 1
         /\ DOMAIN done = 1 .. Len(done)
         /\ DOMAIN done' = 1 .. Len(done) + 1
         /\ done'[Len(done) + 1] = e
         /\ \A i \in 1 .. Len(done) : done'[i] = done[i]
         /\ \E T : done' \in Seq(T)
<1> DEFINE T == S \cup {e}
<1>1. done \in Seq(T) /\ e \in T
  OBVIOUS
<1> HIDE DEF T
<1>2. /\ Append(done, e) \in Seq(T)
      /\ Len(Append(done, e)) = Len(done) + 1
      /\ Append(done, e)[Len(done) + 1] = e
      /\ \A i \in 1 .. Len(done) : Append(done, e)[i] = done[i]
  BY <1>1, AppendProperties
<1>3. Len(done) \in Nat /\ DOMAIN done = 1 .. Len(done)
  BY LenProperties
<1>4. DOMAIN Append(done, e) = 1 .. Len(Append(done, e))
  BY <1>2, LenProperties
<1>5. \E U : Append(done, e) \in Seq(U)
  BY <1>2
<1> QED
  BY <1>2, <1>3, <1>4, <1>5

\* It changes nothing of what was so before the events that were there.
LEMMA BeforeKept ==
  ASSUME NEW e, NEW S, done \in Seq(S), done' = Append(done, e),
         NEW n \in 1 .. Len(done) + 1
  PROVE  RootBefore(n)' = RootBefore(n) /\ RootSince(n)' = RootSince(n)
<1>1. Len(done) \in Nat /\ \A i \in 1 .. Len(done) : done'[i] = done[i]
  BY OneMore
<1>2. \A i \in 1 .. n - 1 : done'[i] = done[i]
  BY <1>1
<1>3. \A i \in 1 .. n - 1 : \A j \in i + 1 .. n - 1 : done'[j] = done[j]
  BY <1>1, <1>2
<1> QED
  BY <1>2, <1>3 DEF RootBefore, RootSince

\* What it makes of the session.
LEMMA AfterMore ==
  ASSUME NEW e, NEW S, done \in Seq(S), done' = Append(done, e)
  PROVE  /\ RootBefore(Len(done) + 1)' = (RootBefore(Len(done) + 1) \/ e.verb = "escalate")
         /\ RootSince(Len(done) + 1)'
              = (e.verb = "escalate" \/ (RootSince(Len(done) + 1) /\ e.verb # "open"))
<1> DEFINE m == Len(done)
           latest == done'[m + 1]
<1>1. /\ m \in Nat
      /\ Len(done') = m + 1
      /\ latest = e
      /\ \A i \in 1 .. m : done'[i] = done[i]
  BY OneMore
<1>2. RootBefore(Len(done) + 1) = \E i \in 1 .. m : done[i].verb = "escalate"
  BY <1>1 DEF RootBefore
<1>3. RootBefore(Len(done) + 1)' = \E i \in 1 .. m + 1 : done'[i].verb = "escalate"
  BY <1>1 DEF RootBefore
<1>4. RootSince(Len(done) + 1)
        = \E i \in 1 .. m : /\ done[i].verb = "escalate"
                            /\ \A j \in i + 1 .. m : done[j].verb # "open"
  BY <1>1 DEF RootSince
<1>5. RootSince(Len(done) + 1)'
        = \E i \in 1 .. m + 1 : /\ done'[i].verb = "escalate"
                                /\ \A j \in i + 1 .. m + 1 : done'[j].verb # "open"
  BY <1>1 DEF RootSince
<1> HIDE DEF m
<1>6. 1 .. m + 1 = 1 .. m \cup {m + 1}
  BY <1>1
<1>7. RootBefore(Len(done) + 1)' = (RootBefore(Len(done) + 1) \/ e.verb = "escalate")
  BY <1>1, <1>2, <1>3, <1>6
<1>8. ASSUME NEW i \in 1 .. m
      PROVE  (\A j \in i + 1 .. m + 1 : done'[j].verb # "open")
               = ((\A j \in i + 1 .. m : done[j].verb # "open") /\ e.verb # "open")
  <2>1. i + 1 .. m + 1 = (i + 1 .. m) \cup {m + 1}
    BY <1>1
  <2>2. \A j \in i + 1 .. m : done'[j] = done[j]
    BY <1>1
  <2> QED
    BY <1>1, <2>1, <2>2
<1>9. \A j \in (m + 1) + 1 .. m + 1 : done'[j].verb # "open"
  BY <1>1
<1>10. RootSince(Len(done) + 1)'
         = (e.verb = "escalate" \/ (RootSince(Len(done) + 1) /\ e.verb # "open"))
  <2>1. RootSince(Len(done) + 1)'
          = \/ \E i \in 1 .. m : /\ done'[i].verb = "escalate"
                                /\ \A j \in i + 1 .. m + 1 : done'[j].verb # "open"
            \/ /\ done'[m + 1].verb = "escalate"
               /\ \A j \in (m + 1) + 1 .. m + 1 : done'[j].verb # "open"
    BY <1>5, <1>6
  <2>2. (\E i \in 1 .. m : /\ done'[i].verb = "escalate"
                           /\ \A j \in i + 1 .. m + 1 : done'[j].verb # "open")
          = (RootSince(Len(done) + 1) /\ e.verb # "open")
    <3>1. \A i \in 1 .. m :
            (/\ done'[i].verb = "escalate"
             /\ \A j \in i + 1 .. m + 1 : done'[j].verb # "open")
              = (/\ done[i].verb = "escalate"
                 /\ \A j \in i + 1 .. m : done[j].verb # "open"
                 /\ e.verb # "open")
      <4> TAKE i \in 1 .. m
      <4>1. done'[i] = done[i]
        BY <1>1
      <4> QED BY <1>8, <4>1
    <3> QED BY <1>4, <3>1
  <2> QED
    BY <1>1, <1>9, <2>1, <2>2
<1> QED
  BY <1>7, <1>10

(***************************************************************************)
(* Whatever the shell becomes, if it becomes root by escalating only, and  *)
(* the login by an opening, it still follows from the events.              *)
(***************************************************************************)
LEMMA FollowsOn ==
  ASSUME Story, NEW e, done' = Append(done, e), login' = login, IsShell(shell'),
         shell'.is_root = (shell.is_root \/ e.verb = "escalate"),
         shell'.user = IF e.verb = "escalate" THEN "root"
                       ELSE IF e.verb = "open" THEN login ELSE shell.user,
         e.verb = "id" => e.answer.who = IF shell.is_root THEN "root" ELSE shell.user,
         e.verb = "whoami" => e.answer.who = shell.user,
         e.verb = "home" => e.answer.dir = home(shell)
  PROVE  Story'
<1>0. PICK S : done \in Seq(S)
  BY DEF Story
<1>1. (\E T : done \in Seq(T))'
  BY <1>0, OneMore
<1>2. ShellFollows'
  BY <1>0, AfterMore DEF Story, ShellFollows, IsShell
<1>3. IdentityTold'
  <2>1. SUFFICES ASSUME NEW n \in 1 .. Len(done) + 1
                 PROVE  LET said == done'[n].answer IN
                        /\ done'[n].verb = "id"
                             => said.who = IF RootBefore(n) THEN "root" ELSE login
                        /\ done'[n].verb = "whoami"
                             => said.who = IF RootSince(n) THEN "root" ELSE login
                        /\ done'[n].verb = "home" => (said.dir = <<"root">>) = RootBefore(n)
    BY <1>0, OneMore, BeforeKept DEF IdentityTold
  <2>2. CASE n \in 1 .. Len(done)
    BY <1>0, <2>2, OneMore DEF Story, IdentityTold
  <2>3. CASE n = Len(done) + 1
    <3>1. done'[n] = e
      BY <1>0, <2>3, OneMore
    <3>2. /\ shell.is_root = RootBefore(n)
          /\ shell.user = IF RootSince(n) THEN "root" ELSE login
      BY <2>3 DEF Story, ShellFollows
    <3>3. ~RootBefore(n) => ~RootSince(n)
      BY DEF RootBefore, RootSince
    <3>4. (home(shell) = <<"root">>) = shell.is_root
      BY <3>2 DEF home, RootBefore
    <3> QED
      BY <3>1, <3>2, <3>3, <3>4
  <2> QED
    BY <1>0, <2>2, <2>3, OneMore
<1> QED
  BY <1>1, <1>2, <1>3 DEF Story

LEMMA StoryBegins == Init => Story
<1> SUFFICES ASSUME Init PROVE Story
  OBVIOUS
<1>1. done \in Seq({}) /\ Len(done) = 0
  BY DEF Init
<1>2. ~RootBefore(Len(done) + 1) /\ ~RootSince(Len(done) + 1)
  BY <1>1 DEF RootBefore, RootSince
<1>3. IsShell(shell) /\ shell.user = login /\ shell.is_root = FALSE
  BY DEF Init, IsShell
<1>4. ShellFollows
  <2>1. RootBefore(Len(done) + 1) = FALSE
    BY <1>2 DEF RootBefore
  <2> QED
    BY <1>2, <1>3, <2>1 DEF ShellFollows
<1>5. IdentityTold
  BY <1>1 DEF IdentityTold
<1> QED
  BY <1>1, <1>4, <1>5 DEF Init, Story

LEMMA StoryKept ==
  ASSUME Story, UNCHANGED <<login, shell, done>> PROVE Story'
<1>1. (\E S : done \in Seq(S))' /\ login' \in Logins
  BY DEF Story
<1>2. ShellFollows'
  BY DEF Story, ShellFollows, IsShell, RootBefore, RootSince
<1>3. IdentityTold'
  <2>1. \A n : RootBefore(n)' = RootBefore(n) /\ RootSince(n)' = RootSince(n)
    BY DEF RootBefore, RootSince
  <2> QED
    BY <2>1 DEF Story, IdentityTold
<1> QED
  BY <1>1, <1>2, <1>3 DEF Story

LEMMA ChanTypeInit == Init => chan \in [Chans -> ChanState]
  BY DEF Init, ChanState

LEMMA ChanTypeNext ==
  ASSUME chan \in [Chans -> ChanState], [Next]_vars
  PROVE  chan' \in [Chans -> ChanState]
<1>1. ASSUME NEW h \in Chans, OpenShell(h) PROVE chan' \in [Chans -> ChanState]
  BY <1>1 DEF OpenShell, Starts, ChanState
<1>2. ASSUME NEW h \in Chans, NEW line \in Lines, OpenExec(h, line)
      PROVE  chan' \in [Chans -> ChanState]
  BY <1>2 DEF OpenExec, Starts, ChanState
<1>3. ASSUME NEW h \in Chans, NEW line \in Lines, ReadLine(h, line)
      PROVE  chan' \in [Chans -> ChanState]
  BY <1>3 DEF ReadLine, ChanState
<1>4. ASSUME NEW h \in Chans, CommandEnds(h) PROVE chan' \in [Chans -> ChanState]
  BY <1>4 DEF CommandEnds, ChanState
<1>5. ASSUME NEW h \in Chans, EndOfInput(h) PROVE chan' \in [Chans -> ChanState]
  BY <1>5 DEF EndOfInput, ChanState
<1>6. CASE ConnectionLost
  BY <1>6 DEF ConnectionLost, ChanState
<1>7. CASE UNCHANGED vars
  BY <1>7 DEF vars
<1> QED
  BY <1>1, <1>2, <1>3, <1>4, <1>5, <1>6, <1>7 DEF Next

LEMMA StoryNext ==
  ASSUME Story, chan \in [Chans -> ChanState], [Next]_vars PROVE Story'
<1>1. ASSUME NEW h \in Chans, NEW state, NEW exec, NEW line, Starts(h, state, exec, line)
      PROVE  Story'
  <2>1. done' = Append(done, Opened) /\ shell' = attach /\ login' = login
    BY <1>1 DEF Starts
  <2>2. Opened.verb = "open"
    BY DEF Opened, Event
  <2>3. /\ IsShell(shell')
        /\ shell'.is_root = shell.is_root
        /\ shell'.user = login
    BY <2>1 DEF attach, IsShell, Story, ShellFollows
  <2>4. shell.is_root \in BOOLEAN
    BY DEF Story, ShellFollows, RootBefore
  <2> QED
    BY <2>1, <2>2, <2>3, <2>4, FollowsOn
<1>2. ASSUME NEW h \in Chans, CommandEnds(h) PROVE Story'
  <2> DEFINE line == chan[h].line
             e == Event(line.verb, line.path, run_command(shell, line))
  <2>1. done' = Append(done, e) /\ shell' = after(shell, line) /\ login' = login
    BY <1>2 DEF CommandEnds
  <2>2. e.verb = line.verb /\ e.answer = run_command(shell, line)
    BY DEF Event
  <2>3. /\ IsShell(shell')
        /\ shell'.is_root = (shell.is_root \/ line.verb = "escalate")
        /\ shell'.user = IF line.verb = "escalate" THEN "root" ELSE shell.user
    BY <2>1 DEF after, escalate_to_root, IsShell, Story, ShellFollows, RootBefore
  <2>4. /\ line.verb = "id" => e.answer.who = IF shell.is_root THEN "root" ELSE shell.user
        /\ line.verb = "whoami" => e.answer.who = shell.user
        /\ line.verb = "home" => e.answer.dir = home(shell)
    <3>1. line.verb = "id" => run_command(shell, line)
            = Answer("user", IF shell.is_root THEN "root" ELSE shell.user, <<>>)
      BY DEF run_command
    <3>2. line.verb = "whoami" => run_command(shell, line) = Answer("user", shell.user, <<>>)
      BY DEF run_command
    <3>3. line.verb = "home" => run_command(shell, line) = Answer("dir", "", home(shell))
      BY DEF run_command
    <3>4. \A kind, who, dir : /\ Answer(kind, who, dir).who = who
                              /\ Answer(kind, who, dir).dir = dir
      BY DEF Answer
    <3>5. e.answer = run_command(shell, line)
      BY <2>2
    <3> HIDE DEF e
    <3>6. line.verb = "id" => e.answer.who = IF shell.is_root THEN "root" ELSE shell.user
      <4>1. \A who : Answer("user", who, <<>>).who = who
        BY <3>4
      <4> QED
        BY <3>1, <3>5, <4>1
    <3>7. line.verb = "whoami" => e.answer.who = shell.user
      BY <3>2, <3>4, <3>5
    <3>8. line.verb = "home" => e.answer.dir = home(shell)
      <4>1. Answer("dir", "", home(shell)).dir = home(shell)
        BY DEF Answer
      <4> QED
        BY <3>3, <3>5, <4>1
    <3> QED
      BY <2>2, <3>6, <3>7, <3>8
  <2>5. e.verb # "open"
    <3>1. line \in Lines \cup {NoLine}
      BY DEF ChanState
    <3>2. line.verb \in Verbs
      BY <3>1 DEF NoLine, Line, Verbs
    <3> QED
      BY <2>2, <3>2 DEF Verbs
  <2> HIDE DEF e
  <2> QED
    BY <2>1, <2>2, <2>3, <2>4, <2>5, FollowsOn
<1>3. ASSUME NEW h \in Chans, EndOfInput(h) PROVE Story'
  BY <1>3, StoryKept DEF EndOfInput
<1>4. ASSUME NEW h \in Chans, NEW line \in Lines, ReadLine(h, line) PROVE Story'
  BY <1>4, StoryKept DEF ReadLine
<1>5. CASE ConnectionLost
  BY <1>5, StoryKept DEF ConnectionLost
<1>6. CASE UNCHANGED vars
  BY <1>6, StoryKept DEF vars
<1> QED
  BY <1>1, <1>2, <1>3, <1>4, <1>5, <1>6 DEF Next, OpenShell, OpenExec

\* Whatever the lines and the order in which they are executed, id and $HOME answer
\* root exactly after an escalation by _handle_command, and whoami answers the login
\* before the first one and root from one to the next start of handle_shell.
THEOREM ShellIdentityExplained == Spec => []IdentityExplained
<1>1. IInv => IdentityExplained
  <2>1. \A n : RootSince(n) => RootBefore(n)
    BY DEF RootSince, RootBefore
  <2> QED
    BY <2>1 DEF IInv, Story, IdentityTold, IdentityExplained
<1>2. Init => IInv
  BY StoryBegins, ChanTypeInit DEF IInv
<1>3. IInv /\ [Next]_vars => IInv'
  BY StoryNext, ChanTypeNext DEF IInv
<1> QED
  BY <1>1, <1>2, <1>3, PTL DEF Spec

(***************************************************************************)
(* Where the shell is.  Segment is what paths are made of, the homes'      *)
(* included; Places are the directories no walk of which is left to do.    *)
(***************************************************************************)
Segment ==
  {"root", "home"} \cup Logins \cup UNION {Range(line.path.segments) : line \in Lines}
Name == Segment \ {".", ".."}
Places == Seq(Name)

\* One step of a walk is one turn of _resolve's loop, and leads to a place.
LEMMA TakeIsMove ==
  ASSUME NEW dir \in Places, NEW segment \in Segment
  PROVE  /\ Take(dir, segment) = Move(dir, segment)
         /\ Move(dir, segment) \in Places
<1>1. CASE segment = "."
  BY <1>1 DEF Take, Move
<1>2. CASE segment = ".."
  <2> DEFINE N == Name
  <2>1. dir \in Seq(N) /\ Places = Seq(N)
    BY DEF Places
  <2>2. dir = <<>> => Len(dir) = 0
    OBVIOUS
  <2>. HIDE DEF N
  <2>3. Len(dir) \in Nat /\ (Len(dir) = 0 => dir = <<>>)
    BY <2>1
  <2>4. SubSeq(dir, 1, Len(dir) - 1) \in Seq(N)
    BY <2>1, <2>3
  <2>5. CASE dir = <<>>
    <3>1. SubSeq(dir, 1, Len(dir) - 1) = <<>>
      BY <2>1, <2>2, <2>5
    <3>2. Take(dir, segment) = dir /\ Move(dir, segment) = SubSeq(dir, 1, Len(dir) - 1)
      BY <1>2, <2>5 DEF Take, Move
    <3>. QED
      BY <2>1, <2>5, <3>1, <3>2
  <2>6. CASE dir # <<>>
    <3>1. /\ Take(dir, segment) = SubSeq(dir, 1, Len(dir) - 1)
          /\ Move(dir, segment) = SubSeq(dir, 1, Len(dir) - 1)
      BY <1>2, <2>6 DEF Take, Move, Front
    <3>. QED
      BY <2>1, <2>4, <3>1
  <2>. QED
    BY <2>5, <2>6
<1>3. CASE segment \notin {".", ".."}
  <2>1. Take(dir, segment) = Append(dir, segment) /\ Move(dir, segment) = Append(dir, segment)
    BY <1>3 DEF Take, Move
  <2>2. segment \in Name
    BY <1>3 DEF Name
  <2> DEFINE N == Name
  <2>3. dir \in Seq(N) /\ segment \in N /\ Places = Seq(N)
    BY <2>2 DEF Places
  <2>. HIDE DEF N
  <2>4. Append(dir, segment) \in Seq(N)
    BY <2>3
  <2>. QED
    BY <2>1, <2>3, <2>4
<1>. QED
  BY <1>1, <1>2, <1>3

\* The places a walk of the segments goes through.
Walks(f, start, segments) ==
  /\ f \in [0 .. Len(segments) -> Places]
  /\ f[0] = start
  /\ \A k \in 1 .. Len(segments) : f[k] = Move(f[k - 1], segments[k])

\* A fold of Move walks, and so does a fold of Take.
LEMMA WalkExists ==
  ASSUME NEW start \in Places, NEW segments \in Seq(Segment)
  PROVE  /\ \E f : /\ Walks(f, start, segments)
                   /\ FoldLeft(Move, start, segments) = f[Len(segments)]
         /\ \E f : /\ Walks(f, start, segments)
                   /\ FoldLeft(Take, start, segments) = f[Len(segments)]
<1> DEFINE n == Len(segments)
           S == Segment
           step == [p \in Places \X (1 .. n) |-> Move(p[1], segments[p[2]])]
           Moves(f) == f = [s \in SUBSET (1 .. n) |->
                              IF s = {} THEN start
                              ELSE Move(f[s \ {Max(s)}], segments[Max(s)])]
           Takes(f) == f = [s \in SUBSET (1 .. n) |->
                              IF s = {} THEN start
                              ELSE Take(f[s \ {Max(s)}], segments[Max(s)])]
           moved == CHOOSE f : Moves(f)
           taken == CHOOSE f : Takes(f)
<1>1. n \in Nat /\ DOMAIN segments = 1 .. n /\ \A i \in 1 .. n : segments[i] \in S
  <2>1. segments \in Seq(S)
    OBVIOUS
  <2>. HIDE DEF S
  <2>. QED
    BY <2>1
<1>2. FoldLeft(Move, start, segments) = moved[1 .. n]
  BY <1>1 DEF FoldLeft, MapThenFoldSet
<1>3. FoldLeft(Take, start, segments) = taken[1 .. n]
  BY <1>1 DEF FoldLeft, MapThenFoldSet
<1>. HIDE DEF n
<1>4. step \in [Places \X (1 .. n) -> Places]
  BY <1>1, TakeIsMove
<1>5. \A dir \in Places, i \in 1 .. n : step[<<dir, i>>] = Move(dir, segments[i])
  OBVIOUS
<1>. HIDE DEF step
<1>6. PICK f : FoldsBy(f, n, Places, start, step)
  BY <1>1, <1>4, FoldExists
<1>7. ASSUME NEW s \in SUBSET (1 .. n), s # {}
      PROVE  /\ Max(s) \in 1 .. n /\ s \ {Max(s)} \in SUBSET (1 .. n)
             /\ segments[Max(s)] \in Segment
  BY <1>1, <1>7, GreatestOf
<1>8. /\ f \in [SUBSET (1 .. n) -> Places]
      /\ f[{}] = start
      /\ \A s \in SUBSET (1 .. n) :
           s # {} => f[s] = Move(f[s \ {Max(s)}], segments[Max(s)])
  <2>1. f \in [SUBSET (1 .. n) -> Places] /\ f[{}] = start
    BY <1>6 DEF FoldsBy
  <2>2. ASSUME NEW s \in SUBSET (1 .. n), s # {}
        PROVE  f[s] = Move(f[s \ {Max(s)}], segments[Max(s)])
    <3>1. f[s] = step[<<f[s \ {Max(s)}], Max(s)>>]
      BY <1>6, <2>2 DEF FoldsBy
    <3>2. f[s \ {Max(s)}] \in Places /\ Max(s) \in 1 .. n
      BY <1>7, <2>1, <2>2
    <3>. QED
      BY <1>5, <3>1, <3>2
  <2>. QED
    BY <2>1, <2>2
<1>9. Moves(f) /\ Takes(f)
  <2>1. f = [s \in SUBSET (1 .. n) |-> f[s]]
    BY <1>8
  <2>2. ASSUME NEW s \in SUBSET (1 .. n)
        PROVE  /\ f[s] = IF s = {} THEN start ELSE Move(f[s \ {Max(s)}], segments[Max(s)])
               /\ f[s] = IF s = {} THEN start ELSE Take(f[s \ {Max(s)}], segments[Max(s)])
    <3>1. CASE s = {}
      BY <1>8, <3>1
    <3>2. CASE s # {}
      <4>1. f[s \ {Max(s)}] \in Places /\ segments[Max(s)] \in Segment
        BY <1>7, <1>8, <3>2
      <4>2. Take(f[s \ {Max(s)}], segments[Max(s)]) = Move(f[s \ {Max(s)}], segments[Max(s)])
        BY <4>1, TakeIsMove
      <4>. QED
        BY <1>8, <3>2, <4>2
    <3>. QED
      BY <3>1, <3>2
  <2>. QED
    BY <2>1, <2>2
<1>10. Moves(moved) /\ Takes(taken)
  <2>. HIDE DEF Moves, Takes
  <2>. QED
    BY <1>9
<1>11. ASSUME NEW iter, Moves(iter) \/ Takes(iter)
       PROVE  \E g : Walks(g, start, segments) /\ iter[1 .. n] = g[n]
  <2>1. iter[{}] = start
    BY <1>11
  <2>2. ASSUME NEW s \in SUBSET (1 .. n), s # {}, iter[s \ {Max(s)}] \in Places
        PROVE  iter[s] = step[<<iter[s \ {Max(s)}], Max(s)>>]
    <3>1. Max(s) \in 1 .. n /\ segments[Max(s)] \in Segment
      BY <1>7, <2>2
    <3>2. \/ iter[s] = Move(iter[s \ {Max(s)}], segments[Max(s)])
          \/ iter[s] = Take(iter[s \ {Max(s)}], segments[Max(s)])
      BY <1>11, <2>2
    <3>3. iter[s] = Move(iter[s \ {Max(s)}], segments[Max(s)])
      BY <2>2, <3>1, <3>2, TakeIsMove
    <3>. QED
      BY <1>5, <2>2, <3>1, <3>3
  <2>. HIDE DEF Moves, Takes
  <2>3. IteratesBy(iter, n, Places, start, step)
    BY <1>1, <1>4, <2>1, <2>2 DEF IteratesBy
  <2>4. PICK g : StepsBy(g, iter, n, Places, start, step)
    BY <2>3, FoldSteps
  <2>5. /\ g \in [0 .. n -> Places] /\ g[0] = start
        /\ \A k \in 1 .. n : g[k] = step[<<g[k - 1], k>>]
        /\ g[n] = iter[1 .. n]
    BY <2>4 DEF StepsBy
  <2>6. ASSUME NEW k \in 1 .. n PROVE g[k] = Move(g[k - 1], segments[k])
    <3>1. k - 1 \in 0 .. n
      BY <1>1
    <3>2. g[k - 1] \in Places
      BY <2>5, <3>1
    <3>. QED
      BY <1>5, <2>5, <3>2
  <2>. QED
    BY <2>5, <2>6 DEF Walks, n
<1>. HIDE DEF Moves, Takes, moved, taken
<1>. QED
  BY <1>2, <1>3, <1>10, <1>11 DEF n


\* A walk ends at a place.
LEMMA WalkEnds ==
  ASSUME NEW start \in Places, NEW segments \in Seq(Segment)
  PROVE  FoldLeft(Move, start, segments) \in Places
<1>1. PICK f : Walks(f, start, segments) /\ FoldLeft(Move, start, segments) = f[Len(segments)]
  BY WalkExists
<1> DEFINE S == Segment
           n == Len(segments)
<1>2. n \in Nat
  <2>1. segments \in Seq(S)
    OBVIOUS
  <2>. HIDE DEF S
  <2>. QED
    BY <2>1
<1>3. f \in [0 .. n -> Places]
  BY <1>1 DEF Walks
<1>. HIDE DEF n
<1>4. f[n] \in Places
  BY <1>2, <1>3
<1>. QED
  BY <1>1, <1>4 DEF n

\* Nothing leads nowhere else.
LEMMA WalkOfNothing ==
  ASSUME NEW start \in Places
  PROVE  FoldLeft(Move, start, <<>>) = start
<1> DEFINE nothing == <<>>
<1>1. nothing \in Seq(Segment) /\ Len(nothing) = 0
  OBVIOUS
<1>. HIDE DEF nothing
<1>2. PICK f : Walks(f, start, nothing) /\ FoldLeft(Move, start, nothing) = f[Len(nothing)]
  BY <1>1, WalkExists
<1>3. f[0] = start
  BY <1>2 DEF Walks
<1>. QED
  BY <1>1, <1>2, <1>3 DEF nothing

\* Going through a place's names from / leads to it, and on from it: to resolve
\* the whole path is to walk from there.
LEMMA WalksTogether ==
  ASSUME NEW dir \in Places, NEW segments \in Seq(Segment)
  PROVE  FoldLeft(Take, <<>>, dir \o segments) = FoldLeft(Move, dir, segments)
<1> DEFINE S == Segment
           whole == dir \o segments
           m == Len(dir)
           n == Len(segments)
           root == <<>>
<1>1. /\ m \in Nat /\ n \in Nat
      /\ whole \in Seq(S) /\ Len(whole) = m + n
      /\ \A k \in 1 .. m : whole[k] = dir[k] /\ dir[k] \in Name
      /\ \A k \in 1 .. n : whole[m + k] = segments[k]
  <2> DEFINE N == Name
  <2>1. dir \in Seq(N) /\ segments \in Seq(S)
    BY DEF Places
  <2>2. N \subseteq S
    BY DEF Name
  <2>. HIDE DEF N, S
  <2>3. dir \in Seq(S)
    BY <2>1, <2>2
  <2>4. /\ whole \in Seq(S) /\ Len(whole) = m + n
        /\ \A k \in 1 .. m : whole[k] = dir[k]
        /\ \A k \in 1 .. n : whole[m + k] = segments[k]
    BY <2>1, <2>3
  <2>5. m \in Nat /\ n \in Nat /\ \A k \in 1 .. m : dir[k] \in N
    BY <2>1
  <2>. QED
    BY <2>4, <2>5 DEF N
<1>2. root \in Places
  BY DEF Places
<1>. HIDE DEF whole, root
<1>3. PICK f : Walks(f, root, whole) /\ FoldLeft(Take, root, whole) = f[Len(whole)]
  BY <1>1, <1>2, WalkExists
<1>4. PICK g : Walks(g, dir, segments) /\ FoldLeft(Move, dir, segments) = g[n]
  BY WalkExists
<1>. HIDE DEF m, n
<1>5. /\ f[0] = root
      /\ \A k \in 1 .. m + n : f[k] = Move(f[k - 1], whole[k])
  BY <1>1, <1>3 DEF Walks
<1>6. /\ g[0] = dir
      /\ \A k \in 1 .. n : g[k] = Move(g[k - 1], segments[k])
  BY <1>4 DEF Walks, n
<1>7. f[m] = dir
  <2> DEFINE first(k) == SubSeq(dir, 1, k)
             Good == {k \in 0 .. m : f[k] = first(k)}
             N == Name
  <2>1. dir \in Seq(N)
    BY DEF Places
  <2>. HIDE DEF N
  <2>2. /\ first(0) = <<>> /\ first(m) = dir
        /\ \A k \in 1 .. m : first(k) = Append(first(k - 1), dir[k])
    <3>1. first(0) = <<>> /\ first(m) = dir
      BY <2>1 DEF m
    <3>2. ASSUME NEW k \in 1 .. m PROVE first(k) = Append(first(k - 1), dir[k])
      BY <1>1, <2>1, <3>2 DEF m
    <3>. QED
      BY <3>1, <3>2
  <2>. HIDE DEF first
  <2>3. 0 \in Good
    BY <1>1, <1>5, <2>2 DEF root
  <2>4. ASSUME NEW k \in 1 .. m, k - 1 \in Good PROVE k \in Good
    <3>1. f[k - 1] = first(k - 1) /\ k \in 1 .. m + n
      BY <1>1, <2>4
    <3>2. f[k] = Move(first(k - 1), dir[k])
      BY <1>1, <1>5, <3>1
    <3>3. dir[k] \notin {".", ".."}
      BY <1>1 DEF Name
    <3>4. Move(first(k - 1), dir[k]) = Append(first(k - 1), dir[k])
      BY <3>3 DEF Move
    <3>5. first(k) = Append(first(k - 1), dir[k])
      BY <2>2
    <3>6. f[k] = first(k) /\ k \in 0 .. m
      BY <1>1, <3>2, <3>4, <3>5
    <3>. QED
      BY <3>6
  <2>5. \A k \in 0 .. m : k \in Good
    <3>. HIDE DEF Good
    <3>. QED
      BY <1>1, <2>3, <2>4, UpTo
  <2>. QED
    BY <1>1, <2>2, <2>5
<1>8. f[m + n] = g[n]
  <2> DEFINE Good == {k \in 0 .. n : f[m + k] = g[k]}
  <2>1. 0 \in Good
    BY <1>1, <1>6, <1>7
  <2>2. ASSUME NEW k \in 1 .. n, k - 1 \in Good PROVE k \in Good
    <3>1. f[m + (k - 1)] = g[k - 1] /\ m + k \in 1 .. m + n /\ (m + k) - 1 = m + (k - 1)
      BY <1>1, <2>2
    <3>2. f[m + k] = Move(f[(m + k) - 1], whole[m + k])
      BY <1>5, <3>1
    <3>3. f[m + k] = Move(g[k - 1], segments[k])
      BY <1>1, <3>1, <3>2
    <3>. QED
      BY <1>1, <1>6, <3>3
  <2>3. \A k \in 0 .. n : k \in Good
    <3>. HIDE DEF Good
    <3>. QED
      BY <1>1, <2>1, <2>2, UpTo
  <2>. QED
    BY <1>1, <2>3
<1>. QED
  BY <1>1, <1>3, <1>4, <1>8 DEF whole, root


\* A home, root's or the login's.
Homes == {<<"root">>} \cup {<<"home", who>> : who \in Logins}

LEMMA HomesArePlaces == Homes \subseteq Places
<1>1. ASSUME NEW who \in Logins PROVE <<"home", who>> \in Places
  <2> DEFINE N == Name
  <2>1. "home" \in N /\ who \in N
    BY DEF Name, Segment
  <2>. HIDE DEF N
  <2>2. <<"home", who>> \in Seq(N)
    BY <2>1
  <2>. QED
    BY <2>2 DEF N, Places
<1>2. <<"root">> \in Places
  <2> DEFINE N == Name
  <2>1. "root" \in N
    BY DEF Name, Segment
  <2>. HIDE DEF N
  <2>2. <<"root">> \in Seq(N)
    BY <2>1
  <2>. QED
    BY <2>2 DEF N, Places
<1>. QED
  BY <1>1, <1>2 DEF Homes

\* A path a client may type.
IsPath(path) ==
  /\ path.from \in {"absent", "root", "home", "cwd"}
  /\ path.segments \in Seq(Segment)
  /\ path.from = "absent" => path.segments = <<>>

\* _resolve leads where the walk leads.
LEMMA ResolveIsWalk ==
  ASSUME NEW s, NEW path, IsPath(path), s.cwd \in Places, home(s) \in Homes
  PROVE  /\ resolve(s, path) = Walk(s.cwd, path, home(s))
         /\ Walk(s.cwd, path, home(s)) \in Places
<1> DEFINE root == <<>>
           segments == path.segments
<1>1. home(s) \in Places /\ root \in Places /\ segments \in Seq(Segment)
  BY HomesArePlaces DEF Places, IsPath
<1>2. CASE path.from = "absent"
  <2>1. segments = <<>>
    BY <1>2 DEF IsPath
  <2>2. Walk(s.cwd, path, home(s)) = FoldLeft(Move, home(s), <<>>)
    BY <1>2, <2>1 DEF Walk
  <2>3. resolve(s, path) = home(s)
    BY <1>2 DEF resolve
  <2>. QED
    BY <1>1, <2>2, <2>3, WalkOfNothing
<1>3. ASSUME NEW dir \in Places,
             resolve(s, path) = FoldLeft(Take, <<>>, dir \o segments),
             Walk(s.cwd, path, home(s)) = FoldLeft(Move, dir, segments)
      PROVE  /\ resolve(s, path) = Walk(s.cwd, path, home(s))
             /\ Walk(s.cwd, path, home(s)) \in Places
  <2>. HIDE DEF segments
  <2>. QED
    BY <1>1, <1>3, WalksTogether, WalkEnds
<1>4. CASE path.from = "root"
  <2>1. root \o segments = segments
    <3> DEFINE S == Segment
    <3>1. segments \in Seq(S)
      BY <1>1
    <3>. HIDE DEF S, segments
    <3>. QED
      BY <3>1
  <2>2. base(s, path) = root \o segments
    BY <1>4, <2>1 DEF base
  <2>3. resolve(s, path) = FoldLeft(Take, <<>>, root \o segments)
    BY <1>4, <2>2 DEF resolve
  <2>4. Walk(s.cwd, path, home(s)) = FoldLeft(Move, root, segments)
    BY <1>4 DEF Walk
  <2>. QED
    BY <1>1, <1>3, <2>3, <2>4
<1>5. CASE path.from = "home"
  <2>1. resolve(s, path) = FoldLeft(Take, <<>>, home(s) \o segments)
    BY <1>5 DEF resolve, base
  <2>2. Walk(s.cwd, path, home(s)) = FoldLeft(Move, home(s), segments)
    BY <1>5 DEF Walk
  <2>. QED
    BY <1>1, <1>3, <2>1, <2>2
<1>6. CASE path.from = "cwd"
  <2>1. resolve(s, path) = FoldLeft(Take, <<>>, s.cwd \o segments)
    BY <1>6 DEF resolve, base
  <2>2. Walk(s.cwd, path, home(s)) = FoldLeft(Move, s.cwd, segments)
    BY <1>6 DEF Walk
  <2>. QED
    BY <1>3, <2>1, <2>2
<1>. QED
  BY <1>2, <1>4, <1>5, <1>6 DEF IsPath


LEMMA HomeKeyIsNoName == HomeKey \notin Segment
<1>1. \A line \in Lines : HomeKey \notin Range(line.path.segments)
  OBVIOUS
<1>2. HomeKey \notin {"root", "home"} \cup Logins
  BY DEF HomeKey
<1>. QED
  BY <1>1, <1>2 DEF Segment

\* The catalogue's keys: the home's is the home's only, and root's home goes by
\* its name unless it is the shell's home.
LEMMA KeyOfPlace ==
  ASSUME NEW s, NEW dir \in Places, home(s) \in Homes
  PROVE  /\ (dir_key(s, dir) = <<HomeKey>>) = (dir = home(s))
         /\ home(s) # <<"root">> => (dir_key(s, dir) = <<"root">>) = (dir = <<"root">>)
<1> DEFINE N == Name
           own == home(s)
           m == Len(own)
           n == Len(dir)
           rest == SubSeq(dir, m + 1, n)
<1>1. own \in Seq(N) /\ dir \in Seq(N)
  BY HomesArePlaces DEF Places
<1>2. HomeKey \notin N /\ HomeKey # "root"
  BY HomeKeyIsNoName DEF Name, Segment
<1>3. own # <<"root">> => m = 2
  BY DEF Homes
<1>4. m \in 1 .. 2
  BY DEF Homes
<1>. HIDE DEF N, own
<1>5. n \in Nat /\ m \in Nat /\ own = SubSeq(own, 1, m) /\ dir = SubSeq(dir, 1, n)
  BY <1>1
<1>6. IsPrefix(own, dir) = (m <= n /\ SubSeq(own, 1, m) = SubSeq(dir, 1, m))
  BY DEF IsPrefix
<1>7. CASE IsPrefix(own, dir)
  <2>1. dir_key(s, dir) = <<HomeKey>> \o rest
    BY <1>7 DEF dir_key, own
  <2>2. m <= n /\ own = SubSeq(dir, 1, m)
    BY <1>5, <1>6, <1>7
  <2>3. rest \in Seq(N) /\ Len(rest) = n - m
    <3>1. m + 1 \in 1 .. n + 1
      BY <1>5, <2>2
    <3>. HIDE DEF m
    <3>2. rest \in Seq(N) /\ Len(rest) = (IF m + 1 <= n THEN n - (m + 1) + 1 ELSE 0)
      BY <1>1, <1>5, <3>1, SubSeqProperties
    <3>. HIDE DEF n, rest
    <3>3. (IF m + 1 <= n THEN n - (m + 1) + 1 ELSE 0) = n - m
      <4>1. m \in Nat /\ n \in Nat /\ m <= n
        BY <1>5, <2>2
      <4>. QED
        BY <4>1
    <3>. QED
      BY <3>2, <3>3
  <2>. HIDE DEF m, n, rest
  <2> DEFINE M == N \cup {HomeKey}
             key == <<HomeKey>> \o rest
  <2>4. rest \in Seq(M) /\ <<HomeKey>> \in Seq(M)
    BY <2>3
  <2>5. key[1] = HomeKey /\ Len(key) = 1 + Len(rest)
    BY <2>4
  <2>6. Len(rest) = 0 => key = <<HomeKey>>
    BY <2>4
  <2>. HIDE DEF key
  <2>7. (key = <<HomeKey>>) = (n = m)
    <3>1. key = <<HomeKey>> => Len(key) = 1
      OBVIOUS
    <3>. QED
      BY <1>5, <2>3, <2>5, <2>6, <3>1
  <2>8. (n = m) = (dir = own)
    BY <1>5, <2>2 DEF m, n
  <2>9. key # <<"root">>
    <3>1. key = <<"root">> => key[1] = "root"
      OBVIOUS
    <3>. QED
      BY <1>2, <2>5, <3>1
  <2>10. own # <<"root">> => dir # <<"root">>
    <3>1. dir = <<"root">> => n = 1
      BY DEF n
    <3>. QED
      BY <1>3, <1>5, <2>2, <3>1
  <2>. QED
    BY <2>1, <2>7, <2>8, <2>9, <2>10 DEF key, own
<1>8. CASE ~IsPrefix(own, dir)
  <2>1. dir_key(s, dir) = dir
    BY <1>8 DEF dir_key, own
  <2>2. dir # own
    <3>1. SUFFICES ASSUME dir = own PROVE FALSE
      OBVIOUS
    <3>2. n = m
      BY <3>1
    <3>3. m <= n /\ SubSeq(own, 1, m) = SubSeq(dir, 1, m)
      BY <1>5, <3>1, <3>2
    <3>. QED
      BY <1>6, <1>8, <3>3
  <2>3. dir # <<HomeKey>>
    <3>1. dir = <<HomeKey>> => Len(dir) = 1 /\ dir[1] = HomeKey
      OBVIOUS
    <3>2. Len(dir) = 1 => dir[1] \in N
      BY <1>1
    <3>. QED
      BY <1>2, <3>1, <3>2
  <2>. QED
    BY <2>1, <2>2, <2>3 DEF own
<1>. QED
  BY <1>7, <1>8

\* What pwd and ls answer is explained by where the shell is.
LEMMA AnswersExplained ==
  ASSUME NEW s, NEW line, IsPath(line.path), s.cwd \in Places, home(s) \in Homes,
         s.is_root = (home(s) = <<"root">>)
  PROVE  Explains(s.cwd, Event(line.verb, line.path, run_command(s, line)), home(s))
<1> DEFINE path == line.path
           said == run_command(s, line)
           e == Event(line.verb, path, said)
           own == home(s)
           there == IF path.from = "absent" THEN s.cwd ELSE Walk(s.cwd, path, own)
           key == dir_key(s, there)
<1>1. e.verb = line.verb /\ e.path = path /\ e.answer = said
  BY DEF Event
<1>2. there = (IF path.from = "absent" THEN s.cwd ELSE resolve(s, path)) /\ there \in Places
  BY ResolveIsWalk
<1>3. /\ (key = <<HomeKey>>) = (there = own)
      /\ own # <<"root">> => (key = <<"root">>) = (there = <<"root">>)
  <2>1. there \in Places /\ home(s) \in Homes
    BY <1>2
  <2>. HIDE DEF there
  <2>. QED
    BY <2>1, KeyOfPlace
<1>4. ASSUME line.verb = "pwd" PROVE said.dir = s.cwd
  BY <1>4 DEF run_command, Answer
<1>5. ASSUME line.verb = "ls"
      PROVE  /\ (said.kind = "denied") = (there = <<"root">> /\ own # <<"root">>)
             /\ (said.kind = "listing" /\ said.dir = <<HomeKey>>) = (there = own)
  <2>1. said = ls(s, path)
    BY <1>5 DEF run_command
  <2>2. /\ HomeKey # "root" /\ <<HomeKey>> # <<"root">>
        /\ <<HomeKey>> \in DIR_PLAIN /\ <<"root">> \notin DIR_PLAIN
    BY DEF HomeKey, DIR_PLAIN
  <2> DEFINE shut == key = <<"root">> /\ ~s.is_root
  <2>3. /\ shut => ls(s, path) = Answer("denied", "", <<>>)
        /\ ~shut /\ key \in DIR_PLAIN => ls(s, path) = Answer("listing", "", key)
        /\ ~shut /\ key \notin DIR_PLAIN => ls(s, path) = Quiet
    <3>1. key = dir_key(s, IF path.from = "absent" THEN s.cwd ELSE resolve(s, path))
      BY <1>2
    <3>. HIDE DEF key
    <3>2. /\ shut => key \notin DIR_PLAIN
          /\ ls(s, path) = CASE shut -> Answer("denied", "", <<>>)
                             [] key \in DIR_PLAIN -> Answer("listing", "", key)
                             [] OTHER -> Quiet
      BY <2>2, <3>1 DEF ls
    <3>. HIDE DEF shut
    <3>. QED
      BY <3>2
  <2>. HIDE DEF key, there, own, said, shut
  <2>4. CASE shut
    <3>1. said = Answer("denied", "", <<>>)
      BY <2>1, <2>3, <2>4
    <3>2. said.kind = "denied"
      BY <3>1 DEF Answer
    <3>. QED
      BY <1>3, <2>2, <2>4, <3>2 DEF own, shut
  <2>5. CASE ~shut /\ key \in DIR_PLAIN
    <3>1. said = Answer("listing", "", key)
      BY <2>1, <2>3, <2>5
    <3>2. said.kind = "listing" /\ said.dir = key
      BY <3>1 DEF Answer
    <3>. QED
      BY <1>3, <2>2, <2>5, <3>2 DEF own, shut
  <2>6. CASE ~shut /\ key \notin DIR_PLAIN
    <3>1. said = Quiet
      BY <2>1, <2>3, <2>6
    <3>2. said.kind = "quiet"
      BY <3>1 DEF Quiet, Answer
    <3>. QED
      BY <1>3, <2>2, <2>6, <3>2 DEF own, shut
  <2>. QED
    BY <2>4, <2>5, <2>6
<1>. HIDE DEF said, e, own
<1>6. Explains(s.cwd, e, own)
  BY <1>1, <1>4, <1>5 DEF Explains
<1>. QED
  BY <1>6 DEF e, own, said


(***************************************************************************)
(* The walk so far, w, as Whereabouts computes it; the shell is where it   *)
(* ends, and every answer is explained by where it was.                    *)
(***************************************************************************)
Traced(w) ==
  w = [n \in 1 .. Len(done) + 1 |->
         IF n = 1 THEN <<"home", login>>
         ELSE Onward(w[n - 1], done[n - 1], HomeAt(n - 1))]

Placed ==
  /\ shell.cwd \in Places
  /\ \E w : Traced(w)
  /\ \A w : Traced(w) =>
       /\ shell.cwd = w[Len(done) + 1]
       /\ \A n \in 1 .. Len(done) : Explains(w[n], done[n], HomeAt(n))

\* A walk of one event more is a walk of the events before it, and an event.
LEMMA TracedOn ==
  ASSUME NEW e, NEW S, done \in Seq(S), done' = Append(done, e), login' = login,
         NEW w, Traced(w)'
  PROVE  \E v : /\ Traced(v)
                /\ \A n \in 1 .. Len(done) + 1 : w[n] = v[n]
                /\ w[Len(done) + 2] = Onward(w[Len(done) + 1], e, HomeAt(Len(done) + 1))
<1>0. PICK m \in Nat : m = Len(done)
  BY OneMore
<1> DEFINE v == [n \in 1 .. m + 1 |-> w[n]]
<1>1. /\ m \in Nat /\ Len(done') = m + 1
      /\ done'[m + 1] = e
      /\ \A i \in 1 .. m : done'[i] = done[i]
  BY <1>0, OneMore
<1>2. \A n \in 1 .. m + 1 : HomeAt(n)' = HomeAt(n)
  BY <1>0, BeforeKept DEF HomeAt
<1>3. w = [n \in 1 .. m + 2 |->
             IF n = 1 THEN <<"home", login>>
             ELSE Onward(w[n - 1], done'[n - 1], HomeAt(n - 1)')]
  <2>1. Len(done') + 1 = m + 2
    BY <1>1
  <2>. QED
    BY <2>1 DEF Traced
<1>4. w[m + 2] = Onward(w[m + 1], e, HomeAt(m + 1))
  <2>1. m + 2 \in 1 .. m + 2 /\ m + 2 # 1 /\ (m + 2) - 1 = m + 1 /\ m + 1 \in 1 .. m + 1
    BY <1>1
  <2>2. w[m + 2] = Onward(w[(m + 2) - 1], done'[(m + 2) - 1], HomeAt((m + 2) - 1)')
    BY <1>3, <2>1
  <2>. QED
    BY <1>1, <1>2, <2>1, <2>2
<1>5. ASSUME NEW n \in 1 .. m + 1
      PROVE  v[n] = IF n = 1 THEN <<"home", login>>
                    ELSE Onward(v[n - 1], done[n - 1], HomeAt(n - 1))
  <2>1. n \in 1 .. m + 2 /\ v[n] = w[n]
    BY <1>1
  <2>2. CASE n = 1
    BY <1>3, <2>1, <2>2
  <2>3. CASE n # 1
    <3>1. n - 1 \in 1 .. m /\ n - 1 \in 1 .. m + 1
      BY <1>1, <2>3
    <3>2. w[n] = Onward(w[n - 1], done'[n - 1], HomeAt(n - 1)')
      BY <1>3, <2>1, <2>3
    <3>3. v[n - 1] = w[n - 1] /\ done'[n - 1] = done[n - 1] /\ HomeAt(n - 1)' = HomeAt(n - 1)
      BY <1>1, <1>2, <3>1
    <3>. QED
      BY <2>1, <2>3, <3>2, <3>3
  <2>. QED
    BY <2>2, <2>3
<1>6. Traced(v)
  <2>1. v = [n \in 1 .. m + 1 |-> v[n]]
    OBVIOUS
  <2>. HIDE DEF v
  <2>2. v = [n \in 1 .. m + 1 |->
               IF n = 1 THEN <<"home", login>>
               ELSE Onward(v[n - 1], done[n - 1], HomeAt(n - 1))]
    BY <1>5, <2>1
  <2>. QED
    BY <1>0, <2>2 DEF Traced
<1>. QED
  BY <1>0, <1>1, <1>4, <1>6

\* Any walk can be continued.
LEMMA TracedMore ==
  ASSUME NEW e, NEW S, done \in Seq(S), done' = Append(done, e), login' = login,
         NEW v, Traced(v)
  PROVE  \E w : Traced(w)'
<1> DEFINE m == Len(done)
           w == [n \in 1 .. m + 2 |->
                   IF n = m + 2 THEN Onward(v[m + 1], e, HomeAt(m + 1)) ELSE v[n]]
<1>1. /\ m \in Nat /\ Len(done') = m + 1
      /\ done'[m + 1] = e
      /\ \A i \in 1 .. m : done'[i] = done[i]
  BY OneMore
<1>2. \A n \in 1 .. m + 1 : HomeAt(n)' = HomeAt(n)
  BY BeforeKept DEF HomeAt
<1>3. v = [n \in 1 .. m + 1 |->
             IF n = 1 THEN <<"home", login>>
             ELSE Onward(v[n - 1], done[n - 1], HomeAt(n - 1))]
  BY DEF Traced
<1>. HIDE DEF m
<1>4. ASSUME NEW n \in 1 .. m + 2
      PROVE  w[n] = IF n = 1 THEN <<"home", login>>
                    ELSE Onward(w[n - 1], done'[n - 1], HomeAt(n - 1)')
  <2>1. CASE n = m + 2
    <3>1. /\ n # 1 /\ n - 1 = m + 1 /\ m + 1 # m + 2
          /\ m + 1 \in 1 .. m + 1 /\ m + 1 \in 1 .. m + 2
      BY <1>1, <2>1
    <3>2. w[n] = Onward(v[m + 1], e, HomeAt(m + 1)) /\ w[m + 1] = v[m + 1]
      BY <2>1, <3>1
    <3>. QED
      BY <1>1, <1>2, <3>1, <3>2
  <2>2. CASE n = 1
    <3>1. n # m + 2 /\ n \in 1 .. m + 1
      BY <1>1, <2>2
    <3>. QED
      BY <1>3, <2>2, <3>1
  <2>3. CASE n # 1 /\ n # m + 2
    <3>1. /\ n \in 1 .. m + 1 /\ n - 1 \in 1 .. m /\ n - 1 \in 1 .. m + 1
          /\ n - 1 \in 1 .. m + 2 /\ n - 1 # m + 2
      BY <1>1, <2>3
    <3>2. w[n] = v[n] /\ w[n - 1] = v[n - 1]
      BY <2>3, <3>1
    <3>3. v[n] = Onward(v[n - 1], done[n - 1], HomeAt(n - 1))
      BY <1>3, <2>3, <3>1
    <3>4. done'[n - 1] = done[n - 1] /\ HomeAt(n - 1)' = HomeAt(n - 1)
      BY <1>1, <1>2, <3>1
    <3>. QED
      BY <2>3, <3>2, <3>3, <3>4
  <2>. QED
    BY <2>1, <2>2, <2>3
<1>5. w = [n \in 1 .. m + 2 |-> w[n]] /\ Len(done') + 1 = m + 2
  BY <1>1
<1>6. \E u : u = [n \in 1 .. Len(done') + 1 |->
                    IF n = 1 THEN <<"home", login>>
                    ELSE Onward(u[n - 1], done'[n - 1], HomeAt(n - 1)')]
  <2>. HIDE DEF w
  <2>1. w = [n \in 1 .. Len(done') + 1 |->
               IF n = 1 THEN <<"home", login>>
               ELSE Onward(w[n - 1], done'[n - 1], HomeAt(n - 1)')]
    BY <1>4, <1>5
  <2>. QED
    BY <2>1
<1>. QED
  BY <1>6 DEF Traced


\* One event more, explained, that leaves the shell where it leads.
LEMMA PlacedOn ==
  ASSUME Placed, NEW e, NEW S, done \in Seq(S), done' = Append(done, e), login' = login,
         shell'.cwd \in Places,
         shell'.cwd = Onward(shell.cwd, e, HomeAt(Len(done) + 1)),
         Explains(shell.cwd, e, HomeAt(Len(done) + 1))
  PROVE  Placed'
<1>0. PICK m \in Nat : m = Len(done)
  BY OneMore
<1>1. /\ Len(done') = m + 1
      /\ done'[m + 1] = e
      /\ \A i \in 1 .. m : done'[i] = done[i]
  BY <1>0, OneMore
<1>2. \E w : Traced(w)'
  BY TracedMore DEF Placed
<1>3. ASSUME NEW w, Traced(w)'
      PROVE  /\ shell'.cwd = w[Len(done') + 1]
             /\ \A n \in 1 .. Len(done') : Explains(w[n], done'[n], HomeAt(n)')
  <2>1. PICK v : /\ Traced(v)
                 /\ \A n \in 1 .. m + 1 : w[n] = v[n]
                 /\ w[m + 2] = Onward(w[m + 1], e, HomeAt(m + 1))
    BY <1>0, <1>3, TracedOn
  <2>2. /\ shell.cwd = v[m + 1]
        /\ \A n \in 1 .. m : Explains(v[n], done[n], HomeAt(n))
    BY <1>0, <2>1 DEF Placed
  <2>3. w[m + 1] = shell.cwd
    <3>1. m + 1 \in 1 .. m + 1
      BY <1>0
    <3>. QED
      BY <2>1, <2>2, <3>1
  <2>4. shell'.cwd = w[Len(done') + 1]
    <3>1. Len(done') + 1 = m + 2
      BY <1>0, <1>1
    <3>. QED
      BY <1>0, <2>1, <2>3, <3>1
  <2>5. ASSUME NEW n \in 1 .. m + 1 PROVE Explains(w[n], done'[n], HomeAt(n)')
    <3>1. HomeAt(n)' = HomeAt(n)
      BY <1>0, BeforeKept DEF HomeAt
    <3>2. CASE n = m + 1
      BY <1>0, <1>1, <2>3, <3>1, <3>2
    <3>3. CASE n # m + 1
      <4>1. n \in 1 .. m
        BY <1>0, <3>3
      <4>. QED
        BY <1>1, <2>1, <2>2, <3>1, <4>1
    <3>. QED
      BY <3>2, <3>3
  <2>. QED
    BY <1>1, <2>4, <2>5
<1>. QED
  BY <1>2, <1>3 DEF Placed

LEMMA PlacedKept ==
  ASSUME Placed, UNCHANGED <<login, shell, done>> PROVE Placed'
<1>1. \A n : HomeAt(n)' = HomeAt(n)
  BY DEF HomeAt, RootBefore
<1>2. \A w : Traced(w)' = Traced(w)
  BY <1>1 DEF Traced
<1>. QED
  BY <1>1, <1>2 DEF Placed

LEMMA PlacedBegins == Init => Placed
<1> SUFFICES ASSUME Init PROVE Placed
  OBVIOUS
<1>1. Len(done) = 0 /\ shell.cwd = <<"home", login>> /\ login \in Logins
  BY DEF Init
<1>2. shell.cwd \in Places
  BY <1>1, HomesArePlaces DEF Homes
<1>3. \A w : Traced(w) <=> w = [n \in {1} |-> <<"home", login>>]
  <2>1. 1 .. Len(done) + 1 = {1}
    BY <1>1
  <2>2. ASSUME NEW w
        PROVE  [n \in {1} |-> IF n = 1 THEN <<"home", login>>
                              ELSE Onward(w[n - 1], done[n - 1], HomeAt(n - 1))]
                 = [n \in {1} |-> <<"home", login>>]
    OBVIOUS
  <2>. QED
    BY <2>1, <2>2 DEF Traced
<1>4. \E w : Traced(w)
  BY <1>3
<1>5. ASSUME NEW w, Traced(w) PROVE shell.cwd = w[Len(done) + 1]
  <2>1. w = [n \in {1} |-> <<"home", login>>]
    BY <1>3, <1>5
  <2>2. w[1] = <<"home", login>>
    BY <2>1
  <2>. QED
    BY <1>1, <2>1, <2>2
<1>6. 1 .. Len(done) = {}
  BY <1>1
<1>. QED
  BY <1>2, <1>4, <1>5, <1>6 DEF Placed

\* The shell's home is the home of the story.
LEMMA HomeFollows ==
  ASSUME Story
  PROVE  /\ home(shell) = HomeAt(Len(done) + 1)
         /\ home(shell) \in Homes
         /\ shell.is_root = (home(shell) = <<"root">>)
         /\ shell.is_root \in BOOLEAN
         /\ ~shell.is_root => home(shell) = <<"home", login>>
<1>1. /\ shell.is_root = RootBefore(Len(done) + 1)
      /\ shell.user = IF RootSince(Len(done) + 1) THEN "root" ELSE login
      /\ login \in Logins
  BY DEF Story, ShellFollows
<1>2. ~RootBefore(Len(done) + 1) => ~RootSince(Len(done) + 1)
  BY DEF RootBefore, RootSince
<1>3. shell.is_root \in BOOLEAN
  BY <1>1 DEF RootBefore
<1>4. home(shell) = HomeAt(Len(done) + 1)
  BY <1>1, <1>2, <1>3 DEF home, HomeAt
<1>5. shell.is_root => home(shell) = <<"root">>
  BY DEF home
<1>6. ~shell.is_root => home(shell) = <<"home", login>>
  BY <1>1, <1>2, <1>3 DEF home
<1>7. <<"home", login>> # <<"root">>
  OBVIOUS
<1>. QED
  BY <1>1, <1>3, <1>4, <1>5, <1>6, <1>7 DEF Homes

LEMMA PathOfLine ==
  ASSUME NEW line \in Lines \cup {NoLine}
  PROVE  line.verb \in Verbs /\ IsPath(line.path)
<1>1. CASE line = NoLine
  <2>1. line.verb = "text" /\ line.path.from = "absent" /\ line.path.segments = <<>>
    BY <1>1 DEF NoLine, NoPath
  <2>2. <<>> \in Seq(Segment)
    OBVIOUS
  <2>. QED
    BY <2>1, <2>2 DEF IsPath, Verbs
<1>2. CASE line \in Lines
  <2> DEFINE segments == line.path.segments
  <2>1. /\ line.verb \in Verbs
        /\ line.path.from \in {"absent", "root", "home", "cwd"}
        /\ segments \in Seq(STRING)
        /\ line.path.from = "absent" => segments = <<>>
    BY <1>2 DEF Line, Path
  <2>2. Range(segments) \subseteq Segment
    BY <1>2 DEF Segment
  <2>3. segments \in Seq(Segment)
    <3> DEFINE A == STRING
               B == Segment
    <3>1. segments \in Seq(A) /\ \A i \in 1 .. Len(segments) : segments[i] \in Range(segments)
      BY <2>1 DEF Range
    <3>. HIDE DEF segments, A, B
    <3>2. \A i \in 1 .. Len(segments) : segments[i] \in B
      BY <2>2, <3>1 DEF B
    <3>3. segments \in Seq(B)
      BY <3>1, <3>2
    <3>. QED
      BY <3>3 DEF B
  <2>. QED
    BY <2>1, <2>3 DEF IsPath
<1>. QED
  BY <1>1, <1>2


LEMMA PlacedNext ==
  ASSUME Story, Placed, chan \in [Chans -> ChanState], [Next]_vars PROVE Placed'
<1>0. PICK S : done \in Seq(S)
  BY DEF Story
<1> DEFINE own == HomeAt(Len(done) + 1)
<1>h. /\ home(shell) = own /\ own \in Homes
      /\ shell.is_root = (own = <<"root">>) /\ shell.is_root \in BOOLEAN
      /\ ~shell.is_root => own = <<"home", login>>
      /\ own \in Places /\ shell.cwd \in Places
  BY HomeFollows, HomesArePlaces DEF Placed
<1>s. IsShell(shell)
  BY DEF Story, ShellFollows
<1>1. ASSUME NEW h \in Chans, NEW state, NEW exec, NEW line, Starts(h, state, exec, line)
      PROVE  Placed'
  <2>1. done' = Append(done, Opened) /\ shell' = attach /\ login' = login
    BY <1>1 DEF Starts
  <2>2. Opened.verb = "open"
    BY DEF Opened, Event
  <2>3. shell'.cwd = IF shell.is_root THEN shell.cwd ELSE <<"home", login>>
    BY <1>s, <2>1 DEF attach, IsShell
  <2>. HIDE DEF own
  <2>4. shell'.cwd = Onward(shell.cwd, Opened, own)
    BY <1>h, <2>2, <2>3 DEF Onward
  <2>5. shell'.cwd \in Places
    BY <1>h, <2>3
  <2>6. Explains(shell.cwd, Opened, own)
    BY <2>2 DEF Explains
  <2>. QED
    BY <1>0, <2>1, <2>4, <2>5, <2>6, PlacedOn DEF own
<1>2. ASSUME NEW h \in Chans, CommandEnds(h) PROVE Placed'
  <2> DEFINE line == chan[h].line
             e == Event(line.verb, line.path, run_command(shell, line))
  <2>1. done' = Append(done, e) /\ shell' = after(shell, line) /\ login' = login
    BY <1>2 DEF CommandEnds
  <2>2. line.verb \in Verbs /\ IsPath(line.path)
    <3>1. line \in Lines \cup {NoLine}
      BY DEF ChanState
    <3>. HIDE DEF line
    <3>. QED
      BY <3>1, PathOfLine
  <2>3. Explains(shell.cwd, e, own)
    <3>. HIDE DEF line, own
    <3>. QED
      BY <1>h, <2>2, AnswersExplained
  <2>4. /\ resolve(shell, line.path) = Walk(shell.cwd, line.path, own)
        /\ Walk(shell.cwd, line.path, own) \in Places
    <3>. HIDE DEF line, own
    <3>. QED
      BY <1>h, <2>2, ResolveIsWalk
  <2>5. e.verb = line.verb /\ e.path = line.path
    BY DEF Event
  <2>6. line.verb # "open"
    BY <2>2 DEF Verbs
  <2>7. /\ line.verb = "escalate" => shell'.cwd = <<"root">>
        /\ line.verb = "cd" => shell'.cwd = resolve(shell, line.path)
        /\ line.verb \notin {"escalate", "cd"} => shell'.cwd = shell.cwd
    BY <1>s, <2>1 DEF after, escalate_to_root, IsShell
  <2>. HIDE DEF line, own, e
  <2>8. shell'.cwd = Onward(shell.cwd, e, own)
    BY <2>4, <2>5, <2>6, <2>7 DEF Onward
  <2>9. shell'.cwd \in Places
    <3>1. <<"root">> \in Places
      BY HomesArePlaces DEF Homes
    <3>. QED
      BY <1>h, <2>4, <2>7, <3>1
  <2>. QED
    BY <1>0, <2>1, <2>3, <2>8, <2>9, PlacedOn DEF own
<1>3. ASSUME NEW h \in Chans, EndOfInput(h) PROVE Placed'
  BY <1>3, PlacedKept DEF EndOfInput
<1>4. ASSUME NEW h \in Chans, NEW line \in Lines, ReadLine(h, line) PROVE Placed'
  BY <1>4, PlacedKept DEF ReadLine
<1>5. CASE ConnectionLost
  BY <1>5, PlacedKept DEF ConnectionLost
<1>6. CASE UNCHANGED vars
  BY <1>6, PlacedKept DEF vars
<1>. QED
  BY <1>1, <1>2, <1>3, <1>4, <1>5, <1>6 DEF Next, OpenShell, OpenExec

\* Whereabouts is such a walk.
LEMMA PlacedExplains == ASSUME Placed, Story PROVE PlacesExplained
<1>1. \E w : Traced(w)
  BY DEF Placed
<1>2. Traced(Whereabouts)
  <2>1. Traced(CHOOSE w : Traced(w))
    BY <1>1
  <2>2. Whereabouts = CHOOSE w : Traced(w)
    BY DEF Whereabouts, Traced
  <2>. QED
    BY <2>1, <2>2
<1>3. \A n \in 1 .. Len(done) : Explains(Whereabouts[n], done[n], HomeAt(n))
  <2>. HIDE DEF Whereabouts
  <2>. QED
    BY <1>2 DEF Placed
<1>4. DOMAIN done = 1 .. Len(done)
  <2>1. PICK S : done \in Seq(S)
    BY DEF Story
  <2>. QED
    BY <2>1
<1>. QED
  BY <1>3, <1>4 DEF PlacesExplained

\* Wherever the cd's of all channels lead, pwd and ls answer for that place: what
\* _resolve makes of a whole path is where the walk along it ends, never above /,
\* and the listings of _ls go by the shell that the escalations and openings of
\* handle_shell and _handle_command left.
THEOREM ShellPlacesExplained == Spec => []PlacesExplained
<1> DEFINE Inv == IInv /\ Placed
<1>1. Inv => PlacesExplained
  BY PlacedExplains DEF IInv
<1>2. Init => Inv
  BY StoryBegins, ChanTypeInit, PlacedBegins DEF IInv
<1>3. Inv /\ [Next]_vars => Inv'
  BY StoryNext, ChanTypeNext, PlacedNext DEF IInv
<1>. QED
  BY <1>1, <1>2, <1>3, PTL DEF Spec

=============================================================================
