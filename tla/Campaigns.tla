------------------------------ MODULE Campaigns ------------------------------
(***************************************************************************)
(* The attacker: `attacker all` discovers services with nmap, plans one    *)
(* campaign per service, runs them one after another or each in a thread   *)
(* of its own, and folds their reports into one (attacker/main.py);        *)
(* `attacker ssh`, `ftp` and `http` run a single campaign.  A campaign     *)
(* (attacker/attacks/) resolves its lists, which may mean to download them *)
(* (Wordlists), attacks, and adds up what makes the target look like a     *)
(* honeypot.  It ends with a report, or by an exception.                   *)
(*                                                                         *)
(* What tools and targets answer is nondeterministic.  Of accepted logins  *)
(* analyze_logins tells apart: none, a few (to be compared with the known  *)
(* defaults), and too many to be true.                                     *)
(***************************************************************************)
EXTENDS Naturals, Sequences, SequencesExt, FiniteSetsExt

CONSTANTS
  Services,    \* what may be attacked, in the order of _CAMPAIGNS and ports
  Protocol,    \* of a service
  Banners,     \* weights detect_* may give before the attack
  Weights,     \* bound: the weights given later that are considered
  CommandLines,
  Lists, Blocks, None,  \* see Wordlists
  KeptLists    \* bound: lists that are in the directory at the start

Protocols == {"http", "ftp", "ssh"}

Campaigns == Range(Services)

Phases == {"hydra", "anonymous", "login", "dirsearch"}

(* command: "all" or a protocol; skip: protocols (all) or phases of it;    *)
(* forced: services given by --<x>-port; given: lists given as files;      *)
(* dirsearch: is that tool installed?                                      *)
Options ==
  [command : Protocols \cup {"all"}, parallel : BOOLEAN, terminal : BOOLEAN,
   full : BOOLEAN, skip : SUBSET (Protocols \cup Phases),
   forced : SUBSET Campaigns, given : SUBSET Lists, dirsearch : BOOLEAN]

ASSUME CampaignsAssumption ==
  /\ Services \in Seq(Campaigns) /\ IsInjective(Services)
  /\ Protocol \in [Campaigns -> Protocols]
  /\ Banners \subseteq Nat /\ Weights \subseteq Nat
  /\ CommandLines \subseteq Options
  /\ \A o \in CommandLines :
       o.command = "all" => ~o.full /\ o.given = {} /\ o.skip \subseteq Protocols
  /\ {"usernames", "passwords", "directories", "ssh-default", "ftp-default",
      "http-default"} \subseteq Lists
  /\ KeptLists \subseteq Lists
  /\ Blocks \in Nat \ {0} /\ None \notin Lists

VARIABLES
  options,
  main,          \* what the main thread does
  exit,          \* the exit code, once main has "ended"
  plan,          \* the campaigns, in order
  camp,          \* the campaigns' state
  report,        \* their report.json
  consolidated,  \* the report over all of them
  file, tmp, job, shared

lists == <<file, tmp, job, shared>>

vars == <<options, main, exit, plan, camp, report, consolidated, lists>>

W == INSTANCE Wordlists WITH Workers <- Campaigns

Fresh ==
  [stage |-> "planned",
   todo  |-> <<>>,     \* lists to resolve
   got   |-> {},       \* lists resolved
   haul  |-> "none",   \* logins accepted: "none", "few", "many"
   score |-> 0,        \* HoneypotVerdict.score before it is capped
   ran   |-> {}]       \* brute-force phases that ran: "default", "full"

NoReport == [written |-> FALSE]

Init ==
  /\ options \in CommandLines
  /\ main = "start"
  /\ exit = 0
  /\ plan = <<>>
  /\ camp = [c \in Campaigns |-> Fresh]
  /\ report = [c \in Campaigns |-> NoReport]
  /\ consolidated = NoReport
  /\ W!Init
  /\ \A l \in KeptLists : file[l] = W!Whole

----------------------------------------------------------------------------
(* The plan. *)

Exit(code) ==
  /\ main' = "ended"
  /\ exit' = code

(* _preflight finds something missing or nmap fails: 2; an exception: 1. *)
StartFails(code) ==
  /\ main = "start"
  /\ Exit(code)
  /\ UNCHANGED <<options, plan, camp, report, consolidated, lists>>

(* _plan_campaigns *)
Planned(found) ==
  {c \in Campaigns :
     /\ Protocol[c] \notin options.skip
     /\ IF \E d \in options.forced : Protocol[d] = Protocol[c]
        THEN c \in options.forced
        ELSE c \in found}

Start(p) ==
  /\ main' = "running"
  /\ plan' = p
  /\ UNCHANGED <<options, exit, camp, report, consolidated, lists>>

InOrder(p) ==
  \A i, j \in DOMAIN p : i < j =>
    \E k, l \in DOMAIN Services : k < l /\ Services[k] = p[i] /\ Services[l] = p[j]

Discover(found) ==
  /\ main = "start"
  /\ options.command = "all"
  /\ \E p \in BoundedSeq(Campaigns, Len(Services)) :
       Range(p) = Planned(found) /\ InOrder(p) /\ Start(p)

(* A command for one protocol; _resolve_port picks the service. *)
Single(c) ==
  /\ main = "start"
  /\ options.command = Protocol[c]
  /\ Start(<<c>>)

----------------------------------------------------------------------------
(* A campaign. *)

Parallel == options.parallel /\ Len(plan) > 1

Ended == {"done", "raised"}

(* The campaign is submitted to the pool, or its turn has come. *)
Due(c) ==
  /\ main = "running" \/ (main = "interrupted" /\ Parallel)
  /\ camp[c].stage = "planned"
  /\ \E i \in DOMAIN plan :
       /\ plan[i] = c
       /\ Parallel \/ \A j \in 1 .. i - 1 : camp[plan[j]].stage = "done"

Change(c, record) ==
  /\ camp' = [camp EXCEPT ![c] = record]
  /\ UNCHANGED <<options, main, exit, plan, consolidated>>

Step(c, record) == Change(c, record) /\ UNCHANGED <<report, lists>>

DefaultList(c) == IF Protocol[c] = "ssh" THEN "ssh-default" ELSE "ftp-default"

(* _phase_dirsearch: neither skipped nor without the tool. *)
Searches == options.dirsearch /\ "dirsearch" \notin options.skip

(* The lists a campaign resolves, in this order. *)
Needs(c) ==
  IF Protocol[c] = "http"
  THEN (IF Searches THEN <<"directories">> ELSE <<>>) \o
       (IF "login" \in options.skip THEN <<>> ELSE <<"usernames", "passwords">>)
  ELSE <<DefaultList(c), "usernames", "passwords">>

Reachable(c, banner) ==
  /\ Due(c)
  /\ Step(c, [Fresh EXCEPT !.stage = "resolve", !.todo = Needs(c), !.score = banner])

WriteReport(c, rc, assessed, score) ==
  report' = [report EXCEPT
    ![c] = [written |-> TRUE, rc |-> rc, assessed |-> assessed, score |-> score]]

Unreachable(c) ==
  /\ Due(c)
  /\ WriteReport(c, 2, FALSE, 0)
  /\ Change(c, [camp[c] EXCEPT !.stage = "done"])
  /\ UNCHANGED lists

(* resolve_...: the list on the command line, or ensure_... . *)
Resolving(c) == camp[c].stage \in {"resolve", "compare"} /\ camp[c].todo # <<>>

Resolved(c) == [camp[c] EXCEPT !.got = @ \cup {Head(camp[c].todo)}, !.todo = Tail(@)]

(* Mutant of NotResolved: another attempt, until one succeeds. *)
NotResolvedYet(c) == camp[c]

NotResolved(c) == [camp[c] EXCEPT !.todo = Tail(@)]

IsGiven(c) == camp[c].stage = "resolve" /\ Head(camp[c].todo) \in options.given

Resolve(c) ==
  /\ Resolving(c)
  /\ IF IsGiven(c) THEN UNCHANGED lists
     ELSE W!Cached(c, Head(camp[c].todo))
  /\ Change(c, Resolved(c))
  /\ UNCHANGED report

Fetch(c) ==
  /\ Resolving(c)
  /\ ~IsGiven(c)
  /\ W!Begin(c, Head(camp[c].todo))
  /\ UNCHANGED <<options, main, exit, plan, camp, report, consolidated>>

Fetching(c) ==
  /\ W!Open(c) \/ W!Write(c) \/ W!RenameFails(c)
  /\ UNCHANGED <<options, main, exit, plan, camp, report, consolidated>>

(* Mutant of Fetched: the temporary file is copied. *)
FetchedCopied(c) ==
  /\ W!Retrieved(c)
  /\ tmp[job[c].list] # W!Absent
  /\ file' = [file EXCEPT ![job[c].list] = tmp[job[c].list]]
  /\ job' = [job EXCEPT ![c] = W!Idle]
  /\ Change(c, Resolved(c))
  /\ UNCHANGED <<report, tmp, shared>>

Fetched(c) ==
  /\ W!Rename(c)
  /\ Change(c, Resolved(c))
  /\ UNCHANGED report

FetchFails(c) ==
  /\ W!Fail(c)
  /\ Change(c, NotResolved(c))
  /\ UNCHANGED report

Hauls == {"none", "few", "many"}

Ready(c) == camp[c].stage = "resolve" /\ camp[c].todo = <<>>

HasPairs(c) == {"usernames", "passwords"} \subseteq camp[c].got

BruteForces(c) == Protocol[c] # "http" /\ "hydra" \notin options.skip

(* Phase 4 of http_scan: without both lists there is nothing to try. *)
Spray(c, haul) ==
  /\ Ready(c)
  /\ Protocol[c] = "http"
  /\ HasPairs(c) \/ haul = "none"
  /\ Step(c, [camp[c] EXCEPT !.stage = "judge", !.haul = haul])

SkipHydra(c) ==
  /\ Ready(c)
  /\ Protocol[c] # "http" /\ ~BruteForces(c)
  /\ Step(c, [camp[c] EXCEPT !.stage = "judge"])

TriesDefaults(c) == ~options.full /\ DefaultList(c) \in camp[c].got

(* run_credential_bruteforce: the defaults first. *)
TryDefaults(c, haul) ==
  /\ Ready(c)
  /\ BruteForces(c)
  /\ TriesDefaults(c)
  /\ Step(c, [camp[c] EXCEPT !.stage = IF haul = "none" THEN "ask" ELSE "judge",
                             !.haul = haul,
                             !.ran = @ \cup {"default"}])

(* Mutant of MayAgree: without a terminal the answer is yes. *)
MayAgreeUnasked(c) == TRUE

(* Without a terminal the answer is no. *)
MayAgree(c) == options.terminal

(* prompt_yes_no *)
Answer(c, yes) ==
  /\ camp[c].stage = "ask"
  /\ yes => MayAgree(c)
  /\ Step(c, [camp[c] EXCEPT !.stage = IF yes THEN "full" ELSE "judge"])

(* _run_full *)
TryAll(c, haul) ==
  /\ \/ camp[c].stage = "full"
     \/ (Ready(c) /\ BruteForces(c) /\ ~TriesDefaults(c))
  /\ HasPairs(c) \/ haul = "none"
  /\ Step(c, [camp[c] EXCEPT !.stage = "judge",
                             !.haul = haul,
                             !.ran = IF HasPairs(c) THEN @ \cup {"full"} ELSE @])

(* analyze_logins; a few logins are compared with the known defaults.      *)
Reference(c) == IF Protocol[c] = "http" THEN "http-default" ELSE DefaultList(c)

Judge(c) ==
  /\ camp[c].stage = "judge"
  /\ Step(c, CASE camp[c].haul = "none" -> [camp[c] EXCEPT !.stage = "loot"]
               [] camp[c].haul = "many" ->
                    [camp[c] EXCEPT !.stage = "loot", !.score = @ + 85]
               [] camp[c].haul = "few" ->
                    [camp[c] EXCEPT !.stage = "compare",
                                    !.todo = <<Reference(c)>>,
                                    !.got = @ \ {Reference(c)}])

(* The weight of none, one or two known defaults. *)
Compare(c, weight) ==
  /\ camp[c].stage = "compare"
  /\ camp[c].todo = <<>>
  /\ weight \in IF Reference(c) \in camp[c].got THEN {0, 45, 90} ELSE {0}
  /\ Step(c, [camp[c] EXCEPT !.stage = "loot", !.score = @ + weight])

(* ssh_post_exploit, or _phase_anonymous and ftp_post_exploit: sums of the *)
(* weights of what a login shows.                                          *)
LootWeights(c) ==
  CASE Protocol[c] = "ssh" /\ camp[c].haul # "none" -> {0, 35, 80, 115}
    [] Protocol[c] = "ftp" /\ (camp[c].haul # "none" \/ "anonymous" \notin options.skip)
                                                     -> {0, 45, 50, 95}
    [] OTHER                                         -> {0}

Loot(c, weight) ==
  /\ camp[c].stage = "loot"
  /\ weight \in LootWeights(c)
  /\ Step(c, [camp[c] EXCEPT !.stage = "report", !.score = @ + weight])

AtMost100(n) == IF n > 100 THEN 100 ELSE n

Report(c) ==
  /\ camp[c].stage = "report"
  /\ WriteReport(c, 0, TRUE, AtMost100(camp[c].score))
  /\ Change(c, [camp[c] EXCEPT !.stage = "done"])
  /\ UNCHANGED lists

UnderWay(c) == camp[c].stage \notin {"planned"} \cup Ended

(* An exception: a full disk, output of a tool that is not UTF-8, ... .    *)
Raise(c) ==
  /\ Due(c) \/ UnderWay(c)
  /\ job[c] = W!Idle
  /\ Step(c, [camp[c] EXCEPT !.stage = "raised"])

----------------------------------------------------------------------------
(* The end. *)

Outcome(c) == [campaign |-> c, rc |-> report[c].rc]

Suspected(score) == score >= 50

(* aggregate_cooperation over the reports with an assessment. *)
Assessed == {c \in Range(plan) : report[c].assessed}

Cooperative == {c \in Assessed : Suspected(report[c].score)}

(* Mutant of Bonus: every assessed service adds to the score. *)
BonusOfAll == 25 * (Cardinality(Assessed) - 1)

Bonus == IF Cooperative = {} THEN 0 ELSE 25 * (Cardinality(Cooperative) - 1)

CrossScore ==
  IF Assessed = {} THEN 0
  ELSE AtMost100(Max({report[c].score : c \in Assessed}) + Bonus)

(* _write_campaign_report, _apply_cross_protocol_honeypot *)
Consolidated ==
  [written  |-> TRUE,
   outcomes |-> [i \in DOMAIN plan |-> Outcome(plan[i])],
   assessed |-> Assessed # {},
   score    |-> CrossScore]

(* Mutant of Failed: 2, of an unreachable target, is not counted. *)
FailedWithOne == {i \in DOMAIN plan : report[plan[i]].rc = 1}

Failed == {i \in DOMAIN plan : report[plan[i]].rc # 0}

Finish ==
  /\ main = "running"
  /\ \A c \in Range(plan) : camp[c].stage = "done"
  /\ IF options.command = "all"
     THEN /\ consolidated' = Consolidated
          /\ Exit(IF Failed = {} THEN 0 ELSE 1)
     ELSE /\ consolidated' = consolidated
          /\ Exit(report[plan[1]].rc)
  /\ UNCHANGED <<options, plan, camp, report, lists>>

(* Mutant of Settled: shutdown(wait=False). *)
SettledAtOnce == TRUE

(* Leaving the `with` of the pool waits for all its threads. *)
Settled == ~Parallel \/ \A c \in Range(plan) : camp[c].stage \in Ended

(* future.result(), the campaign or the last report raises.                *)
Crash ==
  /\ main = "running"
  /\ \/ \E c \in Range(plan) : camp[c].stage = "raised"
     \/ \A c \in Range(plan) : camp[c].stage = "done"
  /\ Settled
  /\ Exit(1)
  /\ UNCHANGED <<options, plan, camp, report, consolidated, lists>>

(* Ctrl-C ends a campaign in the main thread, and a download half-way; it  *)
(* does not reach the threads of the pool.                                 *)
Interrupt ==
  /\ main \in {"start", "running"}
  /\ main' = "interrupted"
  /\ IF Parallel THEN UNCHANGED <<camp, lists>>
     ELSE /\ camp' = [c \in Campaigns |->
                        IF UnderWay(c) THEN [camp[c] EXCEPT !.stage = "raised"]
                        ELSE camp[c]]
          /\ IF \E c \in Campaigns : UnderWay(c)
             THEN \E c \in Campaigns : UnderWay(c) /\ W!Abandon(c)
             ELSE UNCHANGED lists
  /\ UNCHANGED <<options, exit, plan, report, consolidated>>

Interrupted ==
  /\ main = "interrupted"
  /\ Settled
  /\ Exit(130)
  /\ UNCHANGED <<options, plan, camp, report, consolidated, lists>>

Next ==
  \/ \E code \in {1, 2} : StartFails(code)
  \/ \E found \in SUBSET Campaigns : Discover(found)
  \/ \E c \in Campaigns : Single(c)
  \/ \E c \in Campaigns, banner \in Banners : Reachable(c, banner)
  \/ \E c \in Campaigns : Unreachable(c)
  \/ \E c \in Campaigns : Resolve(c)
  \/ \E c \in Campaigns : Fetch(c)
  \/ \E c \in Campaigns : Fetching(c)
  \/ \E c \in Campaigns : Fetched(c)
  \/ \E c \in Campaigns : FetchFails(c)
  \/ \E c \in Campaigns, haul \in Hauls : Spray(c, haul)
  \/ \E c \in Campaigns : SkipHydra(c)
  \/ \E c \in Campaigns, haul \in Hauls : TryDefaults(c, haul)
  \/ \E c \in Campaigns, yes \in BOOLEAN : Answer(c, yes)
  \/ \E c \in Campaigns, haul \in Hauls : TryAll(c, haul)
  \/ \E c \in Campaigns : Judge(c)
  \/ \E c \in Campaigns, weight \in Weights : Compare(c, weight)
  \/ \E c \in Campaigns, weight \in Weights : Loot(c, weight)
  \/ \E c \in Campaigns : Report(c)
  \/ \E c \in Campaigns : Raise(c)
  \/ Finish
  \/ Crash
  \/ Interrupt
  \/ Interrupted

Spec == Init /\ [][Next]_vars

(***************************************************************************)
(* Threads run, and commands and requests have timeouts (hydra too, unless *)
(* told otherwise); the network under urlretrieve and the user at the      *)
(* terminal owe no answer.                                                 *)
(***************************************************************************)
Works(c) ==
  \/ \E banner \in Banners : Reachable(c, banner)
  \/ Unreachable(c) \/ Resolve(c) \/ Fetch(c) \/ Fetched(c)
  \/ (W!RenameFails(c) /\ Fetching(c))
  \/ (job[c].at = "failed" /\ FetchFails(c))
  \/ \E haul \in Hauls : Spray(c, haul) \/ TryDefaults(c, haul) \/ TryAll(c, haul)
  \/ SkipHydra(c) \/ Judge(c) \/ Report(c)
  \/ (~options.terminal /\ Answer(c, FALSE))
  \/ \E weight \in Weights : Compare(c, weight) \/ Loot(c, weight)

Proceeds ==
  \/ \E code \in {1, 2} : StartFails(code)
  \/ \E found \in SUBSET Campaigns : Discover(found)
  \/ \E c \in Campaigns : Single(c)
  \/ Finish \/ Crash \/ Interrupted

Fairness == WF_vars(Proceeds) /\ \A c \in Campaigns : WF_vars(Works(c))

FairSpec == Spec /\ Fairness

----------------------------------------------------------------------------
(***************************************************************************)
(* Properties.                                                             *)
(***************************************************************************)
Reports ==
  [written : {TRUE}, rc : {0, 2}, assessed : BOOLEAN, score : 0 .. 100]

(* The type of every variable; a campaign outside the plan never runs.     *)
TypeOK ==
  /\ options \in Options
  /\ main \in {"start", "running", "interrupted", "ended"}
  /\ exit \in {0, 1, 2, 130}
  /\ plan \in Seq(Campaigns)
  /\ camp \in
       [Campaigns ->
         [stage : {"planned", "resolve", "ask", "full", "judge", "compare", "loot",
                   "report"} \cup Ended,
          todo : Seq(Lists), got : SUBSET Lists, haul : Hauls, score : Nat,
          ran : SUBSET {"default", "full"}]]
  /\ \A c \in Campaigns \ Range(plan) : camp[c] = Fresh
  /\ report \in [Campaigns -> Reports \cup {NoReport}]
  /\ W!TypeOK

(* The exit code says what happened: 0 only if every planned campaign      *)
(* ended with a report of its own that says 0, and the report over all of  *)
(* them, if it was asked for, lists each with its own code, in the order   *)
(* of the plan, whatever order they ended in and whichever failed.         *)
AllAccounted ==
  /\ consolidated.written =>
       /\ DOMAIN consolidated.outcomes = DOMAIN plan
       /\ \A i \in DOMAIN plan :
            /\ camp[plan[i]].stage = "done"
            /\ consolidated.outcomes[i] = Outcome(plan[i])
  /\ main = "ended" /\ exit = 0 =>
       /\ \A c \in Range(plan) : report[c].written /\ report[c].rc = 0
       /\ options.command = "all" => consolidated.written

(* The verdict over all services agrees with theirs: the target is         *)
(* suspected exactly if one of them was, and is never less suspect than    *)
(* the worst of them; without any assessment there is none.                *)
VerdictAgrees ==
  consolidated.written =>
    /\ Suspected(consolidated.score) = (\E c \in Assessed : Suspected(report[c].score))
    /\ \A c \in Assessed : report[c].score <= consolidated.score
    /\ consolidated.assessed = (\E c \in Range(plan) : report[c].rc = 0)

(* The program does not end, by an exception or an interrupt either, while *)
(* a campaign attacks or downloads, and nothing begins afterwards; no      *)
(* temporary file is left but by an interrupt, although downloads of one   *)
(* list use one name (test_wordlists.py: "Temp file is renamed away, not   *)
(* left behind").                                                          *)
EndsClean ==
  main = "ended" =>
    /\ \A c \in Campaigns : ~UnderWay(c) /\ job[c] = W!Idle /\ ~Due(c)
    /\ exit # 130 => \A l \in Lists : tmp[l] = W!Absent

(* A list in the cache is whole unless two campaigns fetched it at once.   *)
SpoiltOnlyIfShared == W!SpoiltOnlyIfShared

(* Without a terminal and --full-wordlist, a campaign whose default list   *)
(* is in the cache never uses the large lists, whatever the others do      *)
(* (docs/ATTACKER.md: "the escalation is declined automatically").         *)
CachedDefaultsSuffice ==
  \A c \in Campaigns :
    /\ ~options.terminal /\ ~options.full
    /\ Protocol[c] # "http" /\ DefaultList(c) \in KeptLists
    => "full" \notin camp[c].ran

CachedIsWhole == W!CachedIsWhole

(* The lists behave as Wordlists says. *)
ImplementsWordlists == W!Spec

(* The program ends unless it waits for a download or for an answer for    *)
(* ever: an exception, an interrupt or a lost race blocks nothing.         *)
Waiting ==
  \E c \in Campaigns : job[c] # W!Idle \/ (camp[c].stage = "ask" /\ options.terminal)

Ends == <>(main = "ended") \/ <>[]Waiting

============================================================================
