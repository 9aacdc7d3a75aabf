----------------------------- MODULE MCPrograms -----------------------------
(***************************************************************************)
(* The programs that run by themselves, for TLC: the attacker's campaigns, *)
(* the analyzer's lookups and the dashboards' provisioner share nothing,   *)
(* so a behaviour is about one of them: no campaign is on, or the others   *)
(* stay as they are at the start.                                          *)
(***************************************************************************)
EXTENDS MCCampaigns, MCReputation, MCProvisioner

VARIABLE part

NoAttack ==
  /\ options = CHOOSE o \in CommandLines : TRUE
  /\ main = "ended"
  /\ exit = 1
  /\ plan = <<>>
  /\ camp = [c \in Campaigns |-> Fresh]
  /\ report = [c \in Campaigns |-> NoReport]
  /\ consolidated = NoReport
  /\ file = [l \in Lists |-> W!Whole]
  /\ W!Init

ProgramsInit ==
  /\ part \in {"attacker", "analyzer", "provisioner"}
  /\ IF part = "attacker" THEN Init ELSE NoAttack
  /\ ReputationInit
  /\ part # "analyzer" => key = [p \in Providers |-> TRUE]
  /\ ProvisionerInit
  /\ part # "provisioner" => made = <<>> /\ oldestFirst

Campaigning == part = "attacker" /\ UNCHANGED <<part, reputationVars, provisionerVars>>
Asking == part = "analyzer" /\ UNCHANGED <<part, vars, provisionerVars>>
Provisioning == part = "provisioner" /\ UNCHANGED <<part, vars, reputationVars>>

\* Next, ReputationNext or ProvisionerNext, action by action.
ProgramsNext ==
  \/ \E code \in {1, 2} : StartFails(code) /\ Campaigning
  \/ \E hosts \in SUBSET Campaigns : Discover(hosts) /\ Campaigning
  \/ \E c \in Campaigns : Single(c) /\ Campaigning
  \/ \E c \in Campaigns, banner \in Banners : Reachable(c, banner) /\ Campaigning
  \/ \E c \in Campaigns : Unreachable(c) /\ Campaigning
  \/ \E c \in Campaigns : Resolve(c) /\ Campaigning
  \/ \E c \in Campaigns : Fetch(c) /\ Campaigning
  \/ \E c \in Campaigns : Fetching(c) /\ Campaigning
  \/ \E c \in Campaigns : Fetched(c) /\ Campaigning
  \/ \E c \in Campaigns : FetchFails(c) /\ Campaigning
  \/ \E c \in Campaigns, haul \in Hauls : Spray(c, haul) /\ Campaigning
  \/ \E c \in Campaigns : SkipHydra(c) /\ Campaigning
  \/ \E c \in Campaigns, haul \in Hauls : TryDefaults(c, haul) /\ Campaigning
  \/ \E c \in Campaigns, yes \in BOOLEAN : Answer(c, yes) /\ Campaigning
  \/ \E c \in Campaigns, haul \in Hauls : TryAll(c, haul) /\ Campaigning
  \/ \E c \in Campaigns : Judge(c) /\ Campaigning
  \/ \E c \in Campaigns, weight \in Weights : Compare(c, weight) /\ Campaigning
  \/ \E c \in Campaigns, weight \in Weights : Loot(c, weight) /\ Campaigning
  \/ \E c \in Campaigns : Report(c) /\ Campaigning
  \/ \E c \in Campaigns : Raise(c) /\ Campaigning
  \/ Finish /\ Campaigning
  \/ Crash /\ Campaigning
  \/ Interrupt /\ Campaigning
  \/ Interrupted /\ Campaigning
  \/ \E e \in Events : Reuse(e) /\ Asking
  \/ \E e \in Events : Begin(e) /\ Asking
  \/ \E p \in Providers : Lookup(p) /\ Asking
  \/ \E p \in Providers, a \in Answers : Ask(p, a) /\ Asking
  \/ \E p \in Providers : AskRaises(p) /\ Asking
  \/ Store /\ Asking
  \/ WriteEnriched /\ Asking
  \/ AnalyzerStops /\ Asking
  \/ \E keys \in [Providers -> BOOLEAN] : AnalyzerRestarts(keys) /\ Asking
  \/ \E r \in Runs : StartRun(r) /\ Provisioning
  \/ \E r \in Runs : ServerReady(r) /\ Provisioning
  \/ \E r \in Runs : GiveUp(r) /\ Provisioning
  \/ \E r \in Runs : List(r) /\ Provisioning
  \/ \E r \in Runs : Delete(r) /\ Provisioning
  \/ \E r \in Runs : DeleteGone(r) /\ Provisioning
  \/ \E r \in Runs : AllDeleted(r) /\ Provisioning
  \/ \E r \in Runs : Post(r) /\ Provisioning
  \/ \E r \in Runs : Fail(r) /\ Provisioning
  \/ \E r \in Runs : LatePost(r) /\ Provisioning
  \/ \E i \in lateDeletes : LateDelete(i) /\ Provisioning

\* The fairness of the three; only the analyzer would have work to do at rest.
ProgramsSpec ==
  /\ ProgramsInit
  /\ [][ProgramsNext]_<<part, vars, reputationVars, provisionerVars>>
  /\ Fairness
  /\ WF_reputationVars(part = "analyzer" /\ AnalyzerWorks)
  /\ WF_reputationVars(\E keys \in [Providers -> BOOLEAN] : AnalyzerRestarts(keys))
  /\ ProvisionerFairness
=============================================================================
