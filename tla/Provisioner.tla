----------------------------- MODULE Provisioner -----------------------------
(***************************************************************************)
(* openobserve/provision.py: replaces the dashboards of OpenObserve, title *)
(* by title, by those of dashboards/*.json.  compose runs it once at every *)
(* start of the stack, and it is run by hand, so runs may overlap; each of *)
(* its requests may fail, or be given up after 15 s and carried out later. *)
(***************************************************************************)
EXTENDS Naturals, Sequences

CONSTANTS Runs,     \* runs of the program
          Titles,   \* titles of dashboards
          Files,    \* the title in each of dashboards/*.json, sorted by file
          Nobody,   \* not a run
          MaxOld    \* bound: dashboards imported by hand before

ASSUME FilesAssumption == Files \in Seq(Titles) /\ Files # << >>
ASSUME NobodyAssumption == Nobody \notin Runs
ASSUME BoundsAssumption == MaxOld \in Nat

VARIABLES
  made,         \* the title of every dashboard ever created, in that order
  gone,         \* the dashboards (places in made) that were deleted
  oldestFirst,  \* does OpenObserve list dashboards in order of creation?
  pc,           \* where each run is
  at,           \* the file it works on
  found,        \* the dashboards it has listed and not yet deleted
  lateDeletes,  \* dashboards whose deletion was given up but is under way
  latePosts,    \* runs whose post was given up but is under way
  sole          \* the run that nothing has come between since it began

server == <<made, gone, oldestFirst>>
late == <<lateDeletes, latePosts>>
provisionerVars == <<server, pc, at, found, late, sole>>

Ids == 1..Len(made)
Copies(t) == {i \in Ids \ gone : made[i] = t}
Active == {"waiting", "listing", "deleting", "posting"}
Over == {"done", "failed", "interrupted", "outrun"}
Replacing == {"deleting", "posting", "interrupted", "outrun"}
Current(r) == Files[at[r]]

\* Anything may have been imported by hand before.
ProvisionerInit ==
  /\ made \in UNION {[1..n -> Titles] : n \in 0..MaxOld}
  /\ gone = {}
  /\ oldestFirst \in BOOLEAN
  /\ pc = [r \in Runs |-> "off"]
  /\ at = [r \in Runs |-> 1]
  /\ found = [r \in Runs |-> {}]
  /\ lateDeletes = {}
  /\ latePosts = {}
  /\ sole = Nobody

Quiet == (\A r \in Runs : pc[r] \notin Active) /\ lateDeletes = {} /\ latePosts = {}

StartRun(r) ==
  /\ pc[r] = "off"
  /\ pc' = [pc EXCEPT ![r] = "waiting"]
  /\ sole' = IF Quiet THEN r ELSE Nobody
  /\ UNCHANGED <<server, at, found, late>>

\* wait_ready: polled until OpenObserve answers or WAIT_TIMEOUT is over.
ServerReady(r) ==
  /\ pc[r] = "waiting"
  /\ pc' = [pc EXCEPT ![r] = "listing"]
  /\ UNCHANGED <<server, at, found, late, sole>>

\* Mutant of GiveUp: the deadline is compared with the start, which never passes.
GiveUpNever(r) == pc[r] = "done" /\ UNCHANGED provisionerVars

GiveUp(r) ==
  /\ pc[r] = "waiting"
  /\ pc' = [pc EXCEPT ![r] = "failed"]
  /\ UNCHANGED <<server, at, found, late, sole>>

\* Mutant of existing_by_title: the title of the file is not looked at.
ExistingAny(t) == Ids \ gone

\* Mutant of existing_by_title: it returns at the first dashboard it finds.
ExistingFirst(t) ==
  {i \in Copies(t) : \A j \in Copies(t) : i <= j}

existing_by_title(t) == Copies(t)

List(r) ==
  /\ pc[r] = "listing"
  /\ found' = [found EXCEPT ![r] = existing_by_title(Current(r))]
  /\ pc' = [pc EXCEPT ![r] = "deleting"]
  /\ UNCHANGED <<server, at, late, sole>>

\* The next dashboard of the list; the repository does not know its order.
Foremost(r) ==
  {i \in found[r] : oldestFirst => \A j \in found[r] : i <= j}

Delete(r) ==
  /\ pc[r] = "deleting"
  /\ \E i \in Foremost(r) \ gone :
       /\ gone' = gone \cup {i}
       /\ found' = [found EXCEPT ![r] = @ \ {i}]
  /\ UNCHANGED <<made, oldestFirst, pc, at, late, sole>>

\* Somebody else has deleted it: 404, urlopen raises HTTPError.
DeleteGone(r) ==
  /\ pc[r] = "deleting"
  /\ Foremost(r) \cap gone # {}
  /\ pc' = [pc EXCEPT ![r] = "outrun"]
  /\ UNCHANGED <<server, at, found, late, sole>>

AllDeleted(r) ==
  /\ pc[r] = "deleting"
  /\ found[r] = {}
  /\ pc' = [pc EXCEPT ![r] = "posting"]
  /\ UNCHANGED <<server, at, found, late, sole>>

Post(r) ==
  /\ pc[r] = "posting"
  /\ made' = Append(made, Current(r))
  /\ at' = [at EXCEPT ![r] = @ + 1]
  /\ pc' = [pc EXCEPT ![r] = IF at[r] = Len(Files) THEN "done" ELSE "listing"]
  /\ UNCHANGED <<gone, oldestFirst, found, late, sole>>

\* Mutant of Fail: the error is caught and the next file is taken.
FailGoesOn(r) ==
  /\ pc[r] \in {"listing", "deleting", "posting"}
  /\ at' = [at EXCEPT ![r] = @ + 1]
  /\ pc' = [pc EXCEPT ![r] = IF at[r] = Len(Files) THEN "done" ELSE "listing"]
  /\ UNCHANGED <<server, found, late, sole>>

\* A request fails or is given up, or the run is killed.  Nothing is taken back
\* and nothing retried; a request given up may still be under way.
Fail(r) ==
  \/ /\ pc[r] = "listing"
     /\ pc' = [pc EXCEPT ![r] = "failed"]
     /\ UNCHANGED <<server, at, found, late, sole>>
  \/ /\ pc[r] = "deleting"
     /\ pc' = [pc EXCEPT ![r] = "interrupted"]
     /\ \/ UNCHANGED lateDeletes
        \/ \E i \in Foremost(r) : lateDeletes' = lateDeletes \cup {i}
     /\ UNCHANGED <<server, at, found, latePosts, sole>>
  \/ /\ pc[r] = "posting"
     /\ pc' = [pc EXCEPT ![r] = "interrupted"]
     /\ latePosts' \in {latePosts, latePosts \cup {r}}
     /\ UNCHANGED <<server, at, found, lateDeletes, sole>>

\* A request given up is carried out after all, or never.
LateDelete(i) ==
  /\ i \in lateDeletes
  /\ lateDeletes' = lateDeletes \ {i}
  /\ \/ gone' = gone \cup {i} /\ sole' = Nobody
     \/ UNCHANGED <<gone, sole>>
  /\ UNCHANGED <<made, oldestFirst, pc, at, found, latePosts>>

LatePost(r) ==
  /\ r \in latePosts
  /\ latePosts' = latePosts \ {r}
  /\ \/ made' = Append(made, Current(r)) /\ sole' = Nobody
     \/ UNCHANGED <<made, sole>>
  /\ UNCHANGED <<gone, oldestFirst, pc, at, found, lateDeletes>>

Request(r) == List(r) \/ Delete(r) \/ DeleteGone(r) \/ AllDeleted(r) \/ Post(r) \/ Fail(r)

ProvisionerNext ==
  \/ \E r \in Runs : StartRun(r) \/ ServerReady(r) \/ GiveUp(r) \/ Request(r) \/ LatePost(r)
  \/ \E i \in lateDeletes : LateDelete(i)

ProvisionerSpec == ProvisionerInit /\ [][ProvisionerNext]_provisionerVars

\* wait_ready has a deadline and every request a timeout.
ProvisionerFairness ==
  \A r \in Runs : WF_provisionerVars(GiveUp(r)) /\ WF_provisionerVars(Request(r))
ProvisionerFairSpec == ProvisionerSpec /\ ProvisionerFairness
-----------------------------------------------------------------------------
ProvisionerTypeOK ==
  /\ made \in Seq(Titles)
  /\ gone \subseteq Ids
  /\ oldestFirst \in BOOLEAN
  /\ pc \in [Runs -> Active \cup Over \cup {"off"}]
  /\ at \in [Runs -> 1..(Len(Files) + 1)]
  /\ \A r \in Runs : pc[r] # "done" => at[r] <= Len(Files)
  /\ found \in [Runs -> SUBSET Ids]
  /\ lateDeletes \subseteq Ids
  /\ latePosts \subseteq Runs
  /\ sole \in Runs \cup {Nobody}

\* What run r has replaced and is not about to replace again.
Replaced(r) ==
  {Files[i] : i \in 1..(at[r] - 1)} \
    (IF pc[r] \in Replacing THEN {Current(r)} ELSE {})

\* However many dashboards of a title there were and whatever earlier runs have
\* left behind, what a run has replaced is there exactly once, as long as no other
\* run and no request given up earlier comes in between ("Idempotent",
\* provision.py:5).
SoleRunIsExact ==
  sole # Nobody => \A t \in Replaced(sole) : \E i \in Ids : Copies(t) = {i}

\* A title that was there once is missing only while a run replaces it or if one
\* was interrupted replacing it: one run loses one title at most.
LostByOneRun ==
  \A t \in {made[i] : i \in Ids} :
    Copies(t) = {} =>
      \E r \in Runs : pc[r] \in Replacing /\ Current(r) = t

Newest(t) == {i \in Ids : made[i] = t /\ \A j \in Ids : made[j] = t => j <= i}

\* Runs that overlap delete each other's dashboards and fail on what is gone, but
\* if lists are in order of creation, one that has deleted the newest dashboard of
\* a title always gets to post the next, unless it fails for another reason.
RivalsLeaveOne ==
  oldestFirst =>
    \A t \in {made[i] : i \in Ids} : \A i \in Newest(t) \cap gone :
      \E r \in Runs : /\ \/ pc[r] \in {"deleting", "posting"} /\ found[r] = {}
                         \/ pc[r] = "interrupted" /\ found[r] \subseteq {i}
                      /\ Current(r) = t

\* Runs come to an end, whether OpenObserve answers or not, and however they follow
\* or overlap each other.
RunsEnd == []<>(\A r \in Runs : pc[r] \notin Active)
=============================================================================
