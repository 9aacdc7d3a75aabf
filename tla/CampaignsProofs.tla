--------------------------- MODULE CampaignsProofs ---------------------------
(* Proofs about Wordlists and Campaigns: first that the lists are whole    *)
(* for any number of workers, then that campaigns use them as Wordlists    *)
(* says, so that they have whole lists too, then what campaigns promise.   *)
EXTENDS Campaigns, FiniteSetTheorems, WellFoundedInduction, TLAPS

(***************************************************************************)
(* The lists the campaigns share: types, and that a list is whole unless   *)
(* it was downloaded by two campaigns at once.                             *)
(***************************************************************************)
(* What is assumed of the lists. *)
LEMMA ListsAssumed == W!WordlistsAssumption
  BY CampaignsAssumption DEF W!WordlistsAssumption

JobType == [list : Lists \cup {None}, at : W!Places, done : 0 .. Blocks]

(* The jobs of the others keep their type when a temporary file is renamed *)
(* or removed.                                                             *)
LEMMA RenamedType ==
  ASSUME job \in [Campaigns -> JobType], W!Idle \in JobType, NEW w \in Campaigns
  PROVE  W!JobsAfter(w, W!Renamed) \in [Campaigns -> JobType]
  <1>1. \A place \in W!Places : W!Renamed(place) \in W!Places
    BY DEF W!Renamed, W!Places
  <1>2. ASSUME NEW v \in Campaigns
        PROVE  [job[v] EXCEPT !.at = W!Renamed(@)] \in JobType
    BY <1>1 DEF JobType
  <1> QED BY <1>2 DEF W!JobsAfter

(* The same for tmp.unlink. *)
LEMMA UnlinkedType ==
  ASSUME job \in [Campaigns -> JobType], W!Idle \in JobType, NEW w \in Campaigns
  PROVE  W!JobsAfter(w, W!Unlinked) \in [Campaigns -> JobType]
  <1>1. \A place \in W!Places : W!Unlinked(place) \in W!Places
    BY DEF W!Unlinked, W!Places
  <1>2. ASSUME NEW v \in Campaigns
        PROVE  [job[v] EXCEPT !.at = W!Unlinked(@)] \in JobType
    BY <1>1 DEF JobType
  <1> QED BY <1>2 DEF W!JobsAfter

(* The lists start with their types. *)
LEMMA WordlistsInitType == W!Init => W!TypeOK
  BY ListsAssumed DEF W!WordlistsAssumption, W!Init, W!TypeOK, W!Contents, W!Absent, W!Whole, W!Idle,
                       W!Places

(* Every step of a download keeps the types. *)
LEMMA WordlistsTypeStep ==
  ASSUME W!TypeOK, [W!Next]_(W!vars)
  PROVE  W!TypeOK'
  <1> USE ListsAssumed DEF W!WordlistsAssumption
  <1>t. job \in [Campaigns -> JobType]
    BY DEF W!TypeOK, JobType
  <1>i. W!Idle \in JobType
    BY DEF W!Idle, JobType, W!Places
  <1>a. {} \in W!Contents /\ W!Absent = {0} /\ W!Contents \subseteq SUBSET (0 .. Blocks)
    BY DEF W!Contents, W!Absent, W!Whole
  <1>p. ASSUME NEW contents \in W!Contents \cup {W!Absent}, NEW n \in 1 .. Blocks
        PROVE  W!Plus(contents, n) \in W!Contents \cup {W!Absent}
    BY DEF W!Plus, W!Contents, W!Whole
  <1>1. ASSUME NEW w \in Campaigns, NEW l \in Lists, W!Cached(w, l) PROVE W!TypeOK'
    BY <1>1 DEF W!Cached, W!TypeOK, W!vars
  <1>2. ASSUME NEW w \in Campaigns, NEW l \in Lists, W!Begin(w, l) PROVE W!TypeOK'
    BY <1>2 DEF W!Begin, W!TypeOK
  <1>3. ASSUME NEW w \in Campaigns, W!Open(w) PROVE W!TypeOK'
    <2>1. job[w].list \in Lists
      BY <1>3, <1>t DEF W!Open, JobType
    <2> QED BY <1>3, <1>a, <2>1 DEF W!Open, W!TypeOK, W!Places
  <1>4. ASSUME NEW w \in Campaigns, W!Write(w) PROVE W!TypeOK'
    <2> DEFINE l == job[w].list
               n == job[w].done + 1
    <2>1. l \in Lists /\ n \in 1 .. Blocks
      BY <1>4, <1>t DEF W!Write, JobType
    <2>2. job' \in [Campaigns -> JobType]
      BY <1>4, <1>t, <2>1 DEF W!Write, JobType
    <2>3. W!Plus(tmp[l], n) \in W!Contents \cup {W!Absent}
      BY <1>p, <2>1 DEF W!TypeOK
    <2>4. W!Plus(file[l], n) \in W!Contents \cup {W!Absent}
      BY <1>p, <2>1 DEF W!TypeOK
    <2>5. tmp' \in [Lists -> W!Contents \cup {W!Absent}]
      BY <1>4, <2>1, <2>3 DEF W!Write, W!TypeOK
    <2>6. file' \in [Lists -> W!Contents \cup {W!Absent}]
      BY <1>4, <2>1, <2>4 DEF W!Write, W!TypeOK
    <2> QED BY <1>4, <2>2, <2>5, <2>6 DEF W!Write, W!TypeOK, JobType
  <1>5. ASSUME NEW w \in Campaigns, W!Rename(w) PROVE W!TypeOK'
    <2>1. job' \in [Campaigns -> JobType]
      BY <1>5, <1>t, <1>i, RenamedType DEF W!Rename
    <2>2. job[w].list \in Lists
      BY <1>5, <1>t DEF W!Rename, W!Retrieved, JobType
    <2> QED BY <1>5, <2>1, <2>2 DEF W!Rename, W!TypeOK, JobType
  <1>6. ASSUME NEW w \in Campaigns, W!RenameFails(w) PROVE W!TypeOK'
    BY <1>6 DEF W!RenameFails, W!TypeOK, W!Places
  <1>7. ASSUME NEW w \in Campaigns, W!Fail(w) PROVE W!TypeOK'
    <2>1. job' \in [Campaigns -> JobType]
      BY <1>7, <1>t, <1>i, UnlinkedType DEF W!Fail
    <2>2. job[w].list \in Lists
      BY <1>7, <1>t DEF W!Fail, JobType
    <2> QED BY <1>7, <2>1, <2>2 DEF W!Fail, W!Cleaned, W!TypeOK, JobType
  <1>8. ASSUME NEW w \in Campaigns, W!Abandon(w) PROVE W!TypeOK'
    BY <1>8, <1>i DEF W!Abandon, W!TypeOK, JobType
  <1>9. CASE UNCHANGED W!vars
    BY <1>9 DEF W!TypeOK, W!vars
  <1> QED BY <1>1, <1>2, <1>3, <1>4, <1>5, <1>6, <1>7, <1>8, <1>9 DEF W!Next

(* The variables of the word lists always have their types. *)
THEOREM WordlistsTyped == W!Spec => []W!TypeOK
  <1>1. W!TypeOK /\ [W!Next]_(W!vars) => W!TypeOK'
    BY WordlistsTypeStep
  <1> QED BY WordlistsInitType, <1>1, PTL DEF W!Spec

(***************************************************************************)
(* A list that was never shared has one downloader at most, who began      *)
(* because the list was not there, and whose temporary file holds exactly  *)
(* what it has written.                                                    *)
(***************************************************************************)
OwnFile(w) ==
  LET l == job[w].list
  IN  /\ file[l] = W!Absent
      /\ job[w].at \in {"unopened", "tmp"}
      /\ job[w].at = "unopened" => job[w].done = 0
      /\ job[w].at = "tmp" => tmp[l] = 1 .. job[w].done

Unshared(l) ==
  /\ file[l] \in {W!Absent, W!Whole}
  /\ \A v, w \in Campaigns : job[v].list = l /\ job[w].list = l => v = w
  /\ \A w \in Campaigns : job[w].list = l => OwnFile(w)

WholeInv == W!TypeOK /\ \A l \in Lists \ shared : Unshared(l)

(* The files a worker has open can be told from the one that is missing. *)
LEMMA WrittenIsThere ==
  ASSUME NEW n \in Nat
  PROVE  1 .. n # W!Absent
  BY DEF W!Absent

(* A list stays as it is while no worker who downloads it does a step. *)
LEMMA OthersLeaveIt ==
  ASSUME NEW l \in Lists, Unshared(l),
         file'[l] = file[l], tmp'[l] = tmp[l],
         \A w \in Campaigns : job'[w] = job[w] \/ job'[w].list # l
  PROVE  Unshared(l)'
  BY DEF Unshared, OwnFile

(* A list that no two workers ever downloaded at once is whole whenever it *)
(* is there, whatever fails or is interrupted.                             *)
THEOREM WordlistsWhole ==
  W!Spec => []W!SpoiltOnlyIfShared
  <1>1. W!Init => WholeInv
    <2> SUFFICES ASSUME W!Init PROVE WholeInv
      OBVIOUS
    <2>1. W!TypeOK
      BY WordlistsInitType
    <2>2. ASSUME NEW l \in Lists PROVE Unshared(l)
      BY ListsAssumed DEF W!Init, Unshared, W!Idle, W!WordlistsAssumption
    <2> QED BY <2>1, <2>2 DEF WholeInv
  <1>2. W!TypeOK' /\ WholeInv /\ [W!Next]_(W!vars) => WholeInv'
    <2> SUFFICES ASSUME W!TypeOK', WholeInv, [W!Next]_(W!vars),
                        NEW l \in Lists, l \notin shared'
                 PROVE  Unshared(l)'
      BY DEF WholeInv
    <2> USE ListsAssumed DEF W!WordlistsAssumption
    <2>t. job \in [Campaigns -> JobType] /\ job' \in [Campaigns -> JobType]
      BY DEF WholeInv, W!TypeOK, JobType
    <2>f. /\ file \in [Lists -> W!Contents \cup {W!Absent}]
          /\ tmp \in [Lists -> W!Contents \cup {W!Absent}]
      BY DEF WholeInv, W!TypeOK
    <2>u. l \notin shared
      BY DEF W!Next, W!Cached, W!Begin, W!Open, W!Write, W!Rename, W!RenameFails, W!Fail,
             W!Abandon, W!vars
    <2>h. Unshared(l)
      BY <2>u DEF WholeInv
    <2>1. ASSUME NEW w \in Campaigns, NEW m \in Lists, W!Cached(w, m) PROVE Unshared(l)'
      BY <2>1, <2>h, OthersLeaveIt DEF W!Cached, W!vars
    <2>2. ASSUME NEW w \in Campaigns, NEW m \in Lists, W!Begin(w, m) PROVE Unshared(l)'
      <3>1. CASE m # l
        <4>1. \A v \in Campaigns : job'[v] = job[v] \/ job'[v].list # l
          BY <2>2, <2>t, <3>1 DEF W!Begin, JobType
        <4> QED BY <2>2, <2>h, <4>1, OthersLeaveIt DEF W!Begin
      <3>2. CASE m = l
        <4>1. W!Downloading(l) = {}
          BY <2>2, <3>2 DEF W!Begin
        <4>2. \A v \in Campaigns : job'[v].list = l => v = w
          BY <2>2, <2>t, <4>1 DEF W!Begin, W!Downloading, JobType
        <4>3. file'[l] = W!Absent /\ job'[w].at = "unopened" /\ job'[w].done = 0
          BY <2>2, <2>t, <3>2 DEF W!Begin, W!Idle, JobType
        <4> QED BY <4>2, <4>3 DEF Unshared, OwnFile
      <3> QED BY <3>1, <3>2
    <2>3. ASSUME NEW w \in Campaigns, W!Open(w) PROVE Unshared(l)'
      <3>1. CASE job[w].list # l
        <4>1. \A v \in Campaigns : job'[v] = job[v] \/ job'[v].list # l
          BY <2>3, <2>t, <3>1 DEF W!Open, JobType
        <4>2. tmp'[l] = tmp[l]
          BY <2>3, <2>f, <3>1 DEF W!Open
        <4> QED BY <2>3, <2>h, <4>1, <4>2, OthersLeaveIt DEF W!Open
      <3>2. CASE job[w].list = l
        <4>1. \A v \in Campaigns : job'[v].list = l => v = w
          BY <2>3, <2>t, <2>h, <3>2 DEF W!Open, Unshared, JobType
        <4>2. job[w].done = 0 /\ file[l] = W!Absent
          BY <2>3, <2>h, <3>2 DEF W!Open, Unshared, OwnFile
        <4>3. /\ job'[w].at = "tmp" /\ job'[w].done = 0 /\ job'[w].list = l
              /\ tmp'[l] = {} /\ file'[l] = W!Absent
          BY <2>3, <2>t, <2>f, <3>2, <4>2 DEF W!Open, JobType
        <4>4. 1 .. 0 = {}
          OBVIOUS
        <4> QED BY <4>1, <4>3, <4>4 DEF Unshared, OwnFile
      <3> QED BY <3>1, <3>2
    <2>4. ASSUME NEW w \in Campaigns, W!Write(w) PROVE Unshared(l)'
      <3>1. CASE job[w].list # l
        <4>1. \A v \in Campaigns : job'[v] = job[v] \/ job'[v].list # l
          BY <2>4, <2>t, <3>1 DEF W!Write, JobType
        <4>2. tmp'[l] = tmp[l] /\ file'[l] = file[l]
          BY <2>4, <2>f, <3>1 DEF W!Write
        <4> QED BY <2>h, <4>1, <4>2, OthersLeaveIt
      <3>2. CASE job[w].list = l
        <4> DEFINE n == job[w].done + 1
        <4>1. \A v \in Campaigns : job'[v].list = l => v = w
          BY <2>4, <2>t, <2>h, <3>2 DEF W!Write, Unshared, JobType
        <4>2. job[w].at = "tmp" /\ tmp[l] = 1 .. job[w].done /\ file[l] = W!Absent
          BY <2>4, <2>h, <3>2 DEF W!Write, Unshared, OwnFile
        <4>3. job[w].done \in Nat
          BY <2>t DEF JobType
        <4>4. W!Plus(tmp[l], n) = 1 .. n
          <5>1. tmp[l] # W!Absent
            BY <4>2, <4>3, WrittenIsThere
          <5>2. W!Plus(tmp[l], n) = (1 .. job[w].done) \cup {n}
            BY <4>2, <5>1 DEF W!Plus
          <5>3. \A k \in Nat : (1 .. k) \cup {k + 1} = 1 .. (k + 1)
            OBVIOUS
          <5> QED BY <4>3, <5>2, <5>3
        <4>5. /\ job'[w].at = "tmp" /\ job'[w].done = n /\ job'[w].list = l
              /\ tmp'[l] = 1 .. n /\ file'[l] = W!Absent
          BY <2>4, <2>t, <2>f, <3>2, <4>2, <4>4 DEF W!Write, JobType
        <4> QED BY <4>1, <4>5 DEF Unshared, OwnFile
      <3> QED BY <3>1, <3>2
    <2>5. ASSUME NEW w \in Campaigns, W!Rename(w) PROVE Unshared(l)'
      <3>1. CASE job[w].list # l
        <4>1. \A v \in Campaigns : job'[v] = job[v] \/ job'[v].list # l
          BY <2>5, <2>t, <3>1 DEF W!Rename, W!JobsAfter, W!Idle, JobType
        <4>2. tmp'[l] = tmp[l] /\ file'[l] = file[l]
          BY <2>5, <2>f, <3>1 DEF W!Rename
        <4> QED BY <2>h, <4>1, <4>2, OthersLeaveIt
      <3>2. CASE job[w].list = l
        <4>1. tmp[l] = W!Whole
          BY <2>5, <2>h, <3>2 DEF W!Rename, W!Retrieved, Unshared, OwnFile, W!Whole
        <4>2. file'[l] = W!Whole
          BY <2>5, <2>f, <3>2, <4>1 DEF W!Rename
        <4>3. \A v \in Campaigns : job'[v].list # l
          BY <2>5, <2>t, <2>h, <3>2 DEF W!Rename, W!JobsAfter, W!Idle, Unshared, JobType
        <4> QED BY <4>2, <4>3 DEF Unshared
      <3> QED BY <3>1, <3>2
    <2>6. ASSUME NEW w \in Campaigns, W!RenameFails(w) PROVE Unshared(l)'
      <3>1. CASE job[w].list # l
        <4>1. \A v \in Campaigns : job'[v] = job[v] \/ job'[v].list # l
          BY <2>6, <2>t, <3>1 DEF W!RenameFails, JobType
        <4> QED BY <2>6, <2>h, <4>1, OthersLeaveIt DEF W!RenameFails
      <3>2. CASE job[w].list = l
        <4>1. tmp[l] = 1 .. job[w].done /\ tmp[l] = W!Absent /\ job[w].done \in Nat
          BY <2>6, <2>t, <2>h, <3>2 DEF W!RenameFails, W!Retrieved, Unshared,
                                        OwnFile, JobType
        <4> QED BY <4>1, WrittenIsThere
      <3> QED BY <3>1, <3>2
    <2>7. ASSUME NEW w \in Campaigns, W!Fail(w) PROVE Unshared(l)'
      <3>1. CASE job[w].list # l
        <4>1. \A v \in Campaigns : job'[v] = job[v] \/ job'[v].list # l
          BY <2>7, <2>t, <3>1 DEF W!Fail, W!JobsAfter, W!Idle, JobType
        <4>2. tmp'[l] = tmp[l] /\ file'[l] = file[l]
          BY <2>7, <2>f, <3>1 DEF W!Fail
        <4> QED BY <2>h, <4>1, <4>2, OthersLeaveIt
      <3>2. CASE job[w].list = l
        <4>1. \A v \in Campaigns : job'[v].list # l
          BY <2>7, <2>t, <2>h, <3>2 DEF W!Fail, W!JobsAfter, W!Idle, Unshared, JobType
        <4>2. file'[l] = file[l]
          BY <2>7 DEF W!Fail
        <4> QED BY <2>h, <4>1, <4>2 DEF Unshared
      <3> QED BY <3>1, <3>2
    <2>8. ASSUME NEW w \in Campaigns, W!Abandon(w) PROVE Unshared(l)'
      <3>1. \A v \in Campaigns : job'[v] = job[v] \/ job'[v].list # l
        BY <2>8, <2>t DEF W!Abandon, W!Idle, JobType
      <3> QED BY <2>8, <2>h, <3>1, OthersLeaveIt DEF W!Abandon
    <2>9. CASE UNCHANGED W!vars
      BY <2>9, <2>h, OthersLeaveIt DEF W!vars
    <2> QED BY <2>1, <2>2, <2>3, <2>4, <2>5, <2>6, <2>7, <2>8, <2>9 DEF W!Next
  <1>3. WholeInv => W!SpoiltOnlyIfShared
    BY DEF WholeInv, Unshared, W!SpoiltOnlyIfShared
  <1> QED BY WordlistsTyped, <1>1, <1>2, <1>3, PTL DEF W!Spec

(***************************************************************************)
(* The campaigns use the lists as Wordlists says.                          *)
(***************************************************************************)
CampType ==
  [stage : {"planned", "resolve", "ask", "full", "judge", "compare", "loot",
            "report"} \cup Ended,
   todo : Seq(Lists), got : SUBSET Lists, haul : Hauls, score : Nat,
   ran : SUBSET {"default", "full"}]

Busy(c) == job[c].list # None

(* A campaign downloads only while it resolves its lists, and never one    *)
(* that was given.                                                         *)
Downloads(c) ==
  Busy(c) =>
    /\ camp[c].todo # <<>>
    /\ camp[c].stage \in {"resolve", "compare", "raised"}
    /\ ~IsGiven(c)

CampInv ==
  /\ W!TypeOK
  /\ camp \in [Campaigns -> CampType]
  /\ \A c \in Campaigns : Downloads(c)

(* A campaign resolves lists there are. *)
LEMMA NeedsType ==
  ASSUME NEW c \in Campaigns
  PROVE  /\ Needs(c) \in Seq(Lists)
         /\ Reference(c) \in Lists
         /\ DefaultList(c) \in Lists
  <1>1. DefaultList(c) \in Lists
    BY CampaignsAssumption DEF DefaultList
  <1>2. /\ {"usernames", "passwords", "directories", "http-default"} \subseteq Lists
    BY CampaignsAssumption
  <1>3. <<"directories">> \in Seq(Lists) /\ <<"usernames", "passwords">> \in Seq(Lists)
    BY <1>2
  <1>4. <<DefaultList(c), "usernames", "passwords">> \in Seq(Lists)
    BY <1>1, <1>2
  <1>5. <<>> \in Seq(Lists)
    OBVIOUS
  <1>6. ASSUME NEW s \in Seq(Lists), NEW t \in Seq(Lists) PROVE s \o t \in Seq(Lists)
    OBVIOUS
  <1>7. Needs(c) \in Seq(Lists)
    BY <1>3, <1>4, <1>5, <1>6 DEF Needs
  <1> QED BY <1>1, <1>2, <1>7 DEF Reference

(* A step of a campaign that downloads nothing keeps the invariant. *)
LEMMA QuietStep ==
  ASSUME CampInv, NEW c \in Campaigns, NEW r \in CampType, ~Busy(c),
         Change(c, r), lists' = lists
  PROVE  CampInv' /\ W!vars' = W!vars
  <1>1. file' = file /\ tmp' = tmp /\ job' = job /\ shared' = shared
    BY DEF lists
  <1>2. W!TypeOK' /\ W!vars' = W!vars
    BY <1>1 DEF CampInv, W!TypeOK, W!Contents, W!Whole, W!Places, W!Absent, W!vars
  <1>3. camp' = [camp EXCEPT ![c] = r] /\ options' = options
    BY DEF Change
  <1>4. camp' \in [Campaigns -> CampType]
    BY <1>3 DEF CampInv
  <1>5. ASSUME NEW d \in Campaigns PROVE Downloads(d)'
    <2>1. CASE d = c
      BY <1>1, <2>1 DEF Downloads, Busy
    <2>2. CASE d # c
      BY <1>1, <1>3, <2>2 DEF CampInv, Downloads, Busy, IsGiven
    <2> QED BY <2>1, <2>2
  <1> QED BY <1>2, <1>4, <1>5 DEF CampInv

(* A step of no campaign keeps it too. *)
LEMMA MainStep ==
  ASSUME CampInv, UNCHANGED <<options, camp, lists>>
  PROVE  CampInv' /\ W!vars' = W!vars
  <1>1. /\ file' = file /\ tmp' = tmp /\ job' = job /\ shared' = shared
        /\ camp' = camp /\ options' = options
    BY DEF lists
  <1> QED BY <1>1 DEF CampInv, Downloads, Busy, IsGiven, W!TypeOK, W!Contents,
                      W!Whole,
                       W!Places, W!Absent, W!vars

(* Steps on the lists keep it, as long as a campaign that begins or ends a *)
(* download is where it should be.                                         *)
LEMMA ListStep ==
  ASSUME CampInv, W!Next, camp' \in [Campaigns -> CampType],
         \A c \in Campaigns : Downloads(c)'
  PROVE  CampInv' /\ [W!Next]_(W!vars)
  <1> HIDE DEF W!Next, W!TypeOK, W!vars
  <1>1. W!TypeOK'
    BY WordlistsTypeStep DEF CampInv
  <1> QED BY <1>1 DEF CampInv

(* The steps of a campaign that leave the lists alone. *)
LEMMA CampaignStep ==
  ASSUME CampInv, NEW c \in Campaigns,
         \/ \E banner \in Banners : Reachable(c, banner)
         \/ Unreachable(c)
         \/ \E haul \in Hauls : Spray(c, haul) \/ TryDefaults(c, haul) \/ TryAll(c, haul)
         \/ SkipHydra(c)
         \/ \E yes \in BOOLEAN : Answer(c, yes)
         \/ Judge(c)
         \/ \E weight \in Weights : Compare(c, weight) \/ Loot(c, weight)
         \/ Report(c)
         \/ Raise(c)
  PROVE  CampInv' /\ W!vars' = W!vars
  <1> USE DEF Step
  <1>t. camp[c] \in CampType
    BY DEF CampInv
  <1>s. camp[c].stage \notin {"resolve", "compare", "raised"} => ~Busy(c)
    BY DEF CampInv, Downloads
  <1>e. camp[c].todo = <<>> => ~Busy(c)
    BY DEF CampInv, Downloads
  <1>0. \A n \in Nat, k \in Nat : n + k \in Nat
    OBVIOUS
  <1>1. ASSUME NEW banner \in Banners, Reachable(c, banner)
        PROVE  CampInv' /\ W!vars' = W!vars
    <2> DEFINE r == [Fresh EXCEPT !.stage = "resolve", !.todo = Needs(c), !.score = banner]
    <2>1. r \in CampType
      BY NeedsType, CampaignsAssumption DEF Fresh, CampType, Hauls
    <2>2. ~Busy(c)
      BY <1>1, <1>s DEF Reachable, Due
    <2> QED BY <1>1, <2>1, <2>2, QuietStep DEF Reachable
  <1>2. ASSUME Unreachable(c) PROVE CampInv' /\ W!vars' = W!vars
    <2>1. [camp[c] EXCEPT !.stage = "done"] \in CampType
      BY <1>t DEF CampType, Ended
    <2>2. ~Busy(c)
      BY <1>2, <1>s DEF Unreachable, Due
    <2> QED BY <1>2, <2>1, <2>2, QuietStep DEF Unreachable
  <1>3. ASSUME NEW haul \in Hauls, Spray(c, haul) PROVE CampInv' /\ W!vars' = W!vars
    <2>1. [camp[c] EXCEPT !.stage = "judge", !.haul = haul] \in CampType
      BY <1>t DEF CampType
    <2> QED BY <1>3, <1>e, <2>1, QuietStep DEF Spray, Ready
  <1>4. ASSUME NEW haul \in Hauls, TryDefaults(c, haul)
        PROVE  CampInv' /\ W!vars' = W!vars
    <2>1. [camp[c] EXCEPT !.stage = IF haul = "none" THEN "ask" ELSE "judge",
                          !.haul = haul, !.ran = @ \cup {"default"}] \in CampType
      BY <1>t DEF CampType
    <2> QED BY <1>4, <1>e, <2>1, QuietStep DEF TryDefaults, Ready
  <1>5. ASSUME NEW haul \in Hauls, TryAll(c, haul) PROVE CampInv' /\ W!vars' = W!vars
    <2>1. [camp[c] EXCEPT !.stage = "judge", !.haul = haul,
                          !.ran = IF HasPairs(c) THEN @ \cup {"full"} ELSE @] \in CampType
      BY <1>t DEF CampType
    <2> QED BY <1>5, <1>e, <1>s, <2>1, QuietStep DEF TryAll, Ready
  <1>6. ASSUME SkipHydra(c) PROVE CampInv' /\ W!vars' = W!vars
    <2>1. [camp[c] EXCEPT !.stage = "judge"] \in CampType
      BY <1>t DEF CampType
    <2> QED BY <1>6, <1>e, <2>1, QuietStep DEF SkipHydra, Ready
  <1>7. ASSUME NEW yes \in BOOLEAN, Answer(c, yes) PROVE CampInv' /\ W!vars' = W!vars
    <2>1. [camp[c] EXCEPT !.stage = IF yes THEN "full" ELSE "judge"] \in CampType
      BY <1>t DEF CampType
    <2> QED BY <1>7, <1>s, <2>1, QuietStep DEF Answer
  <1>8. ASSUME Judge(c) PROVE CampInv' /\ W!vars' = W!vars
    <2>1. camp[c].haul \in {"none", "few", "many"}
      BY <1>t DEF CampType, Hauls
    <2>2. [camp[c] EXCEPT !.stage = "loot"] \in CampType
      BY <1>t DEF CampType
    <2>3. [camp[c] EXCEPT !.stage = "loot", !.score = @ + 85] \in CampType
      BY <1>t, <1>0 DEF CampType
    <2>4. <<Reference(c)>> \in Seq(Lists)
      BY NeedsType
    <2>5. [camp[c] EXCEPT !.stage = "compare", !.todo = <<Reference(c)>>,
                          !.got = @ \ {Reference(c)}] \in CampType
      BY <1>t, <2>4 DEF CampType
    <2>6. ~Busy(c)
      BY <1>8, <1>s DEF Judge
    <2>7. CASE camp[c].haul = "none"
      BY <1>8, <2>2, <2>6, <2>7, QuietStep DEF Judge
    <2>8. CASE camp[c].haul = "many"
      BY <1>8, <2>3, <2>6, <2>8, QuietStep DEF Judge
    <2>9. CASE camp[c].haul = "few"
      BY <1>8, <2>5, <2>6, <2>9, QuietStep DEF Judge
    <2> QED BY <2>1, <2>7, <2>8, <2>9
  <1>9. ASSUME NEW weight \in Weights, Compare(c, weight) \/ Loot(c, weight)
        PROVE  CampInv' /\ W!vars' = W!vars
    <2>1. weight \in Nat
      BY CampaignsAssumption
    <2>2. [camp[c] EXCEPT !.stage = "loot", !.score = @ + weight] \in CampType
      BY <1>t, <1>0, <2>1 DEF CampType
    <2>3. [camp[c] EXCEPT !.stage = "report", !.score = @ + weight] \in CampType
      BY <1>t, <1>0, <2>1 DEF CampType
    <2>4. CASE Compare(c, weight)
      BY <2>4, <1>e, <2>2, QuietStep DEF Compare
    <2>5. CASE Loot(c, weight)
      BY <2>5, <1>s, <2>3, QuietStep DEF Loot
    <2> QED BY <1>9, <2>4, <2>5
  <1>10. ASSUME Report(c) PROVE CampInv' /\ W!vars' = W!vars
    <2>1. [camp[c] EXCEPT !.stage = "done"] \in CampType
      BY <1>t DEF CampType, Ended
    <2> QED BY <1>10, <1>s, <2>1, QuietStep DEF Report
  <1>11. ASSUME Raise(c) PROVE CampInv' /\ W!vars' = W!vars
    <2>1. [camp[c] EXCEPT !.stage = "raised"] \in CampType
      BY <1>t DEF CampType, Ended
    <2>2. ~Busy(c)
      BY <1>11 DEF Raise, Busy, W!Idle
    <2> QED BY <1>11, <2>1, <2>2, QuietStep DEF Raise
  <1> QED BY <1>1, <1>2, <1>3, <1>4, <1>5, <1>6, <1>7, <1>8, <1>9, <1>10, <1>11

(* The steps of a campaign that resolves its lists. *)
LEMMA ResolvingStep ==
  ASSUME CampInv, NEW c \in Campaigns,
         Resolve(c) \/ Fetch(c) \/ Fetching(c) \/ Fetched(c) \/ FetchFails(c)
  PROVE  CampInv' /\ [W!Next]_(W!vars)
  <1>t. camp[c] \in CampType
    BY DEF CampInv
  <1>j. job \in [Campaigns -> [list : Lists \cup {None}, at : W!Places, done : 0 .. Blocks]]
    BY DEF CampInv, W!TypeOK
  <1>h. camp[c].todo # <<>> =>
          /\ Head(camp[c].todo) \in Lists
          /\ Resolved(c) \in CampType
          /\ NotResolved(c) \in CampType
    <2>1. ASSUME NEW s \in Seq(Lists), s # <<>>
          PROVE  Head(s) \in Lists /\ Tail(s) \in Seq(Lists)
      BY <2>1
    <2>2. ASSUME camp[c].todo # <<>>
          PROVE  Head(camp[c].todo) \in Lists /\ Tail(camp[c].todo) \in Seq(Lists)
      BY <1>t, <2>1, <2>2 DEF CampType
    <2> QED BY <1>t, <2>2 DEF CampType, Resolved, NotResolved
  <1>1. CASE Resolve(c)
    <2>1. ~Busy(c)
      BY <1>1 DEF Resolve, CampInv, Downloads, Busy, W!Cached, W!Idle
    <2>2. lists' = lists
      BY <1>1 DEF Resolve, W!Cached, W!vars, lists
    <2>3. CampInv' /\ W!vars' = W!vars
      BY <1>1, <1>h, <2>1, <2>2, QuietStep DEF Resolve, Resolving
    <2> QED BY <2>3
  <1>2. CASE Fetch(c)
    <2>1. W!Next
      BY <1>2, <1>h DEF Fetch, Resolving, W!Next
    <2>2. \A d \in Campaigns : job'[d] = job[d] \/ d = c
      BY <1>2, <1>j DEF Fetch, W!Begin
    <2>3. camp' = camp /\ options' = options
      BY <1>2 DEF Fetch
    <2>4. ASSUME NEW d \in Campaigns PROVE Downloads(d)'
      <3>1. CASE d = c
        BY <1>2, <2>3, <3>1 DEF Fetch, Resolving, Downloads, IsGiven
      <3>2. CASE d # c
        BY <2>2, <2>3, <3>2 DEF CampInv, Downloads, Busy, IsGiven
      <3> QED BY <3>1, <3>2
    <2> QED BY <2>1, <2>3, <2>4, ListStep DEF CampInv
  <1>3. CASE Fetching(c)
    <2>1. W!Next
      BY <1>3 DEF Fetching, W!Next
    <2>2. \A d \in Campaigns : job'[d].list = job[d].list
      BY <1>3, <1>j DEF Fetching, W!Open, W!Write, W!RenameFails
    <2>3. camp' = camp /\ options' = options
      BY <1>3 DEF Fetching
    <2>4. ASSUME NEW d \in Campaigns PROVE Downloads(d)'
      BY <2>2, <2>3 DEF CampInv, Downloads, Busy, IsGiven
    <2> QED BY <2>1, <2>3, <2>4, ListStep DEF CampInv
  <1>4. ASSUME W!Rename(c) \/ W!Fail(c), NEW r \in CampType, Change(c, r)
        PROVE  CampInv' /\ [W!Next]_(W!vars)
    <2>1. W!Next
      BY <1>4 DEF W!Next
    <2>2. /\ \A d \in Campaigns : d # c => job'[d].list = job[d].list
          /\ job'[c].list = None
      BY <1>4, <1>j DEF W!Rename, W!Fail, W!JobsAfter, W!Idle
    <2>3. camp' = [camp EXCEPT ![c] = r] /\ options' = options
      BY <1>4 DEF Change
    <2>4. ASSUME NEW d \in Campaigns PROVE Downloads(d)'
      <3>1. CASE d = c
        BY <2>2, <3>1 DEF Downloads, Busy
      <3>2. CASE d # c
        BY <2>2, <2>3, <3>2 DEF CampInv, Downloads, Busy, IsGiven
      <3> QED BY <3>1, <3>2
    <2>5. camp' \in [Campaigns -> CampType]
      BY <2>3 DEF CampInv
    <2> QED BY <2>1, <2>4, <2>5, ListStep
  <1>5. CASE Fetched(c)
    <2>1. Busy(c)
      BY <1>5 DEF Fetched, W!Rename, W!Retrieved, Busy
    <2>2. Resolved(c) \in CampType
      BY <1>h, <2>1 DEF CampInv, Downloads
    <2> QED BY <1>4, <1>5, <2>2 DEF Fetched
  <1>6. CASE FetchFails(c)
    <2>1. Busy(c)
      BY <1>6 DEF FetchFails, W!Fail, Busy
    <2>2. NotResolved(c) \in CampType
      BY <1>h, <2>1 DEF CampInv, Downloads
    <2> QED BY <1>4, <1>6, <2>2 DEF FetchFails
  <1> QED BY <1>1, <1>2, <1>3, <1>5, <1>6

(* Ctrl-C ends the campaign in the main thread. *)
LEMMA InterruptStep ==
  ASSUME CampInv, Interrupt
  PROVE  CampInv' /\ [W!Next]_(W!vars)
  <1>j. job \in [Campaigns -> [list : Lists \cup {None}, at : W!Places, done : 0 .. Blocks]]
    BY DEF CampInv, W!TypeOK
  <1>1. CASE Parallel
    BY <1>1, MainStep DEF Interrupt
  <1>2. CASE ~Parallel
    <2> DEFINE Stopped(c) == IF UnderWay(c) THEN [camp[c] EXCEPT !.stage = "raised"]
                             ELSE camp[c]
    <2>1. camp' = [c \in Campaigns |-> Stopped(c)] /\ options' = options
      BY <1>2 DEF Interrupt
    <2>2. ASSUME NEW c \in Campaigns
          PROVE  /\ Stopped(c) \in CampType
                 /\ Stopped(c).todo = camp[c].todo
                 /\ Stopped(c).stage \in {camp[c].stage, "raised"}
      BY DEF CampInv, CampType, Ended
    <2>3. camp' \in [Campaigns -> CampType]
      BY <2>1, <2>2
    <2>4. ASSUME NEW c \in Campaigns, Busy(c)' => Busy(c) PROVE Downloads(c)'
      BY <2>1, <2>2, <2>4 DEF CampInv, Downloads, IsGiven
    <2>5. CASE \E c \in Campaigns : UnderWay(c)
      <3>1. PICK c \in Campaigns : W!Abandon(c)
        BY <1>2, <2>5 DEF Interrupt
      <3>2. \A d \in Campaigns : Busy(d)' => Busy(d)
        BY <1>j, <3>1 DEF W!Abandon, W!Idle, Busy
      <3>3. W!Next
        BY <3>1 DEF W!Next
      <3> QED BY <2>3, <2>4, <3>2, <3>3, ListStep
    <2>6. CASE ~\E c \in Campaigns : UnderWay(c)
      <3>1. lists' = lists
        BY <1>2, <2>6 DEF Interrupt
      <3>2. camp' = camp
        BY <2>1, <2>6 DEF CampInv
      <3> QED BY <2>1, <3>1, <3>2, MainStep
    <2> QED BY <2>5, <2>6
  <1> QED BY <1>1, <1>2

(* The campaigns start with the invariant. *)
LEMMA CampInit == Init => CampInv /\ W!Init
  <1> SUFFICES ASSUME Init PROVE CampInv /\ W!Init
    OBVIOUS
  <1>1. W!Init
    BY DEF Init
  <1>2. W!TypeOK
    BY <1>1, WordlistsInitType
  <1>3. camp \in [Campaigns -> CampType]
    BY DEF Init, Fresh, CampType, Hauls
  <1>4. \A c \in Campaigns : Downloads(c)
    BY <1>1 DEF W!Init, W!Idle, Downloads, Busy
  <1> QED BY <1>1, <1>2, <1>3, <1>4 DEF CampInv

(* Every step keeps it and does with the lists what Wordlists allows. *)
LEMMA CampStep == CampInv /\ [Next]_vars => CampInv' /\ [W!Next]_(W!vars)
  <1> SUFFICES ASSUME CampInv, [Next]_vars
               PROVE  CampInv' /\ [W!Next]_(W!vars)
    OBVIOUS
  <1>1. ASSUME \/ \E code \in {1, 2} : StartFails(code)
               \/ \E found \in SUBSET Campaigns : Discover(found)
               \/ \E c \in Campaigns : Single(c)
               \/ Finish \/ Crash \/ Interrupted
               \/ UNCHANGED vars
        PROVE  CampInv' /\ [W!Next]_(W!vars)
    <2>1. UNCHANGED <<options, camp, lists>>
      BY <1>1 DEF StartFails, Discover, Single, Start, Finish, Crash,
                  Interrupted, vars
    <2> QED BY <2>1, MainStep
  <1> QED BY <1>1, CampaignStep, ResolvingStep, InterruptStep DEF Next

(***************************************************************************)
(* However many campaigns run in parallel, and however they, their         *)
(* downloads and the program end, the lists behave as Wordlists says.      *)
(***************************************************************************)
THEOREM CampaignsImplementWordlists == Spec => ImplementsWordlists
  <1> QED BY CampInit, CampStep, PTL DEF Spec, ImplementsWordlists, W!Spec

(* A list in the cache is whole unless two campaigns fetched it at once. *)
THEOREM CampaignsListsWhole == Spec => []SpoiltOnlyIfShared
  <1>1. SpoiltOnlyIfShared <=> W!SpoiltOnlyIfShared
    BY DEF SpoiltOnlyIfShared
  <1> QED BY CampaignsImplementWordlists, WordlistsWhole, <1>1, PTL DEF ImplementsWordlists

(***************************************************************************)
(* Types, and the account of the campaigns.                                *)
(***************************************************************************)
Account ==
  /\ DOMAIN consolidated.outcomes = DOMAIN plan
  /\ \A i \in DOMAIN plan :
       /\ camp[plan[i]].stage = "done"
       /\ consolidated.outcomes[i] = Outcome(plan[i])

AllSucceeded ==
  \A c \in Range(plan) : camp[c].stage = "done" /\ report[c].rc = 0

(* Only campaigns of the plan run; one that is done has a report; and what *)
(* the program says at its end, it says when all of them are done.         *)
AccountInv ==
  /\ options \in Options
  /\ main \in {"start", "running", "interrupted", "ended"}
  /\ exit \in {0, 1, 2, 130}
  /\ plan \in Seq(Campaigns)
  /\ \A c \in Campaigns \ Range(plan) : camp[c] = Fresh
  /\ report \in [Campaigns -> Reports \cup {NoReport}]
  /\ \A c \in Campaigns : camp[c].stage = "done" => report[c] \in Reports
  /\ main = "start" => plan = <<>>
  /\ consolidated.written => main = "ended" /\ Account
  /\ main = "running" /\ options.command # "all" =>
       \E c \in Campaigns : plan = <<c>>
  /\ main = "ended" /\ exit = 0 =>
       AllSucceeded /\ (options.command = "all" => consolidated.written)

(* The campaigns of a plan are campaigns. *)
LEMMA PlanRange ==
  ASSUME plan \in Seq(Campaigns)
  PROVE  /\ Range(plan) \subseteq Campaigns
         /\ \A i \in DOMAIN plan : plan[i] \in Range(plan)
  BY DEF Range

(* A score is never more than 100. *)
LEMMA CappedScore == \A n \in Nat : AtMost100(n) \in 0 .. 100
  BY DEF AtMost100

CampaignActs(c) ==
  \/ \E banner \in Banners : Reachable(c, banner)
  \/ Unreachable(c)
  \/ Resolve(c) \/ Fetch(c) \/ Fetching(c) \/ Fetched(c) \/ FetchFails(c)
  \/ \E haul \in Hauls : Spray(c, haul) \/ TryDefaults(c, haul) \/ TryAll(c, haul)
  \/ SkipHydra(c)
  \/ \E yes \in BOOLEAN : Answer(c, yes)
  \/ Judge(c)
  \/ \E weight \in Weights : Compare(c, weight) \/ Loot(c, weight)
  \/ Report(c)
  \/ Raise(c)

(* A campaign that acts is in the plan and not done, changes only its own  *)
(* state and report, and is done when the report is written.               *)
LEMMA ActsAlone ==
  ASSUME CampInv, AccountInv, NEW c \in Campaigns, CampaignActs(c), CampInv'
  PROVE  /\ c \in Range(plan) /\ camp[c].stage # "done"
         /\ UNCHANGED <<options, main, exit, plan, consolidated>>
         /\ \A d \in Campaigns \ {c} : camp'[d] = camp[d] /\ report'[d] = report[d]
         /\ \/ camp'[c].stage # "done" /\ report' = report
            \/ report' \in [Campaigns -> Reports \cup {NoReport}] /\ report'[c] \in Reports
  <1> USE DEF Step, Change
  <1>t. camp \in [Campaigns -> CampType]
    BY DEF CampInv
  <1>p. camp[c].stage # "planned" => c \in Range(plan)
    BY DEF AccountInv, Fresh
  <1>b. Busy(c) => camp[c].stage \in {"resolve", "compare", "raised"}
    BY DEF CampInv, Downloads
  <1>d. Due(c) => c \in Range(plan) /\ camp[c].stage = "planned"
    BY DEF Due, Range
  <1>r. report \in [Campaigns -> Reports \cup {NoReport}]
    BY DEF AccountInv
  <1>1. ASSUME NEW banner \in Banners, Reachable(c, banner)
        PROVE  c \in Range(plan) /\ camp[c].stage # "done" /\ camp'[c].stage = "resolve"
    BY <1>1, <1>d, <1>t DEF Reachable, Fresh
  <1>2. ASSUME Unreachable(c)
        PROVE  /\ c \in Range(plan) /\ camp[c].stage # "done"
               /\ \A d \in Campaigns \ {c} : camp'[d] = camp[d] /\ report'[d] = report[d]
               /\ report' \in [Campaigns -> Reports \cup {NoReport}]
               /\ report'[c] \in Reports
    <2> DEFINE r == [written |-> TRUE, rc |-> 2, assessed |-> FALSE, score |-> 0]
    <2>1. r \in Reports
      BY DEF Reports
    <2>2. report' = [report EXCEPT ![c] = r]
      BY <1>2 DEF Unreachable, WriteReport
    <2> HIDE DEF r
    <2> QED BY <1>2, <1>d, <1>t, <1>r, <2>1, <2>2 DEF Unreachable
  <1>3. ASSUME Report(c)
        PROVE  /\ c \in Range(plan) /\ camp[c].stage # "done"
               /\ \A d \in Campaigns \ {c} : camp'[d] = camp[d] /\ report'[d] = report[d]
               /\ report' \in [Campaigns -> Reports \cup {NoReport}]
               /\ report'[c] \in Reports
    <2>1. AtMost100(camp[c].score) \in 0 .. 100
      BY <1>t, CappedScore DEF CampType
    <2> QED BY <1>3, <1>p, <1>t, <1>r, <2>1 DEF Report, WriteReport, Reports
  <1>4. ASSUME \/ Resolve(c) \/ Fetch(c) \/ Fetching(c) \/ Fetched(c) \/ FetchFails(c)
        PROVE  /\ c \in Range(plan) /\ camp[c].stage # "done"
               /\ \A d \in Campaigns \ {c} : camp'[d] = camp[d]
               /\ camp'[c].stage = camp[c].stage
    <2>1. CASE Resolve(c) \/ Fetch(c)
      BY <1>p, <1>t, <2>1 DEF Resolve, Fetch, Resolving, Resolved, CampType
    <2>2. CASE Fetching(c) \/ Fetched(c) \/ FetchFails(c)
      <3>1. Busy(c)
        BY <2>2 DEF Fetching, Fetched, FetchFails, W!Open, W!Write, W!RenameFails,
                    W!Rename, W!Fail, W!Retrieved, Busy
      <3> QED BY <1>p, <1>b, <1>t, <2>2, <3>1
              DEF Fetching, Fetched, FetchFails, Resolved, NotResolved, CampType
    <2> QED BY <1>4, <2>1, <2>2
  <1>5. ASSUME \/ \E haul \in Hauls : Spray(c, haul) \/ TryDefaults(c, haul) \/ TryAll(c, haul)
               \/ SkipHydra(c)
               \/ \E yes \in BOOLEAN : Answer(c, yes)
        PROVE  c \in Range(plan) /\ camp[c].stage # "done" /\ camp'[c].stage # "done"
    <2>1. camp[c].stage \in {"resolve", "ask", "full"}
      BY <1>5 DEF Spray, TryDefaults, TryAll, SkipHydra, Answer, Ready
    <2>2. camp'[c].stage \in {"judge", "ask", "full"}
      <3>1. CASE SkipHydra(c) \/ \E yes \in BOOLEAN : Answer(c, yes)
        BY <1>t, <3>1 DEF SkipHydra, Answer, CampType
      <3>2. CASE \E haul \in Hauls : Spray(c, haul)
        BY <1>t, <3>2 DEF Spray, CampType
      <3>3. CASE \E haul \in Hauls : TryDefaults(c, haul)
        BY <1>t, <3>3 DEF TryDefaults, CampType
      <3>4. CASE \E haul \in Hauls : TryAll(c, haul)
        BY <1>t, <3>4 DEF TryAll, CampType
      <3> QED BY <1>5, <3>1, <3>2, <3>3, <3>4
    <2> QED BY <1>p, <2>1, <2>2
  <1>6. ASSUME Judge(c)
        PROVE  c \in Range(plan) /\ camp[c].stage # "done" /\ camp'[c].stage # "done"
    <2>1. camp[c].haul \in {"none", "few", "many"}
      BY <1>t DEF CampType, Hauls
    <2> QED BY <1>6, <1>p, <1>t, <2>1 DEF Judge, CampType
  <1>7. ASSUME \E weight \in Weights : Compare(c, weight) \/ Loot(c, weight)
        PROVE  c \in Range(plan) /\ camp[c].stage # "done" /\ camp'[c].stage # "done"
    BY <1>7, <1>p, <1>t DEF Compare, Loot, CampType
  <1>8. ASSUME Raise(c)
        PROVE  c \in Range(plan) /\ camp[c].stage # "done" /\ camp'[c].stage # "done"
    BY <1>8, <1>p, <1>d, <1>t DEF Raise, UnderWay, Ended, CampType
  <1>9. UNCHANGED <<options, main, exit, plan, consolidated>>
    BY DEF CampaignActs, Reachable, Unreachable, Resolve, Fetch, Fetching,
           Fetched, FetchFails,
           Spray, TryDefaults, TryAll, SkipHydra, Answer, Judge, Compare, Loot, Report, Raise
  <1>10. CASE Unreachable(c) \/ Report(c)
    BY <1>2, <1>3, <1>9, <1>10
  <1>11. CASE ~(Unreachable(c) \/ Report(c))
    <2>1. report' = report
      BY <1>11 DEF CampaignActs, Reachable, Resolve, Fetch, Fetching, Fetched,
                   FetchFails,
           Spray, TryDefaults, TryAll, SkipHydra, Answer, Judge, Compare, Loot, Raise
    <2>2. \A d \in Campaigns \ {c} : camp'[d] = camp[d]
      BY <1>11, <1>4, <1>t DEF CampaignActs, Reachable, Resolve, Fetch, Fetching,
                               Fetched,
           FetchFails, Spray, TryDefaults, TryAll, SkipHydra, Answer, Judge, Compare, Loot, Raise
    <2>3. c \in Range(plan) /\ camp[c].stage # "done" /\ camp'[c].stage # "done"
      BY <1>1, <1>4, <1>5, <1>6, <1>7, <1>8, <1>11 DEF CampaignActs
    <2> QED BY <1>9, <2>1, <2>2, <2>3
  <1> QED BY <1>10, <1>11

(* A step of a campaign keeps the account. *)
LEMMA AccountActs ==
  ASSUME CampInv, AccountInv, NEW c \in Campaigns, CampaignActs(c), CampInv'
  PROVE  AccountInv'
  <1>1. /\ c \in Range(plan) /\ camp[c].stage # "done"
        /\ UNCHANGED <<options, main, exit, plan, consolidated>>
        /\ \A d \in Campaigns \ {c} : camp'[d] = camp[d] /\ report'[d] = report[d]
        /\ \/ camp'[c].stage # "done" /\ report' = report
           \/ report' \in [Campaigns -> Reports \cup {NoReport}] /\ report'[c] \in Reports
    BY ActsAlone
  <1>2. ~consolidated.written
    BY <1>1 DEF AccountInv, Account, Range
  <1>3. ~(main = "ended" /\ exit = 0)
    BY <1>1 DEF AccountInv, AllSucceeded
  <1>4. \A d \in Campaigns \ Range(plan) : camp'[d] = Fresh
    BY <1>1 DEF AccountInv
  <1>5. report' \in [Campaigns -> Reports \cup {NoReport}]
    BY <1>1 DEF AccountInv
  <1>6. \A d \in Campaigns : camp'[d].stage = "done" => report'[d] \in Reports
    BY <1>1 DEF AccountInv
  <1> QED BY <1>1, <1>2, <1>3, <1>4, <1>5, <1>6 DEF AccountInv

(* The program plans the campaigns there are, in some order. *)
LEMMA PlanType ==
  ASSUME NEW p \in BoundedSeq(Campaigns, Len(Services))
  PROVE  p \in Seq(Campaigns)
  <1>1. Len(Services) \in Nat
    BY CampaignsAssumption
  <1> QED BY <1>1 DEF BoundedSeq, SeqOf

(* A step of the main thread keeps it, and the invariant of the lists. *)
LEMMA AccountMain ==
  ASSUME CampInv, AccountInv, CampInv',
         \/ \E code \in {1, 2} : StartFails(code)
         \/ \E found \in SUBSET Campaigns : Discover(found)
         \/ \E c \in Campaigns : Single(c)
         \/ Finish \/ Crash \/ Interrupt \/ Interrupted
  PROVE  AccountInv'
  <1>1. CASE \E code \in {1, 2} : StartFails(code)
    BY <1>1 DEF StartFails, Exit, AccountInv
  <1>2. ASSUME NEW p \in Seq(Campaigns), main = "start", Start(p),
               options.command # "all" => \E c \in Campaigns : p = <<c>>
        PROVE  AccountInv'
    <2>1. \A c \in Campaigns : camp[c] = Fresh
      BY <1>2 DEF AccountInv, Range
    <2> QED BY <1>2, <2>1 DEF Start, AccountInv
  <1>3. CASE \E found \in SUBSET Campaigns : Discover(found)
    BY <1>2, <1>3, PlanType DEF Discover
  <1>4. CASE \E c \in Campaigns : Single(c)
    <2>1. PICK c \in Campaigns : Single(c)
      BY <1>4
    <2>2. <<c>> \in Seq(Campaigns)
      OBVIOUS
    <2> QED BY <1>2, <2>1, <2>2 DEF Single
  <1>5. CASE Finish
    <2> DEFINE Done == \A c \in Range(plan) : camp[c].stage = "done" /\ report[c] \in Reports
    <2>1. Done
      BY <1>5, PlanRange DEF Finish, AccountInv
    <2>2. UNCHANGED <<options, plan, camp, report>> /\ main' = "ended"
      BY <1>5 DEF Finish, Exit
    <2>3. CASE options.command = "all"
      <3>1. consolidated' = Consolidated /\ exit' = (IF Failed = {} THEN 0 ELSE 1)
        BY <1>5, <2>3 DEF Finish, Exit
      <3>2. Account'
        BY <2>1, <2>2, <3>1, PlanRange DEF Account, Consolidated, Outcome, AccountInv
      <3>3. exit' = 0 => AllSucceeded'
        BY <2>1, <2>2, <3>1 DEF AllSucceeded, Failed, Range
      <3>4. consolidated'.written /\ exit' \in {0, 1}
        BY <3>1 DEF Consolidated
      <3> QED BY <2>2, <3>2, <3>3, <3>4 DEF AccountInv
    <2>4. CASE options.command # "all"
      <3>1. consolidated' = consolidated /\ exit' = report[plan[1]].rc
        BY <1>5, <2>4 DEF Finish, Exit
      <3>2. PICK c \in Campaigns : plan = <<c>>
        BY <1>5, <2>4 DEF Finish, AccountInv
      <3>3. Range(plan) = {c} /\ plan[1] = c
        BY <3>2 DEF Range
      <3>4. exit' = report[c].rc /\ report[c].rc \in {0, 2}
        BY <2>1, <3>1, <3>3 DEF Reports
      <3>5. ~consolidated.written
        BY <1>5 DEF Finish, AccountInv
      <3>6. exit' = 0 => AllSucceeded'
        BY <2>1, <2>2, <3>3, <3>4 DEF AllSucceeded
      <3> QED BY <2>2, <2>4, <3>1, <3>4, <3>5, <3>6 DEF AccountInv
    <2> QED BY <2>3, <2>4
  <1>6. CASE Crash
    BY <1>6 DEF Crash, Exit, AccountInv
  <1>7. CASE Interrupt
    <2>1. /\ UNCHANGED <<options, exit, plan, report, consolidated>>
          /\ main' = "interrupted" /\ ~consolidated.written
      BY <1>7 DEF Interrupt, AccountInv
    <2>2. \A c \in Campaigns : \/ camp'[c] = camp[c]
                               \/ UnderWay(c) /\ camp'[c].stage = "raised"
      BY <1>7 DEF Interrupt, CampInv, CampType
    <2>3. \A c \in Campaigns \ Range(plan) : camp'[c] = Fresh
      BY <2>2 DEF AccountInv, UnderWay, Fresh
    <2>4. \A c \in Campaigns : camp'[c].stage = "done" => report[c] \in Reports
      BY <2>2 DEF AccountInv
    <2> QED BY <2>1, <2>3, <2>4 DEF AccountInv
  <1>8. CASE Interrupted
    BY <1>8 DEF Interrupted, Exit, AccountInv
  <1> QED BY <1>1, <1>3, <1>4, <1>5, <1>6, <1>7, <1>8

(* The program starts with the account. *)
LEMMA AccountInit == Init => AccountInv
  BY CampaignsAssumption DEF Init, AccountInv, Fresh, NoReport, Range

(* Every step keeps the account. *)
LEMMA AccountStep == CampInv /\ CampInv' /\ AccountInv /\ [Next]_vars => AccountInv'
  <1> SUFFICES ASSUME CampInv, CampInv', AccountInv, [Next]_vars PROVE AccountInv'
    OBVIOUS
  <1>1. ASSUME NEW c \in Campaigns, CampaignActs(c) PROVE AccountInv'
    BY <1>1, AccountActs
  <1>2. CASE UNCHANGED vars
    BY <1>2 DEF vars, AccountInv, Account, AllSucceeded, Outcome
  <1> QED BY <1>1, <1>2, AccountMain DEF Next, CampaignActs

(* The variables of the attacker always have their types. *)
THEOREM CampaignsTyped == Spec => []TypeOK
  <1>1. CampInv /\ AccountInv => TypeOK
    BY DEF CampInv, AccountInv, TypeOK, CampType
  <1> QED BY CampInit, CampStep, AccountInit, AccountStep, <1>1, PTL DEF Spec

(* Whatever fails, raises or is interrupted, and in whichever order the    *)
(* campaigns end: the report over all of them lists each with its own exit *)
(* code, and exit code 0 means that each of them succeeded.                *)
THEOREM CampaignsAccounted == Spec => []AllAccounted
  <1>1. AccountInv => AllAccounted
    <2> SUFFICES ASSUME AccountInv PROVE AllAccounted
      OBVIOUS
    <2>1. main = "ended" /\ exit = 0 =>
            \A c \in Range(plan) : report[c].written /\ report[c].rc = 0
      BY PlanRange DEF AccountInv, AllSucceeded, Reports
    <2> QED BY <2>1 DEF AccountInv, Account, AllAccounted
  <1> QED BY CampInit, CampStep, AccountInit, AccountStep, <1>1, PTL DEF Spec

(***************************************************************************)
(* The verdict over all services.                                          *)
(***************************************************************************)
(* The largest of some scores is one of them, and none is larger: they are *)
(* bounded, so the distances to the bound have a least one.                *)
LEMMA MaxScore ==
  ASSUME NEW S \in SUBSET (0 .. 100), S # {}
  PROVE  Max(S) \in S /\ \A s \in S : s <= Max(S)
  <1> DEFINE T == {n \in Nat : 100 - n \in S}
             R == OpToRel(<, Nat)
  <1>1. IsWellFoundedOn(R, Nat)
    BY NatLessThanWellFounded
  <1>2. T \subseteq Nat /\ T # {}
    <2>1. PICK s \in S : TRUE
      OBVIOUS
    <2>2. 100 - s \in Nat /\ 100 - (100 - s) = s
      OBVIOUS
    <2>. QED
      BY <2>1, <2>2
  <1>3. R = {ss \in Nat \X Nat : ss[1] < ss[2]}
    BY DEF OpToRel
  <1>. HIDE DEF T, R
  <1>4. PICK x \in T : \A y \in T : ~(<<y, x>> \in R)
    BY <1>1, <1>2, WFMin
  <1>5. ASSUME NEW y \in T PROVE x <= y
    <2>1. x \in Nat /\ y \in Nat
      BY <1>2
    <2>2. y < x => <<y, x>> \in R
      BY <1>3, <2>1
    <2>. QED
      BY <1>4, <2>1, <2>2
  <1>6. ASSUME NEW s \in S PROVE 100 - s \in T
    <2>1. 100 - s \in Nat /\ 100 - (100 - s) = s
      OBVIOUS
    <2>. QED
      BY <2>1 DEF T
  <1>7. 100 - x \in S /\ x \in Nat
    BY <1>4 DEF T
  <1>8. \A s \in S : 100 - x >= s
    <2>1. ASSUME NEW s \in S PROVE 100 - x >= s
      <3>1. x <= 100 - s
        BY <1>5, <1>6
      <3>. QED
        BY <1>7, <3>1
    <2>. QED
      BY <2>1
  <1>9. \E m \in S : \A s \in S : m >= s
    BY <1>7, <1>8
  <1>10. Max(S) \in S /\ \A s \in S : Max(S) >= s
    BY <1>9 DEF Max
  <1>. QED
    BY <1>10

(* A report holds an assessment exactly if its campaign succeeded, and the *)
(* report over all of them is what was made of theirs.                     *)
AssessedIfSuccessful(c) ==
  report[c] \in Reports => (report[c].assessed <=> report[c].rc = 0)

VerdictInv ==
  /\ \A c \in Campaigns : AssessedIfSuccessful(c)
  /\ consolidated.written => consolidated = Consolidated

(* What a campaign reports has an assessment exactly if it succeeded.      *)
LEMMA ReportsAgree ==
  ASSUME CampInv, AccountInv, NEW c \in Campaigns, CampaignActs(c),
         \A d \in Campaigns : AssessedIfSuccessful(d)
  PROVE  \A d \in Campaigns : AssessedIfSuccessful(d)'
  <1>1. ASSUME NEW r, r.assessed <=> r.rc = 0, report' = [report EXCEPT ![c] = r]
        PROVE  \A d \in Campaigns : AssessedIfSuccessful(d)'
    <2>1. \A d \in Campaigns : report'[d] = IF d = c THEN r ELSE report[d]
      BY <1>1 DEF AccountInv
    <2>. QED
      BY <1>1, <2>1 DEF AssessedIfSuccessful
  <1>2. CASE Unreachable(c)
    <2> DEFINE r == [written |-> TRUE, rc |-> 2, assessed |-> FALSE, score |-> 0]
    <2>1. report' = [report EXCEPT ![c] = r] /\ (r.assessed <=> r.rc = 0)
      BY <1>2 DEF Unreachable, WriteReport
    <2>. HIDE DEF r
    <2>. QED
      BY <1>1, <2>1
  <1>3. CASE Report(c)
    <2> DEFINE r == [written |-> TRUE, rc |-> 0, assessed |-> TRUE,
                     score |-> AtMost100(camp[c].score)]
    <2>1. report' = [report EXCEPT ![c] = r] /\ (r.assessed <=> r.rc = 0)
      BY <1>3 DEF Report, WriteReport
    <2>. HIDE DEF r
    <2>. QED
      BY <1>1, <2>1
  <1>4. CASE ~(Unreachable(c) \/ Report(c))
    <2>1. report' = report
      BY <1>4 DEF CampaignActs, Reachable, Resolve, Fetch, Fetching, Fetched, FetchFails,
             Spray, TryDefaults, TryAll, SkipHydra, Answer, Judge, Compare, Loot, Raise,
             Step, Change
    <2>. QED
      BY <2>1 DEF AssessedIfSuccessful
  <1>. QED
    BY <1>2, <1>3, <1>4

(* Every step keeps the verdict what it was made of.                       *)
LEMMA VerdictStep ==
  CampInv /\ CampInv' /\ AccountInv /\ VerdictInv /\ [Next]_vars => VerdictInv'
  <1> SUFFICES ASSUME CampInv, CampInv', AccountInv, VerdictInv, [Next]_vars
               PROVE  VerdictInv'
    OBVIOUS
  <1>1. ASSUME NEW c \in Campaigns, CampaignActs(c) PROVE VerdictInv'
    <2>1. /\ c \in Range(plan) /\ camp[c].stage # "done" /\ consolidated' = consolidated
      BY <1>1, ActsAlone
    <2>2. ~consolidated.written
      BY <2>1 DEF AccountInv, Account, Range
    <2>. QED
      BY <1>1, <2>1, <2>2, ReportsAgree DEF VerdictInv
  <1>2. ASSUME UNCHANGED <<plan, report>>
        PROVE  /\ Consolidated' = Consolidated
               /\ \A c \in Campaigns : AssessedIfSuccessful(c)'
    BY <1>2 DEF VerdictInv, AssessedIfSuccessful, Consolidated, Outcome, Assessed, CrossScore,
                Cooperative, Bonus
  <1>3. CASE Finish
    <2>1. UNCHANGED <<plan, report>>
          /\ (consolidated' = Consolidated \/ consolidated' = consolidated)
      BY <1>3 DEF Finish
    <2>. QED
      BY <1>2, <2>1 DEF VerdictInv
  <1>4. CASE \/ \E code \in {1, 2} : StartFails(code)
             \/ Crash \/ Interrupt \/ Interrupted \/ UNCHANGED vars
    <2>1. UNCHANGED <<plan, report, consolidated>>
      BY <1>4 DEF StartFails, Crash, Interrupt, Interrupted, vars
    <2>. QED
      BY <1>2, <2>1 DEF VerdictInv
  <1>5. CASE \/ \E found \in SUBSET Campaigns : Discover(found)
             \/ \E c \in Campaigns : Single(c)
    <2>1. main = "start" /\ UNCHANGED <<report, consolidated>>
      BY <1>5 DEF Discover, Single, Start
    <2>2. ~consolidated.written
      BY <2>1 DEF AccountInv
    <2>. QED
      BY <2>1, <2>2 DEF VerdictInv, AssessedIfSuccessful
  <1>. QED
    BY <1>1, <1>3, <1>4, <1>5 DEF Next, CampaignActs

(* The score over all services is suspicious exactly if one of them is,    *)
(* and at least as high as theirs.                                         *)
LEMMA CrossVerdict ==
  ASSUME plan \in Seq(Campaigns), \A c \in Range(plan) : report[c].score \in 0 .. 100
  PROVE  /\ Suspected(CrossScore) <=> \E c \in Assessed : Suspected(report[c].score)
         /\ \A c \in Assessed : report[c].score <= CrossScore
  <1> DEFINE S == {report[c].score : c \in Assessed}
             m == Max(S)
  <1>1. IsFiniteSet(Range(plan))
    <2>1. /\ Len(plan) \in Nat /\ DOMAIN plan = 1 .. Len(plan)
          /\ plan = [i \in 1 .. Len(plan) |-> plan[i]]
      OBVIOUS
    <2>2. IsFiniteSet(1 .. Len(plan))
      <3>1. Len(plan) \in Nat
        OBVIOUS
      <3>. QED
        BY <3>1, FS_Interval
    <2>3. plan \in [1 .. Len(plan) -> Range(plan)]
      BY <2>1 DEF Range
    <2>4. \A c \in Range(plan) : \E i \in 1 .. Len(plan) : plan[i] = c
      BY <2>1 DEF Range
    <2>5. plan \in Surjection(1 .. Len(plan), Range(plan))
      BY <2>3, <2>4 DEF Surjection
    <2>. QED
      BY <2>2, <2>5, FS_Surjection
  <1>2. Cooperative \in SUBSET Range(plan)
    BY DEF Cooperative, Assessed
  <1>3. IsFiniteSet(Cooperative) /\ Cardinality(Cooperative) \in Nat
    BY <1>1, <1>2, FS_Subset, FS_CardinalityType
  <1>4. Bonus \in Nat /\ (Cooperative = {} => Bonus = 0)
    <2>1. Cooperative # {} => Cardinality(Cooperative) # 0
      BY <1>3, FS_EmptySet
    <2>2. \A n \in Nat : n # 0 => 25 * (n - 1) \in Nat
      OBVIOUS
    <2>. QED
      BY <1>3, <2>1, <2>2 DEF Bonus
  <1>5. CASE Assessed = {}
    <2>1. CrossScore = 0
      BY <1>5 DEF CrossScore
    <2>. QED
      BY <1>5, <2>1 DEF Suspected
  <1>6. CASE Assessed # {}
    <2>1. S \in SUBSET (0 .. 100) /\ S # {}
      BY <1>6 DEF Assessed
    <2>2. m \in S /\ \A s \in S : s <= m
      BY <2>1, MaxScore
    <2>3. PICK worst \in Assessed : report[worst].score = m
      BY <2>2
    <2>4. \A c \in Assessed : report[c].score \in 0 .. 100 /\ report[c].score <= m
      BY <2>1, <2>2
    <2>5. CrossScore = AtMost100(m + Bonus)
      BY <1>6 DEF CrossScore
    <2>. HIDE DEF m, S
    <2>6. m \in 0 .. 100
      BY <2>3, <2>4
    <2>7. m <= CrossScore
      BY <1>4, <2>5, <2>6 DEF AtMost100
    <2>8. \A c \in Assessed : report[c].score <= CrossScore
      <3>1. CrossScore \in Nat
        BY <1>4, <2>5, <2>6 DEF AtMost100
      <3>2. \A n \in 0 .. 100, k \in Nat : n <= m /\ m <= k => n <= k
        BY <2>6
      <3>. QED
        BY <2>4, <2>7, <3>1, <3>2
    <2>9. CASE Cooperative = {}
      <3>1. \A c \in Assessed : ~Suspected(report[c].score)
        BY <2>9 DEF Cooperative
      <3>2. ~(m >= 50)
        BY <2>3, <3>1 DEF Suspected
      <3>3. CrossScore = m
        BY <1>4, <2>5, <2>6, <2>9 DEF AtMost100
      <3>. QED
        BY <2>8, <3>1, <3>2, <3>3 DEF Suspected
    <2>10. CASE Cooperative # {}
      <3>1. PICK c \in Assessed : Suspected(report[c].score)
        BY <2>10 DEF Cooperative
      <3>2. \A n \in 0 .. 100 : n <= m /\ n >= 50 => m >= 50
        BY <2>6
      <3>3. m >= 50
        BY <2>4, <3>1, <3>2 DEF Suspected
      <3>4. Suspected(CrossScore)
        BY <1>4, <2>5, <2>6, <3>3 DEF AtMost100, Suspected
      <3>. QED
        BY <2>8, <3>1, <3>4
    <2>. QED
      BY <2>9, <2>10
  <1>. QED
    BY <1>5, <1>6

(* The verdict over all services agrees with theirs, whichever campaigns   *)
(* failed: suspected exactly if one of them is, never less suspect than    *)
(* the worst, and without any assessment there is none.                    *)
THEOREM CampaignsVerdict == Spec => []VerdictAgrees
  <1>1. Init => VerdictInv
    <2>1. NoReport \notin Reports /\ ~NoReport.written
      BY DEF NoReport, Reports
    <2>. QED
      BY <2>1 DEF Init, VerdictInv, AssessedIfSuccessful
  <1>2. AccountInv /\ VerdictInv => VerdictAgrees
    <2> SUFFICES ASSUME AccountInv, VerdictInv, consolidated.written
                 PROVE  /\ Suspected(consolidated.score)
                             = (\E c \in Assessed : Suspected(report[c].score))
                        /\ \A c \in Assessed : report[c].score <= consolidated.score
                        /\ consolidated.assessed = (\E c \in Range(plan) : report[c].rc = 0)
      BY DEF VerdictAgrees
    <2>1. /\ plan \in Seq(Campaigns)
          /\ \A c \in Range(plan) : c \in Campaigns /\ report[c] \in Reports
      BY PlanRange DEF AccountInv, Account, Range
    <2>2. /\ consolidated.score = CrossScore
          /\ consolidated.assessed = (Assessed # {})
      BY DEF VerdictInv, Consolidated
    <2>3. \A c \in Range(plan) : report[c].score \in 0 .. 100
      BY <2>1 DEF Reports
    <2>4. \A c \in Range(plan) : report[c].assessed <=> report[c].rc = 0
      BY <2>1 DEF VerdictInv, AssessedIfSuccessful
    <2>5. Assessed # {} <=> \E c \in Range(plan) : report[c].rc = 0
      BY <2>4 DEF Assessed
    <2>6. /\ Suspected(CrossScore) <=> \E c \in Assessed : Suspected(report[c].score)
          /\ \A c \in Assessed : report[c].score <= CrossScore
      BY <2>1, <2>3, CrossVerdict
    <2>7. Suspected(CrossScore) \in BOOLEAN
      BY DEF Suspected
    <2>. QED
      BY <2>2, <2>5, <2>6, <2>7
  <1>. QED
    BY CampInit, CampStep, AccountInit, AccountStep, VerdictStep, <1>1, <1>2, PTL DEF Spec

(***************************************************************************)
(* The end of the program.                                                 *)
(***************************************************************************)

(* A download is one of a campaign that resolves lists.                    *)
JobInv(c) ==
  job[c] # W!Idle => Busy(c) /\ camp[c].stage \in {"resolve", "compare"}

(* One after another: whoever has begun, all before it are done.           *)
InTurn ==
  \A i, j \in DOMAIN plan :
    j < i /\ camp[plan[i]].stage # "planned" => camp[plan[j]].stage = "done"

Quiet == \A c \in Campaigns : ~UnderWay(c)

(* Who has a temporary file is downloading the list.                       *)
TmpOwned ==
  \A l \in Lists : tmp[l] # W!Absent => \E c \in Campaigns : job[c].list = l

CleanInv ==
  /\ IsInjective(plan)
  /\ \A c \in Campaigns : JobInv(c)
  /\ ~Parallel => InTurn
  /\ main = "interrupted" /\ ~Parallel => Quiet
  /\ main = "ended" => Quiet
  /\ main \in {"start", "running"} \/ (main = "ended" /\ exit # 130) => TmpOwned

(* What a campaign does with the lists: it is under way or begins, touches *)
(* the downloads of no other, and takes its temporary file away when it    *)
(* ends a download.                                                        *)
LEMMA ActsOnLists ==
  ASSUME CampInv, NEW c \in Campaigns, CampaignActs(c), JobInv(c)
  PROVE  /\ Due(c) \/ UnderWay(c)
         /\ JobInv(c)'
         /\ \A d \in Campaigns \ {c} :
              job'[d].list = job[d].list /\ (job'[d] # W!Idle => job[d] # W!Idle)
         /\ \A l \in Lists : tmp'[l] # W!Absent =>
              job'[c].list = l \/ (tmp[l] # W!Absent /\ job[c].list # l)
  <1>j. /\ job \in [Campaigns -> [list : Lists \cup {None}, at : W!Places, done : 0 .. Blocks]]
        /\ tmp \in [Lists -> W!Contents \cup {W!Absent}]
        /\ None \notin Lists
    BY CampaignsAssumption DEF CampInv, W!TypeOK
  <1>c. camp \in [Campaigns -> CampType]
    BY DEF CampInv
  <1>b. /\ Busy(c) => job[c] # W!Idle
        /\ Busy(c) => camp[c].todo # <<>>
    BY DEF CampInv, Downloads, Busy, W!Idle
  <1>u. camp[c].stage \in {"resolve", "ask", "full", "judge", "compare", "loot", "report"}
          => UnderWay(c)
    BY DEF UnderWay, Ended
  <1>1. ASSUME lists' = lists, Due(c) \/ UnderWay(c),
               job[c] = W!Idle \/ camp'[c].stage = camp[c].stage
        PROVE  /\ Due(c) \/ UnderWay(c)
               /\ JobInv(c)'
               /\ \A d \in Campaigns \ {c} :
                    job'[d].list = job[d].list /\ (job'[d] # W!Idle => job[d] # W!Idle)
               /\ \A l \in Lists : tmp'[l] # W!Absent =>
                    job'[c].list = l \/ (tmp[l] # W!Absent /\ job[c].list # l)
    <2>1. job' = job /\ tmp' = tmp
      BY <1>1 DEF lists
    <2>2. JobInv(c)'
      BY <1>1, <2>1 DEF JobInv, Busy
    <2>. QED
      BY <1>1, <2>1, <2>2
  <1>2. CASE \/ \E banner \in Banners : Reachable(c, banner)
             \/ Unreachable(c) \/ Raise(c)
    <2>1. lists' = lists /\ (Due(c) \/ UnderWay(c))
      BY <1>2 DEF Reachable, Unreachable, Raise, Step
    <2>2. job[c] = W!Idle
      BY <1>2 DEF Reachable, Unreachable, Raise, Due, JobInv
    <2>. QED
      BY <1>1, <2>1, <2>2
  <1>3. CASE \/ \E haul \in Hauls : Spray(c, haul) \/ TryDefaults(c, haul) \/ TryAll(c, haul)
             \/ SkipHydra(c)
             \/ \E yes \in BOOLEAN : Answer(c, yes)
             \/ Judge(c) \/ Report(c)
             \/ \E weight \in Weights : Compare(c, weight) \/ Loot(c, weight)
    <2>1. lists' = lists
      BY <1>3 DEF Spray, TryDefaults, TryAll, SkipHydra, Answer, Judge, Report, Compare, Loot,
                  Step
    <2>2. \/ camp[c].stage \in {"resolve", "compare"} /\ camp[c].todo = <<>>
          \/ camp[c].stage \in {"ask", "full", "judge", "loot", "report"}
      BY <1>3 DEF Spray, TryDefaults, TryAll, SkipHydra, Answer, Judge, Report, Compare, Loot,
                  Ready
    <2>3. UnderWay(c) /\ job[c] = W!Idle
      BY <1>b, <1>u, <2>2 DEF JobInv
    <2>. QED
      BY <1>1, <2>1, <2>3
  <1>4. CASE Resolve(c)
    <2>1. lists' = lists /\ camp[c].stage \in {"resolve", "compare"}
      BY <1>4 DEF Resolve, Resolving, W!Cached, W!vars, lists
    <2>2. camp'[c].stage = camp[c].stage
      BY <1>4, <1>c DEF Resolve, Change, Resolved, CampType
    <2>. QED
      BY <1>1, <1>u, <2>1, <2>2
  <1>5. CASE Fetch(c)
    <2>2. /\ camp' = camp /\ camp[c].stage \in {"resolve", "compare"}
          /\ camp[c].todo # <<>>
      BY <1>5 DEF Fetch, Resolving
    <2>3. Head(camp[c].todo) \in Lists /\ W!Begin(c, Head(camp[c].todo))
      <3>1. \A s \in Seq(Lists) : s # <<>> => Head(s) \in Lists
        OBVIOUS
      <3>. QED
        BY <1>5, <1>c, <2>2, <3>1 DEF Fetch, CampType
    <2>4. /\ tmp' = tmp /\ job[c] = W!Idle /\ job'[c].list \in Lists
          /\ \A d \in Campaigns \ {c} : job'[d] = job[d]
      BY <1>j, <2>3 DEF W!Begin
    <2>5. JobInv(c)'
      BY <1>j, <2>2, <2>4 DEF JobInv, Busy
    <2>6. \A l \in Lists : job[c].list # l
      BY <1>j, <2>4 DEF W!Idle
    <2>. QED
      BY <1>u, <2>2, <2>4, <2>5, <2>6
  <1>6. CASE Fetching(c)
    <2>1. /\ camp' = camp /\ job'[c].list = job[c].list /\ job[c].list \in Lists
          /\ \A d \in Campaigns \ {c} : job'[d] = job[d]
          /\ \A l \in Lists : l # job[c].list => tmp'[l] = tmp[l]
      BY <1>6, <1>j DEF Fetching, W!Open, W!Write, W!RenameFails, W!Retrieved
    <2>2. camp[c].stage \in {"resolve", "compare"}
      BY <1>b, <1>j, <2>1 DEF JobInv, Busy
    <2>3. JobInv(c)'
      BY <1>j, <2>1, <2>2 DEF JobInv, Busy
    <2>. QED
      BY <1>u, <2>1, <2>2, <2>3
  <1>7. CASE Fetched(c) \/ FetchFails(c)
    <2>1. /\ job[c].list \in Lists /\ job'[c] = W!Idle
          /\ tmp' = [tmp EXCEPT ![job[c].list] = W!Absent]
          /\ \A d \in Campaigns \ {c} :
               job'[d] = job[d] \/ (job[d].list = job[c].list /\ job'[d].list = job[d].list)
      BY <1>7, <1>j DEF Fetched, FetchFails, W!Rename, W!Fail, W!Retrieved, W!Cleaned,
                        W!JobsAfter
    <2>2. camp[c].stage \in {"resolve", "compare"}
      BY <1>b, <1>j, <2>1 DEF JobInv, Busy
    <2>3. JobInv(c)'
      BY <2>1 DEF JobInv
    <2>4. \A d \in Campaigns \ {c} :
            job'[d].list = job[d].list /\ (job'[d] # W!Idle => job[d] # W!Idle)
      BY <1>j, <2>1 DEF W!Idle
    <2>5. \A l \in Lists : tmp'[l] # W!Absent => tmp[l] # W!Absent /\ job[c].list # l
      BY <1>j, <2>1
    <2>. QED
      BY <1>u, <2>2, <2>3, <2>4, <2>5
  <1>. QED
    BY <1>2, <1>3, <1>4, <1>5, <1>6, <1>7 DEF CampaignActs

(* A plan names no campaign twice.                                         *)
LEMMA PlanInjective ==
  ASSUME NEW p \in Seq(Campaigns), InOrder(p)
  PROVE  IsInjective(p)
  <1>1. ASSUME NEW i \in DOMAIN p, NEW j \in DOMAIN p, i < j PROVE p[i] # p[j]
    <2>1. PICK k \in DOMAIN Services, l \in DOMAIN Services :
            k < l /\ Services[k] = p[i] /\ Services[l] = p[j]
      BY <1>1 DEF InOrder
    <2>2. Services \in Seq(Campaigns) /\ IsInjective(Services)
      BY CampaignsAssumption
    <2>3. k # l
      <3>1. k \in Nat /\ l \in Nat
        BY <2>2
      <3>. QED
        BY <2>1, <3>1
    <2>. QED
      BY <2>1, <2>2, <2>3 DEF IsInjective
  <1>2. \A i, j \in DOMAIN p : i \in Nat /\ j \in Nat /\ (i < j \/ j < i \/ i = j)
    OBVIOUS
  <1>. QED
    BY <1>1, <1>2 DEF IsInjective

(* At the start there is nothing to clean.                                 *)
LEMMA CleanInit == Init => CleanInv
  <1> SUFFICES ASSUME Init PROVE CleanInv
    OBVIOUS
  <1>1. plan = <<>> /\ main = "start" /\ W!Init
    BY DEF Init
  <1>2. IsInjective(plan) /\ InTurn
    BY <1>1 DEF IsInjective, InTurn
  <1>3. \A c \in Campaigns : JobInv(c)
    BY <1>1 DEF W!Init, JobInv
  <1>4. TmpOwned
    BY <1>1 DEF W!Init, TmpOwned
  <1>. QED
    BY <1>1, <1>2, <1>3, <1>4 DEF CleanInv

(* A step of a campaign leaves nothing behind.                             *)
LEMMA CleanActs ==
  ASSUME CampInv, CampInv', AccountInv, CleanInv, NEW c \in Campaigns, CampaignActs(c)
  PROVE  CleanInv'
  <1>1. /\ c \in Range(plan) /\ camp[c].stage # "done"
        /\ UNCHANGED <<options, main, exit, plan, consolidated>>
        /\ \A d \in Campaigns \ {c} : camp'[d] = camp[d]
    BY ActsAlone
  <1>2. /\ Due(c) \/ UnderWay(c)
        /\ JobInv(c)'
        /\ \A d \in Campaigns \ {c} :
             job'[d].list = job[d].list /\ (job'[d] # W!Idle => job[d] # W!Idle)
        /\ \A l \in Lists : tmp'[l] # W!Absent =>
             job'[c].list = l \/ (tmp[l] # W!Absent /\ job[c].list # l)
    BY ActsOnLists DEF CleanInv
  <1>3. /\ main # "ended"
        /\ main = "interrupted" => Parallel
    BY <1>2 DEF CleanInv, Due, Quiet
  <1>4. \A d \in Campaigns : JobInv(d)'
    <2>1. ASSUME NEW d \in Campaigns \ {c} PROVE JobInv(d)'
      BY <1>1, <1>2 DEF CleanInv, JobInv, Busy
    <2>. QED
      BY <1>2, <2>1
  <1>5. ASSUME ~Parallel PROVE InTurn'
    <2> SUFFICES ASSUME NEW i \in DOMAIN plan, NEW j \in DOMAIN plan,
                        j < i, camp'[plan[i]].stage # "planned"
                 PROVE  camp'[plan[j]].stage = "done"
      BY <1>1 DEF InTurn
    <2>1. plan[i] \in Campaigns /\ plan[j] \in Campaigns /\ i # j
      <3>1. i \in Nat /\ j \in Nat
        BY DEF AccountInv
      <3>. QED
        BY <3>1 DEF AccountInv
    <2>2. camp[plan[j]].stage = "done"
      <3>1. CASE plan[i] # c
        BY <1>1, <1>5, <2>1, <3>1 DEF CleanInv, InTurn
      <3>2. CASE plan[i] = c /\ UnderWay(c)
        BY <1>5, <3>2 DEF CleanInv, InTurn, UnderWay
      <3>3. CASE plan[i] = c /\ Due(c)
        <4>1. PICK k \in DOMAIN plan :
                plan[k] = c /\ \A h \in 1 .. k - 1 : camp[plan[h]].stage = "done"
          BY <1>5, <3>3 DEF Due
        <4>2. k = i
          BY <3>3, <4>1 DEF CleanInv, IsInjective
        <4>3. j \in 1 .. i - 1
          BY DEF AccountInv
        <4>. QED
          BY <4>1, <4>2, <4>3
      <3>. QED
        BY <1>2, <3>1, <3>2, <3>3
    <2>3. plan[j] # c
      BY <1>1, <2>2
    <2>. QED
      BY <1>1, <2>1, <2>2, <2>3
  <1>6. ASSUME TmpOwned PROVE TmpOwned'
    <2> SUFFICES ASSUME NEW l \in Lists, tmp'[l] # W!Absent
                 PROVE  \E d \in Campaigns : job'[d].list = l
      BY DEF TmpOwned
    <2>1. CASE job'[c].list = l
      BY <2>1
    <2>2. CASE tmp[l] # W!Absent /\ job[c].list # l
      <3>1. PICK d \in Campaigns : job[d].list = l
        BY <1>6, <2>2 DEF TmpOwned
      <3>. QED
        BY <1>2, <2>2, <3>1
    <2>. QED
      BY <1>2, <2>1, <2>2
  <1>7. Parallel' = Parallel
    BY <1>1 DEF Parallel
  <1>. QED
    BY <1>1, <1>3, <1>4, <1>5, <1>6, <1>7 DEF CleanInv

(* When main stops while they run one after another, one is under way at   *)
(* most, and it is the only one that is not done or planned.               *)
LEMMA OneUnderWay ==
  ASSUME AccountInv, CleanInv, ~Parallel, NEW c \in Campaigns, NEW d \in Campaigns,
         camp[c].stage \notin {"planned", "done"}, camp[d].stage \notin {"planned", "done"}
  PROVE  c = d
  <1>1. c \in Range(plan) /\ d \in Range(plan)
    BY DEF AccountInv, Fresh
  <1>2. PICK i \in DOMAIN plan, j \in DOMAIN plan : plan[i] = c /\ plan[j] = d
    BY <1>1 DEF Range
  <1>3. i \in Nat /\ j \in Nat
    BY DEF AccountInv
  <1>4. ~(i < j) /\ ~(j < i)
    BY <1>2 DEF CleanInv, InTurn
  <1>. QED
    BY <1>2, <1>3, <1>4

(* Ctrl-C stops the campaign of the main thread and its download.          *)
LEMMA CleanInterrupt ==
  ASSUME CampInv, CampInv', AccountInv, CleanInv, Interrupt
  PROVE  CleanInv'
  <1>1. /\ main' = "interrupted" /\ UNCHANGED <<options, exit, plan, report, consolidated>>
        /\ Parallel' = Parallel
    BY DEF Interrupt, Parallel
  <1>2. CASE Parallel
    <2>1. camp' = camp /\ job' = job
      BY <1>2 DEF Interrupt, lists
    <2>2. \A c \in Campaigns : JobInv(c)'
      BY <2>1 DEF CleanInv, JobInv, Busy
    <2>. QED
      BY <1>1, <1>2, <2>2 DEF CleanInv
  <1>3. CASE ~Parallel
    <2>1. camp' = [c \in Campaigns |-> IF UnderWay(c) THEN [camp[c] EXCEPT !.stage = "raised"]
                                       ELSE camp[c]]
      BY <1>3 DEF Interrupt
    <2>2. ASSUME NEW c \in Campaigns
          PROVE  /\ UnderWay(c) => camp'[c].stage = "raised"
                 /\ ~UnderWay(c) => camp'[c] = camp[c]
      BY <2>1 DEF CampInv, CampType
    <2>3. Quiet'
      BY <2>2 DEF Quiet, UnderWay, Ended
    <2>4. \A c \in Campaigns : job'[c] = W!Idle
      <3>1. \A c \in Campaigns : job[c] # W!Idle => UnderWay(c)
        BY DEF CleanInv, JobInv, UnderWay, Ended
      <3>2. CASE \E c \in Campaigns : UnderWay(c)
        <4>1. PICK c \in Campaigns : UnderWay(c) /\ W!Abandon(c)
          BY <1>3, <3>2 DEF Interrupt
        <4>2. \A d \in Campaigns : UnderWay(d) => d = c
          BY <1>3, <4>1, OneUnderWay DEF UnderWay, Ended
        <4>3. job' = [job EXCEPT ![c] = W!Idle] /\ job = [d \in Campaigns |-> job[d]]
          BY <4>1 DEF W!Abandon, CampInv, W!TypeOK
        <4>. QED
          BY <3>1, <4>2, <4>3
      <3>3. CASE ~\E c \in Campaigns : UnderWay(c)
        <4>1. job' = job
          BY <1>3, <3>3 DEF Interrupt, lists
        <4>. QED
          BY <3>1, <3>3, <4>1
      <3>. QED
        BY <3>2, <3>3
    <2>5. \A c \in Campaigns : JobInv(c)'
      BY <2>4 DEF JobInv
    <2>6. InTurn'
      <3> SUFFICES ASSUME NEW i \in DOMAIN plan, NEW j \in DOMAIN plan,
                          j < i, camp'[plan[i]].stage # "planned"
                   PROVE  camp'[plan[j]].stage = "done"
        BY <1>1 DEF InTurn
      <3>1. plan[i] \in Campaigns /\ plan[j] \in Campaigns
        BY DEF AccountInv
      <3>2. camp[plan[i]].stage # "planned"
        BY <2>2, <3>1 DEF UnderWay
      <3>3. camp[plan[j]].stage = "done"
        BY <1>3, <3>2 DEF CleanInv, InTurn
      <3>. QED
        BY <2>2, <3>1, <3>3 DEF UnderWay, Ended
    <2>. QED
      BY <1>1, <2>3, <2>5, <2>6 DEF CleanInv
  <1>. QED
    BY <1>2, <1>3

(* Every step keeps it so.                                                 *)
LEMMA CleanStep ==
  CampInv /\ CampInv' /\ AccountInv /\ CleanInv /\ [Next]_vars => CleanInv'
  <1> SUFFICES ASSUME CampInv, CampInv', AccountInv, CleanInv, [Next]_vars PROVE CleanInv'
    OBVIOUS
  <1>1. ASSUME NEW c \in Campaigns, CampaignActs(c) PROVE CleanInv'
    BY <1>1, CleanActs
  <1>2. ASSUME UNCHANGED <<options, plan, camp, lists>>,
               main' = "ended", Quiet, main = "interrupted" => exit' = 130,
               main \in {"start", "running", "interrupted"}
        PROVE  CleanInv'
    <2>1. job' = job /\ tmp' = tmp /\ Parallel' = Parallel
      BY <1>2 DEF lists, Parallel
    <2>2. Quiet' /\ (InTurn' <=> InTurn) /\ (TmpOwned' <=> TmpOwned)
      BY <1>2, <2>1 DEF Quiet, UnderWay, InTurn, TmpOwned
    <2>3. \A c \in Campaigns : JobInv(c)'
      BY <1>2, <2>1 DEF CleanInv, JobInv, Busy
    <2>. QED
      BY <1>2, <2>1, <2>2, <2>3 DEF CleanInv
  <1>3. ASSUME \A c \in Range(plan) : camp[c].stage \in Ended PROVE Quiet
    BY <1>3 DEF AccountInv, Quiet, UnderWay, Fresh
  <1>4. CASE \E code \in {1, 2} : StartFails(code)
    <2>1. /\ UNCHANGED <<options, plan, camp, lists>> /\ main = "start" /\ main' = "ended"
          /\ plan = <<>>
      BY <1>4 DEF StartFails, Exit, AccountInv
    <2>2. Range(plan) = {}
      BY <2>1 DEF Range
    <2>. QED
      BY <1>2, <1>3, <2>1, <2>2
  <1>5. ASSUME NEW p \in Seq(Campaigns), main = "start", Start(p), IsInjective(p)
        PROVE  CleanInv'
    <2>1. /\ UNCHANGED <<options, camp, lists>> /\ plan' = p /\ main' = "running"
          /\ job' = job /\ tmp' = tmp
      BY <1>5 DEF Start, lists
    <2>2. \A c \in Campaigns : camp[c].stage = "planned"
      BY <1>5 DEF AccountInv, Range, Fresh
    <2>3. InTurn'
      <3>1. \A i \in DOMAIN p : p[i] \in Campaigns
        OBVIOUS
      <3>. QED
        BY <2>1, <2>2, <3>1 DEF InTurn
    <2>4. \A c \in Campaigns : JobInv(c)'
      BY <2>1 DEF CleanInv, JobInv, Busy
    <2>5. TmpOwned'
      BY <1>5, <2>1 DEF CleanInv, TmpOwned
    <2>. QED
      BY <1>5, <2>1, <2>3, <2>4, <2>5 DEF CleanInv
  <1>6. CASE \E found \in SUBSET Campaigns : Discover(found)
    <2>1. PICK p \in BoundedSeq(Campaigns, Len(Services)) : InOrder(p) /\ Start(p)
      BY <1>6 DEF Discover
    <2>. QED
      BY <1>5, <1>6, <2>1, PlanType, PlanInjective DEF Discover
  <1>7. CASE \E c \in Campaigns : Single(c)
    <2>1. PICK c \in Campaigns : Single(c)
      BY <1>7
    <2>2. <<c>> \in Seq(Campaigns) /\ IsInjective(<<c>>)
      BY DEF IsInjective
    <2>. QED
      BY <1>5, <2>1, <2>2 DEF Single
  <1>8. CASE Finish
    <2>1. /\ UNCHANGED <<options, plan, camp, lists>> /\ main = "running" /\ main' = "ended"
          /\ \A c \in Range(plan) : camp[c].stage \in Ended
      BY <1>8 DEF Finish, Exit, Ended
    <2>. QED
      BY <1>2, <1>3, <2>1
  <1>9. CASE Crash
    <2>1. /\ UNCHANGED <<options, plan, camp, lists>> /\ main = "running" /\ main' = "ended"
      BY <1>9 DEF Crash, Exit
    <2>2. CASE Parallel
      BY <1>2, <1>3, <1>9, <2>1, <2>2 DEF Crash, Settled
    <2>3. CASE \A c \in Range(plan) : camp[c].stage = "done"
      BY <1>2, <1>3, <2>1, <2>3 DEF Ended
    <2>4. CASE ~Parallel /\ \E c \in Range(plan) : camp[c].stage = "raised"
      <3>1. PICK c \in Campaigns : camp[c].stage = "raised"
        BY <2>4, PlanRange DEF AccountInv
      <3>2. \A d \in Campaigns : UnderWay(d) => d = c
        BY <2>4, <3>1, OneUnderWay DEF UnderWay, Ended
      <3>3. Quiet
        BY <3>1, <3>2 DEF Quiet, UnderWay, Ended
      <3>. QED
        BY <1>2, <2>1, <3>3
    <2>. QED
      BY <1>9, <2>2, <2>3, <2>4 DEF Crash
  <1>10. CASE Interrupt
    BY <1>10, CleanInterrupt
  <1>11. CASE Interrupted
    <2>1. /\ UNCHANGED <<options, plan, camp, lists>> /\ main = "interrupted"
          /\ main' = "ended" /\ exit' = 130
      BY <1>11 DEF Interrupted, Exit
    <2>2. Quiet
      BY <1>3, <1>11 DEF Interrupted, Settled, CleanInv
    <2>. QED
      BY <1>2, <2>1, <2>2
  <1>12. CASE UNCHANGED vars
    <2>1. /\ UNCHANGED <<options, main, exit, plan, camp>> /\ job' = job /\ tmp' = tmp
          /\ Parallel' = Parallel
      BY <1>12 DEF vars, lists, Parallel
    <2>2. (Quiet' <=> Quiet) /\ (InTurn' <=> InTurn) /\ (TmpOwned' <=> TmpOwned)
      BY <2>1 DEF Quiet, UnderWay, InTurn, TmpOwned
    <2>3. \A c \in Campaigns : JobInv(c)'
      BY <2>1 DEF CleanInv, JobInv, Busy
    <2>. QED
      BY <2>1, <2>2, <2>3 DEF CleanInv
  <1>. QED
    BY <1>1, <1>4, <1>6, <1>7, <1>8, <1>9, <1>10, <1>11, <1>12 DEF Next, CampaignActs

(* The program ends only when no campaign attacks or downloads, and none   *)
(* begins afterwards; unless it was interrupted, no temporary file is left *)
(* of any list.                                                            *)
THEOREM CampaignsEndClean == Spec => []EndsClean
  <1>1. CampInv /\ CleanInv => EndsClean
    <2> SUFFICES ASSUME CampInv, CleanInv, main = "ended"
                 PROVE  /\ \A c \in Campaigns : ~UnderWay(c) /\ job[c] = W!Idle /\ ~Due(c)
                        /\ exit # 130 => \A l \in Lists : tmp[l] = W!Absent
      BY DEF EndsClean
    <2>1. \A c \in Campaigns : ~UnderWay(c)
      BY DEF CleanInv, Quiet
    <2>2. \A c \in Campaigns : job[c] = W!Idle
      BY <2>1 DEF CleanInv, JobInv, UnderWay, Ended
    <2>3. exit # 130 => \A l \in Lists : tmp[l] = W!Absent
      <3>1. \A c \in Campaigns : job[c].list \notin Lists
        BY <2>2, CampaignsAssumption DEF W!Idle
      <3>. QED
        BY <3>1 DEF CleanInv, TmpOwned
    <2>. QED
      BY <2>1, <2>2, <2>3 DEF Due
  <1>. QED
    BY CampInit, CampStep, AccountInit, AccountStep, CleanInit, CleanStep, <1>1, PTL DEF Spec

(***************************************************************************)
(* The default lists.                                                      *)
(***************************************************************************)

(* No one is asked, and the default list of the campaign was always there. *)
Content(c) ==
  /\ ~options.terminal /\ ~options.full
  /\ Protocol[c] # "http" /\ DefaultList(c) \in KeptLists

(* The default list comes first and is found, so the large ones stay out.  *)
Frugal(c) ==
  /\ "full" \notin camp[c].ran /\ camp[c].stage # "full"
  /\ camp[c].stage = "resolve" =>
       \/ DefaultList(c) \in camp[c].got
       \/ camp[c].todo # <<>> /\ Head(camp[c].todo) = DefaultList(c) /\ ~Busy(c)

FrugalInv ==
  /\ \A l \in KeptLists : file[l] # W!Absent
  /\ \A c \in Campaigns : Content(c) => Frugal(c)

(* A list that is there is never taken away: a rename puts another in its  *)
(* place, and a write only adds to it.                                     *)
LEMMA ListsStay ==
  ASSUME W!TypeOK, [W!Next]_(W!vars), NEW l \in Lists, file[l] # W!Absent
  PROVE  file'[l] # W!Absent
  <1>t. /\ file \in [Lists -> W!Contents \cup {W!Absent}]
        /\ job \in [Campaigns -> JobType]
    BY DEF W!TypeOK, JobType
  <1>1. ASSUME NEW w \in Campaigns, W!Write(w) PROVE file'[l] # W!Absent
    <2>1. \A contents, n : n \in Nat \ {0} /\ contents # W!Absent =>
            W!Plus(contents, n) # W!Absent
      BY DEF W!Plus, W!Absent
    <2>2. job[w].done + 1 \in Nat \ {0}
      BY <1>t, ListsAssumed DEF JobType, W!WordlistsAssumption
    <2>3. \/ file' = file
          \/ file' = [file EXCEPT ![job[w].list] = W!Plus(file[job[w].list], job[w].done + 1)]
      BY <1>1 DEF W!Write
    <2>. QED
      BY <1>t, <2>1, <2>2, <2>3
  <1>2. ASSUME NEW w \in Campaigns, W!Rename(w) PROVE file'[l] # W!Absent
    BY <1>2, <1>t DEF W!Rename
  <1>3. CASE \/ \E w \in Campaigns :
                  \/ \E k \in Lists : W!Cached(w, k) \/ W!Begin(w, k)
                  \/ W!Open(w) \/ W!RenameFails(w) \/ W!Fail(w) \/ W!Abandon(w)
             \/ UNCHANGED W!vars
    BY <1>3 DEF W!Cached, W!Begin, W!Open, W!RenameFails, W!Fail, W!Abandon, W!vars
  <1>. QED
    BY <1>1, <1>2, <1>3 DEF W!Next

(* A content campaign stays frugal, whatever it does.                      *)
LEMMA FrugalActs ==
  ASSUME CampInv, NEW c \in Campaigns, CampaignActs(c), JobInv(c),
         DefaultList(c) \in KeptLists => file[DefaultList(c)] # W!Absent,
         Content(c), Frugal(c)
  PROVE  Frugal(c)'
  <1> DEFINE D == DefaultList(c)
  <1>t. camp \in [Campaigns -> CampType] /\ camp[c] \in CampType
    BY DEF CampInv
  <1>d. DefaultList(c)' = D
    BY DEF DefaultList
  <1>e. Busy(c) => job[c] # W!Idle
    BY DEF Busy, W!Idle
  <1>. HIDE DEF D
  <1>1. ASSUME NEW banner \in Banners, Reachable(c, banner) PROVE Frugal(c)'
    <2>1. /\ camp'[c].stage = "resolve" /\ camp'[c].ran = {} /\ camp'[c].todo = Needs(c)
          /\ lists' = lists /\ camp[c].stage = "planned"
      BY <1>1, <1>t DEF Reachable, Step, Change, Fresh, Due
    <2>2. Needs(c) # <<>> /\ Head(Needs(c)) = D
      BY DEF Content, Needs, D
    <2>3. ~Busy(c)'
      BY <1>e, <2>1 DEF lists, JobInv, Busy
    <2>. QED
      BY <1>d, <2>1, <2>2, <2>3 DEF Frugal
  <1>2. ASSUME camp'[c].stage \notin {"resolve", "full"},
               camp'[c].ran \subseteq camp[c].ran \cup {"default"}
        PROVE  Frugal(c)'
    BY <1>2 DEF Frugal
  <1>3. CASE \/ Unreachable(c) \/ SkipHydra(c) \/ Report(c) \/ Raise(c)
             \/ \E weight \in Weights : Compare(c, weight) \/ Loot(c, weight)
             \/ \E haul \in Hauls : Spray(c, haul)
    <2>1. /\ camp'[c].ran = camp[c].ran
          /\ camp'[c].stage \in {"judge", "loot", "report", "done", "raised"}
      <3>1. CASE Unreachable(c) \/ SkipHydra(c) \/ Report(c) \/ Raise(c)
        <4>1. \E stage \in {"judge", "done", "raised"} :
                camp' = [camp EXCEPT ![c] = [camp[c] EXCEPT !.stage = stage]]
          BY <3>1 DEF Unreachable, SkipHydra, Report, Raise, Step, Change
        <4>2. PICK stage \in {"judge", "done", "raised"} :
                camp'[c] = [camp[c] EXCEPT !.stage = stage]
          BY <1>t, <4>1
        <4>3. \A k \in CampType : /\ [k EXCEPT !.stage = stage].ran = k.ran
                                  /\ [k EXCEPT !.stage = stage].stage = stage
          BY DEF CampType
        <4>. QED
          BY <1>t, <4>2, <4>3
      <3>2. CASE \E weight \in Weights : Compare(c, weight) \/ Loot(c, weight)
        <4>1. PICK weight \in Weights : Compare(c, weight) \/ Loot(c, weight)
          BY <3>2
        <4>2. CASE Compare(c, weight)
          BY <1>t, <4>2 DEF Compare, Step, Change, CampType
        <4>3. CASE Loot(c, weight)
          BY <1>t, <4>3 DEF Loot, Step, Change, CampType
        <4>. QED
          BY <4>1, <4>2, <4>3
      <3>3. CASE \E haul \in Hauls : Spray(c, haul)
        BY <1>t, <3>3 DEF Spray, Step, Change, CampType
      <3>. QED
        BY <1>3, <3>1, <3>2, <3>3
    <2>. QED
      BY <1>2, <2>1
  <1>4. CASE Judge(c)
    <2>1. camp[c].haul \in {"none", "few", "many"}
      BY <1>t DEF CampType, Hauls
    <2>2. camp'[c].ran = camp[c].ran /\ camp'[c].stage \in {"loot", "compare"}
      BY <1>4, <1>t, <2>1 DEF Judge, Step, Change, CampType
    <2>. QED
      BY <1>2, <2>2
  <1>5. ASSUME NEW haul \in Hauls, TryDefaults(c, haul) PROVE Frugal(c)'
    <2>1. camp'[c].ran = camp[c].ran \cup {"default"} /\ camp'[c].stage \in {"ask", "judge"}
      BY <1>5, <1>t DEF TryDefaults, Step, Change, CampType
    <2>. QED
      BY <1>2, <2>1
  <1>6. ASSUME NEW yes \in BOOLEAN, Answer(c, yes) PROVE Frugal(c)'
    <2>1. ~yes
      BY <1>6 DEF Answer, MayAgree, Content
    <2>2. camp'[c].ran = camp[c].ran /\ camp'[c].stage = "judge"
      BY <1>6, <1>t, <2>1 DEF Answer, Step, Change, CampType
    <2>. QED
      BY <1>2, <2>2
  <1>7. ASSUME NEW haul \in Hauls, TryAll(c, haul) PROVE FALSE
    <2>1. Ready(c) /\ DefaultList(c) \notin camp[c].got
      BY <1>7 DEF TryAll, Frugal, TriesDefaults, Content
    <2>. QED
      BY <2>1 DEF Ready, Frugal
  <1>8. ASSUME camp'[c].ran = camp[c].ran, camp'[c].stage = camp[c].stage,
               D \in camp'[c].got \/ camp[c].stage # "resolve"
        PROVE  Frugal(c)'
    BY <1>8, <1>d DEF Frugal
  <1>9. CASE Resolve(c)
    <2>1. /\ camp'[c].ran = camp[c].ran /\ camp'[c].stage = camp[c].stage
          /\ camp'[c].got = camp[c].got \cup {Head(camp[c].todo)}
      BY <1>9, <1>t DEF Resolve, Change, Resolved, CampType
    <2>. QED
      BY <1>8, <2>1 DEF Frugal, D
  <1>10. ASSUME camp'[c] = camp[c], D \in camp[c].got \/ camp[c].stage # "resolve"
         PROVE  Frugal(c)'
    BY <1>8, <1>10
  <1>11. CASE Fetch(c)
    <2>1. camp' = camp /\ file[Head(camp[c].todo)] = W!Absent
      BY <1>11 DEF Fetch, W!Begin
    <2>2. D \in camp[c].got \/ camp[c].stage # "resolve"
      BY <2>1 DEF Content, Frugal, D
    <2>. QED
      BY <1>10, <2>1, <2>2
  <1>12. CASE Fetching(c) \/ Fetched(c) \/ FetchFails(c)
    <2>1. Busy(c)
      BY <1>12 DEF Fetching, Fetched, FetchFails, W!Open, W!Write, W!RenameFails,
                   W!Rename, W!Fail, W!Retrieved, Busy
    <2>2. D \in camp[c].got \/ camp[c].stage # "resolve"
      BY <2>1 DEF Frugal, D
    <2>3. /\ camp'[c].ran = camp[c].ran /\ camp'[c].stage = camp[c].stage
          /\ camp[c].got \subseteq camp'[c].got
      <3>1. CASE Fetching(c)
        BY <3>1 DEF Fetching
      <3>2. CASE Fetched(c)
        BY <1>t, <3>2 DEF Fetched, Change, Resolved, CampType
      <3>3. CASE FetchFails(c)
        BY <1>t, <3>3 DEF FetchFails, Change, NotResolved, CampType
      <3>. QED
        BY <1>12, <3>1, <3>2, <3>3
    <2>. QED
      BY <1>8, <2>2, <2>3
  <1>. QED
    BY <1>1, <1>3, <1>4, <1>5, <1>6, <1>7, <1>9, <1>11, <1>12 DEF CampaignActs

(* Every step keeps it so.                                                 *)
LEMMA FrugalStep ==
  /\ CampInv /\ CampInv' /\ [W!Next]_(W!vars)
  /\ AccountInv /\ CleanInv /\ FrugalInv /\ [Next]_vars
  => FrugalInv'
  <1> SUFFICES ASSUME CampInv, CampInv', [W!Next]_(W!vars), AccountInv, CleanInv, FrugalInv,
                      [Next]_vars
               PROVE  FrugalInv'
    OBVIOUS
  <1>. HIDE DEF W!Next, W!vars
  <1>1. \A l \in KeptLists : file'[l] # W!Absent
    BY CampaignsAssumption, ListsStay DEF CampInv, FrugalInv
  <1>2. options' = options
    BY DEF Next, StartFails, Discover, Single, Start, Reachable, Unreachable, Resolve, Fetch,
           Fetching, Fetched, FetchFails, Spray, SkipHydra, TryDefaults, Answer, TryAll, Judge,
           Compare, Loot, Report, Raise, Finish, Crash, Interrupt, Interrupted, Step, Change, vars
  <1>3. \A c \in Campaigns : Content(c)' <=> Content(c)
    BY <1>2 DEF Content, DefaultList
  <1>4. ASSUME NEW c \in Campaigns, Frugal(c), Busy(c)' => Busy(c),
               \/ camp'[c] = camp[c]
               \/ camp'[c].stage = "raised" /\ camp'[c].ran = camp[c].ran
        PROVE  Frugal(c)'
    BY <1>4 DEF Frugal, DefaultList
  <1>5. ASSUME NEW c \in Campaigns, CampaignActs(c)
        PROVE  \A d \in Campaigns : Content(d) => Frugal(d)'
    <2>1. Content(c) => Frugal(c)'
      BY <1>5, FrugalActs DEF FrugalInv, CleanInv
    <2>2. ASSUME NEW d \in Campaigns \ {c}, Content(d) PROVE Frugal(d)'
      <3>1. camp'[d] = camp[d]
        BY <1>5, <2>2, ActsAlone
      <3>2. job'[d].list = job[d].list
        BY <1>5, <2>2, ActsOnLists DEF CleanInv
      <3>. QED
        BY <1>4, <2>2, <3>1, <3>2 DEF FrugalInv, Busy
    <2>. QED
      BY <2>1, <2>2
  <1>6. CASE \/ \E code \in {1, 2} : StartFails(code)
             \/ \E found \in SUBSET Campaigns : Discover(found)
             \/ \E c \in Campaigns : Single(c)
             \/ Finish \/ Crash \/ Interrupted \/ UNCHANGED vars
    <2>1. camp' = camp /\ job' = job
      BY <1>6 DEF StartFails, Discover, Single, Start, Finish, Crash, Interrupted, vars, lists
    <2>. QED
      BY <1>1, <1>3, <1>4, <2>1 DEF FrugalInv, Busy
  <1>7. CASE Interrupt
    <2>1. \A c \in Campaigns :
            \/ camp'[c] = camp[c]
            \/ camp'[c].stage = "raised" /\ camp'[c].ran = camp[c].ran
      BY <1>7 DEF Interrupt, CampInv, CampType
    <2>2. \A c \in Campaigns : Busy(c)' => Busy(c)
      <3>1. job' = job \/ \E c \in Campaigns : W!Abandon(c)
        BY <1>7 DEF Interrupt, lists
      <3>. QED
        BY <3>1 DEF W!Abandon, W!Idle, Busy, CampInv, W!TypeOK
    <2>. QED
      BY <1>1, <1>3, <1>4, <2>1, <2>2 DEF FrugalInv
  <1>. QED
    BY <1>1, <1>3, <1>5, <1>6, <1>7 DEF FrugalInv, Next, CampaignActs

(* Without a terminal and --full-wordlist, a campaign whose default list   *)
(* is in the cache at the start never uses the large lists.                *)
THEOREM CampaignsFrugal == Spec => []CachedDefaultsSuffice
  <1>1. Init => FrugalInv
    <2> SUFFICES ASSUME Init PROVE FrugalInv
      OBVIOUS
    <2>1. W!Whole # W!Absent
      BY CampaignsAssumption DEF W!Whole, W!Absent
    <2>2. \A l \in KeptLists : file[l] # W!Absent
      BY <2>1 DEF Init
    <2>3. \A c \in Campaigns : Frugal(c)
      BY DEF Init, Fresh, Frugal
    <2>. QED
      BY <2>2, <2>3 DEF FrugalInv
  <1>2. FrugalInv => CachedDefaultsSuffice
    BY DEF FrugalInv, CachedDefaultsSuffice, Content, Frugal
  <1>. QED
    BY CampInit, CampStep, AccountInit, AccountStep, CleanInit, CleanStep, FrugalStep, <1>1, <1>2,
       PTL DEF Spec

=============================================================================
