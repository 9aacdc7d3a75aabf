------------------------------ MODULE WebSpray ------------------------------
(***************************************************************************)
(* The web attack of the attacker (attacks/web_attacks.py, phase 4 of      *)
(* attacks/http_scan.py) on three kinds of target: the HTTP honeypot of    *)
(* this repository (routes/credentials.py), a trap that lets everybody in, *)
(* and a wall that lets nobody in.  Any request may be lost.  A text is    *)
(* the set of the words in it that a regular expression looks for.         *)
(***************************************************************************)
EXTENDS Naturals, Sequences, FiniteSets, SequencesExt

CONSTANTS
  Jobs,                  \* what the attack is given, see Job
  CmsPaths, SensitivePaths, COMMON_LOGIN_PATHS, Injections,
  CMS_LOGIN_VECTORS,     \* of WordPress
  GENERIC_FIELD_COMBOS,  \* names of the fields of a login form
  ALLOWED_WP_CREDENTIALS,
  FAKE_USERS,            \* what the honeypot says its users are
  Defaults,              \* known default passwords
  MANY_CREDENTIALS, SUSPECT_THRESHOLD,
  MAX_DISCOVERED_PATHS

Sites == {"laruche", "trap", "wall"}
Root == "/"

\* attackable: is a CMS recognised?  report: what dirsearch found, in order.
Job == [target : Sites, attackable : BOOLEAN, usernames : Seq(STRING),
        passwords : Seq(STRING), max_attempts : Nat, report : Seq(STRING)]

ASSUME InputsAssumption == Jobs \subseteq Job /\ MAX_DISCOVERED_PATHS \in Nat \ {0}

LoginVector == [path : STRING, fields : STRING \X STRING,
                failures : SUBSET STRING, successes : SUBSET STRING]

\* The tables repeat nothing.  What marks a success is neither a failure nor in what
\* the honeypot answers to a refused login, and WordPress's own form is a vector.
ASSUME VectorsAssumption ==
  /\ CMS_LOGIN_VECTORS \in Seq(LoginVector)
  /\ \A v, w \in DOMAIN CMS_LOGIN_VECTORS :
       /\ CMS_LOGIN_VECTORS[v].path = CMS_LOGIN_VECTORS[w].path
       /\ CMS_LOGIN_VECTORS[v].fields = CMS_LOGIN_VECTORS[w].fields
       => v = w
  /\ GENERIC_FIELD_COMBOS \in Seq(STRING \X STRING) /\ IsInjective(GENERIC_FIELD_COMBOS)
  /\ COMMON_LOGIN_PATHS \in Seq(STRING) /\ IsInjective(COMMON_LOGIN_PATHS)
  /\ FAKE_USERS \in Seq(STRING)
  /\ \A v \in Range(CMS_LOGIN_VECTORS) :
       v.successes \cap (v.failures \cup {"login_error", "faultCode", "denied"}) = {}
  /\ \E v \in Range(CMS_LOGIN_VECTORS) :
       v.path = "/wp-login.php" /\ v.fields = <<"log", "pwd">> /\ v.successes = {}
  /\ SUSPECT_THRESHOLD \in 0 .. 85

VARIABLES
  job,
  phase,
  todo,      \* the paths that are still to be requested in this phase
  panels,    \* the login pages discovered
  plan,      \* the pairs to try
  vector,    \* the place of the login vector in Vectors
  attempts,  \* in this vector
  budget,    \* what is left for this vector and, in a generic attack, the next
  login_attempts,
  found_credentials,  \* the pairs that were accepted, and by which vector
  lost,      \* was the answer to a login lost?
  weight     \* what the logins add to the verdict

sprayVars == <<job, phase, todo, panels, plan, vector, attempts, budget, login_attempts,
          found_credentials, lost, weight>>

Smaller(a, b) == IF a <= b THEN a ELSE b
First(n, seq) == SubSeq(seq, 1, Smaller(n, Len(seq)))
Without(seq, known) == SelectSeq(seq, LAMBDA x : x \notin known)

\* Every element once, where it stands first: dict.fromkeys, `not in paths`.
Distinct(seq) ==
  FoldLeft(LAMBDA kept, x : IF x \in Range(kept) THEN kept ELSE Append(kept, x), <<>>, seq)

\* The pairs of each of users with each of words, user by user.
Combinations(users, words) ==
  [i \in 1 .. Len(users) * Len(words) |->
     <<users[((i - 1) \div Len(words)) + 1], words[((i - 1) % Len(words)) + 1]>>]

-----------------------------------------------------------------------------
(***************************************************************************)
(* What targets answer.                                                    *)
(***************************************************************************)
Response(status, text, cookie, location) ==
  [status |-> status, text |-> text, cookie |-> cookie, location |-> location]

Lost == Response("none", {}, FALSE, {})

\* The honeypot knows a form by the names of its fields.
pick(fields, names, value) == IF fields \in names THEN value ELSE ""

\* Mutant of wp_login_post: it redirects to wp-login.php?redirect_to=...
wp_login_postBack(fields, pair) == Response("redirect", {}, TRUE, {"login"})

wp_login_post(fields, pair) ==
  LET username == pick(fields[1], {"log", "username", "user", "pma_username", "email"}, pair[1])
      password == pick(fields[2], {"pwd", "password", "pass", "pma_password"}, pair[2])
  IN IF <<username, password>> \in ALLOWED_WP_CREDENTIALS
     THEN Response("redirect", {}, TRUE, {})
     ELSE Response("ok", {"login_error"}, FALSE, {})

LaRuche(v, pair) ==
  CASE v.path = "/wp-login.php" -> wp_login_post(v.fields, pair)
    [] v.path = "/xmlrpc.php" -> Response("ok", {"faultCode"}, FALSE, {})
    [] v.path = "/admin/login" -> Response("ok", {"denied"}, FALSE, {})
    [] OTHER -> Response("missing", {}, FALSE, {})

Trap(v) ==
  IF v.successes # {} THEN {Response("ok", v.successes, FALSE, {})}
  ELSE {Response("redirect", {}, TRUE, {}), Response("ok", {}, TRUE, {})}

Replies(v, pair) ==
  {Lost} \cup CASE job.target = "laruche" -> {LaRuche(v, pair)}
                [] job.target = "trap" -> Trap(v)
                [] job.target = "wall" -> {Response("ok", {"denied"}, FALSE, {})}

-----------------------------------------------------------------------------
(***************************************************************************)
(* The attack.                                                             *)
(***************************************************************************)
\* Pairs of the lists, user by user, no more than max_attempts (but one).
build_credentials(j) ==
  IF j.usernames = <<>> \/ j.passwords = <<>> THEN <<>>
  ELSE First(IF j.max_attempts = 0 THEN 1 ELSE j.max_attempts,
             Combinations(j.usernames, j.passwords))

\* What the report names, once: the root is as good as named.
parse_dirsearch_json(report) ==
  First(MAX_DISCOVERED_PATHS, Tail(Distinct(<<Root>> \o report)))

SprayInit ==
  /\ job \in Jobs
  /\ phase = "probe"
  /\ todo = IF job.attackable
            THEN CmsPaths \o Without(parse_dirsearch_json(job.report), Range(CmsPaths))
            ELSE SensitivePaths
  /\ panels = <<>>
  /\ plan = build_credentials(job)
  /\ vector = 1
  /\ attempts = 0
  /\ budget = job.max_attempts
  /\ login_attempts = 0
  /\ found_credentials = <<>>
  /\ lost = FALSE
  /\ weight = 0

\* _probe_paths, and the injections: a request each, whatever comes back.
Probe ==
  /\ phase \in {"probe", "inject"}
  /\ todo # <<>>
  /\ todo' = Tail(todo)
  /\ UNCHANGED <<job, phase, panels, plan, vector, attempts, budget, login_attempts,
                 found_credentials, lost, weight>>

\* Mutant of Candidates: a path of the report that is well known is a candidate again.
CandidatesAgain == COMMON_LOGIN_PATHS \o parse_dirsearch_json(job.report)

Candidates == Distinct(COMMON_LOGIN_PATHS \o parse_dirsearch_json(job.report))

Probed ==
  /\ phase = "probe"
  /\ todo = <<>>
  /\ IF job.attackable THEN phase' = "users" /\ todo' = <<>>
     ELSE phase' = "discover" /\ todo' = Candidates
  /\ UNCHANGED <<job, panels, plan, vector, attempts, budget, login_attempts,
                 found_credentials, lost, weight>>

cred_plan(users) ==
  Distinct(Combinations(users, [i \in 1 .. Len(plan) |-> plan[i][2]]) \o plan)

\* The users that are leaked come first, with every password.
enumerate_wordpress_users(users) ==
  /\ phase = "users"
  /\ users \in {<<>>, FAKE_USERS}
  /\ phase' = "spray"
  /\ plan' = cred_plan(users)
  /\ UNCHANGED <<job, todo, panels, vector, attempts, budget, login_attempts,
                 found_credentials, lost, weight>>

\* _looks_like_login: 401, 403, or a form that asks for a password.
Discover(looks_like_login) ==
  /\ phase = "discover"
  /\ todo # <<>>
  /\ todo' = Tail(todo)
  /\ panels' = IF looks_like_login THEN Append(panels, Head(todo)) ELSE panels
  /\ UNCHANGED <<job, phase, plan, vector, attempts, budget, login_attempts,
                 found_credentials, lost, weight>>

Discovered ==
  /\ phase = "discover"
  /\ todo = <<>>
  /\ phase' = "spray"
  /\ UNCHANGED <<job, todo, panels, plan, vector, attempts, budget, login_attempts,
                 found_credentials, lost, weight>>

\* Every login page with every convention for the names of its fields.
Vectors ==
  IF job.attackable THEN CMS_LOGIN_VECTORS
  ELSE LET forms == Combinations(panels, GENERIC_FIELD_COMBOS) IN
       [i \in 1 .. Len(forms) |->
          [path |-> forms[i][1], fields |-> forms[i][2], failures |-> {}, successes |-> {}]]

GENERIC_FAILURE == {"login_error", "denied"}

login_succeeded(r, v) ==
  /\ r.status # "none"
  /\ r.text \cap v.failures = {}
  /\ IF v.successes # {} THEN r.text \cap v.successes # {}
     ELSE /\ r.cookie
          /\ \/ r.status = "redirect" /\ "login" \notin r.location
             \/ r.status = "ok" /\ r.text \cap GENERIC_FAILURE = {}

\* The next attempt of _spray, if there is one.
Spraying ==
  /\ phase = "spray"
  /\ vector <= Len(Vectors)
  /\ attempts < Smaller(budget, Len(plan))

\* Mutant of Tried: a vector is left at the first hit.
TriedOnce(r) ==
  IF login_succeeded(r, Vectors[vector]) THEN Len(plan) ELSE attempts + 1

\* The attempts after one more: whatever it brought, spraying goes on.
Tried(r) == attempts + 1

Attempt ==
  /\ Spraying
  /\ LET v == Vectors[vector]
         pair == plan[attempts + 1]
     IN \E r \in Replies(v, pair) :
          /\ attempts' = Tried(r)
          /\ lost' = (lost \/ r = Lost)
          /\ found_credentials' =
               IF login_succeeded(r, v)
               THEN Append(found_credentials, [vector |-> vector, pair |-> pair])
               ELSE found_credentials
  /\ UNCHANGED <<job, phase, todo, panels, plan, vector, budget, login_attempts, weight>>

\* Mutant of BudgetLeft: a generic attack, too, has its limit per vector.
BudgetLeftWhole == budget

\* Each vector of a CMS has a limit of its own; those of a generic attack share one.
BudgetLeft == IF job.attackable THEN budget ELSE budget - attempts

VectorEnds ==
  /\ phase = "spray"
  /\ vector <= Len(Vectors)
  /\ ~Spraying
  /\ vector' = vector + 1
  /\ attempts' = 0
  /\ login_attempts' = login_attempts + attempts
  /\ budget' = BudgetLeft
  /\ UNCHANGED <<job, phase, todo, panels, plan, found_credentials, lost, weight>>

Sprayed ==
  /\ phase = "spray"
  /\ vector > Len(Vectors)
  /\ phase' = "inject"
  /\ todo' = IF job.attackable THEN <<>> ELSE Injections
  /\ UNCHANGED <<job, panels, plan, vector, attempts, budget, login_attempts,
                 found_credentials, lost, weight>>

Found == {found_credentials[i].pair : i \in DOMAIN found_credentials}

Passwords(user) == {pair[2] : pair \in {p \in Found : p[1] = user}}

\* analyze_logins: one user with several passwords, or too many pairs; else 45 for
\* each known default.
analyze_logins ==
  /\ phase = "inject"
  /\ todo = <<>>
  /\ phase' = "done"
  /\ weight' =
       IF \/ \E user \in {p[1] : p \in Found} : Cardinality(Passwords(user)) >= 2
          \/ Cardinality(Found) >= MANY_CREDENTIALS
       THEN 85
       ELSE Smaller(45 * Cardinality({p \in Found : p[2] \in Defaults}), 100)
  /\ UNCHANGED <<job, todo, panels, plan, vector, attempts, budget, login_attempts,
                 found_credentials, lost>>

SprayNext ==
  \/ Probe \/ Probed
  \/ \E users \in {<<>>, FAKE_USERS} : enumerate_wordpress_users(users)
  \/ \E looks_like_login \in BOOLEAN : Discover(looks_like_login)
  \/ Discovered
  \/ Attempt \/ VectorEnds \/ Sprayed
  \/ analyze_logins

SpraySpec == SprayInit /\ [][SprayNext]_sprayVars

-----------------------------------------------------------------------------
\* However the lists, the limit and the login pages come out, the attack stops no
\* sooner than --max-login-attempts and the pairs make it, and tries no pair more
\* often than there are forms; a generic attack keeps to the limit over all its forms.
AttemptsExact ==
  phase = "done" =>
    /\ login_attempts <= Len(Vectors) * Len(plan)
    /\ login_attempts >= Smaller(job.max_attempts, Len(Vectors) * Len(plan))
    /\ ~job.attackable => login_attempts <= job.max_attempts

\* "cap on credential-spray attempts" (docs/ATTACKER.md:150, of --max-login-attempts):
\* whatever the target, an attack makes no more attempts than that.
LimitCapsAttack == phase = "done" => login_attempts <= job.max_attempts

Login(found) ==
  <<Vectors[found.vector].path, Vectors[found.vector].fields, found.pair>>

\* No page takes a pair twice in the same fields, though users found and lists, known
\* paths and discovered ones overlap; on a trap, which takes every pair, none is tried
\* twice.  A generic attack does repeat what a list repeats.
NoLoginTwice ==
  job.attackable \/ (IsInjective(job.usernames) /\ IsInjective(job.passwords)) =>
    \A i, j \in DOMAIN found_credentials :
      Login(found_credentials[i]) = Login(found_credentials[j]) => i = j

\* A target that lets everybody in is taken for a honeypot once two passwords of one
\* user could be tried ("Keep spraying: do not stop at the first hit").
TrapIsSuspected ==
  /\ phase = "done" /\ job.target = "trap" /\ ~lost
  /\ Len(job.passwords) >= 2 /\ job.passwords[1] # job.passwords[2]
  /\ job.usernames # <<>> /\ job.max_attempts >= 2
  /\ Len(Vectors) > 0
  => weight >= SUSPECT_THRESHOLD

\* The honeypot's weak credentials are found, and nothing else: it is neither taken
\* for a trap by its answers alone nor for a wall.
BaitIsFound ==
  phase = "done" /\ job.target = "laruche" =>
    /\ Found \subseteq ALLOWED_WP_CREDENTIALS
    /\ job.attackable /\ ~lost =>
         ALLOWED_WP_CREDENTIALS \cap Range(First(job.max_attempts, plan)) \subseteq Found
=============================================================================
