------------------------------ MODULE Wordlists ------------------------------
(***************************************************************************)
(* The lists of user names, passwords and paths of the attacker            *)
(* (attacker/wordlists.py): fetched from SecLists when first needed, kept  *)
(* in a directory of the program.  _download retrieves a list into a       *)
(* temporary file, whose name depends on the list alone, and renames it.   *)
(* Campaigns that run in parallel are threads which may want the same list *)
(* at once, and then share the temporary file.                             *)
(*                                                                         *)
(* A list is Blocks blocks long.  Contents are the set of blocks written,  *)
(* for one who truncates the file takes blocks away from another who goes  *)
(* on writing behind them.  Names are told from files: a rename or an      *)
(* unlink does not stop one who has the file open (`at`).                  *)
(***************************************************************************)
EXTENDS Naturals

CONSTANTS
  Workers,  \* threads that need lists
  Lists,
  Blocks,   \* the length of a list
  None      \* no list

Whole == 1 .. Blocks

Contents == SUBSET Whole

(* No such file: not the contents of one. *)
Absent == {0}

(* What is assumed of the constants, where this module is instantiated. *)
WordlistsAssumption ==
  /\ Blocks \in Nat \ {0}
  /\ None \notin Lists

VARIABLES
  file,   \* the lists in WORDLISTS_DIR
  tmp,    \* their temporary files
  job,    \* the download a worker is in: which list, where its open file is
          \* now, and how many blocks it has written
  shared  \* the lists two workers have downloaded at once (history)

vars == <<file, tmp, job, shared>>

(* "unopened": still connecting; "tmp", "file", "lost": the file it writes *)
(* has the temporary name, the final name, none; "failed": the rename did. *)
Places == {"unopened", "tmp", "file", "lost", "failed"}

Idle == [list |-> None, at |-> "unopened", done |-> 0]

Downloading(l) == {w \in Workers : job[w].list = l}

Init ==
  /\ file \in [Lists -> {Absent, Whole}]
  /\ tmp = [l \in Lists |-> Absent]
  /\ job = [w \in Workers |-> Idle]
  /\ shared = {}

(* ensure_...: the list is there. *)
Cached(w, l) ==
  /\ job[w] = Idle
  /\ file[l] # Absent
  /\ UNCHANGED vars

(* ensure_...: it is not, and _download begins. *)
Begin(w, l) ==
  /\ job[w] = Idle
  /\ file[l] = Absent
  /\ job' = [job EXCEPT ![w].list = l]
  /\ shared' = IF Downloading(l) = {} THEN shared ELSE shared \cup {l}
  /\ UNCHANGED <<file, tmp>>

(* The server has answered: urlretrieve opens the temporary file ("wb"). *)
Open(w) ==
  LET l == job[w].list
  IN  /\ l # None
      /\ job[w].at = "unopened"
      /\ tmp' = [tmp EXCEPT ![l] = {}]
      /\ job' = [job EXCEPT ![w].at = "tmp"]
      /\ UNCHANGED <<file, shared>>

Plus(contents, n) == IF contents = Absent THEN Absent ELSE contents \cup {n}

(* The next block arrives and is written to the file w has open. *)
Write(w) ==
  LET l == job[w].list
      n == job[w].done + 1
  IN  /\ l # None
      /\ job[w].at \in {"tmp", "file", "lost"}
      /\ n <= Blocks
      /\ job' = [job EXCEPT ![w].done = n]
      /\ tmp' = IF job[w].at = "tmp" THEN [tmp EXCEPT ![l] = Plus(@, n)] ELSE tmp
      /\ file' = IF job[w].at = "file" THEN [file EXCEPT ![l] = Plus(@, n)] ELSE file
      /\ UNCHANGED shared

Retrieved(w) ==
  /\ job[w].list # None
  /\ job[w].at \in {"tmp", "file", "lost"}
  /\ job[w].done = Blocks

(* The job of w ends; the files others have open change their names. *)
JobsAfter(w, NewPlace(_)) ==
  [v \in Workers |->
     IF v = w THEN Idle
     ELSE IF job[v].list = job[w].list THEN [job[v] EXCEPT !.at = NewPlace(@)]
     ELSE job[v]]

Renamed(place) ==
  CASE place = "tmp"  -> "file"
    [] place = "file" -> "lost"
    [] OTHER          -> place

Unlinked(place) == IF place = "tmp" THEN "lost" ELSE place

(* tmp.replace(dest): whichever file has the temporary name by now becomes *)
(* the list.                                                               *)
Rename(w) ==
  LET l == job[w].list
  IN  /\ Retrieved(w)
      /\ tmp[l] # Absent
      /\ file' = [file EXCEPT ![l] = tmp[l]]
      /\ tmp' = [tmp EXCEPT ![l] = Absent]
      /\ job' = JobsAfter(w, Renamed)
      /\ UNCHANGED shared

(* FileNotFoundError: another has renamed or removed the temporary file.   *)
RenameFails(w) ==
  /\ Retrieved(w)
  /\ tmp[job[w].list] = Absent
  /\ job' = [job EXCEPT ![w].at = "failed"]
  /\ UNCHANGED <<file, tmp, shared>>

(* tmp.unlink(missing_ok=True) *)
Cleaned(l) == Absent

(* The connection failed, or the rename: _download returns False. *)
Fail(w) ==
  LET l == job[w].list
  IN  /\ l # None
      /\ job[w].at = "failed" \/ job[w].done < Blocks
      /\ tmp' = [tmp EXCEPT ![l] = Cleaned(l)]
      /\ job' = JobsAfter(w, Unlinked)
      /\ UNCHANGED <<file, shared>>

(* KeyboardInterrupt, which _download does not catch. *)
Abandon(w) ==
  /\ job' = [job EXCEPT ![w] = Idle]
  /\ UNCHANGED <<file, tmp, shared>>

Next ==
  \E w \in Workers :
    \/ \E l \in Lists : Cached(w, l) \/ Begin(w, l)
    \/ Open(w)
    \/ Write(w)
    \/ Rename(w)
    \/ RenameFails(w)
    \/ Fail(w)
    \/ Abandon(w)

Spec == Init /\ [][Next]_vars

----------------------------------------------------------------------------
(* The type of every variable. *)
TypeOK ==
  /\ file \in [Lists -> Contents \cup {Absent}]
  /\ tmp \in [Lists -> Contents \cup {Absent}]
  /\ job \in [Workers -> [list : Lists \cup {None}, at : Places, done : 0 .. Blocks]]
  /\ shared \subseteq Lists

(* A list that no two workers download at once is whole whenever it is     *)
(* there: neither failures nor interrupts put a part of a list, or the     *)
(* rest of an earlier attempt, where later runs would take it for whole.   *)
SpoiltOnlyIfShared ==
  \A l \in Lists \ shared : file[l] \in {Absent, Whole}

(* What the names "tmp" and "replace" are for: a list in the cache is      *)
(* whole (test_wordlists.py, test_download_failure_cleans_up).             *)
CachedIsWhole == \A l \in Lists : file[l] \in {Absent, Whole}

============================================================================
