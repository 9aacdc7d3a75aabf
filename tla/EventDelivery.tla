--------------------------- MODULE EventDelivery ---------------------------
(***************************************************************************)
(* What the honeypots and the analyzer together promise about events: an   *)
(* event is emitted once, may get recorded in a raw log, and may then be   *)
(* enriched; nothing is ever taken back, and nothing is enriched that no   *)
(* honeypot emitted.                                                       *)
(***************************************************************************)
CONSTANT Ids   \* the ids of events

VARIABLES
  emitted,     \* events handed to a sink
  recorded,    \* events on a line of a raw log
  enriched     \* events on a line of the enriched log

vars == <<emitted, recorded, enriched>>

Init ==
  /\ emitted = {}
  /\ recorded = {}
  /\ enriched = {}

(* A sink takes event e; some of what it holds, maybe e, is recorded. *)
Emit(e, new) ==
  /\ e \notin emitted
  /\ new \subseteq (emitted \cup {e}) \ recorded
  /\ emitted' = emitted \cup {e}
  /\ recorded' = recorded \cup new
  /\ UNCHANGED enriched

(* A sink that closes records what it still held. *)
Record(new) ==
  /\ new \subseteq emitted \ recorded
  /\ recorded' = recorded \cup new
  /\ UNCHANGED <<emitted, enriched>>

(* The analyzer enriches an event, which may have reached the raw log     *)
(* without the end of its line.                                           *)
Enrich(e) ==
  /\ e \in emitted \ enriched
  /\ enriched' = enriched \cup {e}
  /\ UNCHANGED <<emitted, recorded>>

Next ==
  \/ \E e \in Ids, new \in SUBSET Ids : Emit(e, new)
  \/ \E new \in SUBSET Ids : Record(new)
  \/ \E e \in Ids : Enrich(e)

Spec == Init /\ [][Next]_vars

============================================================================
