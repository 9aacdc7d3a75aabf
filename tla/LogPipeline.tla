---------------------------- MODULE LogPipeline ----------------------------
(***************************************************************************)
(* The road of an event from a honeypot to the file Fluent Bit tails.      *)
(* The EventSink of each honeypot (honeypots/*/events.py, app/events/      *)
(* builder.py) appends JSON lines to its raw log; every ANALYZER_INTERVAL  *)
(* the analyzer (analyzer/enrich.py, events.py) reads all raw logs and its *)
(* own output, and appends the events its output does not hold yet.        *)
(* Processes stop at any point, disks fill up, and both leave torn lines.  *)
(*                                                                         *)
(* A line is the id of the event whose JSON it holds, Junk when            *)
(* json.loads refuses it, or Poison when it is not valid UTF-8: every      *)
(* writer uses ensure_ascii=False, so a line may be cut inside a           *)
(* character.  The text after the last newline of a file is its tail.      *)
(***************************************************************************)
EXTENDS Naturals, Sequences, FiniteSets

CONSTANTS
  Services,   \* the honeypots, one raw log each
  Ids,        \* the ids of events, uuid4 in the code: all different
  Fragments,  \* what a line cut short may leave, besides nothing
  BufferSize, \* bound: lines the buffer of a raw log's handle can hold
  MaxStops    \* bound: how often a process is stopped

Empty == "empty"     \* no text at all
Junk == "junk"
Poison == "poison"
Whole == "whole"     \* a fragment that lacks only its newline

ASSUME PipelineAssumption ==
  /\ Fragments \subseteq {Junk, Poison, Whole}
  /\ Ids \cap {Empty, Junk, Poison, Whole} = {}
  /\ BufferSize \in Nat
  /\ MaxStops \in Nat

VARIABLES
  raw,       \* the raw logs
  held,      \* the lines a failed flush left in the handle of a sink
  partial,   \* how much of Head(held) is in the file already
  emitted,   \* events given to EventSink.emit
  out,       \* the enriched log
  analyzer,  \* the pass the analyzer is in, and the events it has yet to write
  stops      \* how often a process was stopped

vars == <<raw, held, partial, emitted, out, analyzer, stops>>

Line == Ids \cup {Junk, Poison}
Text == Line \cup {Empty}

(* Text that follows other text on one line.  Two events are no event: a  *)
(* cut event lacks a closing brace, a whole one does not allow a second.  *)
Glue(left, right) ==
  IF left = Empty THEN right
  ELSE IF right = Empty THEN left
  ELSE IF Poison \in {left, right} THEN Poison
  ELSE Junk

(* What the first bytes of the line of event e read like. *)
Cut(e, fragment) == IF fragment = Whole THEN e ELSE fragment

(* Bytes in a file stay there: a line can only get longer. *)
Longer(before, after) ==
  /\ before # Empty => after # Empty
  /\ before \in Ids => after = before

(* The last, unfinished line of a raw log, as a reader sees it. *)
LastLine(s) == Glue(raw[s].tail, partial[s])

----------------------------------------------------------------------------
Init ==
  /\ raw = [s \in Services |-> [lines |-> <<>>, tail |-> Empty]]
  /\ held = [s \in Services |-> <<>>]
  /\ partial = [s \in Services |-> Empty]
  /\ emitted = {}
  /\ out = [lines |-> <<>>, tail |-> Empty]
  /\ analyzer = [state |-> "idle", todo |-> {}]
  /\ stops = 0

(***************************************************************************)
(* EventSink.emit and close.  A flush writes the lines of a queue in       *)
(* order: n of them whole, and fragment of the one after.                  *)
(***************************************************************************)
Flushed(s, queue, n) ==
  raw[s].lines \o [i \in 1 .. n |-> IF i = 1 THEN Glue(raw[s].tail, queue[i])
                                             ELSE queue[i]]

TailAfter(s, n) == IF n = 0 THEN raw[s].tail ELSE Empty

Remaining(queue, n) == SubSeq(queue, n + 1, Len(queue))

(* The handle of s keeps rest, whose first line is in the file up to text. *)
Keep(s, rest, n, text) ==
  /\ n = 0 => Longer(partial[s], text)
  /\ held' = [held EXCEPT ![s] = rest]
  /\ partial' = [partial EXCEPT ![s] = text]

KeepNothing(s) ==
  /\ held' = [held EXCEPT ![s] = <<>>]
  /\ partial' = [partial EXCEPT ![s] = Empty]

LogBecomes(s, lines, tail) ==
  raw' = [raw EXCEPT ![s] = [lines |-> lines, tail |-> tail]]

Taken(e) ==
  /\ e \notin emitted
  /\ emitted' = emitted \cup {e}

EmitWritten(s, e) ==
  LET queue == Append(held[s], e) IN
  /\ Taken(e)
  /\ LogBecomes(s, Flushed(s, queue, Len(queue)), Empty)
  /\ KeepNothing(s)
  /\ UNCHANGED <<out, analyzer, stops>>

(* Mutant of EmitHeld: after the error the line is given to write again. *)
EmitHeldTwice(s, e, n, fragment) ==
  LET queue == Append(held[s], e) IN
  /\ Taken(e)
  /\ n < Len(queue)
  /\ Len(queue) - n <= BufferSize
  /\ LogBecomes(s, Flushed(s, queue, n), TailAfter(s, n))
  /\ Keep(s, Append(Remaining(queue, n), e), n, Cut(queue[n + 1], fragment))
  /\ UNCHANGED <<out, analyzer, stops>>

(* OSError, which emit catches: the handle keeps what it did not write. *)
EmitHeld(s, e, n, fragment) ==
  LET queue == Append(held[s], e) IN
  /\ Taken(e)
  /\ n < Len(queue)
  /\ Len(queue) - n <= BufferSize
  /\ LogBecomes(s, Flushed(s, queue, n), TailAfter(s, n))
  /\ Keep(s, Remaining(queue, n), n, Cut(queue[n + 1], fragment))
  /\ UNCHANGED <<out, analyzer, stops>>

(* OSError while the buffer is full: the new line is only on stdout. *)
EmitRefused(s, e, n, fragment) ==
  /\ Taken(e)
  /\ Len(held[s]) = BufferSize
  /\ n < Len(held[s])
  /\ LogBecomes(s, Flushed(s, held[s], n), TailAfter(s, n))
  /\ Keep(s, Remaining(held[s], n), n, Cut(held[s][n + 1], fragment))
  /\ UNCHANGED <<out, analyzer, stops>>

(* OSError in a line longer than the buffer: its first bytes stay behind. *)
EmitTorn(s, e, fragment) ==
  LET n == Len(held[s]) IN
  /\ Taken(e)
  /\ LogBecomes(s, Flushed(s, held[s], n),
                Glue(TailAfter(s, n), Cut(e, fragment)))
  /\ KeepNothing(s)
  /\ UNCHANGED <<out, analyzer, stops>>

(***************************************************************************)
(* The honeypot stops and compose restarts it, which reopens the log for   *)
(* appending.  close writes what the handle holds; a kill, or a disk that  *)
(* is still full, leaves the first bytes of it.                            *)
(***************************************************************************)
HoneypotStops(s) ==
  /\ stops < MaxStops
  /\ stops' = stops + 1
  /\ \/ LogBecomes(s, Flushed(s, held[s], Len(held[s])),
                   TailAfter(s, Len(held[s])))
     \/ LogBecomes(s, raw[s].lines, LastLine(s))
  /\ KeepNothing(s)
  /\ UNCHANGED <<emitted, out, analyzer>>

(***************************************************************************)
(* The analyzer.  A pass reads everything at its start: nobody else writes *)
(* the enriched log, and what a honeypot appends later is for the next     *)
(* pass.                                                                   *)
(***************************************************************************)
(* What is on line i of a raw log, the unfinished one included. *)
Readable(s, i) == IF i \in DOMAIN raw[s].lines THEN raw[s].lines[i] ELSE LastLine(s)

Readables(s) == 1 .. Len(raw[s].lines) + 1

InRaw(text) == \E s \in Services : \E i \in Readables(s) : Readable(s, i) = text

OutLines == {out.lines[i] : i \in DOMAIN out.lines} \cup {out.tail}

(* Mutant of AlreadySeen: the output is not read again. *)
AlreadySeenNothing == {}

AlreadySeen == OutLines \cap Ids

(* Mutant of Fresh: each log is read up to the line before the last. *)
FreshButLast ==
  {e \in Ids \ AlreadySeen :
     \E s \in Services : \E i \in 1 .. Len(raw[s].lines) - 1 : Readable(s, i) = e}

Fresh == {e \in Ids \ AlreadySeen : InRaw(e)}

(* The file iterator decodes before iter_events can skip anything. *)
Undecodable == InRaw(Poison) \/ Poison \in OutLines

Pass(todo) ==
  [state |-> IF todo = {} THEN "idle" ELSE "appending", todo |-> todo]

Down == [state |-> "down", todo |-> {}]

StartPass ==
  /\ analyzer.state = "idle"
  /\ ~Undecodable
  /\ Fresh # {}
  /\ analyzer' = Pass(Fresh)
  /\ UNCHANGED <<raw, held, partial, emitted, out, stops>>

(* UnicodeDecodeError is no JSONDecodeError: it ends run_forever. *)
PassRaises ==
  /\ analyzer.state = "idle"
  /\ Undecodable
  /\ analyzer' = Down
  /\ UNCHANGED <<raw, held, partial, emitted, out, stops>>

(* Mutant of Appended: the output is opened with "w". *)
AppendedToNothing(e) == <<e>>

Appended(e) == Append(out.lines, Glue(out.tail, e))

(* The line of one event reaches the output; after the last the pass ends. *)
AppendLine(e) ==
  /\ analyzer.state = "appending"
  /\ e \in analyzer.todo
  /\ out' = [lines |-> Appended(e), tail |-> Empty]
  /\ analyzer' = Pass(analyzer.todo \ {e})
  /\ UNCHANGED <<raw, held, partial, emitted, stops>>

(***************************************************************************)
(* The analyzer stops during a pass: killed, by an exception out of an     *)
(* enricher, or by a full disk.  The next line may be there in part.       *)
(***************************************************************************)
AnalyzerStops(e, fragment) ==
  /\ stops < MaxStops
  /\ stops' = stops + 1
  /\ analyzer.state = "appending"
  /\ e \in analyzer.todo
  /\ out' = [out EXCEPT !.tail = Glue(@, Cut(e, fragment))]
  /\ analyzer' = Down
  /\ UNCHANGED <<raw, held, partial, emitted>>

(* restart: unless-stopped *)
AnalyzerRestarts ==
  /\ analyzer.state = "down"
  /\ analyzer' = Pass({})
  /\ UNCHANGED <<raw, held, partial, emitted, out, stops>>

Extents == Fragments \cup {Empty}

Next ==
  \/ \E s \in Services, e \in Ids : EmitWritten(s, e)
  \/ \E s \in Services, e \in Ids, n \in 0 .. BufferSize, x \in Extents :
       EmitHeld(s, e, n, x)
  \/ \E s \in Services, e \in Ids, n \in 0 .. BufferSize, x \in Extents :
       EmitRefused(s, e, n, x)
  \/ \E s \in Services, e \in Ids, x \in Extents : EmitTorn(s, e, x)
  \/ \E s \in Services : HoneypotStops(s)
  \/ StartPass
  \/ PassRaises
  \/ \E e \in Ids : AppendLine(e)
  \/ \E e \in Ids, x \in Extents : AnalyzerStops(e, x)
  \/ AnalyzerRestarts

Spec == Init /\ [][Next]_vars

(***************************************************************************)
(* run_forever starts a pass every interval and a pass goes through its    *)
(* events; compose restarts the analyzer.  Honeypots owe nothing.          *)
(***************************************************************************)
Fairness ==
  /\ WF_vars(StartPass)
  /\ WF_vars(\E e \in Ids : AppendLine(e))
  /\ WF_vars(AnalyzerRestarts)

FairSpec == Spec /\ Fairness

----------------------------------------------------------------------------
(***************************************************************************)
(* Properties.                                                             *)
(***************************************************************************)
Log == [lines : Seq(Line), tail : Text]

(* The type of every variable; a pass under way has events to write. *)
TypeOK ==
  /\ raw \in [Services -> Log]
  /\ held \in [Services -> Seq(Ids)]
  /\ partial \in [Services -> Text]
  /\ emitted \subseteq Ids
  /\ out \in Log
  /\ analyzer \in [state : {"idle", "appending", "down"}, todo : SUBSET Ids]
  /\ (analyzer.state = "appending") = (analyzer.todo # {})
  /\ stops \in Nat

(* However often a flush fails and is retried, no event stands twice in    *)
(* the raw logs: run_once relies on it, its `fresh` may repeat an id.      *)
RawOnce ==
  \A s, t \in Services : \A i \in Readables(s), j \in Readables(t) :
    Readable(s, i) \in Ids /\ Readable(s, i) = Readable(t, j)
      => s = t /\ i = j

(* An event is on at most one line of the enriched log, whatever stops,    *)
(* tears a line or is started again (docs/ANALYZER.md: "dédupliqués par    *)
(* id (pas de double traitement entre deux passes)").                      *)
AtMostOnce ==
  \A i, j \in DOMAIN out.lines :
    out.lines[i] \in Ids /\ out.lines[i] = out.lines[j] => i = j

(* The pipeline implements EventDelivery: what is recorded and enriched    *)
(* only grows, and everything enriched was emitted.                        *)
Recorded ==
  {e \in Ids : \E s \in Services : \E i \in DOMAIN raw[s].lines : raw[s].lines[i] = e}

Enriched == {out.lines[i] : i \in DOMAIN out.lines} \cap Ids

Delivery == INSTANCE EventDelivery 
  WITH recorded <- Recorded, enriched <- Enriched

Implements == Delivery!Spec

(* An event on a line of a raw log gets into the enriched log, at worst    *)
(* without the end of its line: no stop and no torn or invalid line        *)
(* (events.py: "lignes invalides ignorées") keeps the analyzer from it.    *)
RecordedGetsEnriched ==
  \A e \in Ids : (e \in Recorded) ~> (e \in AlreadySeen)

(* So it is as long as every line can be decoded: neither stops of both    *)
(* sides, nor lines torn or glued by failed flushes, keep an event back.   *)
DecodableGetsEnriched ==
  \A e \in Ids : (e \in Recorded) ~> (e \in AlreadySeen \/ Undecodable)

============================================================================
