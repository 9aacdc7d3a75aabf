------------------------- MODULE LogPipelineProofs -------------------------
(***************************************************************************)
(* Proofs about LogPipeline, for any honeypots, any number of events, any  *)
(* buffer, any number of stops and whatever a torn write leaves.           *)
(***************************************************************************)
EXTENDS LogPipeline, Integers, TLAPS

(* Gluing texts gives a text; an event comes out only if it was alone. *)
LEMMA GlueFacts ==
  ASSUME NEW l \in Text, NEW r \in Text
  PROVE  /\ Glue(l, r) \in Text
         /\ Glue(l, r) \in Ids => l = Empty \/ r = Empty
         /\ Glue(l, r) \in Ids => Glue(l, r) \in {l, r}
         /\ r \in Ids => Glue(l, r) \in Line
         /\ Glue(Empty, r) = r
BY PipelineAssumption DEF Glue, Text, Line, Empty, Junk, Poison

LEMMA CutType ==
  ASSUME NEW e \in Ids, NEW x \in Extents
  PROVE  Cut(e, x) \in Text /\ (Cut(e, x) \in Ids => Cut(e, x) = e)
BY PipelineAssumption
   DEF Cut, Extents, Text, Line, Empty, Junk, Poison, Whole

(* What a flush leaves in the log: all that was there, and nothing else    *)
(* but what it took from the queue.                                        *)
LEMMA FlushedFacts ==
  ASSUME NEW s \in Services, raw[s] \in Log,
         NEW queue \in Seq(Ids), NEW n \in 0 .. Len(queue)
  PROVE  /\ Flushed(s, queue, n) \in Seq(Line)
         /\ \A i \in DOMAIN raw[s].lines :
              i \in DOMAIN Flushed(s, queue, n) /\ Flushed(s, queue, n)[i] = raw[s].lines[i]
         /\ \A i \in DOMAIN Flushed(s, queue, n) :
              \/ i \in DOMAIN raw[s].lines /\ Flushed(s, queue, n)[i] = raw[s].lines[i]
              \/ Flushed(s, queue, n)[i] \notin Ids
              \/ \E j \in DOMAIN queue : Flushed(s, queue, n)[i] = queue[j]
              \/ Flushed(s, queue, n)[i] = raw[s].tail
<1> DEFINE tail == raw[s].tail
           lines == raw[s].lines
           new == [i \in 1 .. n |-> IF i = 1 THEN Glue(tail, queue[i]) ELSE queue[i]]
<1>1. lines \in Seq(Line) /\ tail \in Text
  BY DEF Log
<1>2. \A i \in 1 .. n : queue[i] \in Ids
  OBVIOUS
<1>3. \A i \in 1 .. n : Glue(tail, queue[i]) \in Line
  BY <1>1, <1>2, GlueFacts DEF Text, Line
<1>4. new \in Seq(Line) /\ Len(new) = n /\ DOMAIN new = 1 .. n
  <2>1. \A i \in 1 .. n : new[i] \in Line
    BY <1>2, <1>3 DEF Line
  <2>. QED
    BY <2>1
<1>5. Flushed(s, queue, n) = lines \o new
  BY DEF Flushed
<1>6. \A i \in 1 .. n : \/ new[i] \notin Ids
                        \/ \E j \in DOMAIN queue : new[i] = queue[j]
                        \/ new[i] = tail
  <2> TAKE i \in 1 .. n
  <2>1. CASE i = 1
    <3>1. Glue(tail, queue[i]) \in Ids => Glue(tail, queue[i]) \in {tail, queue[i]}
      BY <1>1, <1>2, GlueFacts DEF Text, Line
    <3>. QED
      BY <2>1, <3>1
  <2>2. CASE i # 1
    BY <2>2
  <2>. QED
    BY <2>1, <2>2
<1>. HIDE DEF new, lines, tail
<1>7. /\ lines \o new \in Seq(Line)
      /\ \A i \in DOMAIN lines : i \in DOMAIN (lines \o new) /\ (lines \o new)[i] = lines[i]
      /\ \A i \in DOMAIN (lines \o new) :
           \/ i \in DOMAIN lines /\ (lines \o new)[i] = lines[i]
           \/ \E k \in 1 .. n : (lines \o new)[i] = new[k]
  <2>1. \A i \in DOMAIN (lines \o new) :
           \/ i \in DOMAIN lines /\ (lines \o new)[i] = lines[i]
           \/ i - Len(lines) \in 1 .. n /\ (lines \o new)[i] = new[i - Len(lines)]
    BY <1>1, <1>4
  <2>2. lines \o new \in Seq(Line)
    BY <1>1, <1>4
  <2>3. \A i \in DOMAIN lines : i \in DOMAIN (lines \o new) /\ (lines \o new)[i] = lines[i]
    BY <1>1, <1>4
  <2>. QED
    BY <2>1, <2>2, <2>3
<1>8. /\ Flushed(s, queue, n) \in Seq(Line)
      /\ \A i \in DOMAIN raw[s].lines :
           i \in DOMAIN Flushed(s, queue, n) /\ Flushed(s, queue, n)[i] = raw[s].lines[i]
  BY <1>5, <1>7 DEF lines
<1>9. \A i \in DOMAIN Flushed(s, queue, n) :
        \/ i \in DOMAIN raw[s].lines /\ Flushed(s, queue, n)[i] = raw[s].lines[i]
        \/ Flushed(s, queue, n)[i] \notin Ids
        \/ \E j \in DOMAIN queue : Flushed(s, queue, n)[i] = queue[j]
        \/ Flushed(s, queue, n)[i] = raw[s].tail
  <2> TAKE i \in DOMAIN Flushed(s, queue, n)
  <2>1. CASE i \in DOMAIN lines /\ (lines \o new)[i] = lines[i]
    BY <1>5, <2>1 DEF lines
  <2>2. CASE \E k \in 1 .. n : (lines \o new)[i] = new[k]
    BY <1>5, <1>6, <2>2 DEF tail
  <2>. QED
    BY <1>5, <1>7, <2>1, <2>2
<1>. QED
  BY <1>8, <1>9

(* The lines a handle keeps are among those it had. *)
LEMMA RemainingFacts ==
  ASSUME NEW queue \in Seq(Ids), NEW n \in 0 .. Len(queue)
  PROVE  /\ Remaining(queue, n) \in Seq(Ids)
         /\ \A i \in DOMAIN Remaining(queue, n) :
              \E j \in DOMAIN queue : Remaining(queue, n)[i] = queue[j]
<1>1. Remaining(queue, n) = [i \in 1 .. Len(queue) - n |-> queue[i + n]]
  BY DEF Remaining
<1>2. \A i \in 1 .. Len(queue) - n : i + n \in DOMAIN queue /\ queue[i + n] \in Ids
  OBVIOUS
<1>. QED
  BY <1>1, <1>2

LEMMA TailAfterType ==
  ASSUME NEW s \in Services, raw[s] \in Log, NEW n
  PROVE  TailAfter(s, n) \in Text
BY DEF TailAfter, Log, Text, Empty

LEMMA LastLineType ==
  ASSUME TypeOK, NEW s \in Services
  PROVE  LastLine(s) \in Text
<1>1. raw[s].tail \in Text /\ partial[s] \in Text
  BY DEF TypeOK, Log
<1>. QED
  BY <1>1, GlueFacts DEF LastLine

LEMMA LogBecomesType ==
  ASSUME TypeOK, NEW s \in Services, NEW lines \in Seq(Line), NEW tail \in Text,
         LogBecomes(s, lines, tail)
  PROVE  raw' \in [Services -> Log]
<1>1. [lines |-> lines, tail |-> tail] \in Log
  BY DEF Log
<1>. QED
  BY <1>1 DEF TypeOK, LogBecomes

LEMMA KeepType ==
  ASSUME TypeOK, NEW s \in Services, NEW rest \in Seq(Ids), NEW n, NEW text \in Text,
         Keep(s, rest, n, text)
  PROVE  held' \in [Services -> Seq(Ids)] /\ partial' \in [Services -> Text]
BY DEF TypeOK, Keep

LEMMA KeepNothingType ==
  ASSUME TypeOK, NEW s \in Services, KeepNothing(s)
  PROVE  held' \in [Services -> Seq(Ids)] /\ partial' \in [Services -> Text]
BY DEF TypeOK, KeepNothing, Text

LEMMA AppendHeld ==
  ASSUME TypeOK, NEW s \in Services, NEW e \in Ids
  PROVE  /\ held[s] \in Seq(Ids) /\ raw[s] \in Log
         /\ Append(held[s], e) \in Seq(Ids)
         /\ Len(Append(held[s], e)) = Len(held[s]) + 1
         /\ Len(held[s]) \in Nat
         /\ \A i \in DOMAIN Append(held[s], e) :
              \/ Append(held[s], e)[i] = e
              \/ i \in DOMAIN held[s] /\ Append(held[s], e)[i] = held[s][i]
BY DEF TypeOK

LEMMA PassType ==
  ASSUME NEW todo \in SUBSET Ids
  PROVE  /\ Pass(todo) \in [state : {"idle", "appending", "down"}, todo : SUBSET Ids]
         /\ Pass(todo).todo = todo
         /\ (Pass(todo).state = "appending") = (todo # {})
BY DEF Pass

LEMMA OutType ==
  ASSUME NEW lines \in Seq(Line), NEW tail \in Text
  PROVE  [lines |-> lines, tail |-> tail] \in Log
BY DEF Log

LEMMA TypeInit == Init => TypeOK
<1> SUFFICES ASSUME Init PROVE TypeOK
  OBVIOUS
<1>1. <<>> \in Seq(Line) /\ <<>> \in Seq(Ids) /\ Empty \in Text
  BY DEF Text
<1>2. [lines |-> <<>>, tail |-> Empty] \in Log
  BY <1>1, OutType
<1>. QED
  BY <1>1, <1>2 DEF Init, TypeOK

LEMMA TypeStep == TypeOK /\ [Next]_vars => TypeOK'
<1> SUFFICES ASSUME TypeOK, [Next]_vars PROVE TypeOK'
  OBVIOUS
<1> DEFINE Sinks == /\ raw' \in [Services -> Log]
                    /\ held' \in [Services -> Seq(Ids)]
                    /\ partial' \in [Services -> Text]
<1>0. Sinks /\ emitted' \in SUBSET Ids /\ stops' \in Nat /\ UNCHANGED <<out, analyzer>>
        => TypeOK'
  BY DEF TypeOK
<1>. HIDE DEF Sinks
<1>1. ASSUME NEW s \in Services, NEW e \in Ids, EmitWritten(s, e)
      PROVE  TypeOK'
  <2> DEFINE queue == Append(held[s], e)
  <2>1. queue \in Seq(Ids) /\ raw[s] \in Log /\ Len(queue) \in 0 .. Len(queue)
    BY AppendHeld
  <2>2. Flushed(s, queue, Len(queue)) \in Seq(Line) /\ Empty \in Text
    BY <2>1, FlushedFacts DEF Text
  <2>. HIDE DEF queue
  <2>3. LogBecomes(s, Flushed(s, queue, Len(queue)), Empty) /\ KeepNothing(s)
    BY <1>1 DEF EmitWritten, queue
  <2>4. Sinks
    BY <2>2, <2>3, LogBecomesType, KeepNothingType DEF Sinks
  <2>. QED
    BY <1>1, <2>4, <1>0 DEF EmitWritten, Taken, TypeOK
<1>2. ASSUME NEW s \in Services, NEW e \in Ids, NEW n \in 0 .. BufferSize,
             NEW x \in Extents, EmitHeld(s, e, n, x)
      PROVE  TypeOK'
  <2> DEFINE queue == Append(held[s], e)
  <2>1. queue \in Seq(Ids) /\ raw[s] \in Log /\ n < Len(queue)
    BY <1>2, AppendHeld DEF EmitHeld
  <2>2. n \in 0 .. Len(queue) /\ queue[n + 1] \in Ids
    BY <2>1, PipelineAssumption
  <2>. HIDE DEF queue
  <2>3. /\ Flushed(s, queue, n) \in Seq(Line) /\ TailAfter(s, n) \in Text
        /\ Remaining(queue, n) \in Seq(Ids) /\ Cut(queue[n + 1], x) \in Text
    BY <2>1, <2>2, FlushedFacts, TailAfterType, RemainingFacts, CutType
  <2>4. /\ LogBecomes(s, Flushed(s, queue, n), TailAfter(s, n))
        /\ Keep(s, Remaining(queue, n), n, Cut(queue[n + 1], x))
    BY <1>2 DEF EmitHeld, queue
  <2>5. Sinks
    BY <2>3, <2>4, LogBecomesType, KeepType DEF Sinks
  <2>. QED
    BY <1>2, <2>5, <1>0 DEF EmitHeld, Taken, TypeOK
<1>3. ASSUME NEW s \in Services, NEW e \in Ids, NEW n \in 0 .. BufferSize,
             NEW x \in Extents, EmitRefused(s, e, n, x)
      PROVE  TypeOK'
  <2>1. held[s] \in Seq(Ids) /\ raw[s] \in Log /\ n < Len(held[s])
    BY <1>3, AppendHeld DEF EmitRefused
  <2>2. n \in 0 .. Len(held[s]) /\ held[s][n + 1] \in Ids
    BY <2>1, PipelineAssumption
  <2>3. /\ Flushed(s, held[s], n) \in Seq(Line) /\ TailAfter(s, n) \in Text
        /\ Remaining(held[s], n) \in Seq(Ids) /\ Cut(held[s][n + 1], x) \in Text
    BY <2>1, <2>2, FlushedFacts, TailAfterType, RemainingFacts, CutType
  <2>4. Sinks
    BY <1>3, <2>3, LogBecomesType, KeepType DEF Sinks, EmitRefused
  <2>. QED
    BY <1>3, <2>4, <1>0 DEF EmitRefused, Taken, TypeOK
<1>4. ASSUME NEW s \in Services, NEW e \in Ids, NEW x \in Extents, EmitTorn(s, e, x)
      PROVE  TypeOK'
  <2>1. held[s] \in Seq(Ids) /\ raw[s] \in Log /\ Len(held[s]) \in 0 .. Len(held[s])
    BY AppendHeld
  <2>2. /\ Flushed(s, held[s], Len(held[s])) \in Seq(Line)
        /\ Glue(TailAfter(s, Len(held[s])), Cut(e, x)) \in Text
    BY <2>1, FlushedFacts, TailAfterType, CutType, GlueFacts
  <2>3. Sinks
    BY <1>4, <2>2, LogBecomesType, KeepNothingType DEF Sinks, EmitTorn
  <2>. QED
    BY <1>4, <2>3, <1>0 DEF EmitTorn, Taken, TypeOK
<1>5. ASSUME NEW s \in Services, HoneypotStops(s)
      PROVE  TypeOK'
  <2>1. /\ held[s] \in Seq(Ids) /\ raw[s] \in Log /\ raw[s].lines \in Seq(Line)
        /\ Len(held[s]) \in 0 .. Len(held[s])
    BY DEF TypeOK, Log
  <2>2. /\ Flushed(s, held[s], Len(held[s])) \in Seq(Line)
        /\ TailAfter(s, Len(held[s])) \in Text /\ LastLine(s) \in Text
    BY <2>1, FlushedFacts, TailAfterType, LastLineType
  <2>3. raw' \in [Services -> Log]
    BY <1>5, <2>1, <2>2, LogBecomesType DEF HoneypotStops
  <2>4. Sinks
    BY <1>5, <2>3, KeepNothingType DEF Sinks, HoneypotStops
  <2>. QED
    BY <1>5, <2>4, <1>0 DEF HoneypotStops, TypeOK
<1>6. CASE StartPass
  <2>1. Fresh \in SUBSET Ids
    BY DEF Fresh
  <2>. QED
    BY <1>6, <2>1, PassType DEF StartPass, TypeOK
<1>7. CASE PassRaises
  BY <1>7 DEF PassRaises, Down, TypeOK
<1>8. ASSUME NEW e \in Ids, AppendLine(e)
      PROVE  TypeOK'
  <2>1. out.lines \in Seq(Line) /\ out.tail \in Text /\ e \in Text
    BY DEF TypeOK, Log, Text, Line
  <2>2. Glue(out.tail, e) \in Line
    BY <2>1, GlueFacts
  <2>3. Appended(e) \in Seq(Line) /\ Empty \in Text
    BY <2>1, <2>2 DEF Appended, Text
  <2>4. out' \in Log
    BY <1>8, <2>3, OutType DEF AppendLine
  <2>5. analyzer.todo \ {e} \in SUBSET Ids
    BY DEF TypeOK
  <2>. QED
    BY <1>8, <2>4, <2>5, PassType DEF AppendLine, TypeOK
<1>9. ASSUME NEW e \in Ids, NEW x \in Extents, AnalyzerStops(e, x)
      PROVE  TypeOK'
  <2>1. out.lines \in Seq(Line) /\ out.tail \in Text /\ Cut(e, x) \in Text
    BY CutType DEF TypeOK, Log
  <2>2. Glue(out.tail, Cut(e, x)) \in Text
    BY <2>1, GlueFacts
  <2>3. out' \in Log
    BY <1>9, <2>1, <2>2 DEF AnalyzerStops, TypeOK, Log
  <2>. QED
    BY <1>9, <2>3 DEF AnalyzerStops, Down, TypeOK
<1>10. CASE AnalyzerRestarts
  BY <1>10, PassType DEF AnalyzerRestarts, TypeOK
<1>11. CASE UNCHANGED vars
  BY <1>11 DEF vars, TypeOK
<1>. QED
  BY <1>1, <1>2, <1>3, <1>4, <1>5, <1>6, <1>7, <1>8, <1>9, <1>10, <1>11 DEF Next

(* The variables of the pipeline always have their types. *)
THEOREM PipelineTyped == Spec => []TypeOK
BY TypeInit, TypeStep, PTL DEF Spec

----------------------------------------------------------------------------
(***************************************************************************)
(* No event is enriched twice: what a pass has yet to write is not in the  *)
(* output, and what it writes leaves its list.  Torn lines do not matter:  *)
(* what they spoil is not an event any more.                               *)
(***************************************************************************)
TodoIsNew == analyzer.todo \cap Enriched = {}

OnceInv == TypeOK /\ AtMostOnce /\ TodoIsNew

(* The step that writes a line adds one event at most, the one written. *)
LEMMA AppendedFacts ==
  ASSUME TypeOK, NEW e \in Ids, out' = [lines |-> Appended(e), tail |-> Empty]
  PROVE  /\ Len(out.lines) \in Nat /\ DOMAIN out.lines = 1 .. Len(out.lines)
         /\ DOMAIN out'.lines = 1 .. Len(out.lines) + 1
         /\ \A i \in DOMAIN out.lines : out'.lines[i] = out.lines[i]
         /\ out'.lines[Len(out.lines) + 1] \in Ids
              => out'.lines[Len(out.lines) + 1] = e
         /\ Enriched \subseteq Enriched' /\ Enriched' \subseteq Enriched \cup {e}
<1>1. out.lines \in Seq(Line) /\ out.tail \in Text /\ e \in Text
  BY DEF TypeOK, Log, Text, Line
<1> DEFINE g == Glue(out.tail, e)
<1>2. g \in Ids => g = e
  BY <1>1, GlueFacts, PipelineAssumption
<1>3. out'.lines = Append(out.lines, g)
  BY DEF Appended
<1>. HIDE DEF g
<1>4. /\ Len(out.lines) \in Nat /\ DOMAIN out.lines = 1 .. Len(out.lines)
      /\ DOMAIN out'.lines = 1 .. Len(out.lines) + 1
      /\ \A i \in DOMAIN out.lines : out'.lines[i] = out.lines[i]
      /\ out'.lines[Len(out.lines) + 1] = g
  BY <1>1, <1>3
<1>5. Enriched \subseteq Enriched'
  BY <1>4 DEF Enriched
<1>6. Enriched' \subseteq Enriched \cup {e}
  <2> SUFFICES ASSUME NEW i \in DOMAIN out'.lines, out'.lines[i] \in Ids
               PROVE  out'.lines[i] \in Enriched \cup {e}
    BY DEF Enriched
  <2>1. CASE i \in DOMAIN out.lines
    BY <2>1, <1>4 DEF Enriched
  <2>2. CASE i \notin DOMAIN out.lines
    <3>1. i = Len(out.lines) + 1
      BY <2>2, <1>4
    <3>. QED
      BY <3>1, <1>2, <1>4
  <2>. QED
    BY <2>1, <2>2
<1>. QED
  BY <1>2, <1>4, <1>5, <1>6

LEMMA OnceStep == OnceInv /\ [Next]_vars => OnceInv'
<1> SUFFICES ASSUME OnceInv, [Next]_vars PROVE AtMostOnce' /\ TodoIsNew'
  BY TypeStep DEF OnceInv
<1> USE DEF OnceInv
<1>1. CASE UNCHANGED <<out, analyzer>>
  BY <1>1 DEF AtMostOnce, TodoIsNew, Enriched
<1>2. CASE StartPass
  <2>1. UNCHANGED out /\ analyzer'.todo = Fresh
    BY <1>2, PassType DEF StartPass, Fresh
  <2>2. Fresh \cap Enriched = {}
    BY DEF Fresh, AlreadySeen, OutLines, Enriched
  <2>. QED
    BY <2>1, <2>2 DEF AtMostOnce, TodoIsNew, Enriched
<1>3. CASE PassRaises \/ AnalyzerRestarts
  <2>1. UNCHANGED out /\ analyzer'.todo = {}
    BY <1>3, PassType DEF PassRaises, AnalyzerRestarts, Down
  <2>. QED
    BY <2>1 DEF AtMostOnce, TodoIsNew, Enriched
<1>4. ASSUME NEW e \in Ids, AppendLine(e)
      PROVE  AtMostOnce' /\ TodoIsNew'
  <2>1. e \in analyzer.todo /\ e \notin Enriched
    BY <1>4 DEF AppendLine, TodoIsNew
  <2>2. out' = [lines |-> Appended(e), tail |-> Empty]
    BY <1>4 DEF AppendLine
  <2> DEFINE n == Len(out.lines)
  <2>3. /\ n \in Nat /\ DOMAIN out.lines = 1 .. n /\ DOMAIN out'.lines = 1 .. n + 1
        /\ \A i \in DOMAIN out.lines : out'.lines[i] = out.lines[i]
        /\ out'.lines[n + 1] \in Ids => out'.lines[n + 1] = e
        /\ Enriched' \subseteq Enriched \cup {e}
    BY <2>2, AppendedFacts
  <2>4. AtMostOnce'
    <3> SUFFICES ASSUME NEW i \in DOMAIN out'.lines, NEW j \in DOMAIN out'.lines,
                        out'.lines[i] \in Ids, out'.lines[i] = out'.lines[j]
                 PROVE  i = j
      BY DEF AtMostOnce
    <3>1. \A k \in 1 .. n : out'.lines[k] # e
      BY <2>1, <2>3 DEF Enriched
    <3>2. CASE i \in 1 .. n /\ j \in 1 .. n
      BY <3>2, <2>3 DEF AtMostOnce
    <3>3. CASE i = n + 1 /\ j \in 1 .. n
      BY <3>1, <3>3, <2>3
    <3>4. CASE j = n + 1 /\ i \in 1 .. n
      BY <3>1, <3>4, <2>3
    <3>5. CASE i = n + 1 /\ j = n + 1
      BY <3>5
    <3>. QED
      BY <3>2, <3>3, <3>4, <3>5, <2>3
  <2>5. analyzer'.todo = analyzer.todo \ {e}
    BY <1>4, PassType DEF AppendLine, TypeOK
  <2>6. TodoIsNew'
    BY <2>3, <2>5 DEF TodoIsNew
  <2>. QED
    BY <2>4, <2>6
<1>5. ASSUME NEW e \in Ids, NEW x \in Extents, AnalyzerStops(e, x)
      PROVE  AtMostOnce' /\ TodoIsNew'
  <2>1. out'.lines = out.lines
    BY <1>5 DEF AnalyzerStops, TypeOK, Log
  <2>2. analyzer'.todo = {}
    BY <1>5 DEF AnalyzerStops, Down
  <2>. QED
    BY <2>1, <2>2 DEF AtMostOnce, TodoIsNew
<1>. QED
  BY <1>1, <1>2, <1>3, <1>4, <1>5
     DEF Next, vars, EmitWritten, EmitHeld, EmitRefused, EmitTorn, HoneypotStops

(* However the disk fails and whenever processes stop, no event is on two  *)
(* lines of the enriched log.                                              *)
THEOREM PipelineAtMostOnce == Spec => []AtMostOnce
<1>1. Init => OnceInv
  BY TypeInit DEF Init, OnceInv, AtMostOnce, TodoIsNew
<1>2. OnceInv => AtMostOnce
  BY DEF OnceInv
<1>. QED
  BY <1>1, <1>2, OnceStep, PTL DEF Spec

----------------------------------------------------------------------------
(***************************************************************************)
(* The pipeline implements EventDelivery.  Every event that can be read    *)
(* anywhere, or will be, was emitted.                                      *)
(***************************************************************************)
LogsKnown(E) ==
  /\ Recorded \subseteq E
  /\ \A s \in Services : raw[s].tail \in Ids => raw[s].tail \in E

HandlesKnown(E) ==
  \A s \in Services : /\ partial[s] \in Ids => partial[s] \in E
                      /\ \A i \in DOMAIN held[s] : held[s][i] \in E

Known == LogsKnown(emitted) /\ HandlesKnown(emitted) /\ analyzer.todo \subseteq emitted

DeliveryInv == OnceInv /\ Known

(* A flush of known events only adds known events to the logs. *)
LEMMA LogGrows ==
  ASSUME TypeOK, NEW E, LogsKnown(E), NEW s \in Services,
         NEW queue \in Seq(Ids), NEW n \in 0 .. Len(queue),
         \A j \in DOMAIN queue : queue[j] \in E,
         NEW tail \in Text, tail \in Ids => tail \in E,
         LogBecomes(s, Flushed(s, queue, n), tail)
  PROVE  LogsKnown(E)' /\ Recorded \subseteq Recorded'
<1> DEFINE new == Flushed(s, queue, n)
<1>1. raw[s] \in Log
  BY DEF TypeOK
<1>2. /\ \A i \in DOMAIN raw[s].lines : i \in DOMAIN new /\ new[i] = raw[s].lines[i]
      /\ \A i \in DOMAIN new :
           \/ i \in DOMAIN raw[s].lines /\ new[i] = raw[s].lines[i]
           \/ new[i] \notin Ids
           \/ \E j \in DOMAIN queue : new[i] = queue[j]
           \/ new[i] = raw[s].tail
  BY <1>1, FlushedFacts
<1>3. /\ raw'[s].lines = new /\ raw'[s].tail = tail
      /\ \A t \in Services \ {s} : raw'[t] = raw[t]
  BY DEF LogBecomes, TypeOK
<1>. HIDE DEF new
<1>4. \A i \in DOMAIN new : new[i] \in Ids => new[i] \in E
  <2> SUFFICES ASSUME NEW i \in DOMAIN new, new[i] \in Ids PROVE new[i] \in E
    OBVIOUS
  <2>1. CASE i \in DOMAIN raw[s].lines /\ new[i] = raw[s].lines[i]
    BY <2>1 DEF LogsKnown, Recorded
  <2>2. CASE new[i] = raw[s].tail
    BY <2>2 DEF LogsKnown
  <2>. QED
    BY <1>2, <2>1, <2>2
<1>5. Recorded' \subseteq E
  <2> SUFFICES ASSUME NEW t \in Services, NEW i \in DOMAIN raw'[t].lines,
                      raw'[t].lines[i] \in Ids
               PROVE  raw'[t].lines[i] \in E
    BY DEF Recorded
  <2>1. CASE t = s
    BY <2>1, <1>3, <1>4
  <2>2. CASE t # s
    BY <2>2, <1>3 DEF LogsKnown, Recorded
  <2>. QED
    BY <2>1, <2>2
<1>6. Recorded \subseteq Recorded'
  <2> SUFFICES ASSUME NEW t \in Services, NEW i \in DOMAIN raw[t].lines,
                      raw[t].lines[i] \in Ids
               PROVE  \E u \in Services : \E j \in DOMAIN raw'[u].lines :
                        raw'[u].lines[j] = raw[t].lines[i]
    BY DEF Recorded
  <2>1. CASE t = s
    BY <2>1, <1>2, <1>3
  <2>2. CASE t # s
    BY <2>2, <1>3
  <2>. QED
    BY <2>1, <2>2
<1>7. \A t \in Services : raw'[t].tail \in Ids => raw'[t].tail \in E
  BY <1>3 DEF LogsKnown
<1>. QED
  BY <1>5, <1>6, <1>7 DEF LogsKnown

LEMMA KeepKnown ==
  ASSUME TypeOK, NEW E, HandlesKnown(E), NEW s \in Services, NEW n,
         NEW rest, \A i \in DOMAIN rest : rest[i] \in E,
         NEW text, text \in Ids => text \in E,
         Keep(s, rest, n, text)
  PROVE  HandlesKnown(E)'
BY DEF HandlesKnown, TypeOK, Keep

LEMMA KeepNothingKnown ==
  ASSUME TypeOK, NEW E, HandlesKnown(E), NEW s \in Services, KeepNothing(s)
  PROVE  HandlesKnown(E)'
<1>1. DOMAIN <<>> = {} /\ Empty \notin Ids
  BY PipelineAssumption
<1>. QED
  BY <1>1 DEF HandlesKnown, TypeOK, KeepNothing

LEMMA TailKnown ==
  ASSUME NEW E, LogsKnown(E), NEW s \in Services, NEW n
  PROVE  TailAfter(s, n) \in Ids => TailAfter(s, n) \in E
BY PipelineAssumption DEF LogsKnown, TailAfter

(* What a reader can make of the raw logs is known. *)
LEMMA RawKnown ==
  ASSUME TypeOK, NEW E, LogsKnown(E), HandlesKnown(E)
  PROVE  /\ \A s \in Services : LastLine(s) \in Ids => LastLine(s) \in E
         /\ Fresh \subseteq E
<1>1. \A s \in Services : LastLine(s) \in Ids => LastLine(s) \in E
  <2> TAKE s \in Services
  <2>1. raw[s].tail \in Text /\ partial[s] \in Text
    BY DEF TypeOK, Log
  <2>2. LastLine(s) \in Ids => LastLine(s) \in {raw[s].tail, partial[s]}
    BY <2>1, GlueFacts DEF LastLine
  <2>. QED
    BY <2>2 DEF LogsKnown, HandlesKnown
<1>. QED
  BY <1>1 DEF Fresh, InRaw, Readable, LogsKnown, Recorded

(* Steps of the honeypots.  E is what was emitted once they are done. *)
LEMMA SinkStep ==
  ASSUME DeliveryInv, NEW E, E = emitted', NEW s \in Services,
         \/ \E e \in Ids : EmitWritten(s, e)
         \/ \E e \in Ids, n \in 0 .. BufferSize, x \in Extents : EmitHeld(s, e, n, x)
         \/ \E e \in Ids, n \in 0 .. BufferSize, x \in Extents : EmitRefused(s, e, n, x)
         \/ \E e \in Ids, x \in Extents : EmitTorn(s, e, x)
         \/ HoneypotStops(s)
  PROVE  LogsKnown(E)' /\ HandlesKnown(E)' /\ Recorded \subseteq Recorded'
<1>1. TypeOK /\ emitted \subseteq E
  BY DEF DeliveryInv, OnceInv, EmitWritten, EmitHeld, EmitRefused, EmitTorn,
         HoneypotStops, Taken
<1>2. LogsKnown(E) /\ HandlesKnown(E)
  BY <1>1 DEF DeliveryInv, Known, LogsKnown, HandlesKnown
<1>3. /\ held[s] \in Seq(Ids) /\ raw[s] \in Log
      /\ \A j \in DOMAIN held[s] : held[s][j] \in E
      /\ Len(held[s]) \in 0 .. Len(held[s])
  BY <1>1, <1>2 DEF TypeOK, HandlesKnown
<1>4. Empty \in Text /\ Empty \notin Ids
  BY PipelineAssumption DEF Text
<1>5. ASSUME NEW e \in Ids, e \in E
      PROVE  \A j \in DOMAIN Append(held[s], e) : Append(held[s], e)[j] \in E
  BY <1>1, <1>3, <1>5, AppendHeld
<1>6. ASSUME NEW e \in Ids, EmitWritten(s, e)
      PROVE  LogsKnown(E)' /\ HandlesKnown(E)' /\ Recorded \subseteq Recorded'
  <2> DEFINE queue == Append(held[s], e)
  <2>1. /\ queue \in Seq(Ids) /\ Len(queue) \in 0 .. Len(queue)
        /\ \A j \in DOMAIN queue : queue[j] \in E
    BY <1>1, <1>5, <1>6, AppendHeld DEF EmitWritten, Taken
  <2>. HIDE DEF queue
  <2>2. LogBecomes(s, Flushed(s, queue, Len(queue)), Empty) /\ KeepNothing(s)
    BY <1>6 DEF EmitWritten, queue
  <2>. QED
    BY <1>1, <1>2, <1>4, <2>1, <2>2, LogGrows, KeepNothingKnown
<1>7. ASSUME NEW e \in Ids, NEW n \in 0 .. BufferSize, NEW x \in Extents,
             EmitHeld(s, e, n, x)
      PROVE  LogsKnown(E)' /\ HandlesKnown(E)' /\ Recorded \subseteq Recorded'
  <2> DEFINE queue == Append(held[s], e)
  <2>1. /\ queue \in Seq(Ids) /\ n < Len(queue)
        /\ \A j \in DOMAIN queue : queue[j] \in E
    BY <1>1, <1>5, <1>7, AppendHeld DEF EmitHeld, Taken
  <2>2. n \in 0 .. Len(queue) /\ queue[n + 1] \in Ids /\ queue[n + 1] \in E
    BY <2>1, PipelineAssumption
  <2>. HIDE DEF queue
  <2>3. /\ \A i \in DOMAIN Remaining(queue, n) : Remaining(queue, n)[i] \in E
        /\ Cut(queue[n + 1], x) \in Ids => Cut(queue[n + 1], x) \in E
    BY <2>1, <2>2, RemainingFacts, CutType
  <2>4. /\ TailAfter(s, n) \in Text
        /\ TailAfter(s, n) \in Ids => TailAfter(s, n) \in E
    BY <1>2, <1>3, TailAfterType, TailKnown
  <2>5. /\ LogBecomes(s, Flushed(s, queue, n), TailAfter(s, n))
        /\ Keep(s, Remaining(queue, n), n, Cut(queue[n + 1], x))
    BY <1>7 DEF EmitHeld, queue
  <2>6. LogsKnown(E)' /\ Recorded \subseteq Recorded'
    BY <1>1, <1>2, <2>1, <2>2, <2>4, <2>5, LogGrows
  <2>7. HandlesKnown(E)'
    BY <1>1, <1>2, <2>3, <2>5, KeepKnown
  <2>. QED
    BY <2>6, <2>7
<1>8. ASSUME NEW e \in Ids, NEW n \in 0 .. BufferSize, NEW x \in Extents,
             EmitRefused(s, e, n, x)
      PROVE  LogsKnown(E)' /\ HandlesKnown(E)' /\ Recorded \subseteq Recorded'
  <2>1. /\ n \in 0 .. Len(held[s]) /\ held[s][n + 1] \in Ids
        /\ held[s][n + 1] \in E
    BY <1>3, <1>8, PipelineAssumption DEF EmitRefused
  <2>2. /\ \A i \in DOMAIN Remaining(held[s], n) : Remaining(held[s], n)[i] \in E
        /\ Cut(held[s][n + 1], x) \in Ids => Cut(held[s][n + 1], x) \in E
    BY <1>3, <2>1, RemainingFacts, CutType
  <2>3. /\ TailAfter(s, n) \in Text
        /\ TailAfter(s, n) \in Ids => TailAfter(s, n) \in E
    BY <1>2, <1>3, TailAfterType, TailKnown
  <2>4. LogsKnown(E)' /\ Recorded \subseteq Recorded'
    BY <1>1, <1>2, <1>3, <1>8, <2>1, <2>3, LogGrows DEF EmitRefused
  <2>5. HandlesKnown(E)'
    BY <1>1, <1>2, <1>8, <2>2, KeepKnown DEF EmitRefused
  <2>. QED
    BY <2>4, <2>5
<1>9. ASSUME NEW e \in Ids, NEW x \in Extents, EmitTorn(s, e, x)
      PROVE  LogsKnown(E)' /\ HandlesKnown(E)' /\ Recorded \subseteq Recorded'
  <2> DEFINE n == Len(held[s])
             tail == Glue(TailAfter(s, n), Cut(e, x))
  <2>1. e \in E
    BY <1>9 DEF EmitTorn, Taken
  <2>2. /\ TailAfter(s, n) \in Text /\ Cut(e, x) \in Text
        /\ TailAfter(s, n) \in Ids => TailAfter(s, n) \in E
        /\ Cut(e, x) \in Ids => Cut(e, x) \in E
    BY <1>2, <1>3, <2>1, TailAfterType, TailKnown, CutType
  <2>3. tail \in Text /\ (tail \in Ids => tail \in E)
    BY <2>2, GlueFacts
  <2>4. LogBecomes(s, Flushed(s, held[s], n), tail) /\ KeepNothing(s)
    BY <1>9 DEF EmitTorn
  <2>. HIDE DEF tail
  <2>. QED
    BY <1>1, <1>2, <1>3, <2>3, <2>4, LogGrows, KeepNothingKnown
<1>10. CASE HoneypotStops(s)
  <2> DEFINE n == Len(held[s])
  <2>1. /\ TailAfter(s, n) \in Text
        /\ TailAfter(s, n) \in Ids => TailAfter(s, n) \in E
    BY <1>2, <1>3, TailAfterType, TailKnown
  <2>2. HandlesKnown(E)'
    BY <1>1, <1>2, <1>10, KeepNothingKnown DEF HoneypotStops
  <2>3. CASE LogBecomes(s, Flushed(s, held[s], n), TailAfter(s, n))
    BY <1>1, <1>2, <1>3, <2>1, <2>2, <2>3, LogGrows
  <2>4. CASE LogBecomes(s, raw[s].lines, LastLine(s))
    <3>1. LastLine(s) \in Ids => LastLine(s) \in E
      BY <1>1, <1>2, RawKnown
    <3>2. /\ \A t \in Services : raw'[t].lines = raw[t].lines
          /\ \A t \in Services : raw'[t].tail \in {raw[t].tail, LastLine(s)}
          /\ \A t \in Services : t # s => raw'[t].tail = raw[t].tail
          /\ raw'[s].tail = LastLine(s)
      BY <1>1, <2>4 DEF LogBecomes, TypeOK, Log
    <3>3. Recorded' = Recorded
      BY <3>2 DEF Recorded
    <3>. QED
      BY <1>2, <2>2, <3>1, <3>2, <3>3 DEF LogsKnown
  <2>. QED
    BY <1>10, <2>3, <2>4 DEF HoneypotStops
<1>. QED
  BY <1>6, <1>7, <1>8, <1>9, <1>10

(* The steps of the analyzer leave the raw logs and the sinks alone. *)
LEMMA AnalyzerSteps ==
  ASSUME UNCHANGED <<raw, held, partial, emitted>>, DeliveryInv
  PROVE  /\ LogsKnown(emitted)' /\ HandlesKnown(emitted)'
         /\ Recorded' = Recorded
BY DEF DeliveryInv, Known, LogsKnown, HandlesKnown, Recorded

LEMMA DeliveryInit == Init => DeliveryInv /\ Delivery!Init
<1> SUFFICES ASSUME Init PROVE DeliveryInv /\ Delivery!Init
  OBVIOUS
<1>1. OnceInv
  BY TypeInit DEF Init, OnceInv, AtMostOnce, TodoIsNew
<1>2. Recorded = {} /\ Enriched = {}
  BY DEF Init, Recorded, Enriched
<1>3. Empty \notin Ids
  BY PipelineAssumption
<1>4. Known
  BY <1>2, <1>3 DEF Init, Known, LogsKnown, HandlesKnown
<1>. QED
  BY <1>1, <1>2, <1>4 DEF DeliveryInv, Delivery!Init, Init

(* Every step keeps the invariant and is a step of EventDelivery, or none. *)
LEMMA DeliveryStep ==
  DeliveryInv /\ [Next]_vars => DeliveryInv' /\ [Delivery!Next]_(Delivery!vars)
<1> SUFFICES ASSUME DeliveryInv, [Next]_vars
             PROVE  Known' /\ [Delivery!Next]_(Delivery!vars)
  BY OnceStep DEF DeliveryInv
<1>0. TypeOK /\ analyzer.todo \subseteq emitted /\ emitted \subseteq Ids
  BY DEF DeliveryInv, OnceInv, Known, TypeOK
<1>1. ASSUME NEW s \in Services,
             \/ \E e \in Ids : EmitWritten(s, e)
             \/ \E e \in Ids, n \in 0 .. BufferSize, x \in Extents : EmitHeld(s, e, n, x)
             \/ \E e \in Ids, n \in 0 .. BufferSize, x \in Extents : EmitRefused(s, e, n, x)
             \/ \E e \in Ids, x \in Extents : EmitTorn(s, e, x)
             \/ HoneypotStops(s)
      PROVE  Known' /\ [Delivery!Next]_(Delivery!vars)
  <2>1. /\ Recorded' \subseteq emitted' /\ Recorded \subseteq Recorded'
        /\ LogsKnown(emitted)' /\ HandlesKnown(emitted)'
    BY <1>1, SinkStep DEF LogsKnown, HandlesKnown
  <2>2. UNCHANGED <<out, analyzer>> /\ emitted \subseteq emitted'
    BY <1>1 DEF EmitWritten, EmitHeld, EmitRefused, EmitTorn, HoneypotStops, Taken
  <2>3. Known'
    BY <1>0, <2>1, <2>2 DEF Known
  <2> DEFINE new == Recorded' \ Recorded
  <2>4. Enriched' = Enriched /\ Recorded' = Recorded \cup new /\ new \in SUBSET Ids
    BY <2>1, <2>2 DEF Enriched, Recorded
  <2>5. CASE \E e \in Ids : Taken(e)
    <3>1. PICK e \in Ids : Taken(e)
      BY <2>5
    <3>2. Delivery!Emit(e, new)
      BY <2>1, <2>4, <3>1 DEF Delivery!Emit, Taken
    <3>. QED
      BY <2>3, <2>4, <3>2 DEF Delivery!Next
  <2>6. CASE UNCHANGED emitted
    <3>1. Delivery!Record(new)
      BY <2>1, <2>4, <2>6 DEF Delivery!Record
    <3>. QED
      BY <2>3, <2>4, <3>1 DEF Delivery!Next
  <2>. QED
    BY <1>1, <2>5, <2>6
       DEF EmitWritten, EmitHeld, EmitRefused, EmitTorn, HoneypotStops
<1>2. CASE StartPass \/ PassRaises \/ AnalyzerRestarts
  <2>1. /\ LogsKnown(emitted)' /\ HandlesKnown(emitted)'
        /\ Recorded' = Recorded /\ UNCHANGED <<emitted, out>>
    BY <1>2, AnalyzerSteps DEF StartPass, PassRaises, AnalyzerRestarts
  <2>2. Fresh \subseteq emitted /\ Fresh \subseteq Ids
    BY <1>0, RawKnown DEF DeliveryInv, Known, Fresh
  <2>3. analyzer'.todo \in {{}, Fresh}
    BY <1>2, <2>2, PassType DEF StartPass, PassRaises, AnalyzerRestarts, Down
  <2>. QED
    BY <2>1, <2>2, <2>3 DEF Known, Enriched, Delivery!vars
<1>3. ASSUME NEW e \in Ids, AppendLine(e)
      PROVE  Known' /\ [Delivery!Next]_(Delivery!vars)
  <2>1. /\ LogsKnown(emitted)' /\ HandlesKnown(emitted)'
        /\ Recorded' = Recorded /\ UNCHANGED emitted
    BY <1>3, AnalyzerSteps DEF AppendLine
  <2>2. analyzer'.todo = analyzer.todo \ {e}
    BY <1>0, <1>3, PassType DEF AppendLine
  <2>3. Enriched \subseteq Enriched' /\ Enriched' \subseteq Enriched \cup {e}
    BY <1>0, <1>3, AppendedFacts DEF AppendLine
  <2>4. e \in emitted /\ e \notin Enriched
    BY <1>0, <1>3 DEF AppendLine, DeliveryInv, OnceInv, TodoIsNew
  <2>5. Delivery!Enrich(e) \/ UNCHANGED Delivery!vars
    BY <2>1, <2>3, <2>4 DEF Delivery!Enrich, Delivery!vars
  <2>. QED
    BY <1>0, <2>1, <2>2, <2>5 DEF Known, Delivery!Next
<1>4. ASSUME NEW e \in Ids, NEW x \in Extents, AnalyzerStops(e, x)
      PROVE  Known' /\ [Delivery!Next]_(Delivery!vars)
  <2>1. /\ LogsKnown(emitted)' /\ HandlesKnown(emitted)'
        /\ Recorded' = Recorded /\ UNCHANGED emitted
    BY <1>4, AnalyzerSteps DEF AnalyzerStops
  <2>2. out'.lines = out.lines
    BY <1>0, <1>4 DEF AnalyzerStops, TypeOK, Log
  <2>3. analyzer'.todo = {}
    BY <1>4 DEF AnalyzerStops, Down
  <2>. QED
    BY <2>1, <2>2, <2>3 DEF Known, Enriched, Delivery!vars
<1>5. CASE UNCHANGED vars
  <2>1. UNCHANGED <<raw, held, partial, emitted, out, analyzer>>
    BY <1>5 DEF vars
  <2>2. /\ LogsKnown(emitted)' /\ HandlesKnown(emitted)' /\ Recorded' = Recorded
    BY <2>1, AnalyzerSteps
  <2>. QED
    BY <1>0, <2>1, <2>2 DEF Known, Enriched, Delivery!vars
<1>. QED
  BY <1>1, <1>2, <1>3, <1>4, <1>5 DEF Next

(* The sinks and the analyzer, with torn lines, full disks and restarts,   *)
(* implement EventDelivery: what is recorded or enriched stays so, and     *)
(* only what a honeypot emitted is enriched.                               *)
THEOREM PipelineImplements == Spec => Implements
BY DeliveryInit, DeliveryStep, PTL DEF Spec, Implements, Delivery!Spec

----------------------------------------------------------------------------
(***************************************************************************)
(* No event stands twice in the raw logs.  An event that was emitted is in *)
(* one place at most: on a line, in the unfinished end of a log, or among  *)
(* the lines a handle keeps; what a handle has written of its first line   *)
(* belongs to that line.  A flush moves events from the handle to lines,   *)
(* in order, and a new one comes from nowhere else.                        *)
(***************************************************************************)
LinesOnce ==
  \A s, t \in Services : \A i \in DOMAIN raw[s].lines, j \in DOMAIN raw[t].lines :
    raw[s].lines[i] \in Ids /\ raw[s].lines[i] = raw[t].lines[j] => s = t /\ i = j

(* Event e is on no line and at the end of no log. *)
NotInLogs(e) == e \notin Recorded /\ \A t \in Services : raw[t].tail # e

NotHeldElsewhere(s, e) ==
  \A t \in Services \ {s} : \A k \in DOMAIN held[t] : held[t][k] # e

TailsOnce ==
  \A s \in Services : raw[s].tail \in Ids
    => /\ raw[s].tail \notin Recorded
       /\ \A t \in Services : raw[t].tail = raw[s].tail => t = s

HeldOnce ==
  \A s \in Services : \A k \in DOMAIN held[s] :
    /\ NotInLogs(held[s][k])
    /\ NotHeldElsewhere(s, held[s][k])
    /\ \A l \in DOMAIN held[s] : held[s][l] = held[s][k] => l = k

PartialIsFirst ==
  \A s \in Services : partial[s] \in Ids
    => 1 \in DOMAIN held[s] /\ partial[s] = held[s][1]

PlacedOnce == LinesOnce /\ TailsOnce /\ HeldOnce /\ PartialIsFirst

PlaceInv == DeliveryInv /\ PlacedOnce

(* The lines a flush adds hold the events of the queue, each its own.  The *)
(* first of them is spoilt if the log did not end with a newline.          *)
LEMMA FlushedLines ==
  ASSUME NEW s \in Services, raw[s] \in Log,
         NEW queue \in Seq(Ids), NEW n \in 0 .. Len(queue)
  PROVE  LET lines == raw[s].lines
             new == Flushed(s, queue, n)
         IN  \A i \in DOMAIN new :
               \/ i \in DOMAIN lines /\ new[i] = lines[i]
               \/ new[i] \notin Ids
               \/ /\ i - Len(lines) \in 1 .. n
                  /\ i - Len(lines) \in DOMAIN queue
                  /\ new[i] = queue[i - Len(lines)]
<1> DEFINE tail == raw[s].tail
           lines == raw[s].lines
           added == [i \in 1 .. n |-> IF i = 1 THEN Glue(tail, queue[i]) ELSE queue[i]]
<1>1. lines \in Seq(Line) /\ tail \in Text
  BY DEF Log
<1>2. \A i \in 1 .. n : i \in DOMAIN queue /\ queue[i] \in Ids
  OBVIOUS
<1>3. \A i \in 1 .. n : added[i] \in Ids => added[i] = queue[i]
  <2> TAKE i \in 1 .. n
  <2>1. CASE i = 1
    <3>1. queue[i] \in Text /\ queue[i] # Empty
      BY <1>2, PipelineAssumption DEF Text, Line
    <3>2. Glue(tail, queue[i]) \in Ids => tail = Empty
      BY <1>1, <3>1, GlueFacts
    <3>3. Glue(Empty, queue[i]) = queue[i]
      BY DEF Glue
    <3>. QED
      BY <2>1, <3>2, <3>3
  <2>2. CASE i # 1
    BY <2>2
  <2>. QED
    BY <2>1, <2>2
<1>4. /\ Flushed(s, queue, n) = lines \o added
      /\ added \in Seq(Line) /\ Len(added) = n /\ DOMAIN added = 1 .. n
  <2>1. \A i \in 1 .. n : Glue(tail, queue[i]) \in Line /\ queue[i] \in Line
    BY <1>1, <1>2, GlueFacts DEF Text, Line
  <2>2. \A i \in 1 .. n : added[i] \in Line
    BY <2>1
  <2>3. added \in Seq(Line) /\ Len(added) = n /\ DOMAIN added = 1 .. n
    BY <2>2
  <2>. QED
    BY <2>3 DEF Flushed
<1>. HIDE DEF tail, lines, added
<1>5. \A i \in DOMAIN (lines \o added) :
        \/ i \in DOMAIN lines /\ (lines \o added)[i] = lines[i]
        \/ i - Len(lines) \in 1 .. n /\ (lines \o added)[i] = added[i - Len(lines)]
  BY <1>1, <1>4
<1>6. \A i \in DOMAIN (lines \o added) :
        \/ i \in DOMAIN lines /\ (lines \o added)[i] = lines[i]
        \/ (lines \o added)[i] \notin Ids
        \/ /\ i - Len(lines) \in 1 .. n
           /\ i - Len(lines) \in DOMAIN queue
           /\ (lines \o added)[i] = queue[i - Len(lines)]
  BY <1>2, <1>3, <1>5
<1>. QED
  BY <1>4, <1>6 DEF lines

(* What may be given to a flush of s: events in no log and in no other     *)
(* handle, none twice.                                                     *)
Flushable(s, queue) ==
  \A j \in DOMAIN queue :
    /\ NotInLogs(queue[j])
    /\ NotHeldElsewhere(s, queue[j])
    /\ \A k \in DOMAIN queue : queue[k] = queue[j] => k = j

(* What may be at the end of the log afterwards: what was, if nothing was  *)
(* written, or an event that is nowhere else.                              *)
EndsWell(s, queue, n, tail) ==
  tail \in Ids
    => \/ n = 0 /\ tail = raw[s].tail
       \/ /\ NotInLogs(tail) /\ NotHeldElsewhere(s, tail)
          /\ \A j \in DOMAIN queue : queue[j] # tail

(* A flush of n lines of such a queue, after which the handle keeps the    *)
(* rest of it or nothing, leaves every event in one place.                 *)
LEMMA FlushPlaced ==
  ASSUME TypeOK, PlacedOnce, NEW s \in Services,
         NEW queue \in Seq(Ids), NEW n \in 0 .. Len(queue), NEW tail \in Text,
         Flushable(s, queue), EndsWell(s, queue, n, tail),
         LogBecomes(s, Flushed(s, queue, n), tail),
         NEW rest \in Seq(Ids), NEW text \in Text,
         held' = [held EXCEPT ![s] = rest],
         partial' = [partial EXCEPT ![s] = text],
         \A k \in DOMAIN rest : k + n \in DOMAIN queue /\ rest[k] = queue[k + n],
         text \in Ids => 1 \in DOMAIN rest /\ text = rest[1]
  PROVE  PlacedOnce'
<1> DEFINE new == Flushed(s, queue, n)
           lines == raw[s].lines
           m == Len(lines)
<1>1. raw[s] \in Log /\ lines \in Seq(Line) /\ m \in Nat /\ DOMAIN lines = 1 .. m
  BY DEF TypeOK, Log
<1>2. /\ new \in Seq(Line)
      /\ \A i \in DOMAIN lines : i \in DOMAIN new /\ new[i] = lines[i]
      /\ \A i \in DOMAIN new :
           \/ i \in DOMAIN lines /\ new[i] = lines[i]
           \/ new[i] \notin Ids
           \/ i - m \in 1 .. n /\ i - m \in DOMAIN queue /\ new[i] = queue[i - m]
  <2>1. new \in Seq(Line) /\ \A i \in DOMAIN lines : i \in DOMAIN new /\ new[i] = lines[i]
    BY <1>1, FlushedFacts
  <2>. QED
    BY <1>1, <2>1, FlushedLines
<1>3. /\ raw'[s].lines = new /\ raw'[s].tail = tail
      /\ \A t \in Services \ {s} : raw'[t] = raw[t]
  BY DEF LogBecomes, TypeOK
<1>4. /\ held'[s] = rest /\ partial'[s] = text
      /\ \A t \in Services \ {s} : held'[t] = held[t] /\ partial'[t] = partial[t]
  BY DEF TypeOK
<1>5. /\ \A t \in Services : DOMAIN raw[t].lines \subseteq Nat
      /\ DOMAIN new \subseteq Int /\ DOMAIN queue \subseteq Int
  <2>1. \A t \in Services : raw[t].lines \in Seq(Line)
    BY DEF TypeOK, Log
  <2>. QED
    BY <1>2, <2>1
<1>6. \A t \in Services : \A i \in DOMAIN raw[t].lines :
        raw[t].lines[i] \in Ids => raw[t].lines[i] \in Recorded
  BY DEF Recorded
<1>. HIDE DEF new, lines, m
<1>p. LinesOnce /\ TailsOnce /\ HeldOnce /\ PartialIsFirst
  BY DEF PlacedOnce
(* Where an event on a line comes from. *)
<1>7. ASSUME NEW i \in DOMAIN new, new[i] \in Ids
      PROVE  \/ i \in DOMAIN lines /\ new[i] = lines[i] /\ new[i] \in Recorded
             \/ /\ i - m \in 1 .. n /\ i - m \in DOMAIN queue /\ new[i] = queue[i - m]
                /\ NotInLogs(new[i]) /\ NotHeldElsewhere(s, new[i])
  BY <1>2, <1>6, <1>7 DEF Flushable, lines
<1>8. LinesOnce'
  <2> SUFFICES ASSUME NEW a \in Services, NEW b \in Services,
                      NEW i \in DOMAIN raw'[a].lines, NEW j \in DOMAIN raw'[b].lines,
                      raw'[a].lines[i] \in Ids, raw'[a].lines[i] = raw'[b].lines[j]
               PROVE  a = b /\ i = j
    BY DEF LinesOnce
  <2>1. CASE a # s /\ b # s
    BY <1>3, <1>p, <2>1 DEF LinesOnce
  <2>2. CASE a = s /\ b = s
    <3>1. i \in DOMAIN new /\ j \in DOMAIN new /\ new[i] \in Ids /\ new[i] = new[j]
      BY <1>3, <2>2
    <3>2. CASE new[i] \in Recorded
      <4>1. i \in DOMAIN lines /\ j \in DOMAIN lines /\ lines[i] = lines[j]
            /\ lines[i] \in Ids
        BY <1>7, <3>1, <3>2 DEF NotInLogs
      <4>. QED
        BY <1>p, <2>2, <4>1 DEF LinesOnce, lines
    <3>3. CASE new[i] \notin Recorded
      <4>1. /\ i - m \in DOMAIN queue /\ j - m \in DOMAIN queue
            /\ queue[i - m] = queue[j - m]
        BY <1>7, <3>1, <3>3
      <4>2. i - m = j - m
        BY <4>1 DEF Flushable
      <4>. QED
        BY <1>1, <1>5, <2>2, <3>1, <4>2 DEF m
    <3>. QED
      BY <3>2, <3>3
  <2>3. CASE a = s /\ b # s
    <3>1. /\ i \in DOMAIN new /\ new[i] \in Ids /\ new[i] = raw[b].lines[j]
          /\ j \in DOMAIN raw[b].lines
      BY <1>3, <2>3
    <3>2. new[i] \in Recorded
      BY <1>6, <3>1
    <3>3. i \in DOMAIN lines /\ lines[i] = raw[b].lines[j] /\ lines[i] \in Ids
      BY <1>7, <3>1, <3>2 DEF NotInLogs
    <3>. QED
      BY <1>p, <2>3, <3>1, <3>3 DEF LinesOnce, lines
  <2>4. CASE a # s /\ b = s
    <3>1. /\ j \in DOMAIN new /\ new[j] \in Ids /\ new[j] = raw[a].lines[i]
          /\ i \in DOMAIN raw[a].lines
      BY <1>3, <2>4
    <3>2. new[j] \in Recorded
      BY <1>6, <3>1
    <3>3. j \in DOMAIN lines /\ lines[j] = raw[a].lines[i] /\ lines[j] \in Ids
      BY <1>7, <3>1, <3>2 DEF NotInLogs
    <3>. QED
      BY <1>p, <2>4, <3>1, <3>3 DEF LinesOnce, lines
  <2>. QED
    BY <2>1, <2>2, <2>3, <2>4
(* What is recorded now was recorded, or has just left the queue. *)
<1>9. \A e \in Recorded' : \/ e \in Recorded
                           \/ \E j \in 1 .. n : j \in DOMAIN queue /\ e = queue[j]
  <2> SUFFICES ASSUME NEW a \in Services, NEW i \in DOMAIN raw'[a].lines,
                      raw'[a].lines[i] \in Ids
               PROVE  \/ raw'[a].lines[i] \in Recorded
                      \/ \E j \in 1 .. n : j \in DOMAIN queue /\ raw'[a].lines[i] = queue[j]
    BY DEF Recorded
  <2>1. CASE a = s
    BY <1>3, <1>7, <2>1
  <2>2. CASE a # s
    BY <1>3, <1>6, <2>2
  <2>. QED
    BY <2>1, <2>2
<1>10. TailsOnce'
  <2>1. ASSUME NEW t \in Services \ {s}, raw[t].tail \in Ids
        PROVE  /\ raw[t].tail \notin Recorded'
               /\ raw[t].tail # tail
               /\ \A u \in Services \ {s} : raw[u].tail = raw[t].tail => u = t
    <3>1. raw[t].tail \notin Recorded
          /\ \A u \in Services : raw[u].tail = raw[t].tail => u = t
      BY <1>p, <2>1 DEF TailsOnce
    <3>2. \A j \in DOMAIN queue : queue[j] # raw[t].tail
      BY DEF Flushable, NotInLogs
    <3>3. raw[t].tail # tail
      BY <2>1, <3>1 DEF EndsWell, NotInLogs
    <3>. QED
      BY <1>9, <3>1, <3>2, <3>3
  <2>2. tail \in Ids => tail \notin Recorded'
    <3> SUFFICES ASSUME tail \in Ids PROVE tail \notin Recorded'
      OBVIOUS
    <3>1. CASE n = 0 /\ tail = raw[s].tail
      BY <1>9, <1>p, <3>1 DEF TailsOnce
    <3>2. CASE NotInLogs(tail) /\ \A j \in DOMAIN queue : queue[j] # tail
      BY <1>9, <3>2 DEF NotInLogs
    <3>. QED
      BY <3>1, <3>2 DEF EndsWell
  <2>. QED
    BY <1>3, <2>1, <2>2 DEF TailsOnce
<1>11. ASSUME NEW k \in DOMAIN rest
       PROVE  /\ rest[k] \notin Recorded' /\ \A t \in Services : raw'[t].tail # rest[k]
              /\ \A t \in Services \ {s} : \A l \in DOMAIN held[t] : held[t][l] # rest[k]
              /\ \A l \in DOMAIN rest : rest[l] = rest[k] => l = k
  <2>1. k \in Nat /\ k >= 1 /\ k + n \in DOMAIN queue /\ rest[k] = queue[k + n]
    OBVIOUS
  <2>2. NotInLogs(rest[k]) /\ NotHeldElsewhere(s, rest[k])
    BY <2>1 DEF Flushable
  <2>3. rest[k] \notin Recorded'
    <3>1. \A j \in 1 .. n : j \in DOMAIN queue => queue[j] # queue[k + n]
      <4>1. \A j \in 1 .. n : j # k + n
        BY <2>1
      <4>. QED
        BY <2>1, <4>1 DEF Flushable
    <3>. QED
      BY <1>9, <2>1, <2>2, <3>1 DEF NotInLogs
  <2>4. \A t \in Services : raw'[t].tail # rest[k]
    <3>1. tail # rest[k]
      BY <2>1, <2>2 DEF EndsWell, NotInLogs
    <3>. QED
      BY <1>3, <2>2, <3>1 DEF NotInLogs
  <2>5. \A l \in DOMAIN rest : rest[l] = rest[k] => l = k
    <3> SUFFICES ASSUME NEW l \in DOMAIN rest, rest[l] = rest[k] PROVE l = k
      OBVIOUS
    <3>1. l \in Nat /\ l + n \in DOMAIN queue /\ rest[l] = queue[l + n]
      OBVIOUS
    <3>2. l + n = k + n
      BY <2>1, <3>1 DEF Flushable
    <3>. QED
      BY <2>1, <3>1, <3>2
  <2>. QED
    BY <2>2, <2>3, <2>4, <2>5 DEF NotHeldElsewhere
<1>12. ASSUME NEW t \in Services \ {s}, NEW k \in DOMAIN held[t]
       PROVE  /\ held[t][k] \notin Recorded' /\ \A u \in Services : raw'[u].tail # held[t][k]
              /\ \A l \in DOMAIN rest : rest[l] # held[t][k]
              /\ NotHeldElsewhere(t, held[t][k])
              /\ \A l \in DOMAIN held[t] : held[t][l] = held[t][k] => l = k
  <2>1. /\ NotInLogs(held[t][k]) /\ NotHeldElsewhere(t, held[t][k])
        /\ \A l \in DOMAIN held[t] : held[t][l] = held[t][k] => l = k
    BY <1>p DEF HeldOnce
  <2>2. \A j \in DOMAIN queue : queue[j] # held[t][k]
    BY DEF Flushable, NotHeldElsewhere
  <2>3. held[t][k] \notin Recorded'
    BY <1>9, <2>1, <2>2 DEF NotInLogs
  <2>4. tail # held[t][k]
    <3>1. held[t][k] \in Ids
      BY DEF TypeOK
    <3>. QED
      BY <2>1, <3>1 DEF EndsWell, NotInLogs, NotHeldElsewhere
  <2>5. \A u \in Services : raw'[u].tail # held[t][k]
    BY <1>3, <2>1, <2>4 DEF NotInLogs
  <2>. QED
    BY <1>11, <2>1, <2>3, <2>5
<1>13. HeldOnce'
  <2> SUFFICES ASSUME NEW t \in Services, NEW k \in DOMAIN held'[t]
               PROVE  /\ held'[t][k] \notin Recorded'
                      /\ \A u \in Services : raw'[u].tail # held'[t][k]
                      /\ \A u \in Services \ {t} : \A l \in DOMAIN held'[u] :
                           held'[u][l] # held'[t][k]
                      /\ \A l \in DOMAIN held'[t] : held'[t][l] = held'[t][k] => l = k
    BY DEF HeldOnce, NotInLogs, NotHeldElsewhere
  <2>1. CASE t = s
    BY <1>4, <1>11, <2>1
  <2>2. CASE t # s
    BY <1>4, <1>12, <2>2 DEF NotHeldElsewhere
  <2>. QED
    BY <2>1, <2>2
<1>14. PartialIsFirst'
  BY <1>4, <1>p DEF PartialIsFirst
<1>. QED
  BY <1>8, <1>10, <1>13, <1>14 DEF PlacedOnce

(* What the handle of s holds, with a new event or without, may be flushed. *)
LEMMA HeldFlushable ==
  ASSUME PlaceInv, NEW s \in Services
  PROVE  /\ held[s] \in Seq(Ids) /\ Flushable(s, held[s])
         /\ \A e \in Ids \ emitted :
              /\ NotInLogs(e) /\ NotHeldElsewhere(s, e)
              /\ \A j \in DOMAIN held[s] : held[s][j] # e
              /\ Append(held[s], e) \in Seq(Ids)
              /\ Flushable(s, Append(held[s], e))
<1>1. TypeOK /\ PlacedOnce /\ LogsKnown(emitted) /\ HandlesKnown(emitted)
      /\ held[s] \in Seq(Ids)
  BY DEF PlaceInv, DeliveryInv, OnceInv, Known, TypeOK
<1>2. Flushable(s, held[s])
  BY <1>1 DEF PlacedOnce, HeldOnce, Flushable
<1>3. ASSUME NEW e \in Ids \ emitted
      PROVE  /\ NotInLogs(e) /\ NotHeldElsewhere(s, e)
             /\ \A j \in DOMAIN held[s] : held[s][j] # e
             /\ Append(held[s], e) \in Seq(Ids)
             /\ Flushable(s, Append(held[s], e))
  <2>1. /\ NotInLogs(e) /\ NotHeldElsewhere(s, e)
        /\ \A j \in DOMAIN held[s] : held[s][j] # e
    BY <1>1 DEF LogsKnown, HandlesKnown, NotInLogs, NotHeldElsewhere
  <2> DEFINE queue == Append(held[s], e)
             n == Len(held[s])
  <2>2. /\ queue \in Seq(Ids) /\ n \in Nat /\ DOMAIN held[s] = 1 .. n
        /\ DOMAIN queue = 1 .. n + 1 /\ queue[n + 1] = e
        /\ \A j \in 1 .. n : queue[j] = held[s][j]
    BY <1>1
  <2>. HIDE DEF queue, n
  <2>3. \A j \in DOMAIN queue : j \in 1 .. n \/ j = n + 1
    BY <2>2
  <2>4. Flushable(s, queue)
    BY <1>2, <2>1, <2>2, <2>3 DEF Flushable
  <2>. QED
    BY <2>1, <2>2, <2>4 DEF queue
<1>. QED
  BY <1>1, <1>2, <1>3

(* A flush leaves the events behind those it wrote, in their order. *)
LEMMA RemainingOrder ==
  ASSUME NEW queue \in Seq(Ids), NEW n \in 0 .. Len(queue)
  PROVE  /\ Remaining(queue, n) \in Seq(Ids)
         /\ \A k \in DOMAIN Remaining(queue, n) :
              k + n \in DOMAIN queue /\ Remaining(queue, n)[k] = queue[k + n]
         /\ n < Len(queue) => /\ 1 \in DOMAIN Remaining(queue, n)
                              /\ Remaining(queue, n)[1] = queue[n + 1]
<1>1. Remaining(queue, n) = [i \in 1 .. Len(queue) - n |-> queue[i + n]]
  BY DEF Remaining
<1>2. \A i \in 1 .. Len(queue) - n : i + n \in DOMAIN queue /\ queue[i + n] \in Ids
  OBVIOUS
<1>. QED
  BY <1>1, <1>2

(* So the handle may keep the end of a queue it began to write. *)
LEMMA KeepPlaced ==
  ASSUME TypeOK, PlacedOnce, NEW s \in Services, NEW queue \in Seq(Ids),
         NEW n \in 0 .. Len(queue), n < Len(queue), NEW tail \in Text, NEW text \in Text,
         Flushable(s, queue), EndsWell(s, queue, n, tail),
         text \in Ids => text = queue[n + 1],
         LogBecomes(s, Flushed(s, queue, n), tail),
         Keep(s, Remaining(queue, n), n, text)
  PROVE  PlacedOnce'
<1> DEFINE rest == Remaining(queue, n)
<1>1. /\ rest \in Seq(Ids)
      /\ \A k \in DOMAIN rest : k + n \in DOMAIN queue /\ rest[k] = queue[k + n]
      /\ 1 \in DOMAIN rest /\ rest[1] = queue[n + 1]
  BY RemainingOrder
<1>2. held' = [held EXCEPT ![s] = rest] /\ partial' = [partial EXCEPT ![s] = text]
  BY DEF Keep
<1>. HIDE DEF rest
<1>3. text \in Ids => 1 \in DOMAIN rest /\ text = rest[1]
  BY <1>1
<1>. QED
  BY <1>1, <1>2, <1>3, FlushPlaced

(* Nothing, and a file without an unfinished line. *)
LEMMA EmptyRest ==
  <<>> \in Seq(Ids) /\ DOMAIN <<>> = {} /\ Empty \in Text /\ Empty \notin Ids
BY PipelineAssumption DEF Text

(* TailAfter keeps the end of the log only if nothing was written. *)
LEMMA TailAfterEnds ==
  ASSUME NEW s \in Services, NEW queue, NEW n
  PROVE  /\ TailAfter(s, n) \in Ids => n = 0 /\ TailAfter(s, n) = raw[s].tail
         /\ EndsWell(s, queue, n, TailAfter(s, n))
BY PipelineAssumption DEF TailAfter, EndsWell

(* No event has a place before one is emitted. *)
LEMMA PlaceInit == Init => PlaceInv
<1> SUFFICES ASSUME Init PROVE PlacedOnce
  BY DeliveryInit DEF PlaceInv
<1>1. \A s \in Services : /\ DOMAIN raw[s].lines = {} /\ raw[s].tail \notin Ids
                          /\ DOMAIN held[s] = {} /\ partial[s] \notin Ids
  <2>1. \A s \in Services : /\ raw[s].lines = <<>> /\ raw[s].tail = Empty
                            /\ held[s] = <<>> /\ partial[s] = Empty
    BY DEF Init
  <2>. QED
    BY <2>1, EmptyRest
<1>. QED
  BY <1>1 DEF PlacedOnce, LinesOnce, TailsOnce, HeldOnce, PartialIsFirst

(* A step gives an event the places of the one before, or takes them away. *)
LEMMA PlaceStep == PlaceInv /\ [Next]_vars => PlaceInv'
<1> SUFFICES ASSUME PlaceInv, [Next]_vars PROVE PlacedOnce'
  BY DeliveryStep DEF PlaceInv
<1>t. TypeOK /\ PlacedOnce
  BY DEF PlaceInv, DeliveryInv, OnceInv
<1>1. ASSUME NEW s \in Services, NEW e \in Ids, EmitWritten(s, e)
      PROVE  PlacedOnce'
  <2> DEFINE queue == Append(held[s], e)
  <2>1. queue \in Seq(Ids) /\ Flushable(s, queue) /\ Len(queue) \in 0 .. Len(queue)
    BY <1>1, HeldFlushable DEF EmitWritten, Taken
  <2>2. LogBecomes(s, Flushed(s, queue, Len(queue)), Empty) /\ KeepNothing(s)
    BY <1>1 DEF EmitWritten
  <2>3. EndsWell(s, queue, Len(queue), Empty)
    BY EmptyRest DEF EndsWell
  <2>. HIDE DEF queue
  <2>. QED
    BY <1>t, <2>1, <2>2, <2>3, EmptyRest, FlushPlaced DEF KeepNothing
<1>2. ASSUME NEW s \in Services, NEW e \in Ids, NEW n \in 0 .. BufferSize,
             NEW x \in Extents, EmitHeld(s, e, n, x)
      PROVE  PlacedOnce'
  <2> DEFINE queue == Append(held[s], e)
  <2>1. queue \in Seq(Ids) /\ Flushable(s, queue) /\ n < Len(queue)
    BY <1>2, HeldFlushable DEF EmitHeld, Taken
  <2>2. n \in 0 .. Len(queue) /\ queue[n + 1] \in Ids
    BY <2>1, PipelineAssumption
  <2>3. /\ LogBecomes(s, Flushed(s, queue, n), TailAfter(s, n))
        /\ Keep(s, Remaining(queue, n), n, Cut(queue[n + 1], x))
    BY <1>2 DEF EmitHeld
  <2>. HIDE DEF queue
  <2>4. Cut(queue[n + 1], x) \in Text
        /\ (Cut(queue[n + 1], x) \in Ids => Cut(queue[n + 1], x) = queue[n + 1])
    BY <2>2, CutType
  <2>5. TailAfter(s, n) \in Text /\ EndsWell(s, queue, n, TailAfter(s, n))
    BY <1>t, TailAfterType, TailAfterEnds DEF TypeOK
  <2>. QED
    BY <1>t, <2>1, <2>2, <2>3, <2>4, <2>5, KeepPlaced
<1>3. ASSUME NEW s \in Services, NEW e \in Ids, NEW n \in 0 .. BufferSize,
             NEW x \in Extents, EmitRefused(s, e, n, x)
      PROVE  PlacedOnce'
  <2>1. held[s] \in Seq(Ids) /\ Flushable(s, held[s]) /\ n < Len(held[s])
    BY <1>3, HeldFlushable DEF EmitRefused
  <2>2. n \in 0 .. Len(held[s]) /\ held[s][n + 1] \in Ids
    BY <2>1, PipelineAssumption
  <2>3. /\ LogBecomes(s, Flushed(s, held[s], n), TailAfter(s, n))
        /\ Keep(s, Remaining(held[s], n), n, Cut(held[s][n + 1], x))
    BY <1>3 DEF EmitRefused
  <2>4. Cut(held[s][n + 1], x) \in Text
        /\ (Cut(held[s][n + 1], x) \in Ids => Cut(held[s][n + 1], x) = held[s][n + 1])
    BY <2>2, CutType
  <2>5. TailAfter(s, n) \in Text /\ EndsWell(s, held[s], n, TailAfter(s, n))
    BY <1>t, TailAfterType, TailAfterEnds DEF TypeOK
  <2>. QED
    BY <1>t, <2>1, <2>2, <2>3, <2>4, <2>5, KeepPlaced
<1>4. ASSUME NEW s \in Services, NEW e \in Ids, NEW x \in Extents, EmitTorn(s, e, x)
      PROVE  PlacedOnce'
  <2>1. /\ held[s] \in Seq(Ids) /\ Flushable(s, held[s])
        /\ Len(held[s]) \in 0 .. Len(held[s])
        /\ NotInLogs(e) /\ NotHeldElsewhere(s, e)
        /\ \A j \in DOMAIN held[s] : held[s][j] # e
    BY <1>4, HeldFlushable DEF EmitTorn, Taken
  <2> DEFINE n == Len(held[s])
             tail == Glue(TailAfter(s, n), Cut(e, x))
  <2>2. LogBecomes(s, Flushed(s, held[s], n), tail) /\ KeepNothing(s)
    BY <1>4 DEF EmitTorn
  <2>3. /\ TailAfter(s, n) \in Text /\ Cut(e, x) \in Text
        /\ Cut(e, x) \in Ids => Cut(e, x) = e
    BY <1>t, TailAfterType, CutType DEF TypeOK
  <2>4. tail \in Text /\ EndsWell(s, held[s], n, tail)
    <3>1. tail \in Text /\ (tail \in Ids => tail \in {TailAfter(s, n), Cut(e, x)})
      BY <2>3, GlueFacts
    <3>2. TailAfter(s, n) \in Ids => n = 0 /\ TailAfter(s, n) = raw[s].tail
      BY TailAfterEnds
    <3>. HIDE DEF tail, n
    <3>. QED
      BY <2>1, <2>3, <3>1, <3>2 DEF EndsWell
  <2>. HIDE DEF tail
  <2>. QED
    BY <1>t, <2>1, <2>2, <2>4, EmptyRest, FlushPlaced DEF KeepNothing
<1>5. ASSUME NEW s \in Services, HoneypotStops(s)
      PROVE  PlacedOnce'
  <2>1. /\ held[s] \in Seq(Ids) /\ Flushable(s, held[s])
        /\ Len(held[s]) \in 0 .. Len(held[s])
    BY HeldFlushable
  <2>2. KeepNothing(s)
    BY <1>5 DEF HoneypotStops
  <2>3. CASE LogBecomes(s, Flushed(s, held[s], Len(held[s])), TailAfter(s, Len(held[s])))
    <3>1. /\ TailAfter(s, Len(held[s])) \in Text
          /\ EndsWell(s, held[s], Len(held[s]), TailAfter(s, Len(held[s])))
      BY <1>t, TailAfterType, TailAfterEnds DEF TypeOK
    <3>. QED
      BY <1>t, <2>1, <2>2, <2>3, <3>1, EmptyRest, FlushPlaced DEF KeepNothing
  <2>4. CASE LogBecomes(s, raw[s].lines, LastLine(s))
    <3>1. Flushed(s, <<>>, 0) = raw[s].lines
      <4>1. raw[s].lines \in Seq(Line)
        BY <1>t DEF TypeOK, Log
      <4>2. \A q \in Seq(Line) :
              q \o [i \in 1 .. 0 |-> IF i = 1 THEN Glue(raw[s].tail, <<>>[i]) ELSE <<>>[i]] = q
        OBVIOUS
      <4>. QED
        BY <4>1, <4>2 DEF Flushed
    <3>2. LastLine(s) \in Text
      BY <1>t, LastLineType
    <3>3. EndsWell(s, <<>>, 0, LastLine(s))
      <4> SUFFICES ASSUME LastLine(s) \in Ids, LastLine(s) # raw[s].tail
                   PROVE  NotInLogs(LastLine(s)) /\ NotHeldElsewhere(s, LastLine(s))
        BY EmptyRest DEF EndsWell
      <4>1. LastLine(s) = partial[s]
        BY <1>t, GlueFacts DEF LastLine, TypeOK, Log
      <4>2. 1 \in DOMAIN held[s] /\ partial[s] = held[s][1]
        BY <1>t, <4>1 DEF PlacedOnce, PartialIsFirst
      <4>. QED
        BY <1>t, <4>1, <4>2 DEF PlacedOnce, HeldOnce
    <3>4. Flushable(s, <<>>) /\ 0 \in 0 .. Len(<<>>)
      BY EmptyRest DEF Flushable
    <3>. QED
      BY <1>t, <2>2, <2>4, <3>1, <3>2, <3>3, <3>4, EmptyRest, FlushPlaced DEF KeepNothing
  <2>. QED
    BY <1>5, <2>3, <2>4 DEF HoneypotStops
<1>6. CASE UNCHANGED <<raw, held, partial>>
  BY <1>t, <1>6 DEF PlacedOnce, LinesOnce, TailsOnce, HeldOnce, PartialIsFirst,
                    NotInLogs, NotHeldElsewhere, Recorded
<1>. QED
  BY <1>1, <1>2, <1>3, <1>4, <1>5, <1>6
     DEF Next, vars, StartPass, PassRaises, AppendLine, AnalyzerStops, AnalyzerRestarts

(* No failed, repeated or interrupted flush makes EventSink write an event *)
(* twice, whatever the size of the buffer and wherever lines are cut.      *)
THEOREM PipelineRawOnce == Spec => []RawOnce
<1>1. PlaceInv => RawOnce
  <2> SUFFICES ASSUME PlaceInv, NEW s \in Services, NEW t \in Services,
                      NEW i \in Readables(s), NEW j \in Readables(t),
                      Readable(s, i) \in Ids, Readable(s, i) = Readable(t, j)
               PROVE  s = t /\ i = j
    BY DEF RawOnce
  <2>1. TypeOK /\ PlacedOnce
    BY DEF PlaceInv, DeliveryInv, OnceInv
  <2>2. ASSUME NEW u \in Services
        PROVE  /\ raw[u].lines \in Seq(Line) /\ Len(raw[u].lines) \in Nat
               /\ DOMAIN raw[u].lines = 1 .. Len(raw[u].lines)
               /\ raw[u].tail \in Text /\ partial[u] \in Text
    BY <2>1 DEF TypeOK, Log
  (* The unfinished line of a log is an event that is on no line. *)
  <2>3. ASSUME NEW u \in Services, LastLine(u) \in Ids
        PROVE  /\ LastLine(u) \notin Recorded
               /\ \/ LastLine(u) = raw[u].tail
                  \/ 1 \in DOMAIN held[u] /\ LastLine(u) = held[u][1]
    <3>1. LastLine(u) = raw[u].tail \/ LastLine(u) = partial[u]
      BY <2>2, <2>3, GlueFacts DEF LastLine
    <3>. QED
      BY <2>1, <2>3, <3>1 DEF PlacedOnce, TailsOnce, HeldOnce, PartialIsFirst, NotInLogs
  <2>4. ASSUME NEW u \in Services, NEW v \in Services, LastLine(u) \in Ids,
               LastLine(u) = LastLine(v)
        PROVE  u = v
    BY <2>1, <2>3, <2>4 DEF PlacedOnce, TailsOnce, HeldOnce, NotInLogs, NotHeldElsewhere
  <2>5. \A u \in Services : \A k \in DOMAIN raw[u].lines :
          raw[u].lines[k] \in Ids => raw[u].lines[k] \in Recorded
    BY DEF Recorded
  <2>6. CASE i \in DOMAIN raw[s].lines /\ j \in DOMAIN raw[t].lines
    BY <2>1, <2>6 DEF PlacedOnce, LinesOnce, Readable
  <2>7. CASE i \notin DOMAIN raw[s].lines /\ j \notin DOMAIN raw[t].lines
    <3>1. s = t
      BY <2>4, <2>7 DEF Readable
    <3>2. i = Len(raw[s].lines) + 1 /\ j = Len(raw[t].lines) + 1
      BY <2>2, <2>7 DEF Readables
    <3>. QED
      BY <3>1, <3>2
  <2>8. CASE i \in DOMAIN raw[s].lines /\ j \notin DOMAIN raw[t].lines
    BY <2>3, <2>5, <2>8 DEF Readable
  <2>9. CASE i \notin DOMAIN raw[s].lines /\ j \in DOMAIN raw[t].lines
    BY <2>3, <2>5, <2>9 DEF Readable
  <2>. QED
    BY <2>6, <2>7, <2>8, <2>9
<1>. QED
  BY <1>1, PlaceInit, PlaceStep, PTL DEF Spec

============================================================================
