----------------------------- MODULE EventSource -----------------------------
(***************************************************************************)
(* internal/transport/sseparse: the server-sent events of a response body, *)
(* decoded from reads that end anywhere.                                   *)
(*                                                                         *)
(* A body is a sequence of "cr", "nl" and words.  The first word of a line *)
(* is its field ("event", "data", ":" for a comment), the others are the   *)
(* value.                                                                  *)
(*                                                                         *)
(* A definition introduced by "Defect:" is not part of the model.  It is   *)
(* the definition that follows it with a plausible bug.                    *)
(***************************************************************************)
EXTENDS Integers, Sequences, SequencesExt

CONSTANT Bodies     \* the bodies a provider may answer with

VARIABLES
  body, taken,      \* the body, what was read of it
  buffer,           \* bytes without a line break
  sse,              \* decoderState: the event in progress
  heard,            \* history: the events handed to the callback
  tornBreak,        \* history: a read ended between the two halves of a line break
  sseStep           \* "reading", "ended" (io.EOF), "broken" (an error of a read,
                    \* of the callback, of the context)

sseVars == <<body, taken, buffer, sse, heard, tornBreak, sseStep>>

NoEvent == [event |-> <<>>, data |-> <<>>]

\* Position i of a body is the first half of a two-character line break.
BreakHalf(i) == i \in 1..(Len(body) - 1) /\ body[i] = "cr" /\ body[i + 1] = "nl"

\* flushSseEvent.
Flush(st) ==
  IF st.pending = NoEvent THEN st
  ELSE [st EXCEPT !.pending = NoEvent, !.out = Append(@, st.pending)]

\* decodeSseLine; an event of which only fields without a value came is none.
DecodeLine(line, st) ==
  CASE line = <<>>         -> Flush(st)
    [] line[1] = "event"   -> [st EXCEPT !.pending.event = Tail(line)]
    [] line[1] = "data"    -> [st EXCEPT !.pending.data = Append(@, Tail(line))]
    [] OTHER               -> st

\* Defect: the second half of a line break is a line break too.
DrainBothHalves(text, pending) ==
  LET step(acc, i) ==
        IF text[i] \notin {"cr", "nl"} THEN acc
        ELSE [next |-> i + 1, half |-> 0,
              st |-> DecodeLine(SubSeq(text, acc.next, i - 1), acc.st)]
  IN FoldLeft(step, [next |-> 1, half |-> 0, st |-> [pending |-> pending, out |-> <<>>]],
              [i \in DOMAIN text |-> i])

\* drainCompleteLines: every complete line is decoded; half is the second half of a line
\* break that is in the buffer with the first.
Drain(text, pending) ==
  LET step(acc, i) ==
        CASE i = acc.half -> [acc EXCEPT !.next = i + 1]
          [] i # acc.half /\ text[i] \in {"cr", "nl"} ->
               [next |-> i + 1,
                half |-> IF text[i] = "cr" /\ i < Len(text) /\ text[i + 1] = "nl" THEN i + 1 ELSE 0,
                st |-> DecodeLine(SubSeq(text, acc.next, i - 1), acc.st)]
          [] OTHER -> acc
  IN FoldLeft(step, [next |-> 1, half |-> 0, st |-> [pending |-> pending, out |-> <<>>]],
              [i \in DOMAIN text |-> i])

\* What follows the last complete line.
Rest(text, drained) == SubSeq(text, drained.next, Len(text))

SseInit ==
  /\ body \in Bodies /\ taken = 0 /\ buffer = <<>> /\ sse = NoEvent
  /\ heard = <<>> /\ tornBreak = FALSE /\ sseStep = "reading"

\* One read of n bytes; the callback may refuse one of the events they complete, which
\* ends the decoding with its error.
Read(n) ==
  /\ sseStep = "reading" /\ taken + n <= Len(body) /\ taken' = taken + n
  /\ LET text == buffer \o SubSeq(body, taken + 1, taken + n)
         drained == Drain(text, sse)
     IN /\ buffer' = Rest(text, drained) /\ sse' = drained.st.pending
        /\ \/ heard' = heard \o drained.st.out /\ UNCHANGED sseStep
           \/ \E k \in DOMAIN drained.st.out :
                heard' = heard \o SubSeq(drained.st.out, 1, k) /\ sseStep' = "broken"
  /\ tornBreak' = (tornBreak \/ BreakHalf(taken + n))
  /\ UNCHANGED body

\* io.EOF: the rest is a line, and what is in progress an event, which the callback may
\* refuse too.
ReadEnd ==
  /\ sseStep = "reading" /\ taken = Len(body)
  /\ LET st == [pending |-> sse, out |-> <<>>]
         out == Flush(IF buffer = <<>> THEN st ELSE DecodeLine(buffer, st)).out
     IN /\ heard' = heard \o out
        /\ sseStep' = "ended" \/ (out # <<>> /\ sseStep' = "broken")
  /\ sse' = NoEvent
  /\ UNCHANGED <<body, taken, buffer, tornBreak>>

ReadFails ==
  /\ sseStep = "reading" /\ sseStep' = "broken"
  /\ UNCHANGED <<body, taken, buffer, sse, heard, tornBreak>>

SseNext == (\E n \in 1..Len(body) : Read(n)) \/ ReadEnd \/ ReadFails
SseSpec == SseInit /\ [][SseNext]_sseVars

----------------------------------------------------------------------------
(* Properties                                                              *)

\* The lines of the body, by any of the three line breaks.
BodyLines ==
  LET ends == {i \in DOMAIN body : body[i] \in {"cr", "nl"} /\ ~BreakHalf(i)}
      words(from, to) == SelectSeq(SubSeq(body, from, to), LAMBDA w : w \notin {"cr", "nl"})
      first(i) == 1 + (IF \E e \in ends : e < i
                       THEN CHOOSE e \in ends : e < i /\ \A f \in ends : f < i => f <= e ELSE 0)
      stops == SelectSeq([i \in 1..(Len(body) + 1) |-> i],
                         LAMBDA i : i \in ends \/ i = Len(body) + 1)
  IN [k \in DOMAIN stops |-> words(first(stops[k]), IF stops[k] > Len(body) THEN Len(body) ELSE stops[k])]

\* The events of the body: one for the lines between two blank ones, its type the last
\* one given, its data all that was.
EventsOfBody ==
  LET lines == BodyLines
      of(from, to) == LET part == SubSeq(lines, from, to)
                          types == SelectSeq(part, LAMBDA l : l # <<>> /\ l[1] = "event")
                          data == SelectSeq(part, LAMBDA l : l # <<>> /\ l[1] = "data")
                      IN [event |-> IF types = <<>> THEN <<>> ELSE Tail(Last(types)),
                          data |-> [k \in DOMAIN data |-> Tail(data[k])]]
      blank(k) == k = 0 \/ k = Len(lines) + 1 \/ lines[k] = <<>>
      starts == SelectSeq([k \in 1..(Len(lines) + 1) |-> k - 1],
                          LAMBDA k : blank(k))
      stop(k) == CHOOSE m \in (k + 1)..(Len(lines) + 1) :
                   blank(m) /\ \A j \in (k + 1)..(m - 1) : ~blank(j)
  IN SelectSeq([n \in DOMAIN starts |-> of(starts[n] + 1, stop(starts[n]) - 1)],
               LAMBDA e : e # NoEvent)

\* The events are those of the body whatever the reads are, as long as none ends between
\* the two halves of a line break; before the end they are the first of them
\* (drainCompleteLines, IterateSSE).
EventsAreWhole ==
  ~tornBreak =>
    /\ IsPrefix(heard, EventsOfBody)
    /\ sseStep = "ended" => heard = EventsOfBody
=============================================================================
