---------------------------- MODULE EventStream ----------------------------
(***************************************************************************)
(* Stream[T,R] of internal/engine/stream/stream.go: an unbounded queue     *)
(* under a mutex, a dispatch goroutine that moves it to a buffered channel *)
(* and a result resolved at most once.  Every critical section of the      *)
(* mutex is one step, as is every channel operation.                       *)
(*                                                                         *)
(* There is one producer, as the package requires: the code calls Push,    *)
(* End and EndWith of one stream from goroutines that are ordered by       *)
(* happens-before.  The consumer of Events() is one goroutine that may     *)
(* stop at any time (streamAssistantResponse does after a listener error,  *)
(* Retrier.produce when its context is cancelled) or never start           *)
(* (runSummarization calls only Result).                                   *)
(*                                                                         *)
(* A definition introduced by "Defect:" is not part of the model.  It is   *)
(* the definition that follows it with a plausible bug.                    *)
(***************************************************************************)
EXTENDS Naturals, Sequences

CONSTANTS
  Deltas,       \* events that do not complete the stream, each pushed once
  Terminals,    \* completing events; extract maps each to itself
  Explicit,     \* results given to EndWith
  Waiters,      \* goroutines that call Result
  Capacity      \* capacity of the events channel, 64 in the code

ASSUME EventStreamAssumption == Capacity \in Nat \ {0}

None == "none"
NoResult == "ErrNoResult"
CtxErr == "ctx.Err"
Events == Deltas \cup Terminals
Results == Terminals \cup Explicit \cup {NoResult}

\* A result is neither the absence of one nor the error of a context.
ASSUME ResultsAssumption == Results \cap {None, CtxErr} = {}

VARIABLES
  queue, closed, result,       \* Stream fields, under Stream.mu
  channel, channelClosed,      \* the events channel
  dispatch, hand,              \* the dispatch goroutine, the event it holds
  reader, received,            \* the consumer of Events(), what it received
  asked, got, cancelled,       \* callers of Result, their answers, their contexts
  accepted, pushed             \* history: events queued, events pushed

streamVars == <<queue, closed, result>>
channelVars == <<channel, channelClosed>>
vars == <<streamVars, channelVars, dispatch, hand, reader, received, asked, got, cancelled,
          accepted, pushed>>

Init ==
  /\ queue = <<>> /\ closed = FALSE /\ result = None
  /\ channel = <<>> /\ channelClosed = FALSE
  /\ dispatch = "check" /\ hand = <<>>
  /\ reader = "reading" /\ received = <<>>
  /\ asked = [w \in Waiters |-> "no"] /\ got = [w \in Waiters |-> None]
  /\ cancelled = [w \in Waiters |-> FALSE]
  /\ accepted = <<>> /\ pushed = {}

\* cond.Signal: a parked dispatch goroutine takes the mutex again.
Signal == dispatch' = IF dispatch = "parked" THEN "check" ELSE dispatch

\* finishLocked under once: the first finish wins.
Finish(r) == closed' = TRUE /\ result' = r

\* Defect: a pushed event does not wake dispatch.
PushSilently(e) ==
  /\ e \notin pushed /\ pushed' = pushed \cup {e}
  /\ IF closed THEN UNCHANGED <<queue, accepted, closed, result>>
     ELSE /\ queue' = Append(queue, e) /\ accepted' = Append(accepted, e)
          /\ IF e \in Terminals THEN Finish(e) ELSE UNCHANGED <<closed, result>>
  /\ UNCHANGED <<channelVars, dispatch, hand, reader, received, asked, got, cancelled>>

\* Defect: the stream finishes again with every completing event.
PushReopens(e) ==
  /\ e \notin pushed /\ pushed' = pushed \cup {e}
  /\ IF closed /\ e \notin Terminals THEN UNCHANGED <<queue, accepted, closed, result, dispatch>>
     ELSE /\ queue' = Append(queue, e) /\ accepted' = Append(accepted, e) /\ Signal
          /\ IF e \in Terminals THEN Finish(e) ELSE UNCHANGED <<closed, result>>
  /\ UNCHANGED <<channelVars, hand, reader, received, asked, got, cancelled>>

Push(e) ==
  /\ e \notin pushed
  /\ pushed' = pushed \cup {e}
  /\ IF closed
     THEN UNCHANGED <<queue, accepted, closed, result, dispatch>>
     ELSE /\ queue' = Append(queue, e)
          /\ accepted' = Append(accepted, e)
          /\ IF e \in Terminals THEN Finish(e) ELSE UNCHANGED <<closed, result>>
          /\ Signal
  /\ UNCHANGED <<channelVars, hand, reader, received, asked, got, cancelled>>

\* Defect: finish is not guarded by once.
EndStreamAgain(r) ==
  /\ Finish(r)
  /\ Signal
  /\ UNCHANGED <<queue, channelVars, hand, reader, received, asked, got, cancelled,
                 accepted, pushed>>

\* End and EndWith.
EndStream(r) ==
  /\ ~closed
  /\ Finish(r)
  /\ Signal
  /\ UNCHANGED <<queue, channelVars, hand, reader, received, asked, got, cancelled,
                 accepted, pushed>>

\* Defect: the channel is closed as soon as the stream is.
TakeEagerly ==
  /\ dispatch = "check"
  /\ \/ /\ closed /\ dispatch' = "exited" /\ channelClosed' = TRUE /\ UNCHANGED <<queue, hand>>
     \/ /\ queue = <<>> /\ ~closed /\ dispatch' = "parked" /\ UNCHANGED <<queue, hand, channelClosed>>
     \/ /\ queue # <<>> /\ ~closed /\ hand' = <<Head(queue)>> /\ queue' = Tail(queue)
        /\ dispatch' = "send" /\ UNCHANGED channelClosed
  /\ UNCHANGED <<closed, result, channel, reader, received, asked, got, cancelled, accepted, pushed>>

\* dispatch under the mutex: wait, exit, or pop the head.
Take ==
  /\ dispatch = "check"
  /\ \/ /\ queue = <<>> /\ ~closed
        /\ dispatch' = "parked"
        /\ UNCHANGED <<queue, hand, channelClosed>>
     \/ /\ queue = <<>> /\ closed
        /\ dispatch' = "exited"
        /\ channelClosed' = TRUE
        /\ UNCHANGED <<queue, hand>>
     \/ /\ queue # <<>>
        /\ hand' = <<Head(queue)>>
        /\ queue' = Tail(queue)
        /\ dispatch' = "send"
        /\ UNCHANGED channelClosed
  /\ UNCHANGED <<closed, result, channel, reader, received, asked, got, cancelled,
                 accepted, pushed>>

\* dispatch outside the mutex: the send blocks while the channel is full.
Send ==
  /\ dispatch = "send"
  /\ Len(channel) < Capacity
  /\ channel' = channel \o hand
  /\ hand' = <<>>
  /\ dispatch' = "check"
  /\ UNCHANGED <<streamVars, channelClosed, reader, received, asked, got, cancelled,
                 accepted, pushed>>

Receive ==
  /\ reader = "reading"
  /\ channel # <<>>
  /\ received' = Append(received, Head(channel))
  /\ channel' = Tail(channel)
  /\ UNCHANGED <<streamVars, channelClosed, dispatch, hand, reader, asked, got, cancelled,
                 accepted, pushed>>

RangeEnds ==
  /\ reader = "reading"
  /\ channel = <<>> /\ channelClosed
  /\ reader' = "ended"
  /\ UNCHANGED <<streamVars, channelVars, dispatch, hand, received, asked, got, cancelled,
                 accepted, pushed>>

Leave ==
  /\ reader = "reading"
  /\ reader' = "left"
  /\ UNCHANGED <<streamVars, channelVars, dispatch, hand, received, asked, got, cancelled,
                 accepted, pushed>>

\* Defect: the context is looked at first.
AskCancelledFirst(w) ==
  /\ asked[w] = "no"
  /\ asked' = [asked EXCEPT ![w] = IF cancelled[w] \/ closed THEN "answered" ELSE "waiting"]
  /\ got' = IF cancelled[w] THEN [got EXCEPT ![w] = CtxErr]
            ELSE IF closed THEN [got EXCEPT ![w] = result] ELSE got
  /\ UNCHANGED <<streamVars, channelVars, dispatch, hand, reader, received, cancelled, accepted, pushed>>

\* Result: a stream that is done answers even under a cancelled context.
Ask(w) ==
  /\ asked[w] = "no"
  /\ asked' = [asked EXCEPT ![w] = IF closed THEN "answered" ELSE "waiting"]
  /\ got' = IF closed THEN [got EXCEPT ![w] = result] ELSE got
  /\ UNCHANGED <<streamVars, channelVars, dispatch, hand, reader, received, cancelled,
                 accepted, pushed>>

Answer(w) ==
  /\ asked[w] = "waiting"
  /\ closed
  /\ asked' = [asked EXCEPT ![w] = "answered"]
  /\ got' = [got EXCEPT ![w] = result]
  /\ UNCHANGED <<streamVars, channelVars, dispatch, hand, reader, received, cancelled,
                 accepted, pushed>>

GiveUp(w) ==
  /\ asked[w] = "waiting"
  /\ cancelled[w]
  /\ asked' = [asked EXCEPT ![w] = "answered"]
  /\ got' = [got EXCEPT ![w] = CtxErr]
  /\ UNCHANGED <<streamVars, channelVars, dispatch, hand, reader, received, cancelled,
                 accepted, pushed>>

Cancel(w) ==
  /\ ~cancelled[w]
  /\ cancelled' = [cancelled EXCEPT ![w] = TRUE]
  /\ UNCHANGED <<streamVars, channelVars, dispatch, hand, reader, received, asked, got,
                 accepted, pushed>>

Produce == (\E e \in Events : Push(e)) \/ (\E r \in Explicit \cup {NoResult} : EndStream(r))
Dispatch == Take \/ Send
Consume == Receive \/ RangeEnds

Next ==
  \/ Produce \/ Dispatch \/ Consume \/ Leave
  \/ \E w \in Waiters : Ask(w) \/ Answer(w) \/ GiveUp(w) \/ Cancel(w)

Spec == Init /\ [][Next]_vars

\* The goroutines run; the consumer reads what it can while it stays; the
\* producer ends its stream eventually (every provider stream does).
Fairness ==
  /\ WF_vars(Dispatch)
  /\ WF_vars(Consume)
  /\ WF_vars(Produce)
  /\ \A w \in Waiters : WF_vars(Answer(w))

FairSpec == Spec /\ Fairness
-----------------------------------------------------------------------------
TypeOK ==
  /\ queue \in Seq(Events) /\ closed \in BOOLEAN /\ result \in Results \cup {None}
  /\ channel \in Seq(Events) /\ channelClosed \in BOOLEAN
  /\ dispatch \in {"check", "parked", "send", "exited"}
  /\ hand \in Seq(Events) /\ Len(hand) = (IF dispatch = "send" THEN 1 ELSE 0)
  /\ reader \in {"reading", "ended", "left"} /\ received \in Seq(Events)
  /\ asked \in [Waiters -> {"no", "waiting", "answered"}]
  /\ got \in [Waiters -> Results \cup {None, CtxErr}]
  /\ cancelled \in [Waiters -> BOOLEAN]
  /\ accepted \in Seq(Events) /\ pushed \subseteq Events

\* The stream is resolved before its completing event can be seen: the loop calls
\* Result on receiving it and must not block, whatever its context.
ResolvedBeforeSeen ==
  \A i \in DOMAIN received : received[i] \in Terminals =>
    closed /\ result = received[i] /\ i = Len(accepted)

\* All callers of Result that are not cut off by their context get the same answer,
\* the one of the first finish.
OneResult ==
  \A w \in Waiters : got[w] \notin {None, CtxErr} => closed /\ got[w] = result

\* A caller that asks after the consumer has seen the end of the stream never gets
\* its own context's error instead of the result (assistantResult relies on it).
EndBeatsCancel ==
  [][\A w \in Waiters :
       (reader = "ended" /\ asked[w] = "no" /\ asked'[w] # "no") => got'[w] = result]_vars

Feed == INSTANCE EventFeed WITH
  Published <- Events, Outcomes <- Results,
  log <- accepted, seen <- received, outcome <- result, closed <- (reader = "ended")
ImplementsEventFeed == Feed!Spec

\* Once the stream has ended, a consumer that stays receives everything accepted and
\* its range over Events() ends; a caller of Result gets its answer, whether or not
\* anybody consumes the events.
EndReachesAll ==
  /\ closed ~> (reader = "left" \/ (reader = "ended" /\ received = accepted))
  /\ \A w \in Waiters : asked[w] = "waiting" ~> asked[w] = "answered"
=============================================================================
