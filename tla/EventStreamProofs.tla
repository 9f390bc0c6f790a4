------------------------- MODULE EventStreamProofs -------------------------
(***************************************************************************)
(* What is proved about EventStream for every set of events, results and   *)
(* callers and every capacity: its invariant, the three safety properties  *)
(* of the runs and the refinement of EventFeed.                            *)
(*                                                                         *)
(* The invariant splits what Push accepted into what was received, what is *)
(* in the channel, in dispatch's hand and in the queue, in this order      *)
(* (Pipe).  What else it says ties the end of the stream to its result     *)
(* (Resolved, LastTerminal) and the end of the range to the end of the     *)
(* stream (Drained).                                                       *)
(***************************************************************************)
EXTENDS EventStream, SequenceTheorems, TLAPS

Pipe == accepted = received \o (channel \o (hand \o queue))

Resolved == IF closed THEN result \in Results ELSE result = None

LastTerminal ==
  \A i \in DOMAIN accepted : accepted[i] \in Terminals =>
    closed /\ result = accepted[i] /\ i = Len(accepted)

\* dispatch exits when nothing can follow, and the range ends after that.
Drained ==
  /\ dispatch = "exited" <=> channelClosed
  /\ channelClosed => closed /\ queue = <<>>
  /\ reader = "ended" => channelClosed /\ channel = <<>>

Inv == TypeOK /\ Pipe /\ Resolved /\ LastTerminal /\ Drained /\ OneResult

(***************************************************************************)
(* Moving an event along the pipe.                                         *)
(***************************************************************************)
\* A sequence is its head and its tail.
LEMMA HeadTailConcat ==
  ASSUME NEW S, NEW q \in Seq(S), q # <<>>
  PROVE  q = <<Head(q)>> \o Tail(q)
<1>1. /\ Head(q) \in S /\ Tail(q) \in Seq(S) /\ Len(Tail(q)) = Len(q) - 1
      /\ \A i \in 1..Len(Tail(q)) : Tail(q)[i] = q[i + 1]
  BY HeadTailProperties
<1>2. <<Head(q)>> \in Seq(S) /\ Len(<<Head(q)>>) = 1 /\ <<Head(q)>>[1] = Head(q)
  BY <1>1
<1>3. Len(q) \in Nat \ {0} /\ Head(q) = q[1]
  BY EmptySeq
<1> DEFINE p == <<Head(q)>> \o Tail(q)
<1>4. p \in Seq(S) /\ Len(p) = Len(q)
  BY <1>1, <1>2, <1>3, ConcatProperties
<1>5. ASSUME NEW i \in 1..Len(q) PROVE q[i] = p[i]
  <2>1. p[i] = IF i <= 1 THEN <<Head(q)>>[i] ELSE Tail(q)[i - 1]
    BY <1>1, <1>2, <1>3, ConcatProperties
  <2> QED BY <2>1, <1>1, <1>2, <1>3
<1> QED BY <1>4, <1>5, SeqEqual

\* Taking the head of the queue.
LEMMA PipeTake ==
  ASSUME NEW q \in Seq(Events), q # <<>>
  PROVE  <<>> \o q = <<Head(q)>> \o Tail(q)
BY HeadTailConcat, ConcatEmptySeq

\* Sending what is in hand.
LEMMA PipeSend ==
  ASSUME NEW c \in Seq(Events), NEW h \in Seq(Events), NEW q \in Seq(Events)
  PROVE  c \o (h \o q) = (c \o h) \o (<<>> \o q)
BY ConcatAssociative, ConcatEmptySeq

\* Concatenation is associative, for sequences of events.
LEMMA EventsAssociate ==
  \A u, v, w \in Seq(Events) : (u \o v) \o w = u \o (v \o w)
BY ConcatAssociative, SMT

\* Receiving the head of the channel.
LEMMA PipeReceive ==
  ASSUME NEW r \in Seq(Events), NEW c \in Seq(Events), c # <<>>, NEW t \in Seq(Events)
  PROVE  r \o (c \o t) = Append(r, Head(c)) \o (Tail(c) \o t)
<1> DEFINE h == <<Head(c)>>
<1>1. Head(c) \in Events /\ Tail(c) \in Seq(Events) /\ h \in Seq(Events)
  BY HeadTailProperties
<1>2. c = h \o Tail(c)
  BY HeadTailConcat
<1>3. Append(r, Head(c)) = r \o h
  BY <1>1, AppendIsConcat
<1>4. Tail(c) \o t \in Seq(Events)
  BY <1>1, ConcatProperties
<1> HIDE DEF h
<1>5. (h \o Tail(c)) \o t = h \o (Tail(c) \o t)
  <2>1. \A v, w \in Seq(Events) : (h \o v) \o w = h \o (v \o w)
    BY <1>1, EventsAssociate, Zenon
  <2> QED BY <1>1, <2>1, Zenon
<1>6. (r \o h) \o (Tail(c) \o t) = r \o (h \o (Tail(c) \o t))
  <2>1. \A v, w \in Seq(Events) : (r \o v) \o w = r \o (v \o w)
    BY EventsAssociate, Zenon
  <2>2. \A w \in Seq(Events) : (r \o h) \o w = r \o (h \o w)
    BY <1>1, <2>1, Zenon
  <2> QED BY <1>4, <2>2, Zenon
<1> QED BY <1>2, <1>3, <1>5, <1>6, Zenon

\* Appending to the second of two parts.
LEMMA ConcatAppend ==
  \A a, b \in Seq(Events), e \in Events :
    a \o b \in Seq(Events) /\ Append(a \o b, e) = a \o Append(b, e)
<1> SUFFICES ASSUME NEW a \in Seq(Events), NEW b \in Seq(Events), NEW e \in Events
             PROVE  a \o b \in Seq(Events) /\ Append(a \o b, e) = a \o Append(b, e)
  OBVIOUS
<1> DEFINE l == <<e>>
<1>1. l \in Seq(Events) /\ a \o b \in Seq(Events)
  BY ConcatProperties
<1>2. Append(a \o b, e) = (a \o b) \o l /\ Append(b, e) = b \o l
  BY <1>1, AppendIsConcat
<1> HIDE DEF l
<1>3. (a \o b) \o l = a \o (b \o l)
  BY <1>1, EventsAssociate, Zenon
<1> QED BY <1>1, <1>2, <1>3, Zenon

\* What is in the pipe's first part is at the front of the whole.
LEMMA PipeFront ==
  ASSUME NEW r \in Seq(Events), NEW c \in Seq(Events), NEW t \in Seq(Events)
  PROVE  /\ \A i \in 1..Len(r) : (r \o (c \o t))[i] = r[i]
         /\ Len(r) <= Len(r \o (c \o t))
         /\ c # <<>> => /\ Len(r) < Len(r \o (c \o t))
                        /\ (r \o (c \o t))[Len(r) + 1] = Head(c)
<1>1. c \o t \in Seq(Events) /\ Len(c \o t) = Len(c) + Len(t)
  BY ConcatProperties
<1>2. /\ Len(r \o (c \o t)) = Len(r) + Len(c \o t)
      /\ \A i \in 1..(Len(r) + Len(c \o t)) :
           (r \o (c \o t))[i] = IF i <= Len(r) THEN r[i] ELSE (c \o t)[i - Len(r)]
  BY <1>1, ConcatProperties
<1>3. Len(r) \in Nat /\ Len(c) \in Nat /\ Len(t) \in Nat
  OBVIOUS
<1>4. ASSUME c # <<>> PROVE Len(c) >= 1 /\ (c \o t)[1] = Head(c)
  <2>1. Len(c) \in Nat \ {0}
    BY <1>4, EmptySeq
  <2>2. (c \o t)[1] = c[1]
    BY <2>1, <1>3, ConcatProperties
  <2> QED BY <2>1, <2>2
<1> QED BY <1>1, <1>2, <1>3, <1>4

(***************************************************************************)
(* The invariant.                                                          *)
(***************************************************************************)
\* The parts of the pipe are sequences of events.
LEMMA PipeTypes ==
  ASSUME TypeOK
  PROVE  /\ queue \in Seq(Events) /\ channel \in Seq(Events) /\ hand \in Seq(Events)
         /\ received \in Seq(Events) /\ accepted \in Seq(Events)
         /\ hand \o queue \in Seq(Events)
         /\ dispatch # "send" => hand = <<>>
<1>1. hand \o queue \in Seq(Events)
  BY ConcatProperties DEF TypeOK
<1>2. dispatch # "send" => hand = <<>>
  BY EmptySeq DEF TypeOK
<1> QED BY <1>1, <1>2 DEF TypeOK

\* A new stream satisfies the invariant.
LEMMA InitInv == Init => Inv
<1> SUFFICES ASSUME Init PROVE Inv
  OBVIOUS
<1>1. TypeOK
  <2>1. <<>> \in Seq(Events) /\ Len(<<>>) = 0
    BY EmptySeq
  <2>2. /\ [w \in Waiters |-> "no"] \in [Waiters -> {"no", "waiting", "answered"}]
        /\ [w \in Waiters |-> None] \in [Waiters -> Results \cup {None, CtxErr}]
        /\ [w \in Waiters |-> FALSE] \in [Waiters -> BOOLEAN]
    OBVIOUS
  <2>3. /\ asked \in [Waiters -> {"no", "waiting", "answered"}]
        /\ got \in [Waiters -> Results \cup {None, CtxErr}]
        /\ cancelled \in [Waiters -> BOOLEAN]
    BY <2>2, Zenon DEF Init
  <2>4. /\ queue = <<>> /\ channel = <<>> /\ hand = <<>> /\ received = <<>>
        /\ accepted = <<>> /\ pushed = {} /\ closed = FALSE /\ channelClosed = FALSE
        /\ result = None /\ dispatch = "check" /\ reader = "reading"
    BY DEF Init
  <2>5. /\ queue \in Seq(Events) /\ channel \in Seq(Events) /\ hand \in Seq(Events)
        /\ received \in Seq(Events) /\ accepted \in Seq(Events) /\ Len(hand) = 0
    BY <2>1, <2>4, Zenon
  <2>6. /\ closed \in BOOLEAN /\ channelClosed \in BOOLEAN /\ result \in Results \cup {None}
        /\ dispatch \in {"check", "parked", "send", "exited"} /\ dispatch # "send"
        /\ reader \in {"reading", "ended", "left"} /\ pushed \subseteq Events
    BY <2>4
  <2> QED BY <2>3, <2>5, <2>6, Zenon DEF TypeOK
<1>2. Pipe
  <2>1. <<>> \o <<>> = <<>>
    BY ConcatEmptySeq, EmptySeq
  <2> QED BY <2>1 DEF Init, Pipe
<1>3. Resolved /\ LastTerminal /\ Drained /\ OneResult
  BY DEF Init, Resolved, LastTerminal, Drained, OneResult
<1> QED BY <1>1, <1>2, <1>3 DEF Inv

\* What the callers of Result do.
Asking(w) == Ask(w) \/ Answer(w) \/ GiveUp(w) \/ Cancel(w)

\* They leave the stream alone.
LEMMA AskingAside ==
  ASSUME NEW w \in Waiters, Asking(w)
  PROVE  UNCHANGED <<streamVars, channelVars, dispatch, hand, reader, received, accepted, pushed>>
BY DEF Asking, Ask, Answer, GiveUp, Cancel

\* Every variable keeps its type.
LEMMA StepTypes ==
  ASSUME Inv, [Next]_vars
  PROVE  TypeOK'
<1> USE DEF Inv
<1>1. ASSUME NEW e \in Events, Push(e) PROVE TypeOK'
  <2>1. Append(queue, e) \in Seq(Events) /\ Append(accepted, e) \in Seq(Events)
    BY AppendProperties DEF TypeOK
  <2>2. /\ queue' \in Seq(Events) /\ accepted' \in Seq(Events) /\ pushed' \subseteq Events
        /\ closed' \in BOOLEAN /\ result' \in Results \cup {None}
    BY <1>1, <2>1 DEF Push, Finish, TypeOK, Results
  <2>3. /\ dispatch' \in {"check", "parked", "send", "exited"}
        /\ dispatch' = "send" <=> dispatch = "send"
    BY <1>1 DEF Push, Signal, TypeOK
  <2> QED BY <1>1, <2>2, <2>3 DEF Push, TypeOK, channelVars
<1>2. ASSUME NEW r \in Explicit \cup {NoResult}, EndStream(r) PROVE TypeOK'
  BY <1>2 DEF EndStream, Signal, Finish, TypeOK, Results, channelVars
<1>3. CASE Take
  <2>1. CASE queue = <<>>
    BY <1>3, <2>1 DEF Take, TypeOK
  <2>2. CASE queue # <<>>
    <3>1. Head(queue) \in Events /\ Tail(queue) \in Seq(Events)
      BY <2>2, HeadTailProperties DEF TypeOK
    <3>2. <<Head(queue)>> \in Seq(Events) /\ Len(<<Head(queue)>>) = 1
      BY <3>1
    <3> QED BY <1>3, <2>2, <3>1, <3>2 DEF Take, TypeOK
  <2> QED BY <2>1, <2>2
<1>4. CASE Send
  <2>1. channel \o hand \in Seq(Events)
    BY ConcatProperties DEF TypeOK
  <2> QED BY <1>4, <2>1 DEF Send, TypeOK, streamVars
<1>5. CASE Receive
  <2>1. Head(channel) \in Events /\ Tail(channel) \in Seq(Events)
    BY <1>5, HeadTailProperties DEF Receive, TypeOK
  <2> QED BY <1>5, <2>1 DEF Receive, TypeOK, streamVars
<1>6. CASE RangeEnds \/ Leave
  BY <1>6 DEF RangeEnds, Leave, TypeOK, streamVars, channelVars
<1>7. ASSUME NEW w \in Waiters, Asking(w) PROVE TypeOK'
  <2>1. closed => result \in Results
    BY DEF Resolved
  <2>2. /\ asked' \in [Waiters -> {"no", "waiting", "answered"}]
        /\ got' \in [Waiters -> Results \cup {None, CtxErr}]
        /\ cancelled' \in [Waiters -> BOOLEAN]
    BY <1>7, <2>1 DEF Asking, Ask, Answer, GiveUp, Cancel, TypeOK
  <2> QED BY <1>7, <2>2, AskingAside DEF TypeOK, streamVars, channelVars
<1>8. CASE UNCHANGED vars
  BY <1>8 DEF vars, TypeOK, streamVars, channelVars
<1> QED
  BY <1>1, <1>2, <1>3, <1>4, <1>5, <1>6, <1>7, <1>8 DEF Next, Produce, Dispatch, Consume, Asking

\* The pipe keeps the order and loses nothing.
LEMMA StepPipe ==
  ASSUME Inv, [Next]_vars
  PROVE  Pipe'
<1>0. /\ queue \in Seq(Events) /\ channel \in Seq(Events) /\ hand \in Seq(Events)
      /\ received \in Seq(Events) /\ hand \o queue \in Seq(Events)
      /\ dispatch # "send" => hand = <<>>
      /\ accepted = received \o (channel \o (hand \o queue))
  BY PipeTypes DEF Inv, Pipe
<1>1. ASSUME NEW e \in Events, Push(e) PROVE Pipe'
  <2>1. CASE closed
    BY <1>0, <1>1, <2>1 DEF Push, Pipe, channelVars
  <2>2. CASE ~closed
    <3>1. /\ queue' = Append(queue, e) /\ accepted' = Append(accepted, e)
          /\ UNCHANGED <<received, channel, hand>>
      BY <1>1, <2>2 DEF Push, channelVars
    <3>2. /\ Append(hand \o queue, e) = hand \o Append(queue, e)
          /\ hand \o queue \in Seq(Events)
      BY <1>0, <1>1, ConcatAppend, Zenon
    <3>3. /\ Append(channel \o (hand \o queue), e) = channel \o Append(hand \o queue, e)
          /\ channel \o (hand \o queue) \in Seq(Events)
      BY <1>0, <1>1, <3>2, ConcatAppend, Zenon
    <3>4. Append(received \o (channel \o (hand \o queue)), e)
            = received \o Append(channel \o (hand \o queue), e)
      BY <1>0, <1>1, <3>3, ConcatAppend, Zenon
    <3> QED BY <1>0, <3>1, <3>2, <3>3, <3>4, Zenon DEF Pipe
  <2> QED BY <2>1, <2>2
<1>2. CASE Take
  <2>1. CASE queue = <<>>
    <3>1. UNCHANGED <<queue, hand, received, channel, accepted>>
      BY <1>2, <2>1 DEF Take
    <3> QED BY <1>0, <3>1 DEF Pipe
  <2>2. CASE queue # <<>>
    <3>1. /\ hand' = <<Head(queue)>> /\ queue' = Tail(queue) /\ hand = <<>>
          /\ UNCHANGED <<received, channel, accepted>>
      BY <1>0, <1>2, <2>2 DEF Take
    <3>2. <<>> \o queue = <<Head(queue)>> \o Tail(queue)
      BY <1>0, <2>2, PipeTake, Zenon
    <3> QED BY <1>0, <3>1, <3>2, Zenon DEF Pipe
  <2> QED BY <2>1, <2>2
<1>3. CASE Send
  <2>1. /\ channel' = channel \o hand /\ hand' = <<>>
        /\ UNCHANGED <<queue, received, accepted>>
    BY <1>3 DEF Send, streamVars
  <2>2. channel \o (hand \o queue) = (channel \o hand) \o (<<>> \o queue)
    BY <1>0, PipeSend, Zenon
  <2> QED BY <1>0, <2>1, <2>2, Zenon DEF Pipe
<1>4. CASE Receive
  <2>1. /\ received' = Append(received, Head(channel)) /\ channel' = Tail(channel)
        /\ channel # <<>> /\ UNCHANGED <<queue, hand, accepted>>
    BY <1>4 DEF Receive, streamVars
  <2>2. received \o (channel \o (hand \o queue))
          = Append(received, Head(channel)) \o (Tail(channel) \o (hand \o queue))
    BY <1>0, <2>1, PipeReceive, Zenon
  <2> QED BY <1>0, <2>1, <2>2, Zenon DEF Pipe
<1>5. ASSUME UNCHANGED <<queue, channel, hand, received, accepted>> PROVE Pipe'
  BY <1>0, <1>5 DEF Pipe
<1>6. ASSUME NEW r \in Explicit \cup {NoResult}, EndStream(r) PROVE Pipe'
  BY <1>5, <1>6 DEF EndStream, channelVars
<1>7. CASE RangeEnds \/ Leave
  BY <1>5, <1>7 DEF RangeEnds, Leave, streamVars, channelVars
<1>8. ASSUME NEW w \in Waiters, Asking(w) PROVE Pipe'
  BY <1>5, <1>8, AskingAside DEF streamVars, channelVars
<1>9. CASE UNCHANGED vars
  BY <1>5, <1>9 DEF vars, streamVars, channelVars
<1> QED
  BY <1>1, <1>2, <1>3, <1>4, <1>6, <1>7, <1>8, <1>9
  DEF Next, Produce, Dispatch, Consume, Asking

\* The stream has a result exactly when it has ended, and once it has it keeps it.
LEMMA StepResolved ==
  ASSUME Inv, [Next]_vars
  PROVE  Resolved' /\ (closed => closed' /\ result' = result)
<1>1. ASSUME NEW e \in Events, Push(e)
      PROVE  Resolved' /\ (closed => closed' /\ result' = result)
  BY <1>1 DEF Push, Finish, Inv, Resolved, Results, Events
<1>2. ASSUME NEW r \in Explicit \cup {NoResult}, EndStream(r)
      PROVE  Resolved' /\ (closed => closed' /\ result' = result)
  BY <1>2 DEF EndStream, Finish, Inv, Resolved, Results
<1>3. ASSUME UNCHANGED <<closed, result>>
      PROVE  Resolved' /\ (closed => closed' /\ result' = result)
  BY <1>3 DEF Inv, Resolved
<1>4. CASE Dispatch \/ Consume \/ Leave
  BY <1>3, <1>4 DEF Dispatch, Take, Send, Consume, Receive, RangeEnds, Leave, streamVars
<1>5. ASSUME NEW w \in Waiters, Asking(w) PROVE UNCHANGED <<closed, result>>
  BY <1>5, AskingAside DEF streamVars
<1>6. CASE UNCHANGED vars
  BY <1>3, <1>6 DEF vars, streamVars
<1> QED BY <1>1, <1>2, <1>3, <1>4, <1>5, <1>6 DEF Next, Produce, Asking

\* A completing event ends the stream, so nothing is accepted after it.
LEMMA StepLastTerminal ==
  ASSUME Inv, [Next]_vars
  PROVE  LastTerminal'
<1>0. accepted \in Seq(Events) /\ Len(accepted) \in Nat /\ DOMAIN accepted = 1..Len(accepted)
  BY PipeTypes DEF Inv
<1>1. ASSUME NEW e \in Events, Push(e), ~closed PROVE LastTerminal'
  <2>1. /\ accepted' = Append(accepted, e)
        /\ e \in Terminals => closed' /\ result' = e
    BY <1>1 DEF Push, Finish
  <2>2. /\ DOMAIN accepted' = 1..(Len(accepted) + 1) /\ Len(accepted') = Len(accepted) + 1
        /\ accepted'[Len(accepted) + 1] = e
        /\ \A i \in 1..Len(accepted) : accepted'[i] = accepted[i]
    BY <1>0, <2>1, AppendProperties
  <2>3. \A i \in 1..Len(accepted) : accepted[i] \notin Terminals
    BY <1>0, <1>1 DEF Inv, LastTerminal
  <2>4. SUFFICES ASSUME NEW i \in 1..(Len(accepted) + 1), accepted'[i] \in Terminals
                 PROVE  closed' /\ result' = accepted'[i] /\ i = Len(accepted')
    BY <2>2 DEF LastTerminal
  <2>5. i = Len(accepted) + 1
    BY <1>0, <2>2, <2>3, <2>4
  <2> QED BY <2>1, <2>2, <2>4, <2>5
<1>2. ASSUME accepted' = accepted PROVE LastTerminal'
  BY <1>2, StepResolved DEF Inv, LastTerminal
<1>3. ASSUME NEW e \in Events, Push(e), closed PROVE accepted' = accepted
  BY <1>3 DEF Push
<1>4. ASSUME NEW r \in Explicit \cup {NoResult}, EndStream(r) PROVE accepted' = accepted
  BY <1>4 DEF EndStream
<1>5. ASSUME Dispatch \/ Consume \/ Leave \/ UNCHANGED vars PROVE accepted' = accepted
  BY <1>5 DEF Dispatch, Take, Send, Consume, Receive, RangeEnds, Leave, vars
<1>6. ASSUME NEW w \in Waiters, Asking(w) PROVE accepted' = accepted
  BY <1>6, AskingAside
<1> QED BY <1>1, <1>2, <1>3, <1>4, <1>5, <1>6 DEF Next, Produce, Asking

\* The channel closes behind the last event, and the range ends behind the channel.
LEMMA StepDrained ==
  ASSUME Inv, [Next]_vars
  PROVE  Drained'
<1> USE DEF Inv
<1>1. ASSUME NEW e \in Events, Push(e) PROVE Drained'
  BY <1>1 DEF Push, Signal, Finish, Drained, channelVars
<1>2. ASSUME NEW r \in Explicit \cup {NoResult}, EndStream(r) PROVE Drained'
  BY <1>2 DEF EndStream, Signal, Finish, Drained, channelVars
<1>3. CASE Take
  BY <1>3 DEF Take, Drained
<1>4. CASE Send
  BY <1>4 DEF Send, Drained, streamVars
<1>5. CASE Receive
  BY <1>5 DEF Receive, Drained, streamVars
<1>6. CASE RangeEnds \/ Leave
  BY <1>6 DEF RangeEnds, Leave, Drained, streamVars, channelVars
<1>7. ASSUME NEW w \in Waiters, Asking(w) PROVE Drained'
  BY <1>7, AskingAside DEF Drained, streamVars, channelVars
<1>8. CASE UNCHANGED vars
  BY <1>8 DEF vars, Drained, streamVars, channelVars
<1> QED
  BY <1>1, <1>2, <1>3, <1>4, <1>5, <1>6, <1>7, <1>8 DEF Next, Produce, Dispatch, Consume, Asking

\* Answers are taken from a stream that has ended, and it ends once.
LEMMA StepOneResult ==
  ASSUME Inv, [Next]_vars
  PROVE  OneResult'
<1>1. ASSUME got' = got PROVE OneResult'
  BY <1>1, StepResolved DEF Inv, OneResult
<1>2. ASSUME Produce \/ Dispatch \/ Consume \/ Leave \/ UNCHANGED vars PROVE got' = got
  BY <1>2 DEF Produce, Push, EndStream, Dispatch, Take, Send, Consume, Receive, RangeEnds,
              Leave, vars
<1>3. ASSUME NEW w \in Waiters, Asking(w) PROVE OneResult'
  <2>1. /\ got \in [Waiters -> Results \cup {None, CtxErr}]
        /\ UNCHANGED <<closed, result>>
    BY <1>3, AskingAside DEF Inv, TypeOK, streamVars
  <2>2. \/ got' = got
        \/ closed /\ got' = [got EXCEPT ![w] = result]
        \/ got' = [got EXCEPT ![w] = CtxErr]
    BY <1>3 DEF Asking, Ask, Answer, GiveUp, Cancel
  <2> QED BY <2>1, <2>2 DEF Inv, OneResult
<1> QED BY <1>1, <1>2, <1>3 DEF Next, Asking

\* Inv is inductive.
LEMMA StepInv == Inv /\ [Next]_vars => Inv'
BY StepTypes, StepPipe, StepResolved, StepLastTerminal, StepDrained, StepOneResult DEF Inv

\* The stream's invariant: what Push accepted is in the pipe, in order, and the end
\* of the stream has its result and its place.
THEOREM InvAlways == Spec => []Inv
<1>1. Init => Inv
  BY InitInv
<1>2. Inv /\ [Next]_vars => Inv'
  BY StepInv
<1> QED BY <1>1, <1>2, PTL DEF Spec

(***************************************************************************)
(* The properties.                                                         *)
(***************************************************************************)
\* Push, End, dispatch, Result and the consumer keep every field in its type.
THEOREM StreamTypes == Spec => []TypeOK
BY InvAlways, PTL DEF Inv

\* What was received is the front of what was accepted; the next event to be
\* received is the head of the channel.
LEMMA ReceivedIsFront ==
  ASSUME Inv
  PROVE  /\ Len(received) <= Len(accepted)
         /\ \A i \in 1..Len(received) : accepted[i] = received[i]
         /\ channel # <<>> => /\ Len(received) < Len(accepted)
                              /\ accepted[Len(received) + 1] = Head(channel)
<1>1. /\ received \in Seq(Events) /\ channel \in Seq(Events) /\ hand \o queue \in Seq(Events)
      /\ accepted = received \o (channel \o (hand \o queue))
  BY PipeTypes DEF Inv, Pipe
<1> DEFINE t == hand \o queue
<1>2. t \in Seq(Events)
  BY <1>1
<1> HIDE DEF t
<1>3. /\ \A i \in 1..Len(received) : (received \o (channel \o t))[i] = received[i]
      /\ Len(received) <= Len(received \o (channel \o t))
      /\ channel # <<>> => /\ Len(received) < Len(received \o (channel \o t))
                           /\ (received \o (channel \o t))[Len(received) + 1] = Head(channel)
  BY <1>1, <1>2, PipeFront, Zenon
<1>4. accepted = received \o (channel \o t)
  BY <1>1 DEF t
<1> QED BY <1>3, <1>4, Zenon

\* A consumer that holds a completing event, the last one accepted, finds the
\* stream resolved to it: Result does not block the agent loop.
THEOREM SeenIsResolved == Spec => []ResolvedBeforeSeen
<1>1. ASSUME Inv PROVE ResolvedBeforeSeen
  <2>1. /\ DOMAIN received = 1..Len(received) /\ DOMAIN accepted = 1..Len(accepted)
        /\ Len(received) \in Nat /\ Len(accepted) \in Nat
    BY <1>1, PipeTypes DEF Inv
  <2>2. \A i \in 1..Len(received) : i \in DOMAIN accepted /\ accepted[i] = received[i]
    BY <1>1, <2>1, ReceivedIsFront
  <2> QED BY <1>1, <2>1, <2>2 DEF Inv, LastTerminal, ResolvedBeforeSeen
<1> QED BY <1>1, InvAlways, PTL

\* finish runs once, so every caller of Result learns the same answer.
THEOREM OneResultAlways == Spec => []OneResult
BY InvAlways, PTL DEF Inv

\* Result prefers the stream's end to its caller's cancelled context.
THEOREM EndBeatsCancelAlways == Spec => EndBeatsCancel
<1> DEFINE Asked(w) == reader = "ended" /\ asked[w] = "no" /\ asked'[w] # "no"
           EndFirst == \A w \in Waiters : Asked(w) => got'[w] = result
<1>1. ASSUME Inv, [Next]_vars PROVE [EndFirst]_vars
  <2>1. ASSUME asked' = asked PROVE EndFirst
    BY <2>1
  <2>2. ASSUME Produce \/ Dispatch \/ Consume \/ Leave \/ UNCHANGED vars PROVE asked' = asked
    BY <2>2 DEF Produce, Push, EndStream, Dispatch, Take, Send, Consume, Receive, RangeEnds,
                Leave, vars
  <2>3. ASSUME NEW u \in Waiters, Asking(u) PROVE EndFirst
    <3>1. SUFFICES ASSUME NEW w \in Waiters, Asked(w) PROVE got'[w] = result
      OBVIOUS
    <3>2. closed /\ got \in [Waiters -> Results \cup {None, CtxErr}]
                 /\ asked \in [Waiters -> {"no", "waiting", "answered"}]
      BY <1>1, <3>1 DEF Inv, Drained, TypeOK
    <3>3. asked[w] = "no" /\ asked'[w] # asked[w]
      BY <3>1
    <3>4. CASE Ask(u)
      <4>1. u = w
        BY <3>2, <3>3, <3>4 DEF Ask
      <4> QED BY <3>2, <3>4, <4>1 DEF Ask
    <3>5. CASE Answer(u)
      BY <3>2, <3>3, <3>5 DEF Answer
    <3>6. CASE GiveUp(u)
      BY <3>2, <3>3, <3>6 DEF GiveUp
    <3>7. CASE Cancel(u)
      BY <3>3, <3>7 DEF Cancel
    <3> QED BY <2>3, <3>4, <3>5, <3>6, <3>7 DEF Asking
  <2> QED BY <1>1, <2>1, <2>2, <2>3 DEF Next, Asking
<1>2. Inv /\ [Next]_vars => [EndFirst]_vars
  BY <1>1
<1> QED BY <1>2, InvAlways, PTL DEF Spec, EndBeatsCancel

\* The queue, the dispatch goroutine and the channel implement a feed that shows its
\* consumer every event once, in order, and reports its end after the last.
THEOREM StreamIsFeed == Spec => ImplementsEventFeed
<1>1. Init => Feed!Init
  BY DEF Init, Feed!Init, None, Feed!None
<1>2. ASSUME Inv, [Next]_vars PROVE [Feed!Next]_(Feed!feedVars)
  <2> DEFINE Goal == [Feed!Next]_(Feed!feedVars)
  <2>0. /\ closed => result \in Results
        /\ ~closed => result = None
        /\ closed => result # None
    BY <1>2, ResultsAssumption DEF Inv, Resolved
  <2>1. ASSUME UNCHANGED <<accepted, received, result, reader>> PROVE Goal
    BY <2>1 DEF Feed!feedVars
  <2>2. ASSUME NEW e \in Events, Push(e) PROVE Goal
    <3>1. CASE closed
      BY <2>1, <2>2, <3>1 DEF Push
    <3>2. CASE ~closed
      <4>1. /\ accepted' = Append(accepted, e) /\ received' = received /\ reader' = reader
            /\ result' \in {None} \cup Results
        BY <2>0, <2>2, <3>2 DEF Push, Finish, Results
      <4>2. Feed!Publish(e)
        BY <2>0, <3>2, <4>1 DEF Feed!Publish, None, Feed!None
      <4> QED BY <4>2 DEF Feed!Next
    <3> QED BY <3>1, <3>2
  <2>3. ASSUME NEW r \in Explicit \cup {NoResult}, EndStream(r) PROVE Goal
    <3>1. r \in Results /\ Feed!End(r)
      BY <2>0, <2>3 DEF EndStream, Finish, Results, Feed!End, None, Feed!None
    <3> QED BY <3>1 DEF Feed!Next
  <2>4. CASE Dispatch
    BY <2>1, <2>4 DEF Dispatch, Take, Send, streamVars
  <2>5. CASE Receive
    <3>1. /\ Len(received) < Len(accepted)
          /\ accepted[Len(received) + 1] = Head(channel)
      BY <1>2, <2>5, ReceivedIsFront DEF Receive
    <3>2. Feed!See
      BY <2>5, <3>1 DEF Receive, streamVars, Feed!See
    <3> QED BY <3>2 DEF Feed!Next
  <2>6. CASE RangeEnds
    <3>1. /\ closed /\ queue = <<>> /\ channel = <<>> /\ dispatch = "exited"
          /\ reader' = "ended" /\ UNCHANGED <<accepted, received, result>>
      BY <1>2, <2>6 DEF RangeEnds, Inv, Drained, streamVars
    <3>2. received = accepted
      <4>1. hand = <<>> /\ received \in Seq(Events)
        BY <1>2, <3>1, PipeTypes DEF Inv
      <4>2. accepted = received \o (<<>> \o (<<>> \o <<>>))
        BY <1>2, <3>1, <4>1 DEF Inv, Pipe
      <4>3. <<>> \in Seq(Events) /\ <<>> \o <<>> = <<>>
        BY EmptySeq, ConcatEmptySeq
      <4>4. received \o <<>> = received
        BY <4>1, ConcatEmptySeq
      <4> QED BY <4>2, <4>3, <4>4, Zenon
    <3>3. Feed!Close
      BY <2>0, <3>1, <3>2 DEF Feed!Close, None, Feed!None
    <3> QED BY <3>3 DEF Feed!Next
  <2>7. CASE Leave
    <3>1. UNCHANGED <<accepted, received, result>> /\ reader = "reading" /\ reader' = "left"
      BY <2>7 DEF Leave, streamVars
    <3> QED BY <3>1 DEF Feed!feedVars
  <2>8. ASSUME NEW w \in Waiters, Asking(w) PROVE Goal
    BY <2>1, <2>8, AskingAside DEF streamVars
  <2>9. CASE UNCHANGED vars
    BY <2>1, <2>9 DEF vars, streamVars
  <2> QED
    BY <1>2, <2>2, <2>3, <2>4, <2>5, <2>6, <2>7, <2>8, <2>9
    DEF Next, Produce, Consume, Asking
<1>3. Inv /\ [Next]_vars => [Feed!Next]_(Feed!feedVars)
  BY <1>2
<1> QED BY <1>1, <1>3, InvAlways, PTL DEF Spec, ImplementsEventFeed, Feed!Spec
=============================================================================
