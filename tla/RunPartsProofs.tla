--------------------------- MODULE RunPartsProofs ---------------------------
(***************************************************************************)
(* What is proved of the parts of a run that MCRunParts puts together: the *)
(* tool batch, the delegation and the retrier.                             *)
(*                                                                         *)
(* The soundness of a tool batch, for any number of calls, updates and     *)
(* listener failures, in either mode. The position of the batch's loops    *)
(* says how far each call is (PlaceInv); the listeners that are running    *)
(* and the events that were logged are those of the calls' stages and      *)
(* updates (SinkInv, LogInv); and what was rejected is what the batch      *)
(* knows of (ErrorInv).                                                    *)
(*                                                                         *)
(* The gate of the task tool and of the other tools, for any tasks,        *)
(* policies and slots (GateStep, SlotsInv).                                *)
(*                                                                         *)
(* What the caller of a retrying stream hears and how often it is tried,   *)
(* for any number of attempts and events, any buffer limit, hints,         *)
(* statuses, delays and width of a Duration. Until produce commits to an   *)
(* attempt the output is empty, and from then on nothing is held back      *)
(* (VoiceInv); an attempt that failed can be dropped only before it. The   *)
(* delays of the loop in nominalDelay are the capped powers of two, which  *)
(* the recurrence says of the first one that would not be (NatMin); the    *)
(* law of the powers of two is the one for the number of subsets of a      *)
(* finite set.                                                             *)
(***************************************************************************)
EXTENDS ToolBatch, Delegation, Retrier, NaturalRecursion, SequenceTheorems, FiniteSetTheorems,
        TLAPS

Active == {"accepted", "emitting"}
Uncertain == {"new", "starting", "ready", "ended"}

BatchTypes ==
  /\ mode \in ExecutionModes
  /\ at \in {"prepare", "execute", "message", "returned"}
  /\ index \in Nat /\ reached \in Nat
  /\ stage \in [Call -> Stages]
  /\ update \in [Call \X (1..Updates) -> {"no", "accepted", "emitting", "done"}]
  /\ terminate \in [Call -> BOOLEAN]
  /\ sink \subseteq Emitters
  /\ firstErr \in BOOLEAN /\ batchCancelled \in BOOLEAN
  /\ messages \in Seq(Call)
  /\ PendingToolCalls \subseteq Call /\ tardy \subseteq Call
  /\ returned \in {"no", "ok", "error"}
  /\ log \in Seq(EventTypes \X Call)
  /\ rejected \subseteq EventTypes \cup {"message"}
  /\ failures \in Nat

\* The calls up to n have ended, no later one has begun.
EndedUpTo(n) ==
  \A c \in Call : (c <= n => stage[c] = "ended") /\ (c > n => stage[c] = "new")

\* Preparing: the calls before the one in hand have ended or, in parallel mode, wait
\* for their goroutines.
Preparing ==
  at = "prepare" =>
    /\ index \in Call /\ reached = index - 1 /\ returned = "no" /\ ~firstErr
    /\ \A c \in Call : c > index => stage[c] = "new"
    /\ \A c \in Call : c < index => 
         stage[c] = "ended" \/ (mode = "parallel" /\ stage[c] = "ready")
    /\ stage[index] \notin {"ended", "ready"}
    /\ mode = "parallel" =>
         /\ stage[index] \notin {"running", "draining"}
         /\ messages = <<>>
    /\ mode = "sequential" => stage[index] # "prepared" /\ Len(messages) = index - 1

\* Executing: each prepared call is somewhere on its way to its end.
Executing ==
  at = "execute" =>
    /\ mode = "parallel" /\ reached \in Call /\ index = 1 /\ returned = "no"
    /\ messages = <<>> /\ (reached = Calls \/ batchCancelled)
    /\ \A c \in Call : /\ c <= reached => stage[c] \notin {"new", "starting", "gate", "prepared"}
                       /\ c > reached => stage[c] = "new"

\* Answering: all calls have ended, the first index - 1 are answered.
Answering ==
  at = "message" =>
    /\ reached \in Call /\ index \in 1..reached /\ returned = "no" /\ ~firstErr
    /\ mode = "sequential" => reached = index
    /\ mode = "parallel" => reached = Calls \/ batchCancelled
    /\ Len(messages) = index - 1
    /\ EndedUpTo(reached)

Over ==
  at = "returned" =>
    /\ returned \in {"ok", "error"}
    /\ \A c \in Call : stage[c] \in Uncertain
    /\ returned = "ok" =>
         /\ reached \in Call /\ Len(messages) = reached /\ EndedUpTo(reached)
         /\ (reached = Calls \/ batchCancelled)

PlaceInv == Preparing /\ Executing /\ Answering /\ Over

\* An update that is under way belongs to a tool that is running or waited for.
UpdateInv ==
  \A c \in Call : \A k \in 1..Updates :
    update[<<c, k>>] \in Active => stage[c] \in {"running", "draining"}

\* The running listeners are those of the starts, ends and updates under way.
SinkInv ==
  /\ at # "returned" =>
     \A c \in Call :
       /\ <<c, 0>> \in sink <=> stage[c] \in {"starting", "ending"}
       /\ \A k \in 1..Updates : <<c, k>> \in sink <=> update[<<c, k>>] = "emitting"
  /\ at = "returned" => sink = {}
  /\ mode = "parallel" => \A e, f \in sink : e = f

Logged(type, c) == \E n \in DOMAIN log : log[n] = <<type, c>>

InTime ==
  \A n \in DOMAIN log : log[n][1] = "update" =>
    /\ \E m \in 1..(n - 1) : log[m] = <<"start", log[n][2]>>
    /\ \A m \in 1..(n - 1) : log[m] # <<"end", log[n][2]>>

LogInv ==
  /\ \A c \in Call : /\ Logged("start", c) <=> stage[c] # "new"
                     /\ Logged("end", c) <=> stage[c] \in {"ending", "ended"}
  /\ PendingToolCalls = {c \in Call : stage[c] \notin {"new", "ending", "ended"}}
  /\ InTime

MessagesInv ==
  \A n \in DOMAIN messages : messages[n] = n /\ stage[n] = "ended"

\* A call that began under a cancelled context is the last one and never executed.
TardyInv ==
  /\ \A c, d \in tardy : c = d
  /\ tardy # {} => batchCancelled
  /\ at = "prepare" /\ stage[index] = "new" => tardy = {}
  /\ \A c \in tardy : stage[c] \notin {"new", "prepared", "ready", "running", "draining"}

\* Errors that were not an update's are known: to the goroutines' batch as firstErr.
ErrorInv ==
  /\ at \in {"prepare", "message"} => rejected \subseteq {"update"}
  /\ at = "execute" => (firstErr <=> rejected \ {"update"} # {})
  /\ at = "returned" => (returned = "error" <=> rejected \ {"update"} # {})

BatchInv ==
  /\ BatchTypes /\ PlaceInv /\ UpdateInv /\ SinkInv /\ LogInv /\ MessagesInv /\ TardyInv /\ ErrorInv

-----------------------------------------------------------------------------
LEMMA InitBatch ==
  ASSUME ToolBatchAssumption, BatchInit
  PROVE  BatchInv
<1> USE DEF BatchInit, ToolBatchAssumption, ExecutionModes
<1>1. BatchTypes
  <2>1. /\ mode \in ExecutionModes /\ index \in Nat /\ reached \in Nat
        /\ at \in {"prepare", "execute", "message", "returned"}
        /\ returned \in {"no", "ok", "error"}
    OBVIOUS
  <2>2. /\ stage \in [Call -> Stages] /\ terminate \in [Call -> BOOLEAN]
        /\ update \in [Call \X (1..Updates) -> {"no", "accepted", "emitting", "done"}]
    BY DEF Stages
  <2>3. /\ sink \subseteq Emitters /\ PendingToolCalls \subseteq Call /\ tardy \subseteq Call
        /\ rejected \subseteq EventTypes \cup {"message"} /\ failures \in Nat
        /\ firstErr \in BOOLEAN /\ batchCancelled \in BOOLEAN
    OBVIOUS
  <2>4. messages \in Seq(Call) /\ log \in Seq(EventTypes \X Call)
    BY EmptySeq
  <2> QED BY <2>1, <2>2, <2>3, <2>4, Zenon DEF BatchTypes
<1>2. PlaceInv
  BY DEF PlaceInv, Preparing, Executing, Answering, Over, Call
<1>3. UpdateInv /\ SinkInv
  BY DEF UpdateInv, SinkInv, Active
<1>4. LogInv
  BY DEF LogInv, Logged, InTime
<1>5. MessagesInv /\ TardyInv /\ ErrorInv
  BY DEF MessagesInv, TardyInv, ErrorInv
<1> QED BY <1>1, <1>2, <1>3, <1>4, <1>5 DEF BatchInv

-----------------------------------------------------------------------------
\* What an event adds to the log.
LEMMA Entered ==
  ASSUME BatchTypes, InTime, NEW e \in Emitters, NEW type \in EventTypes, Enter(e, type),
         type = "update" => Logged("start", e[1]) /\ ~Logged("end", e[1])
  PROVE  /\ log' \in Seq(EventTypes \X Call)
         /\ \A t \in EventTypes, c \in Call :
              Logged(t, c)' <=> (Logged(t, c) \/ (t = type /\ c = e[1]))
         /\ InTime'
<1> DEFINE entry == <<type, e[1]>>
<1>1. e[1] \in Call /\ entry \in EventTypes \X Call /\ log' = Append(log, entry)
  BY DEF Emitters, Enter
<1>2. log \in Seq(EventTypes \X Call)
  BY DEF BatchTypes
<1>3. /\ log' \in Seq(EventTypes \X Call) /\ Len(log') = Len(log) + 1 /\ Len(log) \in Nat
      /\ log'[Len(log) + 1] = entry
      /\ \A n \in 1..Len(log) : log'[n] = log[n]
      /\ DOMAIN log = 1..Len(log) /\ DOMAIN log' = 1..(Len(log) + 1)
  BY <1>1, <1>2
<1>4. ASSUME NEW t \in EventTypes, NEW c \in Call
      PROVE  Logged(t, c)' <=> (Logged(t, c) \/ (t = type /\ c = e[1]))
  <2>1. Logged(t, c) => Logged(t, c)'
    BY <1>3 DEF Logged
  <2>2. t = type /\ c = e[1] => Logged(t, c)'
    BY <1>3 DEF Logged
  <2>3. ASSUME Logged(t, c)', ~Logged(t, c)
        PROVE  t = type /\ c = e[1]
    <3>1. PICK n \in DOMAIN log' : log'[n] = <<t, c>>
      BY <2>3 DEF Logged
    <3>2. n = Len(log) + 1
      BY <2>3, <3>1, <1>3 DEF Logged
    <3> QED BY <3>1, <3>2, <1>3
  <2> QED BY <2>1, <2>2, <2>3
<1>5. InTime'
  <2> SUFFICES ASSUME NEW n \in DOMAIN log', log'[n][1] = "update"
               PROVE  /\ \E m \in 1..(n - 1) : log'[m] = <<"start", log'[n][2]>>
                      /\ \A m \in 1..(n - 1) : log'[m] # <<"end", log'[n][2]>>
    BY DEF InTime
  <2>1. CASE n \in 1..Len(log)
    <3>1. log'[n] = log[n] /\ \A m \in 1..(n - 1) : m \in 1..Len(log) /\ log'[m] = log[m]
      BY <2>1, <1>3
    <3>2. /\ \E m \in 1..(n - 1) : log[m] = <<"start", log[n][2]>>
          /\ \A m \in 1..(n - 1) : log[m] # <<"end", log[n][2]>>
      BY <2>1, <3>1, <1>3 DEF InTime
    <3> QED BY <3>1, <3>2, Zenon
  <2>2. CASE n = Len(log) + 1
    <3>1. type = "update" /\ log'[n][2] = e[1] /\ 1..(n - 1) = DOMAIN log
      BY <2>2, <1>3
    <3> QED BY <3>1, <1>3, <2>2 DEF Logged
  <2>3. n \in 1..Len(log) \/ n = Len(log) + 1
    BY <1>3
  <2> QED BY <2>1, <2>2, <2>3, Zenon
<1> QED BY <1>3, <1>4, <1>5

\* The running listeners after one more has begun.
LEMMA Alone ==
  ASSUME BatchTypes, SinkInv, NEW e \in Emitters, NEW type, Enter(e, type)
  PROVE  /\ sink' = sink \cup {e} /\ sink' \subseteq Emitters
         /\ mode = "parallel" => \A f, g \in sink' : f = g
BY DEF Enter, BatchTypes, SinkInv

LEMMA Left ==
  ASSUME BatchTypes, SinkInv, NEW e \in Emitters, NEW type \in EventTypes, NEW ok \in BOOLEAN,
         Leave(e, type, ok)
  PROVE  /\ sink' = sink \ {e} /\ sink' \subseteq Emitters
         /\ mode = "parallel" => \A f, g \in sink' : f = g
         /\ log' = log /\ PendingToolCalls' = PendingToolCalls
         /\ rejected' = IF ok THEN rejected ELSE rejected \cup {type}
         /\ rejected' \subseteq EventTypes \cup {"message"} /\ failures' \in Nat
BY DEF Leave, Reject, BatchTypes, SinkInv

\* A step that leaves log and stages alone leaves what the log says.
LEMMA SameLog ==
  ASSUME LogInv, log' = log, stage' = stage, PendingToolCalls' = PendingToolCalls
  PROVE  LogInv'
BY DEF LogInv, Logged, InTime

\* A move of a call between stages that the log does not tell apart.
LEMMA LogKept ==
  ASSUME LogInv, log' = log, PendingToolCalls' = PendingToolCalls,
         \A d \in Call : (stage'[d] = "new" <=> stage[d] = "new"),
         \A d \in Call : (stage'[d] \in {"ending", "ended"} <=> stage[d] \in {"ending", "ended"})
  PROVE  LogInv'
<1>1. \A c \in Call : /\ (Logged("start", c) <=> stage[c] # "new")'
                      /\ (Logged("end", c) <=> stage[c] \in {"ending", "ended"})'
  BY DEF LogInv, Logged
<1>2. \A c \in Call : stage[c] \notin {"new", "ending", "ended"}
                      <=> stage'[c] \notin {"new", "ending", "ended"}
  OBVIOUS
<1>3. (PendingToolCalls = {c \in Call : stage[c] \notin {"new", "ending", "ended"}})'
  BY <1>2 DEF LogInv
<1>4. InTime'
  BY DEF LogInv, InTime
<1> QED BY <1>1, <1>3, <1>4 DEF LogInv

LEMMA Moved ==
  ASSUME BatchTypes, NEW c \in Call, NEW s \in Stages, stage' = [stage EXCEPT ![c] = s]
  PROVE  /\ stage' \in [Call -> Stages]
         /\ \A d \in Call : stage'[d] = IF d = c THEN s ELSE stage[d]
BY DEF BatchTypes

LEMMA TheEmitter ==
  ASSUME ToolBatchAssumption, NEW c \in Call
  PROVE  /\ <<c, 0>> \in Emitters /\ <<c, 0>>[1] = c
         /\ \A k \in 1..Updates : <<c, k>> \in Emitters /\ <<c, k>>[1] = c /\ <<c, k>> # <<c, 0>>
         /\ \A d \in Call, k \in 0..Updates : <<d, k>> = <<c, 0>> <=> d = c /\ k = 0
         /\ 0 \in 0..Updates /\ Updates \in Nat
BY DEF ToolBatchAssumption, Emitters

LEMMA StartsCall ==
  ASSUME ToolBatchAssumption, BatchInv, NEW c \in Call, StartCall(c)
  PROVE  BatchInv'
<1>1. /\ BatchTypes /\ PlaceInv /\ UpdateInv /\ SinkInv /\ LogInv /\ MessagesInv /\ TardyInv
      /\ ErrorInv
  BY DEF BatchInv
<1>2. /\ at = "prepare" /\ index = c /\ stage[c] = "new" /\ Enter(<<c, 0>>, "start")
      /\ stage' = [stage EXCEPT ![c] = "starting"]
      /\ tardy' = IF batchCancelled THEN tardy \cup {c} ELSE tardy
      /\ mode' = mode /\ at' = at /\ index' = index /\ reached' = reached
      /\ firstErr' = firstErr /\ messages' = messages /\ returned' = returned
      /\ update' = update /\ terminate' = terminate /\ batchCancelled' = batchCancelled
      /\ rejected' = rejected /\ failures' = failures
  BY DEF StartCall, batchVars
<1>3. /\ stage' \in [Call -> Stages]
      /\ \A d \in Call : stage'[d] = IF d = c THEN "starting" ELSE stage[d]
  BY <1>1, <1>2, Moved DEF Stages
<1>4. /\ sink' = sink \cup {<<c, 0>>} /\ sink' \subseteq Emitters
      /\ mode = "parallel" => \A f, g \in sink' : f = g
  BY <1>1, <1>2, TheEmitter, Alone
<1>5. /\ log' \in Seq(EventTypes \X Call)
      /\ \A t \in EventTypes, d \in Call :
           Logged(t, d)' <=> (Logged(t, d) \/ (t = "start" /\ d = c))
      /\ InTime'
  BY <1>1, <1>2, TheEmitter, Entered DEF LogInv, EventTypes
<1>6. PendingToolCalls' = PendingToolCalls \cup {c}
  BY <1>2, TheEmitter DEF Enter
<1>7. BatchTypes'
  BY <1>1, <1>2, <1>3, <1>4, <1>5, <1>6 DEF BatchTypes
<1>8. PlaceInv'
  BY <1>1, <1>2, <1>3 DEF PlaceInv, Preparing, Executing, Answering, Over
<1>9. UpdateInv'
  BY <1>1, <1>2, <1>3 DEF UpdateInv, Active
<1>10. SinkInv'
  BY <1>1, <1>2, <1>3, <1>4, TheEmitter DEF SinkInv
<1>11. LogInv'
  BY <1>1, <1>2, <1>3, <1>5, <1>6 DEF LogInv, EventTypes, BatchTypes
<1>12. MessagesInv'
  BY <1>1, <1>2, <1>3 DEF MessagesInv, BatchTypes
<1>13. TardyInv' /\ ErrorInv'
  BY <1>1, <1>2, <1>3 DEF TardyInv, ErrorInv
<1> QED BY <1>7, <1>8, <1>9, <1>10, <1>11, <1>12, <1>13 DEF BatchInv

\* Where the batch is when a call is under way.
LEMMA Where ==
  ASSUME BatchTypes, PlaceInv, NEW c \in Call
  PROVE  /\ stage[c] \in {"gate", "prepared"} => at = "prepare" /\ index = c
         /\ stage[c] = "prepared" => mode = "parallel"
         /\ stage[c] = "starting" /\ at # "returned" => at = "prepare" /\ index = c
         /\ stage[c] \in {"running", "draining", "finalized", "ending"} =>
              \/ at = "prepare" /\ index = c
              \/ at = "execute" /\ mode = "parallel" /\ c <= reached
         /\ stage[c] \in {"running", "draining"} /\ at = "prepare" => mode = "sequential"
         /\ stage[c] = "ready" => mode = "parallel" \/ at = "returned"
         /\ at = "prepare" /\ index = c =>
              \A d \in Call : d # c => stage[d] \in {"new", "ended", "ready"}
<1>1. /\ Preparing /\ Executing /\ Answering /\ Over
  BY DEF PlaceInv
<1>2. /\ stage[c] \in Stages /\ index \in Nat /\ reached \in Nat
      /\ mode \in {"parallel", "sequential"} /\ c \in Nat
  <2>1. c \in Nat
    BY DEF Call
  <2> QED BY <2>1 DEF BatchTypes, ExecutionModes
<1>3. CASE at = "prepare"
  BY <1>1, <1>2, <1>3 DEF Preparing, Call
<1>4. CASE at = "execute"
  BY <1>1, <1>2, <1>4 DEF Executing, Call
<1>5. CASE at = "message"
  BY <1>1, <1>2, <1>5 DEF Answering, EndedUpTo, Call
<1>6. CASE at = "returned"
  BY <1>1, <1>2, <1>6 DEF Over, Uncertain
<1> QED BY <1>3, <1>4, <1>5, <1>6 DEF BatchTypes

\* While the batch prepares, the listeners of the call in hand run alone.
LEMMA Quiet ==
  ASSUME BatchTypes, PlaceInv, UpdateInv, SinkInv, NEW c \in Call,
         at = "prepare", index = c, stage[c] \in {"starting", "ending"}
  PROVE  sink \ {<<c, 0>>} = {}
<1> SUFFICES ASSUME NEW e \in sink, e # <<c, 0>> PROVE FALSE
  OBVIOUS
<1>1. PICK d \in Call, k \in 0..Updates : e = <<d, k>>
  <2>1. e \in Call \X (0..Updates)
    BY DEF BatchTypes, Emitters
  <2> QED BY <2>1
<1>2. \A b \in Call : b # c => stage[b] \in {"new", "ended", "ready"}
  BY Where
<1>3. CASE k = 0
  BY <1>1, <1>2, <1>3 DEF SinkInv
<1>4. CASE k # 0
  <2>1. k \in 1..Updates
    BY <1>1, <1>4
  <2>2. update[<<d, k>>] = "emitting"
    BY <1>1, <2>1 DEF SinkInv
  <2> QED BY <2>1, <2>2, <1>2 DEF UpdateInv, Active
<1> QED BY <1>3, <1>4

LEMMA CallStarts ==
  ASSUME ToolBatchAssumption, BatchInv, NEW c \in Call, CallStarted(c)
  PROVE  BatchInv'
<1>1. /\ BatchTypes /\ PlaceInv /\ UpdateInv /\ SinkInv /\ LogInv /\ MessagesInv /\ TardyInv
      /\ ErrorInv
  BY DEF BatchInv
<1>2. PICK ok \in BOOLEAN :
        /\ stage[c] = "starting" /\ <<c, 0>> \in sink /\ Leave(<<c, 0>>, "start", ok)
        /\ IF ok THEN /\ stage' = [stage EXCEPT ![c] = "gate"]
                      /\ mode' = mode /\ at' = at /\ index' = index /\ reached' = reached
                      /\ firstErr' = firstErr /\ messages' = messages /\ returned' = returned
           ELSE /\ at' = "returned" /\ returned' = "error" /\ stage' = stage
                /\ mode' = mode /\ index' = index /\ reached' = reached
                /\ firstErr' = firstErr /\ messages' = messages
        /\ update' = update /\ terminate' = terminate /\ batchCancelled' = batchCancelled
        /\ tardy' = tardy
  BY DEF CallStarted, Return, batchVars
<1>3. at = "prepare" /\ index = c
  BY <1>1, <1>2, Where DEF SinkInv
<1>4. /\ sink' = sink \ {<<c, 0>>} /\ sink' \subseteq Emitters
      /\ mode = "parallel" => \A f, g \in sink' : f = g
      /\ log' = log /\ PendingToolCalls' = PendingToolCalls
      /\ rejected' = IF ok THEN rejected ELSE rejected \cup {"start"}
      /\ rejected' \subseteq EventTypes \cup {"message"} /\ failures' \in Nat
  BY <1>1, <1>2, TheEmitter, Left DEF EventTypes
<1>5. CASE ok
  <2>1. /\ stage' = [stage EXCEPT ![c] = "gate"]
        /\ mode' = mode /\ at' = at /\ index' = index /\ reached' = reached
        /\ firstErr' = firstErr /\ messages' = messages /\ returned' = returned
        /\ rejected' = rejected
    BY <1>2, <1>4, <1>5
  <2>2. /\ stage' \in [Call -> Stages]
        /\ \A d \in Call : stage'[d] = IF d = c THEN "gate" ELSE stage[d]
    BY <1>1, <2>1, Moved DEF Stages
  <2>3. BatchTypes'
    BY <1>1, <1>2, <1>4, <2>1, <2>2 DEF BatchTypes
  <2>4. PlaceInv'
    BY <1>1, <1>2, <1>3, <2>1, <2>2 DEF PlaceInv, Preparing, Executing, Answering, Over
  <2>5. UpdateInv'
    BY <1>1, <1>2, <2>2 DEF UpdateInv, Active
  <2>6. SinkInv'
    BY <1>1, <1>2, <1>3, <1>4, <2>1, <2>2, TheEmitter DEF SinkInv
  <2>7. LogInv'
    <3>1. /\ \A d \in Call : (stage'[d] = "new" <=> stage[d] = "new")
          /\ \A d \in Call : (stage'[d] \in {"ending", "ended"}
                                <=> stage[d] \in {"ending", "ended"})
      BY <1>2, <2>2
    <3> QED BY <1>1, <1>4, <3>1, LogKept
  <2>8. MessagesInv'
    BY <1>1, <1>2, <2>1, <2>2 DEF MessagesInv, BatchTypes
  <2>9. TardyInv' /\ ErrorInv'
    BY <1>1, <1>2, <1>3, <2>1, <2>2 DEF TardyInv, ErrorInv
  <2> QED BY <2>3, <2>4, <2>5, <2>6, <2>7, <2>8, <2>9 DEF BatchInv
<1>6. CASE ~ok
  <2>1. /\ at' = "returned" /\ returned' = "error" /\ stage' = stage
        /\ mode' = mode /\ index' = index /\ reached' = reached
        /\ firstErr' = firstErr /\ messages' = messages /\ rejected' = rejected \cup {"start"}
    BY <1>2, <1>4, <1>6
  <2>2. BatchTypes'
    BY <1>1, <1>2, <1>4, <2>1 DEF BatchTypes
  <2>3. PlaceInv'
    <3>1. \A d \in Call : d # c => stage[d] \in {"new", "ended", "ready"}
      BY <1>1, <1>3, Where
    <3> QED BY <1>2, <2>1, <3>1 DEF PlaceInv, Preparing, Executing, Answering, Over, Uncertain
  <2>4. UpdateInv' /\ MessagesInv'
    BY <1>1, <1>2, <2>1 DEF UpdateInv, MessagesInv
  <2>5. SinkInv'
    BY <1>1, <1>2, <1>3, <1>4, <2>1, Quiet DEF SinkInv
  <2>6. LogInv'
    BY <1>1, <1>4, <2>1, SameLog
  <2>7. TardyInv' /\ ErrorInv'
    BY <1>1, <1>2, <1>3, <2>1 DEF TardyInv, ErrorInv
  <2> QED BY <2>2, <2>3, <2>4, <2>5, <2>6, <2>7 DEF BatchInv
<1> QED BY <1>5, <1>6

\* The first loop of a parallel batch goes on to the next call, or to its goroutines.
LEMMA GoesOn ==
  ASSUME ToolBatchAssumption, BatchTypes, PlaceInv, TardyInv, NEW c \in Call, NEW s \in {"ready", "ended"},
         at = "prepare", index = c, mode = "parallel", GoOn(c),
         stage' = [stage EXCEPT ![c] = s], mode' = mode, firstErr' = firstErr,
         messages' = messages, returned' = returned, batchCancelled' = batchCancelled
  PROVE  /\ index' \in Nat /\ reached' = c /\ at' \in {"prepare", "execute"}
         /\ at' = "prepare" => ~batchCancelled /\ tardy = {} /\ index' \in Call /\ stage'[index'] = "new"
         /\ PlaceInv'
<1>1. /\ stage' \in [Call -> Stages]
      /\ \A d \in Call : stage'[d] = IF d = c THEN s ELSE stage[d]
  BY Moved DEF Stages
<1>2. Calls \in Nat /\ c \in Nat /\ c <= Calls /\ 1 <= c
      /\ \A d \in Call : d \in Nat /\ d <= Calls
  BY DEF ToolBatchAssumption, Call
<1>3. /\ returned = "no" /\ ~firstErr /\ messages = <<>>
      /\ \A d \in Call : d > c => stage[d] = "new"
      /\ \A d \in Call : d < c => stage[d] \in {"ended", "ready"}
  BY DEF PlaceInv, Preparing
<1>4. CASE c = Calls \/ batchCancelled
  <2>1. at' = "execute" /\ index' = 1 /\ reached' = c
    BY <1>4 DEF GoOn
  <2>2. \A d \in Call : /\ d <= c => stage'[d] \notin {"new", "starting", "gate", "prepared"}
                        /\ d > c => stage'[d] = "new"
    BY <1>1, <1>2, <1>3
  <2>3. Executing'
    BY <1>3, <1>4, <2>1, <2>2 DEF Executing
  <2> QED BY <2>1, <2>3, <1>2 DEF PlaceInv, Preparing, Answering, Over
<1>5. CASE ~(c = Calls \/ batchCancelled)
  <2>1. at' = "prepare" /\ index' = c + 1 /\ reached' = c
    BY <1>5 DEF GoOn
  <2>2. c + 1 \in Call /\ stage'[c + 1] = "new"
    <3>1. c + 1 \in Call
      BY <1>2, <1>5 DEF Call
    <3> QED BY <3>1, <1>1, <1>2, <1>3
  <2>3. /\ \A d \in Call : d > c + 1 => stage'[d] = "new"
        /\ \A d \in Call : d < c + 1 => stage'[d] \in {"ended", "ready"}
    BY <1>1, <1>2, <1>3
  <2>4. Preparing'
    BY <1>2, <1>3, <2>1, <2>2, <2>3 DEF Preparing
  <2> QED BY <2>1, <2>2, <2>4, <1>2, <1>5 DEF PlaceInv, Executing, Answering, Over, TardyInv
<1> QED BY <1>4, <1>5

LEMMA CallPrepared ==
  ASSUME ToolBatchAssumption, BatchInv, NEW c \in Call, prepareToolCall(c) \/ KeepCall(c)
  PROVE  BatchInv'
<1>1. /\ BatchTypes /\ PlaceInv /\ UpdateInv /\ SinkInv /\ LogInv /\ MessagesInv /\ TardyInv
      /\ ErrorInv
  BY DEF BatchInv
<1>2. /\ stage[c] \in {"gate", "prepared"}
      /\ update' = update /\ terminate' = terminate /\ sink' = sink
      /\ PendingToolCalls' = PendingToolCalls /\ log' = log
      /\ batchCancelled' = batchCancelled /\ tardy' = tardy /\ rejected' = rejected /\ failures' = failures
  BY DEF prepareToolCall, KeepCall, sinkVars, otherVars
<1>3. at = "prepare" /\ index = c
  BY <1>1, <1>2, Where
<1>4. PICK s \in {"finalized", "prepared", "ready", "running"} :
        /\ stage' = [stage EXCEPT ![c] = s]
        /\ mode' = mode /\ firstErr' = firstErr /\ messages' = messages /\ returned' = returned
        /\ s \in {"prepared", "running"} => ~batchCancelled
        /\ s = "ready" => stage[c] = "prepared" /\ GoOn(c)
        /\ s \in {"prepared", "ready"} => mode = "parallel"
        /\ s # "ready" => at' = at /\ index' = index /\ reached' = reached
        /\ s = "running" => mode = "sequential"
  BY <1>1, <1>2, Where DEF prepareToolCall, KeepCall, batchVars, BatchTypes, ExecutionModes
<1>5. /\ stage' \in [Call -> Stages]
      /\ \A d \in Call : stage'[d] = IF d = c THEN s ELSE stage[d]
  BY <1>1, <1>4, Moved DEF Stages
<1>6. /\ index' \in Nat /\ reached' \in Nat /\ at' \in {"prepare", "execute"}
      /\ at' = "prepare" /\ stage'[index'] = "new" => tardy = {}
      /\ PlaceInv'
  <2>1. CASE s = "ready"
    <3>1. c \in Nat
      BY DEF Call
    <3>2. /\ index' \in Nat /\ reached' = c /\ at' \in {"prepare", "execute"}
          /\ at' = "prepare" => ~batchCancelled /\ tardy = {} /\ index' \in Call
          /\ PlaceInv'
      BY <1>1, <1>2, <1>3, <1>4, <2>1, GoesOn
    <3> QED BY <3>1, <3>2
  <2>2. CASE s # "ready"
    BY <1>1, <1>2, <1>3, <1>4, <1>5, <2>2
       DEF PlaceInv, Preparing, Executing, Answering, Over, BatchTypes
  <2> QED BY <2>1, <2>2
<1>7. BatchTypes'
  BY <1>1, <1>2, <1>4, <1>5, <1>6 DEF BatchTypes
<1>8. UpdateInv'
  BY <1>1, <1>2, <1>5 DEF UpdateInv, Active
<1>9. SinkInv'
  BY <1>1, <1>2, <1>3, <1>4, <1>5, <1>6 DEF SinkInv
<1>10. LogInv'
  <2>1. /\ \A d \in Call : (stage'[d] = "new" <=> stage[d] = "new")
        /\ \A d \in Call : (stage'[d] \in {"ending", "ended"}
                              <=> stage[d] \in {"ending", "ended"})
    BY <1>2, <1>4, <1>5
  <2> QED BY <1>1, <1>2, <2>1, LogKept
<1>11. MessagesInv'
  BY <1>1, <1>2, <1>4, <1>5 DEF MessagesInv, BatchTypes
<1>12. TardyInv'
  BY <1>1, <1>2, <1>4, <1>5, <1>6 DEF TardyInv
<1>13. ErrorInv'
  BY <1>1, <1>2, <1>3, <1>4, <1>6 DEF ErrorInv, PlaceInv, Preparing
<1> QED BY <1>6, <1>7, <1>8, <1>9, <1>10, <1>11, <1>12, <1>13 DEF BatchInv

LEMMA GoroutinesStart ==
  ASSUME ToolBatchAssumption, BatchInv, SpawnReady
  PROVE  BatchInv'
<1>1. /\ BatchTypes /\ PlaceInv /\ UpdateInv /\ SinkInv /\ LogInv /\ MessagesInv /\ TardyInv
      /\ ErrorInv
  BY DEF BatchInv
<1>2. /\ at = "execute" /\ mode = "parallel"
      /\ mode' = mode /\ at' = at /\ index' = index /\ reached' = reached
      /\ firstErr' = firstErr /\ messages' = messages /\ returned' = returned
      /\ update' = update /\ terminate' = terminate /\ sink' = sink
      /\ PendingToolCalls' = PendingToolCalls /\ log' = log
      /\ batchCancelled' = batchCancelled /\ tardy' = tardy /\ rejected' = rejected /\ failures' = failures
  BY DEF SpawnReady, batchVars, sinkVars, otherVars
<1>3. /\ stage' \in [Call -> Stages]
      /\ \A d \in Call : stage'[d] = IF stage[d] = "ready" THEN "running" ELSE stage[d]
  <2>1. stage' = [c \in Call |-> IF stage[c] = "ready" THEN "running" ELSE stage[c]]
    BY DEF SpawnReady
  <2>2. \A c \in Call : stage[c] \in Stages
    BY <1>1 DEF BatchTypes
  <2> QED BY <2>1, <2>2 DEF Stages
<1>4. BatchTypes'
  BY <1>1, <1>2, <1>3 DEF BatchTypes
<1>5. PlaceInv'
  BY <1>1, <1>2, <1>3 DEF PlaceInv, Preparing, Executing, Answering, Over
<1>6. UpdateInv'
  BY <1>1, <1>2, <1>3 DEF UpdateInv, Active
<1>7. SinkInv'
  BY <1>1, <1>2, <1>3 DEF SinkInv
<1>8. LogInv'
  <2>1. /\ \A d \in Call : (stage'[d] = "new" <=> stage[d] = "new")
        /\ \A d \in Call : (stage'[d] \in {"ending", "ended"}
                              <=> stage[d] \in {"ending", "ended"})
    BY <1>3
  <2> QED BY <1>1, <1>2, <2>1, LogKept
<1>9. MessagesInv'
  BY <1>1, <1>2 DEF MessagesInv, PlaceInv, Executing
<1>10. TardyInv' /\ ErrorInv'
  BY <1>1, <1>2, <1>3 DEF TardyInv, ErrorInv, BatchTypes
<1> QED BY <1>4, <1>5, <1>6, <1>7, <1>8, <1>9, <1>10 DEF BatchInv

-----------------------------------------------------------------------------
\* Updates.
LEMMA UpdateMoved ==
  ASSUME BatchTypes, NEW c \in Call, NEW k \in 1..Updates,
         NEW s \in {"no", "accepted", "emitting", "done"},
         update' = [update EXCEPT ![<<c, k>>] = s]
  PROVE  /\ update' \in [Call \X (1..Updates) -> {"no", "accepted", "emitting", "done"}]
         /\ \A d \in Call, j \in 1..Updates :
              update'[<<d, j>>] = IF d = c /\ j = k THEN s ELSE update[<<d, j>>]
<1>1. update \in [Call \X (1..Updates) -> {"no", "accepted", "emitting", "done"}]
  BY DEF BatchTypes
<1>2. \A d \in Call, j \in 1..Updates :
        <<d, j>> \in Call \X (1..Updates) /\ (<<d, j>> = <<c, k>> <=> d = c /\ j = k)
  OBVIOUS
<1> QED BY <1>1, <1>2

LEMMA UpdateAccepted ==
  ASSUME ToolBatchAssumption, BatchInv, NEW c \in Call, NEW k \in 1..Updates, AcceptUpdate(c, k)
  PROVE  BatchInv'
<1>1. /\ BatchTypes /\ PlaceInv /\ UpdateInv /\ SinkInv /\ LogInv /\ MessagesInv /\ TardyInv
      /\ ErrorInv
  BY DEF BatchInv
<1>2. /\ stage[c] = "running" /\ update[<<c, k>>] = "no"
      /\ update' = [update EXCEPT ![<<c, k>>] = "accepted"]
      /\ mode' = mode /\ at' = at /\ index' = index /\ reached' = reached
      /\ firstErr' = firstErr /\ messages' = messages /\ returned' = returned
      /\ stage' = stage /\ terminate' = terminate /\ sink' = sink
      /\ PendingToolCalls' = PendingToolCalls /\ log' = log
      /\ batchCancelled' = batchCancelled /\ tardy' = tardy /\ rejected' = rejected /\ failures' = failures
  BY DEF AcceptUpdate, batchVars, sinkVars, otherVars
<1>3. /\ update' \in [Call \X (1..Updates) -> {"no", "accepted", "emitting", "done"}]
      /\ \A d \in Call, j \in 1..Updates :
           update'[<<d, j>>] = IF d = c /\ j = k THEN "accepted" ELSE update[<<d, j>>]
  BY <1>1, <1>2, UpdateMoved
<1>4. BatchTypes'
  BY <1>1, <1>2, <1>3 DEF BatchTypes
<1>5. PlaceInv'
  BY <1>1, <1>2 DEF PlaceInv, Preparing, Executing, Answering, Over, EndedUpTo
<1>6. UpdateInv'
  BY <1>1, <1>2, <1>3 DEF UpdateInv
<1>7. SinkInv'
  BY <1>1, <1>2, <1>3 DEF SinkInv
<1>8. LogInv'
  BY <1>1, <1>2, SameLog
<1>9. MessagesInv' /\ TardyInv' /\ ErrorInv'
  BY <1>1, <1>2 DEF MessagesInv, TardyInv, ErrorInv
<1> QED BY <1>4, <1>5, <1>6, <1>7, <1>8, <1>9 DEF BatchInv

LEMMA UpdateEmits ==
  ASSUME ToolBatchAssumption, BatchInv, NEW c \in Call, NEW k \in 1..Updates, EmitUpdate(c, k)
  PROVE  BatchInv'
<1>1. /\ BatchTypes /\ PlaceInv /\ UpdateInv /\ SinkInv /\ LogInv /\ MessagesInv /\ TardyInv
      /\ ErrorInv
  BY DEF BatchInv
<1>2. /\ update[<<c, k>>] = "accepted" /\ Enter(<<c, k>>, "update")
      /\ update' = [update EXCEPT ![<<c, k>>] = "emitting"]
      /\ mode' = mode /\ at' = at /\ index' = index /\ reached' = reached
      /\ firstErr' = firstErr /\ messages' = messages /\ returned' = returned
      /\ stage' = stage /\ terminate' = terminate
      /\ batchCancelled' = batchCancelled /\ tardy' = tardy /\ rejected' = rejected /\ failures' = failures
  BY DEF EmitUpdate, batchVars, otherVars
<1>3. /\ update' \in [Call \X (1..Updates) -> {"no", "accepted", "emitting", "done"}]
      /\ \A d \in Call, j \in 1..Updates :
           update'[<<d, j>>] = IF d = c /\ j = k THEN "emitting" ELSE update[<<d, j>>]
  BY <1>1, <1>2, UpdateMoved
<1>4. stage[c] \in {"running", "draining"} /\ at # "returned"
  <2>1. stage[c] \in {"running", "draining"}
    BY <1>1, <1>2 DEF UpdateInv, Active
  <2> QED BY <2>1, <1>1, Where
<1>5. /\ sink' = sink \cup {<<c, k>>} /\ sink' \subseteq Emitters
      /\ mode = "parallel" => \A f, g \in sink' : f = g
  BY <1>1, <1>2, TheEmitter, Alone
<1>6. /\ log' \in Seq(EventTypes \X Call)
      /\ \A t \in EventTypes, d \in Call :
           Logged(t, d)' <=> (Logged(t, d) \/ (t = "update" /\ d = c))
      /\ InTime'
  <2>1. Logged("start", c) /\ ~Logged("end", c)
    BY <1>1, <1>4 DEF LogInv
  <2>2. <<c, k>> \in Emitters /\ <<c, k>>[1] = c /\ "update" \in EventTypes
    BY TheEmitter DEF EventTypes
  <2> QED BY <1>1, <1>2, <2>1, <2>2, Entered DEF LogInv
<1>7. PendingToolCalls' = PendingToolCalls
  BY <1>2 DEF Enter
<1>8. BatchTypes'
  BY <1>1, <1>2, <1>3, <1>5, <1>6, <1>7 DEF BatchTypes
<1>9. PlaceInv'
  BY <1>1, <1>2 DEF PlaceInv, Preparing, Executing, Answering, Over, EndedUpTo
<1>10. UpdateInv'
  BY <1>1, <1>2, <1>3, <1>4 DEF UpdateInv
<1>11. SinkInv'
  <2>1. \A d \in Call : \A j \in 0..Updates : <<d, j>> = <<c, k>> <=> d = c /\ j = k
    OBVIOUS
  <2>2. 0 \in 0..Updates /\ k # 0 /\ \A j \in 1..Updates : j \in 0..Updates
    BY DEF ToolBatchAssumption
  <2> QED BY <1>1, <1>2, <1>3, <1>4, <1>5, <2>1, <2>2 DEF SinkInv
<1>12. LogInv'
  BY <1>1, <1>2, <1>6, <1>7 DEF LogInv, EventTypes
<1>13. MessagesInv' /\ TardyInv' /\ ErrorInv'
  BY <1>1, <1>2 DEF MessagesInv, TardyInv, ErrorInv
<1> QED BY <1>8, <1>9, <1>10, <1>11, <1>12, <1>13 DEF BatchInv

LEMMA UpdateDone ==
  ASSUME ToolBatchAssumption, BatchInv, NEW c \in Call, NEW k \in 1..Updates, UpdateEmitted(c, k)
  PROVE  BatchInv'
<1>1. /\ BatchTypes /\ PlaceInv /\ UpdateInv /\ SinkInv /\ LogInv /\ MessagesInv /\ TardyInv
      /\ ErrorInv
  BY DEF BatchInv
<1>2. PICK ok \in BOOLEAN :
        /\ update[<<c, k>>] = "emitting" /\ Leave(<<c, k>>, "update", ok)
        /\ update' = [update EXCEPT ![<<c, k>>] = "done"]
        /\ mode' = mode /\ at' = at /\ index' = index /\ reached' = reached
        /\ firstErr' = firstErr /\ messages' = messages /\ returned' = returned
        /\ stage' = stage /\ terminate' = terminate
        /\ batchCancelled' = batchCancelled /\ tardy' = tardy
  BY DEF UpdateEmitted, batchVars
<1>3. /\ update' \in [Call \X (1..Updates) -> {"no", "accepted", "emitting", "done"}]
      /\ \A d \in Call, j \in 1..Updates :
           update'[<<d, j>>] = IF d = c /\ j = k THEN "done" ELSE update[<<d, j>>]
  BY <1>1, <1>2, UpdateMoved
<1>4. stage[c] \in {"running", "draining"} /\ at # "returned"
  <2>1. stage[c] \in {"running", "draining"}
    BY <1>1, <1>2 DEF UpdateInv, Active
  <2> QED BY <2>1, <1>1, Where
<1>5. /\ sink' = sink \ {<<c, k>>} /\ sink' \subseteq Emitters
      /\ mode = "parallel" => \A f, g \in sink' : f = g
      /\ log' = log /\ PendingToolCalls' = PendingToolCalls
      /\ rejected' = IF ok THEN rejected ELSE rejected \cup {"update"}
      /\ rejected' \subseteq EventTypes \cup {"message"} /\ failures' \in Nat
  <2>1. <<c, k>> \in Emitters /\ "update" \in EventTypes
    BY TheEmitter DEF EventTypes
  <2> QED BY <1>1, <1>2, <2>1, Left
<1>6. BatchTypes'
  BY <1>1, <1>2, <1>3, <1>5 DEF BatchTypes
<1>7. PlaceInv'
  BY <1>1, <1>2 DEF PlaceInv, Preparing, Executing, Answering, Over, EndedUpTo
<1>8. UpdateInv'
  BY <1>1, <1>2, <1>3 DEF UpdateInv, Active
<1>9. SinkInv'
  <2>1. \A d \in Call : \A j \in 0..Updates : <<d, j>> = <<c, k>> <=> d = c /\ j = k
    OBVIOUS
  <2>2. 0 \in 0..Updates /\ k # 0 /\ \A j \in 1..Updates : j \in 0..Updates
    BY DEF ToolBatchAssumption
  <2> QED BY <1>1, <1>2, <1>3, <1>4, <1>5, <2>1, <2>2 DEF SinkInv
<1>10. LogInv'
  BY <1>1, <1>2, <1>5, SameLog
<1>11. MessagesInv' /\ TardyInv'
  BY <1>1, <1>2 DEF MessagesInv, TardyInv
<1>12. ErrorInv'
  <2>1. rejected' \ {"update"} = rejected \ {"update"}
    BY <1>5
  <2>2. rejected \subseteq {"update"} => rejected' \subseteq {"update"}
    BY <1>5
  <2> QED BY <1>1, <1>2, <2>1, <2>2 DEF ErrorInv
<1> QED BY <1>6, <1>7, <1>8, <1>9, <1>10, <1>11, <1>12 DEF BatchInv

-----------------------------------------------------------------------------
\* The end of a call.
LEMMA CallReturns ==
  ASSUME ToolBatchAssumption, BatchInv, NEW c \in Call, ExecuteReturns(c) \/ Drain(c)
  PROVE  BatchInv'
<1>1. /\ BatchTypes /\ PlaceInv /\ UpdateInv /\ SinkInv /\ LogInv /\ MessagesInv /\ TardyInv
      /\ ErrorInv
  BY DEF BatchInv
<1>2. PICK s \in {"draining", "finalized"} :
        /\ stage' = [stage EXCEPT ![c] = s]
        /\ stage[c] \in {"running", "draining"}
        /\ s = "finalized" => \A k \in 1..Updates : update[<<c, k>>] \in {"no", "done"}
        /\ \/ terminate' = terminate
           \/ \E t \in BOOLEAN : terminate' = [terminate EXCEPT ![c] = t]
  BY DEF ExecuteReturns, Drain
<1>3. /\ mode' = mode /\ at' = at /\ index' = index /\ reached' = reached
      /\ firstErr' = firstErr /\ messages' = messages /\ returned' = returned
      /\ update' = update /\ sink' = sink
      /\ PendingToolCalls' = PendingToolCalls /\ log' = log
      /\ batchCancelled' = batchCancelled /\ tardy' = tardy /\ rejected' = rejected /\ failures' = failures
  BY DEF ExecuteReturns, Drain, batchVars, sinkVars, otherVars
<1>4. /\ stage' \in [Call -> Stages]
      /\ \A d \in Call : stage'[d] = IF d = c THEN s ELSE stage[d]
  BY <1>1, <1>2, Moved DEF Stages
<1>5. terminate' \in [Call -> BOOLEAN]
  BY <1>1, <1>2 DEF BatchTypes
<1>6. BatchTypes'
  BY <1>1, <1>3, <1>4, <1>5 DEF BatchTypes
<1>7. PlaceInv'
  <2>1. at # "message" /\ at # "returned"
    BY <1>1, <1>2, Where
  <2>2. at = "prepare" => index = c /\ mode = "sequential"
    BY <1>1, <1>2, Where
  <2> QED BY <1>1, <1>2, <1>3, <1>4, <2>1, <2>2
           DEF PlaceInv, Preparing, Executing, Answering, Over
<1>8. UpdateInv'
  BY <1>1, <1>2, <1>3, <1>4 DEF UpdateInv, Active
<1>9. SinkInv'
  BY <1>1, <1>2, <1>3, <1>4 DEF SinkInv
<1>10. LogInv'
  <2>1. /\ \A d \in Call : (stage'[d] = "new" <=> stage[d] = "new")
        /\ \A d \in Call : (stage'[d] \in {"ending", "ended"}
                              <=> stage[d] \in {"ending", "ended"})
    BY <1>2, <1>4
  <2> QED BY <1>1, <1>3, <2>1, LogKept
<1>11. MessagesInv'
  BY <1>1, <1>2, <1>3, <1>4 DEF MessagesInv, BatchTypes
<1>12. TardyInv' /\ ErrorInv'
  BY <1>1, <1>2, <1>3, <1>4 DEF TardyInv, ErrorInv
<1> QED BY <1>6, <1>7, <1>8, <1>9, <1>10, <1>11, <1>12 DEF BatchInv

LEMMA CallEnds ==
  ASSUME ToolBatchAssumption, BatchInv, NEW c \in Call, EmitEnd(c)
  PROVE  BatchInv'
<1>1. /\ BatchTypes /\ PlaceInv /\ UpdateInv /\ SinkInv /\ LogInv /\ MessagesInv /\ TardyInv
      /\ ErrorInv
  BY DEF BatchInv
<1>2. /\ stage[c] = "finalized" /\ Enter(<<c, 0>>, "end")
      /\ stage' = [stage EXCEPT ![c] = "ending"]
      /\ mode' = mode /\ at' = at /\ index' = index /\ reached' = reached
      /\ firstErr' = firstErr /\ messages' = messages /\ returned' = returned
      /\ update' = update /\ terminate' = terminate
      /\ batchCancelled' = batchCancelled /\ tardy' = tardy /\ rejected' = rejected /\ failures' = failures
  BY DEF EmitEnd, batchVars, otherVars
<1>3. /\ stage' \in [Call -> Stages]
      /\ \A d \in Call : stage'[d] = IF d = c THEN "ending" ELSE stage[d]
  BY <1>1, <1>2, Moved DEF Stages
<1>4. /\ sink' = sink \cup {<<c, 0>>} /\ sink' \subseteq Emitters
      /\ mode = "parallel" => \A f, g \in sink' : f = g
  BY <1>1, <1>2, TheEmitter, Alone
<1>5. /\ log' \in Seq(EventTypes \X Call)
      /\ \A t \in EventTypes, d \in Call :
           Logged(t, d)' <=> (Logged(t, d) \/ (t = "end" /\ d = c))
      /\ InTime'
  BY <1>1, <1>2, TheEmitter, Entered DEF LogInv, EventTypes
<1>6. PendingToolCalls' = PendingToolCalls \ {c}
  BY <1>2, TheEmitter DEF Enter
<1>7. at # "message" /\ at # "returned" /\ (at = "prepare" => index = c)
  BY <1>1, <1>2, Where
<1>8. BatchTypes'
  BY <1>1, <1>2, <1>3, <1>4, <1>5, <1>6 DEF BatchTypes
<1>9. PlaceInv'
  BY <1>1, <1>2, <1>3, <1>7 DEF PlaceInv, Preparing, Executing, Answering, Over
<1>10. UpdateInv'
  BY <1>1, <1>2, <1>3 DEF UpdateInv, Active
<1>11. SinkInv'
  BY <1>1, <1>2, <1>3, <1>4, <1>7, TheEmitter DEF SinkInv
<1>12. LogInv'
  BY <1>1, <1>2, <1>3, <1>5, <1>6 DEF LogInv, EventTypes, BatchTypes
<1>13. MessagesInv'
  BY <1>1, <1>2, <1>3 DEF MessagesInv, BatchTypes
<1>14. TardyInv' /\ ErrorInv'
  BY <1>1, <1>2, <1>3 DEF TardyInv, ErrorInv
<1> QED BY <1>8, <1>9, <1>10, <1>11, <1>12, <1>13, <1>14 DEF BatchInv

LEMMA CallEnded ==
  ASSUME ToolBatchAssumption, BatchInv, NEW c \in Call, EndEmitted(c)
  PROVE  BatchInv'
<1>1. /\ BatchTypes /\ PlaceInv /\ UpdateInv /\ SinkInv /\ LogInv /\ MessagesInv /\ TardyInv
      /\ ErrorInv
  BY DEF BatchInv
<1>2. PICK ok \in BOOLEAN :
        /\ stage[c] = "ending" /\ stage' = [stage EXCEPT ![c] = "ended"]
        /\ Leave(<<c, 0>>, "end", ok)
        /\ IF ~ok /\ (mode = "sequential" \/ at = "prepare")
           THEN /\ at' = "returned" /\ returned' = "error" /\ mode' = mode /\ index' = index
                /\ reached' = reached /\ firstErr' = firstErr /\ messages' = messages
           ELSE IF mode = "sequential"
           THEN /\ at' = "message" /\ reached' = c /\ mode' = mode /\ index' = index
                /\ firstErr' = firstErr /\ messages' = messages /\ returned' = returned
           ELSE IF at = "prepare"
           THEN /\ GoOn(c) /\ mode' = mode
                /\ firstErr' = firstErr /\ messages' = messages /\ returned' = returned
           ELSE /\ firstErr' = (firstErr \/ ~ok) /\ mode' = mode /\ at' = at /\ index' = index
                /\ reached' = reached /\ messages' = messages /\ returned' = returned
        /\ update' = update /\ terminate' = terminate /\ batchCancelled' = batchCancelled
        /\ tardy' = tardy
  BY DEF EndEmitted, Return
<1>3. /\ stage' \in [Call -> Stages]
      /\ \A d \in Call : stage'[d] = IF d = c THEN "ended" ELSE stage[d]
  BY <1>1, <1>2, Moved DEF Stages
<1>4. /\ sink' = sink \ {<<c, 0>>} /\ sink' \subseteq Emitters
      /\ mode = "parallel" => \A f, g \in sink' : f = g
      /\ log' = log /\ PendingToolCalls' = PendingToolCalls
      /\ rejected' = IF ok THEN rejected ELSE rejected \cup {"end"}
      /\ rejected' \subseteq EventTypes \cup {"message"} /\ failures' \in Nat
  BY <1>1, <1>2, TheEmitter, Left DEF EventTypes
<1>5. \/ at = "prepare" /\ index = c
      \/ at = "execute" /\ mode = "parallel" /\ c <= reached
  BY <1>1, <1>2, Where
<1>6. /\ c \in Nat /\ \A d \in Call : d \in Nat
      /\ mode \in {"sequential", "parallel"} /\ at # "returned"
  <2>1. \A d \in Call : d \in Nat
    BY DEF Call
  <2> QED BY <2>1, <1>1, <1>5 DEF BatchTypes, ExecutionModes
<1>7. UpdateInv'
  BY <1>1, <1>2, <1>3 DEF UpdateInv, Active
<1>8. LogInv'
  <2>1. /\ \A d \in Call : (stage'[d] = "new" <=> stage[d] = "new")
        /\ \A d \in Call : (stage'[d] \in {"ending", "ended"}
                              <=> stage[d] \in {"ending", "ended"})
    BY <1>2, <1>3
  <2> QED BY <1>1, <1>4, <2>1, LogKept
<1>9. messages' = messages /\ mode' = mode
  BY <1>2
<1>10. MessagesInv'
  BY <1>1, <1>3, <1>9 DEF MessagesInv, BatchTypes
<1>11. \A d \in Call : d # c =>
         /\ <<d, 0>> \in sink' <=> <<d, 0>> \in sink
         /\ \A k \in 1..Updates : <<d, k>> \in sink' <=> <<d, k>> \in sink
  BY <1>4
<1>12. /\ <<c, 0>> \notin sink'
       /\ \A k \in 1..Updates : <<c, k>> \in sink' <=> <<c, k>> \in sink
  BY <1>4, TheEmitter
<1>13. at' # "returned" => SinkInv'
  BY <1>1, <1>2, <1>3, <1>4, <1>6, <1>9, <1>11, <1>12 DEF SinkInv
<1>14. CASE ~ok /\ (mode = "sequential" \/ at = "prepare")
  <2>1. /\ at' = "returned" /\ returned' = "error" /\ index' = index
        /\ reached' = reached /\ firstErr' = firstErr /\ rejected' = rejected \cup {"end"}
        /\ at = "prepare" /\ index = c
    BY <1>2, <1>4, <1>5, <1>14
  <2>2. BatchTypes'
    BY <1>1, <1>2, <1>3, <1>4, <1>9, <2>1 DEF BatchTypes
  <2>3. PlaceInv'
    <3>1. \A d \in Call : d # c => stage[d] \in {"new", "ended", "ready"}
      BY <1>1, <2>1, Where
    <3> QED BY <1>3, <2>1, <3>1 DEF PlaceInv, Preparing, Executing, Answering, Over, Uncertain
  <2>4. SinkInv'
    BY <1>1, <1>2, <1>4, <2>1, Quiet DEF SinkInv
  <2>5. TardyInv' /\ ErrorInv'
    BY <1>1, <1>2, <1>3, <2>1 DEF TardyInv, ErrorInv
  <2> QED BY <1>7, <1>8, <1>10, <2>2, <2>3, <2>4, <2>5 DEF BatchInv
<1>15. CASE ok /\ mode = "sequential"
  <2>1. /\ at' = "message" /\ reached' = c /\ index' = index /\ firstErr' = firstErr
        /\ returned' = returned /\ rejected' = rejected /\ at = "prepare" /\ index = c
    BY <1>2, <1>4, <1>5, <1>15
  <2>2. BatchTypes'
    BY <1>1, <1>2, <1>3, <1>4, <1>6, <1>9, <2>1 DEF BatchTypes
  <2>3. PlaceInv'
    <3>1. /\ returned = "no" /\ ~firstErr /\ Len(messages) = c - 1
          /\ \A d \in Call : /\ d > c => stage[d] = "new"
                             /\ d < c => stage[d] = "ended"
      BY <1>1, <1>15, <2>1 DEF PlaceInv, Preparing
    <3>2. EndedUpTo(c)'
      BY <1>3, <1>6, <3>1 DEF EndedUpTo
    <3>3. c \in 1..c
      BY DEF Call
    <3> QED BY <1>9, <1>15, <2>1, <3>1, <3>2, <3>3
             DEF PlaceInv, Preparing, Executing, Answering, Over, EndedUpTo
  <2>4. TardyInv' /\ ErrorInv'
    BY <1>1, <1>2, <1>3, <2>1 DEF TardyInv, ErrorInv
  <2> QED BY <1>7, <1>8, <1>10, <1>13, <2>1, <2>2, <2>3, <2>4 DEF BatchInv
<1>16. CASE ok /\ mode = "parallel" /\ at = "prepare"
  <2>1. /\ GoOn(c) /\ firstErr' = firstErr /\ returned' = returned /\ rejected' = rejected
        /\ index = c
    BY <1>2, <1>4, <1>5, <1>16
  <2>2. /\ index' \in Nat /\ reached' = c /\ at' \in {"prepare", "execute"}
        /\ at' = "prepare" => ~batchCancelled /\ tardy = {} /\ index' \in Call
        /\ PlaceInv'
    BY <1>1, <1>2, <1>9, <1>16, <2>1, GoesOn
  <2>3. BatchTypes'
    BY <1>1, <1>2, <1>3, <1>4, <1>6, <1>9, <2>1, <2>2 DEF BatchTypes
  <2>4. TardyInv' /\ ErrorInv'
    BY <1>1, <1>2, <1>3, <1>16, <2>1, <2>2 DEF TardyInv, ErrorInv, PlaceInv, Preparing
  <2> QED BY <1>7, <1>8, <1>10, <1>13, <2>2, <2>3, <2>4 DEF BatchInv
<1>17. CASE mode = "parallel" /\ at = "execute"
  <2>1. /\ firstErr' = (firstErr \/ ~ok) /\ at' = at /\ index' = index /\ reached' = reached
        /\ returned' = returned
    BY <1>2, <1>17
  <2>2. BatchTypes'
    BY <1>1, <1>2, <1>3, <1>4, <1>9, <2>1 DEF BatchTypes
  <2>3. PlaceInv'
    BY <1>1, <1>2, <1>3, <1>9, <1>17, <2>1 DEF PlaceInv, Preparing, Executing, Answering, Over
  <2>4. TardyInv'
    BY <1>1, <1>2, <1>3, <1>17, <2>1 DEF TardyInv
  <2>5. ErrorInv'
    <3>1. CASE ok
      BY <1>1, <1>4, <1>17, <2>1, <3>1 DEF ErrorInv
    <3>2. CASE ~ok
      <4>1. firstErr' /\ "end" \in rejected' \ {"update"}
        BY <1>4, <2>1, <3>2
      <4> QED BY <4>1, <1>17, <2>1 DEF ErrorInv
    <3> QED BY <3>1, <3>2
  <2> QED BY <1>7, <1>8, <1>10, <1>13, <1>17, <2>1, <2>2, <2>3, <2>4, <2>5 DEF BatchInv
<1> QED BY <1>5, <1>6, <1>14, <1>15, <1>16, <1>17

-----------------------------------------------------------------------------
\* The goroutines are waited for, and the calls are answered.
LEMMA Waited ==
  ASSUME ToolBatchAssumption, BatchInv, Wait
  PROVE  BatchInv'
<1>1. /\ BatchTypes /\ PlaceInv /\ UpdateInv /\ SinkInv /\ LogInv /\ MessagesInv /\ TardyInv
      /\ ErrorInv
  BY DEF BatchInv
<1>2. /\ mode = "parallel" /\ at = "execute" /\ \A c \in 1..reached : stage[c] = "ended"
      /\ IF firstErr THEN at' = "returned" /\ returned' = "error" /\ index' = index
         ELSE at' = "message" /\ index' = 1 /\ returned' = returned
      /\ mode' = mode /\ reached' = reached /\ firstErr' = firstErr /\ messages' = messages
      /\ stage' = stage /\ update' = update /\ terminate' = terminate /\ sink' = sink
      /\ PendingToolCalls' = PendingToolCalls /\ log' = log
      /\ batchCancelled' = batchCancelled /\ tardy' = tardy /\ rejected' = rejected /\ failures' = failures
  BY DEF Wait, Return, callVars, sinkVars, otherVars
<1>3. /\ reached \in Call /\ messages = <<>> /\ returned = "no" /\ Len(messages) = 0
      /\ reached = Calls \/ batchCancelled
      /\ \A c \in Call : c > reached => stage[c] = "new"
  BY <1>1, <1>2 DEF PlaceInv, Executing
<1>4. EndedUpTo(reached)
  BY <1>2, <1>3 DEF EndedUpTo, Call
<1>5. sink = {}
  <2> SUFFICES ASSUME NEW e \in sink PROVE FALSE
    OBVIOUS
  <2>1. e \in Call \X (0..Updates)
    BY <1>1 DEF BatchTypes, Emitters
  <2>2. PICK c \in Call, k \in 0..Updates : e = <<c, k>>
    BY <2>1
  <2>3. stage[c] \in {"new", "ended"}
    BY <1>3, <1>4 DEF EndedUpTo, Call
  <2>4. CASE k = 0
    BY <1>1, <1>2, <2>2, <2>3, <2>4 DEF SinkInv
  <2>5. CASE k \in 1..Updates
    BY <1>1, <1>2, <2>2, <2>3, <2>5 DEF SinkInv, UpdateInv, Active
  <2> QED BY <2>2, <2>4, <2>5
<1>6. BatchTypes'
  BY <1>1, <1>2 DEF BatchTypes
<1>7. PlaceInv'
  <2>1. CASE firstErr
    <3>1. \A c \in Call : stage[c] \in {"new", "ended"}
      BY <1>3, <1>4 DEF EndedUpTo, Call
    <3> QED BY <1>2, <2>1, <3>1
             DEF PlaceInv, Preparing, Executing, Answering, Over, Uncertain
  <2>2. CASE ~firstErr
    <3>1. 1 \in 1..reached
      BY <1>3 DEF Call
    <3> QED BY <1>2, <1>3, <1>4, <2>2, <3>1
             DEF PlaceInv, Preparing, Executing, Answering, Over, EndedUpTo
  <2> QED BY <2>1, <2>2
<1>8. UpdateInv' /\ MessagesInv'
  BY <1>1, <1>2 DEF UpdateInv, MessagesInv
<1>9. SinkInv'
  BY <1>1, <1>2, <1>5 DEF SinkInv
<1>10. LogInv'
  BY <1>1, <1>2, SameLog
<1>11. TardyInv'
  BY <1>1, <1>2 DEF TardyInv
<1>12. ErrorInv'
  BY <1>1, <1>2 DEF ErrorInv
<1> QED BY <1>6, <1>7, <1>8, <1>9, <1>10, <1>11, <1>12 DEF BatchInv

\* While calls are answered, no listener of theirs is running.
LEMMA NoListener ==
  ASSUME BatchTypes, PlaceInv, UpdateInv, SinkInv, at = "message"
  PROVE  sink = {}
<1> SUFFICES ASSUME NEW e \in sink PROVE FALSE
  OBVIOUS
<1>1. e \in Call \X (0..Updates)
  BY DEF BatchTypes, Emitters
<1>2. PICK c \in Call, k \in 0..Updates : e = <<c, k>>
  BY <1>1
<1>3. stage[c] \in {"new", "ended"}
  <2>1. EndedUpTo(reached) /\ reached \in Call
    BY DEF PlaceInv, Answering
  <2> QED BY <2>1 DEF EndedUpTo, Call
<1>4. CASE k = 0
  BY <1>2, <1>3, <1>4 DEF SinkInv
<1>5. CASE k \in 1..Updates
  BY <1>2, <1>3, <1>5 DEF SinkInv, UpdateInv, Active
<1> QED BY <1>2, <1>4, <1>5

\* One more answer.
LEMMA Answers ==
  ASSUME ToolBatchAssumption, BatchTypes, PlaceInv, MessagesInv, at = "message",
         messages' = Append(messages, index), stage' = stage
  PROVE  /\ messages' \in Seq(Call) /\ Len(messages') = index /\ MessagesInv'
<1>1. /\ index \in 1..reached /\ reached \in Call /\ Len(messages) = index - 1
      /\ EndedUpTo(reached)
  BY DEF PlaceInv, Answering
<1>2. index \in Call /\ index \in Nat /\ stage[index] = "ended"
  <2>1. index \in Call /\ index \in Nat /\ index <= reached
    BY <1>1 DEF Call, ToolBatchAssumption
  <2> QED BY <1>1, <2>1 DEF EndedUpTo
<1>3. messages \in Seq(Call)
  BY DEF BatchTypes
<1>4. /\ messages' \in Seq(Call) /\ Len(messages') = index /\ messages'[index] = index
      /\ DOMAIN messages' = 1..index /\ DOMAIN messages = 1..(index - 1)
      /\ \A n \in 1..(index - 1) : messages'[n] = messages[n]
  BY <1>1, <1>2, <1>3
<1>5. MessagesInv'
  <2> SUFFICES ASSUME NEW n \in 1..index PROVE messages'[n] = n /\ stage[n] = "ended"
    BY <1>4 DEF MessagesInv
  <2>1. CASE n = index
    BY <1>2, <1>4, <2>1
  <2>2. CASE n # index
    <3>1. n \in 1..(index - 1)
      BY <1>2, <2>2
    <3> QED BY <1>4, <3>1 DEF MessagesInv
  <2> QED BY <2>1, <2>2
<1> QED BY <1>4, <1>5

LEMMA MessageCommitted ==
  ASSUME ToolBatchAssumption, BatchInv, CommitMessage
  PROVE  BatchInv'
<1>1. /\ BatchTypes /\ PlaceInv /\ UpdateInv /\ SinkInv /\ LogInv /\ MessagesInv /\ TardyInv
      /\ ErrorInv
  BY DEF BatchInv
<1> DEFINE last == IF mode = "parallel" \/ batchCancelled THEN reached ELSE Calls
<1>2. /\ at = "message" /\ messages' = Append(messages, index)
      /\ IF index < last
         THEN /\ index' = index + 1 /\ returned' = returned
              /\ at' = IF mode = "sequential" THEN "prepare" ELSE "message"
         ELSE at' = "returned" /\ returned' = "ok" /\ index' = index
      /\ mode' = mode /\ reached' = reached /\ firstErr' = firstErr
      /\ stage' = stage /\ update' = update /\ terminate' = terminate /\ sink' = sink
      /\ PendingToolCalls' = PendingToolCalls /\ log' = log
      /\ batchCancelled' = batchCancelled /\ tardy' = tardy /\ rejected' = rejected /\ failures' = failures
  BY DEF CommitMessage, callVars, sinkVars, otherVars
<1>3. /\ messages' \in Seq(Call) /\ Len(messages') = index /\ MessagesInv'
  BY <1>1, <1>2, Answers
<1>4. /\ reached \in Call /\ index \in 1..reached /\ returned = "no" /\ ~firstErr
      /\ mode = "sequential" => reached = index
      /\ mode = "parallel" => reached = Calls \/ batchCancelled
      /\ EndedUpTo(reached)
  BY <1>1, <1>2 DEF PlaceInv, Answering
<1>5. /\ index \in Nat /\ reached \in Nat /\ Calls \in Nat /\ reached <= Calls /\ 1 <= index
      /\ index <= reached /\ mode \in {"sequential", "parallel"}
      /\ \A c \in Call : c \in Nat /\ c <= Calls
  <2>1. mode \in {"sequential", "parallel"}
    BY <1>1 DEF BatchTypes, ExecutionModes
  <2> QED BY <1>4, <2>1 DEF ToolBatchAssumption, Call
<1>6. sink = {}
  BY <1>1, <1>2, NoListener
<1>7. UpdateInv' /\ LogInv'
  BY <1>1, <1>2, SameLog DEF UpdateInv
<1>8. SinkInv'
  BY <1>1, <1>2, <1>6 DEF SinkInv
<1>9. CASE index < last /\ mode = "sequential"
  <2>1. /\ index' = index + 1 /\ at' = "prepare" /\ returned' = returned /\ ~batchCancelled
        /\ index < Calls
    BY <1>2, <1>4, <1>5, <1>9
  <2>2. index + 1 \in Call /\ stage[index + 1] = "new"
    <3>1. index + 1 \in Call
      BY <1>5, <2>1 DEF Call
    <3> QED BY <3>1, <1>4, <1>5, <1>9 DEF EndedUpTo
  <2>3. BatchTypes'
    BY <1>1, <1>2, <1>3, <1>5, <2>1 DEF BatchTypes
  <2>4. PlaceInv'
    <3>1. \A c \in Call : /\ c > index + 1 => stage[c] = "new"
                          /\ c < index + 1 => stage[c] = "ended"
      BY <1>4, <1>5, <1>9 DEF EndedUpTo
    <3>2. Preparing'
      BY <1>2, <1>3, <1>4, <1>5, <1>9, <2>1, <2>2, <3>1 DEF Preparing
    <3> QED BY <2>1, <3>2 DEF PlaceInv, Executing, Answering, Over
  <2>5. TardyInv' /\ ErrorInv'
    BY <1>1, <1>2, <2>1 DEF TardyInv, ErrorInv
  <2> QED BY <1>3, <1>7, <1>8, <2>3, <2>4, <2>5 DEF BatchInv
<1>10. CASE index < last /\ mode = "parallel"
  <2>1. index' = index + 1 /\ at' = "message" /\ returned' = returned /\ index < reached
    BY <1>2, <1>10
  <2>2. BatchTypes'
    BY <1>1, <1>2, <1>3, <1>5, <2>1 DEF BatchTypes
  <2>3. PlaceInv'
    <3>1. index + 1 \in 1..reached /\ EndedUpTo(reached)'
      BY <1>2, <1>4, <1>5, <2>1 DEF EndedUpTo
    <3>2. Answering'
      BY <1>2, <1>3, <1>4, <1>5, <1>10, <2>1, <3>1 DEF Answering, EndedUpTo
    <3> QED BY <2>1, <3>2 DEF PlaceInv, Preparing, Executing, Over
  <2>4. TardyInv' /\ ErrorInv'
    BY <1>1, <1>2, <2>1 DEF TardyInv, ErrorInv
  <2> QED BY <1>3, <1>7, <1>8, <2>2, <2>3, <2>4 DEF BatchInv
<1>11. CASE ~(index < last)
  <2>1. at' = "returned" /\ returned' = "ok" /\ index' = index
    BY <1>2, <1>11
  <2>2. index = reached /\ (reached = Calls \/ batchCancelled)
    BY <1>4, <1>5, <1>11
  <2>3. BatchTypes'
    BY <1>1, <1>2, <1>3, <2>1 DEF BatchTypes
  <2>4. PlaceInv'
    <3>1. \A c \in Call : stage[c] \in {"new", "ended"}
      BY <1>4, <1>5 DEF EndedUpTo
    <3> QED BY <1>2, <1>3, <1>4, <2>1, <2>2, <3>1
             DEF PlaceInv, Preparing, Executing, Answering, Over, Uncertain, EndedUpTo
  <2>5. TardyInv' /\ ErrorInv'
    BY <1>1, <1>2, <2>1 DEF TardyInv, ErrorInv
  <2> QED BY <1>3, <1>7, <1>8, <2>3, <2>4, <2>5 DEF BatchInv
<1> QED BY <1>5, <1>9, <1>10, <1>11

LEMMA MessageRejected ==
  ASSUME ToolBatchAssumption, BatchInv, MessageFails
  PROVE  BatchInv'
<1>1. /\ BatchTypes /\ PlaceInv /\ UpdateInv /\ SinkInv /\ LogInv /\ MessagesInv /\ TardyInv
      /\ ErrorInv
  BY DEF BatchInv
<1>2. /\ at = "message" /\ at' = "returned" /\ returned' = "error"
      /\ messages' \in {messages, Append(messages, index)}
      /\ rejected' = rejected \cup {"message"} /\ failures' = failures + 1
      /\ mode' = mode /\ reached' = reached /\ firstErr' = firstErr /\ index' = index
      /\ stage' = stage /\ update' = update /\ terminate' = terminate /\ sink' = sink
      /\ PendingToolCalls' = PendingToolCalls /\ log' = log
      /\ batchCancelled' = batchCancelled /\ tardy' = tardy
  BY DEF MessageFails, Reject, callVars, sinkVars
<1>3. messages' \in Seq(Call) /\ MessagesInv'
  <2>1. CASE messages' = messages
    BY <1>1, <1>2, <2>1 DEF BatchTypes, MessagesInv
  <2>2. CASE messages' = Append(messages, index)
    BY <1>1, <1>2, <2>2, Answers
  <2> QED BY <1>2, <2>1, <2>2
<1>4. sink = {}
  BY <1>1, <1>2, NoListener
<1>5. BatchTypes'
  BY <1>1, <1>2, <1>3 DEF BatchTypes
<1>6. PlaceInv'
  <2>1. EndedUpTo(reached) /\ reached \in Call
    BY <1>1, <1>2 DEF PlaceInv, Answering
  <2>2. \A c \in Call : stage[c] \in {"new", "ended"}
    BY <2>1 DEF EndedUpTo, Call
  <2> QED BY <1>2, <2>2 DEF PlaceInv, Preparing, Executing, Answering, Over, Uncertain
<1>7. UpdateInv' /\ LogInv'
  BY <1>1, <1>2, SameLog DEF UpdateInv
<1>8. SinkInv'
  BY <1>1, <1>2, <1>4 DEF SinkInv
<1>9. TardyInv'
  BY <1>1, <1>2 DEF TardyInv
<1>10. ErrorInv'
  <2>1. "message" \in rejected' \ {"update"}
    BY <1>2
  <2> QED BY <1>2, <2>1 DEF ErrorInv
<1> QED BY <1>3, <1>5, <1>6, <1>7, <1>8, <1>9, <1>10 DEF BatchInv

LEMMA Cancelled ==
  ASSUME ToolBatchAssumption, BatchInv, CancelBatch \/ UNCHANGED toolVars
  PROVE  BatchInv'
<1>1. /\ BatchTypes /\ PlaceInv /\ UpdateInv /\ SinkInv /\ LogInv /\ MessagesInv /\ TardyInv
      /\ ErrorInv
  BY DEF BatchInv
<1>2. /\ mode' = mode /\ at' = at /\ index' = index /\ reached' = reached
      /\ firstErr' = firstErr /\ messages' = messages /\ returned' = returned
      /\ stage' = stage /\ update' = update /\ terminate' = terminate /\ sink' = sink
      /\ PendingToolCalls' = PendingToolCalls /\ log' = log
      /\ tardy' = tardy /\ rejected' = rejected /\ failures' = failures
      /\ batchCancelled' \in BOOLEAN /\ (batchCancelled => batchCancelled')
  <2>1. CASE CancelBatch
    BY <2>1 DEF CancelBatch, batchVars, callVars, sinkVars
  <2>2. CASE UNCHANGED toolVars
    BY <1>1, <2>2 DEF toolVars, batchVars, callVars, sinkVars, otherVars, BatchTypes
  <2> QED BY <2>1, <2>2
<1>3. BatchTypes'
  BY <1>1, <1>2 DEF BatchTypes
<1>4. PlaceInv'
  BY <1>1, <1>2 DEF PlaceInv, Preparing, Executing, Answering, Over, EndedUpTo
<1>5. UpdateInv' /\ SinkInv'
  BY <1>1, <1>2 DEF UpdateInv, SinkInv
<1>6. LogInv'
  BY <1>1, <1>2, SameLog
<1>7. MessagesInv' /\ TardyInv' /\ ErrorInv'
  BY <1>1, <1>2 DEF MessagesInv, TardyInv, ErrorInv
<1> QED BY <1>3, <1>4, <1>5, <1>6, <1>7 DEF BatchInv

-----------------------------------------------------------------------------
\* The invariant of executeToolCalls, in either mode.
THEOREM BatchInvariant ==
  ASSUME ToolBatchAssumption
  PROVE  BatchSpec => []BatchInv
<1>1. BatchInit => BatchInv
  BY InitBatch
<1>2. BatchInv /\ [BatchNext]_toolVars => BatchInv'
  <2> SUFFICES ASSUME BatchInv, [BatchNext]_toolVars PROVE BatchInv'
    OBVIOUS
  <2>1. ASSUME NEW c \in Call, CallStep(c) PROVE BatchInv'
    BY <2>1, StartsCall, CallStarts, CallPrepared, CallReturns, CallEnds, CallEnded DEF CallStep
  <2>2. ASSUME NEW c \in Call, NEW k \in 1..Updates, AcceptUpdate(c, k) \/ UpdateStep(c, k)
        PROVE  BatchInv'
    BY <2>2, UpdateAccepted, UpdateEmits, UpdateDone DEF UpdateStep
  <2>3. ASSUME BatchStep PROVE BatchInv'
    BY <2>3, GoroutinesStart, Waited, MessageCommitted, MessageRejected DEF BatchStep
  <2>4. ASSUME CancelBatch \/ UNCHANGED toolVars PROVE BatchInv'
    BY <2>4, Cancelled
  <2> QED BY <2>1, <2>2, <2>3, <2>4 DEF BatchNext
<1> QED BY <1>1, <1>2, PTL DEF BatchSpec

LEMMA OneAtMost ==
  ASSUME NEW S, \A x, y \in S : x = y
  PROVE  Cardinality(S) <= 1
<1>1. CASE S = {}
  BY <1>1, FS_EmptySet
<1>2. CASE S # {}
  <2>1. PICK x : S = {x}
    BY <1>2
  <2> QED BY <2>1, FS_Singleton
<1> QED BY <1>1, <1>2

\* What the invariant says about the callbacks and the updates.
LEMMA InTimeAlways ==
  ASSUME ToolBatchAssumption, BatchInv
  PROVE  UpdatesInTime
<1>1. BatchTypes /\ PlaceInv /\ UpdateInv /\ SinkInv /\ InTime
  BY DEF BatchInv, LogInv
<1>2. SerialCallbacks
  <2>1. ASSUME NEW c \in Call, stage[c] = "gate", NEW d \in Call \ {c}
        PROVE  stage[d] \notin {"gate", "running", "draining"}
    <3>1. stage[d] \in {"new", "ended", "ready"}
      BY <1>1, <2>1, Where
    <3> QED BY <3>1
  <2>2. mode = "parallel" => Cardinality(sink) <= 1
    BY <1>1, OneAtMost DEF SinkInv
  <2> QED BY <2>1, <2>2 DEF SerialCallbacks
<1>3. ASSUME NEW c \in Call, NEW k \in 1..Updates, stage[c] \in {"finalized", "ending", "ended"}
      PROVE  update[<<c, k>>] \in {"no", "done"}
  <2>1. update[<<c, k>>] \in {"no", "accepted", "emitting", "done"}
    <3>1. <<c, k>> \in Call \X (1..Updates)
      OBVIOUS
    <3> QED BY <1>1, <3>1 DEF BatchTypes
  <2> QED BY <1>1, <1>3, <2>1 DEF UpdateInv, Active
<1> QED BY <1>1, <1>2, <1>3 DEF UpdatesInTime, InTime

\* What it says about the answers.
LEMMA AnsweredAlways ==
  ASSUME ToolBatchAssumption, BatchInv
  PROVE  AnsweredInOrder
<1>1. BatchTypes /\ PlaceInv /\ LogInv /\ MessagesInv
  BY DEF BatchInv
<1>2. DOMAIN messages = 1..Len(messages) /\ Len(messages) \in Nat /\ \A n \in DOMAIN messages : n \in Call
  <2>1. messages \in Seq(Call)
    BY <1>1 DEF BatchTypes
  <2>2. \A n \in DOMAIN messages : messages[n] \in Call /\ messages[n] = n
    BY <1>1, <2>1 DEF MessagesInv
  <2> QED BY <2>1, <2>2
<1>3. ASSUME NEW n \in DOMAIN messages
      PROVE  messages[n] = n /\ \E m \in DOMAIN log : log[m] = <<"end", n>>
  BY <1>1, <1>2 DEF MessagesInv, LogInv, Logged
<1>4. ASSUME returned = "ok"
      PROVE  /\ Started = Answered /\ Answered # {}
             /\ ~batchCancelled => Answered = Call
             /\ PendingToolCalls = {}
  <2>1. /\ reached \in Call /\ Len(messages) = reached /\ EndedUpTo(reached)
        /\ reached = Calls \/ batchCancelled
    BY <1>1, <1>4 DEF BatchTypes, PlaceInv, Preparing, Executing, Answering, Over
  <2>2. Answered = 1..reached
    BY <1>2, <1>3, <2>1 DEF Answered
  <2>3. Started = {c \in Call : stage[c] # "new"}
    BY <1>1 DEF Started, LogInv, Logged
  <2>4. /\ \A c \in Call : /\ c <= reached => stage[c] = "ended"
                           /\ ~(c <= reached) => stage[c] = "new"
        /\ \A c : c \in 1..reached <=> c \in Call /\ c <= reached
    BY <2>1 DEF EndedUpTo, Call, ToolBatchAssumption
  <2>5. Started = 1..reached
    BY <2>3, <2>4
  <2>6. PendingToolCalls = {}
    BY <1>1, <2>4 DEF LogInv
  <2>7. 1..reached # {} /\ (~batchCancelled => 1..reached = Call)
    <3>1. 1 \in 1..reached
      BY <2>1 DEF Call
    <3> QED BY <2>1, <3>1 DEF Call
  <2> QED BY <2>2, <2>5, <2>6, <2>7
<1> QED BY <1>3, <1>4 DEF AnsweredInOrder

\* executeToolCalls keeps its promises: updates in time and callbacks serial, answers in
\* the order of the calls, nothing running and every error told when it returns.
THEOREM BatchIsSoundAlways ==
  ASSUME ToolBatchAssumption
  PROVE  BatchSpec => []BatchIsSound
<1>1. ASSUME BatchInv PROVE BatchIsSound
  <2>1. /\ BatchTypes /\ PlaceInv /\ UpdateInv /\ SinkInv /\ TardyInv /\ ErrorInv
    BY <1>1 DEF BatchInv
  <2>2. UpdatesInTime /\ AnsweredInOrder
    BY <1>1, InTimeAlways, AnsweredAlways
  <2>3. CancelStopsNewTools
    BY <2>1, OneAtMost DEF TardyInv, CancelStopsNewTools
  <2>4. ASSUME returned # "no"
        PROVE  /\ sink = {}
               /\ \A c \in Call : stage[c] \notin {"running", "draining"}
               /\ \A u \in DOMAIN update : update[u] \notin {"accepted", "emitting"}
               /\ returned = "error" <=> rejected \ {"update"} # {}
    <3>1. at = "returned"
      BY <2>1, <2>4 DEF BatchTypes, PlaceInv, Preparing, Executing, Answering
    <3>2. \A c \in Call : stage[c] \in Uncertain
      BY <2>1, <3>1 DEF PlaceInv, Over
    <3>3. ASSUME NEW u \in DOMAIN update
          PROVE  update[u] \notin {"accepted", "emitting"}
      <4>1. u \in Call \X (1..Updates)
        BY <2>1 DEF BatchTypes
      <4>2. PICK c \in Call, k \in 1..Updates : u = <<c, k>>
        BY <4>1
      <4> QED BY <2>1, <3>2, <4>2 DEF UpdateInv, Active, Uncertain
    <3> QED BY <2>1, <3>1, <3>2, <3>3 DEF SinkInv, ErrorInv, Uncertain
  <2> QED BY <2>2, <2>3, <2>4 DEF BatchIsSound, BatchOutcome
<1> QED BY <1>1, BatchInvariant, PTL

-----------------------------------------------------------------------------
(* Delegation.                                                             *)

\* Only the root has the task tool, and no more tasks run than there are slots.
SlotsInv ==
  /\ task \in [Tasks -> {"unused", "waiting", "running", "returned"}]
  /\ parent = [t \in Tasks |-> Root]
  /\ gate = [a \in Agents |-> gate[a]] /\ calls = [a \in Agents |-> calls[a]]
  /\ \A a \in Agents \ {Root} : /\ gate[a].at # "idle" => gate[a].kind # "task"
                               /\ \A c \in calls[a] : c.runs # "child"
  /\ Cardinality(Running) <= Slots

\* What is known of a call at its gate: the mode that the hook has read was in force since
\* the call's turn came, and what passed may run unless the run is cancelled.
GateFacts(g) ==
  /\ g.at = "called" => liveMode \in g.seen
  /\ g.at = "read" => g.mode \in g.seen
  /\ g.at = "asking" => g.kind # "destructive" /\ Decision(ToolOf(g.kind)) = "prompt"
  /\ g.at = "passed" => aborted \/ MayRun(g)

GateInv ==
  /\ DOMAIN gate = Agents
  /\ \A a \in Agents :
       /\ gate[a] \in [at : {"idle", "called", "read", "asking", "passed"},
                       kind : Kinds \cup {NoCall}, mode : PermissionModes \cup {"none"},
                       seen : SUBSET PermissionModes, answer : {"none", "yes", "late"}]
       /\ GateFacts(gate[a])
  /\ liveMode \in PermissionModes

\* A call that Gate allows in a mode that was in force may run.
LEMMA AllowedMayRun ==
  ASSUME NEW g, g.mode \in g.seen, Gate(g.mode, g.kind) = "allow"
  PROVE  MayRun(g)
BY DEF Gate, MayRun

\* A call that Gate asks for is no destructive one, and the policy asks for its tool.
LEMMA AskedFor ==
  ASSUME NEW m, NEW kind, Gate(m, kind) = "prompt"
  PROVE  kind # "destructive" /\ Decision(ToolOf(kind)) = "prompt"
BY DEF Gate

\* The policy of a session never changes, and what a call may do does not depend on more.
LEMMA PolicyStays ==
  ASSUME [DelegationNext]_delegationVars
  PROVE  /\ policy' = policy
         /\ \A tool : Decision(tool)' = Decision(tool)
         /\ \A g : MayRun(g)' <=> MayRun(g)
<1>1. policy' = policy
  BY DEF DelegationNext, DelegationStep, AgentStep, ReadMode, Decide, Answer, Prepared,
         StartCalls, CallsReturned, RunTool, StartTask, Acquire, AcquireRefused, GiveUp,
         ChildEnds, BeginCall, SetMode, AbortRoot, delegationVars
<1> QED BY <1>1 DEF Decision, MayRun

\* Nothing but the step of an agent itself changes what is known of its gate.
LEMMA GateOf ==
  ASSUME GateInv, [DelegationNext]_delegationVars, liveMode' = liveMode,
         NEW a \in Agents, NEW g, gate' = [gate EXCEPT ![a] = g],
         g \in [at : {"idle", "called", "read", "asking", "passed"},
               kind : Kinds \cup {NoCall}, mode : PermissionModes \cup {"none"},
               seen : SUBSET PermissionModes, answer : {"none", "yes", "late"}],
         GateFacts(g), aborted' = aborted
  PROVE  GateInv'
<1>1. \A h : GateFacts(h)' <=> GateFacts(h)
  BY PolicyStays DEF GateFacts
<1>2. \A b \in Agents : gate'[b] = IF b = a THEN g ELSE gate[b]
  BY DEF GateInv
<1> QED BY <1>1, <1>2 DEF GateInv

LEMMA GateStep ==
  ASSUME GateInv, [DelegationNext]_delegationVars
  PROVE  GateInv'
<1> DEFINE Gates == [at : {"idle", "called", "read", "asking", "passed"},
                     kind : Kinds \cup {NoCall}, mode : PermissionModes \cup {"none"},
                     seen : SUBSET PermissionModes, answer : {"none", "yes", "late"}]
<1>1. \A m \in PermissionModes \cup {"none"} : Idle(m) \in Gates /\ GateFacts(Idle(m))
  BY DEF Idle, GateFacts
<1>2. ASSUME NEW a \in Agents, ReadMode(a) PROVE GateInv'
  <2> DEFINE g == [gate[a] EXCEPT !.at = "read", !.mode = liveMode]
  <2>1. /\ gate' = [gate EXCEPT ![a] = g] /\ liveMode' = liveMode /\ aborted' = aborted
        /\ gate[a].at = "called"
    BY <1>2 DEF ReadMode, GateInv
  <2>2. g \in Gates /\ GateFacts(g)
    BY <2>1 DEF GateInv, GateFacts
  <2> QED BY <2>1, <2>2, GateOf
<1>3. ASSUME NEW a \in Agents, Decide(a) PROVE GateInv'
  <2> DEFINE d == IF aborted THEN "deny" ELSE Gate(gate[a].mode, gate[a].kind)
             g == CASE d = "allow" -> [gate[a] EXCEPT !.at = "passed"]
                    [] d = "prompt" -> [gate[a] EXCEPT !.at = "asking"]
                    [] OTHER -> Idle(gate[a].mode)
  <2>1. /\ gate' = [gate EXCEPT ![a] = g] /\ liveMode' = liveMode /\ aborted' = aborted
        /\ gate[a].at = "read"
    BY <1>3 DEF Decide
  <2>2. gate[a] \in Gates /\ gate[a].mode \in gate[a].seen
    BY <2>1 DEF GateInv, GateFacts
  <2>3. CASE d = "allow"
    <3>1. MayRun(gate[a])
      BY <2>2, <2>3, AllowedMayRun
    <3>2. MayRun(g)
      BY <2>2, <2>3, <3>1 DEF MayRun
    <3>3. g \in Gates /\ GateFacts(g)
      BY <2>2, <2>3, <3>2 DEF GateFacts
    <3> QED BY <2>1, <3>3, GateOf
  <2>4. CASE d = "prompt"
    <3>1. gate[a].kind # "destructive" /\ Decision(ToolOf(gate[a].kind)) = "prompt"
      BY <2>4, AskedFor
    <3>2. g \in Gates /\ GateFacts(g)
      BY <2>2, <2>4, <3>1 DEF GateFacts
    <3> QED BY <2>1, <3>2, GateOf
  <2>5. CASE d \notin {"allow", "prompt"}
    <3>1. g = Idle(gate[a].mode)
      BY <2>5
    <3> QED BY <1>1, <2>1, <2>2, <3>1, GateOf
  <2> QED BY <2>3, <2>4, <2>5
<1>4. ASSUME NEW a \in Agents, Answer(a) PROVE GateInv'
  <2> DEFINE g == [gate[a] EXCEPT !.at = "passed", !.answer = IF aborted THEN "late" ELSE "yes"]
  <2>1. /\ gate' = [gate EXCEPT ![a] = g] \/ gate' = [gate EXCEPT ![a] = Idle(gate[a].mode)]
        /\ liveMode' = liveMode /\ aborted' = aborted /\ gate[a].at = "asking"
    BY <1>4 DEF Answer, GateInv
  <2>2. gate[a] \in Gates /\ GateFacts(gate[a])
    BY DEF GateInv
  <2>3. g \in Gates /\ GateFacts(g)
    BY <2>1, <2>2 DEF GateFacts, MayRun
  <2> QED BY <1>1, <2>1, <2>2, <2>3, GateOf
<1>5. ASSUME NEW a \in Agents, Prepared(a) PROVE GateInv'
  <2>1. /\ gate' = [gate EXCEPT ![a] = Idle(gate[a].mode)]
        /\ liveMode' = liveMode /\ aborted' = aborted
    BY <1>5 DEF Prepared
  <2>2. gate[a].mode \in PermissionModes \cup {"none"}
    BY DEF GateInv
  <2> QED BY <1>1, <2>1, <2>2, GateOf
<1>6. ASSUME NEW a \in Agents, StartCalls(a) PROVE GateInv'
  BY <1>1, <1>6, GateOf DEF StartCalls
<1>7. ASSUME NEW a \in Agents, NEW kind \in Kinds, BeginCall(a, kind) PROVE GateInv'
  <2> DEFINE g == [at |-> "called", kind |-> kind, mode |-> gate[a].mode, seen |-> {liveMode},
                   answer |-> "none"]
  <2>1. gate' = [gate EXCEPT ![a] = g] /\ liveMode' = liveMode /\ aborted' = aborted
    BY <1>7 DEF BeginCall
  <2>2. g \in Gates /\ GateFacts(g)
    BY DEF GateInv, GateFacts
  <2> QED BY <2>1, <2>2, GateOf
<1>8. ASSUME SetMode PROVE GateInv'
  <2>1. /\ liveMode' \in PermissionModes /\ aborted' = aborted
        /\ gate' = [a \in Agents |-> IF gate[a].at # "called" THEN gate[a]
                                    ELSE [gate[a] EXCEPT !.seen = @ \union {liveMode'}]]
    BY <1>8 DEF SetMode
  <2>2. ASSUME NEW a \in Agents PROVE gate'[a] \in Gates /\ GateFacts(gate[a])'
    <3>1. gate[a] \in Gates /\ GateFacts(gate[a])
      BY DEF GateInv
    <3>2. CASE gate[a].at # "called"
      BY <2>1, <3>1, <3>2, PolicyStays DEF GateFacts
    <3>3. CASE gate[a].at = "called"
      <4>1. gate'[a] = [gate[a] EXCEPT !.seen = @ \union {liveMode'}]
        BY <2>1, <3>3
      <4> QED BY <2>1, <3>1, <3>3, <4>1 DEF GateFacts
    <3> QED BY <3>2, <3>3
  <2> QED BY <2>1, <2>2 DEF GateInv
<1>9. ASSUME AbortRoot PROVE GateInv'
  BY <1>9, PolicyStays DEF AbortRoot, GateInv, GateFacts
<1>10. ASSUME gate' = gate, liveMode' = liveMode, aborted' = aborted PROVE GateInv'
  BY <1>10, PolicyStays DEF GateInv, GateFacts
<1>11. ASSUME \/ \E a \in Agents : RunTool(a) \/ StartTask(a) \/ CallsReturned(a)
              \/ \E t \in Tasks : Acquire(t) \/ AcquireRefused(t) \/ GiveUp(t) \/ ChildEnds(t)
              \/ UNCHANGED delegationVars
       PROVE  GateInv'
  BY <1>10, <1>11 DEF RunTool, StartTask, CallsReturned, Acquire, AcquireRefused, GiveUp,
                      ChildEnds, delegationVars
<1> QED BY <1>2, <1>3, <1>4, <1>5, <1>6, <1>7, <1>8, <1>9, <1>11
        DEF DelegationNext, DelegationStep, AgentStep

LEMMA RunningIsFinite ==
  ASSUME DelegationAssumption
  PROVE  /\ IsFiniteSet(Running) /\ Cardinality(Running) \in Nat
         /\ \A S \in SUBSET Tasks : IsFiniteSet(S) /\ Cardinality(S) \in Nat
BY FS_Subset, FS_CardinalityType DEF DelegationAssumption, Running

\* A task that stops running or never runs frees a slot or leaves them as they are.
LEMMA FewerRun ==
  ASSUME DelegationAssumption, SlotsInv, Running' \subseteq Running
  PROVE  Cardinality(Running') <= Slots
<1>1. IsFiniteSet(Running) /\ Cardinality(Running) \in Nat
  BY RunningIsFinite
<1>2. Cardinality(Running') <= Cardinality(Running) /\ Cardinality(Running') \in Nat
  BY <1>1, FS_Subset, FS_CardinalityType
<1> QED BY <1>1, <1>2 DEF SlotsInv, DelegationAssumption

LEMMA SlotsStep ==
  ASSUME DelegationAssumption, SlotsInv, [DelegationNext]_delegationVars
  PROVE  SlotsInv'
<1> DEFINE States == {"unused", "waiting", "running", "returned"}
           NoTask(g, cs) == /\ g.at # "idle" => g.kind # "task"
                            /\ \A c \in cs : c.runs # "child"
<1>1. /\ task \in [Tasks -> States] /\ parent = [t \in Tasks |-> Root]
      /\ gate = [a \in Agents |-> gate[a]] /\ calls = [a \in Agents |-> calls[a]]
      /\ \A a \in Agents \ {Root} : NoTask(gate[a], calls[a])
  BY DEF SlotsInv
\* The agents' part, whatever becomes of the tasks.
<1>2. ASSUME NEW a \in Agents, NEW g, NEW cs,
             gate' = [gate EXCEPT ![a] = g], calls' = [calls EXCEPT ![a] = cs],
             a # Root => NoTask(g, cs)
      PROVE  /\ gate' = [b \in Agents |-> gate'[b]] /\ calls' = [b \in Agents |-> calls'[b]]
             /\ \A b \in Agents \ {Root} : NoTask(gate'[b], calls'[b])
  BY <1>1, <1>2
<1>3. ASSUME gate' = gate, calls' = calls
      PROVE  /\ gate' = [b \in Agents |-> gate'[b]] /\ calls' = [b \in Agents |-> calls'[b]]
             /\ \A b \in Agents \ {Root} : NoTask(gate'[b], calls'[b])
  BY <1>3 DEF SlotsInv
<1>4. ASSUME NEW t \in Tasks, Acquire(t) PROVE SlotsInv'
  <2>1. /\ task' = [task EXCEPT ![t] = "running"] /\ parent' = parent
        /\ gate' = gate /\ calls' = calls
        /\ Cardinality(Running) < Slots /\ task[t] = "waiting"
    BY <1>4 DEF Acquire
  <2>2. Running' = Running \cup {t} /\ t \notin Running
    BY <1>1, <2>1 DEF Running
  <2>3. Cardinality(Running') <= Slots
    <3>1. IsFiniteSet(Running) /\ Cardinality(Running) \in Nat
      BY RunningIsFinite
    <3>2. Cardinality(Running') = Cardinality(Running) + 1
      BY <2>2, <3>1, FS_AddElement
    <3> QED BY <2>1, <3>1, <3>2 DEF DelegationAssumption
  <2> QED BY <1>1, <1>3, <2>1, <2>3 DEF SlotsInv
<1>5. ASSUME NEW t \in Tasks, AcquireRefused(t) \/ GiveUp(t) \/ ChildEnds(t) PROVE SlotsInv'
  <2>1. /\ task' = [task EXCEPT ![t] = "returned"] /\ parent' = parent
        /\ gate' = gate /\ calls' = calls
    BY <1>5 DEF AcquireRefused, GiveUp, ChildEnds
  <2>2. Running' \subseteq Running
    BY <1>1, <2>1 DEF Running
  <2> QED BY <1>1, <1>3, <2>1, <2>2, FewerRun DEF SlotsInv
<1>6. ASSUME NEW a \in Agents, StartTask(a) PROVE SlotsInv'
  <2>1. PICK t \in Tasks : /\ task[t] = "unused" /\ task' = [task EXCEPT ![t] = "waiting"]
                           /\ parent' = [parent EXCEPT ![t] = a]
    BY <1>6 DEF StartTask
  <2>2. PICK c \in calls[a] : c.runs = "child" /\ calls' = [calls EXCEPT ![a] = @ \ {c}]
    BY <1>6 DEF StartTask
  <2>3. a = Root /\ gate' = gate
    BY <1>1, <1>6, <2>2 DEF StartTask
  <2>4. parent' = [u \in Tasks |-> Root]
    BY <1>1, <2>1, <2>3
  <2>5. Running' \subseteq Running
    BY <1>1, <2>1 DEF Running
  <2>6. gate' = [gate EXCEPT ![a] = gate[a]] /\ calls' = [calls EXCEPT ![a] = calls[a] \ {c}]
    BY <1>1, <2>2, <2>3
  <2> QED BY <1>1, <1>2, <2>1, <2>3, <2>4, <2>5, <2>6, FewerRun DEF SlotsInv
\* The remaining steps leave the tasks alone.
<1>7. ASSUME task' = task, parent' = parent, gate' = [b \in Agents |-> gate'[b]],
             calls' = [b \in Agents |-> calls'[b]],
             \A b \in Agents \ {Root} : NoTask(gate'[b], calls'[b])
      PROVE  SlotsInv'
  <2>1. Running' \subseteq Running
    BY <1>7 DEF Running
  <2> QED BY <1>1, <1>7, <2>1, FewerRun DEF SlotsInv
<1>8. ASSUME NEW a \in Agents, NEW kind \in Kinds, BeginCall(a, kind) PROVE SlotsInv'
  <2> DEFINE g == [at |-> "called", kind |-> kind, mode |-> gate[a].mode, seen |-> {liveMode},
                   answer |-> "none"]
  <2>1. /\ gate' = [gate EXCEPT ![a] = g] /\ calls' = calls
        /\ a # Root => kind # "task" /\ task' = task /\ parent' = parent
    BY <1>8 DEF BeginCall, ChildKinds
  <2>2. calls' = [calls EXCEPT ![a] = calls[a]] /\ (a # Root => NoTask(g, calls[a]))
    BY <1>1, <2>1
  <2>3. task' = task /\ parent' = parent
    BY <1>8 DEF BeginCall
  <2> QED BY <1>2, <1>7, <2>1, <2>2, <2>3
<1>9. ASSUME NEW a \in Agents, ReadMode(a) \/ Decide(a) \/ Answer(a) \/ StartCalls(a)
      PROVE  SlotsInv'
  <2>1. /\ task' = task /\ parent' = parent /\ calls' = calls
        /\ \E g : /\ gate' = [gate EXCEPT ![a] = g]
                  /\ g.at = "idle" \/ (gate[a].at # "idle" /\ g.kind = gate[a].kind)
    <3>1. CASE ReadMode(a)
      <4> DEFINE g == [gate[a] EXCEPT !.at = "read", !.mode = liveMode]
      <4>1. gate[a].at = "called" /\ g.kind = gate[a].kind
        BY <3>1 DEF ReadMode
      <4>2. gate' = [gate EXCEPT ![a] = g]
        BY <1>1, <3>1 DEF ReadMode
      <4> HIDE DEF g
      <4> QED BY <3>1, <4>1, <4>2 DEF ReadMode
    <3>2. CASE Decide(a)
      <4> DEFINE d == IF aborted THEN "deny" ELSE Gate(gate[a].mode, gate[a].kind)
                 g == CASE d = "allow" -> [gate[a] EXCEPT !.at = "passed"]
                        [] d = "prompt" -> [gate[a] EXCEPT !.at = "asking"]
                        [] OTHER -> Idle(gate[a].mode)
      <4>1. gate' = [gate EXCEPT ![a] = g] /\ gate[a].at # "idle"
        BY <3>2 DEF Decide
      <4> HIDE DEF d
      <4>2. g.at = "idle" \/ g.kind = gate[a].kind
        BY DEF Idle
      <4> HIDE DEF g
      <4> QED BY <3>2, <4>1, <4>2 DEF Decide
    <3>3. CASE Answer(a)
      <4> DEFINE g == [gate[a] EXCEPT !.at = "passed",
                                      !.answer = IF aborted THEN "late" ELSE "yes"]
      <4>1. /\ gate' = [gate EXCEPT ![a] = g] \/ gate' = [gate EXCEPT ![a] = Idle(gate[a].mode)]
            /\ gate[a].at # "idle" /\ g.kind = gate[a].kind
        BY <1>1, <3>3 DEF Answer
      <4>2. Idle(gate[a].mode).at = "idle"
        BY DEF Idle
      <4> QED BY <3>3, <4>1, <4>2 DEF Answer
    <3>4. CASE StartCalls(a)
      <4>1. gate' = [gate EXCEPT ![a] = Idle("none")] /\ Idle("none").at = "idle"
        BY <3>4 DEF StartCalls, Idle
      <4> QED BY <3>4, <4>1 DEF StartCalls
    <3> QED BY <1>9, <3>1, <3>2, <3>3, <3>4
  <2>2. PICK g : /\ gate' = [gate EXCEPT ![a] = g]
                 /\ g.at = "idle" \/ (gate[a].at # "idle" /\ g.kind = gate[a].kind)
    BY <2>1
  <2>3. calls' = [calls EXCEPT ![a] = calls[a]] /\ (a # Root => NoTask(g, calls[a]))
    BY <1>1, <2>1, <2>2
  <2> QED BY <1>2, <1>7, <2>1, <2>2, <2>3
<1>10. ASSUME NEW a \in Agents, Prepared(a) PROVE SlotsInv'
  <2> DEFINE c == [n |-> Cardinality(calls[a]) + 1, runs |-> Place(gate[a].kind)]
             cs == IF aborted THEN calls[a] ELSE calls[a] \union {c}
             g == Idle(gate[a].mode)
  <2>1. /\ gate' = [gate EXCEPT ![a] = g] /\ calls' = [calls EXCEPT ![a] = cs]
        /\ gate[a].at # "idle" /\ task' = task /\ parent' = parent
    BY <1>1, <1>10 DEF Prepared
  <2>2. a # Root => c.runs # "child"
    BY <1>1, <2>1 DEF Place
  <2>3. a # Root => NoTask(g, cs)
    BY <1>1, <2>2 DEF Idle
  <2> HIDE DEF cs, g
  <2> QED BY <1>2, <1>7, <2>1, <2>3
<1>11. ASSUME NEW a \in Agents, RunTool(a) PROVE SlotsInv'
  <2>1. PICK c \in calls[a] : calls' = [calls EXCEPT ![a] = @ \ {c}]
    BY <1>11 DEF RunTool
  <2>2. gate' = gate /\ task' = task /\ parent' = parent
    BY <1>11 DEF RunTool
  <2>3. /\ gate' = [gate EXCEPT ![a] = gate[a]] /\ calls' = [calls EXCEPT ![a] = calls[a] \ {c}]
        /\ a # Root => NoTask(gate[a], calls[a] \ {c})
    BY <1>1, <2>1, <2>2
  <2> QED BY <1>2, <1>7, <2>2, <2>3
<1>12. ASSUME SetMode PROVE SlotsInv'
  <2>1. /\ task' = task /\ parent' = parent /\ calls' = calls
        /\ gate' = [a \in Agents |-> IF gate[a].at # "called" THEN gate[a]
                                    ELSE [gate[a] EXCEPT !.seen = @ \union {liveMode'}]]
    BY <1>12 DEF SetMode
  <2>2. \A b \in Agents \ {Root} : NoTask(gate'[b], calls'[b])
    BY <1>1, <2>1
  <2>3. gate' = [b \in Agents |-> gate'[b]] /\ calls' = [b \in Agents |-> calls'[b]]
    BY <1>3, <2>1 DEF SlotsInv
  <2> QED BY <1>7, <2>1, <2>2, <2>3
<1>13. ASSUME \/ \E a \in Agents : CallsReturned(a)
              \/ AbortRoot \/ UNCHANGED delegationVars
       PROVE  SlotsInv'
  <2>1. task' = task /\ parent' = parent /\ gate' = gate /\ calls' = calls
    BY <1>13 DEF CallsReturned, AbortRoot, delegationVars
  <2> QED BY <1>3, <1>7, <2>1
<1> QED BY <1>4, <1>5, <1>6, <1>8, <1>9, <1>10, <1>11, <1>12, <1>13
        DEF DelegationNext, DelegationStep, AgentStep

\* Only the root delegates, so that a task which holds a slot waits for none, and at most
\* maxConcurrent child agents run (stripTaskTools, Runner.Execute).
THEOREM SlotsHold ==
  ASSUME DelegationAssumption
  PROVE  DelegationSpec => []SlotsInv
<1>1. ASSUME DelegationInit PROVE SlotsInv
  <2>1. Running = {}
    BY <1>1 DEF DelegationInit, Running
  <2>2. Cardinality(Running) <= Slots
    BY <2>1, FS_EmptySet DEF DelegationAssumption
  <2> QED BY <1>1, <2>2 DEF DelegationInit, SlotsInv, Idle
<1> QED BY <1>1, SlotsStep, PTL DEF DelegationSpec

\* A mode that the host sets binds the very next call of every agent, root and child: no
\* call is prepared that no mode in force since its turn came permits, or whose approval
\* came in after the cancellation (beforeToolCall, Gate, prepareToolCall).
THEOREM ModeBindsTheNextCallAlways ==
  ASSUME DelegationAssumption
  PROVE  DelegationSpec => ModeBindsTheNextCall
<1> DEFINE Binds == \A a \in Agents : calls'[a] \subseteq calls[a] \/ MayRun(gate[a])
<1>1. DelegationInit => GateInv
  BY DEF DelegationInit, GateInv, GateFacts, Idle
<1>2. ASSUME GateInv, SlotsInv, [DelegationNext]_delegationVars PROVE [Binds]_delegationVars
  <2> SUFFICES ASSUME NEW a \in Agents, ~(calls'[a] \subseteq calls[a]) PROVE MayRun(gate[a])
    OBVIOUS
  <2>1. CASE \E b \in Agents : Prepared(b)
    <3>1. PICK b \in Agents : Prepared(b)
      BY <2>1
    <3>2. b = a /\ ~aborted
      BY <1>2, <3>1 DEF Prepared, SlotsInv
    <3> QED BY <1>2, <3>1, <3>2 DEF Prepared, GateInv, GateFacts, SlotsInv
  <2>2. CASE \E b \in Agents : RunTool(b) \/ StartTask(b)
    BY <1>2, <2>2 DEF RunTool, StartTask, SlotsInv
  <2>3. CASE calls' = calls
    BY <2>3
  <2> QED BY <1>2, <2>1, <2>2, <2>3
          DEF DelegationNext, DelegationStep, AgentStep, ReadMode, Decide, Answer, StartCalls,
              CallsReturned, Acquire, AcquireRefused, GiveUp, ChildEnds, BeginCall, SetMode,
              AbortRoot, delegationVars
<1> QED BY <1>1, <1>2, GateStep, SlotsHold, PTL DEF DelegationSpec, ModeBindsTheNextCall

-----------------------------------------------------------------------------
(* The retrier.                                                            *)

Events == [attempt : Nat, number : Nat, type : Types, code : Codes \cup {None}]

TypeInv ==
  /\ pc \in {"check", "receive", "sleep", "done"}
  /\ attempt \in Nat /\ received \in Nat
  /\ buffer \in Seq(Events) /\ output \in Seq(Events)
  /\ committed \in BOOLEAN /\ cancelled \in BOOLEAN
  /\ status \in Nat /\ delay \in Int /\ hint \in Nat

\* The first events of the current attempt, none of them terminal.
Voice(events) ==
  \A i \in DOMAIN events : /\ events[i].attempt = attempt /\ events[i].number = i
                           /\ ~IsTerminal(events[i])

VoiceInv ==
  /\ pc \in {"check", "sleep"} => output = <<>>
  /\ pc = "receive" =>
       IF committed THEN buffer = <<>> /\ Voice(output) /\ Len(output) = received
       ELSE output = <<>> /\ Voice(buffer) /\ Len(buffer) = received
  /\ pc = "done" => SingleVoice

\* Another attempt follows only if one is left.
AttemptInv ==
  /\ attempt <= MaxAttempts
  /\ pc \in {"check", "sleep"} => attempt < MaxAttempts
  /\ pc \in {"receive", "sleep"} => attempt # 0

RetryInv == TypeInv /\ VoiceInv /\ AttemptInv /\ WaitIsBounded /\ OverflowReachesCaller

-----------------------------------------------------------------------------
(* The delays of internal/retry/config.go.                                 *)

\* Powers of two count subsets, and a set with one more element has twice as many.
LEMMA Doubling ==
  ASSUME NEW n \in Nat
  PROVE  2^n \in Nat /\ 2^(n + 1) = 2 * 2^n
<1> DEFINE Without == SUBSET (1..n)
           With == {T \cup {0} : T \in Without}
           add == [T \in Without |-> T \cup {0}]
<1>1. IsFiniteSet(1..n) /\ Cardinality(1..n) = n
  BY FS_Interval
<1>2. IsFiniteSet(0..n) /\ Cardinality(0..n) = n + 1
  BY FS_Interval
<1>3. IsFiniteSet(Without) /\ Cardinality(Without) = 2^n /\ Cardinality(Without) \in Nat
  BY <1>1, FS_SUBSET, FS_CardinalityType
<1>4. Cardinality(SUBSET (0..n)) = 2^(n + 1)
  BY <1>2, FS_SUBSET
<1>5. 0 \notin 1..n /\ 0..n = (1..n) \cup {0}
  OBVIOUS
<1>6. SUBSET (0..n) = Without \cup With /\ Without \cap With = {}
  <2>1. ASSUME NEW T \in SUBSET (0..n) PROVE T \in Without \cup With
    <3>1. CASE 0 \in T
      <4>1. T = (T \ {0}) \cup {0} /\ T \ {0} \in Without
        BY <1>5, <3>1
      <4> QED BY <4>1
    <3>2. CASE 0 \notin T
      BY <1>5, <3>2
    <3> QED BY <3>1, <3>2
  <2>2. Without \cup With \subseteq SUBSET (0..n)
    BY <1>5
  <2>3. Without \cap With = {}
    BY <1>5
  <2> QED BY <2>1, <2>2, <2>3
<1>7. ExistsBijection(Without, With)
  <2>1. add \in [Without -> With] /\ \A t \in With : \E T \in Without : add[T] = t
    OBVIOUS
  <2>2. ASSUME NEW S \in Without, NEW T \in Without, add[S] = add[T] PROVE S = T
    BY <1>5, <2>2
  <2>3. add \in Bijection(Without, With)
    BY <2>1, <2>2 DEF Bijection, Injection, IsInjective, Surjection
  <2> QED BY <2>3 DEF ExistsBijection
<1>8. IsFiniteSet(With) /\ Cardinality(With) = 2^n
  BY <1>3, <1>7, FS_Bijection
<1> HIDE DEF Without, With
<1>9. Cardinality(Without \cup With) = 2^n + 2^n - Cardinality(Without \cap With)
  BY <1>3, <1>8, FS_Union
<1>10. Cardinality(Without \cap With) = 0
  BY <1>6, FS_EmptySet
<1>11. 2^(n + 1) = 2^n + 2^n - 0
  BY <1>4, <1>6, <1>9, <1>10
<1>12. 2^n \in Nat
  BY <1>3
<1> QED BY <1>11, <1>12

LEMMA PowerZero ==
  2^0 = 1
OBVIOUS

LEMMA PowerPositive ==
  ASSUME NEW n \in Nat
  PROVE  2^n # 0
<1> DEFINE Zeros == {m \in Nat : 2^m = 0}
<1>1. SUFFICES ASSUME Zeros # {} PROVE FALSE
  OBVIOUS
<1>2. PICK m \in Zeros : \A k \in Zeros : m <= k
  BY <1>1, NatMin
<1>3. m # 0 /\ m \in Nat
  <2>1. m \in Nat /\ 2^m = 0
    OBVIOUS
  <2>2. ASSUME m = 0 PROVE FALSE
    <3>1. 2^0 = 0
      BY <2>1, <2>2
    <3> QED BY <3>1, PowerZero
  <2> QED BY <2>1, <2>2
<1>4. m - 1 \in Nat /\ 2^((m - 1) + 1) = 2 * 2^(m - 1) /\ (m - 1) + 1 = m
  BY <1>3, Doubling
<1>5. 2^(m - 1) \in Nat /\ 2^(m - 1) = 0
  BY <1>3, <1>4, Doubling
<1> QED BY <1>2, <1>3, <1>4, <1>5

LEMMA ModSmall ==
  ASSUME NEW a \in Nat, NEW b \in Nat, a < b
  PROVE  a % b = a
OBVIOUS

LEMMA LongestDuration ==
  ASSUME WidthAssumption
  PROVE  MaxDuration \in Int
<1>1. Width - 1 \in Nat
  BY DEF WidthAssumption
<1> QED BY <1>1, Doubling DEF MaxDuration

LEMMA NoWrap ==
  ASSUME WidthAssumption, NEW n \in 0..MaxDuration
  PROVE  Wrap(n) = n
<1>1. PICK w \in Nat : Width = w + 1
  <2>1. Width - 1 \in Nat /\ Width = (Width - 1) + 1
    BY DEF WidthAssumption
  <2> QED BY <2>1
<1>2. 2^w \in Nat /\ 2^Width = 2 * 2^w /\ Width - 1 = w
  BY <1>1, Doubling
<1> DEFINE p == 2^w
<1>3. p \in Nat /\ n \in 0..(p - 1)
  BY <1>2 DEF MaxDuration
<1>4. Wrap(n) = ((n + p) % (2 * p)) - p
  BY <1>2 DEF Wrap
<1> HIDE DEF p
<1>5. n + p \in Nat /\ 2 * p \in Nat /\ n + p < 2 * p
  BY <1>3
<1>6. (n + p) % (2 * p) = n + p
  BY <1>5, ModSmall
<1> QED BY <1>3, <1>4, <1>6

Nominal(base, cap, i) == IF base * 2^(i - 1) > cap THEN cap ELSE base * 2^(i - 1)

NextDelay(last, cap) ==
  IF last >= cap THEN last ELSE IF last > cap \div 2 THEN cap ELSE Wrap(2 * last)

\* One iteration of the loop doubles the delay up to the cap, and the product is a Duration.
LEMMA NextCapped ==
  ASSUME WidthAssumption, NEW base \in Nat \ {0}, NEW cap \in base..MaxDuration, cap \in Nat,
         NEW i \in Nat \ {0, 1}
  PROVE  /\ Nominal(base, cap, i - 1) \in 1..cap
         /\ Nominal(base, cap, i) = NextDelay(Nominal(base, cap, i - 1), cap)
<1>1. PICK k \in Nat : i = k + 2
  <2>1. i - 2 \in Nat /\ i = (i - 2) + 2
    OBVIOUS
  <2> QED BY <2>1
<1>2. 2^k \in Nat /\ 2^(k + 1) = 2 * 2^k /\ i - 1 = k + 1 /\ i - 1 - 1 = k
  BY <1>1, Doubling
<1> DEFINE p == 2^k  e == base * p
<1>3. p \in Nat /\ p # 0
  BY <1>2, PowerPositive
<1>4. e \in Nat \ {0} /\ base * (2 * p) = 2 * e
  BY <1>3
<1>5. /\ Nominal(base, cap, i - 1) = IF e > cap THEN cap ELSE e
      /\ Nominal(base, cap, i) = IF 2 * e > cap THEN cap ELSE 2 * e
  BY <1>2, <1>4 DEF Nominal
<1> HIDE DEF e
<1>6. cap \in Nat \ {0}
  OBVIOUS
<1>7. CASE e >= cap
  BY <1>4, <1>5, <1>6, <1>7 DEF NextDelay
<1>8. CASE e < cap /\ e > cap \div 2
  BY <1>4, <1>5, <1>6, <1>8 DEF NextDelay
<1>9. CASE e < cap /\ e <= cap \div 2
  <2>1. 2 * e <= cap /\ 2 * e \in 0..MaxDuration
    <3>1. 2 * e <= cap
      BY <1>4, <1>6, <1>9
    <3>2. MaxDuration \in Int /\ cap <= MaxDuration
      BY LongestDuration
    <3> QED BY <1>4, <1>6, <3>1, <3>2
  <2>2. Wrap(2 * e) = 2 * e
    BY <2>1, NoWrap
  <2> QED BY <1>4, <1>5, <1>6, <1>9, <2>1, <2>2 DEF NextDelay
<1> QED BY <1>4, <1>6, <1>7, <1>8, <1>9

Recurrence(delays, base, cap, n) ==
  delays = [i \in 1..n |-> IF i = 1 THEN base
                           ELSE IF delays[i - 1] >= cap THEN delays[i - 1]
                           ELSE IF delays[i - 1] > cap \div 2 THEN cap
                           ELSE Wrap(2 * delays[i - 1])]

\* What the loop computes: the recurrence has one solution.
LEMMA DelaysAreCapped ==
  ASSUME WidthAssumption, NEW base \in Nat \ {0}, NEW cap \in base..MaxDuration, cap \in Nat,
         NEW n \in Nat \ {0}
  PROVE  /\ Recurrence([i \in 1..n |-> Nominal(base, cap, i)], base, cap, n)
         /\ \A delays : Recurrence(delays, base, cap, n) =>
              \A i \in 1..n : delays[i] = Nominal(base, cap, i)
<1>1. Nominal(base, cap, 1) = base
  <2>1. base * 2^(1 - 1) = base
    BY PowerZero
  <2> QED BY <2>1 DEF Nominal
<1>2. \A i \in 1..n : i # 1 => i - 1 \in 1..n /\ i \in Nat \ {0, 1}
  OBVIOUS
<1>3. Recurrence([i \in 1..n |-> Nominal(base, cap, i)], base, cap, n)
  <2> DEFINE d == [i \in 1..n |-> Nominal(base, cap, i)]
  <2>1. ASSUME NEW i \in 1..n, i # 1
        PROVE  Nominal(base, cap, i) = NextDelay(d[i - 1], cap)
    BY <1>2, <2>1, NextCapped
  <2> QED BY <1>1, <2>1 DEF Recurrence, NextDelay
<1>4. ASSUME NEW delays, Recurrence(delays, base, cap, n)
      PROVE  \A i \in 1..n : delays[i] = Nominal(base, cap, i)
  <2>1. /\ delays[1] = base
        /\ \A i \in 1..n : i # 1 => delays[i] = NextDelay(delays[i - 1], cap)
    BY <1>4 DEF Recurrence, NextDelay
  <2> DEFINE Wrong == {i \in 1..n : delays[i] # Nominal(base, cap, i)}
  <2>2. SUFFICES ASSUME Wrong # {} PROVE FALSE
    OBVIOUS
  <2>3. PICK i \in Wrong : \A j \in Wrong : i <= j
    <3>1. Wrong \subseteq Nat
      OBVIOUS
    <3> HIDE DEF Wrong
    <3> QED BY <2>2, <3>1, NatMin
  <2>4. i # 1
    BY <1>1, <2>1
  <2>5. i - 1 \in 1..n /\ i - 1 \notin Wrong /\ i \in Nat \ {0, 1}
    BY <1>2, <2>3, <2>4
  <2>6. delays[i] = NextDelay(Nominal(base, cap, i - 1), cap)
    BY <2>1, <2>4, <2>5
  <2> QED BY <2>5, <2>6, NextCapped
<1> QED BY <1>3, <1>4

\* nominalDelay is the exponential backoff, whatever is too large for a Duration.
LEMMA NominalDelay ==
  ASSUME WidthAssumption, NEW base \in Nat \ {0}, NEW cap \in base..MaxDuration, cap \in Nat,
         NEW n \in Nat \ {0}
  PROVE  nominalDelay(base, cap, n) = Nominal(base, cap, n)
<1> DEFINE delays == CHOOSE delays : Recurrence(delays, base, cap, n)
<1>1. Recurrence(delays, base, cap, n)
  BY DelaysAreCapped, Zenon
<1>2. delays[n] = Nominal(base, cap, n)
  <2>1. n \in 1..n
    OBVIOUS
  <2> HIDE DEF delays
  <2>2. \A d : Recurrence(d, base, cap, n) => \A i \in 1..n : d[i] = Nominal(base, cap, i)
    BY DelaysAreCapped, Zenon
  <2>3. \A i \in 1..n : delays[i] = Nominal(base, cap, i)
    BY <1>1, <2>2, Zenon
  <2> QED BY <2>1, <2>3
<1>3. nominalDelay(base, cap, n) = IF delays[n] > cap THEN cap ELSE delays[n]
  BY DEF nominalDelay, Recurrence
<1>4. Nominal(base, cap, n) \in Int /\ Nominal(base, cap, n) <= cap
  <2>1. n - 1 \in Nat
    OBVIOUS
  <2> QED BY <2>1, Doubling DEF Nominal
<1> HIDE DEF delays
<1> QED BY <1>2, <1>3, <1>4

LEMMA ExponentialIsNat ==
  ASSUME RetrierAssumption, attempt \in Nat \ {0}
  PROVE  Exponential \in Nat
<1>1. BaseDelay \in Nat /\ BackoffCap \in Nat
  BY DEF RetrierAssumption
<1>2. attempt - 1 \in Nat
  OBVIOUS
<1> QED BY <1>1, <1>2, Doubling DEF Exponential

\* The jitter takes at most a quarter of the delay.
LEMMA WaitsAreLong ==
  ASSUME WidthAssumption, RetrierAssumption, attempt \in Nat \ {0},
         NEW local \in jitterDelays(nominalDelay(BaseDelay, BackoffCap, attempt))
  PROVE  /\ local \in Nat /\ local \in jitterDelays(Exponential)
         /\ local >= (3 * Exponential) \div 4
<1>1. BaseDelay \in Nat \ {0} /\ BackoffCap \in BaseDelay..MaxDuration /\ BackoffCap \in Nat
  BY DEF RetrierAssumption
<1>2. nominalDelay(BaseDelay, BackoffCap, attempt) = Exponential
  BY <1>1, NominalDelay DEF Nominal, Exponential
<1>3. Exponential \in Nat
  BY ExponentialIsNat
<1> DEFINE e == Exponential
<1>4. e \in Nat /\ local \in jitterDelays(e)
  BY <1>2, <1>3
<1> HIDE DEF e
<1>5. local \in Nat /\ local >= (3 * e) \div 4
  BY <1>4 DEF jitterDelays
<1> QED BY <1>4, <1>5 DEF e

-----------------------------------------------------------------------------
(* The stream.                                                             *)

LEMMA EventIsEvent ==
  ASSUME TypeInv, NEW type \in Types
  PROVE  /\ Event(type) \in Events /\ Event(type).attempt = attempt
         /\ Event(type).number = received + 1 /\ Event(type).type = type
BY DEF TypeInv, Event, Events

LEMMA GeneratedIsEvent ==
  ASSUME NEW code \in Codes
  PROVE  /\ Generated(code) \in Events /\ Generated(code).attempt = 0
         /\ Generated(code).type = "error"
BY DEF Generated, Events, Types

\* What finishing a stream that has said "said" with the event e means.
LEMMA LastWord ==
  ASSUME NEW said \in Seq(Events), Voice(said), NEW e \in Events, IsTerminal(e),
         e.attempt # 0 => e.attempt = attempt /\ e.number = Len(said) + 1,
         output' = Append(said, e), pc' = "done", attempt' = attempt
  PROVE  output' \in Seq(Events) /\ SingleVoice' /\ output'[Len(output')] = e
<1>1. /\ output' \in Seq(Events) /\ Len(output') = Len(said) + 1 /\ Len(said) \in Nat
      /\ output'[Len(said) + 1] = e
      /\ DOMAIN output' = 1..(Len(said) + 1) /\ DOMAIN said = 1..Len(said)
      /\ \A i \in 1..Len(said) : output'[i] = said[i]
  OBVIOUS
<1>2. ASSUME NEW i \in DOMAIN output'
      PROVE  /\ output'[i].attempt # 0 => output'[i].attempt = attempt /\ output'[i].number = i
             /\ IsTerminal(output'[i]) <=> i = Len(output')
  <2>1. CASE i = Len(said) + 1
    BY <1>1, <2>1
  <2>2. CASE i # Len(said) + 1
    <3>1. i \in 1..Len(said)
      BY <1>1, <2>2
    <3> QED BY <1>1, <3>1 DEF Voice
  <2> QED BY <2>1, <2>2
<1>3. output' # <<>>
  BY <1>1
<1>4. SingleVoice'
  BY <1>2, <1>3 DEF SingleVoice, IsTerminal
<1> QED BY <1>1, <1>4

LEMMA NothingHeard == Voice(<<>>)
BY DEF Voice

\* A terminal event behind what is held back, of the attempt or generated.
LEMMA FinishedWith ==
  ASSUME TypeInv, VoiceInv, pc = "receive", attempt' = attempt, NEW e \in Events, IsTerminal(e),
         e.attempt # 0 => e.attempt = attempt /\ e.number = received + 1,
         Finish(Append(buffer, e))
  PROVE  /\ output' \in Seq(Events) /\ buffer' = <<>> /\ pc' = "done" /\ SingleVoice'
         /\ output'[Len(output')] = e
<1>1. output' = output \o Append(buffer, e) /\ pc' = "done" /\ buffer' = <<>>
  BY DEF Finish
<1>2. output \in Seq(Events) /\ buffer \in Seq(Events)
  BY DEF TypeInv
<1>3. CASE committed
  <2>1. buffer = <<>> /\ Voice(output) /\ Len(output) = received
    BY <1>3 DEF VoiceInv
  <2>2. output' = Append(output, e)
    BY <1>1, <1>2, <2>1
  <2> QED BY <1>1, <1>2, <2>1, <2>2, LastWord
<1>4. CASE ~committed
  <2>1. output = <<>> /\ Voice(buffer) /\ Len(buffer) = received
    BY <1>4 DEF VoiceInv
  <2>2. output' = Append(buffer, e)
    BY <1>1, <1>2, <2>1
  <2> QED BY <1>1, <1>2, <2>1, <2>2, LastWord
<1> QED BY <1>3, <1>4

\* A generated event behind what the caller heard; the held-back events are dropped.
LEMMA FinishedGenerated ==
  ASSUME TypeInv, VoiceInv, pc # "done", attempt' = attempt, NEW code \in Codes,
         Finish(<<Generated(code)>>)
  PROVE  /\ output' \in Seq(Events) /\ buffer' = <<>> /\ pc' = "done" /\ SingleVoice'
<1> DEFINE e == Generated(code)
<1>1. output' = output \o <<e>> /\ pc' = "done" /\ buffer' = <<>>
  BY DEF Finish
<1>2. output \in Seq(Events) /\ e \in Events /\ e.attempt = 0 /\ IsTerminal(e)
  BY GeneratedIsEvent DEF TypeInv, IsTerminal
<1> HIDE DEF e
<1>3. output' = Append(output, e)
  BY <1>1, <1>2
<1>4. Voice(output)
  BY NothingHeard DEF VoiceInv, TypeInv
<1> QED BY <1>1, <1>2, <1>3, <1>4, LastWord

-----------------------------------------------------------------------------
\* Ending the stream leaves nothing to keep but what was heard.
LEMMA Ended ==
  ASSUME TypeInv, AttemptInv, output' \in Seq(Events), buffer' = <<>>, pc' = "done", SingleVoice',
         attempt' = attempt, received' = received, committed' = committed, status' = status,
         cancelled' = cancelled, delay' = delay, hint' = hint
  PROVE  TypeInv' /\ VoiceInv' /\ AttemptInv' /\ WaitIsBounded'
<1>1. buffer' \in Seq(Events)
  BY EmptySeq
<1>2. TypeInv'
  BY <1>1 DEF TypeInv
<1> QED BY <1>2 DEF VoiceInv, AttemptInv, WaitIsBounded

LEMMA WaitsAreNumbers ==
  ASSUME WidthAssumption, RetrierAssumption, TypeInv, NEW h \in HintsOf, NEW n,
         NEW local \in jitterDelays(n)
  PROVE  h \in Nat /\ local \in Int
<1>1. h \in Nat
  BY DEF HintsOf, RetrierAssumption
<1>2. local \in Int
  BY DEF jitterDelays
<1> QED BY <1>1, <1>2

\* A retryable failure before any output: a wait, or the end.
LEMMA BacksOff ==
  ASSUME WidthAssumption, RetrierAssumption,
         TypeInv, VoiceInv, AttemptInv, pc = "receive", output = <<>>, BackOff,
         attempt' = attempt, received' = received, committed' = committed, status' = status,
         cancelled' = cancelled
  PROVE  TypeInv' /\ VoiceInv' /\ AttemptInv' /\ WaitIsBounded'
<1>1. PICK h \in HintsOf,
           local \in jitterDelays(nominalDelay(BaseDelay, BackoffCap, attempt)) :
        LET wait == IF h > local THEN h ELSE local IN
        IF attempt >= MaxAttempts
        THEN Finish(<<Generated("attempts_exhausted")>>) /\ UNCHANGED <<delay, hint>>
        ELSE IF MaxDelay > 0 /\ wait > MaxDelay
        THEN Finish(<<Generated("retry_delay_exceeded")>>) /\ UNCHANGED <<delay, hint>>
        ELSE pc' = "sleep" /\ delay' = wait /\ hint' = h /\ UNCHANGED <<buffer, output>>
  BY Zenon DEF BackOff
<1>2. h \in Nat /\ local \in Int
  BY WaitsAreNumbers
<1> DEFINE wait == IF h > local THEN h ELSE local
<1>3. CASE attempt >= MaxAttempts
  <2>1. /\ Finish(<<Generated("attempts_exhausted")>>) /\ delay' = delay /\ hint' = hint
        /\ "attempts_exhausted" \in Codes
    BY <1>1, <1>3 DEF Codes
  <2>2. output' \in Seq(Events) /\ buffer' = <<>> /\ pc' = "done" /\ SingleVoice'
    BY <2>1, FinishedGenerated
  <2> QED BY <2>1, <2>2, Ended
<1>4. CASE ~(attempt >= MaxAttempts) /\ MaxDelay > 0 /\ wait > MaxDelay
  <2>1. /\ Finish(<<Generated("retry_delay_exceeded")>>) /\ delay' = delay /\ hint' = hint
        /\ "retry_delay_exceeded" \in Codes
    BY <1>1, <1>4 DEF Codes
  <2>2. output' \in Seq(Events) /\ buffer' = <<>> /\ pc' = "done" /\ SingleVoice'
    BY <2>1, FinishedGenerated
  <2> QED BY <2>1, <2>2, Ended
<1>5. CASE ~(attempt >= MaxAttempts) /\ ~(MaxDelay > 0 /\ wait > MaxDelay)
  <2>1. pc' = "sleep" /\ delay' = wait /\ hint' = h /\ buffer' = buffer /\ output' = output
    BY <1>1, <1>5
  <2>2. wait \in Int /\ wait >= h /\ (MaxDelay > 0 => wait <= MaxDelay)
        /\ MaxAttempts \in Nat /\ attempt \in Nat
    BY <1>2, <1>5 DEF RetrierAssumption, TypeInv
  <2>3. TypeInv'
    BY <1>2, <2>1, <2>2 DEF TypeInv
  <2>4. VoiceInv' /\ AttemptInv'
    BY <1>5, <2>1, <2>2 DEF VoiceInv, AttemptInv
  <2>5. WaitIsBounded'
    <3>1. /\ local \in Nat /\ local \in jitterDelays(Exponential)
          /\ local >= (3 * Exponential) \div 4
      BY <2>2, WaitsAreLong DEF AttemptInv
    <3>2. Exponential' = Exponential
      BY DEF Exponential
    <3>3. (3 * Exponential) \div 4 \in Int
      BY <2>2, ExponentialIsNat DEF AttemptInv
    <3>4. wait >= (3 * Exponential) \div 4 /\ (wait > h => wait = local)
      BY <1>2, <3>1, <3>3
    <3> QED BY <2>1, <2>2, <3>1, <3>2, <3>4 DEF WaitIsBounded
  <2> QED BY <2>3, <2>4, <2>5
<1> QED BY <1>3, <1>4, <1>5

\* A failure before any output.
LEMMA Failed ==
  ASSUME WidthAssumption, RetrierAssumption,
         TypeInv, VoiceInv, AttemptInv, pc = "receive", output = <<>>,
         NEW cause, NEW terminal \in Events, IsTerminal(terminal),
         terminal.attempt # 0 => terminal.attempt = attempt /\ terminal.number = received + 1,
         Fails(cause, terminal),
         attempt' = attempt, received' = received, committed' = committed, status' = status,
         cancelled' = cancelled
  PROVE  /\ TypeInv' /\ VoiceInv' /\ AttemptInv' /\ WaitIsBounded'
         /\ failure' = cause
         /\ cause = "overflow" => pc' = "done" /\ output'[Len(output')] = terminal
<1>1. failure' = cause
  BY DEF Fails
<1>2. CASE Retryable(cause)
  <2>1. BackOff /\ cause # "overflow"
    BY <1>2 DEF Fails, Retryable
  <2> QED BY <1>1, <2>1, BacksOff
<1>3. CASE ~Retryable(cause)
  <2>1. Finish(Append(buffer, terminal)) /\ delay' = delay /\ hint' = hint
    BY <1>3 DEF Fails
  <2>2. /\ output' \in Seq(Events) /\ buffer' = <<>> /\ pc' = "done" /\ SingleVoice'
        /\ output'[Len(output')] = terminal
    BY <2>1, FinishedWith
  <2> QED BY <1>1, <2>1, <2>2, Ended
<1> QED BY <1>2, <1>3

-----------------------------------------------------------------------------
LEMMA InitRetry ==
  ASSUME WidthAssumption, RetrierAssumption, RetryInit
  PROVE  RetryInv
<1>1. TypeInv
  <2>1. buffer \in Seq(Events) /\ output \in Seq(Events)
    BY EmptySeq DEF RetryInit
  <2>2. committed \in BOOLEAN /\ cancelled \in BOOLEAN
    BY Zenon DEF RetryInit
  <2> QED BY <2>1, <2>2 DEF RetryInit, TypeInv
<1>2. VoiceInv /\ AttemptInv /\ WaitIsBounded /\ OverflowReachesCaller
  BY DEF RetryInit, VoiceInv, AttemptInv, WaitIsBounded, OverflowReachesCaller,
         RetrierAssumption, None
<1> QED BY <1>1, <1>2 DEF RetryInv

LEMMA Begins ==
  ASSUME WidthAssumption, RetrierAssumption, RetryInv, Begin
  PROVE  RetryInv'
<1>1. TypeInv /\ VoiceInv /\ AttemptInv
  BY DEF RetryInv
<1>2. /\ pc = "check" /\ attempt' = attempt + 1 /\ status' \in Statuses /\ received' = 0
      /\ buffer' = <<>> /\ committed' = FALSE /\ failure' = None /\ pc' = "receive"
      /\ output' = output /\ delay' = delay /\ hint' = hint /\ cancelled' = cancelled
  BY DEF Begin
<1>3. output = <<>>
  BY <1>1, <1>2 DEF VoiceInv
<1>4. TypeInv'
  <2>1. buffer' \in Seq(Events)
    BY <1>2, EmptySeq
  <2>2. committed' \in BOOLEAN
    BY <1>2, Zenon
  <2>3. status' \in Nat
    BY <1>2 DEF RetrierAssumption
  <2> QED BY <1>1, <1>2, <2>1, <2>2, <2>3 DEF TypeInv
<1>5. VoiceInv'
  BY <1>2, <1>3 DEF VoiceInv, Voice
<1>6. AttemptInv'
  BY <1>1, <1>2 DEF AttemptInv, TypeInv, RetrierAssumption
<1>7. WaitIsBounded' /\ OverflowReachesCaller'
  BY <1>2 DEF WaitIsBounded, OverflowReachesCaller, None
<1> QED BY <1>4, <1>5, <1>6, <1>7 DEF RetryInv

\* One more event of the attempt.
LEMMA OneMore ==
  ASSUME TypeInv, NEW type \in {"structural", "delta"}, NEW said \in Seq(Events), Voice(said),
         Len(said) = received
  PROVE  /\ Append(said, Event(type)) \in Seq(Events) /\ Voice(Append(said, Event(type)))
         /\ Len(Append(said, Event(type))) = received + 1
<1> DEFINE e == Event(type)
<1>1. e \in Events /\ e.attempt = attempt /\ e.number = received + 1 /\ ~IsTerminal(e)
  BY EventIsEvent DEF Types, IsTerminal
<1> DEFINE more == Append(said, e)
<1> HIDE DEF e
<1>2. /\ more \in Seq(Events) /\ Len(more) = received + 1 /\ DOMAIN more = 1..(received + 1)
      /\ more[received + 1] = e /\ DOMAIN said = 1..received
      /\ \A i \in 1..received : more[i] = said[i]
  BY <1>1
<1>3. Voice(more)
  <2> SUFFICES ASSUME NEW i \in DOMAIN more
               PROVE  /\ more[i].attempt = attempt /\ more[i].number = i
                      /\ ~IsTerminal(more[i])
    BY Zenon DEF Voice
  <2>1. CASE i = received + 1
    BY <1>1, <1>2, <2>1
  <2>2. CASE i # received + 1
    <3>1. i \in 1..received
      BY <1>2, <2>2 DEF TypeInv
    <3> QED BY <1>2, <3>1 DEF Voice
  <2> QED BY <2>1, <2>2
<1> QED BY <1>2, <1>3 DEF e

LEMMA ReceivesEvent ==
  ASSUME WidthAssumption, RetrierAssumption,
         RetryInv, NEW type \in {"structural", "delta"}, ReceiveEvent(type)
  PROVE  RetryInv'
<1>1. TypeInv /\ VoiceInv /\ AttemptInv /\ OverflowReachesCaller
  BY DEF RetryInv
<1> DEFINE e == Event(type)
           visible == committed \/ type = "delta" \/ Len(buffer) + 1 >= preOutputLimit
<1>2. /\ pc = "receive" /\ received' = received + 1 /\ committed' = visible
      /\ IF visible THEN output' = output \o Append(buffer, e) /\ buffer' = <<>>
         ELSE buffer' = Append(buffer, e) /\ output' = output
      /\ pc' = pc /\ attempt' = attempt /\ status' = status /\ delay' = delay /\ hint' = hint
      /\ cancelled' = cancelled /\ failure' = failure
  BY DEF ReceiveEvent
<1>3. output \in Seq(Events) /\ buffer \in Seq(Events) /\ e \in Events
  BY <1>1, EventIsEvent DEF TypeInv, Types
<1>4. /\ output' \in Seq(Events) /\ buffer' \in Seq(Events) /\ committed' \in BOOLEAN
      /\ VoiceInv'
  <2>1. CASE committed
    <3>1. buffer = <<>> /\ Voice(output) /\ Len(output) = received
      BY <1>1, <1>2, <2>1 DEF VoiceInv
    <3>2. output' = Append(output, e) /\ buffer' = <<>> /\ committed'
      <4>1. visible /\ committed'
        BY <1>2, <2>1, Zenon
      <4>2. output' = output \o Append(buffer, e) /\ buffer' = <<>>
        BY <1>2, <4>1, Zenon
      <4>3. output \o Append(buffer, e) = Append(output, e)
        BY <1>3, <3>1
      <4> QED BY <4>1, <4>2, <4>3
    <3>3. output' \in Seq(Events) /\ Voice(output') /\ Len(output') = received'
      BY <1>1, <1>2, <1>3, <3>1, <3>2, OneMore
    <3>4. Voice(output)'
      BY <1>2, <3>3 DEF Voice, IsTerminal
    <3> QED BY <1>2, <3>2, <3>3, <3>4, EmptySeq DEF VoiceInv
  <2>2. CASE ~committed
    <3>1. output = <<>> /\ Voice(buffer) /\ Len(buffer) = received
      BY <1>1, <1>2, <2>2 DEF VoiceInv
    <3>2. /\ Append(buffer, e) \in Seq(Events) /\ Voice(Append(buffer, e))
          /\ Len(Append(buffer, e)) = received'
      BY <1>1, <1>2, <1>3, <3>1, OneMore
    <3>3. CASE visible
      <4>1. output' = Append(buffer, e) /\ buffer' = <<>> /\ committed'
        <5>1. output' = output \o Append(buffer, e) /\ buffer' = <<>> /\ committed'
          BY <1>2, <3>3, Zenon
        <5>2. output \o Append(buffer, e) = Append(buffer, e)
          BY <1>3, <3>1
        <5> QED BY <5>1, <5>2
      <4>2. Voice(output)'
        BY <1>2, <3>2, <4>1 DEF Voice, IsTerminal
      <4> QED BY <1>2, <3>2, <4>1, <4>2, EmptySeq DEF VoiceInv
    <3>4. CASE ~visible
      <4>1. buffer' = Append(buffer, e) /\ output' = <<>> /\ ~committed' /\ committed' \in BOOLEAN
        BY <1>2, <3>1, <3>4
      <4>2. Voice(buffer)'
        BY <1>2, <3>2, <4>1 DEF Voice, IsTerminal
      <4> QED BY <1>2, <3>2, <4>1, <4>2, EmptySeq DEF VoiceInv
    <3> QED BY <3>3, <3>4
  <2> QED BY <2>1, <2>2
<1>5. TypeInv'
  BY <1>1, <1>2, <1>4 DEF TypeInv
<1>6. AttemptInv' /\ WaitIsBounded' /\ OverflowReachesCaller'
  BY <1>1, <1>2 DEF AttemptInv, WaitIsBounded, OverflowReachesCaller
<1> QED BY <1>4, <1>5, <1>6 DEF RetryInv

LEMMA ReceivesDone ==
  ASSUME RetryInv, ReceiveDone
  PROVE  RetryInv'
<1>1. TypeInv /\ VoiceInv /\ AttemptInv /\ OverflowReachesCaller
  BY DEF RetryInv
<1>2. /\ pc = "receive" /\ Finish(Append(buffer, Event("done")))
      /\ attempt' = attempt /\ status' = status /\ received' = received
      /\ committed' = committed /\ delay' = delay /\ hint' = hint /\ cancelled' = cancelled
      /\ failure' = failure
  BY DEF ReceiveDone
<1>3. /\ Event("done") \in Events /\ IsTerminal(Event("done"))
      /\ Event("done").attempt = attempt /\ Event("done").number = received + 1
  BY <1>1, EventIsEvent DEF Types, IsTerminal
<1>4. output' \in Seq(Events) /\ buffer' = <<>> /\ pc' = "done" /\ SingleVoice'
  BY <1>1, <1>2, <1>3, FinishedWith
<1>5. TypeInv' /\ VoiceInv' /\ AttemptInv' /\ WaitIsBounded'
  BY <1>1, <1>2, <1>4, Ended
<1> QED BY <1>1, <1>2, <1>5 DEF RetryInv, OverflowReachesCaller

LEMMA ReceivesError ==
  ASSUME WidthAssumption, RetrierAssumption, RetryInv, ReceiveError
  PROVE  RetryInv'
<1>1. TypeInv /\ VoiceInv /\ AttemptInv /\ OverflowReachesCaller
  BY DEF RetryInv
<1>2. PICK cause \in Causes \ {"closed"}, visible \in {FALSE} \cup {received > 0} :
        IF committed \/ visible
        THEN Finish(Append(buffer, Event("error"))) /\ UNCHANGED <<delay, hint, failure>>
        ELSE Fails(cause, Event("error"))
  BY Zenon DEF ReceiveError
<1>3. /\ pc = "receive" /\ attempt' = attempt /\ status' = status /\ received' = received
      /\ committed' = committed /\ cancelled' = cancelled
  BY DEF ReceiveError
<1>4. /\ Event("error") \in Events /\ IsTerminal(Event("error"))
      /\ Event("error").attempt = attempt /\ Event("error").number = received + 1
  BY <1>1, EventIsEvent DEF Types, IsTerminal
<1>5. CASE committed \/ visible
  <2>1. /\ Finish(Append(buffer, Event("error"))) /\ delay' = delay /\ hint' = hint
        /\ failure' = failure
    BY <1>2, <1>5
  <2>2. output' \in Seq(Events) /\ buffer' = <<>> /\ pc' = "done" /\ SingleVoice'
    BY <1>1, <1>3, <1>4, <2>1, FinishedWith
  <2>3. TypeInv' /\ VoiceInv' /\ AttemptInv' /\ WaitIsBounded'
    BY <1>1, <1>3, <2>1, <2>2, Ended
  <2> QED BY <1>1, <1>3, <2>1, <2>3 DEF RetryInv, OverflowReachesCaller
<1>6. CASE ~(committed \/ visible)
  <2>1. Fails(cause, Event("error")) /\ output = <<>>
    BY <1>1, <1>2, <1>3, <1>6 DEF VoiceInv
  <2>2. /\ TypeInv' /\ VoiceInv' /\ AttemptInv' /\ WaitIsBounded' /\ failure' = cause
        /\ cause = "overflow" => pc' = "done" /\ output'[Len(output')] = Event("error")
    BY <1>1, <1>3, <1>4, <2>1, Failed
  <2>3. Event("error")' = Event("error")
    BY <1>3 DEF Event
  <2>4. OverflowReachesCaller'
    BY <2>2, <2>3 DEF OverflowReachesCaller
  <2> QED BY <2>2, <2>4 DEF RetryInv
<1> QED BY <1>5, <1>6

LEMMA ReceivesNothing ==
  ASSUME WidthAssumption, RetrierAssumption, RetryInv, NoStream
  PROVE  RetryInv'
<1>1. TypeInv /\ VoiceInv /\ AttemptInv /\ OverflowReachesCaller
  BY DEF RetryInv
<1> DEFINE code == IF cancelled THEN "canceled" ELSE "provider_failure"
<1>2. /\ pc = "receive" /\ received = 0 /\ Fails("fatal", Generated(code))
      /\ attempt' = attempt /\ status' = status /\ received' = received
      /\ committed' = committed /\ cancelled' = cancelled
  BY DEF NoStream
<1>3. code \in Codes
  BY DEF Codes
<1> HIDE DEF code
<1>4. /\ Generated(code) \in Events /\ Generated(code).attempt = 0
      /\ IsTerminal(Generated(code))
  BY <1>3, GeneratedIsEvent DEF IsTerminal
<1>5. output = <<>>
  <2>1. CASE committed
    BY <1>1, <1>2, <2>1, EmptySeq DEF VoiceInv, TypeInv
  <2>2. CASE ~committed
    BY <1>1, <1>2, <2>2 DEF VoiceInv
  <2> QED BY <2>1, <2>2
<1>6. TypeInv' /\ VoiceInv' /\ AttemptInv' /\ WaitIsBounded' /\ failure' = "fatal"
  BY <1>1, <1>2, <1>4, <1>5, Failed
<1> QED BY <1>6 DEF RetryInv, OverflowReachesCaller

LEMMA ReceivesClose ==
  ASSUME WidthAssumption, RetrierAssumption, RetryInv, ReceiveClose
  PROVE  RetryInv'
<1>1. TypeInv /\ VoiceInv /\ AttemptInv /\ OverflowReachesCaller
  BY DEF RetryInv
<1>2. /\ pc = "receive" /\ attempt' = attempt /\ status' = status /\ received' = received
      /\ committed' = committed /\ cancelled' = cancelled
  BY DEF ReceiveClose
<1>3. CASE committed \/ cancelled
  <2>1. PICK code \in {"stream_interrupted", "canceled"} :
          /\ Finish(<<Generated(code)>>)
          /\ delay' = delay /\ hint' = hint /\ failure' = failure
    BY <1>3 DEF ReceiveClose, PushCanceled
  <2>2. output' \in Seq(Events) /\ buffer' = <<>> /\ pc' = "done" /\ SingleVoice'
    BY <1>1, <1>2, <2>1, FinishedGenerated DEF Codes
  <2>3. TypeInv' /\ VoiceInv' /\ AttemptInv' /\ WaitIsBounded'
    BY <1>1, <1>2, <2>1, <2>2, Ended
  <2> QED BY <1>1, <1>2, <2>1, <2>3 DEF RetryInv, OverflowReachesCaller
<1>4. CASE ~(committed \/ cancelled)
  <2>1. BackOff /\ failure' = "closed" /\ output = <<>>
    BY <1>1, <1>2, <1>4 DEF ReceiveClose, VoiceInv
  <2>2. TypeInv' /\ VoiceInv' /\ AttemptInv' /\ WaitIsBounded'
    BY <1>1, <1>2, <2>1, BacksOff
  <2> QED BY <2>1, <2>2 DEF RetryInv, OverflowReachesCaller
<1> QED BY <1>3, <1>4

LEMMA Aborts ==
  ASSUME RetryInv, CancelledProducer
  PROVE  RetryInv'
<1>1. TypeInv /\ VoiceInv /\ AttemptInv /\ OverflowReachesCaller
  BY DEF RetryInv
<1>2. /\ pc # "done" /\ Finish(<<Generated("canceled")>>) /\ "canceled" \in Codes
      /\ attempt' = attempt /\ status' = status /\ received' = received
      /\ committed' = committed /\ delay' = delay /\ hint' = hint /\ cancelled' = cancelled
      /\ failure' = failure
  BY DEF CancelledProducer, BeginCancelled, ReceiveCancelled, WakeUpCancelled, PushCanceled,
         Codes
<1>3. output' \in Seq(Events) /\ buffer' = <<>> /\ pc' = "done" /\ SingleVoice'
  BY <1>1, <1>2, FinishedGenerated
<1>4. TypeInv' /\ VoiceInv' /\ AttemptInv' /\ WaitIsBounded'
  BY <1>1, <1>2, <1>3, Ended
<1> QED BY <1>1, <1>2, <1>4 DEF RetryInv, OverflowReachesCaller

\* Waking up, a cancellation, and steps of others.
LEMMA Otherwise ==
  ASSUME RetryInv, WakeUp \/ Cancel \/ UNCHANGED retryVars
  PROVE  RetryInv'
<1>1. TypeInv /\ VoiceInv /\ AttemptInv /\ WaitIsBounded /\ OverflowReachesCaller
  BY DEF RetryInv
<1>2. /\ attempt' = attempt /\ status' = status /\ received' = received /\ buffer' = buffer
      /\ committed' = committed /\ output' = output /\ delay' = delay /\ hint' = hint
      /\ failure' = failure
      /\ pc' = pc \/ (pc = "sleep" /\ pc' = "check")
      /\ cancelled' \in BOOLEAN
  <2>1. CASE WakeUp
    BY <1>1, <2>1 DEF WakeUp, TypeInv
  <2>2. CASE Cancel
    BY <2>2 DEF Cancel
  <2>3. CASE UNCHANGED retryVars
    BY <1>1, <2>3 DEF retryVars, TypeInv
  <2> QED BY <2>1, <2>2, <2>3
<1>3. TypeInv'
  BY <1>1, <1>2 DEF TypeInv
<1>4. Voice(output)' <=> Voice(output)
  BY <1>2 DEF Voice, IsTerminal
<1>5. Voice(buffer)' <=> Voice(buffer)
  BY <1>2 DEF Voice, IsTerminal
<1>6. pc' = "done" /\ SingleVoice => SingleVoice'
  BY <1>2 DEF SingleVoice, IsTerminal
<1>7. VoiceInv'
  BY <1>1, <1>2, <1>4, <1>5, <1>6 DEF VoiceInv
<1>8. AttemptInv' /\ WaitIsBounded'
  <2>1. Exponential' = Exponential
    BY <1>2 DEF Exponential
  <2>2. AttemptInv'
    BY <1>1, <1>2 DEF AttemptInv
  <2> QED BY <1>1, <1>2, <2>1, <2>2 DEF WaitIsBounded
<1>9. OverflowReachesCaller'
  BY <1>1, <1>2 DEF OverflowReachesCaller, Event
<1> QED BY <1>3, <1>7, <1>8, <1>9 DEF RetryInv

-----------------------------------------------------------------------------
\* The invariant of produce.
THEOREM RetryInvariant ==
  ASSUME WidthAssumption, RetrierAssumption
  PROVE  RetrySpec => []RetryInv
<1>1. RetryInit => RetryInv
  BY InitRetry
<1>2. RetryInv /\ [RetryNext]_retryVars => RetryInv'
  <2> SUFFICES ASSUME RetryInv, [RetryNext]_retryVars PROVE RetryInv'
    OBVIOUS
  <2>1. ASSUME Provider PROVE RetryInv'
    BY <2>1, ReceivesEvent, ReceivesDone, ReceivesError, ReceivesClose DEF Provider
  <2>2. ASSUME Producer PROVE RetryInv'
    BY <2>2, Begins, ReceivesNothing, Otherwise DEF Producer
  <2>3. ASSUME CancelledProducer PROVE RetryInv'
    BY <2>3, Aborts
  <2>4. ASSUME Cancel \/ UNCHANGED retryVars PROVE RetryInv'
    BY <2>4, Otherwise
  <2> QED BY <2>1, <2>2, <2>3, <2>4 DEF RetryNext
<1> QED BY <1>1, <1>2, PTL DEF RetrySpec

LEMMA VoiceIsSingle ==
  ASSUME RetryInv
  PROVE  SingleVoice
<1>1. TypeInv /\ VoiceInv
  BY DEF RetryInv
<1>2. CASE pc = "done"
  BY <1>1, <1>2 DEF VoiceInv
<1>3. CASE pc # "done"
  <2>1. Voice(output)
    BY <1>1, <1>3, NothingHeard DEF VoiceInv, TypeInv
  <2> QED BY <1>3, <2>1 DEF SingleVoice, Voice
<1> QED BY <1>2, <1>3

\* Of the retries the caller hears nothing: one attempt, without gaps, and one terminal
\* event, after waits that are the exponential backoff or what the provider asked for,
\* though a doubled delay may be no Duration; an overflow of the context is the caller's at
\* once (Retrier.produce, nominalDelay, Classify).
THEOREM RetryIsInvisibleAlways ==
  ASSUME WidthAssumption, RetrierAssumption
  PROVE  RetrySpec => []RetryIsInvisible
<1>1. RetryInv => RetryIsInvisible
  BY VoiceIsSingle DEF RetryInv, RetryIsInvisible
<1> QED BY <1>1, RetryInvariant, PTL

\* At most MaxAttempts attempts (retryClassified).
THEOREM AttemptsAreBounded ==
  ASSUME WidthAssumption, RetrierAssumption
  PROVE  RetrySpec => [](attempt <= MaxAttempts)
<1>1. RetryInv => attempt <= MaxAttempts
  BY DEF RetryInv, AttemptInv
<1> QED BY <1>1, RetryInvariant, PTL
=============================================================================
