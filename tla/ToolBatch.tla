----------------------------- MODULE ToolBatch -----------------------------
(***************************************************************************)
(* executeToolCalls of internal/agent/executor.go: the execution of the    *)
(* tool calls of one assistant message, one after the other or in          *)
(* parallel, and the event sink they all report to (processEvents of       *)
(* runtime.go).                                                            *)
(*                                                                         *)
(* A call goes through the stages below.  "gate" is prepareToolCall with   *)
(* the BeforeToolCall hook running, "prepared" is before the first loop of *)
(* a parallel batch asks the context again, "running" is Execute,          *)
(* "draining" is wg.Wait on the updates of the call.  <<c, 0>> is the      *)
(* goroutine that emits the start and the end of call c, <<c, k>> the k-th *)
(* goroutine in which the tool calls onUpdate.  An emission is two steps,  *)
(* the sink is entered and left: between them a listener is running.       *)
(*                                                                         *)
(* A definition introduced by "Defect:" is not part of the model.  It is   *)
(* the definition that follows it with a plausible bug.                    *)
(***************************************************************************)
EXTENDS Naturals, Sequences, FiniteSets

CONSTANTS
  Calls,         \* number of tool calls of the message
  Modes,         \* execution modes the configuration and the tools lead to
  Updates,       \* bound: onUpdate calls of one tool
  MaxFailures    \* bound: listener errors

ExecutionModes == {"sequential", "parallel"}

ToolBatchAssumption ==
  /\ Calls \in Nat \ {0} /\ Updates \in Nat /\ MaxFailures \in Nat
  /\ Modes # {} /\ Modes \subseteq ExecutionModes

Call == 1..Calls
Emitters == Call \X (0..Updates)
EventTypes == {"start", "update", "end"}
Stages == {"new", "starting", "gate", "prepared", "ready", "running", "draining", "finalized",
           "ending", "ended"}

VARIABLES
  mode,              \* sequential or parallel
  at,                \* the batch: prepare, execute, message or returned
  index,             \* the loop variable i of the current loop
  reached,           \* calls prepared, or in sequential mode begun
  stage,             \* of each call
  update,            \* of each <<call, k>>: no, accepted, emitting, done
  terminate,         \* the Terminate flag of each finalized result
  sink,              \* emitters with a listener running
  firstErr,          \* an end emission of a goroutine failed
  messages,          \* calls whose result message is committed
  PendingToolCalls,  \* the Agent's in-flight set
  batchCancelled,    \* ctx.Err() # nil
  returned,          \* what the loop gets: nothing, ok or error
  log,               \* history: events in the order they reached the sink
  tardy,             \* history: calls started under a cancelled context
  rejected,          \* history: types of the events a listener rejected
  failures           \* bound counter

batchVars == <<mode, at, index, reached, firstErr, messages, returned>>
callVars == <<stage, update, terminate>>
sinkVars == <<sink, PendingToolCalls, log>>
otherVars == <<batchCancelled, tardy, rejected, failures>>
toolVars == <<batchVars, callVars, sinkVars, otherVars>>

BatchInit ==
  /\ mode \in Modes
  /\ at = "prepare" /\ index = 1 /\ reached = 0 /\ firstErr = FALSE
  /\ messages = <<>> /\ returned = "no"
  /\ stage = [c \in Call |-> "new"]
  /\ update = [u \in Call \X (1..Updates) |-> "no"]
  /\ terminate = [c \in Call |-> FALSE]
  /\ sink = {} /\ PendingToolCalls = {} /\ log = <<>>
  /\ batchCancelled = FALSE /\ tardy = {} /\ rejected = {} /\ failures = 0

(***************************************************************************)
(* The sink.  In parallel mode safeEmit holds emitMu around it.            *)
(***************************************************************************)
Enter(e, type) ==
  /\ mode = "parallel" => sink = {}
  /\ sink' = sink \cup {e}
  /\ log' = Append(log, <<type, e[1]>>)
  /\ PendingToolCalls' = CASE type = "start" -> PendingToolCalls \cup {e[1]}
                           [] type = "end" -> PendingToolCalls \ {e[1]}
                           [] OTHER -> PendingToolCalls

Reject(type) ==
  /\ failures < MaxFailures
  /\ failures' = failures + 1
  /\ rejected' = rejected \cup {type}

\* Defect: emitMu stays locked after an error.
LeaveLocked(e, type, ok) ==
  /\ sink' = IF ok THEN sink \ {e} ELSE sink
  /\ IF ok THEN UNCHANGED <<rejected, failures>> ELSE Reject(type)
  /\ UNCHANGED <<PendingToolCalls, log>>

Leave(e, type, ok) ==
  /\ sink' = sink \ {e}
  /\ IF ok THEN UNCHANGED <<rejected, failures>> ELSE Reject(type)
  /\ UNCHANGED <<PendingToolCalls, log>>

Return(outcome) ==
  /\ at' = "returned"
  /\ returned' = outcome
  /\ UNCHANGED <<mode, index, reached, firstErr, messages>>

(***************************************************************************)
(* Preparing: the first loop of executeToolCallsParallel, or the head of   *)
(* the only loop of executeToolCallsSequential.                            *)
(***************************************************************************)
StartCall(c) ==
  /\ at = "prepare" /\ index = c
  /\ stage[c] = "new"
  /\ stage' = [stage EXCEPT ![c] = "starting"]
  /\ Enter(<<c, 0>>, "start")
  /\ tardy' = IF batchCancelled THEN tardy \cup {c} ELSE tardy
  /\ UNCHANGED <<batchVars, update, terminate, batchCancelled, rejected, failures>>

CallStarted(c) ==
  /\ stage[c] = "starting"
  /\ <<c, 0>> \in sink
  /\ \E ok \in BOOLEAN :
       /\ Leave(<<c, 0>>, "start", ok)
       /\ IF ok THEN stage' = [stage EXCEPT ![c] = "gate"] /\ UNCHANGED batchVars
          ELSE Return("error") /\ UNCHANGED stage
  /\ UNCHANGED <<update, terminate, batchCancelled, tardy>>

\* The last prepared call, or a cancelled context, ends the preparation.
GoOn(c) ==
  /\ reached' = c
  /\ IF c = Calls \/ batchCancelled
     THEN at' = "execute" /\ index' = 1
     ELSE at' = "prepare" /\ index' = c + 1

\* prepareToolCall returns an immediate outcome (unknown tool, invalid
\* arguments, blocked, a hook that panics, aborted) or a prepared call.
prepareToolCall(c) ==
  /\ stage[c] = "gate"
  /\ \/ stage' = [stage EXCEPT ![c] = "finalized"]
     \/ /\ ~batchCancelled
        /\ stage' = [stage EXCEPT ![c] = IF mode = "parallel" THEN "prepared" ELSE "running"]
  /\ UNCHANGED <<batchVars, update, terminate, sinkVars, otherVars>>

\* The call is kept for its goroutine, and the first loop asks the context once more.
KeepCall(c) ==
  /\ stage[c] = "prepared"
  /\ stage' = [stage EXCEPT ![c] = "ready"]
  /\ GoOn(c) /\ UNCHANGED <<mode, firstErr, messages, returned>>
  /\ UNCHANGED <<update, terminate, sinkVars, otherVars>>

\* The second loop of executeToolCallsParallel: a goroutine per prepared call.
SpawnReady ==
  /\ mode = "parallel" /\ at = "execute"
  /\ \E c \in Call : stage[c] = "ready"
  /\ stage' = [c \in Call |-> IF stage[c] = "ready" THEN "running" ELSE stage[c]]
  /\ UNCHANGED <<batchVars, update, terminate, sinkVars, otherVars>>

(***************************************************************************)
(* executePreparedToolCall: Execute and its updates.                       *)
(***************************************************************************)
\* onUpdate counts itself in wg while acceptingUpdates is set.  Later calls
\* of onUpdate do nothing.
AcceptUpdate(c, k) ==
  /\ stage[c] = "running"
  /\ update[<<c, k>>] = "no"
  /\ update' = [update EXCEPT ![<<c, k>>] = "accepted"]
  /\ UNCHANGED <<batchVars, stage, terminate, sinkVars, otherVars>>

EmitUpdate(c, k) ==
  /\ update[<<c, k>>] = "accepted"
  /\ update' = [update EXCEPT ![<<c, k>>] = "emitting"]
  /\ Enter(<<c, k>>, "update")
  /\ UNCHANGED <<batchVars, stage, terminate, otherVars>>

\* A listener error makes the tool's result an error, unless AfterToolCall
\* says otherwise.
UpdateEmitted(c, k) ==
  /\ update[<<c, k>>] = "emitting"
  /\ update' = [update EXCEPT ![<<c, k>>] = "done"]
  /\ \E ok \in BOOLEAN : Leave(<<c, k>>, "update", ok)
  /\ UNCHANGED <<batchVars, stage, terminate, batchCancelled, tardy>>

\* Execute returned or panicked: no update is accepted any more.
ExecuteReturns(c) ==
  /\ stage[c] = "running"
  /\ stage' = [stage EXCEPT ![c] = "draining"]
  /\ UNCHANGED <<batchVars, update, terminate, sinkVars, otherVars>>

\* wg.Wait, then finalizeExecutedToolCall: the hook may set Terminate.
Drain(c) ==
  /\ stage[c] = "draining"
  /\ \A k \in 1..Updates : update[<<c, k>>] \in {"no", "done"}
  /\ stage' = [stage EXCEPT ![c] = "finalized"]
  /\ \E t \in BOOLEAN : terminate' = [terminate EXCEPT ![c] = t]
  /\ UNCHANGED <<batchVars, update, sinkVars, otherVars>>

EmitEnd(c) ==
  /\ stage[c] = "finalized"
  /\ stage' = [stage EXCEPT ![c] = "ending"]
  /\ Enter(<<c, 0>>, "end")
  /\ UNCHANGED <<batchVars, update, terminate, otherVars>>

\* After the end event of an immediate outcome the first loop goes on; that of
\* a goroutine only records an error; sequentially the result message follows.
EndEmitted(c) ==
  /\ stage[c] = "ending"
  /\ stage' = [stage EXCEPT ![c] = "ended"]
  /\ \E ok \in BOOLEAN :
       /\ Leave(<<c, 0>>, "end", ok)
       /\ IF ~ok /\ (mode = "sequential" \/ at = "prepare") THEN Return("error")
          ELSE IF mode = "sequential"
               THEN /\ at' = "message" /\ reached' = c
                    /\ UNCHANGED <<mode, index, firstErr, messages, returned>>
          ELSE IF at = "prepare"
               THEN GoOn(c) /\ UNCHANGED <<mode, firstErr, messages, returned>>
          ELSE /\ firstErr' = (firstErr \/ ~ok)
               /\ UNCHANGED <<mode, at, index, reached, messages, returned>>
  /\ UNCHANGED <<update, terminate, batchCancelled, tardy>>

\* Defect: the goroutines are not waited for once one has failed.
WaitImpatient ==
  /\ mode = "parallel" /\ at = "execute"
  /\ firstErr \/ \A c \in 1..reached : stage[c] = "ended"
  /\ IF firstErr THEN Return("error")
     ELSE /\ at' = "message" /\ index' = 1
          /\ UNCHANGED <<mode, reached, firstErr, messages, returned>>
  /\ UNCHANGED <<callVars, sinkVars, otherVars>>

\* wg.Wait of the batch.
Wait ==
  /\ mode = "parallel" /\ at = "execute"
  /\ \A c \in 1..reached : stage[c] = "ended"
  /\ IF firstErr THEN Return("error")
     ELSE /\ at' = "message" /\ index' = 1
          /\ UNCHANGED <<mode, reached, firstErr, messages, returned>>
  /\ UNCHANGED <<callVars, sinkVars, otherVars>>

(***************************************************************************)
(* Result messages.  No other emission can run now, so message_start and   *)
(* message_end are one step; the message is committed before the listeners *)
(* of message_end run.                                                     *)
(***************************************************************************)
CommitMessage ==
  /\ at = "message"
  /\ messages' = Append(messages, index)
  /\ IF index < (IF mode = "parallel" \/ batchCancelled THEN reached ELSE Calls)
     THEN /\ index' = index + 1
          /\ at' = IF mode = "sequential" THEN "prepare" ELSE "message"
          /\ UNCHANGED returned
     ELSE at' = "returned" /\ returned' = "ok" /\ UNCHANGED index
  /\ UNCHANGED <<mode, reached, firstErr, callVars, sinkVars, otherVars>>

MessageFails ==
  /\ at = "message"
  /\ Reject("message")
  /\ messages' \in {messages, Append(messages, index)}
  /\ at' = "returned" /\ returned' = "error"
  /\ UNCHANGED <<mode, index, reached, firstErr, callVars, sinkVars, batchCancelled, tardy>>

CancelBatch ==
  /\ at # "returned" /\ ~batchCancelled
  /\ batchCancelled' = TRUE
  /\ UNCHANGED <<batchVars, callVars, sinkVars, tardy, rejected, failures>>

\* shouldTerminateToolBatch of what the batch returns.
shouldTerminateToolBatch ==
  returned = "ok" /\ messages # <<>> /\ \A n \in DOMAIN messages : terminate[messages[n]]

CallStep(c) ==
  \/ StartCall(c) \/ CallStarted(c) \/ prepareToolCall(c) \/ KeepCall(c)
  \/ ExecuteReturns(c) \/ Drain(c) \/ EmitEnd(c) \/ EndEmitted(c)
UpdateStep(c, k) == EmitUpdate(c, k) \/ UpdateEmitted(c, k)
BatchStep == SpawnReady \/ Wait \/ CommitMessage \/ MessageFails

BatchNext ==
  \/ \E c \in Call : CallStep(c) \/ \E k \in 1..Updates : AcceptUpdate(c, k) \/ UpdateStep(c, k)
  \/ BatchStep
  \/ CancelBatch

BatchSpec == BatchInit /\ [][BatchNext]_toolVars

\* Hooks, tools and listeners return; goroutines that can run do.
Fairness ==
  /\ \A c \in Call :
       /\ WF_toolVars(CallStep(c))
       /\ \A k \in 1..Updates : WF_toolVars(EmitUpdate(c, k)) /\ WF_toolVars(UpdateEmitted(c, k))
  /\ WF_toolVars(BatchStep)

FairBatchSpec == BatchSpec /\ Fairness
-----------------------------------------------------------------------------
Started == {c \in Call : \E n \in DOMAIN log : log[n] = <<"start", c>>}
Answered == {messages[n] : n \in DOMAIN messages}

\* BeforeToolCall runs alone: not concurrently with itself, not while a tool runs
\* (the two phases of executeToolCallsParallel).  In parallel mode listeners see one
\* event at a time, updates of running tools included (safeEmit).
SerialCallbacks ==
  /\ \A c \in Call : stage[c] = "gate" =>
       \A d \in Call \ {c} : stage[d] \notin {"gate", "running", "draining"}
  /\ mode = "parallel" => Cardinality(sink) <= 1

\* The acceptingUpdates flag and the WaitGroup of executePreparedToolCall: an
\* update reaches the listeners between the start and the end of its call, and
\* none is under way or still to come when the end is emitted; callbacks are serial.
UpdatesInTime ==
  /\ SerialCallbacks
  /\ \A n \in DOMAIN log : log[n][1] = "update" =>
       /\ \E m \in 1..(n - 1) : log[m] = <<"start", log[n][2]>>
       /\ \A m \in 1..(n - 1) : log[m] # <<"end", log[n][2]>>
  /\ \A c \in Call : \A k \in 1..Updates :
       stage[c] \in {"finalized", "ending", "ended"} => update[<<c, k>>] \in {"no", "done"}

\* Result messages are committed in source order, whatever the order in which the
\* tools finish, and each after the end of its call.  A batch that succeeds has
\* answered every call it announced, at least one, and all of them unless its
\* context was cancelled (executeToolCallsParallel, executeToolCallsSequential).
AnsweredInOrder ==
  /\ \A n \in DOMAIN messages :
       messages[n] = n /\ \E m \in DOMAIN log : log[m] = <<"end", n>>
  /\ returned = "ok" =>
       /\ Started = Answered /\ Answered # {}
       /\ ~batchCancelled => Answered = Call
       /\ PendingToolCalls = {}

\* After a cancellation at most one more call is announced, and no call announced
\* after it is executed.
CancelStopsNewTools ==
  /\ Cardinality(tardy) <= 1
  /\ \A c \in tardy : stage[c] \notin {"ready", "running", "draining"}

\* When executeToolCalls returns, nothing that it started is running: no tool, no
\* listener, no accepted update.  It returns an error exactly when a listener
\* rejected something else than an update, whichever goroutine was told.  Its answers
\* are in order and its cancellation held until then.
BatchOutcome ==
  /\ AnsweredInOrder /\ CancelStopsNewTools
  /\ returned # "no" =>
       /\ sink = {}
       /\ \A c \in Call : stage[c] \notin {"running", "draining"}
       /\ \A u \in DOMAIN update : update[u] \notin {"accepted", "emitting"}
       /\ returned = "error" <=> rejected \ {"update"} # {}

\* What the executor promises of a batch, while it runs and when it returns
\* (executeToolCalls).
BatchIsSound == UpdatesInTime /\ BatchOutcome

\* The batch returns, whatever fails or is cancelled meanwhile.
BatchReturns == <>(returned # "no")
=============================================================================
