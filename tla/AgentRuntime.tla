---------------------------- MODULE AgentRuntime ----------------------------
(***************************************************************************)
(* The agent of internal/agent: runtime.go (the Agent, its mutex, its      *)
(* queues, its single-run guard and its event sink) driving loop.go (the   *)
(* turn loop).  Every access to the Agent that runtime.go makes under      *)
(* Agent.mu is one step; between two of them any other goroutine may run.  *)
(*                                                                         *)
(* A caller is a goroutine.  pc says where it is: outside the Agent        *)
(* ("idle"), between the two critical sections of Continue ("gap"), of     *)
(* Abort ("abort") or of WaitForIdle ("wait"), or inside the run it        *)
(* started, at the step of the loop pc names.  Its loop's local variables  *)
(* are kept per caller, so that nothing but the code's own guard keeps two *)
(* loops apart.                                                            *)
(*                                                                         *)
(* Messages are abstract: the user messages are the values of Prompts,     *)
(* Steers and FollowUps, each sent at most once; an assistant message is   *)
(* its stop reason; every tool result is "toolResult".  Tool execution is  *)
(* seen here only through the result messages it commits.                  *)
(*                                                                         *)
(* A definition introduced by "Defect:" is not part of the model.  It is   *)
(* the definition that follows it with a plausible bug, and PROJECT.json   *)
(* names the property that the bug violates.                               *)
(***************************************************************************)
EXTENDS Naturals, Sequences, FiniteSets

CONSTANTS
  Callers,          \* goroutines calling Prompt, Continue, Abort, WaitForIdle
  Prompts,          \* user messages given to Prompt
  Steers,           \* user messages given to Steer
  FollowUps,        \* user messages given to FollowUp
  InitialMessages,  \* transcript the Agent is created with (a resumed session)
  Modes,            \* queue modes the configuration uses
  MaxRuns,          \* bound: runs started
  MaxTurns,         \* bound: a run's provider calls that may ask for tools
  MaxCalls,         \* bound: tool results of one turn
  MaxFailures,      \* bound: listener errors and recovered panics
  MaxResets,        \* bound: Reset and Clear*Queue calls
  MaxCompactions    \* bound: between-turn compactions

None == "none"
UserMessages == Prompts \cup Steers \cup FollowUps
Truncated == {"error", "aborted"}
StopReasons == {"stop", "toolUse"} \cup Truncated
Transcribed == UserMessages \cup StopReasons \cup {"user", "toolResult", "summary"}
QueueModes == {"all", "one-at-a-time"}

ASSUME AgentAssumption ==
  /\ MaxRuns \in Nat /\ MaxTurns \in Nat /\ MaxFailures \in Nat
  /\ MaxResets \in Nat /\ MaxCompactions \in Nat
  /\ MaxCalls \in Nat \ {0}
  /\ Modes # {} /\ Modes \subseteq QueueModes
  /\ InitialMessages \in Seq({"user", "toolResult"} \cup StopReasons)

VARIABLES
  \* Agent fields, guarded by Agent.mu
  activeRun, Messages, IsStreaming, StreamingMessage, ErrorMessage, eventErr,
  steeringQueue, followUpQueue, steeringMode, followUpMode,
  \* runs: done channels closed, contexts cancelled
  runs, done, cancelled,
  \* goroutines: position, the activeRun each holds a pointer to, loop locals
  pc, held, todo, phase, ctx, last, more, skip, turns, ret,
  \* history, read by the properties only
  sent, delivered, cleared, lost, requested, touched, late,
  \* bound counters
  failures, resets, compactions

queueVars == <<steeringQueue, followUpQueue, steeringMode, followUpMode>>
viewVars  == <<Messages, IsStreaming, StreamingMessage, ErrorMessage>>
runVars   == <<activeRun, runs, done, cancelled, requested, held>>
localVars == <<todo, phase, ctx, last, more, skip, turns, ret>>
histVars  == <<sent, delivered, cleared, lost, touched, late>>
boundVars == <<failures, resets, compactions>>
vars == <<queueVars, viewVars, runVars, localVars, histVars, boundVars, eventErr, pc>>

RunSteps == {"begin", "agentStart", "turnStart", "msgStart", "msgEnd", "poll0",
             "call", "response", "partial", "final", "tools", "turnEnd", "prepare", "poll",
             "followUp", "agentEnd", "take", "fail", "failEnd", "failTurn",
             "failAgentEnd", "finish"}
Locations == RunSteps \cup {"idle", "gap", "abort", "wait", "release"}

InRun(c) == pc[c] \in RunSteps
Elements(s) == {s[i] : i \in DOMAIN s}
LastOf(s) == s[Len(s)]
IsAssistant(m) == m \in StopReasons

\* Drain: QueueAll hands out everything, one-at-a-time the head.
Drained(q, mode) == IF mode = "all" \/ q = <<>> THEN q ELSE <<Head(q)>>
Kept(q, mode) == IF mode = "all" \/ q = <<>> THEN <<>> ELSE Tail(q)

Goto(c, next) == pc' = [pc EXCEPT ![c] = next]

Init ==
  /\ activeRun = 0 /\ Messages = InitialMessages
  /\ IsStreaming = FALSE /\ StreamingMessage = None
  /\ ErrorMessage = FALSE /\ eventErr = 0
  /\ steeringQueue = <<>> /\ followUpQueue = <<>>
  /\ steeringMode \in Modes /\ followUpMode \in Modes
  /\ runs = 0 /\ done = {} /\ cancelled = {} /\ requested = {}
  /\ pc = [c \in Callers |-> "idle"]
  /\ held = [c \in Callers |-> 0]
  /\ todo = [c \in Callers |-> <<>>]
  /\ phase = [c \in Callers |-> "prompts"]
  /\ ctx = [c \in Callers |-> <<>>]
  /\ last = [c \in Callers |-> None]
  /\ more = [c \in Callers |-> FALSE]
  /\ skip = [c \in Callers |-> FALSE]
  /\ turns = [c \in Callers |-> 0]
  /\ ret = [c \in Callers |-> "nil"]
  /\ sent = <<>> /\ delivered = <<>>
  /\ cleared = {} /\ lost = {} /\ touched = {}
  /\ late = [c \in Callers |-> 0]
  /\ failures = 0 /\ resets = 0 /\ compactions = 0

(***************************************************************************)
(* The event sink.  processEvents mutates the state (the action does that) *)
(* and then calls the listeners outside the mutex.  A listener that        *)
(* returns an error records it (setEventErr) and a listener that panics    *)
(* does not; both end the loop and hand over to handleRunFailure.  An      *)
(* error is the run it happened in.                                        *)
(***************************************************************************)
\* setEventErr keeps the first error.
Recorded == IF eventErr = 0 THEN activeRun ELSE eventErr

LoopFails(c) ==
  /\ failures < MaxFailures
  /\ failures' = failures + 1
  /\ Goto(c, "fail")

Deliver(c, next) ==
  \/ /\ activeRun # 0
     /\ Goto(c, next)
     /\ UNCHANGED <<eventErr, failures>>
  \/ /\ activeRun # 0
     /\ LoopFails(c)
     /\ eventErr' \in {eventErr, Recorded}
  \/ /\ activeRun = 0       \* "Agent listener invoked outside active run"
     /\ Goto(c, "fail")
     /\ UNCHANGED <<eventErr, failures>>

(***************************************************************************)
(* Starting a run.  startRunLocked runs inside the critical section that   *)
(* found the slot free.                                                    *)
(***************************************************************************)
StartRun(c, messages, skipPoll) ==
  /\ runs < MaxRuns
  /\ runs' = runs + 1
  /\ activeRun' = runs + 1
  /\ held' = [held EXCEPT ![c] = runs + 1]
  /\ IsStreaming' = TRUE
  /\ StreamingMessage' = None
  /\ ErrorMessage' = FALSE
  /\ eventErr' = 0
  /\ todo' = [todo EXCEPT ![c] = messages]
  /\ skip' = [skip EXCEPT ![c] = skipPoll]
  /\ Goto(c, "begin")
  /\ UNCHANGED <<Messages, done, cancelled, requested, phase, ctx, last, more,
                 turns, ret, delivered, cleared, lost, touched, late, boundVars,
                 steeringMode, followUpMode>>

\* A busy error or "cannot continue" changes nothing; only the accepted calls
\* are steps.
Prompt(c) ==
  /\ pc[c] = "idle"
  /\ activeRun = 0
  /\ \E m \in Prompts \ Elements(sent) :
       /\ sent' = Append(sent, m)
       /\ StartRun(c, <<m>>, FALSE)
  /\ UNCHANGED <<steeringQueue, followUpQueue>>

\* Continue after an assistant message: drain a queue and start, in one
\* critical section.
ContinueQueued(c) ==
  /\ pc[c] = "idle"
  /\ activeRun = 0
  /\ Messages # <<>> /\ IsAssistant(LastOf(Messages))
  /\ \/ /\ steeringQueue # <<>>
        /\ steeringQueue' = Kept(steeringQueue, steeringMode)
        /\ StartRun(c, Drained(steeringQueue, steeringMode), TRUE)
        /\ UNCHANGED followUpQueue
     \/ /\ steeringQueue = <<>> /\ followUpQueue # <<>>
        /\ followUpQueue' = Kept(followUpQueue, followUpMode)
        /\ StartRun(c, Drained(followUpQueue, followUpMode), FALSE)
        /\ UNCHANGED steeringQueue
  /\ UNCHANGED sent

\* Defect: the slot is not checked again after the gap.
RunContinuationUnchecked(c) ==
  pc[c] = "gap" /\ StartRun(c, <<>>, FALSE) /\ UNCHANGED <<sent, steeringQueue, followUpQueue>>

\* Continue otherwise: the mutex is released here and taken again by
\* runWithLifecycle, which checks the slot once more.
ContinueCheck(c) ==
  /\ pc[c] = "idle"
  /\ activeRun = 0
  /\ Messages # <<>> /\ ~IsAssistant(LastOf(Messages))
  /\ Goto(c, "gap")
  /\ UNCHANGED <<queueVars, viewVars, runVars, localVars, histVars, boundVars, eventErr>>

RunContinuation(c) ==
  /\ pc[c] = "gap"
  /\ IF activeRun = 0
     THEN /\ StartRun(c, <<>>, FALSE)
          /\ UNCHANGED <<sent, steeringQueue, followUpQueue>>
     ELSE /\ Goto(c, "idle")
          /\ UNCHANGED <<queueVars, viewVars, runVars, localVars, histVars, boundVars, eventErr>>

\* Defect: only the empty transcript is refused.
CannotContinueFromNothing(messages) == messages = <<>>

CannotContinueFrom(messages) == messages = <<>> \/ IsAssistant(LastOf(messages))

\* The executor's first steps: createContextSnapshot, then runAgentLoop with
\* the prompts appended, or runAgentLoopContinue with its own precondition.
Begin(c) ==
  /\ pc[c] = "begin"
  /\ IF todo[c] = <<>> /\ CannotContinueFrom(Messages)
     THEN /\ Goto(c, "fail")
          /\ UNCHANGED ctx
     ELSE /\ Goto(c, "agentStart")
          /\ ctx' = [ctx EXCEPT ![c] = Messages \o todo[c]]
  /\ phase' = [phase EXCEPT ![c] = "prompts"]
  /\ UNCHANGED <<queueVars, viewVars, runVars, todo, last, more, skip, turns, ret,
                 histVars, boundVars, eventErr>>

\* agent_start and the first turn_start change no field of the Agent.
StartEvents(c) ==
  /\ pc[c] = "agentStart"
  /\ Deliver(c, IF todo[c] = <<>> THEN "poll0" ELSE "msgStart")
  /\ UNCHANGED <<queueVars, viewVars, runVars, localVars, histVars, resets, compactions>>

(***************************************************************************)
(* message_start / message_end of the messages in todo: the prompts, the   *)
(* pending (steering or follow-up) messages, or the tool results.  Prompts *)
(* are in the loop's context from the start; the loop appends the others   *)
(* to it itself, beside what message_end commits to the transcript.        *)
(***************************************************************************)
MessageStart(c) ==
  /\ pc[c] = "msgStart"
  /\ StreamingMessage' = Head(todo[c])
  /\ Deliver(c, "msgEnd")
  /\ UNCHANGED <<queueVars, Messages, IsStreaming, ErrorMessage, runVars, localVars,
                 histVars, resets, compactions>>

AfterMessages(p) ==
  IF p = "prompts" THEN "poll0" ELSE IF p = "pending" THEN "call" ELSE "turnEnd"

MessageEnd(c) ==
  /\ pc[c] = "msgEnd"
  /\ LET m == Head(todo[c]) IN
     /\ StreamingMessage' = None
     /\ Messages' = Append(Messages, m)
     /\ delivered' = IF m \in UserMessages THEN Append(delivered, m) ELSE delivered
     /\ Deliver(c, IF Len(todo[c]) > 1 THEN "msgStart" ELSE AfterMessages(phase[c]))
     /\ IF pc'[c] = "fail"
        THEN UNCHANGED <<todo, ctx>>
        ELSE /\ todo' = [todo EXCEPT ![c] = Tail(@)]
             /\ ctx' = IF phase[c] = "prompts" THEN ctx
                       ELSE [ctx EXCEPT ![c] = Append(@, m)]
  /\ UNCHANGED <<queueVars, IsStreaming, ErrorMessage, runVars, phase, last, more, skip,
                 turns, ret, sent, cleared, lost, touched, late, resets, compactions>>

(***************************************************************************)
(* Queue polls (GetSteeringMessages, GetFollowUpMessages).                 *)
(***************************************************************************)
InitialPoll(c) ==
  /\ pc[c] = "poll0"
  /\ IF skip[c]
     THEN /\ skip' = [skip EXCEPT ![c] = FALSE]
          /\ Goto(c, "call")
          /\ UNCHANGED <<steeringQueue, todo>>
     ELSE /\ steeringQueue' = Kept(steeringQueue, steeringMode)
          /\ todo' = [todo EXCEPT ![c] = Drained(steeringQueue, steeringMode)]
          /\ Goto(c, IF steeringQueue = <<>> THEN "call" ELSE "msgStart")
          /\ UNCHANGED skip
  /\ phase' = [phase EXCEPT ![c] = "pending"]
  /\ UNCHANGED <<followUpQueue, steeringMode, followUpMode, viewVars, runVars, ctx, last,
                 more, turns, ret, histVars, boundVars, eventErr>>

SteeringPoll(c) ==
  /\ pc[c] = "poll"
  /\ steeringQueue' = Kept(steeringQueue, steeringMode)
  /\ todo' = [todo EXCEPT ![c] = Drained(steeringQueue, steeringMode)]
  /\ Goto(c, IF more[c] \/ steeringQueue # <<>> THEN "turnStart" ELSE "followUp")
  /\ phase' = [phase EXCEPT ![c] = "pending"]
  /\ UNCHANGED <<followUpQueue, steeringMode, followUpMode, viewVars, runVars, ctx, last,
                 more, skip, turns, ret, histVars, boundVars, eventErr>>

\* Defect: cancellation is looked at only after draining.
FollowUpPollCancelled(c) ==
  /\ pc[c] = "followUp"
  /\ followUpQueue' = Kept(followUpQueue, followUpMode)
  /\ todo' = [todo EXCEPT ![c] = Drained(followUpQueue, followUpMode)]
  /\ Goto(c, IF followUpQueue # <<>> /\ held[c] \notin cancelled THEN "turnStart" ELSE "agentEnd")
  /\ UNCHANGED <<steeringQueue, steeringMode, followUpMode, viewVars, runVars, phase, ctx,
                 last, more, skip, turns, ret, histVars, boundVars, eventErr>>

FollowUpPoll(c) ==
  /\ pc[c] = "followUp"
  /\ followUpQueue' = Kept(followUpQueue, followUpMode)
  /\ todo' = [todo EXCEPT ![c] = Drained(followUpQueue, followUpMode)]
  /\ Goto(c, IF followUpQueue # <<>> THEN "turnStart" ELSE "agentEnd")
  /\ UNCHANGED <<steeringQueue, steeringMode, followUpMode, viewVars, runVars, phase, ctx,
                 last, more, skip, turns, ret, histVars, boundVars, eventErr>>

TurnStart(c) ==
  /\ pc[c] = "turnStart"
  /\ Deliver(c, IF todo[c] = <<>> THEN "call" ELSE "msgStart")
  /\ UNCHANGED <<queueVars, viewVars, runVars, localVars, histVars, resets, compactions>>

(***************************************************************************)
(* streamAssistantResponse.  A provider called with a cancelled context    *)
(* only answers with a truncated message; one cancelled while it streams   *)
(* may still complete.  MaxTurns bounds the answers that ask for tools.    *)
(***************************************************************************)
IsCancelled(c) == held[c] \in cancelled

Answers(c) ==
  {m \in StopReasons :
     /\ m = "toolUse" => turns[c] <= MaxTurns
     /\ m = "aborted" => IsCancelled(c)
     /\ late[c] > 0 => m \in Truncated}

\* The request is made with ctx as it is here; the stream opens later.
Call(c) ==
  /\ pc[c] = "call"
  /\ turns' = [turns EXCEPT ![c] = IF @ > MaxTurns THEN @ ELSE @ + 1]
  /\ late' = IF IsCancelled(c) THEN [late EXCEPT ![c] = @ + 1] ELSE late
  /\ \/ Goto(c, "response") /\ UNCHANGED failures
     \/ LoopFails(c)                                 \* a hook panics
  /\ UNCHANGED <<queueVars, viewVars, runVars, todo, phase, ctx, last, more, skip, ret,
                 sent, delivered, cleared, lost, touched, resets, compactions, eventErr>>

\* EvStart: the partial enters the context and message_start is emitted.
StreamStart(c) ==
  /\ pc[c] = "response"
  /\ ctx' = [ctx EXCEPT ![c] = Append(@, "partial")]
  /\ StreamingMessage' = "partial"
  /\ Deliver(c, "partial")
  /\ UNCHANGED <<queueVars, Messages, IsStreaming, ErrorMessage, runVars, todo, phase, last,
                 more, skip, turns, ret, histVars, resets, compactions>>

\* Deltas: the partial is overwritten and message_update emitted.
StreamUpdate(c) ==
  /\ pc[c] = "partial"
  /\ StreamingMessage' = "partial"
  /\ Deliver(c, "partial")
  /\ UNCHANGED <<queueVars, Messages, IsStreaming, ErrorMessage, runVars, localVars,
                 histVars, resets, compactions>>

\* The terminal message replaces the partial.
StreamEnd(c) ==
  /\ pc[c] = "partial"
  /\ \E m \in Answers(c) :
       /\ last' = [last EXCEPT ![c] = m]
       /\ ctx' = [ctx EXCEPT ![c][Len(ctx[c])] = m]
  /\ Goto(c, "final")
  /\ UNCHANGED <<queueVars, viewVars, runVars, todo, phase, more, skip, turns, ret,
                 histVars, boundVars, eventErr>>

\* A terminal event, or the end of the stream, without EvStart before it.
StreamEndUnstarted(c) ==
  /\ pc[c] = "response"
  /\ \E m \in Answers(c) :
       /\ last' = [last EXCEPT ![c] = m]
       /\ ctx' = [ctx EXCEPT ![c] = Append(@, m)]
       /\ StreamingMessage' = m
  /\ Deliver(c, "final")
  /\ UNCHANGED <<queueVars, Messages, IsStreaming, ErrorMessage, runVars, todo, phase, more,
                 skip, turns, ret, histVars, resets, compactions>>

\* message_end of the assistant message, and the branch on its stop reason.
AssistantEnd(c) ==
  /\ pc[c] = "final"
  /\ StreamingMessage' = None
  /\ Messages' = Append(Messages, last[c])
  /\ more' = [more EXCEPT ![c] = FALSE]
  /\ Deliver(c, IF last[c] = "toolUse" THEN "tools" ELSE "turnEnd")
  /\ UNCHANGED <<queueVars, IsStreaming, ErrorMessage, runVars, todo, phase, ctx, last,
                 skip, turns, ret, histVars, resets, compactions>>

(***************************************************************************)
(* executeToolCalls, seen from the loop: some result messages are to be    *)
(* committed, unless a listener of a tool_execution event fails; one that  *)
(* fails on a tool_execution_update is only recorded (the tool's result    *)
(* becomes an error).                                                      *)
(***************************************************************************)
ExecuteTools(c) ==
  /\ pc[c] = "tools"
  /\ \/ /\ \E n \in 1..MaxCalls :
             todo' = [todo EXCEPT ![c] = [i \in 1..n |-> "toolResult"]]
        /\ \E terminate \in BOOLEAN : more' = [more EXCEPT ![c] = ~terminate]
        /\ \/ UNCHANGED <<eventErr, failures>>
           \/ failures < MaxFailures /\ failures' = failures + 1 /\ eventErr' = Recorded
        /\ Goto(c, "msgStart")
     \/ /\ LoopFails(c)
        /\ eventErr' = Recorded
        /\ UNCHANGED <<todo, more>>
  /\ phase' = [phase EXCEPT ![c] = "results"]
  /\ UNCHANGED <<queueVars, viewVars, runVars, ctx, last, skip, turns, ret, histVars,
                 resets, compactions>>

\* Defect: only a provider error ends the run.
TurnEndOnError(c) ==
  /\ pc[c] = "turnEnd"
  /\ ErrorMessage' = (ErrorMessage \/ last[c] \in Truncated)
  /\ Deliver(c, IF last[c] = "error" THEN "agentEnd" ELSE "prepare")
  /\ UNCHANGED <<queueVars, Messages, IsStreaming, StreamingMessage, runVars, localVars,
                 histVars, resets, compactions>>

TurnEnd(c) ==
  /\ pc[c] = "turnEnd"
  /\ ErrorMessage' = (ErrorMessage \/ last[c] \in Truncated)
  /\ Deliver(c, IF last[c] \in Truncated THEN "agentEnd" ELSE "prepare")
  /\ UNCHANGED <<queueVars, Messages, IsStreaming, StreamingMessage, runVars, localVars,
                 histVars, resets, compactions>>

\* PrepareNextTurn: the compaction hook of internal/session/compact.go may
\* replace a prefix of the loop's context by a summary; it commits the same
\* messages to the Agent (SetMessages).  A kept tail never starts with a
\* tool result.
Compacted(messages, first) == <<"summary">> \o SubSeq(messages, first, Len(messages))

\* Defect: the loop goes on with the compacted context, the Agent keeps the old one.
CompactUncommitted(c) ==
  \E first \in 2..Len(ctx[c]) :
    /\ ctx[c][first] # "toolResult"
    /\ ctx' = [ctx EXCEPT ![c] = Compacted(ctx[c], first)]
    /\ UNCHANGED Messages

Compact(c) ==
  \E first \in 2..Len(ctx[c]) :
    /\ ctx[c][first] # "toolResult"
    /\ ctx' = [ctx EXCEPT ![c] = Compacted(ctx[c], first)]
    /\ Messages' = Compacted(ctx[c], first)

PrepareNextTurn(c) ==
  /\ pc[c] = "prepare"
  /\ \/ Goto(c, "poll") /\ UNCHANGED <<ctx, Messages, failures, compactions>>
     \/ /\ compactions < MaxCompactions
        /\ compactions' = compactions + 1
        /\ Compact(c)
        /\ Goto(c, "poll")
        /\ UNCHANGED failures
     \/ LoopFails(c) /\ UNCHANGED <<ctx, Messages, compactions>>   \* the hook panics
  /\ UNCHANGED <<queueVars, IsStreaming, StreamingMessage, ErrorMessage, runVars, todo, phase,
                 last, more, skip, turns, ret, histVars, resets, eventErr>>

AgentEnd(c) ==
  /\ pc[c] = "agentEnd"
  /\ StreamingMessage' = None
  /\ Deliver(c, "take")
  /\ UNCHANGED <<queueVars, Messages, IsStreaming, ErrorMessage, runVars, localVars, histVars,
                 resets, compactions>>

\* Defect: the recorded error is taken and forgotten.
ForgetEventErr(c) ==
  /\ pc[c] = "take"
  /\ eventErr' = 0
  /\ Goto(c, "finish")
  /\ ret' = [ret EXCEPT ![c] = "nil"]
  /\ UNCHANGED <<queueVars, viewVars, runVars, todo, phase, ctx, last, more, skip, turns,
                 histVars, boundVars>>

\* The executor's last step: a recorded listener error fails a finished loop.
TakeEventErr(c) ==
  /\ pc[c] = "take"
  /\ eventErr' = 0
  /\ Goto(c, IF eventErr # 0 THEN "fail" ELSE "finish")
  /\ ret' = [ret EXCEPT ![c] = "nil"]
  /\ UNCHANGED <<queueVars, viewVars, runVars, todo, phase, ctx, last, more, skip, turns,
                 histVars, boundVars>>

(***************************************************************************)
(* handleRunFailure: four synthesized events.  A listener that fails on    *)
(* one of them drops the rest and its error is what the call returns.      *)
(***************************************************************************)
DeliverFailure(c, next) ==
  \/ /\ activeRun # 0
     /\ Goto(c, next)
     /\ ret' = [ret EXCEPT ![c] = "nil"]
     /\ UNCHANGED <<eventErr, failures>>
  \/ /\ activeRun # 0 => failures < MaxFailures
     /\ failures' = IF activeRun # 0 THEN failures + 1 ELSE failures
     /\ eventErr' \in {eventErr, Recorded}
     /\ Goto(c, "finish")
     /\ ret' = [ret EXCEPT ![c] = "error"]

FailMessageStart(c) ==
  /\ pc[c] = "fail"
  /\ LET reason == IF IsCancelled(c) THEN "aborted" ELSE "error" IN
     /\ last' = [last EXCEPT ![c] = reason]
     /\ StreamingMessage' = reason
  /\ DeliverFailure(c, "failEnd")
  /\ UNCHANGED <<queueVars, Messages, IsStreaming, ErrorMessage, runVars, todo, phase, ctx,
                 more, skip, turns, histVars, resets, compactions>>

FailMessageEnd(c) ==
  /\ pc[c] = "failEnd"
  /\ StreamingMessage' = None
  /\ Messages' = Append(Messages, last[c])
  /\ DeliverFailure(c, "failTurn")
  /\ UNCHANGED <<queueVars, IsStreaming, ErrorMessage, runVars, todo, phase, ctx, last, more,
                 skip, turns, histVars, resets, compactions>>

FailTurnEnd(c) ==
  /\ pc[c] = "failTurn"
  /\ ErrorMessage' = TRUE
  /\ DeliverFailure(c, "failAgentEnd")
  /\ UNCHANGED <<queueVars, Messages, IsStreaming, StreamingMessage, runVars, todo, phase, ctx,
                 last, more, skip, turns, histVars, resets, compactions>>

FailAgentEnd(c) ==
  /\ pc[c] = "failAgentEnd"
  /\ StreamingMessage' = None
  /\ DeliverFailure(c, "finish")
  /\ UNCHANGED <<queueVars, Messages, IsStreaming, ErrorMessage, runVars, todo, phase, ctx,
                 last, more, skip, turns, histVars, resets, compactions>>

(***************************************************************************)
(* finishRun: settle whatever run the Agent holds, then, outside the       *)
(* mutex, cancel its context.  The loop's slices are garbage from here on: *)
(* what it had drained and not committed is lost.                          *)
(***************************************************************************)
\* Defect: the streaming flag stays up.
SettleStreaming ==
  /\ UNCHANGED IsStreaming /\ StreamingMessage' = None
  /\ done' = IF activeRun = 0 THEN done ELSE done \cup {activeRun}
  /\ activeRun' = 0

Settle ==
  /\ IsStreaming' = FALSE /\ StreamingMessage' = None
  /\ done' = IF activeRun = 0 THEN done ELSE done \cup {activeRun}
  /\ activeRun' = 0

FinishRun(c) ==
  /\ pc[c] = "finish"
  /\ Settle
  /\ held' = [held EXCEPT ![c] = activeRun]
  /\ Goto(c, "release")
  /\ lost' = lost \cup ((Elements(todo[c]) \cap UserMessages) \ Elements(delivered))
  /\ todo' = [todo EXCEPT ![c] = <<>>]
  /\ ctx' = [ctx EXCEPT ![c] = <<>>]
  /\ last' = [last EXCEPT ![c] = None]
  /\ more' = [more EXCEPT ![c] = FALSE]
  /\ skip' = [skip EXCEPT ![c] = FALSE]
  /\ turns' = [turns EXCEPT ![c] = 0]
  /\ late' = [late EXCEPT ![c] = 0]
  /\ UNCHANGED <<queueVars, Messages, ErrorMessage, runs, cancelled, requested, phase, ret,
                 sent, delivered, cleared, touched, boundVars, eventErr>>

Release(c) ==
  /\ pc[c] = "release"
  /\ cancelled' = IF held[c] = 0 THEN cancelled ELSE cancelled \cup {held[c]}
  /\ held' = [held EXCEPT ![c] = 0]
  /\ Goto(c, "idle")
  /\ UNCHANGED <<queueVars, viewVars, activeRun, runs, done, requested, localVars, histVars,
                 boundVars, eventErr>>

(***************************************************************************)
(* Abort and WaitForIdle copy the activeRun pointer under the mutex and    *)
(* use it after releasing it.  The caller's own context may be cancelled   *)
(* at any time; the run's context is derived from it.                      *)
(***************************************************************************)
\* Defect: a missing active run is not noticed.
AbortUnchecked(c) ==
  /\ pc[c] = "idle"
  /\ held' = [held EXCEPT ![c] = activeRun]
  /\ requested' = requested \cup {activeRun}
  /\ Goto(c, "abort")
  /\ UNCHANGED <<queueVars, viewVars, activeRun, runs, done, cancelled, localVars, histVars,
                 boundVars, eventErr>>

Abort(c) ==
  /\ pc[c] = "idle"
  /\ activeRun # 0
  /\ held' = [held EXCEPT ![c] = activeRun]
  /\ requested' = requested \cup {activeRun}
  /\ Goto(c, "abort")
  /\ UNCHANGED <<queueVars, viewVars, activeRun, runs, done, cancelled, localVars, histVars,
                 boundVars, eventErr>>

\* Defect: activeRun is read again without the mutex.
AbortCancelCurrent(c) ==
  /\ pc[c] = "abort"
  /\ cancelled' = cancelled \cup ({activeRun} \ {0})
  /\ held' = [held EXCEPT ![c] = 0]
  /\ Goto(c, "idle")
  /\ UNCHANGED <<queueVars, viewVars, activeRun, runs, done, requested, localVars, histVars,
                 boundVars, eventErr>>

AbortCancel(c) ==
  /\ pc[c] = "abort"
  /\ cancelled' = cancelled \cup {held[c]}
  /\ held' = [held EXCEPT ![c] = 0]
  /\ Goto(c, "idle")
  /\ UNCHANGED <<queueVars, viewVars, activeRun, runs, done, requested, localVars, histVars,
                 boundVars, eventErr>>

ContextCancelled(c) ==
  /\ InRun(c)
  /\ held[c] \notin cancelled
  /\ requested' = requested \cup {held[c]}
  /\ cancelled' = cancelled \cup {held[c]}
  /\ UNCHANGED <<queueVars, viewVars, activeRun, runs, done, held, pc, localVars, histVars,
                 boundVars, eventErr>>

WaitForIdle(c) ==
  /\ pc[c] = "idle"
  /\ activeRun # 0
  /\ held' = [held EXCEPT ![c] = activeRun]
  /\ Goto(c, "wait")
  /\ UNCHANGED <<queueVars, viewVars, activeRun, runs, done, cancelled, requested, localVars,
                 histVars, boundVars, eventErr>>

WaitReturn(c) ==
  /\ pc[c] = "wait"
  /\ held[c] \in done
  /\ held' = [held EXCEPT ![c] = 0]
  /\ Goto(c, "idle")
  /\ UNCHANGED <<queueVars, viewVars, activeRun, runs, done, cancelled, requested, localVars,
                 histVars, boundVars, eventErr>>

(***************************************************************************)
(* Calls that are one critical section each, from any goroutine.           *)
(***************************************************************************)
othersOfQueues == <<viewVars, runVars, localVars, delivered, lost, touched, late,
                    failures, compactions, eventErr, pc>>

\* Defect: the newest message goes to the front.
SteerFirst ==
  /\ \E m \in Steers \ Elements(sent) :
       /\ sent' = Append(sent, m)
       /\ steeringQueue' = <<m>> \o steeringQueue
  /\ UNCHANGED <<followUpQueue, steeringMode, followUpMode, cleared, resets, othersOfQueues>>

Steer ==
  /\ \E m \in Steers \ Elements(sent) :
       /\ sent' = Append(sent, m)
       /\ steeringQueue' = Append(steeringQueue, m)
  /\ UNCHANGED <<followUpQueue, steeringMode, followUpMode, cleared, resets, othersOfQueues>>

FollowUp ==
  /\ \E m \in FollowUps \ Elements(sent) :
       /\ sent' = Append(sent, m)
       /\ followUpQueue' = Append(followUpQueue, m)
  /\ UNCHANGED <<steeringQueue, steeringMode, followUpMode, cleared, resets, othersOfQueues>>

\* ClearSteeringQueue, ClearFollowUpQueue, ClearAllQueues.
ClearQueues ==
  /\ resets < MaxResets
  /\ resets' = resets + 1
  /\ \E which \in SUBSET {"steering", "followUp"} \ {{}} :
       /\ steeringQueue' = IF "steering" \in which THEN <<>> ELSE steeringQueue
       /\ followUpQueue' = IF "followUp" \in which THEN <<>> ELSE followUpQueue
       /\ cleared' = cleared \cup (IF "steering" \in which THEN Elements(steeringQueue) ELSE {})
                             \cup (IF "followUp" \in which THEN Elements(followUpQueue) ELSE {})
  /\ UNCHANGED <<steeringMode, followUpMode, sent, othersOfQueues>>

SetQueueMode ==
  /\ \E mode \in Modes :
       \/ steeringMode' = mode /\ UNCHANGED followUpMode
       \/ followUpMode' = mode /\ UNCHANGED steeringMode
  /\ UNCHANGED <<steeringQueue, followUpQueue, sent, cleared, resets, othersOfQueues>>

\* Reset does not stop the run in flight: it only wipes what it can see.
Reset ==
  /\ resets < MaxResets
  /\ resets' = resets + 1
  /\ Messages' = <<>>
  /\ IsStreaming' = FALSE
  /\ StreamingMessage' = None
  /\ ErrorMessage' = FALSE
  /\ cleared' = cleared \cup Elements(steeringQueue) \cup Elements(followUpQueue)
  /\ steeringQueue' = <<>>
  /\ followUpQueue' = <<>>
  /\ touched' = touched \cup {activeRun}
  /\ UNCHANGED <<steeringMode, followUpMode, runVars, localVars, sent, delivered, lost, late,
                 failures, compactions, eventErr, pc>>

(***************************************************************************)
(* The specification.  A run's own steps are fair: providers end their     *)
(* streams (the idle watchdog ends a silent one), listeners, hooks and     *)
(* tools return, and a goroutine that can take the mutex eventually does.  *)
(* Nobody is obliged to call the Agent.                                    *)
(***************************************************************************)
Enter(c) == Prompt(c) \/ ContinueQueued(c) \/ ContinueCheck(c) \/ RunContinuation(c)

LoopStep(c) ==
  \/ Begin(c) \/ StartEvents(c) \/ MessageStart(c) \/ MessageEnd(c)
  \/ InitialPoll(c) \/ SteeringPoll(c) \/ FollowUpPoll(c) \/ TurnStart(c)
  \/ Call(c) \/ StreamStart(c) \/ StreamEnd(c) \/ StreamEndUnstarted(c) \/ AssistantEnd(c)
  \/ ExecuteTools(c) \/ TurnEnd(c) \/ PrepareNextTurn(c) \/ AgentEnd(c) \/ TakeEventErr(c)

FailStep(c) ==
  FailMessageStart(c) \/ FailMessageEnd(c) \/ FailTurnEnd(c) \/ FailAgentEnd(c)

\* Defect: finishRun is called at the end instead of deferred.
LeaveUndeferred(c) == (ret[c] = "nil" /\ FinishRun(c)) \/ Release(c)

Leave(c) == FinishRun(c) \/ Release(c)

Bystander(c) ==
  Abort(c) \/ AbortCancel(c) \/ ContextCancelled(c) \/ WaitForIdle(c) \/ WaitReturn(c)

Next ==
  \/ \E c \in Callers :
       Enter(c) \/ LoopStep(c) \/ StreamUpdate(c) \/ FailStep(c) \/ Leave(c) \/ Bystander(c)
  \/ Steer \/ FollowUp \/ ClearQueues \/ SetQueueMode \/ Reset

Spec == Init /\ [][Next]_vars

Fairness ==
  \A c \in Callers :
    /\ WF_vars(RunContinuation(c))
    /\ WF_vars(LoopStep(c) \/ FailStep(c) \/ Leave(c))
    /\ WF_vars(AbortCancel(c))
    /\ WF_vars(WaitReturn(c))

FairSpec == Spec /\ Fairness
-----------------------------------------------------------------------------
RunsOK ==
  /\ activeRun \in 0..MaxRuns /\ runs \in 0..MaxRuns
  /\ done \subseteq 1..MaxRuns /\ cancelled \subseteq 1..MaxRuns /\ requested \subseteq 1..MaxRuns
  /\ pc \in [Callers -> Locations] /\ held \in [Callers -> 0..MaxRuns]

ViewOK ==
  /\ Messages \in Seq(Transcribed)
  /\ IsStreaming \in BOOLEAN /\ ErrorMessage \in BOOLEAN /\ eventErr \in 0..MaxRuns
  /\ StreamingMessage \in Transcribed \cup {None, "partial"}

QueuesOK ==
  /\ steeringQueue \in Seq(UserMessages) /\ followUpQueue \in Seq(UserMessages)
  /\ steeringMode \in QueueModes /\ followUpMode \in QueueModes

\* Messages in the loop's hands, and in the loop's context.
WorkMessages == UserMessages \cup {"toolResult"}
ContextMessages == Transcribed \cup {"partial"}

LocalsOK ==
  /\ todo \in [Callers -> Seq(WorkMessages)]
  /\ phase \in [Callers -> {"prompts", "pending", "results"}]
  /\ ctx \in [Callers -> Seq(ContextMessages)]
  /\ last \in [Callers -> StopReasons \cup {None}]
  /\ more \in [Callers -> BOOLEAN] /\ skip \in [Callers -> BOOLEAN]
  /\ turns \in [Callers -> 0..(MaxTurns + 1)]
  /\ ret \in [Callers -> {"nil", "error"}]

HistoryOK ==
  /\ sent \in Seq(UserMessages) /\ delivered \in Seq(UserMessages)
  /\ cleared \subseteq UserMessages /\ lost \subseteq UserMessages
  /\ touched \subseteq 0..MaxRuns /\ late \in [Callers -> Nat]
  /\ failures \in Nat /\ resets \in Nat /\ compactions \in Nat

\* Every variable stays in the range the Go declarations and the bounds give it:
\* the run an Abort or a context cancels is a run (never the nil activeRun), the
\* message a turn commits is a message (never the head of an exhausted batch).
TypeOK == RunsOK /\ ViewOK /\ QueuesOK /\ LocalsOK /\ HistoryOK

\* The single-run guard (runWithLifecycle, Continue): at most one goroutine is
\* inside a run, and the Agent's activeRun is that very run, not settled, so that
\* finishRun, which settles whatever activeRun is, settles the run it belongs to.
OneRun ==
  \A c \in Callers : InRun(c) =>
    /\ held[c] = activeRun /\ activeRun # 0 /\ activeRun \notin done
    /\ \A d \in Callers : InRun(d) => d = c

\* WaitForIdle uses a done channel it copied earlier: that channel is closed, or
\* belongs to the run in flight, which will close it.  Nobody waits on a channel
\* that no finishRun is left to close.
NoLostWaiter ==
  \A c \in Callers : pc[c] = "wait" => held[c] \in done \/ held[c] = activeRun

\* Abort calls a cancel function it copied earlier: a run that has not settled is
\* cancelled only if somebody asked for that run, never because an Abort meant
\* for an earlier run arrived late.
AbortHitsItsRun == cancelled \subseteq requested \cup done

\* What State() shows when no run is active: not streaming, nothing half
\* streamed; and it never claims to be streaming without an active run.
IdleIsClean ==
  /\ activeRun = 0 => StreamingMessage = None
  /\ IsStreaming => activeRun # 0

\* The loop works on its own copy of the transcript.  Whenever it calls the
\* provider, that copy equals the Agent's Messages, unless Reset was called
\* during the run: prompts, steering, tool results and compaction reach both.
ContextIsTranscript ==
  \A c \in Callers : pc[c] = "call" /\ held[c] \notin touched => ctx[c] = Messages

\* A provider is never asked to answer a context that ends with an assistant
\* message, whatever ran between Continue's look at the transcript and the
\* start of the run.
NeverAnswersItself ==
  \A c \in Callers : pc[c] = "call" =>
    /\ ctx[c] # <<>>
    /\ ~IsAssistant(LastOf(ctx[c]))

\* After its context is cancelled a run makes at most one more provider call.
CancelStopsTheLoop == \A c \in Callers : late[c] <= 1

InHand(m) ==
  m \notin Elements(delivered) /\ \E c \in Callers : m \in Elements(todo[c])

\* Every message accepted by Prompt, Steer or FollowUp is in exactly one place: a
\* queue, the hands of a running loop, the transcript's history, or the ones cleared
\* by Reset/Clear or lost with a failed run.  None enters the transcript twice, and
\* neither a cancellation nor a provider error loses one: only a failing listener or
\* hook does (Drain happens before the messages' events).
Conservation ==
  /\ \A m \in UserMessages :
       LET places == <<m \in Elements(steeringQueue), m \in Elements(followUpQueue), InHand(m),
                       m \in Elements(delivered), m \in cleared, m \in lost>>
           where == {i \in DOMAIN places : places[i]}
       IN Cardinality(where) = IF m \in Elements(sent) THEN 1 ELSE 0
  /\ \A i, j \in DOMAIN delivered : delivered[i] = delivered[j] => i = j
  /\ lost # {} => failures > 0

Before(s, m, n) == \E i, j \in DOMAIN s : i < j /\ s[i] = m /\ s[j] = n

\* Steering messages reach the transcript in the order they were given to Steer,
\* and so do follow-ups, in either queue mode and across runs.
QueueOrder ==
  \A q \in {Steers, FollowUps} : \A m, n \in q :
    Before(sent, m, n) => ~Before(delivered, n, m)

\* When a call returns without an error although its run ended with a truncated
\* answer, or a listener's error of that run is still recorded, the caller can see
\* it: ErrorMessage is set (Reset excepted).
EndIsTold(c) ==
  /\ pc[c] = "finish" /\ pc'[c] = "release" /\ ret[c] = "nil" /\ held[c] \notin touched
  /\ last[c] \in Truncated \/ eventErr = held[c]
  => ErrorMessage'

\* A recorded error fails no run but its own: nothing leaks from an earlier run, nor
\* from a failure that was being reported while the error was recorded.
FailsItsOwn(c) == pc[c] = "take" /\ pc'[c] = "fail" => eventErr = held[c]

\* While its run is in flight a recorded error is not dropped: it goes by failing it.
NothingDropped ==
  eventErr # 0 /\ eventErr = activeRun /\ eventErr' # eventErr =>
    \E c \in Callers : held[c] = eventErr /\ pc[c] = "take" /\ pc'[c] = "fail"

\* The failure of a run is told, once, to the caller of that run (setEventErr,
\* takeEventErr, handleRunFailure).
FailureIsReported ==
  [][NothingDropped /\ \A c \in Callers : EndIsTold(c) /\ FailsItsOwn(c)]_vars

\* The run slot as its callers see it (module RunSlot).
waitingFor == [c \in Callers |-> IF pc[c] = "wait" THEN held[c] ELSE 0]
Slot == INSTANCE RunSlot WITH slot <- activeRun, started <- runs, settled <- done,
                              waiting <- waitingFor
ImplementsRunSlot == Slot!Spec

\* Every run settles and its call returns, and so does every WaitForIdle, even if
\* another run starts before the waiter wakes up.
CallsReturn == \A c \in Callers : InRun(c) \/ pc[c] = "wait" ~> pc[c] = "idle"
=============================================================================
