------------------------------ MODULE Delegation -----------------------------
(***************************************************************************)
(* The task tool and the permission gate: internal/subagent/subagent.go,   *)
(* internal/permission and the hook of internal/session/stack.go, which    *)
(* the root agent and its child agents share.                              *)
(*                                                                         *)
(* A tool call is its kind: a tool, and for bash what IsDestructiveCommand *)
(* and IsSafeCommand say of the command.                                   *)
(*                                                                         *)
(* A definition introduced by "Defect:" is not part of the model.  It is   *)
(* the definition that follows it with a plausible bug.                    *)
(***************************************************************************)
EXTENDS Integers, FiniteSets

CONSTANTS
  Tasks,            \* the calls of the task tool that reach the semaphore
  Slots,            \* maxConcurrent
  Policies,         \* Policy.Overrides: functions of some tools to decisions
  MaxToolCalls      \* bound: tool calls of all agents

DelegationAssumption ==
  IsFiniteSet(Tasks) /\ Slots \in Nat \ {0} /\ MaxToolCalls \in Nat

VARIABLES
  policy, liveMode,     \* the policy of the session, what PermissionModeFunc returns
  task,             \* [Tasks -> "unused" | "waiting" | "running" | "returned"]
  parent,           \* [Tasks -> who called it]
  gate,             \* the call each agent prepares, and how far prepareToolCall is
  calls,            \* the prepared calls of each agent's message
  executing,        \* agents that execute the prepared calls of their message
  begun,            \* number of calls begun
  aborted           \* the root run is cancelled, its children with it

delegationVars ==
  <<policy, liveMode, task, parent, gate, calls, executing, begun, aborted>>

Root == "root"
Agents == Tasks \union {Root}
NoCall == "none"

\* ModeAcceptEdits is to Gate what the default mode is.
PermissionModes == {"default", "plan", "bypass"}

\* Kinds of tool calls, and the tool of each.
Kinds == {"read", "write", "safe", "unsafe", "destructive", "task"}
ToolOf(kind) == IF kind \in {"safe", "unsafe", "destructive"} THEN "bash" ELSE kind

\* ClassifyTool.
Tier(tool) == CASE tool = "read" -> "read" [] tool = "write" -> "write" [] OTHER -> "exec"

Decision(tool) == IF tool \in DOMAIN policy THEN policy[tool] ELSE "none"

\* Plan mode reads, and runs commands of the safe list.
PlanAllows(kind) == Tier(ToolOf(kind)) = "read" \/ kind = "safe"

\* Gate, for a call that is not cancelled: the mode is the one its caller has read.
Gate(inMode, kind) ==
  LET decision == Decision(ToolOf(kind))
      guarded == /\ inMode # "bypass"
                 /\ \/ kind = "destructive"
                    \/ decision = "none" /\ inMode = "plan" /\ ~PlanAllows(kind)
  IN  IF decision = "deny" \/ guarded THEN "deny"
      ELSE IF inMode # "bypass" /\ decision = "prompt" THEN "prompt"
      ELSE "allow"

\* Defect: a child agent keeps the task tool.
ChildKindsAll == Kinds

\* stripTaskTools.
ChildKinds == Kinds \ {"task"}

\* No call is at the gate; the mode is left from the last one.
Idle(mode) == [at |-> "idle", kind |-> NoCall, mode |-> mode, seen |-> {}, answer |-> "none"]

DelegationInit ==
  /\ policy \in Policies /\ liveMode \in PermissionModes
  /\ task = [t \in Tasks |-> "unused"] /\ parent = [t \in Tasks |-> Root]
  /\ gate = [a \in Agents |-> Idle("none")] /\ calls = [a \in Agents |-> {}]
  /\ executing = {} /\ begun = 0
  /\ aborted = FALSE

Running == {t \in Tasks : task[t] = "running"}
Nested(a) == \E t \in Tasks : parent[t] = a /\ task[t] \in {"waiting", "running"}

----------------------------------------------------------------------------
(* prepareToolCall: the calls of a message pass the gate one after another. *)

\* The next call of the message.  From here on the agent sees the modes that are set.
BeginCall(a, kind) ==
  /\ a = Root \/ (a \in Running /\ kind \in ChildKinds)
  /\ a \notin executing /\ gate[a].at = "idle" /\ begun < MaxToolCalls
  /\ begun' = begun + 1
  /\ gate' = [gate EXCEPT ![a] = [at |-> "called", kind |-> kind,
                                  mode |-> gate[a].mode, seen |-> {liveMode}, answer |-> "none"]]
  /\ UNCHANGED <<policy, liveMode, task, parent, calls, executing, aborted>>

\* Defect: the mode is read once, for the first call of a message.
ReadModeOnce(a) ==
  /\ gate[a].at = "called"
  /\ gate' = [gate EXCEPT ![a].at = "read",
                          ![a].mode = IF gate[a].mode = "none" THEN liveMode ELSE gate[a].mode]
  /\ UNCHANGED <<policy, liveMode, task, parent, calls, executing, begun, aborted>>

\* beforeToolCall reads the live mode.
ReadMode(a) ==
  /\ gate[a].at = "called"
  /\ gate' = [gate EXCEPT ![a].at = "read", ![a].mode = liveMode]
  /\ UNCHANGED <<policy, liveMode, task, parent, calls, executing, begun, aborted>>

\* Gate decides, or asks the Prompter.
Decide(a) ==
  LET decision == IF aborted THEN "deny" ELSE Gate(gate[a].mode, gate[a].kind) IN
  /\ gate[a].at = "read"
  /\ gate' = [gate EXCEPT ![a] =
       CASE decision = "allow" -> [@ EXCEPT !.at = "passed"]
         [] decision = "prompt" -> [@ EXCEPT !.at = "asking"]
         [] OTHER -> Idle(@.mode)]
  /\ UNCHANGED <<policy, liveMode, task, parent, calls, executing, begun, aborted>>

\* resolvePrompt: the call is approved, or not: the answer, an error or no Prompter.
Answer(a) ==
  /\ gate[a].at = "asking"
  /\ gate' \in {[gate EXCEPT ![a].at = "passed", ![a].answer = IF aborted THEN "late" ELSE "yes"],
                [gate EXCEPT ![a] = Idle(@.mode)]}
  /\ UNCHANGED <<policy, liveMode, task, parent, calls, executing, begun, aborted>>

\* What is still told apart of a prepared call.
Place(kind) == IF kind = "task" THEN "child" ELSE "here"

\* After the hook the context is asked again; what is left is a prepared call.
Prepared(a) ==
  /\ gate[a].at = "passed"
  /\ gate' = [gate EXCEPT ![a] = Idle(@.mode)]
  /\ calls' = IF aborted THEN calls ELSE [calls EXCEPT ![a] = @ \union {[n |-> Cardinality(@) + 1, runs |-> Place(gate[a].kind)]}]
  /\ UNCHANGED <<policy, liveMode, task, parent, executing, begun, aborted>>

----------------------------------------------------------------------------
(* The prepared calls of a message are executed, in any order.             *)

\* The last call of the message is prepared, or in sequential mode one is.
StartCalls(a) ==
  /\ a \notin executing /\ gate[a].at = "idle" /\ calls[a] # {}
  /\ executing' = executing \union {a} /\ gate' = [gate EXCEPT ![a] = Idle("none")]
  /\ UNCHANGED <<policy, liveMode, task, parent, calls, begun, aborted>>

\* Every call has returned.
CallsReturned(a) ==
  /\ a \in executing /\ calls[a] = {} /\ ~Nested(a)
  /\ executing' = executing \ {a}
  /\ UNCHANGED <<policy, liveMode, task, parent, gate, calls, begun, aborted>>

\* A tool runs; a task call may fail before the semaphore: no stream function, arguments
\* that do not decode, an empty prompt.
RunTool(a) ==
  /\ a \in executing
  /\ \E c \in calls[a] : calls' = [calls EXCEPT ![a] = @ \ {c}]
  /\ UNCHANGED <<policy, liveMode, task, parent, gate, executing, begun, aborted>>

\* Runner.Execute up to the semaphore.
StartTask(a) ==
  /\ a \in executing
  /\ \E c \in calls[a] : c.runs = "child" /\ calls' = [calls EXCEPT ![a] = @ \ {c}]
  /\ \E t \in Tasks : /\ task[t] = "unused" /\ task' = [task EXCEPT ![t] = "waiting"]
                      /\ parent' = [parent EXCEPT ![t] = a]
  /\ UNCHANGED <<policy, liveMode, gate, executing, begun, aborted>>

\* A slot is free, and the child agent runs.
Acquire(t) ==
  /\ task[t] = "waiting" /\ Cardinality(Running) < Slots
  /\ task' = [task EXCEPT ![t] = "running"]
  /\ UNCHANGED <<policy, liveMode, parent, gate, calls, executing, begun, aborted>>

\* The subagent_type is checked with the slot held; an unknown one gives it back.
AcquireRefused(t) ==
  /\ task[t] = "waiting" /\ Cardinality(Running) < Slots
  /\ task' = [task EXCEPT ![t] = "returned"]
  /\ UNCHANGED <<policy, liveMode, parent, gate, calls, executing, begun, aborted>>

\* ctx.Done while waiting.
GiveUp(t) ==
  /\ task[t] = "waiting" /\ aborted
  /\ task' = [task EXCEPT ![t] = "returned"]
  /\ UNCHANGED <<policy, liveMode, parent, gate, calls, executing, begun, aborted>>

\* The child run ends, with an answer or an error, and the slot is given back.
ChildEnds(t) ==
  /\ task[t] = "running" /\ gate[t].at = "idle" /\ calls[t] = {} /\ t \notin executing
  /\ task' = [task EXCEPT ![t] = "returned"]
  /\ UNCHANGED <<policy, liveMode, parent, gate, calls, executing, begun, aborted>>

\* The host changes what PermissionModeFunc returns.
SetMode ==
  /\ liveMode' \in PermissionModes \ {liveMode}
  /\ gate' = [a \in Agents |-> IF gate[a].at # "called" THEN gate[a]
                               ELSE [gate[a] EXCEPT !.seen = @ \union {liveMode'}]]
  /\ UNCHANGED <<policy, task, parent, calls, executing, begun, aborted>>

AbortRoot ==
  /\ ~aborted /\ aborted' = TRUE
  /\ UNCHANGED <<policy, liveMode, task, parent, gate, calls, executing, begun>>

AgentStep(a) ==
  \/ ReadMode(a) \/ Decide(a) \/ Answer(a) \/ Prepared(a)
  \/ StartCalls(a) \/ RunTool(a) \/ StartTask(a) \/ CallsReturned(a)

DelegationStep ==
  \/ \E a \in Agents : AgentStep(a)
  \/ \E t \in Tasks : Acquire(t) \/ AcquireRefused(t) \/ GiveUp(t) \/ ChildEnds(t)

DelegationNext ==
  \/ DelegationStep
  \/ \E a \in Agents, kind \in Kinds : BeginCall(a, kind)
  \/ SetMode \/ AbortRoot

\* A hook and a tool return, a prompt is answered, and a child run ends: its model answers
\* or its context is cancelled.
DelegationSpec ==
  DelegationInit /\ [][DelegationNext]_delegationVars /\ WF_delegationVars(DelegationStep)

----------------------------------------------------------------------------
(* Properties                                                              *)

\* What the session owes a call, from the modes that were in force when it was made.
MayRun(c) ==
  /\ c.kind = "destructive" => "bypass" \in c.seen
  /\ Decision(ToolOf(c.kind)) # "deny"
  /\ c.seen = {"plan"} /\ Decision(ToolOf(c.kind)) = "none" => PlanAllows(c.kind)
  /\ Decision(ToolOf(c.kind)) = "prompt" /\ "bypass" \notin c.seen => c.answer = "yes"

\* A mode that the host sets binds the very next call of every agent, root and child, the
\* later calls of a message that is being prepared included: no call is prepared that no
\* mode in force since its turn came permits, nor one whose approval came in after the run
\* was cancelled (beforeToolCall, Gate, prepareToolCall).  A call that is already prepared
\* runs whatever mode is set then.
ModeBindsTheNextCall ==
  [][\A a \in Agents : calls'[a] \subseteq calls[a] \/ MayRun(gate[a])]_delegationVars

\* Every task call returns: the tasks that hold a slot never wait for one (stripTaskTools,
\* Runner.Execute).
TasksReturn == \A t \in Tasks : task[t] = "waiting" ~> task[t] = "returned"
=============================================================================
