------------------------ MODULE AgentRuntimeProofs ------------------------
(***************************************************************************)
(* What is proved about AgentRuntime for every set of callers and messages *)
(* and every value of the bounds, in this order:                           *)
(*  - the run slot: the inductive invariant RunInv, three safety theorems  *)
(*    and the refinement of RunSlot; what State() shows while it is free;  *)
(*  - the types, which rest on RunInv and on WorkInHand, what the loop's   *)
(*    locals hold at each of its steps; the bound on the provider calls    *)
(*    of a cancelled run;                                                  *)
(*  - what the loop works on: its context is the transcript whenever it    *)
(*    asks the provider, it never asks for an answer to an answer, and a   *)
(*    failure is told to the caller of its run.  Each rests on an          *)
(*    invariant that says of every step of a run what its locals have to   *)
(*    do with the Agent's fields there (SyncOf, AskingOf, ToldOf, ErrorOf);*)
(*  - where each message is, and in which order (FlowInv, OrderInv): every *)
(*    step makes one of a few moves between the queues, the loop's hands   *)
(*    and the transcript (Moves), and what a move keeps is proved once.    *)
(***************************************************************************)
EXTENDS AgentRuntime, FiniteSetTheorems, SequenceTheorems, TLAPS

\* A step of the loop, or of the failure events, moves only the goroutine of the
\* run, from one step of the run to another, and does not touch the slot.
LEMMA InsideRun ==
  ASSUME RunsOK, NEW c \in Callers,
         LoopStep(c) \/ StreamUpdate(c) \/ FailStep(c)
  PROVE  /\ UNCHANGED runVars
         /\ InRun(c)
         /\ \E l \in RunSteps : pc' = [pc EXCEPT ![c] = l]
<1> USE DEF Goto, Deliver, DeliverFailure, LoopFails, InRun, RunSteps, runVars
<1>1. CASE Begin(c)
  BY <1>1 DEF Begin
<1>2. CASE StartEvents(c)
  BY <1>2 DEF StartEvents
<1>3. CASE MessageStart(c)
  BY <1>3 DEF MessageStart
<1>4. CASE MessageEnd(c)
  BY <1>4 DEF MessageEnd, AfterMessages
<1>5. CASE InitialPoll(c)
  BY <1>5 DEF InitialPoll
<1>6. CASE SteeringPoll(c)
  BY <1>6 DEF SteeringPoll
<1>7. CASE FollowUpPoll(c)
  BY <1>7 DEF FollowUpPoll
<1>8. CASE TurnStart(c)
  BY <1>8 DEF TurnStart
<1>9. CASE Call(c)
  BY <1>9 DEF Call
<1>10. CASE StreamStart(c)
  BY <1>10 DEF StreamStart
<1>11. CASE StreamEnd(c)
  BY <1>11 DEF StreamEnd
<1>12. CASE StreamEndUnstarted(c)
  BY <1>12 DEF StreamEndUnstarted
<1>13. CASE AssistantEnd(c)
  BY <1>13 DEF AssistantEnd
<1>14. CASE ExecuteTools(c)
  BY <1>14 DEF ExecuteTools
<1>15. CASE TurnEnd(c)
  BY <1>15 DEF TurnEnd
<1>16. CASE PrepareNextTurn(c)
  BY <1>16 DEF PrepareNextTurn
<1>17. CASE AgentEnd(c)
  BY <1>17 DEF AgentEnd
<1>18. CASE TakeEventErr(c)
  BY <1>18 DEF TakeEventErr
<1>19. CASE StreamUpdate(c)
  BY <1>19 DEF StreamUpdate
<1>20. CASE FailMessageStart(c)
  BY <1>20 DEF FailMessageStart
<1>21. CASE FailMessageEnd(c)
  BY <1>21 DEF FailMessageEnd
<1>22. CASE FailTurnEnd(c)
  BY <1>22 DEF FailTurnEnd
<1>23. CASE FailAgentEnd(c)
  BY <1>23 DEF FailAgentEnd
<1> QED BY <1>1, <1>2, <1>3, <1>4, <1>5, <1>6, <1>7, <1>8, <1>9, <1>10, <1>11, <1>12, <1>13,
   <1>14, <1>15, <1>16, <1>17, <1>18, <1>19, <1>20, <1>21, <1>22, <1>23 DEF LoopStep,
   FailStep

\* The slot and the pointers to it that goroutines hold.
SlotInv ==
  /\ activeRun <= runs
  /\ done \subseteq 1..runs
  /\ activeRun \notin done
  /\ cancelled \subseteq requested \cup done

PointerInv ==
  /\ \A c \in Callers : InRun(c) => held[c] = activeRun /\ activeRun # 0
  /\ \A c, d \in Callers : InRun(c) /\ InRun(d) => c = d
  /\ \A c \in Callers : pc[c] = "wait" => held[c] # 0 /\ (held[c] \in done \/ held[c] = activeRun)
  /\ \A c \in Callers : pc[c] = "abort" => held[c] # 0 /\ held[c] \in requested
  /\ \A c \in Callers : pc[c] = "release" => held[c] = 0 \/ held[c] \in done

RunInv == RunsOK /\ SlotInv /\ PointerInv

\* A new Agent (NewAgent) has no run, and nobody holds a pointer to one.
LEMMA RunInvInit == Init => RunInv
BY AgentAssumption DEF Init, RunInv, RunsOK, SlotInv, PointerInv, InRun, RunSteps, Locations

\* Taking a free slot, whichever call does it.
LEMMA StartKeepsRunInv ==
  ASSUME RunInv, NEW c \in Callers, activeRun = 0, pc[c] \in {"idle", "gap"},
         runs < MaxRuns, runs' = runs + 1, activeRun' = runs + 1,
         held' = [held EXCEPT ![c] = runs + 1], pc' = [pc EXCEPT ![c] = "begin"],
         UNCHANGED <<done, cancelled, requested>>
  PROVE  RunInv'
<1> USE DEF RunInv, RunsOK, SlotInv, PointerInv, InRun, Goto, Locations, RunSteps
<1>1. RunsOK'
  BY AgentAssumption
<1>2. SlotInv'
  BY AgentAssumption
<1>3. \A d \in Callers : ~InRun(d)
  OBVIOUS
<1>4. PointerInv'
  BY <1>3
<1> QED BY <1>1, <1>2, <1>4

\* Prompt and Continue keep the slot's invariant, the gap in Continue included.
LEMMA RunInvEnter ==
  ASSUME RunInv, NEW c \in Callers, Enter(c)
  PROVE  RunInv'
<1> USE DEF StartRun, Goto
<1>1. CASE Prompt(c)
  BY <1>1, StartKeepsRunInv DEF Prompt
<1>2. CASE ContinueQueued(c)
  BY <1>2, StartKeepsRunInv DEF ContinueQueued
<1>3. CASE ContinueCheck(c)
  BY <1>3 DEF ContinueCheck, runVars, RunInv, RunsOK, SlotInv, PointerInv, InRun, Locations,
     RunSteps
<1>4. CASE RunContinuation(c)
  <2>1. CASE activeRun = 0
    BY <1>4, <2>1, StartKeepsRunInv DEF RunContinuation
  <2>2. CASE activeRun # 0
    <3>1. UNCHANGED runVars /\ pc[c] = "gap" /\ pc' = [pc EXCEPT ![c] = "idle"]
      BY <1>4, <2>2 DEF RunContinuation
    <3> QED BY <3>1 DEF runVars, RunInv, RunsOK, SlotInv, PointerInv, InRun, Locations, RunSteps
  <2> QED BY <2>1, <2>2
<1> QED BY <1>1, <1>2, <1>3, <1>4 DEF Enter

\* finishRun settles its own run and releases the pointer to it.
LEMMA RunInvLeave ==
  ASSUME RunInv, NEW c \in Callers, Leave(c)
  PROVE  RunInv'
<1> USE DEF RunInv, RunsOK, SlotInv, PointerInv, InRun, Goto, Locations, RunSteps
<1>1. CASE FinishRun(c)
  <2>1. /\ pc[c] = "finish" /\ pc' = [pc EXCEPT ![c] = "release"]
        /\ held[c] = activeRun /\ held' = [held EXCEPT ![c] = activeRun]
        /\ activeRun # 0 /\ activeRun' = 0 /\ done' = done \cup {activeRun}
        /\ UNCHANGED <<runs, cancelled, requested>>
    BY <1>1 DEF FinishRun, Settle
  <2>2. activeRun \in 1..MaxRuns /\ 0 \in 0..MaxRuns
    BY <2>1, AgentAssumption
  <2>3. RunsOK'
    BY <2>1, <2>2
  <2>4. SlotInv'
    BY <2>1
  <2>5. PointerInv'
    BY <2>1
  <2> QED BY <2>3, <2>4, <2>5
<1>2. CASE Release(c)
  <2>1. held[c] \in 0..MaxRuns /\ (held[c] = 0 \/ held[c] \in done)
    BY <1>2 DEF Release
  <2>2. RunsOK'
    <3>1. /\ pc' = [pc EXCEPT ![c] = "idle"] /\ held' = [held EXCEPT ![c] = 0]
          /\ cancelled' = IF held[c] = 0 THEN cancelled ELSE cancelled \cup {held[c]}
          /\ UNCHANGED <<activeRun, runs, done, requested>>
      BY <1>2 DEF Release
    <3>2. 0 \in 0..MaxRuns
      BY AgentAssumption
    <3> QED BY <2>1, <3>1, <3>2
  <2>3. SlotInv'
    BY <1>2, <2>1 DEF Release
  <2>4. PointerInv'
    BY <1>2 DEF Release
  <2> QED BY <2>2, <2>3, <2>4
<1> QED BY <1>1, <1>2 DEF Leave

\* Abort, WaitForIdle and a cancelled caller keep to the run they saw.
LEMMA RunInvBystander ==
  ASSUME RunInv, NEW c \in Callers, Bystander(c)
  PROVE  RunInv'
<1> USE DEF RunInv, RunsOK, SlotInv, PointerInv, InRun, Goto, Locations, RunSteps
<1>1. CASE Abort(c)
  BY <1>1 DEF Abort
<1>2. CASE AbortCancel(c)
  <2>1. held[c] \in 1..MaxRuns /\ held[c] \in requested
    BY <1>2 DEF AbortCancel
  <2>2. RunsOK'
    <3>1. /\ pc' = [pc EXCEPT ![c] = "idle"] /\ held' = [held EXCEPT ![c] = 0]
          /\ cancelled' = cancelled \cup {held[c]}
          /\ UNCHANGED <<activeRun, runs, done, requested>>
      BY <1>2 DEF AbortCancel
    <3>2. 0 \in 0..MaxRuns
      BY AgentAssumption
    <3> QED BY <2>1, <3>1, <3>2
  <2>3. SlotInv'
    BY <1>2, <2>1 DEF AbortCancel
  <2>4. PointerInv'
    BY <1>2 DEF AbortCancel
  <2> QED BY <2>2, <2>3, <2>4
<1>3. CASE ContextCancelled(c)
  <2>1. held[c] \in 1..MaxRuns
    BY <1>3 DEF ContextCancelled
  <2>2. RunsOK' /\ SlotInv'
    BY <1>3, <2>1 DEF ContextCancelled
  <2>3. PointerInv'
    BY <1>3 DEF ContextCancelled
  <2> QED BY <2>2, <2>3
<1>4. CASE WaitForIdle(c)
  BY <1>4 DEF WaitForIdle
<1>5. CASE WaitReturn(c)
  <2>1. /\ pc' = [pc EXCEPT ![c] = "idle"] /\ held' = [held EXCEPT ![c] = 0]
        /\ ~InRun(c)
        /\ UNCHANGED <<activeRun, runs, done, cancelled, requested>>
    BY <1>5 DEF WaitReturn
  <2>2. RunsOK' /\ SlotInv'
    BY <2>1, AgentAssumption
  <2>3. PointerInv'
    BY <2>1
  <2> QED BY <2>2, <2>3
<1> QED BY <1>1, <1>2, <1>3, <1>4, <1>5 DEF Bystander

\* Steps that touch neither the slot nor a goroutine's position keep the invariant.
LEMMA RunInvFrame ==
  ASSUME RunInv, UNCHANGED <<runVars, pc>>
  PROVE  RunInv'
BY DEF RunInv, RunsOK, SlotInv, PointerInv, InRun, runVars

\* The steps of the loop (runLoop, handleRunFailure) keep the slot's invariant.
LEMMA RunInvInside ==
  ASSUME RunInv, NEW c \in Callers, LoopStep(c) \/ StreamUpdate(c) \/ FailStep(c)
  PROVE  RunInv'
<1>1. /\ UNCHANGED runVars
      /\ InRun(c)
      /\ \E l \in RunSteps : pc' = [pc EXCEPT ![c] = l]
  BY InsideRun DEF RunInv
<1> QED
  BY <1>1 DEF RunInv, RunsOK, SlotInv, PointerInv, InRun, Locations, RunSteps, runVars

\* Every step of the Agent keeps the slot's invariant.
LEMMA RunInvStep ==
  ASSUME RunInv, [Next]_vars
  PROVE  RunInv'
<1>1. ASSUME NEW c \in Callers,
             Enter(c) \/ LoopStep(c) \/ StreamUpdate(c) \/ FailStep(c) \/ Leave(c) \/ Bystander(c)
      PROVE  RunInv'
  BY <1>1, RunInvEnter, RunInvInside, RunInvLeave, RunInvBystander
<1>2. CASE Steer \/ FollowUp \/ ClearQueues \/ SetQueueMode \/ Reset
  BY <1>2, RunInvFrame DEF Steer, FollowUp, ClearQueues, SetQueueMode, Reset, othersOfQueues
<1>3. CASE UNCHANGED vars
  BY <1>3, RunInvFrame DEF vars
<1> QED BY <1>1, <1>2, <1>3 DEF Next

\* The slot and the pointers to it (activeRun in runtime.go) agree in every reachable
\* state.
THEOREM RunInvariant == Spec => []RunInv
<1>1. Init => RunInv
  BY RunInvInit
<1>2. RunInv /\ [Next]_vars => RunInv'
  BY RunInvStep
<1> QED BY <1>1, <1>2, PTL DEF Spec

\* The single-run guard of runWithLifecycle and Continue: at most one goroutine is
\* inside a run, and it is the run activeRun points to.
THEOREM OneRunAlways == Spec => []OneRun
<1>1. RunInv => OneRun
  BY DEF RunInv, SlotInv, PointerInv, OneRun
<1> QED BY <1>1, RunInvariant, PTL

\* WaitForIdle never waits on a done channel that no finishRun is left to close.
THEOREM NoLostWaiterAlways == Spec => []NoLostWaiter
<1>1. RunInv => NoLostWaiter
  BY DEF RunInv, PointerInv, NoLostWaiter
<1> QED BY <1>1, RunInvariant, PTL

\* A late Abort never cancels a run other than the one it was called for.
THEOREM AbortHitsItsRunAlways == Spec => []AbortHitsItsRun
<1>1. RunInv => AbortHitsItsRun
  BY DEF RunInv, SlotInv, AbortHitsItsRun
<1> QED BY <1>1, RunInvariant, PTL

-----------------------------------------------------------------------------
\* A new Agent is an empty run slot.
LEMMA SlotInit == Init => Slot!Init
BY DEF Init, Slot!Init, waitingFor

\* Only the goroutine that takes a step can enter or leave WaitForIdle.
LEMMA WaitingUnchanged ==
  ASSUME RunInv, NEW c \in Callers, NEW l \in Locations \ {"wait"}, NEW r,
         pc[c] # "wait", pc' = [pc EXCEPT ![c] = l],
         held' = held \/ held' = [held EXCEPT ![c] = r]
  PROVE  UNCHANGED waitingFor
BY DEF RunInv, RunsOK, waitingFor

\* Every step of the Agent is a step of the run slot, or one its callers do not see.
LEMMA SlotStep ==
  ASSUME RunInv, [Next]_vars
  PROVE  [Slot!Next]_(Slot!slotVars)
<1> USE DEF Slot!Next, Slot!slotVars
<1>1. ASSUME NEW c \in Callers, Enter(c)
      PROVE  [Slot!Next]_(Slot!slotVars)
  <2>1. CASE ContinueCheck(c) \/ (RunContinuation(c) /\ activeRun # 0)
    <3>1. UNCHANGED runVars /\ pc[c] \in {"idle", "gap"}
          /\ (pc' = [pc EXCEPT ![c] = "gap"] \/ pc' = [pc EXCEPT ![c] = "idle"])
      BY <2>1 DEF ContinueCheck, RunContinuation, Goto
    <3>2. UNCHANGED waitingFor
      BY <3>1, WaitingUnchanged DEF runVars, Locations
    <3> QED BY <3>1, <3>2 DEF runVars
  <2>2. CASE Prompt(c) \/ ContinueQueued(c) \/ (RunContinuation(c) /\ activeRun = 0)
    <3>1. /\ activeRun = 0 /\ pc[c] \in {"idle", "gap"} /\ pc' = [pc EXCEPT ![c] = "begin"]
          /\ runs < MaxRuns /\ runs' = runs + 1 /\ activeRun' = runs + 1
          /\ held' = [held EXCEPT ![c] = runs + 1]
          /\ UNCHANGED <<done, cancelled, requested>>
      BY <2>2 DEF Prompt, ContinueQueued, RunContinuation, StartRun, Goto
    <3>2. UNCHANGED waitingFor
      BY <3>1, WaitingUnchanged DEF Locations, RunSteps
    <3> QED BY <3>1, <3>2 DEF Slot!Start
  <2> QED BY <1>1, <2>1, <2>2 DEF Enter
<1>2. ASSUME NEW c \in Callers, LoopStep(c) \/ StreamUpdate(c) \/ FailStep(c)
      PROVE  [Slot!Next]_(Slot!slotVars)
  <2>1. PICK l \in RunSteps : UNCHANGED runVars /\ InRun(c) /\ pc' = [pc EXCEPT ![c] = l]
    BY <1>2, InsideRun DEF RunInv
  <2>2. UNCHANGED waitingFor
    <3>1. pc[c] # "wait" /\ held' = held
      BY <2>1 DEF runVars, InRun, RunSteps
    <3>2. l \in Locations \ {"wait"}
      BY DEF Locations, RunSteps
    <3> QED BY <2>1, <3>1, <3>2, WaitingUnchanged
  <2> QED BY <2>1, <2>2 DEF runVars
<1>3. ASSUME NEW c \in Callers, Leave(c)
      PROVE  [Slot!Next]_(Slot!slotVars)
  <2>1. CASE FinishRun(c)
    <3>1. /\ pc[c] = "finish" /\ pc' = [pc EXCEPT ![c] = "release"]
          /\ held' = [held EXCEPT ![c] = activeRun]
          /\ activeRun # 0 /\ activeRun' = 0 /\ done' = done \cup {activeRun}
          /\ UNCHANGED <<runs, cancelled, requested>>
      BY <2>1 DEF FinishRun, Settle, Goto, RunInv, PointerInv, InRun, RunSteps
    <3>2. UNCHANGED waitingFor
      BY <3>1, WaitingUnchanged DEF Locations
    <3> QED BY <3>1, <3>2 DEF Slot!Settle
  <2>2. CASE Release(c)
    <3>1. /\ pc[c] = "release" /\ pc' = [pc EXCEPT ![c] = "idle"]
          /\ held' = [held EXCEPT ![c] = 0]
          /\ cancelled' = IF held[c] = 0 THEN cancelled ELSE cancelled \cup {held[c]}
          /\ UNCHANGED <<activeRun, runs, done, requested>>
      BY <2>2 DEF Release, Goto
    <3>2. UNCHANGED waitingFor
      BY <3>1, WaitingUnchanged DEF Locations
    <3>3. held[c] = 0 \/ (held[c] \in Slot!Runs /\ held[c] \in done)
      BY <3>1 DEF RunInv, RunsOK, PointerInv, Slot!Runs
    <3> QED BY <3>1, <3>2, <3>3 DEF Slot!Cancel
  <2> QED BY <1>3, <2>1, <2>2 DEF Leave
<1>4. ASSUME NEW c \in Callers, Bystander(c)
      PROVE  [Slot!Next]_(Slot!slotVars)
  <2>1. CASE Abort(c)
    <3>1. /\ pc[c] = "idle" /\ pc' = [pc EXCEPT ![c] = "abort"] /\ activeRun # 0
          /\ held' = [held EXCEPT ![c] = activeRun]
          /\ requested' = requested \cup {activeRun}
          /\ UNCHANGED <<activeRun, runs, done, cancelled>>
      BY <2>1 DEF Abort, Goto
    <3>2. UNCHANGED waitingFor
      BY <3>1, WaitingUnchanged DEF Locations
    <3> QED BY <3>1, <3>2 DEF Slot!Request
  <2>2. CASE AbortCancel(c)
    <3>1. /\ pc[c] = "abort" /\ pc' = [pc EXCEPT ![c] = "idle"]
          /\ held' = [held EXCEPT ![c] = 0]
          /\ cancelled' = cancelled \cup {held[c]}
          /\ UNCHANGED <<activeRun, runs, done, requested>>
      BY <2>2 DEF AbortCancel, Goto
    <3>2. UNCHANGED waitingFor
      BY <3>1, WaitingUnchanged DEF Locations
    <3>3. held[c] \in Slot!Runs /\ held[c] \in requested
      BY <3>1 DEF RunInv, RunsOK, PointerInv, Slot!Runs
    <3> QED BY <3>1, <3>2, <3>3 DEF Slot!Cancel
  <2>3. CASE ContextCancelled(c)
    <3>1. /\ held[c] = activeRun /\ activeRun # 0
          /\ requested' = requested \cup {activeRun}
          /\ cancelled' = cancelled \cup {activeRun}
          /\ UNCHANGED <<activeRun, runs, done, held, pc>>
      BY <2>3 DEF ContextCancelled, RunInv, PointerInv
    <3>2. UNCHANGED waitingFor
      BY <3>1 DEF waitingFor
    <3> QED BY <3>1, <3>2 DEF Slot!Request
  <2>4. CASE WaitForIdle(c)
    <3>1. /\ pc[c] = "idle" /\ pc' = [pc EXCEPT ![c] = "wait"] /\ activeRun # 0
          /\ held' = [held EXCEPT ![c] = activeRun]
          /\ UNCHANGED <<activeRun, runs, done, cancelled, requested>>
      BY <2>4 DEF WaitForIdle, Goto
    <3>2. waitingFor[c] = 0 /\ waitingFor' = [waitingFor EXCEPT ![c] = activeRun]
      BY <3>1 DEF waitingFor, RunInv, RunsOK
    <3> QED BY <3>1, <3>2 DEF Slot!Wait
  <2>5. CASE WaitReturn(c)
    <3>1. /\ pc[c] = "wait" /\ held[c] \in done
          /\ pc' = [pc EXCEPT ![c] = "idle"] /\ held' = [held EXCEPT ![c] = 0]
          /\ UNCHANGED <<activeRun, runs, done, cancelled, requested>>
      BY <2>5 DEF WaitReturn, Goto
    <3>2. waitingFor[c] = held[c] /\ waitingFor' = [waitingFor EXCEPT ![c] = 0]
      BY <3>1 DEF waitingFor, RunInv, RunsOK
    <3> QED BY <3>1, <3>2 DEF Slot!Wake
  <2> QED BY <1>4, <2>1, <2>2, <2>3, <2>4, <2>5 DEF Bystander
<1>5. CASE Steer \/ FollowUp \/ ClearQueues \/ SetQueueMode \/ Reset
  BY <1>5 DEF Steer, FollowUp, ClearQueues, SetQueueMode, Reset, othersOfQueues, runVars,
     waitingFor
<1>6. CASE UNCHANGED vars
  BY <1>6 DEF vars, runVars, waitingFor
<1> QED BY <1>1, <1>2, <1>3, <1>4, <1>5, <1>6 DEF Next

\* The Agent's runs, whatever the loop, the listeners and the tools do, implement the
\* run slot (RunSlot) that the callers of Prompt, Continue, Abort and WaitForIdle see.
THEOREM RunSlotRefinement == Spec => ImplementsRunSlot
<1>1. Init => Slot!Init
  BY SlotInit
<1>2. RunInv /\ [Next]_vars => [Slot!Next]_(Slot!slotVars)
  BY SlotStep
<1> QED BY <1>1, <1>2, RunInvariant, PTL DEF Spec, ImplementsRunSlot, Slot!Spec

-----------------------------------------------------------------------------
\* A step some goroutine takes for itself.
CallerStep(c) ==
  Enter(c) \/ LoopStep(c) \/ StreamUpdate(c) \/ FailStep(c) \/ Leave(c) \/ Bystander(c)

\* A step of the loop happens inside a run, finishRun wipes the view with the slot,
\* and Reset wipes it at any time.
LEMMA IdleStep ==
  ASSUME RunInv, IdleIsClean, [Next]_vars
  PROVE  IdleIsClean'
<1> USE DEF IdleIsClean
<1>1. CASE UNCHANGED <<activeRun, viewVars>>
  BY <1>1 DEF viewVars
<1>2. ASSUME NEW c \in Callers, CallerStep(c)
      PROVE  IdleIsClean'
  <2>1. CASE Prompt(c) \/ ContinueQueued(c) \/ (RunContinuation(c) /\ activeRun = 0)
    <3>1. activeRun' = runs + 1 /\ runs \in Nat
      BY <2>1, AgentAssumption
      DEF Prompt, ContinueQueued, RunContinuation, StartRun, RunInv, RunsOK
    <3> QED BY <3>1
  <2>2. CASE ContinueCheck(c) \/ (RunContinuation(c) /\ activeRun # 0)
    BY <1>1, <2>2 DEF ContinueCheck, RunContinuation, runVars
  <2>3. CASE LoopStep(c) \/ StreamUpdate(c) \/ FailStep(c)
    <3>1. activeRun' # 0
      BY <2>3, InsideRun DEF RunInv, PointerInv, runVars
    <3> QED BY <3>1
  <2>4. CASE FinishRun(c)
    BY <2>4 DEF FinishRun, Settle
  <2>5. CASE Release(c) \/ Bystander(c)
    BY <1>1, <2>5
    DEF Release, Bystander, Abort, AbortCancel, ContextCancelled, WaitForIdle, WaitReturn
  <2> QED BY <1>2, <2>1, <2>2, <2>3, <2>4, <2>5 DEF CallerStep, Enter, Leave
<1>3. CASE Steer \/ FollowUp \/ ClearQueues \/ SetQueueMode
  BY <1>1, <1>3 DEF Steer, FollowUp, ClearQueues, SetQueueMode, othersOfQueues, runVars
<1>4. CASE Reset
  BY <1>4 DEF Reset
<1> QED BY <1>1, <1>2, <1>3, <1>4 DEF Next, CallerStep, vars, runVars

\* While no run is active State() shows neither a streaming flag nor a half-streamed
\* message, however the last run ended and whenever Reset was called.
THEOREM IdleIsCleanAlways == Spec => []IdleIsClean
<1>1. Init => IdleIsClean
  BY DEF Init, IdleIsClean
<1>2. RunInv /\ IdleIsClean /\ [Next]_vars => IdleIsClean'
  BY IdleStep
<1> QED BY <1>1, <1>2, RunInvariant, PTL DEF Spec

(***************************************************************************)
(* The types.                                                              *)
(***************************************************************************)
\* What Drain hands out, and what it keeps, are messages of the queue.
LEMMA DrainTypes ==
  ASSUME NEW S, NEW q \in Seq(S), NEW mode
  PROVE  /\ Drained(q, mode) \in Seq(S)
         /\ Kept(q, mode) \in Seq(S)
         /\ Drained(q, mode) = <<>> <=> q = <<>>
BY DEF Drained, Kept

\* Dropping one of several messages leaves a message.
LEMMA TailNotEmpty ==
  ASSUME NEW S, NEW q \in Seq(S), Len(q) > 1
  PROVE  Tail(q) # <<>>
<1>1. q # <<>>
  OBVIOUS
<1>2. Len(Tail(q)) = Len(q) - 1 /\ Len(q) \in Nat /\ Tail(q) \in Seq(S)
  BY <1>1, HeadTailProperties
<1>3. Len(Tail(q)) # 0
  BY <1>2
<1> QED BY <1>3, EmptySeq, Zenon

\* Appending the half-streamed message leaves the earlier ones as they are.
LEMMA AppendKeeps ==
  ASSUME NEW S, NEW q \in Seq(S), NEW x
  PROVE  /\ Append(q, x) # <<>>
         /\ \A i \in 1..(Len(Append(q, x)) - 1) : Append(q, x)[i] \in S
<1>1. Len(Append(q, x)) = Len(q) + 1 /\ Len(q) \in Nat
  OBVIOUS
<1>2. \A i \in 1..Len(q) : Append(q, x)[i] = q[i] /\ q[i] \in S
  OBVIOUS
<1> QED BY <1>1, <1>2

\* Replacing the half-streamed message by a message keeps a sequence of messages.
LEMMA ReplaceTypes ==
  ASSUME NEW S, NEW q \in Seq(S), NEW x \in S, NEW i
  PROVE  [q EXCEPT ![i] = x] \in Seq(S)
<1>1. q \in [1..Len(q) -> S] /\ Len(q) \in Nat
  OBVIOUS
<1>2. [q EXCEPT ![i] = x] \in [1..Len(q) -> S]
  BY <1>1
<1> QED BY <1>1, <1>2, SeqDef

\* What the loop's locals hold at each of its steps: the batch being emitted is not
\* exhausted, the assistant message about to be committed is known, and the message
\* still streaming is the last of the context, and in no context used otherwise.
ContextSteps == {"agentStart", "turnStart", "msgStart", "msgEnd", "poll0", "call", "response",
                 "final", "tools", "turnEnd", "prepare", "poll", "followUp"}

LocalInv(c) ==
  /\ pc[c] \in {"msgStart", "msgEnd"} => todo[c] # <<>>
  /\ pc[c] \in {"final", "failEnd"} => last[c] \in StopReasons
  /\ pc[c] \in ContextSteps => ctx[c] \in Seq(Transcribed)
  /\ pc[c] = "partial" =>
       ctx[c] # <<>> /\ \A i \in 1..(Len(ctx[c]) - 1) : ctx[c][i] \in Transcribed

WorkInHand == \A c \in Callers : LocalInv(c)

\* The queues only ever hold user messages, in a valid mode (Drain, Steer, FollowUp).
LEMMA QueuesPreserved ==
  ASSUME QueuesOK, [Next]_vars
  PROVE  QueuesOK'
<1> USE DEF QueuesOK
<1>1. CASE UNCHANGED queueVars
  BY <1>1 DEF queueVars
<1>2. ASSUME NEW c \in Callers, CallerStep(c)
      PROVE  QueuesOK'
  <2>1. CASE Prompt(c) \/ ContinueCheck(c) \/ RunContinuation(c) \/ Begin(c)
               \/ StartEvents(c) \/ MessageStart(c) \/ MessageEnd(c) \/ TurnStart(c)
               \/ Call(c) \/ StreamStart(c) \/ StreamEnd(c) \/ StreamEndUnstarted(c)
               \/ AssistantEnd(c) \/ ExecuteTools(c) \/ TurnEnd(c) \/ PrepareNextTurn(c)
               \/ AgentEnd(c) \/ TakeEventErr(c) \/ StreamUpdate(c) \/ FailMessageStart(c)
               \/ FailMessageEnd(c) \/ FailTurnEnd(c) \/ FailAgentEnd(c) \/ FinishRun(c)
               \/ Release(c) \/ Abort(c) \/ AbortCancel(c) \/ ContextCancelled(c)
               \/ WaitForIdle(c) \/ WaitReturn(c)
    BY <1>1, <2>1
    DEF Prompt, ContinueCheck, RunContinuation, Begin, StartEvents, MessageStart,
        MessageEnd, TurnStart, Call, StreamStart, StreamEnd, StreamEndUnstarted,
        AssistantEnd, ExecuteTools, TurnEnd, PrepareNextTurn, AgentEnd, TakeEventErr,
        StreamUpdate, FailMessageStart, FailMessageEnd, FailTurnEnd, FailAgentEnd, FinishRun,
        Release, Abort, AbortCancel, ContextCancelled, WaitForIdle, WaitReturn, queueVars, StartRun
  <2>2. CASE ContinueQueued(c)
    <3>1. UNCHANGED <<steeringMode, followUpMode>>
      BY <2>2 DEF ContinueQueued, queueVars, StartRun
    <3>2. steeringQueue' \in Seq(UserMessages)
      <4>1. steeringQueue' = steeringQueue \/ steeringQueue' = Kept(steeringQueue, steeringMode)
        BY <2>2 DEF ContinueQueued
      <4> QED BY <4>1, DrainTypes
    <3>3. followUpQueue' \in Seq(UserMessages)
      <4>1. followUpQueue' = followUpQueue \/ followUpQueue' = Kept(followUpQueue, followUpMode)
        BY <2>2 DEF ContinueQueued
      <4> QED BY <4>1, DrainTypes
    <3> QED BY <3>1, <3>2, <3>3
  <2>3. CASE InitialPoll(c) \/ SteeringPoll(c)
    <3>1. UNCHANGED <<followUpQueue, steeringMode, followUpMode>>
      BY <2>3 DEF InitialPoll, SteeringPoll, queueVars
    <3>2. steeringQueue' \in Seq(UserMessages)
      BY <2>3, DrainTypes DEF InitialPoll, SteeringPoll
    <3> QED BY <3>1, <3>2
  <2>4. CASE FollowUpPoll(c)
    <3>1. UNCHANGED <<steeringQueue, steeringMode, followUpMode>>
      BY <2>4 DEF FollowUpPoll, queueVars
    <3>2. followUpQueue' \in Seq(UserMessages)
      BY <2>4, DrainTypes DEF FollowUpPoll
    <3> QED BY <3>1, <3>2
  <2> QED BY <1>2, <2>1, <2>2, <2>3, <2>4
          DEF CallerStep, Enter, LoopStep, FailStep, Leave, Bystander
<1>3. CASE Steer
  BY <1>3 DEF Steer, UserMessages
<1>4. CASE FollowUp
  BY <1>4 DEF FollowUp, UserMessages
<1>5. CASE ClearQueues
  BY <1>5 DEF ClearQueues
<1>6. CASE SetQueueMode
  BY <1>6, AgentAssumption DEF SetQueueMode
<1>7. CASE Reset
  BY <1>7 DEF Reset
<1> QED BY <1>1, <1>2, <1>3, <1>4, <1>5, <1>6, <1>7 DEF Next, CallerStep, vars

\* The transcript State() shows only ever holds complete messages: what message_end
\* commits is never the half-streamed partial.
LEMMA ViewPreserved ==
  ASSUME RunsOK, ViewOK, LocalsOK, WorkInHand, [Next]_vars
  PROVE  ViewOK'
<1> USE DEF ViewOK
<1>0. 0 \in 0..MaxRuns /\ Recorded \in 0..MaxRuns
  BY AgentAssumption DEF RunsOK, Recorded
<1>1. CASE UNCHANGED <<viewVars, eventErr>>
  BY <1>1 DEF viewVars
<1>2. ASSUME NEW c \in Callers, CallerStep(c)
      PROVE  ViewOK'
  <2>1. CASE ContinueCheck(c) \/ Begin(c) \/ InitialPoll(c) \/ SteeringPoll(c)
               \/ FollowUpPoll(c) \/ Call(c) \/ StreamEnd(c) \/ Release(c)
               \/ Abort(c) \/ AbortCancel(c) \/ ContextCancelled(c) \/ WaitForIdle(c)
               \/ WaitReturn(c)
    BY <1>1, <2>1
    DEF ContinueCheck, Begin, InitialPoll, SteeringPoll, FollowUpPoll, Call,
        StreamEnd, Release, Abort, AbortCancel, ContextCancelled, WaitForIdle,
        WaitReturn, viewVars
  <2>2. CASE Prompt(c) \/ ContinueQueued(c)
    <3>1. UNCHANGED <<Messages>>
      BY <2>2 DEF Prompt, ContinueQueued, viewVars, StartRun
    <3>2. IsStreaming' \in BOOLEAN
      BY <2>2 DEF Prompt, ContinueQueued, StartRun
    <3>3. StreamingMessage' \in Transcribed \cup {None, "partial"}
      BY <2>2 DEF Prompt, ContinueQueued, StartRun
    <3>4. ErrorMessage' \in BOOLEAN
      BY <2>2 DEF Prompt, ContinueQueued, StartRun
    <3>5. eventErr' \in 0..MaxRuns
      BY <1>0, <2>2 DEF Prompt, ContinueQueued, StartRun
    <3> QED BY <3>1, <3>2, <3>3, <3>4, <3>5
  <2>3. CASE RunContinuation(c)
    <3>1. UNCHANGED <<Messages>>
      BY <2>3 DEF RunContinuation, viewVars, StartRun
    <3>2. IsStreaming' \in BOOLEAN
      BY <2>3 DEF RunContinuation, StartRun, viewVars
    <3>3. StreamingMessage' \in Transcribed \cup {None, "partial"}
      BY <2>3 DEF RunContinuation, StartRun, viewVars
    <3>4. ErrorMessage' \in BOOLEAN
      BY <2>3 DEF RunContinuation, StartRun, viewVars
    <3>5. eventErr' \in 0..MaxRuns
      BY <1>0, <2>3 DEF RunContinuation, StartRun, viewVars
    <3> QED BY <3>1, <3>2, <3>3, <3>4, <3>5
  <2>4. CASE StartEvents(c) \/ TurnStart(c)
    <3>1. UNCHANGED <<Messages, IsStreaming, StreamingMessage, ErrorMessage>>
      BY <2>4 DEF StartEvents, TurnStart, viewVars
    <3>2. eventErr' \in 0..MaxRuns
      BY <1>0, <2>4 DEF StartEvents, TurnStart, Deliver, LoopFails
    <3> QED BY <3>1, <3>2
  <2>5. CASE MessageStart(c)
    <3>1. UNCHANGED <<Messages, IsStreaming, ErrorMessage>>
      BY <2>5 DEF MessageStart, viewVars
    <3>2. eventErr' \in 0..MaxRuns
      BY <1>0, <2>5 DEF MessageStart, Deliver, LoopFails
    <3>3. StreamingMessage' \in Transcribed \cup {None, "partial"}
      BY <2>5 DEF MessageStart, LocalsOK, WorkInHand, LocalInv, WorkMessages, Transcribed
    <3> QED BY <3>1, <3>2, <3>3
  <2>6. CASE MessageEnd(c)
    <3>1. UNCHANGED <<IsStreaming, ErrorMessage>>
      BY <2>6 DEF MessageEnd, viewVars
    <3>2. eventErr' \in 0..MaxRuns
      BY <1>0, <2>6 DEF MessageEnd, Deliver, LoopFails
    <3>3. StreamingMessage' \in Transcribed \cup {None, "partial"}
      BY <2>6 DEF MessageEnd
    <3>4. Messages' \in Seq(Transcribed)
      BY <2>6 DEF MessageEnd, LocalsOK, WorkInHand, LocalInv, WorkMessages, Transcribed
    <3> QED BY <3>1, <3>2, <3>3, <3>4
  <2>7. CASE StreamStart(c) \/ AgentEnd(c) \/ StreamUpdate(c)
    <3>1. UNCHANGED <<Messages, IsStreaming, ErrorMessage>>
      BY <2>7 DEF StreamStart, AgentEnd, StreamUpdate, viewVars
    <3>2. eventErr' \in 0..MaxRuns
      BY <1>0, <2>7 DEF StreamStart, AgentEnd, StreamUpdate, Deliver, LoopFails
    <3>3. StreamingMessage' \in Transcribed \cup {None, "partial"}
      BY <2>7 DEF StreamStart, AgentEnd, StreamUpdate
    <3> QED BY <3>1, <3>2, <3>3
  <2>8. CASE StreamEndUnstarted(c)
    <3>1. UNCHANGED <<Messages, IsStreaming, ErrorMessage>>
      BY <2>8 DEF StreamEndUnstarted, viewVars
    <3>2. eventErr' \in 0..MaxRuns
      BY <1>0, <2>8 DEF StreamEndUnstarted, Deliver, LoopFails
    <3>3. StreamingMessage' \in Transcribed \cup {None, "partial"}
      BY <2>8 DEF StreamEndUnstarted, Answers, Transcribed
    <3> QED BY <3>1, <3>2, <3>3
  <2>9. CASE AssistantEnd(c)
    <3>1. UNCHANGED <<IsStreaming, ErrorMessage>>
      BY <2>9 DEF AssistantEnd, viewVars
    <3>2. eventErr' \in 0..MaxRuns
      BY <1>0, <2>9 DEF AssistantEnd, Deliver, LoopFails
    <3>3. StreamingMessage' \in Transcribed \cup {None, "partial"}
      BY <2>9 DEF AssistantEnd
    <3>4. Messages' \in Seq(Transcribed)
      BY <2>9 DEF AssistantEnd, WorkInHand, LocalInv, Transcribed
    <3> QED BY <3>1, <3>2, <3>3, <3>4
  <2>10. CASE ExecuteTools(c) \/ TakeEventErr(c)
    <3>1. UNCHANGED <<Messages, IsStreaming, StreamingMessage, ErrorMessage>>
      BY <2>10 DEF ExecuteTools, TakeEventErr, viewVars
    <3>2. eventErr' \in 0..MaxRuns
      BY <1>0, <2>10 DEF ExecuteTools, TakeEventErr
    <3> QED BY <3>1, <3>2
  <2>11. CASE TurnEnd(c)
    <3>1. UNCHANGED <<Messages, IsStreaming, StreamingMessage>>
      BY <2>11 DEF TurnEnd, viewVars
    <3>2. eventErr' \in 0..MaxRuns
      BY <1>0, <2>11 DEF TurnEnd, Deliver, LoopFails
    <3>3. ErrorMessage' \in BOOLEAN
      BY <2>11 DEF TurnEnd
    <3> QED BY <3>1, <3>2, <3>3
  <2>12. CASE PrepareNextTurn(c)
    <3>1. UNCHANGED <<IsStreaming, StreamingMessage, ErrorMessage, eventErr>>
      BY <2>12 DEF PrepareNextTurn, viewVars
    <3>2. Messages' \in Seq(Transcribed)
      <4>1. Messages' = Messages \/ \E first \in 2..Len(ctx[c]) : Messages' = Compacted(ctx[c], first)
        BY <2>12 DEF PrepareNextTurn, Compact
      <4>2. ctx[c] \in Seq(Transcribed) /\ "summary" \in Transcribed
        BY <2>12 DEF PrepareNextTurn, WorkInHand, LocalInv, ContextSteps, Transcribed
      <4>3. \A first \in 2..Len(ctx[c]) : Compacted(ctx[c], first) \in Seq(Transcribed)
        BY <4>2 DEF Compacted
      <4> QED BY <4>1, <4>3
    <3> QED BY <3>1, <3>2
  <2>13. CASE FailMessageStart(c)
    <3>1. UNCHANGED <<Messages, IsStreaming, ErrorMessage>>
      BY <2>13 DEF FailMessageStart, viewVars
    <3>2. eventErr' \in 0..MaxRuns
      BY <1>0, <2>13 DEF FailMessageStart, DeliverFailure
    <3>3. StreamingMessage' \in Transcribed \cup {None, "partial"}
      BY <2>13 DEF FailMessageStart, Transcribed, StopReasons, Truncated
    <3> QED BY <3>1, <3>2, <3>3
  <2>14. CASE FailMessageEnd(c)
    <3>1. UNCHANGED <<IsStreaming, ErrorMessage>>
      BY <2>14 DEF FailMessageEnd, viewVars
    <3>2. eventErr' \in 0..MaxRuns
      BY <1>0, <2>14 DEF FailMessageEnd, DeliverFailure
    <3>3. StreamingMessage' \in Transcribed \cup {None, "partial"}
      BY <2>14 DEF FailMessageEnd
    <3>4. Messages' \in Seq(Transcribed)
      BY <2>14 DEF FailMessageEnd, WorkInHand, LocalInv, Transcribed
    <3> QED BY <3>1, <3>2, <3>3, <3>4
  <2>15. CASE FailTurnEnd(c)
    <3>1. UNCHANGED <<Messages, IsStreaming, StreamingMessage>>
      BY <2>15 DEF FailTurnEnd, viewVars
    <3>2. eventErr' \in 0..MaxRuns
      BY <1>0, <2>15 DEF FailTurnEnd, DeliverFailure
    <3>3. ErrorMessage' \in BOOLEAN
      BY <2>15 DEF FailTurnEnd
    <3> QED BY <3>1, <3>2, <3>3
  <2>16. CASE FailAgentEnd(c)
    <3>1. UNCHANGED <<Messages, IsStreaming, ErrorMessage>>
      BY <2>16 DEF FailAgentEnd, viewVars
    <3>2. eventErr' \in 0..MaxRuns
      BY <1>0, <2>16 DEF FailAgentEnd, DeliverFailure
    <3>3. StreamingMessage' \in Transcribed \cup {None, "partial"}
      BY <2>16 DEF FailAgentEnd
    <3> QED BY <3>1, <3>2, <3>3
  <2>17. CASE FinishRun(c)
    <3>1. UNCHANGED <<Messages, ErrorMessage, eventErr>>
      BY <2>17 DEF FinishRun, viewVars
    <3>2. IsStreaming' \in BOOLEAN
      BY <2>17 DEF FinishRun, Settle
    <3>3. StreamingMessage' \in Transcribed \cup {None, "partial"}
      BY <2>17 DEF FinishRun, Settle
    <3> QED BY <3>1, <3>2, <3>3
  <2> QED BY <1>2, <2>1, <2>2, <2>3, <2>4, <2>5, <2>6, <2>7, <2>8, <2>9, <2>10, <2>11,
     <2>12, <2>13, <2>14, <2>15, <2>16, <2>17
          DEF CallerStep, Enter, LoopStep, FailStep, Leave, Bystander
<1>3. CASE Steer \/ FollowUp \/ ClearQueues \/ SetQueueMode
  BY <1>1, <1>3 DEF Steer, FollowUp, ClearQueues, SetQueueMode, othersOfQueues
<1>4. CASE Reset
  <2>1. <<>> \in Seq(Transcribed)
    OBVIOUS
  <2> QED BY <1>4, <2>1 DEF Reset
<1> QED BY <1>1, <1>2, <1>3, <1>4 DEF Next, CallerStep, vars

\* The loop's own variables (runLoop) keep their types.
LEMMA LocalsPreserved ==
  ASSUME LocalsOK, ViewOK, QueuesOK, WorkInHand, [Next]_vars
  PROVE  LocalsOK'
<1> USE DEF LocalsOK
<1>4. /\ Drained(steeringQueue, steeringMode) \in Seq(WorkMessages)
      /\ Drained(followUpQueue, followUpMode) \in Seq(WorkMessages)
  <2>1. /\ Drained(steeringQueue, steeringMode) \in Seq(UserMessages)
        /\ Drained(followUpQueue, followUpMode) \in Seq(UserMessages)
    BY DrainTypes DEF QueuesOK
  <2> QED BY <2>1 DEF WorkMessages
<1>5. /\ WorkMessages \subseteq ContextMessages
      /\ Transcribed \subseteq ContextMessages
      /\ StopReasons \subseteq ContextMessages
      /\ "summary" \in ContextMessages /\ "partial" \in ContextMessages
  BY DEF Transcribed, WorkMessages, ContextMessages
<1>1. CASE UNCHANGED localVars
  BY <1>1 DEF localVars
<1>2. ASSUME NEW c \in Callers, CallerStep(c)
      PROVE  LocalsOK'
  <2>1. CASE ContinueCheck(c) \/ StartEvents(c) \/ MessageStart(c) \/ TurnStart(c)
               \/ TurnEnd(c) \/ AgentEnd(c) \/ StreamUpdate(c) \/ Release(c)
               \/ Abort(c) \/ AbortCancel(c) \/ ContextCancelled(c) \/ WaitForIdle(c)
               \/ WaitReturn(c)
    BY <1>1, <2>1
    DEF ContinueCheck, StartEvents, MessageStart, TurnStart, TurnEnd, AgentEnd,
        StreamUpdate, Release, Abort, AbortCancel, ContextCancelled, WaitForIdle,
        WaitReturn, localVars
  <2>2. CASE Prompt(c)
    <3>1. UNCHANGED <<phase, ctx, last, more, turns, ret>>
      BY <2>2 DEF Prompt, localVars, StartRun
    <3>2. todo' \in [Callers -> Seq(WorkMessages)]
      BY <2>2 DEF Prompt, StartRun, WorkMessages, UserMessages
    <3>3. skip' \in [Callers -> BOOLEAN]
      BY <2>2 DEF Prompt, StartRun
    <3> QED BY <3>1, <3>2, <3>3
  <2>3. CASE ContinueQueued(c)
    <3>1. UNCHANGED <<phase, ctx, last, more, turns, ret>>
      BY <2>3 DEF ContinueQueued, localVars, StartRun
    <3>2. todo' \in [Callers -> Seq(WorkMessages)]
      BY <2>3, <1>4 DEF ContinueQueued, StartRun
    <3>3. skip' \in [Callers -> BOOLEAN]
      BY <2>3 DEF ContinueQueued, StartRun
    <3> QED BY <3>1, <3>2, <3>3
  <2>4. CASE RunContinuation(c)
    <3>1. UNCHANGED <<phase, ctx, last, more, turns, ret>>
      BY <2>4 DEF RunContinuation, localVars, StartRun
    <3>2. todo' \in [Callers -> Seq(WorkMessages)]
      <4>1. todo' = todo \/ todo' = [todo EXCEPT ![c] = <<>>]
        BY <2>4 DEF RunContinuation, StartRun, localVars
      <4>2. <<>> \in Seq(WorkMessages)
        OBVIOUS
      <4> QED BY <4>1, <4>2
    <3>3. skip' \in [Callers -> BOOLEAN]
      BY <2>4 DEF RunContinuation, StartRun, localVars
    <3> QED BY <3>1, <3>2, <3>3
  <2>5. CASE Begin(c)
    <3>1. UNCHANGED <<todo, last, more, skip, turns, ret>>
      BY <2>5 DEF Begin, localVars
    <3>2. phase' \in [Callers -> {"prompts", "pending", "results"}]
      BY <2>5 DEF Begin
    <3>3. ctx' \in [Callers -> Seq(ContextMessages)]
      <4>1. Messages \in Seq(ContextMessages) /\ todo[c] \in Seq(ContextMessages)
        BY <1>5 DEF ViewOK
      <4>2. ctx' = ctx \/ ctx' = [ctx EXCEPT ![c] = Messages \o todo[c]]
        BY <2>5 DEF Begin
      <4>3. Messages \o todo[c] \in Seq(ContextMessages)
        BY <4>1
      <4> QED BY <4>2, <4>3
    <3> QED BY <3>1, <3>2, <3>3
  <2>6. CASE MessageEnd(c)
    <3>1. UNCHANGED <<phase, last, more, skip, turns, ret>>
      BY <2>6 DEF MessageEnd, localVars
    <3>2. todo' \in [Callers -> Seq(WorkMessages)]
      <4>1. todo' = todo \/ todo' = [todo EXCEPT ![c] = Tail(@)]
        BY <2>6 DEF MessageEnd
      <4>2. todo[c] # <<>>
        BY <2>6 DEF MessageEnd, WorkInHand, LocalInv
      <4>3. Tail(todo[c]) \in Seq(WorkMessages)
        BY <4>2
      <4> QED BY <4>1, <4>3
    <3>3. ctx' \in [Callers -> Seq(ContextMessages)]
      <4>1. ctx' = ctx \/ ctx' = [ctx EXCEPT ![c] = Append(@, Head(todo[c]))]
        BY <2>6 DEF MessageEnd
      <4>2. Head(todo[c]) \in ContextMessages
        BY <1>5, <2>6 DEF MessageEnd, WorkInHand, LocalInv
      <4>3. Append(ctx[c], Head(todo[c])) \in Seq(ContextMessages)
        BY <4>2
      <4> QED BY <4>1, <4>3
    <3> QED BY <3>1, <3>2, <3>3
  <2>7. CASE InitialPoll(c)
    <3>1. UNCHANGED <<ctx, last, more, turns, ret>>
      BY <2>7 DEF InitialPoll, localVars
    <3>2. todo' \in [Callers -> Seq(WorkMessages)]
      BY <2>7, <1>4 DEF InitialPoll
    <3>3. skip' \in [Callers -> BOOLEAN]
      BY <2>7 DEF InitialPoll
    <3>4. phase' \in [Callers -> {"prompts", "pending", "results"}]
      BY <2>7 DEF InitialPoll
    <3> QED BY <3>1, <3>2, <3>3, <3>4
  <2>8. CASE SteeringPoll(c)
    <3>1. UNCHANGED <<ctx, last, more, skip, turns, ret>>
      BY <2>8 DEF SteeringPoll, localVars
    <3>2. todo' \in [Callers -> Seq(WorkMessages)]
      BY <2>8, <1>4 DEF SteeringPoll
    <3>3. phase' \in [Callers -> {"prompts", "pending", "results"}]
      BY <2>8 DEF SteeringPoll
    <3> QED BY <3>1, <3>2, <3>3
  <2>9. CASE FollowUpPoll(c)
    <3>1. UNCHANGED <<phase, ctx, last, more, skip, turns, ret>>
      BY <2>9 DEF FollowUpPoll, localVars
    <3>2. todo' \in [Callers -> Seq(WorkMessages)]
      BY <2>9, <1>4 DEF FollowUpPoll
    <3> QED BY <3>1, <3>2
  <2>10. CASE Call(c)
    <3>1. UNCHANGED <<todo, phase, ctx, last, more, skip, ret>>
      BY <2>10 DEF Call, localVars
    <3>2. turns' \in [Callers -> 0..(MaxTurns + 1)]
      BY <2>10, AgentAssumption DEF Call
    <3> QED BY <3>1, <3>2
  <2>11. CASE StreamStart(c)
    <3>1. UNCHANGED <<todo, phase, last, more, skip, turns, ret>>
      BY <2>11 DEF StreamStart, localVars
    <3>2. ctx' \in [Callers -> Seq(ContextMessages)]
      BY <2>11, <1>5 DEF StreamStart
    <3> QED BY <3>1, <3>2
  <2>12. CASE StreamEnd(c)
    <3>1. UNCHANGED <<todo, phase, more, skip, turns, ret>>
      BY <2>12 DEF StreamEnd, localVars
    <3>2. last' \in [Callers -> StopReasons \cup {None}]
      BY <2>12 DEF StreamEnd, Answers
    <3>3. ctx' \in [Callers -> Seq(ContextMessages)]
      <4>1. PICK m \in Answers(c) : ctx' = [ctx EXCEPT ![c][Len(ctx[c])] = m]
        BY <2>12 DEF StreamEnd
      <4>2. m \in ContextMessages
        BY <1>5 DEF Answers, Transcribed
      <4>3. ctx[c] \in Seq(ContextMessages)
        OBVIOUS
      <4>4. [ctx[c] EXCEPT ![Len(ctx[c])] = m] \in Seq(ContextMessages)
        BY <4>2, <4>3, ReplaceTypes
      <4> QED BY <4>1, <4>4
    <3> QED BY <3>1, <3>2, <3>3
  <2>13. CASE StreamEndUnstarted(c)
    <3>1. UNCHANGED <<todo, phase, more, skip, turns, ret>>
      BY <2>13 DEF StreamEndUnstarted, localVars
    <3>2. last' \in [Callers -> StopReasons \cup {None}]
      BY <2>13 DEF StreamEndUnstarted, Answers
    <3>3. ctx' \in [Callers -> Seq(ContextMessages)]
      BY <2>13, <1>5 DEF StreamEndUnstarted, Answers, Transcribed
    <3> QED BY <3>1, <3>2, <3>3
  <2>14. CASE AssistantEnd(c)
    <3>1. UNCHANGED <<todo, phase, ctx, last, skip, turns, ret>>
      BY <2>14 DEF AssistantEnd, localVars
    <3>2. more' \in [Callers -> BOOLEAN]
      BY <2>14 DEF AssistantEnd
    <3> QED BY <3>1, <3>2
  <2>15. CASE ExecuteTools(c)
    <3>1. UNCHANGED <<ctx, last, skip, turns, ret>>
      BY <2>15 DEF ExecuteTools, localVars
    <3>2. todo' \in [Callers -> Seq(WorkMessages)]
      <4>1. \A n \in 1..MaxCalls : [i \in 1..n |-> "toolResult"] \in Seq(WorkMessages)
        BY AgentAssumption DEF WorkMessages
      <4>2. todo' = todo \/ \E n \in 1..MaxCalls : todo' = [todo EXCEPT ![c] = [i \in 1..n |-> "toolResult"]]
        BY <2>15 DEF ExecuteTools
      <4> QED BY <4>1, <4>2
    <3>3. more' \in [Callers -> BOOLEAN]
      BY <2>15 DEF ExecuteTools
    <3>4. phase' \in [Callers -> {"prompts", "pending", "results"}]
      BY <2>15 DEF ExecuteTools
    <3> QED BY <3>1, <3>2, <3>3, <3>4
  <2>16. CASE PrepareNextTurn(c)
    <3>1. UNCHANGED <<todo, phase, last, more, skip, turns, ret>>
      BY <2>16 DEF PrepareNextTurn, localVars
    <3>2. ctx' \in [Callers -> Seq(ContextMessages)]
      <4>1. ctx' = ctx \/ \E first \in 2..Len(ctx[c]) : ctx' = [ctx EXCEPT ![c] = Compacted(ctx[c], first)]
        BY <2>16 DEF PrepareNextTurn, Compact
      <4>2. \A first \in 2..Len(ctx[c]) : Compacted(ctx[c], first) \in Seq(ContextMessages)
        BY <1>5 DEF Compacted
      <4> QED BY <4>1, <4>2
    <3> QED BY <3>1, <3>2
  <2>17. CASE TakeEventErr(c)
    <3>1. UNCHANGED <<todo, phase, ctx, last, more, skip, turns>>
      BY <2>17 DEF TakeEventErr, localVars
    <3>2. ret' \in [Callers -> {"nil", "error"}]
      BY <2>17 DEF TakeEventErr
    <3> QED BY <3>1, <3>2
  <2>18. CASE FailMessageStart(c)
    <3>1. UNCHANGED <<todo, phase, ctx, more, skip, turns>>
      BY <2>18 DEF FailMessageStart, localVars
    <3>2. last' \in [Callers -> StopReasons \cup {None}]
      BY <2>18 DEF FailMessageStart, StopReasons, Truncated
    <3>3. ret' \in [Callers -> {"nil", "error"}]
      BY <2>18 DEF FailMessageStart, DeliverFailure
    <3> QED BY <3>1, <3>2, <3>3
  <2>19. CASE FailMessageEnd(c) \/ FailTurnEnd(c) \/ FailAgentEnd(c)
    <3>1. UNCHANGED <<todo, phase, ctx, last, more, skip, turns>>
      BY <2>19 DEF FailMessageEnd, FailTurnEnd, FailAgentEnd, localVars
    <3>2. ret' \in [Callers -> {"nil", "error"}]
      BY <2>19 DEF FailMessageEnd, FailTurnEnd, FailAgentEnd, DeliverFailure
    <3> QED BY <3>1, <3>2
  <2>20. CASE FinishRun(c)
    <3>1. UNCHANGED <<phase, ret>>
      BY <2>20 DEF FinishRun, localVars
    <3>2. todo' \in [Callers -> Seq(WorkMessages)]
      BY <2>20 DEF FinishRun
    <3>3. ctx' \in [Callers -> Seq(ContextMessages)]
      BY <2>20 DEF FinishRun
    <3>4. last' \in [Callers -> StopReasons \cup {None}]
      BY <2>20 DEF FinishRun
    <3>5. more' \in [Callers -> BOOLEAN]
      BY <2>20 DEF FinishRun
    <3>6. skip' \in [Callers -> BOOLEAN]
      BY <2>20 DEF FinishRun
    <3>7. turns' \in [Callers -> 0..(MaxTurns + 1)]
      BY <2>20, AgentAssumption DEF FinishRun
    <3> QED BY <3>1, <3>2, <3>3, <3>4, <3>5, <3>6, <3>7
  <2> QED BY <1>2, <2>1, <2>2, <2>3, <2>4, <2>5, <2>6, <2>7, <2>8, <2>9, <2>10, <2>11,
     <2>12, <2>13, <2>14, <2>15, <2>16, <2>17, <2>18, <2>19, <2>20
          DEF CallerStep, Enter, LoopStep, FailStep, Leave, Bystander
<1>3. CASE Steer \/ FollowUp \/ ClearQueues \/ SetQueueMode \/ Reset
  BY <1>1, <1>3 DEF Steer, FollowUp, ClearQueues, SetQueueMode, Reset, othersOfQueues
<1> QED BY <1>1, <1>2, <1>3 DEF Next, CallerStep, vars

\* The history variables and the bounds' counters keep their types.
LEMMA HistoryPreserved ==
  ASSUME HistoryOK, RunsOK, QueuesOK, [Next]_vars
  PROVE  HistoryOK'
<1> USE DEF HistoryOK
<1>1. CASE UNCHANGED <<histVars, boundVars>>
  BY <1>1 DEF histVars, boundVars
<1>2. ASSUME NEW c \in Callers, CallerStep(c)
      PROVE  HistoryOK'
  <2>1. CASE ContinueQueued(c) \/ ContinueCheck(c) \/ RunContinuation(c) \/ Begin(c)
               \/ InitialPoll(c) \/ SteeringPoll(c) \/ FollowUpPoll(c) \/ StreamEnd(c)
               \/ TakeEventErr(c) \/ Release(c) \/ Abort(c) \/ AbortCancel(c)
               \/ ContextCancelled(c) \/ WaitForIdle(c) \/ WaitReturn(c)
    BY <1>1, <2>1
    DEF ContinueQueued, ContinueCheck, RunContinuation, Begin, InitialPoll, SteeringPoll,
        FollowUpPoll, StreamEnd, TakeEventErr, Release, Abort, AbortCancel,
        ContextCancelled, WaitForIdle, WaitReturn, histVars, boundVars, StartRun
  <2>2. CASE Prompt(c)
    <3>1. UNCHANGED <<delivered, cleared, lost, touched, late, failures, resets, compactions>>
      BY <2>2 DEF Prompt, histVars, boundVars, StartRun
    <3>2. sent' \in Seq(UserMessages)
      BY <2>2 DEF Prompt, StartRun, UserMessages
    <3> QED BY <3>1, <3>2
  <2>3. CASE StartEvents(c) \/ MessageStart(c) \/ TurnStart(c) \/ StreamStart(c) \/ StreamEndUnstarted(c)
    <3>1. UNCHANGED <<sent, delivered, cleared, lost, touched, late, resets, compactions>>
      BY <2>3 DEF StartEvents, MessageStart, TurnStart, StreamStart, StreamEndUnstarted,
         histVars, boundVars
    <3>2. failures' \in Nat
      <4>1. failures' = failures \/ failures' = failures + 1
        BY <2>3 DEF StartEvents, MessageStart, TurnStart, StreamStart, StreamEndUnstarted,
           Deliver, LoopFails
      <4> QED BY <4>1
    <3> QED BY <3>1, <3>2
  <2>4. CASE AssistantEnd(c) \/ TurnEnd(c) \/ AgentEnd(c) \/ StreamUpdate(c)
    <3>1. UNCHANGED <<sent, delivered, cleared, lost, touched, late, resets, compactions>>
      BY <2>4 DEF AssistantEnd, TurnEnd, AgentEnd, StreamUpdate, histVars, boundVars
    <3>2. failures' \in Nat
      <4>1. failures' = failures \/ failures' = failures + 1
        BY <2>4 DEF AssistantEnd, TurnEnd, AgentEnd, StreamUpdate, Deliver, LoopFails
      <4> QED BY <4>1
    <3> QED BY <3>1, <3>2
  <2>5. CASE MessageEnd(c)
    <3>1. UNCHANGED <<sent, cleared, lost, touched, late, resets, compactions>>
      BY <2>5 DEF MessageEnd, histVars, boundVars
    <3>2. delivered' \in Seq(UserMessages)
      BY <2>5 DEF MessageEnd
    <3>3. failures' \in Nat
      <4>1. failures' = failures \/ failures' = failures + 1
        BY <2>5 DEF MessageEnd, Deliver, LoopFails
      <4> QED BY <4>1
    <3> QED BY <3>1, <3>2, <3>3
  <2>6. CASE Call(c)
    <3>1. UNCHANGED <<sent, delivered, cleared, lost, touched, resets, compactions>>
      BY <2>6 DEF Call, histVars, boundVars
    <3>2. late' \in [Callers -> Nat]
      BY <2>6 DEF Call
    <3>3. failures' \in Nat
      BY <2>6 DEF Call, LoopFails
    <3> QED BY <3>1, <3>2, <3>3
  <2>7. CASE ExecuteTools(c)
    <3>1. UNCHANGED <<sent, delivered, cleared, lost, touched, late, resets, compactions>>
      BY <2>7 DEF ExecuteTools, histVars, boundVars
    <3>2. failures' \in Nat
      BY <2>7 DEF ExecuteTools, LoopFails
    <3> QED BY <3>1, <3>2
  <2>8. CASE PrepareNextTurn(c)
    <3>1. UNCHANGED <<sent, delivered, cleared, lost, touched, late, resets>>
      BY <2>8 DEF PrepareNextTurn, histVars, boundVars
    <3>2. failures' \in Nat
      BY <2>8 DEF PrepareNextTurn, LoopFails
    <3>3. compactions' \in Nat
      BY <2>8 DEF PrepareNextTurn
    <3> QED BY <3>1, <3>2, <3>3
  <2>9. CASE FailMessageStart(c) \/ FailMessageEnd(c) \/ FailTurnEnd(c) \/ FailAgentEnd(c)
    <3>1. UNCHANGED <<sent, delivered, cleared, lost, touched, late, resets, compactions>>
      BY <2>9 DEF FailMessageStart, FailMessageEnd, FailTurnEnd, FailAgentEnd, histVars,
         boundVars
    <3>2. failures' \in Nat
      BY <2>9 DEF FailMessageStart, FailMessageEnd, FailTurnEnd, FailAgentEnd, DeliverFailure
    <3> QED BY <3>1, <3>2
  <2>10. CASE FinishRun(c)
    <3>1. UNCHANGED <<sent, delivered, cleared, touched, failures, resets, compactions>>
      BY <2>10 DEF FinishRun, histVars, boundVars
    <3>2. lost' \in SUBSET UserMessages
      BY <2>10 DEF FinishRun
    <3>3. late' \in [Callers -> Nat]
      BY <2>10 DEF FinishRun
    <3> QED BY <3>1, <3>2, <3>3
  <2> QED BY <1>2, <2>1, <2>2, <2>3, <2>4, <2>5, <2>6, <2>7, <2>8, <2>9, <2>10
          DEF CallerStep, Enter, LoopStep, FailStep, Leave, Bystander
<1>3. CASE Steer
  <2>1. sent' \in Seq(UserMessages)
    BY <1>3 DEF Steer, UserMessages
  <2> QED BY <1>3, <2>1 DEF Steer, othersOfQueues
<1>4. CASE FollowUp
  <2>1. sent' \in Seq(UserMessages)
    BY <1>4 DEF FollowUp, UserMessages
  <2> QED BY <1>4, <2>1 DEF FollowUp, othersOfQueues
<1>5. Elements(steeringQueue) \subseteq UserMessages /\ Elements(followUpQueue) \subseteq UserMessages
  BY DEF Elements, QueuesOK
<1>6. CASE ClearQueues
  <2>1. cleared' \subseteq UserMessages
    BY <1>5, <1>6 DEF ClearQueues
  <2> QED BY <1>6, <2>1 DEF ClearQueues, othersOfQueues
<1>7. CASE SetQueueMode
  BY <1>7 DEF SetQueueMode, othersOfQueues
<1>8. CASE Reset
  <2>1. cleared' \subseteq UserMessages
    BY <1>5, <1>8 DEF Reset
  <2>2. touched' \subseteq 0..MaxRuns
    BY <1>8 DEF Reset, RunsOK
  <2> QED BY <1>8, <2>1, <2>2 DEF Reset
<1> QED BY <1>1, <1>2, <1>3, <1>4, <1>6, <1>7, <1>8 DEF Next, CallerStep, vars

\* A goroutine's step leaves the position and the locals of every other one alone.
LEMMA OwnLocals ==
  ASSUME RunsOK, LocalsOK, NEW c \in Callers, CallerStep(c), NEW d \in Callers, d # c
  PROVE  pc'[d] = pc[d] /\ todo'[d] = todo[d] /\ last'[d] = last[d] /\ ctx'[d] = ctx[d]
<1> USE DEF Goto, localVars, RunsOK, LocalsOK
<1>1. CASE Prompt(c) \/ ContinueQueued(c) \/ ContinueCheck(c) \/ RunContinuation(c)
  BY <1>1 DEF Prompt, ContinueQueued, ContinueCheck, RunContinuation, StartRun
<1>2. CASE Begin(c) \/ InitialPoll(c) \/ SteeringPoll(c) \/ FollowUpPoll(c)
  BY <1>2 DEF Begin, InitialPoll, SteeringPoll, FollowUpPoll
<1>3. CASE StreamEnd(c) \/ TakeEventErr(c) \/ FinishRun(c) \/ Release(c)
  BY <1>3 DEF StreamEnd, TakeEventErr, FinishRun, Release
<1>4. CASE Abort(c) \/ AbortCancel(c) \/ ContextCancelled(c) \/ WaitForIdle(c)
  BY <1>4 DEF Abort, AbortCancel, ContextCancelled, WaitForIdle
<1>5. CASE WaitReturn(c)
  BY <1>5 DEF WaitReturn
<1>6. CASE StartEvents(c) \/ MessageStart(c)
  BY <1>6 DEF StartEvents, MessageStart, Deliver, LoopFails
<1>12. CASE TurnStart(c)
  BY <1>12 DEF TurnStart, Deliver, LoopFails
<1>13. CASE MessageEnd(c)
  <2>1. last' = last
    BY <1>13 DEF MessageEnd
  <2>2. \E l : pc' = [pc EXCEPT ![c] = l]
    BY <1>13 DEF MessageEnd, Deliver, LoopFails
  <2>3. /\ todo' = todo \/ \E t : todo' = [todo EXCEPT ![c] = t]
        /\ ctx' = ctx \/ \E t : ctx' = [ctx EXCEPT ![c] = t]
    BY <1>13 DEF MessageEnd
  <2> QED BY <2>1, <2>2, <2>3
<1>7. CASE StreamStart(c) \/ StreamEndUnstarted(c) \/ AssistantEnd(c) \/ TurnEnd(c)
  BY <1>7 DEF StreamStart, StreamEndUnstarted, AssistantEnd, TurnEnd, Deliver, LoopFails
<1>8. CASE AgentEnd(c) \/ StreamUpdate(c)
  BY <1>8 DEF AgentEnd, StreamUpdate, Deliver, LoopFails
<1>9. CASE Call(c) \/ ExecuteTools(c)
  BY <1>9 DEF Call, ExecuteTools, LoopFails
<1>10. CASE PrepareNextTurn(c)
  BY <1>10 DEF PrepareNextTurn, LoopFails, Compact
<1>11. CASE FailMessageStart(c) \/ FailMessageEnd(c) \/ FailTurnEnd(c) \/ FailAgentEnd(c)
  BY <1>11 DEF FailMessageStart, FailMessageEnd, FailTurnEnd, FailAgentEnd, DeliverFailure
<1> QED BY <1>1, <1>2, <1>3, <1>4, <1>5, <1>6, <1>7, <1>8, <1>9, <1>10, <1>11,
          <1>12, <1>13
       DEF CallerStep, Enter, LoopStep, FailStep, Leave, Bystander

\* Every step of runLoop leaves the locals as the next step expects them.
LEMMA WorkPreserved ==
  ASSUME RunsOK, ViewOK, LocalsOK, QueuesOK, WorkInHand, [Next]_vars
  PROVE  WorkInHand'
<1>1. CASE UNCHANGED <<pc, localVars>>
  BY <1>1 DEF WorkInHand, LocalInv, localVars
<1>2. ASSUME NEW c \in Callers, CallerStep(c)
      PROVE  LocalInv(c)'
  <2> USE DEF Goto, RunsOK, LocalsOK
  <2>0. LocalInv(c)
    BY DEF WorkInHand
  <2>1. CASE Begin(c)
    <3>1. Messages \o todo[c] \in Seq(Transcribed)
      <4>1. Messages \in Seq(Transcribed) /\ todo[c] \in Seq(Transcribed)
        BY DEF ViewOK, WorkMessages, Transcribed
      <4> QED BY <4>1
    <3>2. \/ pc'[c] = "fail"
          \/ pc'[c] = "agentStart" /\ ctx'[c] = Messages \o todo[c]
      BY <2>1 DEF Begin
    <3> QED BY <3>1, <3>2 DEF LocalInv, ContextSteps
  <2>2. CASE MessageEnd(c)
    <3>1. todo[c] # <<>> /\ ctx[c] \in Seq(Transcribed) /\ Head(todo[c]) \in Transcribed
      <4>1. todo[c] # <<>> /\ ctx[c] \in Seq(Transcribed)
        BY <2>0, <2>2 DEF MessageEnd, LocalInv, ContextSteps
      <4> QED BY <4>1 DEF WorkMessages, Transcribed
    <3>2. \/ pc'[c] = "fail"
          \/ /\ pc'[c] \in {"poll0", "call", "turnEnd", "msgStart"}
             /\ ctx'[c] = ctx[c] \/ ctx'[c] = Append(ctx[c], Head(todo[c]))
             /\ todo'[c] = Tail(todo[c])
             /\ pc'[c] = "msgStart" => Len(todo[c]) > 1
      BY <2>2 DEF MessageEnd, AfterMessages, Deliver, LoopFails
    <3>3. Append(ctx[c], Head(todo[c])) \in Seq(Transcribed)
      BY <3>1
    <3>4. Len(todo[c]) > 1 => Tail(todo[c]) # <<>>
      BY TailNotEmpty
    <3> QED BY <3>1, <3>2, <3>3, <3>4 DEF LocalInv, ContextSteps
  <2>3. CASE InitialPoll(c)
    <3>1. Drained(steeringQueue, steeringMode) = <<>> <=> steeringQueue = <<>>
      BY DrainTypes DEF QueuesOK
    <3>2. /\ pc'[c] = "call" \/ (pc'[c] = "msgStart" /\ todo'[c] # <<>>)
          /\ ctx'[c] = ctx[c]
      BY <2>3, <3>1 DEF InitialPoll
    <3> QED BY <2>0, <2>3, <3>2 DEF InitialPoll, LocalInv, ContextSteps
  <2>4. CASE StreamStart(c)
    <3>1. ctx[c] \in Seq(Transcribed)
      BY <2>0, <2>4 DEF StreamStart, LocalInv, ContextSteps
    <3>2. pc'[c] \in {"partial", "fail"} /\ ctx'[c] = Append(ctx[c], "partial")
      BY <2>4 DEF StreamStart, Deliver, LoopFails
    <3>3. /\ Append(ctx[c], "partial") # <<>>
          /\ \A i \in 1..(Len(Append(ctx[c], "partial")) - 1) :
               Append(ctx[c], "partial")[i] \in Transcribed
      BY <3>1, AppendKeeps
    <3> QED BY <3>2, <3>3 DEF LocalInv, ContextSteps
  <2>5. CASE StreamEnd(c)
    <3>1. ctx[c] # <<>> /\ \A i \in 1..(Len(ctx[c]) - 1) : ctx[c][i] \in Transcribed
      BY <2>0, <2>5 DEF StreamEnd, LocalInv
    <3>2. PICK m \in Answers(c) : /\ last'[c] = m
                                 /\ ctx'[c] = [ctx[c] EXCEPT ![Len(ctx[c])] = m]
                                 /\ pc'[c] = "final"
      BY <2>5 DEF StreamEnd
    <3>3. m \in StopReasons /\ m \in Transcribed
      BY DEF Answers, Transcribed
    <3>4. [ctx[c] EXCEPT ![Len(ctx[c])] = m] \in [1..Len(ctx[c]) -> Transcribed]
      <4>1. ctx[c] \in Seq(ContextMessages)
        OBVIOUS
      <4>2. DOMAIN ctx[c] = 1..Len(ctx[c]) /\ Len(ctx[c]) \in Nat
        BY <4>1
      <4> QED BY <3>1, <3>3, <4>1, <4>2
    <3>5. [ctx[c] EXCEPT ![Len(ctx[c])] = m] \in Seq(Transcribed)
      <4>1. Len(ctx[c]) \in Nat
        OBVIOUS
      <4> HIDE DEF RunsOK, LocalsOK, Goto
      <4> QED BY <3>4, <4>1, SeqDef
    <3> QED BY <3>2, <3>3, <3>5 DEF LocalInv
  <2>6. CASE StreamEndUnstarted(c)
    <3>1. ctx[c] \in Seq(Transcribed)
      BY <2>0, <2>6 DEF StreamEndUnstarted, LocalInv, ContextSteps
    <3>2. PICK m \in Answers(c) : /\ last'[c] = m
                                 /\ ctx'[c] = Append(ctx[c], m)
                                 /\ pc'[c] \in {"final", "fail"}
      BY <2>6 DEF StreamEndUnstarted, Deliver, LoopFails
    <3>3. m \in StopReasons /\ m \in Transcribed
      BY DEF Answers, Transcribed
    <3>4. Append(ctx[c], m) \in Seq(Transcribed)
      BY <3>1, <3>3
    <3> QED BY <3>2, <3>3, <3>4 DEF LocalInv
  <2>7. CASE PrepareNextTurn(c)
    <3>1. ctx[c] \in Seq(Transcribed) /\ "summary" \in Transcribed
      BY <2>0, <2>7 DEF PrepareNextTurn, LocalInv, ContextSteps, Transcribed
    <3>2. /\ pc'[c] \in {"poll", "fail"}
          /\ ctx'[c] = ctx[c] \/ \E first \in 2..Len(ctx[c]) : ctx'[c] = Compacted(ctx[c], first)
      BY <2>7 DEF PrepareNextTurn, Compact, LoopFails
    <3>3. \A first \in 2..Len(ctx[c]) : Compacted(ctx[c], first) \in Seq(Transcribed)
      BY <3>1 DEF Compacted
    <3> QED BY <3>1, <3>2, <3>3 DEF LocalInv
  <2>8. CASE FailMessageStart(c)
    <3>1. pc'[c] \in {"failEnd", "finish"} /\ last'[c] \in StopReasons
      BY <2>8 DEF FailMessageStart, DeliverFailure, StopReasons, Truncated
    <3> QED BY <3>1 DEF LocalInv, ContextSteps
  <2>9. CASE Prompt(c) \/ ContinueQueued(c) \/ ContinueCheck(c) \/ RunContinuation(c)
    BY <2>0, <2>9
    DEF Prompt, ContinueQueued, ContinueCheck, RunContinuation, LocalInv, ContextSteps,
       localVars, StartRun
  <2>10. CASE StartEvents(c) \/ MessageStart(c) \/ TurnStart(c) \/ AssistantEnd(c)
    BY <2>0, <2>10
    DEF StartEvents, MessageStart, TurnStart, AssistantEnd, LocalInv, ContextSteps,
       localVars, Deliver, LoopFails
  <2>11. CASE TurnEnd(c) \/ AgentEnd(c) \/ StreamUpdate(c)
    BY <2>0, <2>11
    DEF TurnEnd, AgentEnd, StreamUpdate, LocalInv, ContextSteps, localVars, Deliver, LoopFails
  <2>12. CASE SteeringPoll(c) \/ FollowUpPoll(c) \/ TakeEventErr(c) \/ FinishRun(c)
    BY <2>0, <2>12
    DEF SteeringPoll, FollowUpPoll, TakeEventErr, FinishRun, LocalInv, ContextSteps, localVars
  <2>13. CASE Release(c) \/ Abort(c) \/ AbortCancel(c) \/ ContextCancelled(c)
    BY <2>0, <2>13
    DEF Release, Abort, AbortCancel, ContextCancelled, LocalInv, ContextSteps, localVars
  <2>14. CASE WaitForIdle(c) \/ WaitReturn(c)
    BY <2>0, <2>14
    DEF WaitForIdle, WaitReturn, LocalInv, ContextSteps, localVars
  <2>15. CASE Call(c) \/ ExecuteTools(c)
    BY <2>0, <2>15
    DEF Call, ExecuteTools, LocalInv, ContextSteps, localVars, LoopFails
  <2>16. CASE FailMessageEnd(c) \/ FailTurnEnd(c) \/ FailAgentEnd(c)
    BY <2>0, <2>16
    DEF FailMessageEnd, FailTurnEnd, FailAgentEnd, LocalInv, ContextSteps, localVars,
       DeliverFailure
  <2> QED BY <1>2, <2>1, <2>2, <2>3, <2>4, <2>5, <2>6, <2>7, <2>8, <2>9, <2>10, <2>11,
     <2>12, <2>13, <2>14, <2>15, <2>16
          DEF CallerStep, Enter, LoopStep, FailStep, Leave, Bystander
<1>3. ASSUME NEW c \in Callers, CallerStep(c)
      PROVE  WorkInHand'
  <2>1. ASSUME NEW d \in Callers, d # c
        PROVE  LocalInv(d)'
    BY <1>3, <2>1, OwnLocals DEF WorkInHand, LocalInv
  <2> QED BY <1>2, <1>3, <2>1 DEF WorkInHand
<1>4. CASE Steer \/ FollowUp \/ ClearQueues \/ SetQueueMode \/ Reset
  BY <1>1, <1>4 DEF Steer, FollowUp, ClearQueues, SetQueueMode, Reset, othersOfQueues
<1> QED BY <1>1, <1>3, <1>4 DEF Next, CallerStep, vars

TypeInv == RunInv /\ ViewOK /\ QueuesOK /\ LocalsOK /\ HistoryOK /\ WorkInHand

\* A new Agent has empty queues, the transcript it is given and no loop.
LEMMA TypeInvInit == Init => TypeInv
<1> SUFFICES ASSUME Init PROVE TypeInv
  OBVIOUS
<1>1. RunInv
  BY RunInvInit
<1>2. ViewOK
  <2>1. {"user", "toolResult"} \cup StopReasons \subseteq Transcribed
    BY DEF Transcribed
  <2>2. InitialMessages \in Seq(Transcribed)
    BY <2>1, AgentAssumption, SeqMonotonic
  <2>3. 0 \in 0..MaxRuns
    BY AgentAssumption
  <2> QED BY <2>2, <2>3 DEF Init, ViewOK
<1>3. QueuesOK
  BY AgentAssumption DEF Init, QueuesOK
<1>4. LocalsOK
  BY AgentAssumption DEF Init, LocalsOK
<1>5. HistoryOK
  BY DEF Init, HistoryOK
<1>6. WorkInHand
  BY DEF Init, WorkInHand, LocalInv, ContextSteps
<1> QED BY <1>1, <1>2, <1>3, <1>4, <1>5, <1>6 DEF TypeInv

\* The types, the slot and the loop's locals hold together in every reachable state.
THEOREM TypeInvariant == Spec => []TypeInv
<1>1. TypeInv /\ [Next]_vars => TypeInv'
  BY RunInvStep, ViewPreserved, QueuesPreserved, LocalsPreserved, HistoryPreserved,
     WorkPreserved DEF TypeInv, RunInv
<1> QED BY <1>1, TypeInvInit, PTL DEF Spec

\* No step of runtime.go or loop.go takes a variable out of its type: what Abort and
\* finishRun cancel is a run, and what is committed to the transcript is a message.
THEOREM TypeCorrect == Spec => []TypeOK
<1>1. TypeInv => TypeOK
  BY DEF TypeInv, RunInv, TypeOK
<1> QED BY <1>1, TypeInvariant, PTL

-----------------------------------------------------------------------------
\* Where a run that has called its provider after being cancelled can be: waiting for
\* that call, on the branch of runLoop a truncated answer takes, or failing.
LateOf(c) ==
  late[c] > 0 =>
    /\ late[c] = 1
    /\ \/ pc[c] \in {"response", "partial"}
       \/ pc[c] \in {"final", "turnEnd"} /\ last[c] \in Truncated
       \/ pc[c] \in {"agentEnd", "take", "fail", "failEnd", "failTurn", "failAgentEnd", "finish"}

LateInv == \A c \in Callers : LateOf(c)

\* A goroutine's step leaves the other goroutines' count of late calls alone.
LEMMA OwnLate ==
  ASSUME HistoryOK, NEW c \in Callers, CallerStep(c), NEW d \in Callers, d # c
  PROVE  late'[d] = late[d]
<1>1. CASE Call(c)
  BY <1>1 DEF Call, HistoryOK
<1>2. CASE FinishRun(c)
  BY <1>2 DEF FinishRun, HistoryOK
<1>3. CASE Enter(c)
  BY <1>3 DEF Enter, Prompt, ContinueQueued, ContinueCheck, RunContinuation, StartRun, histVars
<1>4. CASE Begin(c) \/ StartEvents(c) \/ MessageStart(c) \/ MessageEnd(c) \/ InitialPoll(c)
  BY <1>4 DEF Begin, StartEvents, MessageStart, MessageEnd, InitialPoll, histVars
<1>5. CASE SteeringPoll(c) \/ FollowUpPoll(c) \/ TurnStart(c) \/ StreamStart(c) \/ StreamEnd(c)
  BY <1>5 DEF SteeringPoll, FollowUpPoll, TurnStart, StreamStart, StreamEnd, histVars
<1>6. CASE StreamEndUnstarted(c) \/ AssistantEnd(c) \/ ExecuteTools(c) \/ TurnEnd(c)
  BY <1>6 DEF StreamEndUnstarted, AssistantEnd, ExecuteTools, TurnEnd, histVars
<1>7. CASE PrepareNextTurn(c) \/ AgentEnd(c) \/ TakeEventErr(c) \/ StreamUpdate(c) \/ Release(c)
  BY <1>7 DEF PrepareNextTurn, AgentEnd, TakeEventErr, StreamUpdate, Release, histVars
<1>8. CASE FailStep(c)
  BY <1>8 DEF FailStep, FailMessageStart, FailMessageEnd, FailTurnEnd, FailAgentEnd, histVars
<1>9. CASE Bystander(c)
  BY <1>9 DEF Bystander, Abort, AbortCancel, ContextCancelled, WaitForIdle, WaitReturn,
     histVars
<1> QED BY <1>1, <1>2, <1>3, <1>4, <1>5, <1>6, <1>7, <1>8, <1>9 DEF CallerStep, LoopStep, Leave

\* runLoop ends the run on the first answer after its context was cancelled.
LEMMA LateStep ==
  ASSUME TypeInv, LateInv, [Next]_vars
  PROVE  LateInv'
<1>1. CASE UNCHANGED <<late, pc, last>>
  BY <1>1 DEF LateInv, LateOf
<1>2. ASSUME NEW c \in Callers, CallerStep(c)
      PROVE  LateOf(c)'
  <2>1. LateOf(c) /\ late[c] \in Nat /\ late \in [Callers -> Nat] /\ last \in [Callers -> StopReasons \cup {None}]
        /\ pc \in [Callers -> Locations]
    BY DEF LateInv, TypeInv, RunInv, RunsOK, LocalsOK, HistoryOK
  <2> USE DEF LateOf, Goto
  <2>2. CASE Enter(c)
    <3>1. late[c] = 0 /\ late' = late
      BY <2>1, <2>2 DEF Enter, Prompt, ContinueQueued, ContinueCheck, RunContinuation,
         StartRun, histVars
    <3> QED BY <3>1
  <2>3. CASE Call(c)
    <3>1. late[c] = 0 /\ pc'[c] \in {"response", "fail"} /\ late'[c] \in {0, 1}
      BY <2>1, <2>3 DEF Call, LoopFails
    <3> QED BY <3>1
  <2>4. CASE Begin(c) \/ StartEvents(c) \/ MessageStart(c) \/ MessageEnd(c) \/ InitialPoll(c)
             \/ SteeringPoll(c) \/ FollowUpPoll(c) \/ TurnStart(c) \/ ExecuteTools(c)
             \/ PrepareNextTurn(c)
    <3>1. late[c] = 0 /\ late' = late
      BY <2>1, <2>4
      DEF Begin, StartEvents, MessageStart, MessageEnd, InitialPoll, SteeringPoll,
          FollowUpPoll, TurnStart, ExecuteTools, PrepareNextTurn, histVars
    <3> QED BY <3>1
  <2>5. CASE StreamStart(c) \/ StreamUpdate(c)
    <3>1. pc'[c] \in {"partial", "fail"} /\ late' = late
      BY <2>1, <2>5 DEF StreamStart, StreamUpdate, Deliver, LoopFails, histVars
    <3> QED BY <2>1, <3>1
  <2>6. CASE StreamEnd(c) \/ StreamEndUnstarted(c)
    <3>1. /\ pc'[c] \in {"final", "fail"} /\ late' = late
          /\ late[c] > 0 => last'[c] \in Truncated
      BY <2>1, <2>6 DEF StreamEnd, StreamEndUnstarted, Answers, Deliver, LoopFails, histVars
    <3> QED BY <2>1, <3>1
  <2>7. CASE AssistantEnd(c)
    <3>1. /\ pc'[c] \in {"turnEnd", "fail"} \/ last[c] = "toolUse"
          /\ late' = late /\ last' = last /\ pc[c] = "final"
      BY <2>1, <2>7 DEF AssistantEnd, Deliver, LoopFails, histVars
    <3>2. late[c] > 0 => last[c] # "toolUse"
      BY <2>1, <3>1 DEF Truncated
    <3> QED BY <2>1, <3>1, <3>2
  <2>8. CASE TurnEnd(c)
    <3>1. /\ pc'[c] \in {"agentEnd", "fail"} \/ last[c] \notin Truncated
          /\ late' = late /\ pc[c] = "turnEnd"
      BY <2>1, <2>8 DEF TurnEnd, Deliver, LoopFails, histVars
    <3> QED BY <2>1, <3>1
  <2>9. CASE AgentEnd(c) \/ TakeEventErr(c) \/ FailStep(c)
    <3>1. /\ pc'[c] \in {"take", "fail", "failEnd", "failTurn", "failAgentEnd", "finish"}
          /\ late' = late
      BY <2>1, <2>9 DEF AgentEnd, TakeEventErr, FailStep, FailMessageStart, FailMessageEnd,
                        FailTurnEnd, FailAgentEnd, Deliver, DeliverFailure, LoopFails, histVars
    <3> QED BY <2>1, <3>1
  <2>10. CASE FinishRun(c)
    BY <2>1, <2>10 DEF FinishRun
  <2>11. CASE Release(c) \/ Abort(c) \/ AbortCancel(c) \/ WaitForIdle(c) \/ WaitReturn(c)
    <3>1. late[c] = 0 /\ late' = late
      BY <2>1, <2>11 DEF Release, Abort, AbortCancel, WaitForIdle, WaitReturn, histVars
    <3> QED BY <3>1
  <2>12. CASE ContextCancelled(c)
    BY <2>1, <2>12 DEF ContextCancelled, histVars, localVars
  <2> QED BY <1>2, <2>2, <2>3, <2>4, <2>5, <2>6, <2>7, <2>8, <2>9, <2>10, <2>11, <2>12
          DEF CallerStep, LoopStep, Leave, Bystander
<1>3. ASSUME NEW c \in Callers, CallerStep(c)
      PROVE  LateInv'
  <2>1. ASSUME NEW d \in Callers, d # c
        PROVE  LateOf(d)'
    <3>1. pc'[d] = pc[d] /\ last'[d] = last[d] /\ late'[d] = late[d]
      BY <1>3, <2>1, OwnLocals, OwnLate DEF TypeInv, RunInv
    <3> QED BY <3>1 DEF LateInv, LateOf
  <2> QED BY <1>2, <1>3, <2>1 DEF LateInv
<1>4. CASE Steer \/ FollowUp \/ ClearQueues \/ SetQueueMode \/ Reset
  BY <1>1, <1>4 DEF Steer, FollowUp, ClearQueues, SetQueueMode, Reset, othersOfQueues,
     localVars
<1> QED BY <1>1, <1>3, <1>4 DEF Next, CallerStep, vars, localVars, histVars

\* After its context is cancelled a run makes at most one more provider call, whatever
\* the queues hold and whatever the cancelled call answers (runLoop, loop.go).
THEOREM CancelStopsTheLoopAlways == Spec => []CancelStopsTheLoop
<1>1. Init => LateInv
  BY DEF Init, LateInv, LateOf
<1>2. TypeInv /\ LateInv /\ [Next]_vars => LateInv'
  BY LateStep
<1>3. TypeInv /\ LateInv => CancelStopsTheLoop
  <2> SUFFICES ASSUME TypeInv, LateInv, NEW c \in Callers PROVE late[c] <= 1
    BY DEF CancelStopsTheLoop
  <2>1. LateOf(c) /\ late[c] \in Nat
    BY DEF LateInv, TypeInv, HistoryOK
  <2> QED BY <2>1 DEF LateOf
<1> QED BY <1>1, <1>2, <1>3, TypeInvariant, PTL DEF Spec

(***************************************************************************)
(* What the loop works on.                                                 *)
(***************************************************************************)
\* A user's message is not the stop reason of an answer.
MessagesDiffer == UserMessages \cap StopReasons = {}

(***************************************************************************)
(* Sequences.                                                              *)
(***************************************************************************)
\* Committing the first message of a batch: the transcript with the rest of the batch
\* is what it was with the whole batch (MessageEnd).
LEMMA CommitFirst ==
  ASSUME NEW S, NEW s \in Seq(S), NEW q \in Seq(S), q # <<>>
  PROVE  s \o q = Append(s, Head(q)) \o Tail(q)
<1>1. /\ Head(q) \in S /\ Head(q) = q[1] /\ Tail(q) \in Seq(S)
      /\ Len(q) \in Nat \ {0} /\ Len(Tail(q)) = Len(q) - 1
      /\ \A i \in 1..Len(Tail(q)) : Tail(q)[i] = q[i + 1]
  BY EmptySeq, HeadTailProperties
<1> DEFINE h == Head(q)
           t == Tail(q)
           one == <<h>>
           r == one \o t
<1>2. one \in Seq(S) /\ Len(one) = 1 /\ one[1] = h
  BY <1>1
<1> HIDE DEF h, t, one
<1>3. t \in Seq(S) /\ h \in S
  BY <1>1 DEF h, t
<1>4. /\ r \in Seq(S) /\ Len(r) = Len(one) + Len(t)
      /\ \A i \in 1..(Len(one) + Len(t)) : r[i] = IF i <= Len(one) THEN one[i] ELSE t[i - Len(one)]
  BY <1>2, <1>3, ConcatProperties
<1> HIDE DEF r
<1>5. Len(r) = Len(q) /\ \A i \in 1..Len(q) : r[i] = q[i]
  BY <1>1, <1>2, <1>4 DEF h, t
<1>6. r = q
  BY <1>4, <1>5, SeqEqual
<1>7. Append(s, h) = s \o one
  BY <1>3, AppendIsConcat, Zenon DEF one
<1>8. (s \o one) \o t = s \o r
  <2>1. \A u, v, w \in Seq(S) : (u \o v) \o w = u \o (v \o w)
    BY ConcatAssociative, SMTT(20)
  <2>2. (s \o one) \o t = s \o (one \o t)
    BY <1>2, <1>3, <2>1, Zenon
  <2> QED BY <2>2, Zenon DEF r
<1> QED BY <1>6, <1>7, <1>8, Zenon DEF h, t

\* The last message of a batch leaves nothing behind it.
LEMMA CommitLast ==
  ASSUME NEW S, NEW q \in Seq(S), q # <<>>, ~(Len(q) > 1)
  PROVE  Tail(q) = <<>>
<1>1. Len(q) \in Nat \ {0} /\ Tail(q) \in Seq(S) /\ Len(Tail(q)) = Len(q) - 1
  BY EmptySeq, HeadTailProperties
<1>2. Len(Tail(q)) = 0
  BY <1>1
<1> QED BY <1>1, <1>2, EmptySeq

\* The final message takes the place of the half-streamed one (StreamEnd).
LEMMA ReplaceLast ==
  ASSUME NEW S, NEW s \in Seq(S), NEW x \in S, NEW m \in S
  PROVE  [Append(s, x) EXCEPT ![Len(Append(s, x))] = m] = Append(s, m)
<1>1. Len(Append(s, x)) = Len(s) + 1 /\ Len(s) \in Nat
  OBVIOUS
<1>2. /\ Append(s, x) \in Seq(S) /\ Append(s, m) \in Seq(S) /\ Len(Append(s, m)) = Len(s) + 1
      /\ \A i \in 1..Len(s) : Append(s, x)[i] = s[i] /\ Append(s, m)[i] = s[i]
      /\ Append(s, m)[Len(s) + 1] = m
  OBVIOUS
<1> DEFINE l == [Append(s, x) EXCEPT ![Len(Append(s, x))] = m]
<1>3. l \in Seq(S)
  BY <1>2, ReplaceTypes
<1>4. /\ Len(l) = Len(s) + 1
      /\ \A i \in 1..(Len(s) + 1) : l[i] = IF i = Len(s) + 1 THEN m ELSE Append(s, x)[i]
  <2>1. DOMAIN Append(s, x) = 1..(Len(s) + 1)
    BY <1>1, <1>2
  <2>2. /\ DOMAIN l = 1..(Len(s) + 1)
        /\ \A i \in 1..(Len(s) + 1) : l[i] = IF i = Len(s) + 1 THEN m ELSE Append(s, x)[i]
    BY <2>1, <1>1
  <2> QED BY <1>1, <1>3, <2>2
<1> HIDE DEF l
<1>5. \A i \in 1..Len(l) : l[i] = Append(s, m)[i]
  BY <1>1, <1>2, <1>4
<1>6. l = Append(s, m)
  BY <1>2, <1>3, <1>4, <1>5, SeqEqual
<1> QED BY <1>6 DEF l

(***************************************************************************)
(* The frame: what a step of one goroutine leaves alone.                   *)
(***************************************************************************)
\* A goroutine's step leaves the other goroutines' loop locals and pointers alone.
LEMMA OwnRest ==
  ASSUME RunsOK, LocalsOK, NEW c \in Callers, CallerStep(c), NEW d \in Callers, d # c
  PROVE  phase'[d] = phase[d] /\ more'[d] = more[d] /\ ret'[d] = ret[d] /\ held'[d] = held[d]
<1> USE DEF localVars, runVars, RunsOK, LocalsOK
<1>1. CASE Prompt(c) \/ ContinueQueued(c) \/ ContinueCheck(c) \/ RunContinuation(c)
  BY <1>1 DEF Prompt, ContinueQueued, ContinueCheck, RunContinuation, StartRun
<1>2. CASE Begin(c) \/ InitialPoll(c) \/ SteeringPoll(c) \/ FollowUpPoll(c)
  BY <1>2 DEF Begin, InitialPoll, SteeringPoll, FollowUpPoll
<1>3. CASE StreamEnd(c) \/ TakeEventErr(c) \/ FinishRun(c) \/ Release(c)
  BY <1>3 DEF StreamEnd, TakeEventErr, FinishRun, Release
<1>4. CASE Abort(c) \/ AbortCancel(c) \/ ContextCancelled(c) \/ WaitForIdle(c) \/ WaitReturn(c)
  BY <1>4 DEF Abort, AbortCancel, ContextCancelled, WaitForIdle, WaitReturn
<1>5. CASE StartEvents(c) \/ MessageStart(c) \/ MessageEnd(c) \/ TurnStart(c)
  BY <1>5 DEF StartEvents, MessageStart, MessageEnd, TurnStart
<1>6. CASE StreamStart(c) \/ StreamEndUnstarted(c) \/ AssistantEnd(c) \/ TurnEnd(c)
  BY <1>6 DEF StreamStart, StreamEndUnstarted, AssistantEnd, TurnEnd
<1>7. CASE AgentEnd(c) \/ StreamUpdate(c) \/ Call(c) \/ ExecuteTools(c) \/ PrepareNextTurn(c)
  BY <1>7 DEF AgentEnd, StreamUpdate, Call, ExecuteTools, PrepareNextTurn
<1>8. CASE FailMessageStart(c) \/ FailMessageEnd(c) \/ FailTurnEnd(c) \/ FailAgentEnd(c)
  BY <1>8 DEF FailMessageStart, FailMessageEnd, FailTurnEnd, FailAgentEnd, DeliverFailure
<1> QED BY <1>1, <1>2, <1>3, <1>4, <1>5, <1>6, <1>7, <1>8
       DEF CallerStep, Enter, LoopStep, FailStep, Leave, Bystander

\* Only the goroutine inside the run changes the transcript and the error, and taking
\* the free slot clears the error (processEvents, startRunLocked).
LEMMA OwnView ==
  ASSUME RunInv, NEW c \in Callers, CallerStep(c)
  PROVE  /\ touched' = touched
         /\ \/ InRun(c)
            \/ Messages' = Messages /\ (ErrorMessage' = ErrorMessage \/ activeRun = 0)
<1> USE DEF histVars, viewVars
<1>1. CASE Prompt(c) \/ ContinueQueued(c) \/ ContinueCheck(c) \/ RunContinuation(c)
  BY <1>1 DEF Prompt, ContinueQueued, ContinueCheck, RunContinuation, StartRun
<1>2. CASE Abort(c) \/ AbortCancel(c) \/ ContextCancelled(c) \/ WaitForIdle(c) \/ WaitReturn(c)
  BY <1>2 DEF Abort, AbortCancel, ContextCancelled, WaitForIdle, WaitReturn
<1>3. CASE Release(c)
  BY <1>3 DEF Release
<1>4. CASE FinishRun(c)
  BY <1>4 DEF FinishRun
<1>5. CASE LoopStep(c) \/ StreamUpdate(c) \/ FailStep(c)
  <2>1. InRun(c)
    BY <1>5, InsideRun DEF RunInv
  <2>2. CASE Begin(c) \/ InitialPoll(c) \/ SteeringPoll(c) \/ FollowUpPoll(c) \/ StreamEnd(c)
             \/ TakeEventErr(c) \/ StartEvents(c) \/ MessageStart(c) \/ MessageEnd(c) \/ TurnStart(c)
    BY <2>1, <2>2 DEF Begin, InitialPoll, SteeringPoll, FollowUpPoll, StreamEnd, TakeEventErr,
       StartEvents, MessageStart, MessageEnd, TurnStart
  <2>3. CASE StreamStart(c) \/ StreamEndUnstarted(c) \/ AssistantEnd(c) \/ TurnEnd(c)
             \/ AgentEnd(c) \/ StreamUpdate(c) \/ Call(c) \/ ExecuteTools(c) \/ PrepareNextTurn(c)
    BY <2>1, <2>3 DEF StreamStart, StreamEndUnstarted, AssistantEnd, TurnEnd, AgentEnd,
       StreamUpdate, Call, ExecuteTools, PrepareNextTurn
  <2>4. CASE FailStep(c)
    BY <2>1, <2>4 DEF FailStep, FailMessageStart, FailMessageEnd, FailTurnEnd, FailAgentEnd
  <2> QED BY <1>5, <2>2, <2>3, <2>4 DEF LoopStep
<1> QED BY <1>1, <1>2, <1>3, <1>4, <1>5 DEF CallerStep, Enter, Leave, Bystander

\* While another goroutine steps, one inside a run keeps everything it works on.
LEMMA BystandersKeep ==
  ASSUME TypeInv, NEW c \in Callers, CallerStep(c), NEW d \in Callers, d # c, InRun(d)
  PROVE  /\ pc'[d] = pc[d] /\ todo'[d] = todo[d] /\ last'[d] = last[d] /\ ctx'[d] = ctx[d]
         /\ phase'[d] = phase[d] /\ more'[d] = more[d] /\ ret'[d] = ret[d] /\ held'[d] = held[d]
         /\ Messages' = Messages /\ ErrorMessage' = ErrorMessage /\ touched' = touched
<1>1. RunInv /\ RunsOK /\ LocalsOK
  BY DEF TypeInv, RunInv
<1>2. ~InRun(c) /\ activeRun # 0
  BY <1>1 DEF RunInv, PointerInv
<1> QED BY <1>1, <1>2, OwnLocals, OwnRest, OwnView

(***************************************************************************)
(* The loop's context is the transcript.                                   *)
(***************************************************************************)
\* What the loop's context has to do with the Agent's Messages at each step of a run
\* that no Reset has touched: the prompts are ahead of the transcript until their
\* message_end, and the assistant message from EvStart to its message_end.
AgreeingSteps == {"poll0", "call", "response", "tools", "turnEnd", "prepare", "poll", "followUp",
                  "turnStart"}

SyncOf(c) ==
  /\ pc[c] = "agentStart" => phase[c] = "prompts"
  /\ pc[c] \in {"followUp", "turnStart"} => phase[c] = "pending"
  /\ held[c] \notin touched =>
       /\ pc[c] \in {"agentStart", "msgStart", "msgEnd"} =>
            ctx[c] = IF phase[c] = "prompts" THEN Messages \o todo[c] ELSE Messages
       /\ pc[c] \in AgreeingSteps => ctx[c] = Messages
       /\ pc[c] = "partial" => ctx[c] = Append(Messages, "partial")
       /\ pc[c] = "final" => ctx[c] = Append(Messages, last[c])

SyncInv == \A c \in Callers : SyncOf(c)

\* The messages the loop works with are of one type.
LEMMA LoopMessages ==
  ASSUME TypeInv, NEW c \in Callers
  PROVE  /\ Messages \in Seq(ContextMessages) /\ ctx[c] \in Seq(ContextMessages)
         /\ todo[c] \in Seq(ContextMessages) /\ todo[c] \in Seq(WorkMessages)
         /\ pc[c] \in {"msgStart", "msgEnd"} => todo[c] # <<>>
         /\ StopReasons \subseteq ContextMessages /\ "partial" \in ContextMessages
         /\ phase[c] \in {"prompts", "pending", "results"}
<1>1. ViewOK /\ LocalsOK /\ LocalInv(c)
  BY DEF TypeInv, WorkInHand
<1>2. WorkMessages \subseteq ContextMessages /\ Transcribed \subseteq ContextMessages
  BY DEF WorkMessages, ContextMessages, Transcribed
<1>3. Messages \in Seq(ContextMessages)
  <2>1. Messages \in Seq(Transcribed)
    BY <1>1 DEF ViewOK
  <2> QED BY <1>2, <2>1, SeqMonotonic
<1>4. todo[c] \in Seq(WorkMessages) /\ ctx[c] \in Seq(ContextMessages)
  BY <1>1 DEF LocalsOK
<1>5. todo[c] \in Seq(ContextMessages)
  BY <1>2, <1>4, SeqMonotonic
<1>6. pc[c] \in {"msgStart", "msgEnd"} => todo[c] # <<>>
  BY <1>1 DEF LocalInv
<1>7. phase[c] \in {"prompts", "pending", "results"}
  BY <1>1 DEF LocalsOK
<1>8. StopReasons \subseteq ContextMessages /\ "partial" \in ContextMessages
  BY DEF ContextMessages, Transcribed
<1> QED BY <1>3, <1>4, <1>5, <1>6, <1>7, <1>8

\* Every step of a loop keeps its context and the transcript together.
LEMMA SyncOwn ==
  ASSUME TypeInv, NEW c \in Callers, SyncOf(c), CallerStep(c)
  PROVE  SyncOf(c)'
<1>1. /\ touched' = touched /\ phase \in [Callers -> {"prompts", "pending", "results"}]
      /\ pc \in [Callers -> Locations] /\ todo \in [Callers -> Seq(WorkMessages)]
      /\ ctx \in [Callers -> Seq(ContextMessages)] /\ last \in [Callers -> StopReasons \cup {None}]
  BY OwnView DEF TypeInv, RunInv, RunsOK, LocalsOK
<1> USE DEF Goto
<1>2. CASE Enter(c)
  <2>1. pc'[c] \in {"begin", "gap", "idle"}
    BY <1>1, <1>2 DEF Enter, Prompt, ContinueQueued, ContinueCheck, RunContinuation, StartRun
  <2> QED BY <2>1 DEF SyncOf, AgreeingSteps
<1>3. CASE Begin(c)
  <2>1. \/ pc'[c] = "fail"
        \/ pc'[c] = "agentStart" /\ ctx'[c] = Messages \o todo[c] /\ todo' = todo
           /\ phase'[c] = "prompts" /\ Messages' = Messages
    BY <1>1, <1>3 DEF Begin, viewVars
  <2> QED BY <2>1 DEF SyncOf, AgreeingSteps
<1>4. CASE StartEvents(c)
  <2>1. /\ pc[c] = "agentStart"
        /\ UNCHANGED <<Messages, ctx, todo, phase, held>>
        /\ pc'[c] \in {"msgStart", "fail"} \/ (pc'[c] = "poll0" /\ todo[c] = <<>>)
    <3>1. /\ pc[c] = "agentStart"
          /\ UNCHANGED <<Messages, ctx, todo, phase, held>>
      BY <1>4 DEF StartEvents, viewVars, localVars, runVars
    <3>2. Deliver(c, IF todo[c] = <<>> THEN "poll0" ELSE "msgStart")
      BY <1>4 DEF StartEvents
    <3>3. CASE todo[c] = <<>>
      <4>1. Deliver(c, "poll0")
        BY <3>2, <3>3
      <4> QED BY <1>1, <3>1, <3>3, <4>1 DEF Deliver, LoopFails
    <3>4. CASE todo[c] # <<>>
      <4>1. Deliver(c, "msgStart")
        BY <3>2, <3>4
      <4> QED BY <1>1, <3>1, <4>1 DEF Deliver, LoopFails
    <3> QED BY <3>3, <3>4
  <2>2. Messages \o <<>> = Messages
    <3>1. Messages \in Seq(ContextMessages)
      BY LoopMessages
    <3> QED BY <3>1, ConcatEmptySeq
  <2> QED BY <1>1, <2>1, <2>2 DEF SyncOf, AgreeingSteps
<1>5. CASE MessageStart(c)
  <2>1. /\ pc[c] = "msgStart" /\ pc'[c] \in {"msgEnd", "fail"}
        /\ UNCHANGED <<Messages, ctx, todo, phase, held>>
    BY <1>1, <1>5 DEF MessageStart, Deliver, LoopFails, localVars, runVars
  <2> QED BY <1>1, <2>1 DEF SyncOf, AgreeingSteps
<1>6. CASE MessageEnd(c)
  <2>1. /\ pc[c] = "msgEnd" /\ phase' = phase /\ held' = held
        /\ Messages' = Append(Messages, Head(todo[c]))
    BY <1>6 DEF MessageEnd, runVars
  <2>2. \/ pc'[c] = "fail"
        \/ /\ pc'[c] = IF Len(todo[c]) > 1 THEN "msgStart" ELSE AfterMessages(phase[c])
           /\ todo'[c] = Tail(todo[c])
           /\ ctx'[c] = IF phase[c] = "prompts" THEN ctx[c] ELSE Append(ctx[c], Head(todo[c]))
    <3>1. /\ pc'[c] = "fail" \/ pc'[c] = IF Len(todo[c]) > 1 THEN "msgStart"
                                                          ELSE AfterMessages(phase[c])
      BY <1>1, <1>6 DEF MessageEnd, Deliver, LoopFails
    <3>2. pc'[c] # "fail" =>
            /\ todo'[c] = Tail(todo[c])
            /\ ctx'[c] = IF phase[c] = "prompts" THEN ctx[c] ELSE Append(ctx[c], Head(todo[c]))
      <4>1. pc'[c] # "fail" =>
              /\ todo' = [todo EXCEPT ![c] = Tail(todo[c])]
              /\ ctx' = IF phase[c] = "prompts" THEN ctx
                        ELSE [ctx EXCEPT ![c] = Append(ctx[c], Head(todo[c]))]
        BY <1>6 DEF MessageEnd
      <4> QED BY <1>1, <4>1
    <3> QED BY <3>1, <3>2
  <2>3. pc'[c] = "msgStart" => Len(todo[c]) > 1
    BY <1>1, <2>2 DEF AfterMessages
  <2>4. Messages \o todo[c] = Messages' \o Tail(todo[c])
    BY <2>1, LoopMessages, CommitFirst
  <2>5. ~(Len(todo[c]) > 1) => Messages' \o Tail(todo[c]) = Messages'
    <3>1. ~(Len(todo[c]) > 1) => Tail(todo[c]) = <<>>
      BY <2>1, LoopMessages, CommitLast
    <3>2. Messages' \in Seq(ContextMessages)
      <4>1. Head(todo[c]) \in ContextMessages /\ Messages \in Seq(ContextMessages)
        BY <2>1, LoopMessages, HeadTailProperties
      <4> QED BY <2>1, <4>1, AppendProperties
    <3>3. Messages' \o <<>> = Messages'
      BY <3>2, ConcatEmptySeq
    <3> QED BY <3>1, <3>3
  <2>6. pc'[c] \in {"msgStart", "poll0", "call", "turnEnd", "fail"}
    BY <2>2 DEF AfterMessages
  <2>7. pc'[c] = "poll0" => phase[c] = "prompts" /\ ~(Len(todo[c]) > 1)
    BY <2>2 DEF AfterMessages
  <2>8. pc'[c] \in {"call", "turnEnd"} => phase[c] # "prompts"
    BY <2>2 DEF AfterMessages
  <2>9. held[c] \notin touched =>
          ctx[c] = IF phase[c] = "prompts" THEN Messages \o todo[c] ELSE Messages
    BY <2>1 DEF SyncOf
  <2>10. held[c] \notin touched /\ pc'[c] # "fail" =>
           ctx'[c] = IF phase[c] = "prompts" THEN Messages' \o todo'[c] ELSE Messages'
    BY <2>1, <2>2, <2>4, <2>9
  <2>11. pc'[c] = "poll0" => Messages' \o todo'[c] = Messages'
    BY <2>2, <2>5, <2>7
  <2> QED BY <1>1, <2>1, <2>6, <2>7, <2>8, <2>10, <2>11 DEF SyncOf, AgreeingSteps
<1>7. CASE InitialPoll(c) \/ SteeringPoll(c)
  <2>1. /\ pc[c] \in {"poll0", "poll"} /\ phase'[c] = "pending"
        /\ pc'[c] \in {"call", "msgStart", "turnStart", "followUp"}
        /\ UNCHANGED <<Messages, ctx, held>>
    BY <1>1, <1>7 DEF InitialPoll, SteeringPoll, viewVars, runVars
  <2> QED BY <1>1, <2>1 DEF SyncOf, AgreeingSteps
<1>8. CASE FollowUpPoll(c) \/ TurnStart(c)
  <2>1. /\ \/ pc[c] = "followUp" /\ pc'[c] \in {"turnStart", "agentEnd"}
           \/ pc[c] = "turnStart" /\ pc'[c] \in {"call", "msgStart", "fail"}
        /\ UNCHANGED <<Messages, ctx, held, phase>>
    BY <1>1, <1>8 DEF FollowUpPoll, TurnStart, Deliver, LoopFails, viewVars, runVars, localVars
  <2> QED BY <1>1, <2>1 DEF SyncOf, AgreeingSteps
<1>9. CASE Call(c)
  <2>1. /\ pc[c] = "call" /\ pc'[c] \in {"response", "fail"}
        /\ UNCHANGED <<Messages, ctx, held>>
    BY <1>1, <1>9 DEF Call, LoopFails, viewVars, runVars
  <2> QED BY <1>1, <2>1 DEF SyncOf, AgreeingSteps
<1>10. CASE StreamStart(c)
  <2>1. /\ pc[c] = "response" /\ pc'[c] \in {"partial", "fail"}
        /\ ctx'[c] = Append(ctx[c], "partial") /\ UNCHANGED <<Messages, held>>
    BY <1>1, <1>10 DEF StreamStart, Deliver, LoopFails, runVars
  <2> QED BY <1>1, <2>1 DEF SyncOf, AgreeingSteps
<1>11. CASE StreamUpdate(c)
  <2>1. /\ pc[c] = "partial" /\ pc'[c] \in {"partial", "fail"}
        /\ UNCHANGED <<Messages, held, ctx>>
    BY <1>1, <1>11 DEF StreamUpdate, Deliver, LoopFails, runVars, localVars
  <2> QED BY <1>1, <2>1 DEF SyncOf, AgreeingSteps
<1>12. CASE StreamEnd(c)
  <2>1. PICK m \in Answers(c) :
          /\ last'[c] = m /\ ctx'[c] = [ctx[c] EXCEPT ![Len(ctx[c])] = m]
          /\ pc[c] = "partial" /\ pc'[c] = "final" /\ UNCHANGED <<Messages, held>>
    BY <1>1, <1>12 DEF StreamEnd, viewVars, runVars
  <2>2. m \in ContextMessages /\ Messages \in Seq(ContextMessages) /\ "partial" \in ContextMessages
    BY LoopMessages DEF Answers
  <2>3. [Append(Messages, "partial") EXCEPT ![Len(Append(Messages, "partial"))] = m]
          = Append(Messages, m)
    BY <2>2, ReplaceLast
  <2> QED BY <1>1, <2>1, <2>3 DEF SyncOf, AgreeingSteps
<1>13. CASE StreamEndUnstarted(c)
  <2>1. PICK m \in Answers(c) :
          /\ last'[c] = m /\ ctx'[c] = Append(ctx[c], m)
          /\ pc[c] = "response" /\ pc'[c] \in {"final", "fail"} /\ UNCHANGED <<Messages, held>>
    BY <1>1, <1>13 DEF StreamEndUnstarted, Deliver, LoopFails, runVars
  <2> QED BY <1>1, <2>1 DEF SyncOf, AgreeingSteps
<1>14. CASE AssistantEnd(c)
  <2>1. /\ pc[c] = "final" /\ pc'[c] \in {"tools", "turnEnd", "fail"}
        /\ Messages' = Append(Messages, last[c]) /\ UNCHANGED <<ctx, held>>
    BY <1>1, <1>14 DEF AssistantEnd, Deliver, LoopFails, runVars
  <2> QED BY <1>1, <2>1 DEF SyncOf, AgreeingSteps
<1>15. CASE ExecuteTools(c)
  <2>1. /\ pc[c] = "tools" /\ pc'[c] \in {"msgStart", "fail"} /\ phase'[c] = "results"
        /\ UNCHANGED <<Messages, ctx, held>>
    BY <1>1, <1>15 DEF ExecuteTools, LoopFails, viewVars, runVars
  <2> QED BY <1>1, <2>1 DEF SyncOf, AgreeingSteps
<1>16. CASE TurnEnd(c)
  <2>1. /\ pc[c] = "turnEnd" /\ pc'[c] \in {"agentEnd", "prepare", "fail"}
        /\ UNCHANGED <<Messages, ctx, held>>
    BY <1>1, <1>16 DEF TurnEnd, Deliver, LoopFails, localVars, runVars
  <2> QED BY <1>1, <2>1 DEF SyncOf, AgreeingSteps
<1>17. CASE PrepareNextTurn(c)
  <2>1. /\ pc[c] = "prepare" /\ pc'[c] \in {"poll", "fail"} /\ held' = held
        /\ \/ UNCHANGED <<Messages, ctx>>
           \/ \E first \in 2..Len(ctx[c]) :
                ctx'[c] = Compacted(ctx[c], first) /\ Messages' = Compacted(ctx[c], first)
    BY <1>1, <1>17 DEF PrepareNextTurn, Compact, LoopFails, runVars
  <2>2. UNCHANGED <<Messages, ctx>> \/ ctx'[c] = Messages'
    BY <2>1
  <2> QED BY <1>1, <2>1, <2>2 DEF SyncOf, AgreeingSteps
<1>18. CASE AgentEnd(c) \/ TakeEventErr(c) \/ FailStep(c) \/ Leave(c)
  <2>1. pc'[c] \in {"take", "fail", "finish", "failEnd", "failTurn", "failAgentEnd", "release", "idle"}
    BY <1>1, <1>18
    DEF AgentEnd, TakeEventErr, FailStep, FailMessageStart, FailMessageEnd, FailTurnEnd,
        FailAgentEnd, Leave, FinishRun, Release, Deliver, LoopFails, DeliverFailure
  <2> QED BY <2>1 DEF SyncOf, AgreeingSteps
<1>19. CASE Bystander(c)
  <2>1. CASE ContextCancelled(c)
    BY <2>1, <1>1 DEF ContextCancelled, viewVars, localVars, SyncOf
  <2>2. CASE Abort(c) \/ AbortCancel(c) \/ WaitForIdle(c) \/ WaitReturn(c)
    <3>1. pc'[c] \in {"abort", "wait", "idle"}
      BY <1>1, <2>2 DEF Abort, AbortCancel, WaitForIdle, WaitReturn
    <3> QED BY <3>1 DEF SyncOf, AgreeingSteps
  <2> QED BY <1>19, <2>1, <2>2 DEF Bystander
<1> QED BY <1>2, <1>3, <1>4, <1>5, <1>6, <1>7, <1>8, <1>9, <1>10, <1>11, <1>12, <1>13, <1>14,
           <1>15, <1>16, <1>17, <1>18, <1>19 DEF CallerStep, LoopStep

\* A goroutine outside the Agent's run steps leaves the others as they are, and Reset
\* touches the run in flight.
LEMMA SyncStep ==
  ASSUME TypeInv, SyncInv, [Next]_vars
  PROVE  SyncInv'
<1>1. CASE UNCHANGED <<pc, localVars, held, touched, Messages>>
  BY <1>1 DEF SyncInv, SyncOf, localVars
<1>2. ASSUME NEW c \in Callers, CallerStep(c)
      PROVE  SyncInv'
  <2>1. SyncOf(c)'
    BY <1>2, SyncOwn DEF SyncInv
  <2>2. ASSUME NEW d \in Callers, d # c
        PROVE  SyncOf(d)'
    <3>1. CASE InRun(d)
      BY <1>2, <2>2, <3>1, BystandersKeep DEF SyncInv, SyncOf
    <3>2. CASE ~InRun(d)
      <4>1. pc'[d] = pc[d]
        BY <1>2, <2>2, OwnLocals DEF TypeInv, RunInv
      <4> QED BY <3>2, <4>1 DEF SyncOf, InRun, RunSteps, AgreeingSteps
    <3> QED BY <3>1, <3>2
  <2> QED BY <2>1, <2>2 DEF SyncInv
<1>3. CASE Steer \/ FollowUp \/ ClearQueues \/ SetQueueMode
  BY <1>1, <1>3 DEF Steer, FollowUp, ClearQueues, SetQueueMode, othersOfQueues, viewVars, runVars
<1>4. CASE Reset
  <2>1. /\ touched' = touched \cup {activeRun}
        /\ UNCHANGED <<pc, localVars, held>>
    BY <1>4 DEF Reset, runVars
  <2>2. ASSUME NEW d \in Callers
        PROVE  SyncOf(d)'
    <3>1. CASE InRun(d)
      <4>1. held'[d] \in touched'
        BY <2>1, <3>1 DEF TypeInv, RunInv, PointerInv
      <4>2. SyncOf(d)
        BY DEF SyncInv
      <4> QED BY <2>1, <4>1, <4>2 DEF SyncOf, localVars
    <3>2. CASE ~InRun(d)
      BY <2>1, <3>2 DEF SyncOf, InRun, RunSteps, AgreeingSteps
    <3> QED BY <3>1, <3>2
  <2> QED BY <2>2 DEF SyncInv
<1> QED BY <1>1, <1>2, <1>3, <1>4
    DEF Next, CallerStep, vars, localVars, histVars, runVars, viewVars

\* Whatever was steered, compacted, aborted or failed, the request the loop makes holds
\* the very messages State() shows, unless Reset was called during the run (runLoop and
\* processEvents keep two copies of the transcript).
THEOREM ContextIsTranscriptAlways == Spec => []ContextIsTranscript
<1>1. Init => SyncInv
  BY DEF Init, SyncInv, SyncOf, AgreeingSteps
<1>2. TypeInv /\ SyncInv /\ [Next]_vars => SyncInv'
  BY SyncStep
<1>3. SyncInv => ContextIsTranscript
  BY DEF SyncInv, SyncOf, AgreeingSteps, ContextIsTranscript
<1> QED BY <1>1, <1>2, <1>3, TypeInvariant, PTL DEF Spec

(***************************************************************************)
(* The provider is never asked to answer an answer.                        *)
(***************************************************************************)
\* A context a provider may be asked to answer.
Ready(messages) == messages # <<>> /\ ~IsAssistant(LastOf(messages))

\* Where a run is on the way to a request, its context is ready, or messages that make
\* it ready are still in its hands.
AskingOf(c) ==
  /\ pc[c] \in {"agentStart", "poll0", "call"} => Ready(ctx[c])
  /\ pc[c] \in {"msgStart", "msgEnd"} /\ phase[c] = "prompts" => Ready(ctx[c])
  /\ pc[c] \in {"turnEnd", "prepare", "poll"} /\ more[c] => Ready(ctx[c])
  /\ pc[c] = "turnStart" /\ todo[c] = <<>> => Ready(ctx[c])

AskingInv == \A c \in Callers : AskingOf(c)

\* A context that ends with a user's message or a tool result is ready.
LEMMA WorkIsReady ==
  ASSUME MessagesDiffer, NEW s \in Seq(ContextMessages), NEW m \in WorkMessages
  PROVE  Ready(Append(s, m))
<1>1. m \notin StopReasons
  BY DEF MessagesDiffer, WorkMessages, StopReasons, Truncated
<1>2. m \in ContextMessages
  BY DEF WorkMessages, ContextMessages, Transcribed
<1>3. Append(s, m) # <<>> /\ Append(s, m)[Len(Append(s, m))] = m
  BY <1>2, AppendProperties
<1> QED BY <1>1, <1>3 DEF Ready, IsAssistant, LastOf

\* So is one that ends with a batch of them.
LEMMA BatchIsReady ==
  ASSUME MessagesDiffer, NEW s \in Seq(ContextMessages), NEW q \in Seq(WorkMessages), q # <<>>
  PROVE  Ready(s \o q)
<1>1. WorkMessages \subseteq ContextMessages
  BY DEF WorkMessages, ContextMessages, Transcribed
<1>2. q \in Seq(ContextMessages)
  BY <1>1, SeqMonotonic
<1>3. Len(q) \in Nat \ {0} /\ Len(s) \in Nat
  BY EmptySeq
<1>4. q[Len(q)] \in WorkMessages
  BY <1>3
<1>5. q[Len(q)] \notin StopReasons
  BY <1>4 DEF MessagesDiffer, WorkMessages, StopReasons, Truncated
<1> DEFINE r == s \o q
<1>6. /\ r \in Seq(ContextMessages) /\ Len(r) = Len(s) + Len(q)
      /\ \A i \in 1..(Len(s) + Len(q)) : r[i] = IF i <= Len(s) THEN s[i] ELSE q[i - Len(s)]
  BY <1>2, ConcatProperties
<1> HIDE DEF r
<1>7. r[Len(r)] = q[Len(q)] /\ r # <<>>
  BY <1>3, <1>6
<1> QED BY <1>5, <1>7 DEF Ready, IsAssistant, LastOf, r

\* Compaction keeps the last message.
LEMMA CompactedIsReady ==
  ASSUME NEW s \in Seq(ContextMessages), NEW first \in 2..Len(s), Ready(s)
  PROVE  Ready(Compacted(s, first))
<1> DEFINE head == <<"summary">>
           tail == SubSeq(s, first, Len(s))
           r == head \o tail
<1>1. Len(s) \in Nat /\ first \in 1..Len(s)
  OBVIOUS
<1>2. /\ tail \in Seq(ContextMessages) /\ Len(tail) = Len(s) - first + 1
      /\ \A i \in 1..(Len(s) - first + 1) : tail[i] = s[first + i - 1]
  <2>1. \A i \in first..Len(s) : s[i] \in ContextMessages
    BY <1>1
  <2> QED BY <1>1, <2>1, SubSeqProperties
<1>3. head \in Seq(ContextMessages) /\ Len(head) = 1
  BY DEF ContextMessages, Transcribed
<1> HIDE DEF head, tail
<1>4. /\ r \in Seq(ContextMessages) /\ Len(r) = Len(head) + Len(tail)
      /\ \A i \in 1..(Len(head) + Len(tail)) :
           r[i] = IF i <= Len(head) THEN head[i] ELSE tail[i - Len(head)]
  BY <1>2, <1>3, ConcatProperties
<1> HIDE DEF r
<1>5. Len(r) = Len(tail) + 1 /\ Len(tail) \in 1..Len(s)
  BY <1>1, <1>2, <1>3, <1>4
<1>6. r[Len(r)] = tail[Len(tail)]
  BY <1>3, <1>4, <1>5
<1>7. tail[Len(tail)] = s[Len(s)]
  BY <1>1, <1>2, <1>5
<1>8. r # <<>>
  BY <1>4, <1>5
<1> QED BY <1>6, <1>7, <1>8 DEF Ready, IsAssistant, LastOf, Compacted, r, head, tail

\* Every step of a loop keeps a context that is to be answered ready.
LEMMA AskingOwn ==
  ASSUME MessagesDiffer, TypeInv, NEW c \in Callers, SyncOf(c), AskingOf(c), CallerStep(c)
  PROVE  AskingOf(c)'
<1>1. /\ phase \in [Callers -> {"prompts", "pending", "results"}]
      /\ pc \in [Callers -> Locations] /\ todo \in [Callers -> Seq(WorkMessages)]
      /\ ctx \in [Callers -> Seq(ContextMessages)] /\ more \in [Callers -> BOOLEAN]
  BY DEF TypeInv, RunInv, RunsOK, LocalsOK
<1>2. /\ Messages \in Seq(ContextMessages) /\ ctx[c] \in Seq(ContextMessages)
      /\ todo[c] \in Seq(WorkMessages)
      /\ pc[c] \in {"msgStart", "msgEnd"} => todo[c] # <<>>
  BY LoopMessages
<1> USE DEF Goto
<1>3. CASE Begin(c)
  <2>1. \/ pc'[c] = "fail"
        \/ /\ pc'[c] = "agentStart" /\ ctx'[c] = Messages \o todo[c]
           /\ ~(todo[c] = <<>> /\ CannotContinueFrom(Messages))
    BY <1>1, <1>3 DEF Begin
  <2>2. todo[c] # <<>> => Ready(Messages \o todo[c])
    BY <1>2, BatchIsReady
  <2>3. Messages \o <<>> = Messages
    BY <1>2, ConcatEmptySeq
  <2>4. todo[c] = <<>> /\ ~CannotContinueFrom(Messages) => Ready(Messages \o todo[c])
    BY <2>3 DEF CannotContinueFrom, Ready
  <2> QED BY <2>1, <2>2, <2>4 DEF AskingOf
<1>4. CASE StartEvents(c)
  <2>1. /\ pc[c] = "agentStart" /\ UNCHANGED ctx
        /\ pc'[c] \in {"msgStart", "poll0", "fail"}
    BY <1>1, <1>4 DEF StartEvents, Deliver, LoopFails, localVars
  <2> QED BY <2>1 DEF AskingOf
<1>5. CASE MessageStart(c)
  <2>1. /\ pc[c] = "msgStart" /\ pc'[c] \in {"msgEnd", "fail"} /\ UNCHANGED <<ctx, phase>>
    BY <1>1, <1>5 DEF MessageStart, Deliver, LoopFails, localVars
  <2> QED BY <2>1 DEF AskingOf
<1>6. CASE MessageEnd(c)
  <2>1. pc[c] = "msgEnd" /\ phase' = phase /\ todo[c] # <<>> /\ Head(todo[c]) \in WorkMessages
    BY <1>2, <1>6, HeadTailProperties DEF MessageEnd
  <2>2. \/ pc'[c] = "fail"
        \/ /\ pc'[c] = IF Len(todo[c]) > 1 THEN "msgStart" ELSE AfterMessages(phase[c])
           /\ ctx'[c] = IF phase[c] = "prompts" THEN ctx[c] ELSE Append(ctx[c], Head(todo[c]))
    <3>1. /\ pc'[c] = "fail" \/ pc'[c] = IF Len(todo[c]) > 1 THEN "msgStart"
                                                          ELSE AfterMessages(phase[c])
      BY <1>1, <1>6 DEF MessageEnd, Deliver, LoopFails
    <3>2. pc'[c] # "fail" =>
            ctx' = IF phase[c] = "prompts" THEN ctx
                   ELSE [ctx EXCEPT ![c] = Append(ctx[c], Head(todo[c]))]
      BY <1>6 DEF MessageEnd
    <3> QED BY <1>1, <3>1, <3>2
  <2>3. pc'[c] \in {"msgStart", "poll0", "call", "turnEnd", "fail"}
    BY <2>2 DEF AfterMessages
  <2>4. Ready(Append(ctx[c], Head(todo[c])))
    BY <1>2, <2>1, WorkIsReady
  <2>5. pc'[c] # "fail" => Ready(ctx'[c])
    BY <2>1, <2>2, <2>4 DEF AskingOf
  <2> QED BY <2>3, <2>5 DEF AskingOf
<1>7. CASE InitialPoll(c)
  <2>1. /\ pc[c] = "poll0" /\ phase'[c] = "pending" /\ UNCHANGED ctx
        /\ pc'[c] \in {"call", "msgStart"}
    BY <1>1, <1>7 DEF InitialPoll
  <2> QED BY <2>1 DEF AskingOf
<1>8. CASE SteeringPoll(c)
  <2>1. /\ pc[c] = "poll" /\ UNCHANGED ctx
        /\ todo'[c] = Drained(steeringQueue, steeringMode)
        /\ pc'[c] = IF more[c] \/ steeringQueue # <<>> THEN "turnStart" ELSE "followUp"
    BY <1>1, <1>8 DEF SteeringPoll
  <2>2. Drained(steeringQueue, steeringMode) = <<>> <=> steeringQueue = <<>>
    BY DrainTypes DEF TypeInv, QueuesOK
  <2>3. pc'[c] \in {"turnStart", "followUp"}
        /\ (pc'[c] = "turnStart" /\ todo'[c] = <<>> => more[c])
    BY <2>1, <2>2
  <2> QED BY <2>1, <2>3 DEF AskingOf
<1>9. CASE FollowUpPoll(c)
  <2>1. /\ UNCHANGED ctx /\ todo'[c] = Drained(followUpQueue, followUpMode)
        /\ pc'[c] = IF followUpQueue # <<>> THEN "turnStart" ELSE "agentEnd"
    BY <1>1, <1>9 DEF FollowUpPoll
  <2>2. Drained(followUpQueue, followUpMode) = <<>> <=> followUpQueue = <<>>
    BY DrainTypes DEF TypeInv, QueuesOK
  <2>3. pc'[c] \in {"turnStart", "agentEnd"} /\ (pc'[c] = "turnStart" => todo'[c] # <<>>)
    BY <2>1, <2>2
  <2> QED BY <2>3 DEF AskingOf
<1>10. CASE TurnStart(c)
  <2>1. pc[c] = "turnStart" /\ UNCHANGED <<ctx, phase, todo>> /\ phase[c] = "pending"
    BY <1>10 DEF TurnStart, localVars, SyncOf
  <2>2. Deliver(c, IF todo[c] = <<>> THEN "call" ELSE "msgStart")
    BY <1>10 DEF TurnStart
  <2>3. CASE todo[c] = <<>>
    <3>1. Deliver(c, "call")
      BY <2>2, <2>3
    <3>2. pc'[c] \in {"call", "fail"}
      BY <1>1, <3>1 DEF Deliver, LoopFails
    <3> QED BY <2>1, <2>3, <3>2 DEF AskingOf
  <2>4. CASE todo[c] # <<>>
    <3>1. Deliver(c, "msgStart")
      BY <2>2, <2>4
    <3>2. pc'[c] \in {"msgStart", "fail"}
      BY <1>1, <3>1 DEF Deliver, LoopFails
    <3> QED BY <2>1, <3>2 DEF AskingOf
  <2> QED BY <2>3, <2>4
<1>11. CASE AssistantEnd(c)
  <2>1. more'[c] = FALSE /\ pc'[c] \in {"tools", "turnEnd", "fail"}
    BY <1>1, <1>11 DEF AssistantEnd, Deliver, LoopFails
  <2> QED BY <2>1 DEF AskingOf
<1>12. CASE ExecuteTools(c)
  <2>1. phase'[c] = "results" /\ pc'[c] \in {"msgStart", "fail"}
    BY <1>1, <1>12 DEF ExecuteTools, LoopFails
  <2> QED BY <2>1 DEF AskingOf
<1>13. CASE TurnEnd(c)
  <2>1. /\ pc[c] = "turnEnd" /\ pc'[c] \in {"prepare", "agentEnd", "fail"} /\ UNCHANGED <<ctx, more>>
    BY <1>1, <1>13 DEF TurnEnd, Deliver, LoopFails, localVars
  <2> QED BY <2>1 DEF AskingOf
<1>14. CASE PrepareNextTurn(c)
  <2>1. /\ pc[c] = "prepare" /\ pc'[c] \in {"poll", "fail"} /\ more' = more
        /\ ctx' = ctx \/ \E first \in 2..Len(ctx[c]) : ctx'[c] = Compacted(ctx[c], first)
    BY <1>1, <1>14 DEF PrepareNextTurn, Compact, LoopFails
  <2>2. Ready(ctx[c]) => \A first \in 2..Len(ctx[c]) : Ready(Compacted(ctx[c], first))
    BY <1>2, CompactedIsReady
  <2>3. Ready(ctx[c]) => Ready(ctx'[c])
    BY <2>1, <2>2
  <2> QED BY <2>1, <2>3 DEF AskingOf
<1>15. CASE Enter(c) \/ Leave(c) \/ FailStep(c)
  <2>1. pc'[c] \in {"begin", "gap", "idle", "release", "failEnd", "failTurn", "failAgentEnd", "finish"}
    BY <1>1, <1>15
    DEF Enter, Prompt, ContinueQueued, ContinueCheck, RunContinuation, StartRun, Leave, FinishRun,
        Release, FailStep, FailMessageStart, FailMessageEnd, FailTurnEnd, FailAgentEnd, DeliverFailure
  <2> QED BY <2>1 DEF AskingOf
<1>16. CASE Call(c) \/ StreamStart(c) \/ StreamUpdate(c) \/ StreamEnd(c) \/ StreamEndUnstarted(c)
            \/ AgentEnd(c) \/ TakeEventErr(c)
  <2>1. pc'[c] \in {"response", "partial", "final", "take", "fail", "finish"}
    BY <1>1, <1>16
    DEF Call, StreamStart, StreamUpdate, StreamEnd, StreamEndUnstarted, AgentEnd, TakeEventErr,
        Deliver, LoopFails
  <2> QED BY <2>1 DEF AskingOf
<1>17. CASE Bystander(c)
  <2>1. CASE ContextCancelled(c)
    BY <2>1 DEF ContextCancelled, localVars, AskingOf
  <2>2. CASE Abort(c) \/ AbortCancel(c) \/ WaitForIdle(c) \/ WaitReturn(c)
    <3>1. pc'[c] \in {"abort", "wait", "idle"}
      BY <1>1, <2>2 DEF Abort, AbortCancel, WaitForIdle, WaitReturn
    <3> QED BY <3>1 DEF AskingOf
  <2> QED BY <1>17, <2>1, <2>2 DEF Bystander
<1> QED BY <1>3, <1>4, <1>5, <1>6, <1>7, <1>8, <1>9, <1>10, <1>11, <1>12, <1>13, <1>14,
           <1>15, <1>16, <1>17 DEF CallerStep, LoopStep

\* No other goroutine, and no queue or Reset call, changes what a loop works on.
LEMMA AskingStep ==
  ASSUME MessagesDiffer, TypeInv, SyncInv, AskingInv, [Next]_vars
  PROVE  AskingInv'
<1>1. CASE UNCHANGED <<pc, localVars>>
  BY <1>1 DEF AskingInv, AskingOf, localVars
<1>2. ASSUME NEW c \in Callers, CallerStep(c)
      PROVE  AskingInv'
  <2>1. AskingOf(c)'
    BY <1>2, AskingOwn DEF AskingInv, SyncInv
  <2>2. ASSUME NEW d \in Callers, d # c
        PROVE  AskingOf(d)'
    <3>1. CASE InRun(d)
      BY <1>2, <2>2, <3>1, BystandersKeep DEF AskingInv, AskingOf
    <3>2. CASE ~InRun(d)
      <4>1. pc'[d] = pc[d]
        BY <1>2, <2>2, OwnLocals DEF TypeInv, RunInv
      <4> QED BY <3>2, <4>1 DEF AskingOf, InRun, RunSteps
    <3> QED BY <3>1, <3>2
  <2> QED BY <2>1, <2>2 DEF AskingInv
<1>3. CASE Steer \/ FollowUp \/ ClearQueues \/ SetQueueMode \/ Reset
  BY <1>1, <1>3 DEF Steer, FollowUp, ClearQueues, SetQueueMode, Reset, othersOfQueues
<1> QED BY <1>1, <1>2, <1>3 DEF Next, CallerStep, vars

\* The request always ends with a message the provider has to answer, even after the gap
\* between Continue's look at the transcript and the start of its run, whatever the queues
\* hand out, a batch of tools decides, or a compaction cuts away.
THEOREM NeverAnswersItselfAlways ==
  ASSUME MessagesDiffer
  PROVE  Spec => []NeverAnswersItself
<1>1. Init => SyncInv /\ AskingInv
  BY DEF Init, SyncInv, SyncOf, AgreeingSteps, AskingInv, AskingOf
<1>2. TypeInv /\ SyncInv /\ AskingInv /\ [Next]_vars => SyncInv' /\ AskingInv'
  BY SyncStep, AskingStep
<1>3. AskingInv => NeverAnswersItself
  BY DEF AskingInv, AskingOf, Ready, NeverAnswersItself
<1> QED BY <1>1, <1>2, <1>3, TypeInvariant, PTL DEF Spec

(***************************************************************************)
(* A truncated answer is told.                                             *)
(***************************************************************************)
\* Once a run goes on after a turn, its last answer is complete; once it ends after a
\* truncated one, ErrorMessage says so, unless Reset has wiped it.
EndingSteps == {"agentEnd", "take", "failAgentEnd"}

ToldOf(c) ==
  /\ pc[c] \in {"prepare", "poll", "followUp"} => last[c] \notin Truncated
  /\ held[c] \notin touched /\ last[c] \in Truncated =>
       /\ pc[c] \in EndingSteps => ErrorMessage
       /\ pc[c] = "finish" /\ ret[c] = "nil" => ErrorMessage

ToldInv == \A c \in Callers : ToldOf(c)

\* Every step that ends a turn or a run keeps the error beside the truncated answer.
LEMMA ToldOwn ==
  ASSUME TypeInv, NEW c \in Callers, ToldOf(c), CallerStep(c)
  PROVE  ToldOf(c)'
<1>1. /\ pc \in [Callers -> Locations] /\ last \in [Callers -> StopReasons \cup {None}]
      /\ ret \in [Callers -> {"nil", "error"}] /\ touched' = touched
  BY OwnView DEF TypeInv, RunInv, RunsOK, LocalsOK
<1> USE DEF Goto
<1>2. CASE Enter(c) \/ Begin(c) \/ StartEvents(c) \/ MessageStart(c) \/ InitialPoll(c)
           \/ TurnStart(c) \/ Call(c)
  <2>1. pc'[c] \in {"begin", "gap", "idle", "agentStart", "poll0", "msgStart", "msgEnd", "call",
                    "response", "fail"}
    BY <1>1, <1>2
    DEF Enter, Prompt, ContinueQueued, ContinueCheck, RunContinuation, StartRun, Begin, StartEvents,
        MessageStart, InitialPoll, TurnStart, Call, Deliver, LoopFails
  <2> QED BY <2>1 DEF ToldOf, EndingSteps
<1>3. CASE MessageEnd(c)
  <2>1. pc'[c] \in {"msgStart", "poll0", "call", "turnEnd", "fail"}
    BY <1>1, <1>3 DEF MessageEnd, AfterMessages, Deliver, LoopFails
  <2> QED BY <2>1 DEF ToldOf, EndingSteps
<1>4. CASE StreamStart(c) \/ StreamUpdate(c) \/ StreamEnd(c) \/ StreamEndUnstarted(c)
           \/ AssistantEnd(c) \/ ExecuteTools(c)
  <2>1. pc'[c] \in {"partial", "final", "tools", "turnEnd", "msgStart", "fail"}
    BY <1>1, <1>4
    DEF StreamStart, StreamUpdate, StreamEnd, StreamEndUnstarted, AssistantEnd, ExecuteTools,
        Deliver, LoopFails
  <2> QED BY <2>1 DEF ToldOf, EndingSteps
<1>5. CASE TurnEnd(c)
  <2>1. /\ pc'[c] = "fail" \/ pc'[c] = IF last[c] \in Truncated THEN "agentEnd" ELSE "prepare"
        /\ UNCHANGED last /\ (last[c] \in Truncated => ErrorMessage')
    BY <1>1, <1>5 DEF TurnEnd, Deliver, LoopFails, localVars
  <2> QED BY <2>1 DEF ToldOf, EndingSteps
<1>6. CASE PrepareNextTurn(c) \/ SteeringPoll(c)
  <2>1. /\ pc[c] \in {"prepare", "poll"} /\ pc'[c] \in {"poll", "turnStart", "followUp", "fail"}
        /\ UNCHANGED last
    BY <1>1, <1>6 DEF PrepareNextTurn, SteeringPoll, LoopFails
  <2> QED BY <2>1 DEF ToldOf, EndingSteps
<1>7. CASE FollowUpPoll(c)
  <2>1. pc[c] = "followUp" /\ pc'[c] \in {"turnStart", "agentEnd"} /\ UNCHANGED last
    BY <1>1, <1>7 DEF FollowUpPoll
  <2> QED BY <2>1 DEF ToldOf, EndingSteps
<1>8. CASE AgentEnd(c) \/ TakeEventErr(c)
  <2>1. /\ pc[c] \in {"agentEnd", "take"} /\ pc'[c] \in {"take", "finish", "fail"}
        /\ UNCHANGED <<last, held, ErrorMessage>>
    BY <1>1, <1>8 DEF AgentEnd, TakeEventErr, Deliver, LoopFails, localVars, viewVars, runVars
  <2> QED BY <1>1, <2>1 DEF ToldOf, EndingSteps
<1>9. CASE FailMessageStart(c) \/ FailMessageEnd(c)
  <2>1. pc'[c] \in {"failEnd", "failTurn"} \/ (pc'[c] = "finish" /\ ret'[c] = "error")
    BY <1>1, <1>9 DEF FailMessageStart, FailMessageEnd, DeliverFailure
  <2> QED BY <2>1 DEF ToldOf, EndingSteps
<1>10. CASE FailTurnEnd(c)
  <2>1. ErrorMessage' /\ pc'[c] \in {"failAgentEnd", "finish"}
    BY <1>1, <1>10 DEF FailTurnEnd, DeliverFailure
  <2> QED BY <2>1 DEF ToldOf, EndingSteps
<1>11. CASE FailAgentEnd(c)
  <2>1. pc[c] = "failAgentEnd" /\ pc'[c] = "finish" /\ UNCHANGED <<last, held, ErrorMessage>>
    BY <1>1, <1>11 DEF FailAgentEnd, DeliverFailure, runVars
  <2> QED BY <1>1, <2>1 DEF ToldOf, EndingSteps
<1>12. CASE Leave(c) \/ Abort(c) \/ AbortCancel(c) \/ WaitForIdle(c) \/ WaitReturn(c)
  <2>1. pc'[c] \in {"release", "idle", "abort", "wait"}
    BY <1>1, <1>12 DEF Leave, FinishRun, Release, Abort, AbortCancel, WaitForIdle, WaitReturn
  <2> QED BY <2>1 DEF ToldOf, EndingSteps
<1>13. CASE ContextCancelled(c)
  BY <1>1, <1>13 DEF ContextCancelled, viewVars, localVars, ToldOf
<1> QED BY <1>2, <1>3, <1>4, <1>5, <1>6, <1>7, <1>8, <1>9, <1>10, <1>11, <1>12, <1>13
        DEF CallerStep, LoopStep, FailStep, Bystander

\* The error is taken back only by the start of a run, which finds no other run, and by
\* Reset, which touches the one in flight.
LEMMA ToldStep ==
  ASSUME TypeInv, ToldInv, [Next]_vars
  PROVE  ToldInv'
<1>1. CASE UNCHANGED <<pc, localVars, held, touched, ErrorMessage>>
  BY <1>1 DEF ToldInv, ToldOf, localVars
<1>2. ASSUME NEW c \in Callers, CallerStep(c)
      PROVE  ToldInv'
  <2>1. ToldOf(c)'
    BY <1>2, ToldOwn DEF ToldInv
  <2>2. ASSUME NEW d \in Callers, d # c
        PROVE  ToldOf(d)'
    <3>1. CASE InRun(d)
      BY <1>2, <2>2, <3>1, BystandersKeep DEF ToldInv, ToldOf
    <3>2. CASE ~InRun(d)
      <4>1. pc'[d] = pc[d]
        BY <1>2, <2>2, OwnLocals DEF TypeInv, RunInv
      <4> QED BY <3>2, <4>1 DEF ToldOf, InRun, RunSteps, EndingSteps
    <3> QED BY <3>1, <3>2
  <2> QED BY <2>1, <2>2 DEF ToldInv
<1>3. CASE Steer \/ FollowUp \/ ClearQueues \/ SetQueueMode
  BY <1>1, <1>3 DEF Steer, FollowUp, ClearQueues, SetQueueMode, othersOfQueues, viewVars, runVars
<1>4. CASE Reset
  <2>1. /\ touched' = touched \cup {activeRun}
        /\ UNCHANGED <<pc, localVars, held>>
    BY <1>4 DEF Reset, runVars
  <2>2. ASSUME NEW d \in Callers
        PROVE  ToldOf(d)'
    <3>1. CASE InRun(d)
      <4>1. held'[d] \in touched'
        BY <2>1, <3>1 DEF TypeInv, RunInv, PointerInv
      <4>2. ToldOf(d)
        BY DEF ToldInv
      <4> QED BY <2>1, <4>1, <4>2 DEF ToldOf, localVars
    <3>2. CASE ~InRun(d)
      BY <2>1, <3>2 DEF ToldOf, InRun, RunSteps, EndingSteps
    <3> QED BY <3>1, <3>2
  <2> QED BY <2>2 DEF ToldInv
<1> QED BY <1>1, <1>2, <1>3, <1>4
    DEF Next, CallerStep, vars, localVars, histVars, runVars, viewVars

\* What a step does to the recorded error: a listener's error is recorded in the run in
\* flight, the start of a run wipes it, and the end of a loop takes it (setEventErr,
\* startRunLocked, takeEventErr).
LEMMA ErrorMoves ==
  ASSUME RunInv, NEW c \in Callers, CallerStep(c)
  PROVE  \/ UNCHANGED eventErr
         \/ activeRun = 0 /\ eventErr' = 0
         \/ InRun(c) /\ eventErr = 0 /\ eventErr' = activeRun
         \/ TakeEventErr(c)
<1>1. CASE Enter(c)
  BY <1>1 DEF Enter, Prompt, ContinueQueued, ContinueCheck, RunContinuation, StartRun
<1>2. CASE Bystander(c) \/ Leave(c)
  BY <1>2 DEF Bystander, Abort, AbortCancel, ContextCancelled, WaitForIdle, WaitReturn, Leave,
     Release, FinishRun
<1>3. CASE LoopStep(c) \/ StreamUpdate(c) \/ FailStep(c)
  <2>1. InRun(c)
    BY <1>3, InsideRun DEF RunInv
  <2>2. CASE Begin(c) \/ InitialPoll(c) \/ SteeringPoll(c) \/ FollowUpPoll(c) \/ StreamEnd(c)
             \/ Call(c) \/ PrepareNextTurn(c)
    BY <2>2 DEF Begin, InitialPoll, SteeringPoll, FollowUpPoll, StreamEnd, Call, PrepareNextTurn
  <2>3. CASE StartEvents(c) \/ MessageStart(c) \/ MessageEnd(c) \/ TurnStart(c)
             \/ StreamStart(c) \/ StreamEndUnstarted(c) \/ AssistantEnd(c) \/ TurnEnd(c)
             \/ AgentEnd(c) \/ StreamUpdate(c)
    <3>1. eventErr' \in {eventErr, Recorded}
      BY <2>3 DEF StartEvents, MessageStart, MessageEnd, TurnStart, StreamStart,
         StreamEndUnstarted, AssistantEnd, TurnEnd, AgentEnd, StreamUpdate, Deliver
    <3> QED BY <2>1, <3>1 DEF Recorded
  <2>4. CASE ExecuteTools(c) \/ FailStep(c)
    <3>1. eventErr' \in {eventErr, Recorded}
      BY <2>4 DEF ExecuteTools, FailStep, FailMessageStart, FailMessageEnd, FailTurnEnd,
         FailAgentEnd, DeliverFailure
    <3> QED BY <2>1, <3>1 DEF Recorded
  <2> QED BY <1>3, <2>2, <2>3, <2>4 DEF LoopStep
<1> QED BY <1>1, <1>2, <1>3 DEF CallerStep

\* A recorded error belongs to the run in flight; and a failure that is being told, or a
\* call that returns nil with an error recorded, has a truncated answer to tell it with.
ErrorOf(c) ==
  /\ InRun(c) => eventErr \in {0, held[c]}
  /\ pc[c] \in {"failEnd", "failTurn", "failAgentEnd"} => last[c] \in Truncated
  /\ pc[c] = "finish" /\ ret[c] = "nil" => eventErr = 0 \/ last[c] \in Truncated

ErrorInv == \A c \in Callers : ErrorOf(c)

\* A run starts with no error recorded, records its own, and hands over to the failure
\* events or to finishRun with what ErrorOf says.
LEMMA ErrorOwn ==
  ASSUME TypeInv, NEW c \in Callers, ErrorOf(c), CallerStep(c)
  PROVE  ErrorOf(c)'
<1>1. /\ pc \in [Callers -> Locations] /\ last \in [Callers -> StopReasons \cup {None}]
      /\ ret \in [Callers -> {"nil", "error"}] /\ held \in [Callers -> 0..MaxRuns]
  BY DEF TypeInv, RunInv, RunsOK, LocalsOK
<1> USE DEF Goto
<1>2. CASE Enter(c)
  <2>1. pc'[c] \in {"gap", "idle"} \/ (pc'[c] = "begin" /\ eventErr' = 0)
    BY <1>1, <1>2
    DEF Enter, Prompt, ContinueQueued, ContinueCheck, RunContinuation, StartRun
  <2> QED BY <2>1 DEF ErrorOf, InRun, RunSteps
<1>3. CASE Leave(c) \/ Abort(c) \/ AbortCancel(c) \/ WaitForIdle(c) \/ WaitReturn(c)
  <2>1. pc'[c] \in {"release", "idle", "abort", "wait"}
    BY <1>1, <1>3 DEF Leave, FinishRun, Release, Abort, AbortCancel, WaitForIdle, WaitReturn
  <2> QED BY <2>1 DEF ErrorOf, InRun, RunSteps
<1>4. CASE ContextCancelled(c)
  BY <1>4 DEF ContextCancelled, localVars, ErrorOf, InRun
<1>5. CASE LoopStep(c) \/ StreamUpdate(c) \/ FailStep(c)
  <2>1. /\ InRun(c) /\ held'[c] = held[c] /\ held[c] = activeRun /\ activeRun # 0
    BY <1>5, InsideRun DEF TypeInv, RunInv, PointerInv, runVars
  <2>2. TakeEventErr(c) => eventErr' = 0
    BY DEF TakeEventErr
  <2>3. eventErr' \in {0, held'[c]}
    BY <2>1, <2>2, ErrorMoves DEF TypeInv, ErrorOf
  <2>4. /\ pc'[c] \in {"failEnd", "failTurn", "failAgentEnd"} => last'[c] \in Truncated
        /\ pc'[c] = "finish" /\ ret'[c] = "nil" => eventErr' = 0 \/ last'[c] \in Truncated
    <3>1. CASE Begin(c) \/ StartEvents(c) \/ MessageStart(c) \/ InitialPoll(c) \/ TurnStart(c)
               \/ Call(c) \/ FollowUpPoll(c) \/ SteeringPoll(c)
      <4>1. pc'[c] \in {"agentStart", "poll0", "msgStart", "msgEnd", "call", "response", "fail",
                        "turnStart", "agentEnd", "followUp"}
        BY <1>1, <3>1
        DEF Begin, StartEvents, MessageStart, InitialPoll, TurnStart, Call, FollowUpPoll,
            SteeringPoll, Deliver, LoopFails
      <4> QED BY <4>1
    <3>2. CASE MessageEnd(c) \/ TurnEnd(c) \/ PrepareNextTurn(c) \/ AgentEnd(c)
      <4>1. pc'[c] \in {"msgStart", "poll0", "call", "turnEnd", "agentEnd", "prepare", "poll",
                        "take", "fail"}
        BY <1>1, <3>2
        DEF MessageEnd, TurnEnd, PrepareNextTurn, AgentEnd, AfterMessages, Deliver, LoopFails
      <4> QED BY <4>1
    <3>3. CASE StreamStart(c) \/ StreamUpdate(c) \/ StreamEnd(c) \/ StreamEndUnstarted(c)
               \/ AssistantEnd(c) \/ ExecuteTools(c)
      <4>1. pc'[c] \in {"partial", "final", "tools", "turnEnd", "msgStart", "fail"}
        BY <1>1, <3>3
        DEF StreamStart, StreamUpdate, StreamEnd, StreamEndUnstarted, AssistantEnd,
            ExecuteTools, Deliver, LoopFails
      <4> QED BY <4>1
    <3>4. CASE TakeEventErr(c)
      <4>1. pc'[c] \in {"fail", "finish"}
        BY <1>1, <3>4 DEF TakeEventErr
      <4> QED BY <4>1, <2>2, <3>4
    <3>5. CASE FailMessageStart(c)
      <4>1. last'[c] \in Truncated
        BY <1>1, <3>5 DEF FailMessageStart, Truncated
      <4> QED BY <4>1
    <3>6. CASE FailMessageEnd(c) \/ FailTurnEnd(c) \/ FailAgentEnd(c)
      <4>1. pc[c] \in {"failEnd", "failTurn", "failAgentEnd"} /\ last' = last
        BY <3>6 DEF FailMessageEnd, FailTurnEnd, FailAgentEnd
      <4> QED BY <4>1 DEF ErrorOf
    <3> QED BY <1>5, <3>1, <3>2, <3>3, <3>4, <3>5, <3>6 DEF LoopStep, FailStep
  <2> QED BY <2>3, <2>4 DEF ErrorOf
<1> QED BY <1>2, <1>3, <1>4, <1>5 DEF CallerStep, Bystander

\* Nobody else's step records an error or wipes one while a run is in flight.
LEMMA ErrorStep ==
  ASSUME TypeInv, ErrorInv, [Next]_vars
  PROVE  ErrorInv'
<1>1. CASE UNCHANGED <<pc, localVars, held, eventErr>>
  BY <1>1 DEF ErrorInv, ErrorOf, localVars, InRun
<1>2. ASSUME NEW c \in Callers, CallerStep(c)
      PROVE  ErrorInv'
  <2>1. ErrorOf(c)'
    BY <1>2, ErrorOwn DEF ErrorInv
  <2>2. ASSUME NEW d \in Callers, d # c
        PROVE  ErrorOf(d)'
    <3>1. CASE InRun(d)
      <4>1. ~InRun(c) /\ activeRun # 0
        BY <2>2, <3>1 DEF TypeInv, RunInv, PointerInv
      <4>2. ~TakeEventErr(c)
        BY <4>1 DEF TakeEventErr, InRun, RunSteps
      <4>3. eventErr' = eventErr
        BY <1>2, <4>1, <4>2, ErrorMoves DEF TypeInv
      <4> QED BY <1>2, <2>2, <3>1, <4>3, BystandersKeep DEF ErrorInv, ErrorOf, InRun
    <3>2. CASE ~InRun(d)
      <4>1. pc'[d] = pc[d]
        BY <1>2, <2>2, OwnLocals DEF TypeInv, RunInv
      <4> QED BY <3>2, <4>1 DEF ErrorOf, InRun, RunSteps
    <3> QED BY <3>1, <3>2
  <2> QED BY <2>1, <2>2 DEF ErrorInv
<1>3. CASE Steer \/ FollowUp \/ ClearQueues \/ SetQueueMode \/ Reset
  BY <1>1, <1>3 DEF Steer, FollowUp, ClearQueues, SetQueueMode, Reset, othersOfQueues, runVars
<1> QED BY <1>1, <1>2, <1>3 DEF Next, CallerStep, vars, localVars, runVars

\* At the last two steps of a run only its own goroutine moves on: it takes the recorded
\* error, or settles the run.
LEMMA LastSteps ==
  ASSUME TypeInv, [Next]_vars, NEW c \in Callers, pc'[c] # pc[c]
  PROVE  /\ pc[c] = "take" => TakeEventErr(c)
         /\ pc[c] = "finish" => FinishRun(c)
<1>1. pc \in [Callers -> Locations]
  BY DEF TypeInv, RunInv, RunsOK
<1>2. PICK d \in Callers : CallerStep(d)
  <2>1. ~(UNCHANGED pc)
    OBVIOUS
  <2>2. ~(Steer \/ FollowUp \/ ClearQueues \/ SetQueueMode \/ Reset)
    BY <2>1 DEF Steer, FollowUp, ClearQueues, SetQueueMode, Reset, othersOfQueues
  <2>3. ~(UNCHANGED vars)
    BY <2>1 DEF vars
  <2> QED BY <2>2, <2>3 DEF Next, CallerStep
<1>3. d = c
  BY <1>2, OwnLocals DEF TypeInv, RunInv
<1>4. SUFFICES ASSUME pc[c] \in {"take", "finish"}
               PROVE  TakeEventErr(c) \/ FinishRun(c)
  BY DEF TakeEventErr, FinishRun
<1>5. ~Enter(c) /\ ~Bystander(c)
  BY <1>1, <1>4 DEF Enter, Prompt, ContinueQueued, ContinueCheck, RunContinuation, StartRun,
     Bystander, Abort, AbortCancel, ContextCancelled, WaitForIdle, WaitReturn, Goto
<1>6. LoopStep(c) => TakeEventErr(c)
  BY <1>1, <1>4 DEF LoopStep, Begin, StartEvents, MessageStart, MessageEnd, InitialPoll,
     SteeringPoll, FollowUpPoll, TurnStart, Call, StreamStart, StreamEnd, StreamEndUnstarted,
     AssistantEnd, ExecuteTools, TurnEnd, PrepareNextTurn, AgentEnd
<1>7. ~StreamUpdate(c) /\ ~FailStep(c) /\ ~Release(c)
  BY <1>1, <1>4 DEF StreamUpdate, FailStep, FailMessageStart, FailMessageEnd, FailTurnEnd,
     FailAgentEnd, Release
<1> QED BY <1>2, <1>3, <1>5, <1>6, <1>7 DEF CallerStep, Leave

\* A run that fails tells its own caller, once: a call that returns no error after a truncated
\* answer, or with its listener's error still recorded, leaves ErrorMessage behind, on the
\* loop's own way out (turn_end) and on handleRunFailure's; a recorded error fails the run it
\* was recorded in and no other one.
THEOREM FailureIsReportedAlways == Spec => FailureIsReported
<1> DEFINE Errs == ToldInv /\ ErrorInv
           Told == NothingDropped /\ \A c \in Callers : EndIsTold(c) /\ FailsItsOwn(c)
<1>1. Init => Errs
  BY DEF Init, ToldInv, ToldOf, EndingSteps, ErrorInv, ErrorOf, InRun, RunSteps
<1>2. TypeInv /\ Errs /\ [Next]_vars => Errs'
  BY ToldStep, ErrorStep
<1>3. TypeInv /\ Errs /\ [Next]_vars => [Told]_vars
  <2> SUFFICES ASSUME TypeInv, ToldInv, ErrorInv, [Next]_vars
               PROVE  Told
    OBVIOUS
  <2>0. pc \in [Callers -> Locations]
    BY DEF TypeInv, RunInv, RunsOK
  <2>1. ASSUME NEW c \in Callers
        PROVE  EndIsTold(c)
    <3> SUFFICES ASSUME pc[c] = "finish", pc'[c] = "release", ret[c] = "nil",
                        last[c] \in Truncated \/ eventErr = held[c], held[c] \notin touched
                 PROVE  ErrorMessage'
      BY DEF EndIsTold
    <3>1. InRun(c) /\ held[c] # 0
      BY DEF TypeInv, RunInv, PointerInv, InRun, RunSteps
    <3>2. last[c] \in Truncated
      BY <3>1 DEF ErrorInv, ErrorOf
    <3>3. ErrorMessage
      BY <3>2 DEF ToldInv, ToldOf
    <3>4. FinishRun(c)
      BY LastSteps
    <3> QED BY <3>3, <3>4 DEF FinishRun
  <2>2. ASSUME NEW c \in Callers
        PROVE  FailsItsOwn(c)
    <3> SUFFICES ASSUME pc[c] = "take", pc'[c] = "fail"
                 PROVE  eventErr = held[c]
      BY DEF FailsItsOwn
    <3>1. InRun(c)
      BY DEF InRun, RunSteps
    <3>2. TakeEventErr(c)
      BY LastSteps
    <3>3. eventErr # 0
      BY <2>0, <3>2 DEF TakeEventErr, Goto
    <3> QED BY <3>1, <3>3 DEF ErrorInv, ErrorOf
  <2>3. NothingDropped
    <3> SUFFICES ASSUME eventErr # 0, eventErr = activeRun, eventErr' # eventErr
                 PROVE  \E c \in Callers : held[c] = eventErr /\ pc[c] = "take" /\ pc'[c] = "fail"
      BY DEF NothingDropped
    <3>1. ~(Steer \/ FollowUp \/ ClearQueues \/ SetQueueMode \/ Reset)
      BY DEF Steer, FollowUp, ClearQueues, SetQueueMode, Reset, othersOfQueues
    <3>2. ~(UNCHANGED vars)
      BY DEF vars
    <3>3. PICK c \in Callers : CallerStep(c)
      BY <3>1, <3>2 DEF Next, CallerStep
    <3>4. TakeEventErr(c)
      BY <3>3, ErrorMoves DEF TypeInv
    <3>5. pc[c] = "take" /\ pc'[c] = "fail"
      BY <2>0, <3>4 DEF TakeEventErr, Goto
    <3>6. held[c] = activeRun
      BY <3>5 DEF TypeInv, RunInv, PointerInv, InRun, RunSteps
    <3> QED BY <3>5, <3>6
  <2> QED BY <2>1, <2>2, <2>3
<1>4. Spec => [][Told]_vars
  BY <1>1, <1>2, <1>3, TypeInvariant, PTL DEF Spec
<1> QED BY <1>4 DEF FailureIsReported

-----------------------------------------------------------------------------
(***************************************************************************)
(* Where a message is, and in which order.                                 *)
(***************************************************************************)
\* A tool's result is not a user's message.
ResultsDiffer == "toolResult" \notin UserMessages

\* A message is given to one of Prompt, Steer and FollowUp.
CallsDiffer ==
  Prompts \cap Steers = {} /\ Prompts \cap FollowUps = {} /\ Steers \cap FollowUps = {}

\* The steps of a run at which the loop has messages in its hands, and those after which
\* it commits none of them.
FailingSteps == {"fail", "failEnd", "failTurn", "failAgentEnd", "finish"}
CarryingSteps == FailingSteps \cup {"begin", "agentStart", "turnStart", "msgStart", "msgEnd"}

\* No message of U is twice in s.
OnceIn(s, U) == \A i, j \in DOMAIN s : s[i] \in U /\ s[i] = s[j] => i = j

\* The messages of U are in s in the order they have in o.
SortedIn(s, U, o) ==
  \A i, j \in DOMAIN s : i < j /\ s[i] \in U /\ s[j] \in U => Before(o, s[i], s[j])

\* s is a followed by b.
Splits(s, a, b) ==
  /\ DOMAIN s = 1..(Len(a) + Len(b)) /\ DOMAIN a = 1..Len(a) /\ DOMAIN b = 1..Len(b)
  /\ Len(a) \in Nat /\ Len(b) \in Nat
  /\ \A i \in 1..Len(a) : s[i] = a[i]
  /\ \A i \in 1..Len(b) : s[Len(a) + i] = b[i]

\* The messages in the hands t of the goroutines that the transcript dl does not have.
HandsIn(t, dl) ==
  {m \in UserMessages : m \notin Elements(dl) /\ \E c \in Callers : m \in Elements(t[c])}

\* The places of a message: steering queue, follow-up queue, hands, transcript, cleared, lost.
Places(S, A, B, H, D, C, L) ==
  /\ S = A \cup B \cup H \cup D \cup C \cup L
  /\ A \cap B = {} /\ (A \cup B) \cap H = {} /\ (A \cup B \cup H) \cap D = {}
  /\ (A \cup B \cup H \cup D) \cap C = {} /\ (A \cup B \cup H \cup D \cup C) \cap L = {}

PlacesInv ==
  Places(Elements(sent), Elements(steeringQueue), Elements(followUpQueue),
         HandsIn(todo, delivered), Elements(delivered), cleared, lost)

OnceInv ==
  /\ OnceIn(sent, UserMessages) /\ OnceIn(delivered, UserMessages)
  /\ OnceIn(steeringQueue, UserMessages) /\ OnceIn(followUpQueue, UserMessages)
  /\ \A c \in Callers : OnceIn(todo[c], UserMessages)

\* What a goroutine has in its hands at each step.
HandOf(c) ==
  /\ pc[c] \notin CarryingSteps => todo[c] = <<>>
  /\ pc[c] \notin FailingSteps =>
       Elements(todo[c]) \cap UserMessages \cap Elements(delivered) = {}
  /\ pc[c] \in FailingSteps =>
       (Elements(todo[c]) \cap UserMessages \subseteq Elements(delivered) \/ failures > 0)

HandInv == /\ \A c \in Callers : HandOf(c)
           /\ lost # {} => failures > 0

FlowInv == PlacesInv /\ OnceInv /\ HandInv

\* The messages U of the sets D, H and W are in that order in o.
LinedUp(D, H, W, U, o) ==
  /\ \A x \in D \cap U, y \in (H \cup W) \cap U : Before(o, x, y)
  /\ \A x \in H \cap U, y \in W \cap U : Before(o, x, y)

\* Of the messages U, given in the order o: the transcript dl, the hands t and the queue w
\* each have them in that order, and what is further on was given earlier.
OrderAt(U, w, o, dl, t) ==
  /\ SortedIn(dl, U, o) /\ SortedIn(w, U, o)
  /\ \A c \in Callers : SortedIn(t[c], U, o)
  /\ LinedUp(Elements(dl), HandsIn(t, dl), Elements(w), U, o)

OrderInv ==
  /\ Elements(steeringQueue) \subseteq Steers /\ Elements(followUpQueue) \subseteq FollowUps
  /\ OrderAt(Steers, steeringQueue, sent, delivered, todo)
  /\ OrderAt(FollowUps, followUpQueue, sent, delivered, todo)

\* Only c may have something in its hands.
Alone(t, c) ==
  /\ t \in [Callers -> Seq(WorkMessages)]
  /\ \A d \in Callers : d # c => t[d] = <<>>

LEMMA ElementsIs ==
  \A S : \A s \in Seq(S) :
    /\ DOMAIN s = 1..Len(s) /\ Len(s) \in Nat /\ Elements(s) \subseteq S
    /\ \A i \in DOMAIN s : s[i] \in Elements(s)
BY DEF Elements

\* A message appended, the first of a batch, and what Drain hands out and keeps.
LEMMA AppendSplits ==
  \A S : \A s \in Seq(S), m \in S :
    /\ Splits(Append(s, m), s, <<m>>)
    /\ Append(s, m) \in Seq(S) /\ <<m>> \in Seq(S)
    /\ Elements(<<m>>) = {m}
BY DEF Splits, Elements

LEMMA HeadSplits ==
  \A S : \A s \in Seq(S) : s # <<>> =>
    /\ Splits(s, <<Head(s)>>, Tail(s))
    /\ Head(s) \in S /\ Tail(s) \in Seq(S) /\ <<Head(s)>> \in Seq(S)
    /\ Elements(<<Head(s)>>) = {Head(s)}
    /\ ~ (Len(s) > 1) => Tail(s) = <<>>
<1> SUFFICES ASSUME NEW S, NEW s \in Seq(S), s # <<>>
             PROVE  /\ Splits(s, <<Head(s)>>, Tail(s))
                    /\ Head(s) \in S /\ Tail(s) \in Seq(S) /\ <<Head(s)>> \in Seq(S)
                    /\ Elements(<<Head(s)>>) = {Head(s)}
                    /\ ~ (Len(s) > 1) => Tail(s) = <<>>
  BY Zenon
<1>1. /\ Head(s) \in S /\ Head(s) = s[1] /\ Tail(s) \in Seq(S)
      /\ Len(s) \in Nat \ {0} /\ Len(Tail(s)) = Len(s) - 1
      /\ \A i \in 1..Len(Tail(s)) : Tail(s)[i] = s[i + 1]
  BY EmptySeq, HeadTailProperties
<1> DEFINE h == Head(s)
           t == Tail(s)
<1> HIDE DEF h, t
<1>2. h \in S /\ h = s[1] /\ t \in Seq(S) /\ Len(t) = Len(s) - 1
      /\ \A i \in 1..Len(t) : t[i] = s[i + 1]
  BY <1>1 DEF h, t
<1>3. /\ Len(<<h>>) = 1 /\ <<h>>[1] = h /\ DOMAIN <<h>> = 1..1 /\ <<h>> \in Seq(S)
      /\ DOMAIN t = 1..Len(t) /\ DOMAIN s = 1..Len(s) /\ Len(t) \in Nat
  BY <1>2
<1>4. Splits(s, <<h>>, t)
  BY <1>1, <1>2, <1>3 DEF Splits
<1>5. Elements(<<h>>) = {h}
  BY <1>3 DEF Elements
<1>6. ~ (Len(s) > 1) => t = <<>>
  BY CommitLast DEF t
<1> QED BY <1>2, <1>3, <1>4, <1>5, <1>6 DEF h, t

LEMMA NothingHeld ==
  /\ Elements(<<>>) = {}
  /\ \A U, o : OnceIn(<<>>, U) /\ SortedIn(<<>>, U, o)
  /\ \A S : <<>> \in Seq(S)
BY DEF Elements, OnceIn, SortedIn

LEMMA DrainSplits ==
  \A S : \A s \in Seq(S) : \A mode :
    /\ Splits(s, Drained(s, mode), Kept(s, mode))
    /\ Drained(s, mode) \in Seq(S) /\ Kept(s, mode) \in Seq(S)
    /\ Drained(s, mode) = <<>> <=> s = <<>>
<1> SUFFICES ASSUME NEW S, NEW s \in Seq(S), NEW mode
             PROVE  /\ Splits(s, Drained(s, mode), Kept(s, mode))
                    /\ Drained(s, mode) \in Seq(S) /\ Kept(s, mode) \in Seq(S)
                    /\ Drained(s, mode) = <<>> <=> s = <<>>
  OBVIOUS
<1>1. CASE mode = "all" \/ s = <<>>
  <2>1. Drained(s, mode) = s /\ Kept(s, mode) = <<>>
    BY <1>1 DEF Drained, Kept
  <2>2. Splits(s, s, <<>>)
    BY DEF Splits
  <2> QED BY <2>1, <2>2, NothingHeld
<1>2. CASE ~ (mode = "all" \/ s = <<>>)
  <2>1. Drained(s, mode) = <<Head(s)>> /\ Kept(s, mode) = Tail(s)
    BY <1>2 DEF Drained, Kept
  <2>2. s # <<>>
    BY <1>2
  <2>3. /\ Splits(s, <<Head(s)>>, Tail(s))
        /\ <<Head(s)>> \in Seq(S) /\ Tail(s) \in Seq(S)
    BY <2>2, HeadSplits, Zenon
  <2>4. <<Head(s)>> # <<>>
    OBVIOUS
  <2> QED BY <2>1, <2>2, <2>3, <2>4, Zenon
<1> QED BY <1>1, <1>2

\* What holds of a sequence holds of its two parts and of the one before the other.
LEMMA SplitElements ==
  ASSUME NEW s, NEW a, NEW b, Splits(s, a, b)
  PROVE  Elements(s) = Elements(a) \cup Elements(b)
<1>1. \A i \in DOMAIN s : i \in 1..Len(a) \/ (i - Len(a) \in 1..Len(b) /\ i = Len(a) + (i - Len(a)))
  BY DEF Splits
<1>2. Elements(s) \subseteq Elements(a) \cup Elements(b)
  <2> SUFFICES ASSUME NEW i \in DOMAIN s PROVE s[i] \in Elements(a) \cup Elements(b)
    BY DEF Elements
  <2>1. CASE i \in 1..Len(a)
    BY <2>1 DEF Splits, Elements
  <2>2. CASE i - Len(a) \in 1..Len(b) /\ i = Len(a) + (i - Len(a))
    <3>1. s[i] = b[i - Len(a)]
      BY <2>2 DEF Splits
    <3> QED BY <2>2, <3>1 DEF Splits, Elements
  <2> QED BY <1>1, <2>1, <2>2
<1>3. Elements(a) \subseteq Elements(s)
  BY DEF Splits, Elements
<1>4. Elements(b) \subseteq Elements(s)
  <2> SUFFICES ASSUME NEW i \in DOMAIN b PROVE b[i] \in Elements(s)
    BY DEF Elements
  <2>1. Len(a) + i \in DOMAIN s /\ s[Len(a) + i] = b[i]
    BY DEF Splits
  <2> QED BY <2>1 DEF Elements
<1> QED BY <1>2, <1>3, <1>4

LEMMA SplitOnce ==
  ASSUME NEW s, NEW a, NEW b, Splits(s, a, b), NEW U
  PROVE  OnceIn(s, U) <=> /\ OnceIn(a, U) /\ OnceIn(b, U)
                          /\ Elements(a) \cap Elements(b) \cap U = {}
<1>1. /\ \A i \in DOMAIN a : i \in DOMAIN s /\ s[i] = a[i]
      /\ \A i \in DOMAIN b : Len(a) + i \in DOMAIN s /\ s[Len(a) + i] = b[i]
      /\ \A i \in DOMAIN a, j \in DOMAIN b : i # Len(a) + j
      /\ \A i, j \in DOMAIN b : Len(a) + i = Len(a) + j => i = j
  BY DEF Splits
<1>2. \A i \in DOMAIN s : i \in DOMAIN a \/ \E j \in DOMAIN b : i = Len(a) + j
  <2> SUFFICES ASSUME NEW i \in DOMAIN s, i \notin DOMAIN a PROVE \E j \in DOMAIN b : i = Len(a) + j
    OBVIOUS
  <2>1. i - Len(a) \in DOMAIN b /\ i = Len(a) + (i - Len(a))
    BY DEF Splits
  <2> QED BY <2>1
<1>3. ASSUME OnceIn(s, U)
      PROVE  OnceIn(a, U) /\ OnceIn(b, U) /\ Elements(a) \cap Elements(b) \cap U = {}
  <2>1. OnceIn(a, U)
    BY <1>1, <1>3 DEF OnceIn
  <2>2. OnceIn(b, U)
    <3> SUFFICES ASSUME NEW i \in DOMAIN b, NEW j \in DOMAIN b, b[i] \in U, b[i] = b[j]
                 PROVE  i = j
      BY DEF OnceIn
    <3>1. Len(a) + i = Len(a) + j
      BY <1>1, <1>3 DEF OnceIn
    <3> QED BY <1>1, <3>1
  <2>3. ASSUME NEW i \in DOMAIN a, NEW j \in DOMAIN b, a[i] \in U PROVE a[i] # b[j]
    BY <1>1, <1>3, <2>3 DEF OnceIn
  <2> QED BY <2>1, <2>2, <2>3 DEF Elements
<1>4. ASSUME OnceIn(a, U), OnceIn(b, U), Elements(a) \cap Elements(b) \cap U = {}
      PROVE  OnceIn(s, U)
  <2> SUFFICES ASSUME NEW i \in DOMAIN s, NEW j \in DOMAIN s, s[i] \in U, s[i] = s[j]
               PROVE  i = j
    BY DEF OnceIn
  <2>1. \A k \in DOMAIN a, l \in DOMAIN b : a[k] \in U => a[k] # b[l]
    BY <1>4 DEF Elements
  <2>2. CASE i \in DOMAIN a /\ j \in DOMAIN a
    BY <1>1, <1>4, <2>2 DEF OnceIn
  <2>3. CASE i \in DOMAIN a /\ \E k \in DOMAIN b : j = Len(a) + k
    BY <1>1, <2>1, <2>3
  <2>4. CASE j \in DOMAIN a /\ \E k \in DOMAIN b : i = Len(a) + k
    BY <1>1, <2>1, <2>4
  <2>5. CASE (\E k \in DOMAIN b : i = Len(a) + k) /\ (\E k \in DOMAIN b : j = Len(a) + k)
    <3>1. PICK k \in DOMAIN b : i = Len(a) + k
      BY <2>5
    <3>2. PICK l \in DOMAIN b : j = Len(a) + l
      BY <2>5
    <3>3. b[k] = b[l] /\ b[k] \in U
      BY <1>1, <3>1, <3>2
    <3>4. k = l
      BY <1>4, <3>3 DEF OnceIn
    <3> QED BY <3>1, <3>2, <3>4
  <2> QED BY <1>2, <2>2, <2>3, <2>4, <2>5
<1> QED BY <1>3, <1>4

LEMMA SplitSorted ==
  ASSUME NEW s, NEW a, NEW b, Splits(s, a, b), NEW U, NEW o
  PROVE  SortedIn(s, U, o) <=>
           /\ SortedIn(a, U, o) /\ SortedIn(b, U, o)
           /\ \A x \in Elements(a) \cap U, y \in Elements(b) \cap U : Before(o, x, y)
<1>1. /\ \A i \in DOMAIN a : i \in DOMAIN s /\ s[i] = a[i]
      /\ \A i \in DOMAIN b : Len(a) + i \in DOMAIN s /\ s[Len(a) + i] = b[i]
      /\ \A i \in DOMAIN a, j \in DOMAIN b : i < Len(a) + j /\ ~ (Len(a) + j < i)
      /\ \A i, j \in DOMAIN b : i < j <=> Len(a) + i < Len(a) + j
  BY DEF Splits
<1>2. \A i \in DOMAIN s : i \in DOMAIN a \/ \E j \in DOMAIN b : i = Len(a) + j
  <2> SUFFICES ASSUME NEW i \in DOMAIN s, i \notin DOMAIN a PROVE \E j \in DOMAIN b : i = Len(a) + j
    OBVIOUS
  <2>1. i - Len(a) \in DOMAIN b /\ i = Len(a) + (i - Len(a))
    BY DEF Splits
  <2> QED BY <2>1
<1>3. ASSUME SortedIn(s, U, o)
      PROVE  /\ SortedIn(a, U, o) /\ SortedIn(b, U, o)
             /\ \A x \in Elements(a) \cap U, y \in Elements(b) \cap U : Before(o, x, y)
  <2>1. SortedIn(a, U, o)
    BY <1>1, <1>3 DEF SortedIn
  <2>2. SortedIn(b, U, o)
    <3> SUFFICES ASSUME NEW i \in DOMAIN b, NEW j \in DOMAIN b, i < j, b[i] \in U, b[j] \in U
                 PROVE  Before(o, b[i], b[j])
      BY DEF SortedIn
    <3>1. Len(a) + i < Len(a) + j
      BY <1>1
    <3> QED BY <1>1, <1>3, <3>1 DEF SortedIn
  <2>3. ASSUME NEW i \in DOMAIN a, NEW j \in DOMAIN b, a[i] \in U, b[j] \in U
        PROVE  Before(o, a[i], b[j])
    BY <1>1, <1>3, <2>3 DEF SortedIn
  <2> QED BY <2>1, <2>2, <2>3 DEF Elements
<1>4. ASSUME SortedIn(a, U, o), SortedIn(b, U, o),
             \A x \in Elements(a) \cap U, y \in Elements(b) \cap U : Before(o, x, y)
      PROVE  SortedIn(s, U, o)
  <2> SUFFICES ASSUME NEW i \in DOMAIN s, NEW j \in DOMAIN s, i < j, s[i] \in U, s[j] \in U
               PROVE  Before(o, s[i], s[j])
    BY DEF SortedIn
  <2>1. \A k \in DOMAIN a, l \in DOMAIN b : a[k] \in U /\ b[l] \in U => Before(o, a[k], b[l])
    BY <1>4 DEF Elements
  <2>2. CASE i \in DOMAIN a /\ j \in DOMAIN a
    BY <1>1, <1>4, <2>2 DEF SortedIn
  <2>3. CASE i \in DOMAIN a /\ \E k \in DOMAIN b : j = Len(a) + k
    BY <1>1, <2>1, <2>3
  <2>4. CASE j \in DOMAIN a /\ \E k \in DOMAIN b : i = Len(a) + k
    BY <1>1, <2>4
  <2>5. CASE (\E k \in DOMAIN b : i = Len(a) + k) /\ (\E k \in DOMAIN b : j = Len(a) + k)
    <3>1. PICK k \in DOMAIN b : i = Len(a) + k
      BY <2>5
    <3>2. PICK l \in DOMAIN b : j = Len(a) + l
      BY <2>5
    <3>3. b[k] = s[i] /\ b[l] = s[j] /\ k < l
      BY <1>1, <3>1, <3>2
    <3> QED BY <1>4, <3>3 DEF SortedIn
  <2> QED BY <1>2, <2>2, <2>3, <2>4, <2>5
<1> QED BY <1>3, <1>4

\* The order of the calls only grows.
LEMMA BeforeGrows ==
  ASSUME NEW S, NEW o \in Seq(S), NEW m \in S
  PROVE  /\ \A x, y : Before(o, x, y) => Before(Append(o, m), x, y)
         /\ \A x \in Elements(o) : Before(Append(o, m), x, m)
<1>1. /\ DOMAIN o = 1..Len(o) /\ DOMAIN Append(o, m) = 1..(Len(o) + 1) /\ Len(o) \in Nat
      /\ \A i \in 1..Len(o) : Append(o, m)[i] = o[i]
      /\ Append(o, m)[Len(o) + 1] = m
  OBVIOUS
<1>2. \A i \in DOMAIN o : i \in DOMAIN Append(o, m) /\ Append(o, m)[i] = o[i]
  BY <1>1
<1>3. \A x, y : Before(o, x, y) => Before(Append(o, m), x, y)
  BY <1>2 DEF Before
<1>4. ASSUME NEW x \in Elements(o) PROVE Before(Append(o, m), x, m)
  <2>1. PICK i \in DOMAIN o : o[i] = x
    BY DEF Elements
  <2>2. i < Len(o) + 1 /\ Len(o) + 1 \in DOMAIN Append(o, m)
    BY <1>1
  <2> QED BY <1>1, <1>2, <2>1, <2>2 DEF Before
<1> QED BY <1>3, <1>4

(***************************************************************************)
(* The moves of a message.                                                 *)
(***************************************************************************)
LEMMA HandsAre ==
  ASSUME NEW c \in Callers, NEW t, Alone(t, c), NEW dl
  PROVE  HandsIn(t, dl) = (Elements(t[c]) \cap UserMessages) \ Elements(dl)
BY NothingHeld DEF Alone, HandsIn

LEMMA AloneStill ==
  ASSUME NEW c \in Callers, NEW t, Alone(t, c), NEW s \in Seq(WorkMessages)
  PROVE  Alone([t EXCEPT ![c] = s], c) /\ [t EXCEPT ![c] = s][c] = s
BY DEF Alone

\* Another message is given.
LEMMA OrderGrows ==
  ASSUME NEW U, NEW w, NEW o \in Seq(UserMessages), NEW dl, NEW t, OrderAt(U, w, o, dl, t),
         NEW m \in UserMessages
  PROVE  OrderAt(U, w, Append(o, m), dl, t)
<1>1. \A x, y : Before(o, x, y) => Before(Append(o, m), x, y)
  BY BeforeGrows
<1>2. \A s : SortedIn(s, U, o) => SortedIn(s, U, Append(o, m))
  BY <1>1 DEF SortedIn
<1>3. LinedUp(Elements(dl), HandsIn(t, dl), Elements(w), U, Append(o, m))
  BY <1>1 DEF OrderAt, LinedUp
<1> QED BY <1>2, <1>3 DEF OrderAt

\* It is queued.
LEMMA OrderQueued ==
  ASSUME NEW U, NEW w \in Seq(UserMessages), NEW o \in Seq(UserMessages), NEW dl, NEW t,
         OrderAt(U, w, o, dl, t), NEW m \in UserMessages,
         Elements(w) \cup HandsIn(t, dl) \cup Elements(dl) \subseteq Elements(o)
  PROVE  OrderAt(U, Append(w, m), Append(o, m), dl, t)
<1>1. \A x \in Elements(o) : Before(Append(o, m), x, m)
  BY BeforeGrows
<1>2. OrderAt(U, w, Append(o, m), dl, t)
  BY OrderGrows
<1>3. Splits(Append(w, m), w, <<m>>) /\ Elements(<<m>>) = {m}
  BY AppendSplits
<1>4. Elements(Append(w, m)) = Elements(w) \cup {m}
  BY <1>3, SplitElements
<1>5. SortedIn(<<m>>, U, Append(o, m))
  BY DEF SortedIn
<1>6. SortedIn(Append(w, m), U, Append(o, m))
  <2>1. \A x \in Elements(w) \cap U, y \in {m} \cap U : Before(Append(o, m), x, y)
    BY <1>1
  <2>2. SortedIn(w, U, Append(o, m))
    BY <1>2 DEF OrderAt
  <2> QED BY <1>3, <1>5, <2>1, <2>2, SplitSorted
<1>7. LinedUp(Elements(dl), HandsIn(t, dl), Elements(Append(w, m)), U, Append(o, m))
  BY <1>1, <1>2, <1>4 DEF OrderAt, LinedUp
<1> QED BY <1>2, <1>6, <1>7 DEF OrderAt

\* Empty hands are given messages that are not in U.
LEMMA OrderHanded ==
  ASSUME NEW U, NEW w, NEW o, NEW dl, NEW t, OrderAt(U, w, o, dl, t),
         NEW c \in Callers, Alone(t, c), t[c] = <<>>,
         NEW s \in Seq(WorkMessages), Elements(s) \cap U = {}
  PROVE  OrderAt(U, w, o, dl, [t EXCEPT ![c] = s])
<1> DEFINE u == [t EXCEPT ![c] = s]
<1>1. Alone(u, c) /\ u[c] = s
  BY AloneStill
<1>2. \A d \in Callers : u[d] = s \/ u[d] = t[d]
  BY DEF Alone
<1> HIDE DEF u
<1>3. SortedIn(s, U, o)
  <2>1. \A i \in DOMAIN s : s[i] \notin U
    BY DEF Elements
  <2> QED BY <2>1 DEF SortedIn
<1>4. HandsIn(u, dl) = (Elements(s) \cap UserMessages) \ Elements(dl)
  BY <1>1, HandsAre
<1>5. LinedUp(Elements(dl), HandsIn(u, dl), Elements(w), U, o)
  BY <1>4 DEF OrderAt, LinedUp
<1>6. OrderAt(U, w, o, dl, u)
  BY <1>2, <1>3, <1>5 DEF OrderAt
<1> QED BY <1>6 DEF u

\* A queue is drained into empty hands.
LEMMA OrderDrained ==
  ASSUME NEW U, NEW w \in Seq(UserMessages), NEW o, NEW dl, NEW t, OrderAt(U, w, o, dl, t),
         NEW c \in Callers, Alone(t, c), t[c] = <<>>, NEW mode
  PROVE  OrderAt(U, Kept(w, mode), o, dl, [t EXCEPT ![c] = Drained(w, mode)])
<1> DEFINE s == Drained(w, mode)
           k == Kept(w, mode)
           u == [t EXCEPT ![c] = s]
<1>1. Splits(w, s, k) /\ s \in Seq(UserMessages) /\ k \in Seq(UserMessages)
  BY DrainSplits
<1>2. s \in Seq(WorkMessages)
  <2>1. UserMessages \subseteq WorkMessages
    BY DEF WorkMessages
  <2> HIDE DEF s
  <2> QED BY <1>1, <2>1, SeqMonotonic
<1> HIDE DEF s, k
<1>3. Alone(u, c) /\ u[c] = s
  BY <1>2, AloneStill
<1>4. \A d \in Callers : u[d] = s \/ u[d] = t[d]
  BY DEF Alone
<1> HIDE DEF u
<1>5. Elements(w) = Elements(s) \cup Elements(k)
  BY <1>1, SplitElements
<1>6. /\ SortedIn(s, U, o) /\ SortedIn(k, U, o)
      /\ \A x \in Elements(s) \cap U, y \in Elements(k) \cap U : Before(o, x, y)
  <2>1. SortedIn(w, U, o)
    BY DEF OrderAt
  <2> QED BY <1>1, <2>1, SplitSorted
<1>7. HandsIn(u, dl) = (Elements(s) \cap UserMessages) \ Elements(dl)
  BY <1>3, HandsAre
<1>8. LinedUp(Elements(dl), HandsIn(u, dl), Elements(k), U, o)
  BY <1>5, <1>6, <1>7 DEF OrderAt, LinedUp
<1>9. OrderAt(U, k, o, dl, u)
  BY <1>4, <1>6, <1>8 DEF OrderAt
<1> QED BY <1>9 DEF u, s, k

\* The first message in the hands is committed; the hands may keep it, too.
LEMMA OrderCommitted ==
  ASSUME NEW U, U \subseteq UserMessages, NEW w, NEW o, NEW dl \in Seq(UserMessages), NEW t,
         OrderAt(U, w, o, dl, t),
         NEW c \in Callers, Alone(t, c), t[c] # <<>>,
         NEW dm, dm = IF Head(t[c]) \in UserMessages THEN Append(dl, Head(t[c])) ELSE dl,
         Head(t[c]) \in UserMessages => Head(t[c]) \notin Elements(dl),
         NEW u, u = t \/ u = [t EXCEPT ![c] = Tail(t[c])]
  PROVE  OrderAt(U, w, o, dm, u)
<1> DEFINE s == t[c]
           h == Head(s)
           r == Tail(s)
<1>1. s \in Seq(WorkMessages) /\ s # <<>>
  BY DEF Alone
<1>2. /\ Splits(s, <<h>>, r) /\ h \in WorkMessages /\ r \in Seq(WorkMessages)
      /\ Elements(<<h>>) = {h}
  <2> HIDE DEF s
  <2> QED BY <1>1, HeadSplits, Zenon
<1>3. /\ Alone(u, c) /\ u[c] \in {s, r}
      /\ \A d \in Callers : u[d] \in {t[d], r}
  <2> HIDE DEF r
  <2>1. CASE u = t
    BY <2>1
  <2>2. CASE u = [t EXCEPT ![c] = r]
    <3>1. Alone(u, c) /\ u[c] = r
      BY <1>2, <2>2, AloneStill
    <3>2. \A d \in Callers : u[d] \in {t[d], r}
      BY <2>2 DEF Alone
    <3> QED BY <3>1, <3>2
  <2> QED BY <2>1, <2>2 DEF r
<1>4. /\ h \in UserMessages => h \notin Elements(dl)
      /\ dm = IF h \in UserMessages THEN Append(dl, h) ELSE dl
  OBVIOUS
<1> HIDE DEF h, r, s
<1>5. Elements(s) = {h} \cup Elements(r)
  BY <1>2, SplitElements
<1>6. /\ SortedIn(r, U, o)
      /\ \A x \in {h} \cap U, y \in Elements(r) \cap U : Before(o, x, y)
  <2>1. SortedIn(s, U, o)
    BY DEF OrderAt, s
  <2>2. /\ SortedIn(r, U, o)
        /\ \A x \in Elements(<<h>>) \cap U, y \in Elements(r) \cap U : Before(o, x, y)
    BY <1>2, <2>1, SplitSorted
  <2> QED BY <1>2, <2>2
<1>7. HandsIn(t, dl) = (Elements(s) \cap UserMessages) \ Elements(dl)
  BY HandsAre DEF s
<1>8. /\ HandsIn(u, dm) = (Elements(u[c]) \cap UserMessages) \ Elements(dm)
      /\ Elements(u[c]) = {h} \cup Elements(r) \/ Elements(u[c]) = Elements(r)
  BY <1>3, <1>5, HandsAre
<1>9. \A d \in Callers : SortedIn(u[d], U, o)
  BY <1>3, <1>6 DEF OrderAt
<1>10. CASE h \notin UserMessages
  <2>1. dm = dl
    BY <1>4, <1>10
  <2>2. HandsIn(u, dm) = HandsIn(t, dl)
    BY <1>5, <1>7, <1>8, <1>10, <2>1
  <2> QED BY <1>9, <2>1, <2>2 DEF OrderAt
<1>11. CASE h \in UserMessages
  <2>1. dm = Append(dl, h) /\ h \in HandsIn(t, dl)
    BY <1>4, <1>5, <1>7, <1>11
  <2>2. Splits(Append(dl, h), dl, <<h>>)
    BY <1>11, AppendSplits
  <2>3. Elements(dm) = Elements(dl) \cup {h}
    BY <1>2, <2>1, <2>2, SplitElements
  <2>4. SortedIn(<<h>>, U, o)
    BY DEF SortedIn
  <2>5. SortedIn(dm, U, o)
    <3>1. \A x \in Elements(dl) \cap U, y \in Elements(<<h>>) \cap U : Before(o, x, y)
      BY <1>2, <2>1 DEF OrderAt, LinedUp
    <3>2. SortedIn(dl, U, o)
      BY DEF OrderAt
    <3> QED BY <2>1, <2>2, <2>4, <3>1, <3>2, SplitSorted
  <2>6. /\ HandsIn(u, dm) \subseteq HandsIn(t, dl)
        /\ HandsIn(u, dm) \cap U \subseteq Elements(r) \cap U
    BY <1>5, <1>7, <1>8, <2>3
  <2>7. LinedUp(Elements(dm), HandsIn(u, dm), Elements(w), U, o)
    <3>1. LinedUp(Elements(dl), HandsIn(t, dl), Elements(w), U, o)
      BY DEF OrderAt
    <3> QED BY <1>6, <2>1, <2>3, <2>6, <3>1 DEF LinedUp
  <2> QED BY <1>9, <2>5, <2>7 DEF OrderAt
<1> QED BY <1>10, <1>11

\* The hands are emptied.
LEMMA OrderDropped ==
  ASSUME NEW U, NEW w, NEW o, NEW dl, NEW t, OrderAt(U, w, o, dl, t),
         NEW c \in Callers, Alone(t, c)
  PROVE  OrderAt(U, w, o, dl, [t EXCEPT ![c] = <<>>])
<1> DEFINE u == [t EXCEPT ![c] = <<>>]
<1>1. Alone(u, c) /\ u[c] = <<>>
  <2>1. <<>> \in Seq(WorkMessages)
    BY NothingHeld
  <2> QED BY <2>1, AloneStill
<1>2. \A d \in Callers : u[d] = <<>>
  BY <1>1 DEF Alone
<1> HIDE DEF u
<1>3. HandsIn(u, dl) = {}
  BY <1>1, HandsAre, NothingHeld
<1>4. \A d \in Callers : SortedIn(u[d], U, o)
  BY <1>2, NothingHeld
<1>5. OrderAt(U, w, o, dl, u)
  BY <1>3, <1>4 DEF OrderAt, LinedUp
<1> QED BY <1>5 DEF u

\* The queue is emptied.
LEMMA OrderCleared ==
  ASSUME NEW U, NEW w, NEW o, NEW dl, NEW t, OrderAt(U, w, o, dl, t)
  PROVE  OrderAt(U, <<>>, o, dl, t)
BY NothingHeld DEF OrderAt, LinedUp

\* The moves a step of a goroutine can make: none, Prompt gives the run its message, a
\* queue is drained, the first message is committed, a turn's results are taken, and what
\* is left is dropped.
Stays ==
  /\ sent' = sent /\ delivered' = delivered /\ cleared' = cleared /\ lost' = lost
  /\ steeringQueue' = steeringQueue /\ followUpQueue' = followUpQueue /\ todo' = todo

Gives(c) ==
  /\ todo[c] = <<>>
  /\ \E m \in Prompts \ Elements(sent) :
       sent' = Append(sent, m) /\ todo' = [todo EXCEPT ![c] = <<m>>]
  /\ delivered' = delivered /\ cleared' = cleared /\ lost' = lost
  /\ steeringQueue' = steeringQueue /\ followUpQueue' = followUpQueue

TakesSteering(c) ==
  /\ todo[c] = <<>>
  /\ steeringQueue' = Kept(steeringQueue, steeringMode)
  /\ todo' = [todo EXCEPT ![c] = Drained(steeringQueue, steeringMode)]
  /\ sent' = sent /\ delivered' = delivered /\ cleared' = cleared /\ lost' = lost
  /\ followUpQueue' = followUpQueue

TakesFollowUps(c) ==
  /\ todo[c] = <<>>
  /\ followUpQueue' = Kept(followUpQueue, followUpMode)
  /\ todo' = [todo EXCEPT ![c] = Drained(followUpQueue, followUpMode)]
  /\ sent' = sent /\ delivered' = delivered /\ cleared' = cleared /\ lost' = lost
  /\ steeringQueue' = steeringQueue

CommitsFirst(c) ==
  /\ todo[c] # <<>>
  /\ Head(todo[c]) \in UserMessages => Head(todo[c]) \notin Elements(delivered)
  /\ delivered' = IF Head(todo[c]) \in UserMessages
                  THEN Append(delivered, Head(todo[c])) ELSE delivered
  /\ todo' = todo \/ todo' = [todo EXCEPT ![c] = Tail(todo[c])]
  /\ sent' = sent /\ cleared' = cleared /\ lost' = lost
  /\ steeringQueue' = steeringQueue /\ followUpQueue' = followUpQueue

TakesResults(c) ==
  /\ todo[c] = <<>>
  /\ \E s \in Seq({"toolResult"}) : todo' = [todo EXCEPT ![c] = s]
  /\ sent' = sent /\ delivered' = delivered /\ cleared' = cleared /\ lost' = lost
  /\ steeringQueue' = steeringQueue /\ followUpQueue' = followUpQueue

DropsRest(c) ==
  /\ lost' = lost \cup ((Elements(todo[c]) \cap UserMessages) \ Elements(delivered))
  /\ todo' = [todo EXCEPT ![c] = <<>>]
  /\ sent' = sent /\ delivered' = delivered /\ cleared' = cleared
  /\ steeringQueue' = steeringQueue /\ followUpQueue' = followUpQueue

Moves(c) ==
  \/ Stays \/ Gives(c) \/ TakesSteering(c) \/ TakesFollowUps(c) \/ CommitsFirst(c)
  \/ TakesResults(c) \/ DropsRest(c)

\* The moves between the places.
LEMMA PlacesGiven ==
  \A S, A, B, D, C, L, m :
    Places(S, A, B, {}, D, C, L) /\ m \notin S => Places(S \cup {m}, A, B, {m}, D, C, L)
BY DEF Places

LEMMA PlacesTaken ==
  \A S, A, B, D, C, L, X, Y :
    X \cap Y = {} =>
      /\ Places(S, X \cup Y, B, {}, D, C, L) => Places(S, Y, B, X, D, C, L)
      /\ Places(S, A, X \cup Y, {}, D, C, L) => Places(S, A, Y, X, D, C, L)
BY DEF Places

LEMMA PlacesCommitted ==
  \A S, A, B, H, D, C, L, m :
    Places(S, A, B, H \cup {m}, D, C, L) /\ m \notin H => Places(S, A, B, H, D \cup {m}, C, L)
BY DEF Places

LEMMA PlacesDropped ==
  \A S, A, B, H, D, C, L :
    Places(S, A, B, H, D, C, L) => Places(S, A, B, {}, D, C, L \cup H)
BY DEF Places

LEMMA PlacesApart ==
  \A S, A, B, H, D, C, L :
    Places(S, A, B, H, D, C, L) =>
      /\ A \cap D = {} /\ B \cap D = {} /\ A \cap B = {}
      /\ A \cup H \cup D \subseteq S /\ B \cup H \cup D \subseteq S
BY DEF Places

LEMMA PlacesQueued ==
  \A S, A, B, H, D, C, L, m :
    Places(S, A, B, H, D, C, L) /\ m \notin S =>
      /\ Places(S \cup {m}, A \cup {m}, B, H, D, C, L)
      /\ Places(S \cup {m}, A, B \cup {m}, H, D, C, L)
BY DEF Places

LEMMA PlacesCleared ==
  \A S, A, B, H, D, C, L :
    Places(S, A, B, H, D, C, L) =>
      /\ Places(S, {}, B, H, D, C \cup A, L)
      /\ Places(S, A, {}, H, D, C \cup B, L)
BY DEF Places

\* What a batch of results is.
LEMMA ResultsAre ==
  ASSUME ResultsDiffer, NEW s \in Seq({"toolResult"})
  PROVE  s \in Seq(WorkMessages) /\ Elements(s) \cap UserMessages = {} /\ OnceIn(s, UserMessages)
<1>1. \A i \in DOMAIN s : s[i] = "toolResult"
  OBVIOUS
<1>2. s \in Seq(WorkMessages)
  <2>1. {"toolResult"} \subseteq WorkMessages
    BY DEF WorkMessages
  <2> QED BY <2>1, SeqMonotonic
<1> QED BY <1>1, <1>2 DEF Elements, OnceIn, ResultsDiffer

\* No move loses a message or doubles one.
LEMMA MoveKeepsPlaces ==
  ASSUME ResultsDiffer, TypeInv, PlacesInv, OnceInv, NEW c \in Callers, Alone(todo, c), Moves(c)
  PROVE  PlacesInv' /\ OnceInv'
<1>1. /\ sent \in Seq(UserMessages) /\ delivered \in Seq(UserMessages)
      /\ steeringQueue \in Seq(UserMessages) /\ followUpQueue \in Seq(UserMessages)
      /\ todo[c] \in Seq(WorkMessages)
  BY DEF TypeInv, HistoryOK, QueuesOK, Alone
<1>2. HandsIn(todo, delivered) = (Elements(todo[c]) \cap UserMessages) \ Elements(delivered)
  BY HandsAre
<1>3. ASSUME NEW s \in Seq(WorkMessages), todo' = [todo EXCEPT ![c] = s]
      PROVE  /\ HandsIn(todo, delivered)' = (Elements(s) \cap UserMessages) \ Elements(delivered')
             /\ OnceIn(s, UserMessages) => \A d \in Callers : OnceIn(todo'[d], UserMessages)
  <2>1. Alone(todo', c) /\ todo'[c] = s
    BY <1>3, AloneStill
  <2>2. HandsIn(todo', delivered') = (Elements(s) \cap UserMessages) \ Elements(delivered')
    BY <2>1, HandsAre
  <2>3. \A d \in Callers : todo'[d] = s \/ todo'[d] = todo[d]
    BY <1>3 DEF Alone
  <2> QED BY <2>2, <2>3 DEF HandsIn, OnceInv
<1>4. UserMessages \subseteq WorkMessages
  BY DEF WorkMessages
<1>5. CASE Stays
  BY <1>5 DEF Stays, PlacesInv, OnceInv, HandsIn
<1>6. CASE Gives(c)
  <2>1. PICK m \in Prompts \ Elements(sent) :
          sent' = Append(sent, m) /\ todo' = [todo EXCEPT ![c] = <<m>>]
    BY <1>6 DEF Gives
  <2>2. m \in UserMessages
    BY DEF UserMessages
  <2>3. /\ Splits(Append(sent, m), sent, <<m>>) /\ Elements(<<m>>) = {m}
        /\ <<m>> \in Seq(UserMessages)
    BY <1>1, <2>2, AppendSplits
  <2>4. <<m>> \in Seq(WorkMessages)
    BY <1>4, <2>3, SeqMonotonic
  <2>5. OnceIn(<<m>>, UserMessages)
    BY DEF OnceIn
  <2>6. Elements(sent') = Elements(sent) \cup {m}
    BY <2>1, <2>3, SplitElements
  <2>7. OnceIn(sent', UserMessages)
    BY <2>1, <2>3, <2>5, SplitOnce DEF OnceInv
  <2>8. /\ HandsIn(todo, delivered)' = {m} \ Elements(delivered)
        /\ \A d \in Callers : OnceIn(todo'[d], UserMessages)
    BY <1>3, <1>6, <2>1, <2>2, <2>3, <2>4, <2>5 DEF Gives
  <2>9. HandsIn(todo, delivered) = {}
    BY <1>2, <1>6, NothingHeld DEF Gives
  <2>10. PlacesInv'
    <3>1. /\ delivered' = delivered /\ cleared' = cleared /\ lost' = lost
          /\ steeringQueue' = steeringQueue /\ followUpQueue' = followUpQueue
      BY <1>6 DEF Gives
    <3>2. m \notin Elements(delivered)
      BY <2>1, PlacesApart DEF PlacesInv
    <3>3. HandsIn(todo, delivered)' = {m}
      BY <2>8, <3>2
    <3>4. Places(Elements(sent) \cup {m}, Elements(steeringQueue), Elements(followUpQueue),
                 {m}, Elements(delivered), cleared, lost)
      BY <2>1, <2>9, PlacesGiven, Zenon DEF PlacesInv
    <3> QED BY <2>6, <3>1, <3>3, <3>4 DEF PlacesInv
  <2>11. OnceInv'
    BY <1>6, <2>7, <2>8 DEF OnceInv, Gives
  <2> QED BY <2>10, <2>11
<1> DEFINE Took(w, s, k) ==
             /\ HandsIn(todo, delivered) = {} /\ HandsIn(todo, delivered)' = Elements(s)
             /\ Elements(w) = Elements(s) \cup Elements(k) /\ Elements(s) \cap Elements(k) = {}
             /\ OnceIn(k, UserMessages) /\ \A d \in Callers : OnceIn(todo'[d], UserMessages)
<1>7. ASSUME NEW w \in Seq(UserMessages), NEW k \in Seq(UserMessages),
             NEW s \in Seq(UserMessages), Splits(w, s, k), todo[c] = <<>>,
             todo' = [todo EXCEPT ![c] = s], delivered' = delivered, OnceIn(w, UserMessages),
             Elements(w) \cap Elements(delivered) = {}
      PROVE  Took(w, s, k)
  <2>1. s \in Seq(WorkMessages)
    BY <1>4, SeqMonotonic
  <2>2. Elements(w) = Elements(s) \cup Elements(k)
    BY <1>7, SplitElements
  <2>3. /\ OnceIn(s, UserMessages) /\ OnceIn(k, UserMessages)
        /\ Elements(s) \cap Elements(k) \cap UserMessages = {}
    BY <1>7, SplitOnce
  <2>4. Elements(s) \subseteq UserMessages
    BY ElementsIs
  <2>5. HandsIn(todo, delivered) = {}
    BY <1>2, <1>7, NothingHeld
  <2>6. HandsIn(todo, delivered)' = (Elements(s) \cap UserMessages) \ Elements(delivered')
    BY <1>3, <1>7, <2>1
  <2> QED BY <1>3, <1>7, <2>1, <2>2, <2>3, <2>4, <2>5, <2>6
<1> HIDE DEF Took
<1>8. CASE TakesSteering(c)
  <2> DEFINE s == Drained(steeringQueue, steeringMode)
             k == Kept(steeringQueue, steeringMode)
  <2>1. Splits(steeringQueue, s, k) /\ s \in Seq(UserMessages) /\ k \in Seq(UserMessages)
    BY <1>1, DrainSplits
  <2>2. /\ todo' = [todo EXCEPT ![c] = s] /\ steeringQueue' = k /\ todo[c] = <<>>
        /\ sent' = sent /\ delivered' = delivered /\ cleared' = cleared /\ lost' = lost
        /\ followUpQueue' = followUpQueue
    BY <1>8 DEF TakesSteering
  <2> HIDE DEF s, k
  <2>3. /\ HandsIn(todo, delivered) = {} /\ HandsIn(todo, delivered)' = Elements(s)
        /\ Elements(steeringQueue) = Elements(s) \cup Elements(k)
        /\ Elements(s) \cap Elements(k) = {}
        /\ OnceIn(k, UserMessages) /\ \A d \in Callers : OnceIn(todo'[d], UserMessages)
    <3>1. OnceIn(steeringQueue, UserMessages)
      BY DEF OnceInv
    <3>2. Elements(steeringQueue) \cap Elements(delivered) = {}
      BY PlacesApart DEF PlacesInv
    <3>3. steeringQueue \in Seq(UserMessages)
      BY <1>1
    <3>4. todo[c] = <<>>
      BY <2>2
    <3>5. todo' = [todo EXCEPT ![c] = s]
      BY <2>2
    <3>6. delivered' = delivered
      BY <2>2
    <3>7. Splits(steeringQueue, s, k)
      BY <2>1
    <3>8. s \in Seq(UserMessages) /\ k \in Seq(UserMessages)
      BY <2>1
    <3>9. Took(steeringQueue, s, k)
      BY <1>7, <3>1, <3>2, <3>3, <3>4, <3>5, <3>6, <3>7, <3>8
    <3> QED BY <3>9, Zenon DEF Took
  <2>4. PlacesInv'
    <3>1. Places(Elements(sent), Elements(s) \cup Elements(k), Elements(followUpQueue), {},
                 Elements(delivered), cleared, lost)
      BY <2>3 DEF PlacesInv
    <3>2. Places(Elements(sent), Elements(k), Elements(followUpQueue), Elements(s),
                 Elements(delivered), cleared, lost)
      BY <2>3, <3>1, PlacesTaken, Zenon
    <3> QED BY <2>2, <2>3, <3>2 DEF PlacesInv
  <2>5. OnceInv'
    BY <2>2, <2>3 DEF OnceInv
  <2> QED BY <2>4, <2>5
<1>9. CASE TakesFollowUps(c)
  <2> DEFINE s == Drained(followUpQueue, followUpMode)
             k == Kept(followUpQueue, followUpMode)
  <2>1. Splits(followUpQueue, s, k) /\ s \in Seq(UserMessages) /\ k \in Seq(UserMessages)
    BY <1>1, DrainSplits
  <2>2. /\ todo' = [todo EXCEPT ![c] = s] /\ followUpQueue' = k /\ todo[c] = <<>>
        /\ sent' = sent /\ delivered' = delivered /\ cleared' = cleared /\ lost' = lost
        /\ steeringQueue' = steeringQueue
    BY <1>9 DEF TakesFollowUps
  <2> HIDE DEF s, k
  <2>3. /\ HandsIn(todo, delivered) = {} /\ HandsIn(todo, delivered)' = Elements(s)
        /\ Elements(followUpQueue) = Elements(s) \cup Elements(k)
        /\ Elements(s) \cap Elements(k) = {}
        /\ OnceIn(k, UserMessages) /\ \A d \in Callers : OnceIn(todo'[d], UserMessages)
    <3>1. OnceIn(followUpQueue, UserMessages)
      BY DEF OnceInv
    <3>2. Elements(followUpQueue) \cap Elements(delivered) = {}
      BY PlacesApart DEF PlacesInv
    <3>3. followUpQueue \in Seq(UserMessages)
      BY <1>1
    <3>4. todo[c] = <<>>
      BY <2>2
    <3>5. todo' = [todo EXCEPT ![c] = s]
      BY <2>2
    <3>6. delivered' = delivered
      BY <2>2
    <3>7. Splits(followUpQueue, s, k)
      BY <2>1
    <3>8. s \in Seq(UserMessages) /\ k \in Seq(UserMessages)
      BY <2>1
    <3>9. Took(followUpQueue, s, k)
      BY <1>7, <3>1, <3>2, <3>3, <3>4, <3>5, <3>6, <3>7, <3>8
    <3> QED BY <3>9, Zenon DEF Took
  <2>4. PlacesInv'
    <3>1. Places(Elements(sent), Elements(steeringQueue), Elements(s) \cup Elements(k), {},
                 Elements(delivered), cleared, lost)
      BY <2>3 DEF PlacesInv
    <3>2. Places(Elements(sent), Elements(steeringQueue), Elements(k), Elements(s),
                 Elements(delivered), cleared, lost)
      BY <2>3, <3>1, PlacesTaken, Zenon
    <3> QED BY <2>2, <2>3, <3>2 DEF PlacesInv
  <2>5. OnceInv'
    BY <2>2, <2>3 DEF OnceInv
  <2> QED BY <2>4, <2>5
<1>10. CASE CommitsFirst(c)
  <2> DEFINE s == todo[c]
             h == Head(s)
             r == Tail(s)
  <2>1. s \in Seq(WorkMessages) /\ s # <<>>
    BY <1>1, <1>10 DEF CommitsFirst
  <2>2. /\ Splits(s, <<h>>, r) /\ h \in WorkMessages /\ r \in Seq(WorkMessages)
        /\ Elements(<<h>>) = {h}
    <3> HIDE DEF s
    <3> QED BY <2>1, HeadSplits, Zenon
  <2>3. /\ h \in UserMessages => h \notin Elements(delivered)
        /\ delivered' = IF h \in UserMessages THEN Append(delivered, h) ELSE delivered
        /\ todo' = todo \/ todo' = [todo EXCEPT ![c] = r]
        /\ sent' = sent /\ cleared' = cleared /\ lost' = lost
        /\ steeringQueue' = steeringQueue /\ followUpQueue' = followUpQueue
    BY <1>10 DEF CommitsFirst
  <2>4. HandsIn(todo, delivered) = (Elements(s) \cap UserMessages) \ Elements(delivered)
    BY <1>2
  <2>5. OnceIn(s, UserMessages)
    BY DEF OnceInv
  <2> HIDE DEF h, r, s
  <2>6. Elements(s) = {h} \cup Elements(r)
    BY <2>2, SplitElements
  <2>7. /\ OnceIn(r, UserMessages)
        /\ {h} \cap Elements(r) \cap UserMessages = {}
    BY <2>2, <2>5, SplitOnce
  <2>8. /\ HandsIn(todo, delivered)' = (Elements(r) \cap UserMessages) \ Elements(delivered')
        /\ \A d \in Callers : OnceIn(todo'[d], UserMessages)
    <3>1. CASE todo' = todo
      <4>1. HandsIn(todo', delivered') = (Elements(s) \cap UserMessages) \ Elements(delivered')
        BY <3>1, HandsAre DEF s
      <4>2. HandsIn(todo, delivered)' = HandsIn(todo', delivered')
        BY DEF HandsIn
      <4>3. h \in UserMessages => h \in Elements(delivered')
        <5>1. h \in UserMessages => Splits(Append(delivered, h), delivered, <<h>>)
          BY <1>1, AppendSplits
        <5>2. h \in UserMessages => Elements(Append(delivered, h)) = Elements(delivered) \cup {h}
          BY <2>2, <5>1, SplitElements
        <5> QED BY <2>3, <5>2
      <4> QED BY <2>6, <3>1, <4>1, <4>2, <4>3 DEF OnceInv
    <3>2. CASE todo' = [todo EXCEPT ![c] = r]
      BY <1>3, <2>2, <2>7, <3>2
    <3> QED BY <2>3, <3>1, <3>2
  <2>9. CASE h \notin UserMessages
    <3>1. delivered' = delivered /\ HandsIn(todo, delivered)' = HandsIn(todo, delivered)
      BY <2>3, <2>4, <2>6, <2>8, <2>9
    <3>2. PlacesInv'
      BY <2>3, <3>1 DEF PlacesInv
    <3> QED BY <2>3, <2>8, <3>1, <3>2 DEF OnceInv
  <2>10. CASE h \in UserMessages
    <3>1. delivered' = Append(delivered, h) /\ Splits(Append(delivered, h), delivered, <<h>>)
      BY <1>1, <2>3, <2>10, AppendSplits
    <3>2. Elements(delivered') = Elements(delivered) \cup {h}
      BY <2>2, <3>1, SplitElements
    <3>3. OnceIn(delivered', UserMessages)
      <4>1. OnceIn(<<h>>, UserMessages)
        BY DEF OnceIn
      <4>2. Elements(delivered) \cap Elements(<<h>>) \cap UserMessages = {}
        BY <2>2, <2>3, <2>10
      <4> QED BY <3>1, <4>1, <4>2, SplitOnce DEF OnceInv
    <3>4. /\ HandsIn(todo, delivered) = HandsIn(todo, delivered)' \cup {h}
          /\ h \notin HandsIn(todo, delivered)'
      BY <2>3, <2>4, <2>6, <2>7, <2>8, <2>10, <3>2
    <3>5. PlacesInv'
      <4> DEFINE rest == HandsIn(todo, delivered)'
      <4>1. rest \cup {h} = HandsIn(todo, delivered) /\ h \notin rest
        BY <3>4
      <4> HIDE DEF rest
      <4>2. Places(Elements(sent), Elements(steeringQueue), Elements(followUpQueue), rest,
                   Elements(delivered) \cup {h}, cleared, lost)
        BY <4>1, PlacesCommitted, Zenon DEF PlacesInv
      <4> QED BY <2>3, <3>2, <4>2 DEF PlacesInv, rest
    <3>6. OnceInv'
      BY <2>3, <2>8, <3>3 DEF OnceInv
    <3> QED BY <3>5, <3>6
  <2> QED BY <2>9, <2>10
<1>11. CASE TakesResults(c)
  <2>1. PICK s \in Seq({"toolResult"}) : todo' = [todo EXCEPT ![c] = s]
    BY <1>11 DEF TakesResults
  <2>2. /\ s \in Seq(WorkMessages) /\ Elements(s) \cap UserMessages = {}
        /\ OnceIn(s, UserMessages)
    BY ResultsAre
  <2>3. /\ HandsIn(todo, delivered)' = {}
        /\ \A d \in Callers : OnceIn(todo'[d], UserMessages)
    BY <1>3, <2>1, <2>2
  <2>4. HandsIn(todo, delivered) = {}
    BY <1>2, <1>11, NothingHeld DEF TakesResults
  <2>5. PlacesInv'
    BY <1>11, <2>3, <2>4 DEF PlacesInv, TakesResults
  <2> QED BY <1>11, <2>3, <2>5 DEF OnceInv, TakesResults
<1>12. CASE DropsRest(c)
  <2>1. <<>> \in Seq(WorkMessages) /\ OnceIn(<<>>, UserMessages) /\ Elements(<<>>) = {}
    BY NothingHeld
  <2>2. /\ HandsIn(todo, delivered)' = {}
        /\ \A d \in Callers : OnceIn(todo'[d], UserMessages)
    BY <1>3, <1>12, <2>1 DEF DropsRest
  <2>3. lost' = lost \cup HandsIn(todo, delivered)
    BY <1>2, <1>12 DEF DropsRest
  <2>4. PlacesInv'
    <3>1. Places(Elements(sent), Elements(steeringQueue), Elements(followUpQueue), {},
                 Elements(delivered), cleared, lost \cup HandsIn(todo, delivered))
      BY PlacesDropped, Zenon DEF PlacesInv
    <3> QED BY <1>12, <2>2, <2>3, <3>1 DEF PlacesInv, DropsRest
  <2> QED BY <1>12, <2>2, <2>4 DEF OnceInv, DropsRest
<1> QED BY <1>5, <1>6, <1>8, <1>9, <1>10, <1>11, <1>12 DEF Moves

\* Nor does one change the order.
LEMMA MoveKeepsOrder ==
  ASSUME ResultsDiffer, CallsDiffer, TypeInv, OrderInv, NEW c \in Callers, Alone(todo, c),
         Moves(c)
  PROVE  OrderInv'
<1>1. /\ sent \in Seq(UserMessages) /\ delivered \in Seq(UserMessages)
      /\ steeringQueue \in Seq(UserMessages) /\ followUpQueue \in Seq(UserMessages)
      /\ todo[c] \in Seq(WorkMessages)
  BY DEF TypeInv, HistoryOK, QueuesOK, Alone
<1>2. /\ Elements(steeringQueue) \subseteq Steers /\ Elements(followUpQueue) \subseteq FollowUps
      /\ OrderAt(Steers, steeringQueue, sent, delivered, todo)
      /\ OrderAt(FollowUps, followUpQueue, sent, delivered, todo)
  BY DEF OrderInv
<1>3. UserMessages \subseteq WorkMessages /\ Steers \subseteq UserMessages
      /\ FollowUps \subseteq UserMessages
  BY DEF WorkMessages, UserMessages
<1>4. SUFFICES /\ Elements(steeringQueue') \subseteq Steers
               /\ Elements(followUpQueue') \subseteq FollowUps
               /\ OrderAt(Steers, steeringQueue', sent', delivered', todo')
               /\ OrderAt(FollowUps, followUpQueue', sent', delivered', todo')
  BY DEF OrderInv, OrderAt, HandsIn
<1>5. CASE Stays
  BY <1>2, <1>5 DEF Stays
<1>6. CASE Gives(c)
  <2>1. PICK m \in Prompts \ Elements(sent) :
          sent' = Append(sent, m) /\ todo' = [todo EXCEPT ![c] = <<m>>]
    BY <1>6 DEF Gives
  <2>2. m \in UserMessages /\ m \notin Steers /\ m \notin FollowUps
    BY DEF UserMessages, CallsDiffer
  <2>3. <<m>> \in Seq(WorkMessages) /\ Elements(<<m>>) = {m}
    BY <1>1, <1>3, <2>2, AppendSplits, SeqMonotonic
  <2>4. todo[c] = <<>>
    BY <1>6 DEF Gives
  <2>5. ASSUME NEW U \in {Steers, FollowUps}, NEW w, OrderAt(U, w, sent, delivered, todo)
        PROVE  OrderAt(U, w, sent', delivered, todo')
    <3>1. OrderAt(U, w, Append(sent, m), delivered, todo)
      BY <1>1, <2>2, <2>5, OrderGrows
    <3>2. Elements(<<m>>) \cap U = {}
      BY <2>2, <2>3
    <3>3. OrderAt(U, w, Append(sent, m), delivered, [todo EXCEPT ![c] = <<m>>])
      BY <2>3, <2>4, <3>1, <3>2, OrderHanded
    <3> QED BY <2>1, <3>3
  <2> QED BY <1>2, <1>6, <2>5 DEF Gives
<1>7. CASE TakesSteering(c)
  <2> DEFINE s == Drained(steeringQueue, steeringMode)
             k == Kept(steeringQueue, steeringMode)
  <2>1. Splits(steeringQueue, s, k) /\ s \in Seq(UserMessages)
    BY <1>1, DrainSplits
  <2>2. /\ todo' = [todo EXCEPT ![c] = s] /\ steeringQueue' = k /\ todo[c] = <<>>
        /\ sent' = sent /\ delivered' = delivered /\ followUpQueue' = followUpQueue
    BY <1>7 DEF TakesSteering
  <2>3. OrderAt(Steers, k, sent, delivered, [todo EXCEPT ![c] = s])
    BY <1>1, <1>2, <2>2, OrderDrained
  <2> HIDE DEF s, k
  <2>4. Elements(s) \subseteq Steers /\ Elements(k) \subseteq Steers
    BY <1>2, <2>1, SplitElements
  <2>5. s \in Seq(WorkMessages)
    BY <1>3, <2>1, SeqMonotonic
  <2>6. Elements(s) \cap FollowUps = {}
    BY <2>4 DEF CallsDiffer
  <2>7. OrderAt(FollowUps, followUpQueue, sent, delivered, [todo EXCEPT ![c] = s])
    BY <1>2, <2>2, <2>5, <2>6, OrderHanded
  <2> QED BY <1>2, <2>2, <2>3, <2>4, <2>7
<1>8. CASE TakesFollowUps(c)
  <2> DEFINE s == Drained(followUpQueue, followUpMode)
             k == Kept(followUpQueue, followUpMode)
  <2>1. Splits(followUpQueue, s, k) /\ s \in Seq(UserMessages)
    BY <1>1, DrainSplits
  <2>2. /\ todo' = [todo EXCEPT ![c] = s] /\ followUpQueue' = k /\ todo[c] = <<>>
        /\ sent' = sent /\ delivered' = delivered /\ steeringQueue' = steeringQueue
    BY <1>8 DEF TakesFollowUps
  <2>3. OrderAt(FollowUps, k, sent, delivered, [todo EXCEPT ![c] = s])
    BY <1>1, <1>2, <2>2, OrderDrained
  <2> HIDE DEF s, k
  <2>4. Elements(s) \subseteq FollowUps /\ Elements(k) \subseteq FollowUps
    BY <1>2, <2>1, SplitElements
  <2>5. s \in Seq(WorkMessages)
    BY <1>3, <2>1, SeqMonotonic
  <2>6. Elements(s) \cap Steers = {}
    BY <2>4 DEF CallsDiffer
  <2>7. OrderAt(Steers, steeringQueue, sent, delivered, [todo EXCEPT ![c] = s])
    BY <1>2, <2>2, <2>5, <2>6, OrderHanded
  <2> QED BY <1>2, <2>2, <2>3, <2>4, <2>7
<1>9. CASE CommitsFirst(c)
  <2>1. /\ todo[c] # <<>>
        /\ Head(todo[c]) \in UserMessages => Head(todo[c]) \notin Elements(delivered)
        /\ delivered' = IF Head(todo[c]) \in UserMessages
                        THEN Append(delivered, Head(todo[c])) ELSE delivered
        /\ todo' = todo \/ todo' = [todo EXCEPT ![c] = Tail(todo[c])]
        /\ sent' = sent /\ steeringQueue' = steeringQueue /\ followUpQueue' = followUpQueue
    BY <1>9 DEF CommitsFirst
  <2>2. ASSUME NEW U \in {Steers, FollowUps}, NEW w, OrderAt(U, w, sent, delivered, todo)
        PROVE  OrderAt(U, w, sent, delivered', todo')
    <3>1. U \subseteq UserMessages
      BY <1>3
    <3> QED BY <1>1, <2>1, <2>2, <3>1, OrderCommitted
  <2> QED BY <1>2, <2>1, <2>2
<1>10. CASE TakesResults(c)
  <2>1. PICK s \in Seq({"toolResult"}) : todo' = [todo EXCEPT ![c] = s]
    BY <1>10 DEF TakesResults
  <2>2. s \in Seq(WorkMessages) /\ Elements(s) \cap UserMessages = {}
    BY ResultsAre
  <2>3. todo[c] = <<>>
    BY <1>10 DEF TakesResults
  <2>4. ASSUME NEW U \in {Steers, FollowUps}, NEW w, OrderAt(U, w, sent, delivered, todo)
        PROVE  OrderAt(U, w, sent, delivered, todo')
    <3>1. Elements(s) \cap U = {}
      BY <1>3, <2>2
    <3> QED BY <2>1, <2>2, <2>3, <2>4, <3>1, OrderHanded
  <2> QED BY <1>2, <1>10, <2>4 DEF TakesResults
<1>11. CASE DropsRest(c)
  <2>1. ASSUME NEW U, NEW w, OrderAt(U, w, sent, delivered, todo)
        PROVE  OrderAt(U, w, sent, delivered, [todo EXCEPT ![c] = <<>>])
    BY <2>1, OrderDropped
  <2> QED BY <1>2, <1>11, <2>1 DEF DropsRest
<1> QED BY <1>5, <1>6, <1>7, <1>8, <1>9, <1>10, <1>11 DEF Moves

\* A call that empties queues (Clear*Queue, Reset).
Clears ==
  /\ steeringQueue' \in {steeringQueue, <<>>} /\ followUpQueue' \in {followUpQueue, <<>>}
  /\ cleared' = cleared \cup (Elements(steeringQueue) \ Elements(steeringQueue'))
                        \cup (Elements(followUpQueue) \ Elements(followUpQueue'))
  /\ sent' = sent /\ todo' = todo /\ delivered' = delivered /\ lost' = lost

LEMMA ClearKeeps ==
  ASSUME PlacesInv, OnceInv, Clears
  PROVE  /\ PlacesInv' /\ OnceInv'
         /\ OrderInv => OrderInv'
<1>1. /\ Elements(steeringQueue') = Elements(steeringQueue) \/ Elements(steeringQueue') = {}
      /\ Elements(followUpQueue') = Elements(followUpQueue) \/ Elements(followUpQueue') = {}
  BY NothingHeld DEF Clears
<1>2. HandsIn(todo, delivered)' = HandsIn(todo, delivered)
  BY DEF Clears, HandsIn
<1>3. PlacesInv'
  <2> DEFINE A == Elements(steeringQueue)
             B == Elements(followUpQueue)
             H == HandsIn(todo, delivered)
             Put(X, Y, C) == Places(Elements(sent), X, Y, H, Elements(delivered), C, lost)
  <2>1. /\ Put(A, B, cleared) /\ Put({}, B, cleared \cup A) /\ Put(A, {}, cleared \cup B)
        /\ Put({}, {}, (cleared \cup A) \cup B)
    <3>1. Put(A, B, cleared)
      BY DEF PlacesInv
    <3>2. Put({}, B, cleared \cup A) /\ Put(A, {}, cleared \cup B)
      BY <3>1, PlacesCleared, Zenon
    <3>3. Put({}, {}, (cleared \cup A) \cup B)
      BY <3>2, PlacesCleared, Zenon
    <3> QED BY <3>1, <3>2, <3>3
  <2>2. /\ cleared' = cleared \cup (A \ Elements(steeringQueue'))
                             \cup (B \ Elements(followUpQueue'))
        /\ sent' = sent /\ delivered' = delivered /\ lost' = lost
    BY DEF Clears
  <2> HIDE DEF A, B, H
  <2>3. Put(Elements(steeringQueue'), Elements(followUpQueue'), cleared')
    <3> HIDE DEF Put
    <3>1. /\ Elements(steeringQueue') = A \/ Elements(steeringQueue') = {}
          /\ Elements(followUpQueue') = B \/ Elements(followUpQueue') = {}
      BY <1>1 DEF A, B
    <3>2. CASE Elements(steeringQueue') = A /\ Elements(followUpQueue') = B
      <4>1. cleared' = cleared
        BY <2>2, <3>2
      <4> QED BY <2>1, <3>2, <4>1
    <3>3. CASE Elements(steeringQueue') = {} /\ Elements(followUpQueue') = B
      <4>1. cleared' = cleared \cup A
        BY <2>2, <3>3
      <4> QED BY <2>1, <3>3, <4>1
    <3>4. CASE Elements(steeringQueue') = A /\ Elements(followUpQueue') = {}
      <4>1. cleared' = cleared \cup B
        BY <2>2, <3>4
      <4> QED BY <2>1, <3>4, <4>1
    <3>5. CASE Elements(steeringQueue') = {} /\ Elements(followUpQueue') = {}
      <4>1. cleared' = (cleared \cup A) \cup B
        BY <2>2, <3>5
      <4> QED BY <2>1, <3>5, <4>1
    <3> QED BY <3>1, <3>2, <3>3, <3>4, <3>5
  <2> QED BY <1>2, <2>2, <2>3 DEF PlacesInv, H
<1>4. OnceInv'
  BY NothingHeld DEF OnceInv, Clears
<1>5. ASSUME OrderInv PROVE OrderInv'
  <2>1. ASSUME NEW U, NEW w, OrderAt(U, w, sent, delivered, todo)
        PROVE  OrderAt(U, <<>>, sent, delivered, todo)
    BY <2>1, OrderCleared
  <2>2. /\ OrderAt(Steers, steeringQueue', sent, delivered, todo)
        /\ OrderAt(FollowUps, followUpQueue', sent, delivered, todo)
    BY <1>5, <2>1 DEF Clears, OrderInv
  <2> QED BY <1>1, <1>5, <2>2 DEF Clears, OrderInv
<1> QED BY <1>3, <1>4, <1>5

LEMMA SteerKeeps ==
  ASSUME TypeInv, PlacesInv, OnceInv,
         NEW m \in Steers \ Elements(sent), sent' = Append(sent, m),
         steeringQueue' = Append(steeringQueue, m), followUpQueue' = followUpQueue,
         todo' = todo, delivered' = delivered, cleared' = cleared, lost' = lost
  PROVE  /\ PlacesInv' /\ OnceInv'
         /\ OrderInv => OrderInv'
<1>1. /\ sent \in Seq(UserMessages) /\ steeringQueue \in Seq(UserMessages)
      /\ m \in UserMessages
  BY DEF TypeInv, HistoryOK, QueuesOK, UserMessages
<1>2. /\ Splits(Append(sent, m), sent, <<m>>)
      /\ Splits(Append(steeringQueue, m), steeringQueue, <<m>>) /\ Elements(<<m>>) = {m}
  BY <1>1, AppendSplits
<1>3. /\ Elements(sent') = Elements(sent) \cup {m}
      /\ Elements(steeringQueue') = Elements(steeringQueue) \cup {m}
  BY <1>2, SplitElements
<1>4. HandsIn(todo, delivered)' = HandsIn(todo, delivered)
  BY DEF HandsIn
<1>5. PlacesInv'
  <2>1. Places(Elements(sent) \cup {m}, Elements(steeringQueue) \cup {m}, Elements(followUpQueue),
               HandsIn(todo, delivered), Elements(delivered), cleared, lost)
    BY PlacesQueued, Zenon DEF PlacesInv
  <2> QED BY <1>3, <1>4, <2>1 DEF PlacesInv
<1>6. OnceInv'
  <2>1. OnceIn(<<m>>, UserMessages)
    BY DEF OnceIn
  <2>2. m \notin Elements(sent) /\ m \notin Elements(steeringQueue)
    BY PlacesApart DEF PlacesInv
  <2>3. OnceIn(sent', UserMessages) /\ OnceIn(steeringQueue', UserMessages)
    <3>1. Elements(sent) \cap Elements(<<m>>) \cap UserMessages = {}
          /\ Elements(steeringQueue) \cap Elements(<<m>>) \cap UserMessages = {}
      BY <1>2, <2>2
    <3>2. OnceIn(sent, UserMessages) /\ OnceIn(steeringQueue, UserMessages)
      BY DEF OnceInv
    <3> QED BY <1>2, <2>1, <3>1, <3>2, SplitOnce
  <2> QED BY <2>3 DEF OnceInv
<1>7. ASSUME OrderInv PROVE OrderInv'
  <2>1. /\ OrderAt(Steers, steeringQueue, sent, delivered, todo)
        /\ OrderAt(FollowUps, followUpQueue, sent, delivered, todo)
        /\ Elements(steeringQueue) \subseteq Steers /\ Elements(followUpQueue) \subseteq FollowUps
    BY <1>7 DEF OrderInv
  <2>2. OrderAt(FollowUps, followUpQueue, sent', delivered, todo)
    BY <1>1, <2>1, OrderGrows
  <2>3. Elements(steeringQueue) \cup HandsIn(todo, delivered) \cup Elements(delivered)
          \subseteq Elements(sent)
    BY PlacesApart DEF PlacesInv
  <2>4. OrderAt(Steers, steeringQueue', sent', delivered, todo)
    BY <1>1, <2>1, <2>3, OrderQueued
  <2> QED BY <1>3, <2>1, <2>2, <2>4 DEF OrderInv
<1> QED BY <1>5, <1>6, <1>7

LEMMA FollowUpKeeps ==
  ASSUME TypeInv, PlacesInv, OnceInv,
         NEW m \in FollowUps \ Elements(sent), sent' = Append(sent, m),
         followUpQueue' = Append(followUpQueue, m), steeringQueue' = steeringQueue,
         todo' = todo, delivered' = delivered, cleared' = cleared, lost' = lost
  PROVE  /\ PlacesInv' /\ OnceInv'
         /\ OrderInv => OrderInv'
<1>1. /\ sent \in Seq(UserMessages) /\ followUpQueue \in Seq(UserMessages)
      /\ m \in UserMessages
  BY DEF TypeInv, HistoryOK, QueuesOK, UserMessages
<1>2. /\ Splits(Append(sent, m), sent, <<m>>)
      /\ Splits(Append(followUpQueue, m), followUpQueue, <<m>>) /\ Elements(<<m>>) = {m}
  BY <1>1, AppendSplits
<1>3. /\ Elements(sent') = Elements(sent) \cup {m}
      /\ Elements(followUpQueue') = Elements(followUpQueue) \cup {m}
  BY <1>2, SplitElements
<1>4. HandsIn(todo, delivered)' = HandsIn(todo, delivered)
  BY DEF HandsIn
<1>5. PlacesInv'
  <2>1. Places(Elements(sent) \cup {m}, Elements(steeringQueue), Elements(followUpQueue) \cup {m},
               HandsIn(todo, delivered), Elements(delivered), cleared, lost)
    BY PlacesQueued, Zenon DEF PlacesInv
  <2> QED BY <1>3, <1>4, <2>1 DEF PlacesInv
<1>6. OnceInv'
  <2>1. OnceIn(<<m>>, UserMessages)
    BY DEF OnceIn
  <2>2. m \notin Elements(sent) /\ m \notin Elements(followUpQueue)
    BY PlacesApart DEF PlacesInv
  <2>3. OnceIn(sent', UserMessages) /\ OnceIn(followUpQueue', UserMessages)
    <3>1. Elements(sent) \cap Elements(<<m>>) \cap UserMessages = {}
          /\ Elements(followUpQueue) \cap Elements(<<m>>) \cap UserMessages = {}
      BY <1>2, <2>2
    <3>2. OnceIn(sent, UserMessages) /\ OnceIn(followUpQueue, UserMessages)
      BY DEF OnceInv
    <3> QED BY <1>2, <2>1, <3>1, <3>2, SplitOnce
  <2> QED BY <2>3 DEF OnceInv
<1>7. ASSUME OrderInv PROVE OrderInv'
  <2>1. /\ OrderAt(Steers, steeringQueue, sent, delivered, todo)
        /\ OrderAt(FollowUps, followUpQueue, sent, delivered, todo)
        /\ Elements(steeringQueue) \subseteq Steers /\ Elements(followUpQueue) \subseteq FollowUps
    BY <1>7 DEF OrderInv
  <2>2. OrderAt(Steers, steeringQueue, sent', delivered, todo)
    BY <1>1, <2>1, OrderGrows
  <2>3. Elements(followUpQueue) \cup HandsIn(todo, delivered) \cup Elements(delivered)
          \subseteq Elements(sent)
    BY PlacesApart DEF PlacesInv
  <2>4. OrderAt(FollowUps, followUpQueue', sent', delivered, todo)
    BY <1>1, <2>1, <2>3, OrderQueued
  <2> QED BY <1>3, <2>1, <2>2, <2>4 DEF OrderInv
<1> QED BY <1>5, <1>6, <1>7

(***************************************************************************)
(* The steps are moves, and keep what each step has in its hands.          *)
(***************************************************************************)
\* While c is in its run, or the slot is free, nobody else holds anything.
LEMMA AloneIs ==
  ASSUME TypeInv, HandInv, NEW c \in Callers, InRun(c) \/ activeRun = 0
  PROVE  Alone(todo, c)
<1>1. \A d \in Callers : d # c => ~InRun(d)
  BY DEF TypeInv, RunInv, PointerInv
<1>2. \A d \in Callers : d # c => todo[d] = <<>>
  BY <1>1 DEF HandInv, HandOf, InRun, CarryingSteps, FailingSteps, RunSteps
<1> QED BY <1>2 DEF Alone, TypeInv, LocalsOK

\* Every step of a goroutine makes one of the moves.
LEMMA MovesOf ==
  ASSUME TypeInv, HandInv, NEW c \in Callers, CallerStep(c)
  PROVE  Stays \/ (Alone(todo, c) /\ Moves(c))
<1>1. /\ todo \in [Callers -> Seq(WorkMessages)]
      /\ InRun(c) \/ activeRun = 0 => Alone(todo, c)
      /\ pc[c] \notin CarryingSteps => todo[c] = <<>>
  BY AloneIs DEF TypeInv, LocalsOK, HandInv, HandOf
<1>2. CASE Prompt(c)
  <2>1. Alone(todo, c) /\ todo[c] = <<>>
    BY <1>1, <1>2 DEF Prompt, CarryingSteps, FailingSteps
  <2>2. Gives(c)
    BY <1>2, <2>1 DEF Prompt, StartRun, Gives
  <2> QED BY <2>1, <2>2 DEF Moves
<1>3. CASE ContinueQueued(c)
  <2>1. Alone(todo, c) /\ todo[c] = <<>>
    BY <1>1, <1>3 DEF ContinueQueued, CarryingSteps, FailingSteps
  <2>2. TakesSteering(c) \/ TakesFollowUps(c)
    BY <1>3, <2>1 DEF ContinueQueued, StartRun, TakesSteering, TakesFollowUps
  <2> QED BY <2>1, <2>2 DEF Moves
<1>4. CASE RunContinuation(c)
  <2>1. todo[c] = <<>>
    BY <1>1, <1>4 DEF RunContinuation, CarryingSteps, FailingSteps
  <2>2. [todo EXCEPT ![c] = <<>>] = todo
    BY <1>1, <2>1
  <2> QED BY <1>4, <2>2 DEF RunContinuation, StartRun, Stays, queueVars, localVars, histVars
<1>5. CASE InitialPoll(c) \/ SteeringPoll(c) \/ FollowUpPoll(c)
  <2>1. Alone(todo, c) /\ todo[c] = <<>>
    BY <1>1, <1>5 DEF InitialPoll, SteeringPoll, FollowUpPoll, CarryingSteps, FailingSteps,
       InRun, RunSteps
  <2>2. Stays \/ TakesSteering(c) \/ TakesFollowUps(c)
    BY <1>5, <2>1 DEF InitialPoll, SteeringPoll, FollowUpPoll, Stays, TakesSteering,
       TakesFollowUps, histVars
  <2> QED BY <2>1, <2>2 DEF Moves
<1>6. CASE MessageEnd(c)
  <2>1. Alone(todo, c) /\ todo[c] # <<>> /\ todo[c] \in Seq(WorkMessages)
    BY <1>1, <1>6 DEF MessageEnd, InRun, RunSteps, TypeInv, WorkInHand, LocalInv
  <2>2. Head(todo[c]) \in Elements(todo[c])
    BY <2>1, HeadSplits, SplitElements, ElementsIs
  <2>3. Elements(todo[c]) \cap UserMessages \cap Elements(delivered) = {}
    BY <1>6 DEF MessageEnd, HandInv, HandOf, FailingSteps
  <2>4. CommitsFirst(c)
    BY <1>6, <2>1, <2>2, <2>3 DEF MessageEnd, CommitsFirst, queueVars
  <2> QED BY <2>1, <2>4 DEF Moves
<1>7. CASE ExecuteTools(c)
  <2>1. Alone(todo, c) /\ todo[c] = <<>>
    BY <1>1, <1>7 DEF ExecuteTools, CarryingSteps, FailingSteps, InRun, RunSteps
  <2>2. \A n \in 1..MaxCalls : [i \in 1..n |-> "toolResult"] \in Seq({"toolResult"})
    BY AgentAssumption
  <2>3. Stays \/ TakesResults(c)
    BY <1>7, <2>1, <2>2 DEF ExecuteTools, Stays, TakesResults, queueVars, histVars
  <2> QED BY <2>1, <2>3 DEF Moves
<1>8. CASE FinishRun(c)
  <2>1. Alone(todo, c)
    BY <1>1, <1>8 DEF FinishRun, InRun, RunSteps
  <2>2. DropsRest(c)
    BY <1>8 DEF FinishRun, DropsRest, queueVars
  <2> QED BY <2>1, <2>2 DEF Moves
<1> USE DEF Stays, queueVars, localVars, histVars
<1>9. CASE ContinueCheck(c) \/ Begin(c) \/ StartEvents(c) \/ MessageStart(c) \/ TurnStart(c)
           \/ Call(c)
  BY <1>9 DEF ContinueCheck, Begin, StartEvents, MessageStart, TurnStart, Call
<1>10. CASE StreamStart(c) \/ StreamUpdate(c) \/ StreamEnd(c) \/ StreamEndUnstarted(c)
            \/ AssistantEnd(c) \/ TurnEnd(c) \/ PrepareNextTurn(c) \/ AgentEnd(c)
            \/ TakeEventErr(c)
  BY <1>10 DEF StreamStart, StreamUpdate, StreamEnd, StreamEndUnstarted, AssistantEnd, TurnEnd,
     PrepareNextTurn, AgentEnd, TakeEventErr
<1>11. CASE FailStep(c)
  BY <1>11 DEF FailStep, FailMessageStart, FailMessageEnd, FailTurnEnd, FailAgentEnd
<1>12. CASE Release(c) \/ Bystander(c)
  BY <1>12 DEF Release, Bystander, Abort, AbortCancel, ContextCancelled, WaitForIdle, WaitReturn
<1> QED BY <1>2, <1>3, <1>4, <1>5, <1>6, <1>7, <1>8, <1>9, <1>10, <1>11, <1>12
        DEF CallerStep, Enter, LoopStep, Leave

\* Failures are only ever counted up.
LEMMA FailuresGrow ==
  ASSUME NEW c \in Callers, CallerStep(c)
  PROVE  failures' = failures \/ failures' = failures + 1
<1> USE DEF Deliver, DeliverFailure, LoopFails, boundVars
<1>1. CASE Enter(c)
  BY <1>1 DEF Enter, Prompt, ContinueQueued, ContinueCheck, RunContinuation, StartRun
<1>2. CASE Begin(c) \/ StartEvents(c) \/ MessageStart(c) \/ InitialPoll(c) \/ SteeringPoll(c)
           \/ FollowUpPoll(c) \/ TurnStart(c) \/ Call(c)
  BY <1>2 DEF Begin, StartEvents, MessageStart, InitialPoll, SteeringPoll, FollowUpPoll,
     TurnStart, Call
<1>3. CASE MessageEnd(c)
  BY <1>3 DEF MessageEnd
<1>4. CASE StreamStart(c) \/ StreamUpdate(c) \/ StreamEnd(c) \/ StreamEndUnstarted(c)
           \/ AssistantEnd(c) \/ ExecuteTools(c)
  BY <1>4 DEF StreamStart, StreamUpdate, StreamEnd, StreamEndUnstarted, AssistantEnd,
     ExecuteTools
<1>5. CASE TurnEnd(c) \/ PrepareNextTurn(c) \/ AgentEnd(c) \/ TakeEventErr(c)
  BY <1>5 DEF TurnEnd, PrepareNextTurn, AgentEnd, TakeEventErr
<1>6. CASE FailStep(c)
  BY <1>6 DEF FailStep, FailMessageStart, FailMessageEnd, FailTurnEnd, FailAgentEnd
<1>7. CASE Leave(c) \/ Bystander(c)
  BY <1>7 DEF Leave, FinishRun, Release, Bystander, Abort, AbortCancel, ContextCancelled,
     WaitForIdle, WaitReturn
<1> QED BY <1>1, <1>2, <1>3, <1>4, <1>5, <1>6, <1>7 DEF CallerStep, LoopStep

\* A goroutine goes to its next step with in its hands what that step expects.
LEMMA HandOwn ==
  ASSUME ResultsDiffer, TypeInv, FlowInv, NEW c \in Callers, CallerStep(c)
  PROVE  HandOf(c)'
<1>1. /\ pc \in [Callers -> Locations] /\ todo \in [Callers -> Seq(WorkMessages)]
      /\ failures \in Nat /\ (InRun(c) => activeRun # 0)
      /\ steeringQueue \in Seq(UserMessages) /\ followUpQueue \in Seq(UserMessages)
      /\ delivered \in Seq(UserMessages) /\ sent \in Seq(UserMessages)
  BY DEF TypeInv, RunInv, RunsOK, PointerInv, LocalsOK, HistoryOK, QueuesOK
<1>2. HandOf(c)
  BY DEF FlowInv, HandInv
<1>3. todo'[c] = <<>> => HandOf(c)'
  BY NothingHeld DEF HandOf
<1>4. pc[c] \notin CarryingSteps /\ todo' = todo => HandOf(c)'
  BY <1>2, <1>3 DEF HandOf
\* Going on with the same messages.
<1>5. ASSUME pc[c] \in CarryingSteps, todo' = todo, delivered' = delivered,
             \/ todo[c] = <<>>
             \/ /\ pc'[c] \in CarryingSteps /\ failures' \in Nat /\ failures' >= failures
                /\ pc'[c] \in FailingSteps => pc[c] \in FailingSteps \/ failures' > failures
                /\ pc[c] \in FailingSteps => pc'[c] \in FailingSteps
      PROVE  HandOf(c)'
  BY <1>1, <1>2, <1>3, <1>5 DEF HandOf
<1> USE DEF Goto
\* Taking messages out of a queue.
<1>6. ASSUME NEW w \in Seq(UserMessages), NEW mode, todo'[c] = Drained(w, mode),
             Elements(w) \cap Elements(delivered) = {}, delivered' = delivered,
             pc'[c] \notin FailingSteps, pc'[c] \in CarryingSteps \/ w = <<>>
      PROVE  HandOf(c)'
  <2>1. Splits(w, Drained(w, mode), Kept(w, mode)) /\ (w = <<>> => Drained(w, mode) = <<>>)
    BY DrainSplits
  <2>2. Elements(todo'[c]) \subseteq Elements(w)
    BY <1>6, <2>1, SplitElements
  <2> QED BY <1>3, <1>6, <2>1, <2>2 DEF HandOf
<1>7. /\ Elements(steeringQueue) \cap Elements(delivered) = {}
      /\ Elements(followUpQueue) \cap Elements(delivered) = {}
      /\ Elements(delivered) \subseteq Elements(sent)
  BY PlacesApart DEF FlowInv, PlacesInv
<1>8. CASE Prompt(c)
  <2>1. PICK m \in Prompts \ Elements(sent) : todo'[c] = <<m>>
    BY <1>1, <1>8 DEF Prompt, StartRun
  <2>2. Elements(todo'[c]) = {m}
    BY <2>1 DEF Elements
  <2>3. pc'[c] = "begin" /\ delivered' = delivered
    BY <1>1, <1>8 DEF Prompt, StartRun
  <2> QED BY <1>7, <2>2, <2>3 DEF HandOf, CarryingSteps, FailingSteps
<1>9. CASE ContinueQueued(c)
  <2>1. pc'[c] = "begin" /\ delivered' = delivered
    BY <1>1, <1>9 DEF ContinueQueued, StartRun
  <2>2. \/ todo'[c] = Drained(steeringQueue, steeringMode)
        \/ todo'[c] = Drained(followUpQueue, followUpMode)
    BY <1>1, <1>9 DEF ContinueQueued, StartRun
  <2>3. pc'[c] \notin FailingSteps /\ pc'[c] \in CarryingSteps
    BY <2>1 DEF CarryingSteps, FailingSteps
  <2> QED BY <1>1, <1>6, <1>7, <2>1, <2>2, <2>3
<1>10. CASE InitialPoll(c) /\ skip[c]
  BY <1>4, <1>10 DEF InitialPoll, CarryingSteps, FailingSteps
<1>11. CASE (InitialPoll(c) /\ ~skip[c]) \/ SteeringPoll(c)
  <2>1. /\ todo'[c] = Drained(steeringQueue, steeringMode) /\ delivered' = delivered
        /\ pc'[c] \in {"msgStart", "turnStart"} \/ steeringQueue = <<>>
        /\ pc'[c] \in {"call", "msgStart", "turnStart", "followUp"}
    BY <1>1, <1>11 DEF InitialPoll, SteeringPoll, histVars
  <2>2. pc'[c] \notin FailingSteps /\ (pc'[c] \in CarryingSteps \/ steeringQueue = <<>>)
    BY <2>1 DEF CarryingSteps, FailingSteps
  <2> QED BY <1>1, <1>6, <1>7, <2>1, <2>2
<1>12. CASE FollowUpPoll(c)
  <2>1. /\ todo'[c] = Drained(followUpQueue, followUpMode) /\ delivered' = delivered
        /\ pc'[c] = "turnStart" \/ followUpQueue = <<>>
        /\ pc'[c] \in {"agentEnd", "turnStart"}
    BY <1>1, <1>12 DEF FollowUpPoll, histVars
  <2>2. pc'[c] \notin FailingSteps /\ (pc'[c] \in CarryingSteps \/ followUpQueue = <<>>)
    BY <2>1 DEF CarryingSteps, FailingSteps
  <2> QED BY <1>1, <1>6, <1>7, <2>1, <2>2
<1>13. CASE Begin(c)
  <2>1. /\ todo' = todo /\ delivered' = delivered /\ failures' = failures /\ pc[c] = "begin"
        /\ todo[c] = <<>> \/ pc'[c] = "agentStart"
    BY <1>1, <1>13 DEF Begin, histVars, boundVars
  <2> QED BY <1>1, <1>5, <2>1 DEF CarryingSteps, FailingSteps
<1>14. CASE StartEvents(c) \/ MessageStart(c) \/ TurnStart(c)
  <2>1. /\ todo' = todo /\ delivered' = delivered
        /\ pc[c] \in {"agentStart", "msgStart", "turnStart"}
    BY <1>14 DEF StartEvents, MessageStart, TurnStart, localVars, histVars
  <2>2. activeRun # 0
    BY <1>1, <2>1 DEF InRun, RunSteps
  <2>3. \/ failures' = failures /\ (todo[c] = <<>> \/ pc'[c] \in {"msgStart", "msgEnd"})
        \/ failures' = failures + 1 /\ pc'[c] = "fail"
    BY <1>1, <1>14, <2>2 DEF StartEvents, MessageStart, TurnStart, Deliver, LoopFails
  <2> QED BY <1>1, <1>5, <2>1, <2>3 DEF CarryingSteps, FailingSteps
<1>15. CASE MessageEnd(c)
  <2>1. /\ pc[c] = "msgEnd" /\ activeRun # 0 /\ todo[c] # <<>> /\ todo[c] \in Seq(WorkMessages)
    BY <1>1, <1>15 DEF MessageEnd, InRun, RunSteps, TypeInv, WorkInHand, LocalInv
  <2> DEFINE m == Head(todo[c])
             rest == Tail(todo[c])
  <2>2. /\ Splits(todo[c], <<m>>, rest) /\ Elements(<<m>>) = {m}
        /\ ~ (Len(todo[c]) > 1) => rest = <<>>
    BY <2>1, HeadSplits
  <2>3. Elements(todo[c]) = {m} \cup Elements(rest)
    BY <2>2, SplitElements
  <2>4. Elements(todo[c]) \cap UserMessages \cap Elements(delivered) = {}
    BY <1>2, <2>1 DEF HandOf, FailingSteps
  <2>5. {m} \cap Elements(rest) \cap UserMessages = {}
    <3>1. OnceIn(todo[c], UserMessages)
      BY DEF FlowInv, OnceInv
    <3> QED BY <2>2, <3>1, SplitOnce
  <2>6. Elements(delivered') \subseteq Elements(delivered) \cup {m}
    <3>1. delivered' = IF m \in UserMessages THEN Append(delivered, m) ELSE delivered
      BY <1>15 DEF MessageEnd
    <3>2. CASE m \in UserMessages
      <4>1. Splits(Append(delivered, m), delivered, <<m>>)
        BY <1>1, <3>2, AppendSplits
      <4> QED BY <2>2, <3>1, <3>2, <4>1, SplitElements
    <3>3. CASE m \notin UserMessages
      BY <3>1, <3>3
    <3> QED BY <3>2, <3>3
  <2>7. \/ failures' = failures + 1 /\ pc'[c] = "fail"
        \/ pc'[c] \notin FailingSteps /\ todo'[c] = rest
           /\ (pc'[c] = "msgStart" \/ ~ (Len(todo[c]) > 1))
    BY <1>1, <1>15, <2>1 DEF MessageEnd, AfterMessages, Deliver, LoopFails, FailingSteps
  <2> HIDE DEF m, rest
  <2>8. CASE failures' = failures + 1 /\ pc'[c] = "fail"
    <3>1. failures' > 0
      BY <1>1, <2>8
    <3> QED BY <2>8, <3>1 DEF HandOf, CarryingSteps, FailingSteps
  <2>9. CASE pc'[c] \notin FailingSteps /\ todo'[c] = rest
             /\ (pc'[c] = "msgStart" \/ ~ (Len(todo[c]) > 1))
    <3>1. Elements(rest) \cap UserMessages \cap Elements(delivered') = {}
      BY <2>3, <2>4, <2>5, <2>6
    <3>2. CASE pc'[c] = "msgStart"
      BY <2>9, <3>1, <3>2 DEF HandOf, CarryingSteps
    <3>3. CASE ~ (Len(todo[c]) > 1)
      BY <1>3, <2>2, <2>9, <3>3
    <3> QED BY <2>9, <3>2, <3>3
  <2> QED BY <2>7, <2>8, <2>9
<1>16. CASE ExecuteTools(c)
  <2>1. \/ todo' = todo
        \/ pc'[c] = "msgStart" /\ \E n \in 1..MaxCalls : todo'[c] = [i \in 1..n |-> "toolResult"]
    BY <1>1, <1>16 DEF ExecuteTools
  <2>2. ASSUME NEW n \in 1..MaxCalls
        PROVE  Elements([i \in 1..n |-> "toolResult"]) \cap UserMessages = {}
    BY DEF Elements, ResultsDiffer
  <2>3. pc[c] \notin CarryingSteps
    BY <1>16 DEF ExecuteTools, CarryingSteps, FailingSteps
  <2> QED BY <1>4, <2>1, <2>2, <2>3 DEF HandOf, CarryingSteps, FailingSteps
<1>17. CASE FailStep(c)
  <2>1. /\ todo' = todo /\ delivered' = delivered
        /\ pc[c] \in {"fail", "failEnd", "failTurn", "failAgentEnd"}
    BY <1>17 DEF FailStep, FailMessageStart, FailMessageEnd, FailTurnEnd, FailAgentEnd, histVars
  <2>2. pc'[c] \in FailingSteps /\ (failures' = failures \/ failures' = failures + 1)
    BY <1>1, <1>17 DEF FailStep, FailMessageStart, FailMessageEnd, FailTurnEnd, FailAgentEnd,
       DeliverFailure, FailingSteps
  <2> QED BY <1>1, <1>5, <2>1, <2>2 DEF CarryingSteps, FailingSteps
<1>18. CASE FinishRun(c)
  BY <1>1, <1>3, <1>18 DEF FinishRun
<1>19. CASE RunContinuation(c)
  <2>1. todo[c] = <<>>
    BY <1>2, <1>19 DEF RunContinuation, HandOf, CarryingSteps, FailingSteps
  <2> QED BY <1>1, <1>3, <1>19, <2>1 DEF RunContinuation, StartRun, localVars
<1>20. CASE ContextCancelled(c)
  BY <1>2, <1>20 DEF ContextCancelled, localVars, histVars, boundVars, HandOf
<1>21. CASE ContinueCheck(c) \/ Release(c) \/ Abort(c) \/ AbortCancel(c) \/ WaitForIdle(c)
            \/ WaitReturn(c)
  BY <1>4, <1>21 DEF ContinueCheck, Release, Abort, AbortCancel, WaitForIdle, WaitReturn,
     localVars, CarryingSteps, FailingSteps
<1>22. CASE Call(c) \/ StreamStart(c) \/ StreamUpdate(c) \/ StreamEnd(c) \/ StreamEndUnstarted(c)
            \/ AssistantEnd(c) \/ TurnEnd(c) \/ PrepareNextTurn(c) \/ AgentEnd(c)
            \/ TakeEventErr(c)
  BY <1>4, <1>22 DEF Call, StreamStart, StreamUpdate, StreamEnd, StreamEndUnstarted,
     AssistantEnd, TurnEnd, PrepareNextTurn, AgentEnd, TakeEventErr, localVars, CarryingSteps,
     FailingSteps
<1> QED BY <1>8, <1>9, <1>10, <1>11, <1>12, <1>13, <1>14, <1>15, <1>16, <1>17, <1>18, <1>19,
   <1>20, <1>21, <1>22 DEF CallerStep, Enter, LoopStep, Leave, Bystander

\* Messages are lost by finishRun only.
LEMMA LostOnlyAtFinish ==
  ASSUME NEW c \in Callers, CallerStep(c)
  PROVE  FinishRun(c) \/ lost' = lost
<1> USE DEF histVars
<1>1. CASE Enter(c)
  BY <1>1 DEF Enter, Prompt, ContinueQueued, ContinueCheck, RunContinuation, StartRun
<1>2. CASE Begin(c) \/ StartEvents(c) \/ MessageStart(c) \/ MessageEnd(c) \/ InitialPoll(c)
           \/ SteeringPoll(c) \/ FollowUpPoll(c) \/ TurnStart(c) \/ Call(c)
  BY <1>2 DEF Begin, StartEvents, MessageStart, MessageEnd, InitialPoll, SteeringPoll,
     FollowUpPoll, TurnStart, Call
<1>3. CASE StreamStart(c) \/ StreamUpdate(c) \/ StreamEnd(c) \/ StreamEndUnstarted(c)
           \/ AssistantEnd(c) \/ ExecuteTools(c) \/ TurnEnd(c) \/ PrepareNextTurn(c)
           \/ AgentEnd(c) \/ TakeEventErr(c)
  BY <1>3 DEF StreamStart, StreamUpdate, StreamEnd, StreamEndUnstarted, AssistantEnd,
     ExecuteTools, TurnEnd, PrepareNextTurn, AgentEnd, TakeEventErr
<1>4. CASE FailStep(c) \/ Release(c) \/ Bystander(c)
  BY <1>4 DEF FailStep, FailMessageStart, FailMessageEnd, FailTurnEnd, FailAgentEnd, Release,
     Bystander, Abort, AbortCancel, ContextCancelled, WaitForIdle, WaitReturn
<1> QED BY <1>1, <1>2, <1>3, <1>4 DEF CallerStep, LoopStep, Leave

\* The steps of a goroutine keep the hands of all.
LEMMA HandStep ==
  ASSUME ResultsDiffer, TypeInv, FlowInv, NEW c \in Callers, CallerStep(c)
  PROVE  HandInv'
<1>1. HandOf(c)'
  BY HandOwn
<1>2. Stays \/ (Alone(todo, c) /\ Moves(c))
  BY MovesOf DEF FlowInv
<1>3. failures \in Nat /\ (failures' = failures \/ failures' = failures + 1)
  BY FailuresGrow DEF TypeInv, HistoryOK
<1>4. ASSUME NEW d \in Callers, d # c
      PROVE  HandOf(d)'
  <2>1. pc'[d] = pc[d] /\ todo'[d] = todo[d]
    BY <1>4, OwnLocals DEF TypeInv, RunInv
  <2>2. todo[d] = <<>> \/ delivered' = delivered
    BY <1>2, <1>4 DEF Alone, Stays
  <2>3. HandOf(d)
    BY DEF FlowInv, HandInv
  <2> QED BY <1>3, <2>1, <2>2, <2>3, NothingHeld DEF HandOf
<1>5. lost' # {} => failures' > 0
  <2>1. lost # {} => failures > 0
    BY DEF FlowInv, HandInv
  <2>2. lost' = lost \/ DropsRest(c)
    BY <1>2 DEF Stays, Moves, Gives, TakesSteering, TakesFollowUps, CommitsFirst, TakesResults
  <2>3. CASE DropsRest(c) /\ lost' # lost
    <3>1. /\ pc[c] \in FailingSteps
          /\ ~(Elements(todo[c]) \cap UserMessages \subseteq Elements(delivered))
      <4>1. HandOf(c) /\ ~(Elements(todo[c]) \cap UserMessages \subseteq Elements(delivered))
        BY <2>3 DEF DropsRest, FlowInv, HandInv
      <4>2. FinishRun(c) \/ lost' = lost
        BY LostOnlyAtFinish
      <4> QED BY <2>3, <4>1, <4>2 DEF FinishRun, FailingSteps
    <3>2. failures > 0
      BY <3>1 DEF FlowInv, HandInv, HandOf
    <3> QED BY <1>3, <3>2
  <2> QED BY <1>3, <2>1, <2>2, <2>3
<1> QED BY <1>1, <1>4, <1>5 DEF HandInv

\* A new Agent holds no message.
LEMMA FlowInit == Init => FlowInv /\ OrderInv
<1> SUFFICES ASSUME Init PROVE FlowInv /\ OrderInv
  OBVIOUS
<1>1. /\ sent = <<>> /\ delivered = <<>> /\ steeringQueue = <<>> /\ followUpQueue = <<>>
      /\ cleared = {} /\ lost = {} /\ \A c \in Callers : todo[c] = <<>>
  BY DEF Init
<1>2. /\ Elements(<<>>) = {} /\ \A U, o : OnceIn(<<>>, U) /\ SortedIn(<<>>, U, o)
  BY NothingHeld
<1>3. HandsIn(todo, delivered) = {}
  BY <1>1, <1>2 DEF HandsIn
<1>4. PlacesInv
  BY <1>1, <1>2, <1>3 DEF PlacesInv, Places
<1>5. OnceInv
  BY <1>1, <1>2 DEF OnceInv
<1>6. HandInv
  BY <1>1, <1>2 DEF HandInv, HandOf
<1>7. ASSUME NEW U PROVE OrderAt(U, <<>>, sent, delivered, todo)
  BY <1>1, <1>2, <1>3 DEF OrderAt, LinedUp
<1>8. OrderInv
  BY <1>1, <1>2, <1>7 DEF OrderInv
<1> QED BY <1>4, <1>5, <1>6, <1>8 DEF FlowInv

\* Nothing a goroutine does moves a message anywhere else.
LEMMA FlowStep ==
  ASSUME ResultsDiffer, TypeInv, FlowInv, [Next]_vars
  PROVE  /\ FlowInv'
         /\ CallsDiffer /\ OrderInv => OrderInv'
<1>1. PlacesInv /\ OnceInv /\ HandInv
  BY DEF FlowInv
<1>2. ASSUME Stays, UNCHANGED <<pc, failures>>
      PROVE  FlowInv' /\ (OrderInv => OrderInv')
  <2>1. /\ sent' = sent /\ delivered' = delivered /\ cleared' = cleared /\ lost' = lost
        /\ steeringQueue' = steeringQueue /\ followUpQueue' = followUpQueue /\ todo' = todo
        /\ pc' = pc /\ failures' = failures
    BY <1>2 DEF Stays
  <2>2. PlacesInv' /\ OnceInv' /\ HandInv'
    BY <1>1, <2>1 DEF PlacesInv, OnceInv, HandInv, HandOf, HandsIn
  <2>3. OrderInv => OrderInv'
    BY <2>1 DEF OrderInv
  <2> QED BY <2>2, <2>3 DEF FlowInv
<1>3. ASSUME NEW c \in Callers, CallerStep(c)
      PROVE  FlowInv' /\ (CallsDiffer /\ OrderInv => OrderInv')
  <2>1. HandInv'
    BY <1>3, HandStep
  <2>2. Stays \/ (Alone(todo, c) /\ Moves(c))
    BY <1>1, <1>3, MovesOf
  <2>3. CASE Alone(todo, c) /\ Moves(c)
    <3>1. PlacesInv' /\ OnceInv'
      BY <1>1, <2>3, MoveKeepsPlaces
    <3>2. CallsDiffer /\ OrderInv => OrderInv'
      BY <2>3, MoveKeepsOrder
    <3> QED BY <2>1, <3>1, <3>2 DEF FlowInv
  <2>4. CASE Stays
    <3>1. /\ sent' = sent /\ delivered' = delivered /\ cleared' = cleared /\ lost' = lost
          /\ steeringQueue' = steeringQueue /\ followUpQueue' = followUpQueue /\ todo' = todo
      BY <2>4 DEF Stays
    <3>2. PlacesInv' /\ OnceInv' /\ (OrderInv => OrderInv')
      BY <1>1, <3>1 DEF PlacesInv, OnceInv, OrderInv, HandsIn
    <3> QED BY <2>1, <3>2 DEF FlowInv
  <2> QED BY <2>2, <2>3, <2>4
<1>4. ASSUME UNCHANGED <<todo, delivered, lost, pc, failures>>
      PROVE  HandInv'
  BY <1>1, <1>4 DEF HandInv, HandOf
<1>5. CASE Steer
  <2>1. UNCHANGED <<todo, delivered, lost, pc, failures>> /\ cleared' = cleared
        /\ followUpQueue' = followUpQueue
    BY <1>5 DEF Steer, othersOfQueues, localVars
  <2>2. PICK m \in Steers \ Elements(sent) :
          sent' = Append(sent, m) /\ steeringQueue' = Append(steeringQueue, m)
    BY <1>5 DEF Steer
  <2>3. PlacesInv' /\ OnceInv' /\ (OrderInv => OrderInv')
    BY <1>1, <2>1, <2>2, SteerKeeps
  <2>4. HandInv'
    BY <1>4, <2>1
  <2> QED BY <2>3, <2>4 DEF FlowInv
<1>6. CASE FollowUp
  <2>1. UNCHANGED <<todo, delivered, lost, pc, failures>> /\ cleared' = cleared
        /\ steeringQueue' = steeringQueue
    BY <1>6 DEF FollowUp, othersOfQueues, localVars
  <2>2. PICK m \in FollowUps \ Elements(sent) :
          sent' = Append(sent, m) /\ followUpQueue' = Append(followUpQueue, m)
    BY <1>6 DEF FollowUp
  <2>3. PlacesInv' /\ OnceInv' /\ (OrderInv => OrderInv')
    BY <1>1, <2>1, <2>2, FollowUpKeeps
  <2>4. HandInv'
    BY <1>4, <2>1
  <2> QED BY <2>3, <2>4 DEF FlowInv
<1>7. CASE ClearQueues \/ Reset
  <2>1. UNCHANGED <<todo, delivered, lost, pc, failures, sent>>
    BY <1>7 DEF ClearQueues, Reset, othersOfQueues, localVars
  <2>2. /\ \/ steeringQueue' = steeringQueue
           \/ steeringQueue' = <<>>
        /\ \/ followUpQueue' = followUpQueue
           \/ followUpQueue' = <<>>
        /\ cleared' = cleared \cup (Elements(steeringQueue) \ Elements(steeringQueue'))
                              \cup (Elements(followUpQueue) \ Elements(followUpQueue'))
    <3>1. CASE Reset
      BY <3>1, NothingHeld DEF Reset
    <3>2. CASE ClearQueues
      BY <3>2, NothingHeld DEF ClearQueues
    <3> QED BY <1>7, <3>1, <3>2
  <2>3. Clears
    BY <2>1, <2>2 DEF Clears
  <2>4. PlacesInv' /\ OnceInv' /\ (OrderInv => OrderInv')
    BY <1>1, <2>3, ClearKeeps
  <2>5. HandInv'
    BY <1>4, <2>1
  <2> QED BY <2>4, <2>5 DEF FlowInv
<1>8. CASE SetQueueMode \/ UNCHANGED vars
  <2>1. Stays /\ UNCHANGED <<pc, failures>>
    BY <1>8 DEF SetQueueMode, othersOfQueues, vars, queueVars, localVars, histVars, boundVars, Stays
  <2> QED BY <1>2, <2>1
<1> QED BY <1>3, <1>5, <1>6, <1>7, <1>8 DEF Next, CallerStep

\* The number of places that are a message's.
LEMMA OnePlace ==
  ASSUME NEW p, NEW k \in DOMAIN p, p[k], \A j \in DOMAIN p : p[j] => j = k
  PROVE  Cardinality({i \in DOMAIN p : p[i]}) = 1
<1>1. {i \in DOMAIN p : p[i]} = {k}
  BY Zenon
<1> QED BY <1>1, FS_Singleton

LEMMA NoPlace ==
  ASSUME NEW p, \A j \in DOMAIN p : ~p[j]
  PROVE  Cardinality({i \in DOMAIN p : p[i]}) = 0
<1>1. {i \in DOMAIN p : p[i]} = {}
  BY Zenon
<1> QED BY <1>1, FS_EmptySet

\* Drain, the loop's batches, finishRun, Reset and the Clear*Queue calls neither lose nor
\* double a message together: the transcript, the queues, the hands, the cleared and the
\* lost ones are one another's complement in what was sent.
LEMMA ConservationHolds ==
  ASSUME TypeInv, FlowInv
  PROVE  Conservation
<1>1. ASSUME NEW m \in UserMessages
      PROVE  LET places == <<m \in Elements(steeringQueue), m \in Elements(followUpQueue),
                             InHand(m), m \in Elements(delivered), m \in cleared, m \in lost>>
                 where == {i \in DOMAIN places : places[i]}
             IN  Cardinality(where) = IF m \in Elements(sent) THEN 1 ELSE 0
  <2> DEFINE A == m \in Elements(steeringQueue)
             B == m \in Elements(followUpQueue)
             H == InHand(m)
             D == m \in Elements(delivered)
             C == m \in cleared
             L == m \in lost
             S == m \in Elements(sent)
             p == <<A, B, H, D, C, L>>
  <2>1. /\ S <=> A \/ B \/ H \/ D \/ C \/ L
        /\ A => ~B /\ ~H /\ ~D /\ ~C /\ ~L
        /\ B => ~H /\ ~D /\ ~C /\ ~L
        /\ H => ~D /\ ~C /\ ~L
        /\ D => ~C /\ ~L
        /\ C => ~L
    <3>1. H <=> m \in HandsIn(todo, delivered)
      BY DEF InHand, HandsIn
    <3>2. Places(Elements(sent), Elements(steeringQueue), Elements(followUpQueue),
                 HandsIn(todo, delivered), Elements(delivered), cleared, lost)
      BY DEF FlowInv, PlacesInv
    <3> HIDE DEF H
    <3> QED BY <3>1, <3>2 DEF Places
  <2> HIDE DEF A, B, H, D, C, L, S
  <2>2. /\ DOMAIN p = 1..6
        /\ p[1] = A /\ p[2] = B /\ p[3] = H /\ p[4] = D /\ p[5] = C /\ p[6] = L
    OBVIOUS
  <2>3. \A j \in DOMAIN p : j = 1 \/ j = 2 \/ j = 3 \/ j = 4 \/ j = 5 \/ j = 6
    BY <2>2
  <2>4. 1 \in DOMAIN p /\ 2 \in DOMAIN p /\ 3 \in DOMAIN p /\ 4 \in DOMAIN p /\ 5 \in DOMAIN p
        /\ 6 \in DOMAIN p
    BY <2>2
  <2>5. Cardinality({i \in DOMAIN p : p[i]}) = IF S THEN 1 ELSE 0
    <3> HIDE DEF p
    <3>1. CASE A
      <4>1. p[1] /\ \A j \in DOMAIN p : p[j] => j = 1
        BY <2>1, <2>2, <2>3, <3>1, Zenon
      <4> QED BY <2>1, <2>4, <3>1, <4>1, OnePlace, Zenon
    <3>2. CASE B
      <4>1. p[2] /\ \A j \in DOMAIN p : p[j] => j = 2
        BY <2>1, <2>2, <2>3, <3>2, Zenon
      <4> QED BY <2>1, <2>4, <3>2, <4>1, OnePlace, Zenon
    <3>3. CASE H
      <4>1. p[3] /\ \A j \in DOMAIN p : p[j] => j = 3
        BY <2>1, <2>2, <2>3, <3>3, Zenon
      <4> QED BY <2>1, <2>4, <3>3, <4>1, OnePlace, Zenon
    <3>4. CASE D
      <4>1. p[4] /\ \A j \in DOMAIN p : p[j] => j = 4
        BY <2>1, <2>2, <2>3, <3>4, Zenon
      <4> QED BY <2>1, <2>4, <3>4, <4>1, OnePlace, Zenon
    <3>5. CASE C
      <4>1. p[5] /\ \A j \in DOMAIN p : p[j] => j = 5
        BY <2>1, <2>2, <2>3, <3>5, Zenon
      <4> QED BY <2>1, <2>4, <3>5, <4>1, OnePlace, Zenon
    <3>6. CASE L
      <4>1. p[6] /\ \A j \in DOMAIN p : p[j] => j = 6
        BY <2>1, <2>2, <2>3, <3>6, Zenon
      <4> QED BY <2>1, <2>4, <3>6, <4>1, OnePlace, Zenon
    <3>7. CASE ~A /\ ~B /\ ~H /\ ~D /\ ~C /\ ~L
      <4>1. \A j \in DOMAIN p : ~p[j]
        BY <2>2, <2>3, <3>7, Zenon
      <4>2. ~S
        BY <2>1, <3>7, Zenon
      <4> QED BY <4>1, <4>2, NoPlace, Zenon
    <3> QED BY <3>1, <3>2, <3>3, <3>4, <3>5, <3>6, <3>7, Zenon
  <2> QED BY <2>5, Zenon DEF A, B, H, D, C, L, S, p
<1>2. \A i, j \in DOMAIN delivered : delivered[i] = delivered[j] => i = j
  <2>1. \A i \in DOMAIN delivered : delivered[i] \in UserMessages
    BY DEF TypeInv, HistoryOK
  <2> QED BY <2>1 DEF FlowInv, OnceInv, OnceIn
<1>3. lost # {} => failures > 0
  BY DEF FlowInv, HandInv
<1> QED BY <1>1, <1>2, <1>3, Zenon DEF Conservation

\* What the transcript has of a queue's messages is in the order they were given.
LEMMA QueueOrderHolds ==
  ASSUME TypeInv, FlowInv, OrderInv
  PROVE  QueueOrder
<1>1. ASSUME NEW U, U \subseteq UserMessages, SortedIn(delivered, U, sent)
      PROVE  \A m, n \in U : Before(sent, m, n) => ~Before(delivered, n, m)
  <2> SUFFICES ASSUME NEW m \in U, NEW n \in U, Before(sent, m, n), Before(delivered, n, m)
               PROVE  FALSE
    BY Zenon
  <2>1. Before(sent, n, m)
    BY <1>1 DEF SortedIn, Before
  <2>2. OnceIn(sent, UserMessages)
    BY DEF FlowInv, OnceInv
  <2>3. m \in UserMessages /\ n \in UserMessages
    BY <1>1
  <2>4. PICK i, j \in DOMAIN sent : i < j /\ sent[i] = m /\ sent[j] = n
    BY DEF Before
  <2>5. PICK k, l \in DOMAIN sent : k < l /\ sent[k] = n /\ sent[l] = m
    BY <2>1 DEF Before
  <2>6. i = l /\ j = k
    BY <2>2, <2>3, <2>4, <2>5 DEF OnceIn
  <2>7. i \in Nat /\ j \in Nat
    BY DEF TypeInv, HistoryOK
  <2> QED BY <2>4, <2>5, <2>6, <2>7
<1>2. Steers \subseteq UserMessages /\ FollowUps \subseteq UserMessages
  BY DEF UserMessages
<1> QED BY <1>1, <1>2 DEF QueueOrder, OrderInv, OrderAt

\* In whatever order calls, polls, commits, failures and resets happen, every accepted
\* message is in one place only and counted once: Drain's batches, finishRun and Reset
\* never lose or double one between them, and only a failure loses any.
THEOREM ConservationAlways ==
  ASSUME ResultsDiffer
  PROVE  Spec => []Conservation
<1>1. Init => FlowInv
  BY FlowInit
<1>2. TypeInv /\ FlowInv /\ [Next]_vars => FlowInv'
  BY FlowStep
<1>3. TypeInv /\ FlowInv => Conservation
  BY ConservationHolds
<1> QED BY <1>1, <1>2, <1>3, TypeInvariant, PTL DEF Spec

\* Steering and follow-up messages are committed in the order they were given, in either
\* queue mode, whether a run drains them at its start, between turns or at its end.
THEOREM QueueOrderAlways ==
  ASSUME ResultsDiffer, CallsDiffer
  PROVE  Spec => []QueueOrder
<1>1. Init => FlowInv /\ OrderInv
  BY FlowInit
<1>2. TypeInv /\ FlowInv /\ OrderInv /\ [Next]_vars => FlowInv' /\ OrderInv'
  BY FlowStep
<1>3. TypeInv /\ FlowInv /\ OrderInv => QueueOrder
  BY QueueOrderHolds
<1> QED BY <1>1, <1>2, <1>3, TypeInvariant, PTL DEF Spec
=============================================================================
