------------------------------ MODULE RunSlot ------------------------------
(***************************************************************************)
(* What internal/agent/runtime.go promises the callers of an Agent about   *)
(* its runs, whatever happens inside one: there is a single slot, a run    *)
(* that has taken it keeps it until it settles, a run is cancelled only on *)
(* request or as the last step of its own clean-up, and a goroutine that   *)
(* waits for idle is released by the run it saw and by no other.           *)
(***************************************************************************)
EXTENDS Naturals

CONSTANTS Callers,   \* goroutines that call the Agent
          MaxRuns    \* bound, a natural number: runs started in a behaviour

VARIABLES slot,       \* the run holding the slot, 0 when the agent is idle
          started,    \* number of runs started so far; runs are numbered 1, 2, ...
          settled,    \* runs whose done channel is closed
          requested,  \* runs somebody asked to cancel while they held the slot
          cancelled,  \* runs whose context is cancelled
          waiting     \* the run each waiting caller waits for, 0 for the others

slotVars == <<slot, started, settled, requested, cancelled, waiting>>

Runs == 1..MaxRuns

Init ==
  /\ slot = 0
  /\ started = 0
  /\ settled = {}
  /\ requested = {}
  /\ cancelled = {}
  /\ waiting = [c \in Callers |-> 0]

Start ==
  /\ slot = 0
  /\ started < MaxRuns
  /\ slot' = started + 1
  /\ started' = started + 1
  /\ UNCHANGED <<settled, requested, cancelled, waiting>>

Request ==
  /\ slot # 0
  /\ requested' = requested \cup {slot}
  /\ UNCHANGED <<slot, started, settled, waiting>>
  /\ cancelled' = cancelled \/ cancelled' = cancelled \cup {slot}

Cancel(r) ==
  /\ r \in requested \cup settled
  /\ cancelled' = cancelled \cup {r}
  /\ UNCHANGED <<slot, started, settled, requested, waiting>>

Settle ==
  /\ slot # 0
  /\ settled' = settled \cup {slot}
  /\ slot' = 0
  /\ UNCHANGED <<started, requested, cancelled, waiting>>

Wait(c) ==
  /\ slot # 0
  /\ waiting[c] = 0
  /\ waiting' = [waiting EXCEPT ![c] = slot]
  /\ UNCHANGED <<slot, started, settled, requested, cancelled>>

Wake(c) ==
  /\ waiting[c] \in settled
  /\ waiting' = [waiting EXCEPT ![c] = 0]
  /\ UNCHANGED <<slot, started, settled, requested, cancelled>>

Next ==
  \/ Start
  \/ Request
  \/ \E r \in Runs : Cancel(r)
  \/ Settle
  \/ \E c \in Callers : Wait(c) \/ Wake(c)

Spec == Init /\ [][Next]_slotVars
=============================================================================
