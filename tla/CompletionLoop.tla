--------------------------- MODULE CompletionLoop ---------------------------
(***************************************************************************)
(* The completion loop (internal/session/completion.go) over successive    *)
(* runs of the program in one project directory, each in a new session or  *)
(* in the resumed one.  The agent's turn is one step: it appends assistant *)
(* messages, and a tool of it may write TASK_COMPLETED.                    *)
(*                                                                         *)
(* Of a message only its promise counts ("silent": it has no text) and     *)
(* whether it ended with StopError or StopAborted.                         *)
(*                                                                         *)
(* A definition introduced by "Defect:" is not part of the model.  It is   *)
(* the definition that follows it with a plausible bug.                    *)
(***************************************************************************)
EXTENDS Naturals, Sequences

CONSTANTS
  MaxContinuations,
  MaxRuns,          \* bound: runs of the program
  MaxTurnMessages   \* bound: assistant messages of a turn

CompletionAssumption ==
  MaxContinuations \in Nat \ {0} /\ MaxRuns \in Nat /\ MaxTurnMessages \in Nat \ {0}

VARIABLES
  loopAt,           \* idle, prompt: the agent runs, check: ContinueUntilComplete
  enabled,      \* CompletionOptions.Enabled: not in plan mode
  transcript,   \* the assistant messages of the session
  flag,         \* TASK_COMPLETED: absent, present, or kept: present and cannot be removed
  continuationAttempt,
  outcome,      \* what the last run returned
  loopCancelled,    \* ctx.Err() # nil
  runs,
  start,        \* history: messages of the transcript when the run began
  prompts,      \* history: prompts of this run
  written       \* history: the flag was written during this run

loopVars == <<loopAt, enabled, transcript, flag, continuationAttempt, outcome, loopCancelled,
              runs, start, prompts, written>>

Texts == {"silent", "none", "step", "stuck", "complete"}
Messages == [text : Texts, errored : BOOLEAN]
PromiseStatuses == {"none", "step", "stuck", "complete", "max", "file"}
NoOutcome == [kind |-> "pending", status |-> "none", sent |-> 0, byFile |-> FALSE]
Error == [kind |-> "error", status |-> "none", sent |-> 0, byFile |-> FALSE]
Returned(status, sent, byFile) ==
  [kind |-> "outcome", status |-> status, sent |-> sent, byFile |-> byFile]

(***************************************************************************)
(* What the loop reads.                                                    *)
(***************************************************************************)
Said == {transcript[i].text : i \in DOMAIN transcript}

\* The strongest promise of the whole transcript.
PromiseStatusFromText ==
  IF "complete" \in Said THEN "complete"
  ELSE IF "stuck" \in Said THEN "stuck"
  ELSE IF "step" \in Said THEN "step" ELSE "none"

lastAssistantErrored == transcript # <<>> /\ transcript[Len(transcript)].errored

\* consumeTaskCompleted: the flag counts when it could be removed.
Removed == IF flag = "present" THEN "absent" ELSE flag
Found == flag = "present"

LoopInit ==
  /\ loopAt = "idle" /\ enabled = TRUE /\ transcript = <<>>
  /\ flag \in {"absent", "present", "kept"}
  /\ continuationAttempt = 0 /\ outcome = NoOutcome /\ loopCancelled = FALSE
  /\ runs = 0 /\ start = 0 /\ prompts = 0 /\ written = FALSE

RunCompletionLoop(plan, resumed) ==
  /\ loopAt = "idle" /\ runs < MaxRuns
  /\ runs' = runs + 1
  /\ enabled' = ~plan
  /\ transcript' = IF resumed THEN transcript ELSE <<>>
  /\ start' = Len(transcript')
  /\ flag' = Removed
  /\ continuationAttempt' = 0 /\ outcome' = NoOutcome /\ loopCancelled' = FALSE
  /\ prompts' = 1 /\ written' = FALSE
  /\ loopAt' = "prompt"

(***************************************************************************)
(* The agent's turn.                                                       *)
(***************************************************************************)
\* The messages of a turn; only the last one can have ended with an error.
TurnMessages(errors) ==
  UNION {{m \in [1..n -> Messages] : m[n].errored \in errors /\ \A i \in 1..(n - 1) : ~m[i].errored}
         : n \in 1..MaxTurnMessages}

ToolsWriteFlag ==
  \/ flag' \in {"present", "kept"} /\ flag = "absent" /\ written' = TRUE
  \/ flag # "absent" /\ flag' = flag /\ written' = TRUE
  \/ UNCHANGED <<flag, written>>

PromptReturns ==
  /\ loopAt = "prompt"
  /\ \E m \in TurnMessages(IF loopCancelled THEN {TRUE} ELSE BOOLEAN) :
       transcript' = transcript \o m
  /\ ToolsWriteFlag
  /\ loopAt' = "check"
  /\ UNCHANGED <<enabled, continuationAttempt, outcome, loopCancelled, runs, start, prompts>>

\* PromptText returns an error: a listener failed, and again on the report of the failure.
PromptFails ==
  /\ loopAt = "prompt"
  /\ \E m \in TurnMessages(BOOLEAN) \cup {<<>>} : transcript' = transcript \o m
  /\ ToolsWriteFlag
  /\ outcome' = Error /\ loopAt' = "idle"
  /\ UNCHANGED <<enabled, continuationAttempt, loopCancelled, runs, start, prompts>>

(***************************************************************************)
(* ContinueUntilComplete.                                                  *)
(***************************************************************************)
Return(result) == loopAt' = "idle" /\ outcome' = result

\* Plan mode: one turn, and the flag is not looked at.
ReturnPlan ==
  /\ loopAt = "check" /\ ~enabled
  /\ Return(Returned(PromiseStatusFromText, 0, FALSE))
  /\ UNCHANGED <<enabled, transcript, flag, continuationAttempt, loopCancelled, runs, start,
                 prompts, written>>

ReturnCancelled ==
  /\ loopAt = "check" /\ enabled /\ loopCancelled
  /\ Return(Error)
  /\ UNCHANGED <<enabled, transcript, flag, continuationAttempt, loopCancelled, runs, start,
                 prompts, written>>

Capped == continuationAttempt >= MaxContinuations

\* Defect: a promise is looked for before the error.
VerdictOnPromise ==
  LET sent == continuationAttempt IN
  IF PromiseStatusFromText = "complete" THEN Returned("complete", 0, Found)
  ELSE IF PromiseStatusFromText = "stuck" THEN Returned("stuck", 0, FALSE)
  ELSE IF lastAssistantErrored THEN Returned("none", sent, FALSE)
  ELSE IF Found THEN Returned("file", sent, TRUE)
  ELSE IF Said \subseteq {"silent"} THEN Returned("none", sent, FALSE)
  ELSE IF Capped THEN Returned("max", sent, FALSE)
  ELSE NoOutcome

\* What an iteration returns; NoOutcome: the agent is prompted again.
Verdict ==
  LET sent == continuationAttempt IN
  IF lastAssistantErrored THEN Returned("none", sent, FALSE)
  ELSE IF PromiseStatusFromText = "complete" THEN Returned("complete", 0, Found)
  ELSE IF PromiseStatusFromText = "stuck" THEN Returned("stuck", 0, FALSE)
  ELSE IF Found THEN Returned("file", sent, TRUE)
  ELSE IF Said \subseteq {"silent"} THEN Returned("none", sent, FALSE)
  ELSE IF Capped THEN Returned("max", sent, FALSE)
  ELSE NoOutcome

Iterate ==
  /\ loopAt = "check" /\ enabled /\ ~loopCancelled
  /\ flag' = Removed
  /\ IF Verdict # NoOutcome
     THEN Return(Verdict) /\ UNCHANGED <<continuationAttempt, prompts>>
     ELSE /\ loopAt' = "prompt" /\ continuationAttempt' = continuationAttempt + 1
          /\ prompts' = prompts + 1
          /\ UNCHANGED outcome
  /\ UNCHANGED <<enabled, transcript, loopCancelled, runs, start, written>>

CancelLoop ==
  /\ loopAt # "idle" /\ ~loopCancelled
  /\ loopCancelled' = TRUE
  /\ UNCHANGED <<loopAt, enabled, transcript, flag, continuationAttempt, outcome, runs, start,
                 prompts, written>>

PromptTurn == PromptReturns \/ PromptFails
ContinueUntilComplete == ReturnPlan \/ ReturnCancelled \/ Iterate

LoopNext ==
  \/ \E plan, resumed \in BOOLEAN : RunCompletionLoop(plan, resumed)
  \/ PromptTurn \/ ContinueUntilComplete \/ CancelLoop

LoopSpec == LoopInit /\ [][LoopNext]_loopVars
-----------------------------------------------------------------------------
\* A completion by file is this run's: a flag an earlier run left, removable or not,
\* is never counted (completion.go:85-88, 250-253).
FlagIsFresh == outcome.byFile => written

EndedInError == transcript # <<>> /\ transcript[Len(transcript)].errored

\* A run whose last turn failed or was cancelled does not count as complete, whatever
\* was promised or written before.
ErrorIsNotComplete ==
  outcome.kind = "outcome" /\ enabled /\ outcome.status \in {"complete", "file", "stuck", "max"} =>
    ~EndedInError

\* The agent is prompted again only after a turn of this run that succeeded, with no
\* final promise in sight and the cap not reached; the continuation count, and with it
\* what a capped outcome reports as sent, is the number of those prompts.
ContinuesOnlyUnfinished ==
  /\ loopAt = "prompt" /\ prompts > 1 =>
       /\ Len(transcript) > start /\ ~EndedInError /\ enabled
       /\ Said \cap {"complete", "stuck"} = {}
       /\ prompts = continuationAttempt + 1 /\ continuationAttempt <= MaxContinuations
  /\ outcome.kind = "outcome" /\ outcome.status \in {"max", "file"} => outcome.sent + 1 = prompts

Promised(from, to, status) == \E i \in from..to : transcript[i].text = status

\* A promise that ends a run was made in it, with one exception: the whole transcript is
\* read, so that a promise of a resumed session ends the new run, but then after its first
\* turn (completion.go:131-150).
PromiseIsOwn ==
  outcome.kind = "outcome" /\ outcome.status \in {"complete", "stuck", "step"} =>
    \/ Promised(start + 1, Len(transcript), outcome.status)
    \/ prompts = 1 /\ Promised(1, start, outcome.status)

\* What the loop returns and each prompt it sends is about this run, but for a promise that
\* a resumed session holds (RunCompletionLoop, ContinueUntilComplete).
LoopIsHonest == FlagIsFresh /\ ErrorIsNotComplete /\ ContinuesOnlyUnfinished /\ PromiseIsOwn
=============================================================================
