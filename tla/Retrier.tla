------------------------------ MODULE Retrier ------------------------------
(***************************************************************************)
(* The retrying stream of internal/retry: Retrier.produce of stream.go,    *)
(* Classify of error.go and the delays of config.go.  One logical stream:  *)
(* produce reads attempt streams one after the other and pushes to the     *)
(* output what the caller may see.                                         *)
(*                                                                         *)
(* An attempt stream is first in, first out (module EventStream), so that  *)
(* an event is chosen here when produce receives it.  An event is its      *)
(* attempt, its number within the attempt and its type; a generated        *)
(* terminal event has attempt 0.  The provider answers with a status (0:   *)
(* none) before its first event, and sends events only after a 2xx.        *)
(*                                                                         *)
(* A definition introduced by "Defect:" is not part of the model.  It is   *)
(* the definition that follows it with a plausible bug.                    *)
(***************************************************************************)
EXTENDS Backoff, Sequences

CONSTANTS
  MaxAttempts,      \* Config.MaxAttempts
  preOutputLimit,   \* 64 in the code
  BaseDelay, BackoffCap, MaxDelay,   \* Config, in milliseconds; MaxDelay 0: no limit
  Hints,            \* RetryAfter hints a provider gives; 0: none
  Statuses,         \* HTTP statuses a provider answers with
  MaxEvents         \* bound: non-terminal events of an attempt

RetrierAssumption ==
  /\ MaxAttempts \in Nat \ {0} /\ preOutputLimit \in Nat \ {0}
  /\ BaseDelay \in Nat \ {0} /\ BackoffCap \in BaseDelay..MaxDuration
  /\ MaxDelay \in Nat /\ Hints \subseteq Nat /\ Statuses \subseteq Nat
  /\ MaxEvents \in Nat

None == "none"
\* What a failure says of itself, in the order in which Classify looks: the stop
\* reason, the wording of a context overflow, the codes and wordings that name a
\* passing condition; closed is a stream without a terminal event.
Causes == {"aborted", "overflow", "transient", "fatal", "closed"}
Codes == {"canceled", "stream_interrupted", "attempts_exhausted", "retry_delay_exceeded",
          "provider_failure"}
Types == {"structural", "delta", "done", "error"}

VARIABLES
  pc,           \* check, receive, sleep or done
  attempt,      \* the current attempt
  status,       \* response.Status
  received,     \* events received from the current attempt
  buffer,       \* events held back
  committed,    \* the attempt is visible
  output,       \* events pushed to the caller
  delay,        \* the wait of the backoff in progress
  hint,         \* the provider's hint for it
  cancelled,    \* ctx.Err() # nil
  failure       \* history: the cause for which the current attempt failed before output

retryVars == <<pc, attempt, status, received, buffer, committed, output, delay, hint, cancelled,
          failure>>

(***************************************************************************)
(* Classify: whether a failure is retryable.                               *)
(***************************************************************************)
Retryable(cause) ==
  /\ ~cancelled /\ cause \notin {"aborted", "overflow"}
  /\ IF status = 0 THEN cause = "transient" ELSE status = 429 \/ status \in 500..599

\* A provider sends events when the request was accepted; the scripted one has no
\* status.
Accepted == status \in {0} \cup 200..299

(***************************************************************************)
(* Pushing to the output.                                                  *)
(***************************************************************************)
Event(type) == [attempt |-> attempt, number |-> received + 1, type |-> type, code |-> None]
Generated(code) == [attempt |-> 0, number |-> 0, type |-> "error", code |-> code]

Finish(events) ==
  /\ output' = output \o events
  /\ pc' = "done"
  /\ buffer' = <<>>

PushCanceled == Finish(<<Generated("canceled")>>)

RetryInit ==
  /\ pc = "check" /\ attempt = 0 /\ status = 0 /\ received = 0
  /\ buffer = <<>> /\ committed = FALSE /\ output = <<>>
  /\ delay = 0 /\ hint = 0 /\ cancelled = FALSE /\ failure = None

(***************************************************************************)
(* An attempt.                                                             *)
(***************************************************************************)
Begin ==
  /\ pc = "check" /\ ~cancelled
  /\ attempt' = attempt + 1
  /\ status' \in Statuses
  /\ received' = 0
  /\ buffer' = <<>> /\ committed' = FALSE
  /\ failure' = None
  /\ pc' = "receive"
  /\ UNCHANGED <<output, delay, hint, cancelled>>

BeginCancelled ==
  /\ pc = "check" /\ cancelled
  /\ PushCanceled
  /\ UNCHANGED <<attempt, status, received, committed, delay, hint, cancelled, failure>>

\* Defect: the buffer is dropped when output starts.
ReceiveEventUnflushed(type) ==
  /\ pc = "receive" /\ Accepted /\ received < MaxEvents
  /\ received' = received + 1
  /\ LET visible == committed \/ type = "delta" \/ Len(buffer) + 1 >= preOutputLimit IN
     /\ committed' = visible
     /\ IF visible
        THEN output' = Append(output, Event(type)) /\ buffer' = <<>>
        ELSE buffer' = Append(buffer, Event(type)) /\ UNCHANGED output
  /\ UNCHANGED <<pc, attempt, status, delay, hint, cancelled, failure>>

\* An event that does not end the stream: it makes the attempt visible if it is
\* observable or fills the buffer.
ReceiveEvent(type) ==
  /\ pc = "receive" /\ Accepted /\ received < MaxEvents
  /\ received' = received + 1
  /\ LET visible == committed \/ type = "delta" \/ Len(buffer) + 1 >= preOutputLimit IN
     /\ committed' = visible
     /\ IF visible
        THEN output' = output \o Append(buffer, Event(type)) /\ buffer' = <<>>
        ELSE buffer' = Append(buffer, Event(type)) /\ UNCHANGED output
  /\ UNCHANGED <<pc, attempt, status, delay, hint, cancelled, failure>>

ReceiveDone ==
  /\ pc = "receive" /\ Accepted
  /\ Finish(Append(buffer, Event("done")))
  /\ UNCHANGED <<attempt, status, received, committed, delay, hint, cancelled, failure>>

HintsOf == IF status = 0 THEN {0} ELSE Hints

\* retryClassified for a retryable failure.
BackOff ==
  \E h \in HintsOf, local \in jitterDelays(nominalDelay(BaseDelay, BackoffCap, attempt)) :
    LET wait == IF h > local THEN h ELSE local IN
    IF attempt >= MaxAttempts
    THEN Finish(<<Generated("attempts_exhausted")>>) /\ UNCHANGED <<delay, hint>>
    ELSE IF MaxDelay > 0 /\ wait > MaxDelay
    THEN Finish(<<Generated("retry_delay_exceeded")>>) /\ UNCHANGED <<delay, hint>>
    ELSE pc' = "sleep" /\ delay' = wait /\ hint' = h /\ UNCHANGED <<buffer, output>>

\* retryFailure: terminal is what is pushed when the failure is not retryable.
Fails(cause, terminal) ==
  /\ failure' = cause
  /\ IF Retryable(cause) THEN BackOff
     ELSE Finish(Append(buffer, terminal)) /\ UNCHANGED <<delay, hint>>

\* An error event; visible: its message already carries output.
ReceiveError ==
  /\ pc = "receive"
  /\ \E cause \in Causes \ {"closed"}, visible \in {FALSE} \cup {received > 0} :
       IF committed \/ visible
       THEN Finish(Append(buffer, Event("error"))) /\ UNCHANGED <<delay, hint, failure>>
       ELSE Fails(cause, Event("error"))
  /\ UNCHANGED <<attempt, status, received, committed, cancelled>>

\* The next streamer returned no stream.
NoStream ==
  /\ pc = "receive" /\ received = 0 /\ status = 0
  /\ Fails("fatal", Generated(IF cancelled THEN "canceled" ELSE "provider_failure"))
  /\ UNCHANGED <<attempt, status, received, committed, cancelled>>

\* The attempt stream was closed without a terminal event: retryable whatever the
\* status.
ReceiveClose ==
  /\ pc = "receive" /\ Accepted
  /\ IF committed
     THEN Finish(<<Generated("stream_interrupted")>>) /\ UNCHANGED <<delay, hint, failure>>
     ELSE IF cancelled THEN PushCanceled /\ UNCHANGED <<delay, hint, failure>>
     ELSE BackOff /\ failure' = "closed"
  /\ UNCHANGED <<attempt, status, received, committed, cancelled>>

\* Defect: produce waits for the attempt's events only.
ReceiveCancelledNever ==
  FALSE /\ UNCHANGED retryVars

\* ctx.Done() is selected, with an event at hand or not.
ReceiveCancelled ==
  /\ pc = "receive" /\ cancelled
  /\ PushCanceled
  /\ UNCHANGED <<attempt, status, received, committed, delay, hint, cancelled, failure>>

\* Sleep returns, early when cancelled.
WakeUp ==
  /\ pc = "sleep" /\ ~cancelled
  /\ pc' = "check"
  /\ UNCHANGED <<attempt, status, received, buffer, committed, output, delay, hint,
                 cancelled, failure>>

WakeUpCancelled ==
  /\ pc = "sleep" /\ cancelled
  /\ PushCanceled
  /\ UNCHANGED <<attempt, status, received, committed, delay, hint, cancelled, failure>>

Cancel ==
  /\ ~cancelled /\ pc # "done"
  /\ cancelled' = TRUE
  /\ UNCHANGED <<pc, attempt, status, received, buffer, committed, output, delay, hint, failure>>

Provider ==
  \/ ReceiveEvent("structural") \/ ReceiveEvent("delta")
  \/ ReceiveDone \/ ReceiveError \/ ReceiveClose
Producer == Begin \/ NoStream \/ WakeUp
CancelledProducer == BeginCancelled \/ ReceiveCancelled \/ WakeUpCancelled

RetryNext == Provider \/ Producer \/ CancelledProducer \/ Cancel

RetrySpec == RetryInit /\ [][RetryNext]_retryVars

\* The producer goroutine runs and its timers fire; of the provider nothing is
\* assumed.
ProducerFairness == WF_retryVars(Begin \/ WakeUp) /\ WF_retryVars(CancelledProducer)
FairRetrySpec == RetrySpec /\ ProducerFairness

-----------------------------------------------------------------------------
IsTerminal(e) == e.type \in {"done", "error"}

\* The caller hears one attempt, from its first event on and without gaps, and then
\* one terminal event, whichever attempts failed before.
SingleVoice ==
  /\ \A i \in DOMAIN output : output[i].attempt # 0 =>
       output[i].attempt = attempt /\ output[i].number = i
  /\ \A i \in DOMAIN output : IsTerminal(output[i]) <=> i = Len(output) /\ pc = "done"
  /\ pc = "done" => output # <<>>

\* The backoff of base * 2^(n - 1), or the cap where that is less.
Exponential == IF BaseDelay * 2^(attempt - 1) > BackoffCap THEN BackoffCap
               ELSE BaseDelay * 2^(attempt - 1)

\* Between attempts the stream waits as long as the provider asked for or, if that is
\* longer, the exponential backoff with its jitter, whatever is too large for a
\* Duration on the way (nominalDelay), and never longer than MaxDelay.
WaitIsBounded ==
  pc = "sleep" =>
    /\ delay >= hint
    /\ delay > hint => delay \in jitterDelays(Exponential)
    /\ delay >= (3 * Exponential) \div 4
    /\ MaxDelay > 0 => delay <= MaxDelay

\* A context overflow is never retried, whatever status came with it: the provider's
\* own error reaches the caller, in one attempt.
OverflowReachesCaller ==
  failure = "overflow" => pc = "done" /\ output[Len(output)] = Event("error")

\* Of the retries the caller hears nothing: one attempt, after waits that were bounded,
\* and no second one after an overflow (Retrier.produce).
RetryIsInvisible == SingleVoice /\ WaitIsBounded /\ OverflowReachesCaller

\* A cancelled stream ends though the provider never says anything again; every
\* stream ends if each attempt that goes on being read does.
StreamEnds ==
  /\ cancelled ~> pc = "done"
  /\ WF_retryVars(Provider) => <>(pc = "done")

\* "Transient provider failures ... are ... retried" (README): the error of an
\* attempt that was accepted, showed nothing and failed for a passing reason is not
\* what the caller of a stream gets that nobody cancelled.
TransientIsRetried ==
  pc = "done" /\ failure = "transient" /\ Accepted /\ ~cancelled => output[Len(output)].attempt = 0
=============================================================================
