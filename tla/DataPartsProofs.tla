-------------------------- MODULE DataPartsProofs ---------------------------
(***************************************************************************)
(* What is proved of the data of a run that MCDataParts puts together: the *)
(* completion loop, the output of a command, the attachments and the       *)
(* conversation.                                                           *)
(*                                                                         *)
(* What the completion loop returns is about this run, for any number of   *)
(* runs, continuations and messages of a turn (LoopInv).                   *)
(*                                                                         *)
(* The file of a command's output, for any pieces and limits (OutputInv).  *)
(*                                                                         *)
(* The attachments of a session, for any documents, limits and concurrent  *)
(* calls: what each call has staged (ResolveInv), what the store holds     *)
(* (TreeInv), what the turn was charged (TurnInv) and how far a request    *)
(* has come (DeliveryInv).                                                 *)
(*                                                                         *)
(* The messages of a conversation over any number of turns, compactions    *)
(* and restarts: in order, none forgotten, none told twice (Sound,         *)
(* ConversationInv).                                                       *)
(***************************************************************************)
EXTENDS Conversation, CompletionLoop, OutputLog, Attachments, NaturalRecursion, SequenceTheorems,
        FiniteSetTheorems, TLAPS

-----------------------------------------------------------------------------
(* The completion loop.                                                    *)

Outcomes ==
  [kind : {"pending", "error", "outcome"}, status : PromiseStatuses, sent : Nat, byFile : BOOLEAN]

LoopTypes ==
  /\ loopAt \in {"idle", "prompt", "check"}
  /\ enabled \in BOOLEAN
  /\ transcript \in Seq(Messages)
  /\ flag \in {"absent", "present", "kept"}
  /\ continuationAttempt \in Nat /\ prompts \in Nat /\ start \in Nat
  /\ outcome \in Outcomes
  /\ written \in BOOLEAN

\* While a run goes on nothing is returned, its prompts are its continuations and the
\* first one, a flag that can be removed was written by it, and a turn adds messages.
RunningInv ==
  loopAt # "idle" =>
    /\ outcome = NoOutcome
    /\ prompts = continuationAttempt + 1 /\ continuationAttempt <= MaxContinuations
    /\ flag = "present" => written
    /\ start <= Len(transcript)
    /\ loopAt = "check" => start < Len(transcript)

Counted == FlagIsFresh /\ ErrorIsNotComplete /\ ContinuesOnlyUnfinished

LoopInv == LoopTypes /\ RunningInv /\ Counted

\* A turn adds at least one message.
LEMMA TurnIsSeq ==
  ASSUME NEW errors, NEW m \in TurnMessages(errors)
  PROVE  m \in Seq(Messages) /\ Len(m) \in Nat \ {0}
<1>1. PICK n \in 1..MaxTurnMessages : m \in [1..n -> Messages]
  BY DEF TurnMessages
<1>2. m \in Seq(Messages) /\ DOMAIN m = 1..n
  BY <1>1
<1> QED BY <1>2, LenProperties

LEMMA Extended ==
  ASSUME transcript \in Seq(Messages), NEW m \in Seq(Messages)
  PROVE  transcript \o m \in Seq(Messages) /\ Len(transcript \o m) = Len(transcript) + Len(m)
BY ConcatProperties

LEMMA PromiseIsStatus ==
  /\ PromiseStatusFromText \in {"none", "step", "stuck", "complete"}
  /\ PromiseStatusFromText \notin {"complete", "stuck"} => Said \cap {"complete", "stuck"} = {}
BY DEF PromiseStatusFromText

\* What an iteration decides.
LEMMA Decides ==
  ASSUME LoopTypes, RunningInv, loopAt = "check"
  PROVE  /\ Verdict \in Outcomes
         /\ Verdict.byFile => flag = "present"
         /\ Verdict # NoOutcome => Verdict.kind = "outcome"
         /\ Verdict.status \in {"complete", "file", "stuck", "max"} => ~EndedInError
         /\ Verdict.status \in {"max", "file"} => Verdict.sent = continuationAttempt
         /\ Verdict = NoOutcome => /\ ~EndedInError /\ Said \cap {"complete", "stuck"} = {}
                                    /\ ~Capped
<1> USE PromiseIsStatus DEF LoopTypes, Returned, NoOutcome, Outcomes, PromiseStatuses, Found
<1> DEFINE errored == lastAssistantErrored
           promised == PromiseStatusFromText
           silent == Said \subseteq {"silent"}
<1>1. errored <=> EndedInError
  BY Zenon DEF lastAssistantErrored, EndedInError
<1>2. Verdict =
        IF errored THEN Returned("none", continuationAttempt, FALSE)
        ELSE IF promised = "complete" THEN Returned("complete", 0, Found)
        ELSE IF promised = "stuck" THEN Returned("stuck", 0, FALSE)
        ELSE IF Found THEN Returned("file", continuationAttempt, TRUE)
        ELSE IF silent THEN Returned("none", continuationAttempt, FALSE)
        ELSE IF Capped THEN Returned("max", continuationAttempt, FALSE)
        ELSE NoOutcome
  BY Zenon DEF Verdict
<1> HIDE DEF errored, silent
<1>3. promised \notin {"complete", "stuck"} => Said \cap {"complete", "stuck"} = {}
  BY PromiseIsStatus
<1> HIDE DEF promised
<1> QED BY <1>1, <1>2, <1>3

\* A flag that appears in a turn is written in it.
LEMMA FlagIsWritten ==
  ASSUME ToolsWriteFlag, flag \in {"absent", "present", "kept"}, written \in BOOLEAN,
         flag = "present" => written
  PROVE  /\ flag' \in {"absent", "present", "kept"} /\ written' \in BOOLEAN
         /\ flag' = "present" => written'
<1>1. CASE flag' \in {"present", "kept"} /\ flag = "absent" /\ written' = TRUE
  BY <1>1
<1>2. CASE flag # "absent" /\ flag' = flag /\ written' = TRUE
  BY <1>2
<1>3. CASE UNCHANGED <<flag, written>>
  <2>1. flag' = flag /\ written' = written
    BY <1>3
  <2> QED BY <2>1, Zenon
<1> QED BY <1>1, <1>2, <1>3, Zenon DEF ToolsWriteFlag

\* No outcome claims nothing.
LEMMA NoOutcomeIsHonest ==
  /\ NoOutcome \in Outcomes /\ Error \in Outcomes
  /\ \A o \in {NoOutcome, Error} :
       /\ o.kind # "outcome" /\ ~o.byFile
       /\ o.status \notin {"complete", "file", "stuck", "max"}
<1>1. NoOutcome \in Outcomes
  BY DEF NoOutcome, Outcomes, PromiseStatuses
<1>2. Error \in Outcomes
  BY DEF Error, Outcomes, PromiseStatuses
<1> QED BY <1>1, <1>2 DEF NoOutcome, Error

LEMMA LoopInvInit == ASSUME LoopInit PROVE LoopInv
<1>1. LoopTypes
  BY NoOutcomeIsHonest, EmptySeq DEF LoopInit, LoopTypes
<1>2. RunningInv
  BY DEF LoopInit, RunningInv
<1>3. Counted
  BY NoOutcomeIsHonest
     DEF LoopInit, Counted, FlagIsFresh, ErrorIsNotComplete, ContinuesOnlyUnfinished
<1> QED BY <1>1, <1>2, <1>3 DEF LoopInv

LEMMA LoopInvStep ==
  ASSUME CompletionAssumption, LoopInv, [LoopNext]_loopVars
  PROVE  LoopInv'
<1> USE DEF LoopInv, LoopTypes, Counted, FlagIsFresh, ErrorIsNotComplete,
            ContinuesOnlyUnfinished
<1>1. ASSUME NEW plan \in BOOLEAN, NEW resumed \in BOOLEAN, RunCompletionLoop(plan, resumed)
      PROVE  LoopInv'
  <2>1. transcript' \in Seq(Messages)
    BY <1>1, EmptySeq DEF RunCompletionLoop
  <2>2. start' \in Nat /\ start' = Len(transcript')
    BY <1>1, <2>1, LenProperties DEF RunCompletionLoop
  <2>3. /\ loopAt' = "prompt" /\ prompts' = 1 /\ continuationAttempt' = 0 /\ outcome' = NoOutcome
        /\ written' = FALSE /\ enabled' \in BOOLEAN /\ flag' \in {"absent", "kept"}
    BY <1>1 DEF RunCompletionLoop, Removed
  <2>4. LoopTypes'
    BY <2>1, <2>2, <2>3, NoOutcomeIsHonest
  <2>5. RunningInv'
    BY <2>2, <2>3 DEF RunningInv, CompletionAssumption
  <2>6. Counted'
    BY <2>3, NoOutcomeIsHonest
  <2> QED BY <2>4, <2>5, <2>6
<1>2. CASE PromptReturns
  <2>1. PICK m \in TurnMessages(IF loopCancelled THEN {TRUE} ELSE BOOLEAN) :
          transcript' = transcript \o m
    BY <1>2 DEF PromptReturns
  <2>2. m \in Seq(Messages) /\ Len(m) \in Nat \ {0}
    BY <2>1, TurnIsSeq
  <2>3. transcript' \in Seq(Messages) /\ Len(transcript') = Len(transcript) + Len(m)
    BY <2>1, <2>2, Extended
  <2>4. Len(transcript) \in Nat
    BY LenProperties
  <2>5. /\ loopAt = "prompt" /\ loopAt' = "check" /\ outcome = NoOutcome /\ outcome' = NoOutcome
        /\ UNCHANGED <<enabled, continuationAttempt, start, prompts>>
    BY <1>2 DEF PromptReturns, RunningInv
  <2>9. /\ flag' \in {"absent", "present", "kept"} /\ written' \in BOOLEAN
        /\ flag' = "present" => written'
    BY <1>2, FlagIsWritten DEF PromptReturns, RunningInv
  <2>6. LoopTypes'
    BY <2>3, <2>5, <2>9, NoOutcomeIsHonest
  <2>7. RunningInv'
    BY <2>2, <2>3, <2>4, <2>5, <2>9 DEF RunningInv
  <2>8. Counted'
    BY <2>5, NoOutcomeIsHonest
  <2> QED BY <2>6, <2>7, <2>8
<1>3. CASE PromptFails
  <2>1. PICK m \in TurnMessages(BOOLEAN) \cup {<<>>} : transcript' = transcript \o m
    BY <1>3 DEF PromptFails
  <2>2. m \in Seq(Messages)
    BY <2>1, TurnIsSeq, EmptySeq
  <2>3. transcript' \in Seq(Messages)
    BY <2>1, <2>2, Extended
  <2> QED BY <1>3, <2>3
             DEF PromptFails, RunningInv, ToolsWriteFlag, Error, NoOutcome, Outcomes, PromiseStatuses
<1>4. CASE ReturnPlan
  BY <1>4, PromiseIsStatus
     DEF ReturnPlan, RunningInv, Return, Returned, Outcomes, PromiseStatuses
<1>5. CASE ReturnCancelled
  BY <1>5 DEF ReturnCancelled, RunningInv, Return, Error, NoOutcome, Outcomes, PromiseStatuses
<1>6. CASE Iterate
  <2>1. /\ Verdict \in Outcomes
        /\ Verdict.byFile => flag = "present"
        /\ Verdict # NoOutcome => Verdict.kind = "outcome"
        /\ Verdict.status \in {"complete", "file", "stuck", "max"} => ~EndedInError
        /\ Verdict.status \in {"max", "file"} => Verdict.sent = continuationAttempt
        /\ Verdict = NoOutcome => /\ ~EndedInError /\ Said \cap {"complete", "stuck"} = {}
                                   /\ ~Capped
    BY <1>6, Decides DEF Iterate
  <2>2. UNCHANGED <<EndedInError, Said>> /\ UNCHANGED <<enabled, transcript, start, written>>
    BY <1>6 DEF Iterate, EndedInError, Said
  <2>3. CASE Verdict # NoOutcome
    <3>1. /\ loopAt = "check" /\ loopAt' = "idle" /\ outcome' = Verdict /\ flag' \in {"absent", "kept"}
          /\ UNCHANGED <<continuationAttempt, prompts>>
      BY <1>6, <2>3 DEF Iterate, Return, Removed
    <3>7. /\ enabled' = enabled /\ transcript' = transcript
          /\ start' = start /\ written' = written
      BY <2>2
    <3>8. loopAt' \in {"idle", "prompt", "check"} /\ flag' \in {"absent", "present", "kept"}
      BY <3>1
    <3>9. outcome' \in Outcomes
      BY <2>1, <3>1
    <3>2. LoopTypes'
      BY <3>1, <3>7, <3>8, <3>9, Zenon
    <3>3. prompts = continuationAttempt + 1 /\ (flag = "present" => written)
      BY <3>1 DEF RunningInv
    <3>10. Verdict.byFile => flag = "present"
      BY <2>1, Zenon
    <3>4. FlagIsFresh'
      BY <3>1, <3>3, <3>7, <3>10, Zenon
    <3>6. ErrorIsNotComplete'
      BY <2>1, <2>2, <3>1
    <3>5. ContinuesOnlyUnfinished'
      BY <2>1, <3>1, <3>3
    <3> QED BY <3>1, <3>2, <3>4, <3>5, <3>6 DEF RunningInv
  <2>4. CASE Verdict = NoOutcome
    BY <1>6, <2>1, <2>2, <2>4, LenProperties
       DEF Iterate, RunningInv, Removed, Capped, NoOutcome, CompletionAssumption
  <2> QED BY <2>3, <2>4
<1>7. CASE CancelLoop
  BY <1>7 DEF CancelLoop, RunningInv, EndedInError, Said
<1>8. CASE UNCHANGED loopVars
  BY <1>8 DEF loopVars, RunningInv, EndedInError, Said
<1> QED BY <1>1, <1>2, <1>3, <1>4, <1>5, <1>6, <1>7, <1>8 DEF LoopNext, PromptTurn, ContinueUntilComplete

\* The promises an outcome reports: only the first turn of a run can meet one that the
\* resumed session holds, and without completion there is no other turn.
OwnInv ==
  /\ loopAt # "idle" /\ prompts > 1 =>
       enabled /\ \A i \in 1..start : transcript[i].text \notin {"complete", "stuck"}
  /\ PromiseIsOwn

\* A status that is no bare "none" was said in the transcript.
LEMMA StatusWasSaid ==
  ASSUME LoopTypes, start \in Nat, start <= Len(transcript),
         PromiseStatusFromText \in {"complete", "stuck", "step"}
  PROVE  \/ Promised(start + 1, Len(transcript), PromiseStatusFromText)
         \/ Promised(1, start, PromiseStatusFromText)
<1>1. PromiseStatusFromText \in Said
  BY DEF PromiseStatusFromText
<1>2. PICK i \in DOMAIN transcript : transcript[i].text = PromiseStatusFromText
  BY <1>1 DEF Said
<1>3. i \in 1..Len(transcript) /\ Len(transcript) \in Nat
  BY <1>2, LenProperties DEF LoopTypes
<1>4. i \in 1..start \/ i \in (start + 1)..Len(transcript)
  BY <1>3
<1> QED BY <1>2, <1>4 DEF Promised

LEMMA OwnStep ==
  ASSUME CompletionAssumption, LoopInv, OwnInv, [LoopNext]_loopVars
  PROVE  OwnInv'
<1> USE DEF LoopInv
<1>1. ASSUME NEW plan \in BOOLEAN, NEW resumed \in BOOLEAN, RunCompletionLoop(plan, resumed)
      PROVE  OwnInv'
  BY <1>1, NoOutcomeIsHonest DEF RunCompletionLoop, OwnInv, PromiseIsOwn
<1>2. CASE PromptReturns
  <2>1. PICK m \in TurnMessages(IF loopCancelled THEN {TRUE} ELSE BOOLEAN) :
          transcript' = transcript \o m
    BY <1>2 DEF PromptReturns
  <2>2. m \in Seq(Messages)
    BY <2>1, TurnIsSeq
  <2>3. /\ loopAt = "prompt" /\ outcome' = NoOutcome /\ start' = start /\ prompts' = prompts
        /\ enabled' = enabled /\ start \in Nat /\ start <= Len(transcript)
    BY <1>2 DEF PromptReturns, RunningInv, LoopTypes
  <2>4. \A i \in 1..start : transcript'[i] = transcript[i]
    BY <2>1, <2>2, <2>3, ConcatProperties, LenProperties DEF LoopTypes
  <2> QED BY <2>3, <2>4, NoOutcomeIsHonest DEF OwnInv, PromiseIsOwn
<1>3. CASE PromptFails \/ ReturnCancelled
  BY <1>3, NoOutcomeIsHonest DEF PromptFails, ReturnCancelled, Return, OwnInv, PromiseIsOwn
<1>4. CASE ReturnPlan
  <2>1. /\ loopAt = "check" /\ ~enabled /\ loopAt' = "idle" /\ transcript' = transcript
        /\ start' = start /\ prompts' = prompts
        /\ outcome' = Returned(PromiseStatusFromText, 0, FALSE)
    BY <1>4 DEF ReturnPlan, Return
  <2>2. prompts = 1 /\ start \in Nat /\ start <= Len(transcript)
    BY <2>1 DEF OwnInv, RunningInv, LoopTypes
  <2>3. outcome'.status = PromiseStatusFromText
    BY <2>1 DEF Returned
  <2> QED BY <2>1, <2>2, <2>3, StatusWasSaid DEF OwnInv, PromiseIsOwn, Promised
<1>5. CASE Iterate
  <2>1. /\ loopAt = "check" /\ enabled /\ enabled' = enabled
        /\ transcript' = transcript /\ start' = start
    BY <1>5 DEF Iterate
  <2>2. start \in Nat /\ start <= Len(transcript) /\ prompts \in Nat \ {0}
    BY <2>1 DEF RunningInv, LoopTypes
  <2>3. CASE Verdict = NoOutcome
    <3>1. Said \cap {"complete", "stuck"} = {}
      BY <2>1, <2>3, Decides
    <3>2. \A i \in 1..start : transcript[i].text \notin {"complete", "stuck"}
      BY <2>2, <3>1, LenProperties DEF Said, LoopTypes
    <3>3. outcome' = outcome /\ outcome = NoOutcome
      BY <1>5, <2>3, <2>1 DEF Iterate, RunningInv
    <3> QED BY <2>1, <3>2, <3>3, NoOutcomeIsHonest DEF OwnInv, PromiseIsOwn
  <2>4. CASE Verdict # NoOutcome
    <3>1. loopAt' = "idle" /\ outcome' = Verdict /\ prompts' = prompts
      BY <1>5, <2>4 DEF Iterate, Return
    <3>2. Verdict.status \in {"complete", "stuck", "step"} =>
            /\ PromiseStatusFromText = Verdict.status
            /\ Verdict.status \in {"complete", "stuck"}
      BY DEF Verdict, Returned, NoOutcome
    <3>3. ASSUME Verdict.status \in {"complete", "stuck", "step"}
          PROVE  \/ Promised(start + 1, Len(transcript), Verdict.status)
                 \/ prompts = 1 /\ Promised(1, start, Verdict.status)
      <4>1. CASE Promised(start + 1, Len(transcript), Verdict.status)
        BY <4>1
      <4>2. CASE Promised(1, start, Verdict.status)
        <5>1. ~(prompts > 1)
          BY <2>1, <3>2, <3>3, <4>2 DEF Promised, OwnInv
        <5> QED BY <2>2, <4>2, <5>1
      <4> QED BY <2>2, <3>2, <3>3, <4>1, <4>2, StatusWasSaid
    <3>4. PromiseIsOwn'
      BY <2>1, <3>1, <3>3 DEF PromiseIsOwn, Promised
    <3> QED BY <3>1, <3>4 DEF OwnInv
  <2> QED BY <2>3, <2>4
<1>6. CASE CancelLoop
  BY <1>6 DEF CancelLoop, OwnInv, PromiseIsOwn, Promised
<1>7. CASE UNCHANGED loopVars
  BY <1>7 DEF loopVars, OwnInv, PromiseIsOwn, Promised
<1> QED BY <1>1, <1>2, <1>3, <1>4, <1>5, <1>6, <1>7 DEF LoopNext, PromptTurn, ContinueUntilComplete

\* The loop's invariant: while a run goes on nothing is returned, and what it counts and
\* the flag and the promises it may find are its own, those of a resumed session's first
\* turn excepted (RunCompletionLoop, ContinueUntilComplete).
THEOREM LoopInvariant == ASSUME CompletionAssumption PROVE LoopSpec => [](LoopInv /\ OwnInv)
<1>1. LoopInit => OwnInv
  BY NoOutcomeIsHonest DEF LoopInit, OwnInv, PromiseIsOwn
<1> QED BY <1>1, LoopInvInit, LoopInvStep, OwnStep, PTL DEF LoopSpec

\* A completion by file is this run's, and so is one by promise unless it ends a resumed
\* session's first turn; an error is no completion and only unfinished work is continued
\* (completion.go:85-253).
THEOREM LoopIsHonestAlways == ASSUME CompletionAssumption PROVE LoopSpec => []LoopIsHonest
<1>1. LoopInv /\ OwnInv => LoopIsHonest
  BY DEF LoopInv, Counted, OwnInv, LoopIsHonest
<1> QED BY <1>1, LoopInvariant, PTL

-----------------------------------------------------------------------------
(* The output of a command.                                                *)

\* While no operation on the file failed, every byte is either in the chunks that are kept
\* or in the file, and never in both.
KeptOnce ==
  faults = 0 => \/ tempFile = <<>> /\ rawChunks = raw
                \/ tempFile = <<raw>> /\ rawChunks = <<>>

OutputInv == raw \in Seq(STRING) /\ faults \in Nat /\ KeptOnce /\ LogIsComplete

\* The file takes the chunks that were kept and the piece that made them too many.
LEMMA SpillKeeps ==
  ASSUME OutputInv, NEW piece \in Seq(STRING), Spill(piece), raw' = raw \o piece
  PROVE  faults' \in Nat /\ (faults' = 0 => faults = 0 /\ tempFile' = <<raw'>> /\ rawChunks' = <<>>)
<1>1. CASE UNCHANGED faults /\ rawChunks' = <<>>
           /\ tempFile' = <<(IF tempFile = <<>> THEN rawChunks ELSE tempFile[1]) \o piece>>
  <2>1. faults = 0 => (IF tempFile = <<>> THEN rawChunks ELSE tempFile[1]) = raw
    <3>1. <<raw>> # <<>> /\ <<raw>>[1] = raw
      OBVIOUS
    <3> QED BY <3>1 DEF OutputInv, KeptOnce
  <2> QED BY <1>1, <2>1 DEF OutputInv
<1>2. CASE DiskFails
  BY <1>2 DEF DiskFails, OutputInv
<1> QED BY <1>1, <1>2 DEF Spill

LEMMA OutputStep ==
  ASSUME LogAssumption, OutputInv, [LogNext]_logVars
  PROVE  OutputInv'
<1>1. ASSUME NEW piece \in Pieces, AppendPiece(piece) PROVE OutputInv'
  <2>1. piece \in Seq(STRING) /\ raw' = raw \o piece /\ raw' \in Seq(STRING)
    BY <1>1 DEF LogAssumption, AppendPiece, OutputInv
  <2>2. logStep' = "running"
    BY <1>1 DEF AppendPiece
  <2>3. CASE Spill(piece)
    <3>1. faults' \in Nat /\ KeptOnce'
      BY <2>1, <2>3, SpillKeeps DEF KeptOnce
    <3> QED BY <2>1, <2>2, <3>1 DEF OutputInv, LogIsComplete
  <2>4. CASE tempFile = <<>> /\ rawChunks' = rawChunks \o piece /\ UNCHANGED <<tempFile, faults>>
    BY <2>1, <2>2, <2>4 DEF OutputInv, KeptOnce, LogIsComplete
  <2> QED BY <1>1, <2>3, <2>4 DEF AppendPiece
<1>2. <<>> \in Seq(STRING) /\ raw \o <<>> = raw
  BY DEF OutputInv
<1>3. CASE Finish
  <2>1. raw' = raw /\ logStep' = "finished"
    BY <1>3 DEF Finish
  <2>2. CASE Spill(<<>>)
    BY <1>2, <2>1, <2>2, SpillKeeps DEF OutputInv, KeptOnce, LogIsComplete
  <2>3. CASE UNCHANGED <<rawChunks, tempFile, faults>>
    BY <2>1, <2>3 DEF OutputInv, KeptOnce, LogIsComplete
  <2> QED BY <1>3, <2>2, <2>3 DEF Finish
<1>4. CASE Report
  <2> DEFINE persists == Truncated /\ tempFile = <<>>
  <2>1. raw' = raw
    BY <1>4 DEF Report
  <2>2. /\ snapshot' = IF faults' > faults THEN snapshot
                       ELSE [content |-> TailOf(SnapshotText), truncated |-> Truncated,
                             file |-> tempFile']
        /\ IF persists THEN Spill(<<>>) ELSE UNCHANGED <<rawChunks, tempFile, faults>>
    BY <1>4 DEF Report
  <2>3. faults' \in Nat /\ KeptOnce' /\ (faults' = 0 => faults = 0)
    <3>1. CASE persists
      BY <1>2, <2>1, <2>2, <3>1, SpillKeeps DEF KeptOnce
    <3>2. CASE ~ persists
      BY <2>1, <2>2, <3>2 DEF OutputInv, KeptOnce
    <3> QED BY <3>1, <3>2
  <2>4. faults' = 0 /\ Truncated => tempFile' # <<>>
    <3>1. CASE persists
      <4>1. faults' = 0 => tempFile' = <<raw'>>
        BY <1>2, <2>1, <2>2, <3>1, SpillKeeps
      <4>2. <<raw'>> # <<>>
        OBVIOUS
      <4> QED BY <4>1, <4>2
    <3>2. CASE ~ persists
      BY <2>2, <3>2
    <3> QED BY <3>1, <3>2
  <2>5. faults' = 0 => snapshot'.file = tempFile' /\ snapshot'.truncated = Truncated
    BY <2>2, <2>3
  <2>6. LogIsComplete'
    BY <2>3, <2>4, <2>5 DEF LogIsComplete, KeptOnce
  <2> QED BY <2>1, <2>3, <2>6 DEF OutputInv
<1>5. CASE UNCHANGED logVars
  BY <1>5 DEF logVars, OutputInv, KeptOnce, LogIsComplete
<1> QED BY <1>1, <1>3, <1>4, <1>5 DEF LogNext

\* Whatever the pieces are and whenever the output grows too long, the file that a
\* truncated output names holds the raw output whole, unless the disk failed
\* (ensureTempFile, Append, Finish, Snapshot).
THEOREM LogIsCompleteAlways ==
  ASSUME LogAssumption
  PROVE  LogSpec => []LogIsComplete
<1>1. LogInit => OutputInv
  BY DEF LogInit, OutputInv, KeptOnce, LogIsComplete
<1>2. OutputInv => LogIsComplete
  BY DEF OutputInv
<1> QED BY <1>1, <1>2, OutputStep, PTL DEF LogSpec

-----------------------------------------------------------------------------
(* Attachments.                                                            *)

\* A total is the last value of a recurrence.
Totals(f, sizes) ==
  /\ f \in [0..Len(sizes) -> Nat] /\ f[0] = 0
  /\ \A n \in 1..Len(sizes) : f[n] = f[n - 1] + sizes[n]

LEMMA TotalIs ==
  ASSUME NEW s \in Seq(Nat)
  PROVE  \E f : Totals(f, s) /\ TotalOf(s) = f[Len(s)]
<1> DEFINE N == Len(s)
           step == [x \in (1..N) \X Nat |-> x[2] + s[x[1]]]
           total[n \in 0..N] == IF n = 0 THEN 0 ELSE total[n - 1] + s[n]
<1>1. N \in Nat /\ \A n \in 1..N : s[n] \in Nat
  OBVIOUS
<1>2. /\ step \in [(1..N) \X Nat -> Nat]
      /\ \A n \in 1..N : \A q \in Nat : step[<<n, q>>] = q + s[n]
  BY <1>1
<1> HIDE DEF step
<1>3. PICK f \in [0..N -> Nat] : Solves(f, 0, step, N)
  <2> HIDE DEF N
  <2> QED BY <1>1, <1>2, RecursionExists
<1>4. Totals(f, s)
  <2>1. \A n \in 1..N : n - 1 \in 0..N /\ f[n - 1] \in Nat
    <3>1. \A n \in 1..N : n - 1 \in 0..N
      BY <1>1
    <3> HIDE DEF N
    <3> QED BY <1>3, <3>1
  <2> QED BY <1>2, <1>3, <2>1 DEF Solves, Totals
<1>5. f = [n \in 0..N |-> IF n = 0 THEN 0 ELSE f[n - 1] + s[n]]
  <2>1. \A n \in 0..N : f[n] = IF n = 0 THEN 0 ELSE f[n - 1] + s[n]
    BY <1>1, <1>4 DEF Totals
  <2> HIDE DEF N
  <2> QED BY <2>1
<1>6. total = [n \in 0..N |-> IF n = 0 THEN 0 ELSE total[n - 1] + s[n]]
  <2> HIDE DEF N
  <2> QED BY <1>5
<1> HIDE DEF total
<1>7. \A n \in 0..N : total[n] = f[n]
  <2>1. total[0] = 0 /\ \A n \in 1..N : total[n] = total[n - 1] + s[n]
    BY <1>1, <1>6
  <2>2. Alike(total, f, N)
    BY <1>4, <2>1 DEF Alike, Totals
  <2> HIDE DEF N
  <2> QED BY <1>1, <2>2, SameRecurrence
<1>8. TotalOf(s) = total[N]
  BY DEF TotalOf, total
<1> QED BY <1>1, <1>4, <1>7, <1>8

\* One more size adds to the total.
LEMMA TotalAppend ==
  ASSUME NEW s \in Seq(Nat), NEW x \in Nat
  PROVE  TotalOf(s) \in Nat /\ TotalOf(Append(s, x)) = TotalOf(s) + x
<1> DEFINE t == Append(s, x)
           N == Len(s)
<1>1. t \in Seq(Nat) /\ N \in Nat /\ Len(t) = N + 1 /\ t[N + 1] = x /\ \A n \in 1..N : t[n] = s[n]
  OBVIOUS
<1>2. PICK f : Totals(f, s) /\ TotalOf(s) = f[N]
  BY TotalIs
<1>3. PICK g : Totals(g, t) /\ TotalOf(t) = g[N + 1]
  <2> HIDE DEF t, N
  <2> QED BY <1>1, TotalIs
<1> HIDE DEF t
<1>4. Alike(f, g, N)
  <2>1. \A n \in 1..N : n \in 1..N + 1
    BY <1>1
  <2> QED BY <1>1, <1>2, <1>3, <2>1 DEF Alike, Totals
<1>5. f[N] = g[N]
  <2>1. \A n \in 0..N : f[n] = g[n]
    <3> HIDE DEF N
    <3> QED BY <1>1, <1>4, SameRecurrence
  <2> QED BY <1>1, <2>1
<1>6. g[N + 1] = g[N] + x
  <2>1. N + 1 \in 1..Len(t) /\ (N + 1) - 1 = N
    BY <1>1
  <2>2. g[N + 1] = g[(N + 1) - 1] + t[N + 1]
    BY <1>3, <2>1 DEF Totals
  <2> HIDE DEF N
  <2> QED BY <1>1, <2>1, <2>2
<1> QED BY <1>1, <1>2, <1>3, <1>5, <1>6 DEF Totals, t

LEMMA TotalOfNone == TotalOf(<<>>) = 0
<1>1. <<>> \in Seq(Nat) /\ Len(<<>>) = 0
  OBVIOUS
<1> QED BY <1>1, TotalIs DEF Totals

-----------------------------------------------------------------------------
(* The invariant of the attachments: what each Resolve has staged, what    *)
(* the turn was charged, and how far a request has come.                   *)

Files == [doc : Docs, part : {"raw", "text"}, size : Nat]
MediaTypes == {"pdf", "image", "ooxml"} \cup TextTypes
Blocks == [file : Files, type : MediaTypes \cup {"excerpt", "note"}, pages : Nat,
           endless : BOOLEAN]

\* Raw, of the size that is accepted, and shortened only if the server marked no end.
Staged(f, endless) ==
  /\ f \in Files /\ f.part = "raw" /\ f.size <= attachmentMax
  /\ ~ endless => f.size = f.doc.size

ResolveOK(r) ==
  \/ r.at \in {"idle", "refused", "attached"}
  \/ r.at = "copying" /\ r.doc \in Docs
  \/ /\ r \in [at : {"staged"}, file : Files, endless : BOOLEAN] /\ Staged(r.file, r.endless)
  \/ /\ r \in [at : {"valid", "rawStored", "resolved"}, file : Files, endless : BOOLEAN,
               type : MediaTypes]
     /\ Staged(r.file, r.endless) /\ r.type = Inspect(r.file)
     /\ r.at = "rawStored" => r.type = "ooxml"

ResolveInv ==
  resolves = [c \in Resolvers |-> resolves[c]] /\ \A c \in Resolvers : ResolveOK(resolves[c])

TreeInv == DOMAIN tree \subseteq Files /\ StoreIsSound

Charges == [k \in DOMAIN turn |-> Charge(turn[k])]

TurnInv ==
  /\ turn \in Seq(Blocks)
  /\ \A k \in DOMAIN turn : ~turn[k].endless /\ turn[k].file.part = "raw"
                            => turn[k].file.size = turn[k].file.doc.size
  /\ consumed \in Nat /\ consumed <= Window /\ consumed = TotalOf(Charges)

Encoded(sent) == [k \in DOMAIN sent |-> EncodedLen(sent[k].size)]

\* The request holds the attachments that its turn references before block n.
SentBefore(sent, n) ==
  /\ Len(sent) = Cardinality({j \in Referenced : j < n})
  /\ \A k \in Referenced : k < n => sent[Place(k)] = turn[k].file

\* The budget of a request covers what it holds and what was reserved.
DeliveryOK(d) ==
  /\ d \in [at : {"none", "block", "read", "failed", "sent"}, next : Nat \ {0},
            encoded : Nat, statted : Nat, sent : Seq(Files)]
  /\ TotalOf(Encoded(d.sent)) + (IF d.at = "read" THEN EncodedLen(d.statted) ELSE 0) <= d.encoded
  /\ d.encoded <= MaxPayload
  /\ d.at \in {"block", "read"} => SentBefore(d.sent, d.next)
  /\ d.at = "read" => d.next \in Referenced
  /\ d.at = "sent" => /\ Len(d.sent) = Cardinality(Referenced)
                     /\ \A k \in Referenced : d.sent[Place(k)] = turn[k].file

DeliveryInv ==
  DeliveryOK(delivery) /\ deliveries \in Nat /\ (delivery.at # "none" => deliveries # 0)

AttachInv == ResolveInv /\ TreeInv /\ TurnInv /\ DeliveryInv

\* Encoding keeps a size a natural.
LEMMA EncodedIsNat == \A n \in Nat : EncodedLen(n) \in Nat
BY DEF EncodedLen

LEMMA EncodedSizes ==
  ASSUME AttachmentsAssumption, NEW sent \in Seq(Files)
  PROVE  Encoded(sent) \in Seq(Nat)
<1>1. \A k \in DOMAIN sent : sent[k].size \in Nat
  <2>1. \A k \in DOMAIN sent : sent[k] \in Files
    OBVIOUS
  <2> QED BY <2>1 DEF Files
<1>2. \A k \in DOMAIN sent : EncodedLen(sent[k].size) \in Nat
  BY <1>1, EncodedIsNat
<1> QED BY <1>2 DEF Encoded

LEMMA EncodedAppend ==
  ASSUME AttachmentsAssumption, NEW sent \in Seq(Files), NEW f \in Files
  PROVE  TotalOf(Encoded(Append(sent, f))) = TotalOf(Encoded(sent)) + EncodedLen(f.size)
<1>1. Encoded(Append(sent, f)) = Append(Encoded(sent), EncodedLen(f.size))
  <2>1. DOMAIN Append(sent, f) = 1..Len(sent) + 1 /\ DOMAIN sent = 1..Len(sent)
    OBVIOUS
  <2>2. Len(Encoded(sent)) = Len(sent) /\ Encoded(sent) \in Seq(Nat)
    BY EncodedSizes DEF Encoded
  <2>3. DOMAIN Append(Encoded(sent), EncodedLen(f.size)) = 1..Len(sent) + 1
    BY <2>2
  <2>4. ASSUME NEW k \in 1..Len(sent) + 1
        PROVE  Append(Encoded(sent), EncodedLen(f.size))[k] = EncodedLen(Append(sent, f)[k].size)
    <3>1. CASE k = Len(sent) + 1
      BY <2>2, <3>1
    <3>2. CASE k \in 1..Len(sent)
      BY <2>2, <3>2 DEF Encoded
    <3>3. k = Len(sent) + 1 \/ k \in 1..Len(sent)
      OBVIOUS
    <3> QED BY <3>1, <3>2, <3>3
  <2>5. Append(Encoded(sent), EncodedLen(f.size)) \in Seq(Nat)
    BY <2>2, EncodedIsNat DEF Files
  <2> QED BY <2>1, <2>3, <2>4, <2>5 DEF Encoded
<1>2. EncodedLen(f.size) \in Nat /\ Encoded(sent) \in Seq(Nat)
  BY EncodedIsNat, EncodedSizes DEF Files
<1> QED BY <1>1, <1>2, TotalAppend

\* What a block may be charged is a natural.
LEMMA ChargeIsNat ==
  ASSUME AttachmentsAssumption, NEW b \in Blocks
  PROVE  Charge(b) \in Nat /\ BlockTokens(b) \in Nat
<1>1. b.pages \in Nat /\ b.file.size \in Nat /\ {ImageTokens, PageTokens, ExcerptTokens} \subseteq Nat
  BY DEF Blocks, Files, AttachmentsAssumption
<1>2. Max({b.pages, 1}) \in Nat
  BY <1>1 DEF Max
<1>3. PageTokens * Max({b.pages, 1}) \in Nat
  BY <1>1, <1>2
<1>4. BlockTokens(b) \in Nat
  <2> DEFINE p == PageTokens * Max({b.pages, 1})
  <2>1. p \in Nat
    BY <1>3
  <2> HIDE DEF p
  <2> QED BY <1>1, <2>1 DEF BlockTokens, p
<1> QED BY <1>1, <1>4 DEF Charge

LEMMA AttachInitOK == AttachmentsAssumption /\ AttachInit => AttachInv
<1> SUFFICES ASSUME AttachmentsAssumption, AttachInit PROVE AttachInv
  OBVIOUS
<1>1. ResolveInv
  BY DEF AttachInit, ResolveInv, ResolveOK, IdleResolve
<1>2. TreeInv
  BY DEF AttachInit, TreeInv, StoreIsSound
<1>3. Charges = <<>> /\ Encoded(<<>>) = <<>>
  BY DEF AttachInit, Charges, Encoded
<1>4. TurnInv
  BY <1>3, TotalOfNone DEF AttachInit, TurnInv, AttachmentsAssumption
<1>5. DeliveryInv
  BY <1>3, TotalOfNone DEF AttachInit, DeliveryInv, DeliveryOK, NoDelivery, AttachmentsAssumption
<1> QED BY <1>1, <1>2, <1>4, <1>5 DEF AttachInv

LEMMA ResolveMoves ==
  ASSUME ResolveInv, NEW c \in Resolvers, NEW r, ResolveOK(r),
         resolves' = [resolves EXCEPT ![c] = r]
  PROVE  ResolveInv'
<1>1. resolves' = [k \in Resolvers |-> IF k = c THEN r ELSE resolves[k]]
  BY DEF ResolveInv
<1> HIDE DEF ResolveOK
<1>2. \A k \in Resolvers : ResolveOK(resolves'[k])
  BY <1>1 DEF ResolveInv
<1> QED BY <1>1, <1>2 DEF ResolveInv

\* A verdict other than a refusal is a media type, and a package was read to its end.
LEMMA Verdicts ==
  ASSUME NEW f
  PROVE  /\ Inspect(f) = "refused" \/ Inspect(f) \in MediaTypes
         /\ Inspect(f) = "ooxml" => f.size = f.doc.size
BY DEF Inspect, MediaTypes, TextTypes

\* A connection that closes early is only taken for the end where no end was marked.
LEMMA CopyOK ==
  ASSUME AttachmentsAssumption, ResolveInv, NEW c \in Resolvers, CopyEnds(c)
  PROVE  ResolveInv'
<1> DEFINE r == resolves[c]
<1>1. r.at = "copying" /\ r.doc \in Docs /\ r.doc.size \in Nat /\ attachmentMax \in Nat
  BY DEF CopyEnds, ResolveInv, ResolveOK, AttachmentsAssumption
<1>2. PICK n \in 0..r.doc.size :
        LET count == Min({n, CopyLimit})
            cut == n < r.doc.size
            readFails == cut /\ n < CopyLimit /\ r.framing # "close"
            wrongLength == r.framing = "length" /\ r.doc.size # count
        IN resolves' = [resolves EXCEPT ![c] =
             IF readFails \/ count > attachmentMax \/ wrongLength THEN Refused
             ELSE [at |-> "staged", file |-> File(r.doc, "raw", count),
                   endless |-> r.framing = "close"]]
  BY DEF CopyEnds
<1> DEFINE count == Min({n, CopyLimit})
<1>3. CopyLimit = attachmentMax + 1 /\ n \in Nat /\ n <= r.doc.size
  BY <1>1 DEF CopyLimit
<1>4. count \in Nat /\ count = IF n <= CopyLimit THEN n ELSE CopyLimit
  BY <1>1, <1>3 DEF Min
<1> DEFINE fails == \/ n < r.doc.size /\ n < CopyLimit /\ r.framing # "close"
                    \/ count > attachmentMax
                    \/ r.framing = "length" /\ r.doc.size # count
<1>5. CASE fails
  <2>1. resolves' = [resolves EXCEPT ![c] = Refused]
    BY <1>2, <1>5
  <2>2. ResolveOK(Refused)
    BY DEF ResolveOK, Refused
  <2> QED BY <2>1, <2>2, ResolveMoves
<1>6. CASE ~ fails
  <2> DEFINE f == File(r.doc, "raw", count)
             endless == (r.framing = "close")
             new == [at |-> "staged", file |-> f, endless |-> endless]
  <2>1. resolves' = [resolves EXCEPT ![c] = new]
    BY <1>2, <1>6
  <2>2. f \in Files /\ f.part = "raw" /\ f.size = count /\ f.doc = r.doc
    BY <1>1, <1>4 DEF File, Files
  <2>3. count <= attachmentMax /\ (r.framing # "close" => count = r.doc.size)
    <3> HIDE DEF count
    <3> QED BY <1>1, <1>3, <1>4, <1>6
  <2>4. Staged(f, endless)
    <3> HIDE DEF f, count
    <3> QED BY <2>2, <2>3 DEF Staged
  <2>5. ResolveOK(new)
    <3> HIDE DEF f
    <3> QED BY <2>2, <2>4 DEF ResolveOK
  <2> QED BY <2>1, <2>5, ResolveMoves
<1> QED BY <1>5, <1>6

LEMMA ValidateOK ==
  ASSUME ResolveInv, NEW c \in Resolvers, Validate(c)
  PROVE  ResolveInv'
<1> DEFINE r == resolves[c]
           type == Inspect(r.file)
           new == [at |-> "valid", file |-> r.file, endless |-> r.endless, type |-> type]
<1>1. /\ r.at = "staged"
      /\ resolves' = [resolves EXCEPT ![c] = IF type = "refused" THEN Refused ELSE new]
  BY DEF Validate
<1>2. r.file \in Files /\ r.endless \in BOOLEAN /\ Staged(r.file, r.endless)
  BY <1>1 DEF ResolveInv, ResolveOK
<1>3. CASE type = "refused"
  <2>1. ResolveOK(Refused)
    BY DEF ResolveOK, Refused
  <2> QED BY <1>1, <1>3, <2>1, ResolveMoves
<1>4. CASE type # "refused"
  <2>1. type \in MediaTypes
    BY <1>4, Verdicts
  <2>2. ResolveOK(new)
    <3> HIDE DEF type
    <3>1. new.at = "valid" /\ new.file = r.file /\ new.endless = r.endless /\ new.type = type
      OBVIOUS
    <3>2. new \in [at : {"valid", "rawStored", "resolved"}, file : Files, endless : BOOLEAN,
                   type : MediaTypes]
      BY <1>2, <2>1
    <3> QED BY <1>2, <3>1, <3>2 DEF ResolveOK, type
  <2> QED BY <1>1, <1>4, <2>2, ResolveMoves
<1> QED BY <1>3, <1>4

\* What is known of a call that has been validated.
Valid(r) ==
  /\ r \in [at : {"valid", "rawStored", "resolved"}, file : Files, endless : BOOLEAN,
            type : MediaTypes]
  /\ Staged(r.file, r.endless) /\ r.type = Inspect(r.file)

LEMMA ValidCalls ==
  ASSUME ResolveInv, NEW c \in Resolvers, resolves[c].at \in {"valid", "rawStored", "resolved"}
  PROVE  Valid(resolves[c]) /\ (resolves[c].at = "rawStored" => resolves[c].type = "ooxml")
BY DEF ResolveInv, ResolveOK, Valid

\* Promote: what joins the store is sound, and the call goes on.
LEMMA GoesTo ==
  ASSUME ResolveInv, NEW c \in Resolvers, Valid(resolves[c]),
         NEW place \in {"rawStored", "resolved"}, place = "rawStored" => resolves[c].type = "ooxml",
         resolves' = [resolves EXCEPT ![c].at = place]
  PROVE  ResolveInv'
<1> DEFINE r == resolves[c]
           new == [r EXCEPT !.at = place]
<1>1. resolves' = [resolves EXCEPT ![c] = new]
  OBVIOUS
<1>2. /\ new \in [at : {"valid", "rawStored", "resolved"}, file : Files, endless : BOOLEAN,
                  type : MediaTypes]
      /\ new.at = place /\ new.file = r.file /\ new.endless = r.endless /\ new.type = r.type
  BY DEF Valid
<1>3. ResolveOK(new)
  <2> HIDE DEF new
  <2> QED BY <1>2 DEF ResolveOK, Valid
<1> QED BY <1>1, <1>3, ResolveMoves

LEMMA PromotedOK ==
  ASSUME TreeInv, NEW f \in Files, tree' = Promoted(f, f),
         f.part = "raw" => f.size <= attachmentMax /\ Inspect(f) # "refused",
         f.part = "text" => Inspect(File(f.doc, "raw", f.doc.size)) = "ooxml"
  PROVE  TreeInv'
<1>1. /\ DOMAIN tree' = DOMAIN tree \cup {f}
      /\ \A h \in DOMAIN tree' : tree'[h] = IF h = f THEN f ELSE tree[h]
  BY DEF Promoted
<1> QED BY <1>1 DEF TreeInv, StoreIsSound

LEMMA PromoteRawOK ==
  ASSUME ResolveInv, TreeInv, NEW c \in Resolvers, PromoteRaw(c)
  PROVE  ResolveInv' /\ TreeInv'
<1> DEFINE r == resolves[c]
<1>1. /\ r.at = "valid" /\ tree' = Promoted(r.file, r.file)
      /\ resolves' = [resolves EXCEPT ![c].at = IF r.type = "ooxml" THEN "rawStored" ELSE "resolved"]
  BY DEF PromoteRaw
<1>2. Valid(r)
  BY <1>1, ValidCalls
<1>3. ResolveInv'
  <2>1. CASE r.type = "ooxml"
    BY <1>1, <1>2, <2>1, GoesTo
  <2>2. CASE r.type # "ooxml"
    BY <1>1, <1>2, <2>2, GoesTo
  <2> QED BY <2>1, <2>2
<1>4. r.file \in Files /\ r.file.part = "raw" /\ r.file.size <= attachmentMax
      /\ Inspect(r.file) \in MediaTypes
  BY <1>2 DEF Valid, Staged
<1>5. "refused" \notin MediaTypes
  BY DEF MediaTypes, TextTypes
<1>6. TreeInv'
  BY <1>1, <1>4, <1>5, PromotedOK
<1> QED BY <1>3, <1>6

LEMMA PromoteTextOK ==
  ASSUME AttachmentsAssumption, ResolveInv, TreeInv, NEW c \in Resolvers, PromoteText(c)
  PROVE  ResolveInv' /\ TreeInv'
<1> DEFINE r == resolves[c]
           f == Extracted(r.file)
<1>1. /\ r.at = "rawStored" /\ tree' = Promoted(f, f)
      /\ resolves' = [resolves EXCEPT ![c].at = "resolved"]
  BY DEF PromoteText
<1>2. Valid(r) /\ r.type = "ooxml"
  BY <1>1, ValidCalls
<1>3. ResolveInv'
  BY <1>1, <1>2, GoesTo
<1>4. r.file \in Files /\ r.file.part = "raw" /\ Inspect(r.file) = "ooxml"
  BY <1>2 DEF Valid, Staged
<1>5. r.file = File(r.file.doc, "raw", r.file.doc.size)
  BY <1>4, Verdicts DEF File, Files
<1>6. f \in Files /\ f.part = "text" /\ f.doc = r.file.doc
  BY <1>4 DEF Extracted, File, Files, AttachmentsAssumption
<1>7. TreeInv'
  <2> HIDE DEF f
  <2> QED BY <1>1, <1>4, <1>5, <1>6, PromotedOK
<1> QED BY <1>3, <1>7

\* What the resolved file is delivered as is whole unless the server marked no end.
LEMMA DeliveredBlock ==
  ASSUME AttachmentsAssumption, NEW r, Valid(r)
  PROVE  /\ Delivered(r) \in [file : Files, type : MediaTypes, pages : Nat, endless : BOOLEAN]
         /\ ~ Delivered(r).endless /\ Delivered(r).file.part = "raw"
              => Delivered(r).file.size = Delivered(r).file.doc.size
<1>1. /\ r.file \in Files /\ r.file.part = "raw" /\ r.endless \in BOOLEAN /\ r.type \in MediaTypes
      /\ ~ r.endless => r.file.size = r.file.doc.size
  BY DEF Valid, Staged
<1>2. Extracted(r.file) \in Files /\ Extracted(r.file).part = "text"
  BY <1>1 DEF Extracted, File, Files, AttachmentsAssumption
<1>3. r.file.doc.pages \in Nat
  BY <1>1 DEF Files, AttachmentsAssumption
<1>4. "text" \in MediaTypes
  BY DEF MediaTypes, TextTypes
<1> QED BY <1>1, <1>2, <1>3, <1>4 DEF Delivered

LEMMA ChargesAre ==
  ASSUME AttachmentsAssumption, turn \in Seq(Blocks)
  PROVE  Charges \in Seq(Nat) /\ Len(Charges) = Len(turn)
<1>1. \A k \in 1..Len(turn) : Charge(turn[k]) \in Nat
  BY ChargeIsNat
<1> QED BY <1>1 DEF Charges

\* A block is admitted for what is left of the window, and the charge is kept.
LEMMA AttachOK ==
  ASSUME AttachmentsAssumption, ResolveInv, TurnInv, NEW c \in Resolvers, Attach(c)
  PROVE  ResolveInv' /\ TurnInv'
<1> DEFINE block == Delivered(resolves[c])
           whole == BlockTokens(block) <= Remaining /\ (block.type = "text" => block.file.size <= InlineMax)
           excerpt == block.type = "text" /\ ExcerptTokens <= Remaining /\ block.file \in DOMAIN tree
           kind == CASE whole -> block.type [] ~whole /\ excerpt -> "excerpt" [] OTHER -> "note"
           new == [block EXCEPT !.type = kind]
           cost == CASE whole -> BlockTokens(block) [] ~whole /\ excerpt -> ExcerptTokens [] OTHER -> 0
<1>1. /\ resolves[c].at = "resolved" /\ resolves' = [resolves EXCEPT ![c] = [at |-> "attached"]]
      /\ turn' = Append(turn, new) /\ consumed' = consumed + cost
  BY DEF Attach, Admit
<1>2. Valid(resolves[c])
  BY <1>1, ValidCalls
<1>3. ResolveInv'
  <2>1. ResolveOK([at |-> "attached"])
    BY DEF ResolveOK
  <2> QED BY <1>1, <2>1, ResolveMoves
<1>4. /\ block \in [file : Files, type : MediaTypes, pages : Nat, endless : BOOLEAN]
      /\ ~ block.endless /\ block.file.part = "raw" => block.file.size = block.file.doc.size
  BY <1>2, DeliveredBlock
<1> HIDE DEF block
<1>5. block \in Blocks /\ block.type \notin {"excerpt", "note"}
  BY <1>4 DEF Blocks, MediaTypes, TextTypes
<1>6. kind \in MediaTypes \cup {"excerpt", "note"}
  BY <1>4
<1> HIDE DEF kind
<1>7. /\ new \in Blocks /\ new.file = block.file /\ new.endless = block.endless /\ new.type = kind
      /\ new.pages = block.pages
  BY <1>5, <1>6 DEF Blocks
<1>8. BlockTokens(block) \in Nat /\ ExcerptTokens \in Nat /\ Window \in Nat
  BY <1>5, ChargeIsNat DEF AttachmentsAssumption
<1>9. Charge(new) = cost
  <2> HIDE DEF new
  <2>1. CASE whole
    <3>1. kind = block.type
      BY <2>1 DEF kind
    <3>2. BlockTokens(new) = BlockTokens(block)
      BY <1>7, <3>1 DEF BlockTokens
    <3> HIDE DEF whole
    <3> QED BY <1>5, <1>7, <2>1, <3>1, <3>2 DEF Charge
  <2>2. CASE ~ whole /\ excerpt
    <3>1. kind = "excerpt"
      BY <2>2 DEF kind
    <3> HIDE DEF whole, excerpt
    <3> QED BY <1>7, <2>2, <3>1 DEF Charge
  <2>3. CASE ~ whole /\ ~ excerpt
    <3>1. kind = "note"
      BY <2>3 DEF kind
    <3> HIDE DEF whole, excerpt
    <3> QED BY <1>7, <2>3, <3>1 DEF Charge
  <2> QED BY <2>1, <2>2, <2>3
<1>10. cost \in Nat /\ consumed + cost <= Window
  BY <1>8 DEF Remaining, TurnInv
<1> HIDE DEF new, cost
<1>11. turn \in Seq(Blocks) /\ Len(turn) \in Nat /\ DOMAIN turn = 1..Len(turn)
       /\ Charges \in Seq(Nat) /\ Len(Charges) = Len(turn)
  BY ChargesAre DEF TurnInv
<1>12. /\ turn' \in Seq(Blocks) /\ DOMAIN turn' = 1..Len(turn) + 1 /\ turn'[Len(turn) + 1] = new
       /\ \A k \in 1..Len(turn) : turn'[k] = turn[k]
  BY <1>1, <1>7, <1>11
<1>13. Charges' = Append(Charges, cost)
  <2>1. Append(Charges, cost) \in Seq(Nat) /\ DOMAIN Append(Charges, cost) = 1..Len(turn) + 1
    BY <1>10, <1>11
  <2>2. Charges' = [k \in 1..Len(turn) + 1 |-> Charge(turn'[k])]
    BY <1>12 DEF Charges
  <2>3. ASSUME NEW k \in 1..Len(turn) + 1 PROVE Charge(turn'[k]) = Append(Charges, cost)[k]
    <3>1. CASE k = Len(turn) + 1
      BY <1>9, <1>10, <1>11, <1>12, <3>1
    <3>2. CASE k # Len(turn) + 1
      <4>1. k \in 1..Len(turn) /\ Charges[k] = Charge(turn[k])
        BY <1>11, <3>2 DEF Charges
      <4> QED BY <1>10, <1>11, <1>12, <4>1
    <3> QED BY <3>1, <3>2
  <2>4. Append(Charges, cost) = [k \in 1..Len(turn) + 1 |-> Append(Charges, cost)[k]]
    <3> DEFINE t == Append(Charges, cost)
    <3>1. t \in Seq(Nat) /\ DOMAIN t = 1..Len(turn) + 1
      BY <2>1
    <3> HIDE DEF t
    <3>2. t = [k \in 1..Len(turn) + 1 |-> t[k]]
      BY <3>1
    <3> QED BY <3>2 DEF t
  <2> QED BY <2>2, <2>3, <2>4
<1>14. consumed' = TotalOf(Charges')
  BY <1>1, <1>10, <1>11, <1>13, TotalAppend DEF TurnInv
<1>15. \A k \in DOMAIN turn' : ~turn'[k].endless /\ turn'[k].file.part = "raw"
                               => turn'[k].file.size = turn'[k].file.doc.size
  BY <1>4, <1>7, <1>11, <1>12 DEF TurnInv
<1>16. TurnInv'
  BY <1>1, <1>10, <1>12, <1>14, <1>15 DEF TurnInv
<1> QED BY <1>3, <1>16

\* The blocks before the next one grow by one place when the next one is a reference.
LEMMA Places ==
  ASSUME turn \in Seq(Blocks), NEW n \in Nat \ {0}
  PROVE  /\ IsFiniteSet({j \in Referenced : j < n})
         /\ Cardinality({j \in Referenced : j < n}) \in Nat
         /\ n \in Referenced =>
              /\ Cardinality({j \in Referenced : j < n + 1})
                   = Cardinality({j \in Referenced : j < n}) + 1
              /\ Place(n) = Cardinality({j \in Referenced : j < n}) + 1
         /\ n \notin Referenced => {j \in Referenced : j < n + 1} = {j \in Referenced : j < n}
         /\ \A k \in Referenced : k < n => Place(k) \in 1..Cardinality({j \in Referenced : j < n})
<1> DEFINE R == {j \in Referenced : j < n}
<1>1. Referenced \subseteq 1..Len(turn) /\ Len(turn) \in Nat /\ Referenced \subseteq Nat
  BY DEF Referenced
<1>2. IsFiniteSet(Referenced)
  <2>1. IsFiniteSet(1..Len(turn))
    BY <1>1, FS_Interval
  <2> QED BY <1>1, <2>1, FS_Subset
<1>3. IsFiniteSet(R) /\ Cardinality(R) \in Nat
  <2>1. R \subseteq Referenced
    OBVIOUS
  <2>2. IsFiniteSet(R)
    BY <1>2, <2>1, FS_Subset
  <2> QED BY <2>2, FS_CardinalityType
<1>4. ASSUME n \in Referenced
      PROVE  /\ Cardinality({j \in Referenced : j < n + 1}) = Cardinality(R) + 1
             /\ Place(n) = Cardinality(R) + 1
  <2>1. {j \in Referenced : j < n + 1} = R \cup {n} /\ {j \in Referenced : j <= n} = R \cup {n}
    <3>1. \A j \in Referenced : (j < n + 1 <=> j \in R \cup {n}) /\ (j <= n <=> j \in R \cup {n})
      BY <1>1
    <3>2. R \cup {n} \subseteq Referenced
      BY <1>4
    <3> HIDE DEF R
    <3>3. \A S : S \subseteq Referenced => {j \in Referenced : j \in S} = S
      OBVIOUS
    <3> QED BY <3>1, <3>2, <3>3
  <2>2. n \notin R
    BY <1>1
  <2>3. Cardinality(R \cup {n}) = Cardinality(R) + 1
    <3> HIDE DEF R
    <3> QED BY <1>3, <2>2, FS_AddElement
  <2> QED BY <2>1, <2>3 DEF Place
<1>5. n \notin Referenced => {j \in Referenced : j < n + 1} = R
  <2>1. \A j \in Referenced : j < n + 1 <=> j < n \/ j = n
    BY <1>1
  <2> QED BY <2>1
<1>6. ASSUME NEW k \in Referenced, k < n PROVE Place(k) \in 1..Cardinality(R)
  <2> DEFINE P == {j \in Referenced : j <= k}
  <2>1. P \subseteq R /\ k \in P
    <3>1. k <= k /\ \A j \in Referenced : j <= k => j < n
      BY <1>1, <1>6
    <3> QED BY <1>6, <3>1
  <2>2. IsFiniteSet(P) /\ Cardinality(P) <= Cardinality(R)
    <3> HIDE DEF P, R
    <3> QED BY <1>3, <2>1, FS_Subset
  <2>3. Cardinality(P) \in Nat /\ Cardinality(P) # 0
    <3> HIDE DEF P
    <3> QED BY <2>1, <2>2, FS_CardinalityType, FS_EmptySet
  <2>4. Place(k) = Cardinality(P)
    BY DEF Place
  <2> HIDE DEF P, R
  <2> QED BY <1>3, <2>2, <2>3, <2>4
<1> HIDE DEF R
<1> QED BY <1>3, <1>4, <1>5, <1>6 DEF R

LEMMA DeliveryMoves ==
  ASSUME turn' = turn, NEW d, DeliveryOK(d), delivery' = d, deliveries' \in Nat,
         d.at # "none" => deliveries' # 0
  PROVE  DeliveryInv'
<1>1. Referenced' = Referenced
  BY DEF Referenced
<1>2. \A k : Place(k)' = Place(k)
  BY <1>1 DEF Place
<1>3. \A sent, n : SentBefore(sent, n)' <=> SentBefore(sent, n)
  BY <1>1, <1>2 DEF SentBefore
<1>4. DeliveryOK(delivery)'
  BY <1>1, <1>2, <1>3 DEF DeliveryOK
<1> QED BY <1>4 DEF DeliveryInv

\* While no request was made the turn may change.
LEMMA NothingDelivered ==
  ASSUME DeliveryInv, delivery.at = "none", delivery' = delivery, deliveries' = deliveries
  PROVE  DeliveryInv'
BY DEF DeliveryInv, DeliveryOK

LEMMA Totalled ==
  ASSUME AttachmentsAssumption, NEW sent \in Seq(Files)
  PROVE  TotalOf(Encoded(sent)) \in Nat
BY EncodedSizes, TotalAppend

\* A request that fails has sent nothing more than it reserved.
LEMMA Fails ==
  ASSUME AttachmentsAssumption, DeliveryInv, turn' = turn, deliveries' = deliveries,
         delivery.at # "none", delivery' = [delivery EXCEPT !.at = "failed"]
  PROVE  DeliveryInv'
<1> DEFINE d == [delivery EXCEPT !.at = "failed"]
<1>1. /\ d.at = "failed" /\ d.next = delivery.next /\ d.encoded = delivery.encoded
      /\ d.statted = delivery.statted /\ d.sent = delivery.sent
      /\ d \in [at : {"none", "block", "read", "failed", "sent"}, next : Nat \ {0},
                encoded : Nat, statted : Nat, sent : Seq(Files)]
  BY DEF DeliveryInv, DeliveryOK
<1>2. TotalOf(Encoded(delivery.sent)) \in Nat /\ EncodedLen(delivery.statted) \in Nat
  BY Totalled, EncodedIsNat DEF DeliveryInv, DeliveryOK
<1>3. TotalOf(Encoded(delivery.sent)) <= delivery.encoded /\ delivery.encoded <= MaxPayload
  <2>1. delivery.encoded \in Nat
    BY DEF DeliveryInv, DeliveryOK
  <2> QED BY <1>2, <2>1 DEF DeliveryInv, DeliveryOK
<1> HIDE DEF d
<1>4. DeliveryOK(d)
  BY <1>1, <1>2, <1>3 DEF DeliveryOK
<1> QED BY <1>1, <1>4, DeliveryMoves DEF DeliveryInv, d

LEMMA RequestStartOK ==
  ASSUME AttachmentsAssumption, DeliveryInv, TurnInv, RequestStart
  PROVE  DeliveryInv'
<1> DEFINE d == [NoDelivery EXCEPT !.at = "block"]
<1>1. delivery' = d /\ deliveries' = deliveries + 1 /\ turn' = turn
  BY DEF RequestStart
<1>2. d = [at |-> "block", next |-> 1, encoded |-> 0, statted |-> 0, sent |-> <<>>]
  BY DEF NoDelivery
<1>3. TotalOf(Encoded(<<>>)) = 0
  <2>1. Encoded(<<>>) = <<>>
    BY DEF Encoded
  <2> QED BY <2>1, TotalOfNone
<1>4. SentBefore(<<>>, 1)
  <2>1. \A j \in Referenced : ~ (j < 1)
    BY DEF Referenced, TurnInv
  <2>2. {j \in Referenced : j < 1} = {}
    BY <2>1
  <2> QED BY <2>1, <2>2, FS_EmptySet DEF SentBefore
<1> HIDE DEF d
<1>5. DeliveryOK(d)
  BY <1>2, <1>3, <1>4 DEF DeliveryOK, AttachmentsAssumption
<1> QED BY <1>1, <1>2, <1>5, DeliveryMoves DEF DeliveryInv

\* Text of the turn is passed over, a reference is paid for from the budget.
LEMMA ConvertOK ==
  ASSUME AttachmentsAssumption, DeliveryInv, TurnInv, TreeInv, ConvertBlock
  PROVE  DeliveryInv'
<1> DEFINE block == turn[delivery.next]
           sent == delivery.sent
           n == delivery.next
           size == tree[block.file].size
<1>1. /\ delivery.at = "block" /\ n <= Len(turn) /\ turn' = turn /\ deliveries' = deliveries
      /\ delivery' = CASE block.type \in {"excerpt", "note"} -> [delivery EXCEPT !.next = @ + 1]
                       [] block.type \notin {"excerpt", "note"} /\ Supported(block)
                          /\ block.file \in DOMAIN tree -> Reserve(size)
                       [] OTHER -> [delivery EXCEPT !.at = "failed"]
  BY DEF ConvertBlock
<1>2. /\ delivery \in [at : {"none", "block", "read", "failed", "sent"}, next : Nat \ {0},
                       encoded : Nat, statted : Nat, sent : Seq(Files)]
      /\ TotalOf(Encoded(sent)) <= delivery.encoded /\ delivery.encoded <= MaxPayload
      /\ SentBefore(sent, n) /\ deliveries \in Nat /\ deliveries # 0
  <2>1. TotalOf(Encoded(sent)) \in Nat
    BY Totalled DEF DeliveryInv, DeliveryOK
  <2> QED BY <1>1, <2>1 DEF DeliveryInv, DeliveryOK
<1>3. n \in 1..Len(turn) /\ n \in Nat \ {0} /\ TotalOf(Encoded(sent)) \in Nat
      /\ DOMAIN turn = 1..Len(turn)
  BY <1>1, <1>2, Totalled DEF TurnInv
<1>4. CASE block.type \in {"excerpt", "note"}
  <2> DEFINE d == [delivery EXCEPT !.next = @ + 1]
  <2>1. delivery' = d
    BY <1>1, <1>4
  <2>2. d = [delivery EXCEPT !.next = n + 1] /\ d.at = "block" /\ d.next = n + 1
        /\ d.sent = sent /\ d.encoded = delivery.encoded
        /\ d \in [at : {"none", "block", "read", "failed", "sent"}, next : Nat \ {0},
                  encoded : Nat, statted : Nat, sent : Seq(Files)]
    BY <1>1, <1>2
  <2>3. n \notin Referenced
    BY <1>3, <1>4 DEF Referenced
  <2>4. {j \in Referenced : j < n + 1} = {j \in Referenced : j < n}
    BY <1>3, <2>3, Places DEF TurnInv
  <2>5. SentBefore(sent, n + 1)
    BY <1>2, <2>4 DEF SentBefore
  <2> HIDE DEF d
  <2>6. DeliveryOK(d)
    BY <1>2, <1>3, <2>2, <2>5 DEF DeliveryOK
  <2> QED BY <1>1, <1>2, <2>1, <2>6, DeliveryMoves
<1>5. CASE block.type \notin {"excerpt", "note"} /\ Supported(block) /\ block.file \in DOMAIN tree
  <2>1. delivery' = Reserve(size)
    BY <1>1, <1>5
  <2>2. size \in Nat /\ EncodedLen(size) \in Nat
    <3>1. size \in Nat
      BY <1>5 DEF TreeInv, StoreIsSound, Files
    <3> QED BY <3>1, EncodedIsNat
  <2>3. CASE size > MaxPayload \/ EncodedLen(size) > MaxPayload - delivery.encoded
    <3>1. delivery' = [delivery EXCEPT !.at = "failed"]
      BY <2>1, <2>3 DEF Reserve
    <3> QED BY <1>1, <3>1, Fails
  <2>4. CASE ~ (size > MaxPayload \/ EncodedLen(size) > MaxPayload - delivery.encoded)
    <3> DEFINE cost == EncodedLen(size)
               d == [delivery EXCEPT !.at = "read", !.statted = size, !.encoded = @ + cost]
    <3>1. delivery' = d
      BY <2>1, <2>4 DEF Reserve
    <3>2. cost \in Nat /\ delivery.encoded + cost <= MaxPayload
      BY <1>2, <2>2, <2>4 DEF AttachmentsAssumption
    <3>3. n \in Referenced
      BY <1>3, <1>5 DEF Referenced
    <3> HIDE DEF size
    <3>4. cost = EncodedLen(size)
      OBVIOUS
    <3> HIDE DEF cost
    <3>5. /\ d.at = "read" /\ d.next = n /\ d.sent = sent /\ d.encoded = delivery.encoded + cost
          /\ d.statted = size
          /\ d \in [at : {"none", "block", "read", "failed", "sent"}, next : Nat \ {0},
                    encoded : Nat, statted : Nat, sent : Seq(Files)]
      <4>1. delivery.encoded + cost \in Nat
        BY <1>2, <3>2
      <4>2. d = [delivery EXCEPT !.at = "read", !.statted = size,
                                 !.encoded = delivery.encoded + cost]
        BY <1>2
      <4> HIDE DEF d
      <4> QED BY <1>2, <2>2, <4>1, <4>2
    <3> HIDE DEF d
    <3>6. TotalOf(Encoded(sent)) + cost <= delivery.encoded + cost
      BY <1>2, <1>3, <3>2
    <3>7. DeliveryOK(d)
      BY <1>2, <3>2, <3>3, <3>4, <3>5, <3>6 DEF DeliveryOK
    <3> QED BY <1>1, <1>2, <3>1, <3>7, DeliveryMoves
  <2> QED BY <2>3, <2>4
<1>6. CASE ~ (block.type \in {"excerpt", "note"})
           /\ ~ (Supported(block) /\ block.file \in DOMAIN tree)
  <2>1. delivery' = [delivery EXCEPT !.at = "failed"]
    BY <1>1, <1>6
  <2> QED BY <1>1, <2>1, Fails
<1> QED BY <1>4, <1>5, <1>6

\* A blob is read to the size that was reserved for it, and takes the next place.
LEMMA ReadOK ==
  ASSUME AttachmentsAssumption, DeliveryInv, TurnInv, TreeInv, ReadBlob
  PROVE  DeliveryInv'
<1> DEFINE block == turn[delivery.next]
           sent == delivery.sent
           n == delivery.next
           f == tree[block.file]
           readable == /\ block.file \in DOMAIN tree
                       /\ f.size = delivery.statted
                       /\ ~(block.type = "text" /\ block.file.size > 0
                            /\ block.file.doc.kind = "octet")
           d == [delivery EXCEPT !.at = "block", !.next = @ + 1, !.sent = Append(@, f)]
<1>1. /\ delivery.at = "read" /\ turn' = turn /\ deliveries' = deliveries
      /\ delivery' = IF readable THEN d ELSE [delivery EXCEPT !.at = "failed"]
  BY DEF ReadBlob
<1>2. CASE ~ readable
  BY <1>1, <1>2, Fails
<1>3. CASE readable
  <2>1. /\ delivery \in [at : {"none", "block", "read", "failed", "sent"}, next : Nat \ {0},
                         encoded : Nat, statted : Nat, sent : Seq(Files)]
        /\ TotalOf(Encoded(sent)) + EncodedLen(delivery.statted) <= delivery.encoded
        /\ delivery.encoded <= MaxPayload
        /\ SentBefore(sent, n) /\ n \in Referenced /\ deliveries \in Nat /\ deliveries # 0
    BY <1>1 DEF DeliveryInv, DeliveryOK
  <2>2. f = block.file /\ f \in Files /\ f.size = delivery.statted
    BY <1>3 DEF TreeInv, StoreIsSound
  <2> HIDE DEF f
  <2>3. /\ d.at = "block" /\ d.next = n + 1 /\ d.sent = Append(sent, f)
        /\ d.encoded = delivery.encoded
        /\ d \in [at : {"none", "block", "read", "failed", "sent"}, next : Nat \ {0},
                  encoded : Nat, statted : Nat, sent : Seq(Files)]
    <3>1. n + 1 \in Nat \ {0} /\ Append(sent, f) \in Seq(Files)
      BY <2>1, <2>2
    <3>2. d = [delivery EXCEPT !.at = "block", !.next = n + 1, !.sent = Append(sent, f)]
      BY <2>1
    <3> HIDE DEF d
    <3> QED BY <2>1, <3>1, <3>2
  <2>4. TotalOf(Encoded(Append(sent, f))) <= delivery.encoded
        /\ TotalOf(Encoded(Append(sent, f))) \in Nat
    <3>1. Append(sent, f) \in Seq(Files) /\ sent \in Seq(Files)
      BY <2>1, <2>2
    <3>2. TotalOf(Encoded(Append(sent, f))) = TotalOf(Encoded(sent)) + EncodedLen(f.size)
      BY <2>2, <3>1, EncodedAppend
    <3>3. TotalOf(Encoded(Append(sent, f))) \in Nat
      BY <3>1, Totalled
    <3> QED BY <2>1, <2>2, <3>2, <3>3
  <2>5. SentBefore(Append(sent, f), n + 1)
    <3>1. n \in Nat \ {0} /\ n \in DOMAIN turn /\ Referenced \subseteq Nat
      BY <2>1 DEF Referenced, TurnInv
    <3>2. /\ Cardinality({j \in Referenced : j < n + 1}) = Len(sent) + 1
          /\ Place(n) = Len(sent) + 1
          /\ \A k \in Referenced : k < n => Place(k) \in 1..Len(sent)
      BY <2>1, <3>1, Places DEF TurnInv, SentBefore
    <3>3. /\ Len(Append(sent, f)) = Len(sent) + 1 /\ Append(sent, f)[Len(sent) + 1] = f
          /\ \A i \in 1..Len(sent) : Append(sent, f)[i] = sent[i]
      BY <2>1, <2>2
    <3>4. ASSUME NEW k \in Referenced, k < n + 1
          PROVE  Append(sent, f)[Place(k)] = turn[k].file
      <4>1. CASE k = n
        BY <2>2, <3>2, <3>3, <4>1
      <4>2. CASE k # n
        <5>1. k < n
          BY <3>1, <3>4, <4>2
        <5> QED BY <2>1, <3>2, <3>3, <5>1 DEF SentBefore
      <4> QED BY <4>1, <4>2
    <3> QED BY <3>2, <3>3, <3>4 DEF SentBefore
  <2> HIDE DEF d
  <2>6. DeliveryOK(d)
    BY <2>1, <2>3, <2>4, <2>5 DEF DeliveryOK
  <2> QED BY <1>1, <1>3, <2>1, <2>6, DeliveryMoves
<1> QED BY <1>2, <1>3

LEMMA SentOK ==
  ASSUME AttachmentsAssumption, DeliveryInv, TurnInv, RequestSent
  PROVE  DeliveryInv'
<1> DEFINE d == [delivery EXCEPT !.at = "sent"]
           sent == delivery.sent
<1>1. /\ delivery.at = "block" /\ delivery.next > Len(turn) /\ turn' = turn
      /\ deliveries' = deliveries /\ delivery' = d
  BY DEF RequestSent
<1>2. /\ delivery \in [at : {"none", "block", "read", "failed", "sent"}, next : Nat \ {0},
                       encoded : Nat, statted : Nat, sent : Seq(Files)]
      /\ SentBefore(sent, delivery.next) /\ deliveries \in Nat /\ deliveries # 0
      /\ delivery.encoded <= MaxPayload
  BY <1>1 DEF DeliveryInv, DeliveryOK
<1>3. /\ d.at = "sent" /\ d.next = delivery.next /\ d.sent = sent /\ d.encoded = delivery.encoded
      /\ d \in [at : {"none", "block", "read", "failed", "sent"}, next : Nat \ {0},
                encoded : Nat, statted : Nat, sent : Seq(Files)]
  BY <1>2
<1>4. TotalOf(Encoded(sent)) \in Nat /\ TotalOf(Encoded(sent)) + 0 <= delivery.encoded
  BY <1>1, <1>2, Totalled DEF DeliveryInv, DeliveryOK
<1>5. \A k \in Referenced : k < delivery.next
  BY <1>1, <1>2 DEF Referenced, TurnInv
<1>6. {j \in Referenced : j < delivery.next} = Referenced
  BY <1>5
<1>7. Len(sent) = Cardinality(Referenced) /\ \A k \in Referenced : sent[Place(k)] = turn[k].file
  BY <1>2, <1>5, <1>6 DEF SentBefore
<1> HIDE DEF d
<1>8. DeliveryOK(d)
  BY <1>2, <1>3, <1>4, <1>7 DEF DeliveryOK
<1> QED BY <1>1, <1>2, <1>8, DeliveryMoves

\* What an action leaves alone.
LEMMA TurnKept ==
  ASSUME TurnInv, turn' = turn, consumed' = consumed
  PROVE  TurnInv'
BY DEF TurnInv, Charges

LEMMA DeliveryKept ==
  ASSUME DeliveryInv, turn' = turn, delivery' = delivery, deliveries' = deliveries
  PROVE  DeliveryInv'
BY DeliveryMoves DEF DeliveryInv

LEMMA TreeKept ==
  ASSUME TreeInv, DOMAIN tree' \subseteq DOMAIN tree, \A h \in DOMAIN tree' : tree'[h] = tree[h]
  PROVE  TreeInv'
BY DEF TreeInv, StoreIsSound

\* A step of one call of Resolve.
LEMMA ResolveStepOK ==
  ASSUME AttachmentsAssumption, AttachInv, NEW c \in Resolvers, ResolveStep(c)
  PROVE  AttachInv'
<1> USE DEF AttachInv
<1>1. CASE ResolveStart(c)
  <2>1. PICK d \in Docs, framing \in {"length", "chunked", "close"} :
          resolves' = [resolves EXCEPT ![c] = [at |-> "copying", doc |-> d, framing |-> framing]]
    BY <1>1 DEF ResolveStart
  <2>2. ResolveOK([at |-> "copying", doc |-> d, framing |-> framing])
    BY DEF ResolveOK
  <2>3. ResolveInv'
    BY <2>1, <2>2, ResolveMoves
  <2> QED BY <1>1, <2>3, TurnKept, DeliveryKept, TreeKept DEF ResolveStart
<1>2. CASE CopyEnds(c)
  BY <1>2, CopyOK, TurnKept, DeliveryKept, TreeKept DEF CopyEnds
<1>3. CASE Validate(c)
  BY <1>3, ValidateOK, TurnKept, DeliveryKept, TreeKept DEF Validate
<1>4. CASE PromoteRaw(c)
  BY <1>4, PromoteRawOK, TurnKept, DeliveryKept DEF PromoteRaw
<1>5. CASE PromoteText(c)
  BY <1>5, PromoteTextOK, TurnKept, DeliveryKept DEF PromoteText
<1>6. CASE StoreFails(c)
  <2>1. ResolveOK(Refused)
    BY DEF ResolveOK, Refused
  <2>2. ResolveInv'
    BY <1>6, <2>1, ResolveMoves DEF StoreFails
  <2> QED BY <1>6, <2>2, TurnKept, DeliveryKept, TreeKept DEF StoreFails
<1>7. CASE Attach(c)
  <2>1. delivery.at = "none"
    BY <1>7 DEF Attach, DeliveryInv
  <2> QED BY <1>7, <2>1, AttachOK, NothingDelivered, TreeKept DEF Attach
<1> QED BY <1>1, <1>2, <1>3, <1>4, <1>5, <1>6, <1>7 DEF ResolveStep

LEMMA RestartOK ==
  ASSUME AttachmentsAssumption, AttachInv, ProcessRestart
  PROVE  AttachInv'
<1>1. /\ resolves' = [c \in Resolvers |-> IdleResolve] /\ delivery' = NoDelivery
      /\ turn' = (IF deliveries = 0 THEN <<>> ELSE turn)
      /\ consumed' = (IF deliveries = 0 THEN 0 ELSE consumed)
      /\ tree' = tree /\ deliveries' = deliveries
  BY DEF ProcessRestart
<1>2. ResolveInv'
  BY <1>1 DEF ResolveInv, ResolveOK, IdleResolve
<1>3. TreeInv'
  BY <1>1, TreeKept DEF AttachInv
<1>4. TurnInv'
  <2>1. CASE deliveries = 0
    <3>1. turn' = <<>> /\ consumed' = 0
      BY <1>1, <2>1
    <3>2. Charges' = <<>>
      BY <3>1 DEF Charges
    <3> QED BY <3>1, <3>2, TotalOfNone DEF TurnInv, AttachmentsAssumption
  <2>2. CASE deliveries # 0
    BY <1>1, <2>2, TurnKept DEF AttachInv
  <2> QED BY <2>1, <2>2
<1>5. DeliveryInv'
  <2>1. Encoded(<<>>) = <<>>
    BY DEF Encoded
  <2>2. delivery' = [at |-> "none", next |-> 1, encoded |-> 0, statted |-> 0, sent |-> <<>>]
    BY <1>1 DEF NoDelivery
  <2> QED BY <1>1, <2>1, <2>2, TotalOfNone
          DEF AttachInv, DeliveryInv, DeliveryOK, AttachmentsAssumption
<1> QED BY <1>2, <1>3, <1>4, <1>5 DEF AttachInv

LEMMA AttachStep ==
  ASSUME AttachmentsAssumption, AttachInv, [AttachNext]_attachVars
  PROVE  AttachInv'
<1>1. ASSUME NEW c \in Resolvers, ResolveStep(c) PROVE AttachInv'
  BY <1>1, ResolveStepOK
<1>2. ASSUME UNCHANGED resolves PROVE ResolveInv => ResolveInv'
  BY <1>2 DEF ResolveInv
<1>3. CASE RequestStart
  BY <1>2, <1>3, RequestStartOK, TurnKept, TreeKept DEF RequestStart, AttachInv
<1>4. CASE ConvertBlock
  BY <1>2, <1>4, ConvertOK, TurnKept, TreeKept DEF ConvertBlock, AttachInv
<1>5. CASE ReadBlob
  BY <1>2, <1>5, ReadOK, TurnKept, TreeKept DEF ReadBlob, AttachInv
<1>6. CASE RequestSent
  BY <1>2, <1>6, SentOK, TurnKept, TreeKept DEF RequestSent, AttachInv
<1>7. ASSUME NEW f \in DOMAIN tree, Delete(f) PROVE AttachInv'
  <2>1. TreeInv'
    BY <1>7, TreeKept DEF Delete, AttachInv
  <2> QED BY <1>2, <1>7, <2>1, TurnKept, DeliveryKept DEF Delete, AttachInv
<1>8. CASE ProcessRestart
  BY <1>8, RestartOK
<1>9. CASE UNCHANGED attachVars
  BY <1>2, <1>9, TurnKept, DeliveryKept, TreeKept DEF attachVars, AttachInv
<1> QED BY <1>1, <1>3, <1>4, <1>5, <1>6, <1>7, <1>8, <1>9 DEF AttachNext

\* For any documents, limits and concurrent calls, whatever is cut, deleted or restarted:
\* the store is sound, a turn fits the window, and a request is whole or is not sent
\* (Resolve, Promote, mediaRefToBlocks, convertMessages).
THEOREM AttachmentsHoldAlways ==
  ASSUME AttachmentsAssumption
  PROVE  AttachSpec => []AttachmentsHold
<1>1. ASSUME AttachInv PROVE AttachmentsHold
  <2>1. StoreIsSound
    BY <1>1 DEF AttachInv, TreeInv
  <2>2. TurnFits
    BY <1>1 DEF AttachInv, TurnInv, TurnFits, Charges
  <2>3. TotalOf(Encoded(delivery.sent)) <= MaxPayload
    <3>1. /\ TotalOf(Encoded(delivery.sent)) \in Nat /\ EncodedLen(delivery.statted) \in Nat
          /\ delivery.encoded \in Nat /\ MaxPayload \in Nat
      BY <1>1, Totalled, EncodedIsNat
         DEF AttachInv, DeliveryInv, DeliveryOK, AttachmentsAssumption
    <3> QED BY <1>1, <3>1 DEF AttachInv, DeliveryInv, DeliveryOK
  <2>4. RequestIsWhole
    BY <1>1, <2>3 DEF AttachInv, DeliveryInv, DeliveryOK, RequestIsWhole, Encoded
  <2> QED BY <2>1, <2>2, <2>4 DEF AttachmentsHold
<1> QED BY <1>1, AttachInitOK, AttachStep, PTL DEF AttachSpec

-----------------------------------------------------------------------------
(* The conversation.                                                       *)

IsSeq(s) == \E S : s \in Seq(S)

UserFields == {"role", "n", "size", "content", "sum", "files"}

MessageOK(m) ==
  /\ m.n \in Nat /\ m.role \in {"user", "assistant", "toolResult"}
  /\ IsUser(m) => m.sum \subseteq Nat /\ DOMAIN m = UserFields

\* A history that a conversation of top messages may have: in order, led by the summary if
\* there is one, which tells of what is older than all the others.
Sound(s, top) ==
  /\ IsSeq(s) /\ \A i \in 1..Len(s) : MessageOK(s[i])
  /\ AllTold(s) \subseteq 1..top
  /\ \A i, j \in 1..Len(s) : i < j => s[i].n < s[j].n
  /\ \A i \in 1..Len(s) : IsUser(s[i]) =>
       /\ i # 1 => s[i].sum = {}
       /\ \A x \in s[i].sum : \A j \in 1..Len(s) : s[j].n # 0 => x < s[j].n
  /\ s # <<>> => ~ IsResult(s[1])

ConversationInv ==
  /\ numbered \in Nat /\ base \in Nat /\ base <= numbered
  /\ Sound(msgs, numbered) /\ Sound(seed, numbered)
  /\ AllTold(msgs) = AllTold(seed) \cup (base + 1)..numbered
  /\ phase # "idle" => msgs # <<>>

LEMMA SeqFacts ==
  ASSUME NEW s, IsSeq(s)
  PROVE  Len(s) \in Nat /\ DOMAIN s = 1..Len(s)
BY DEF IsSeq

LEMMA EmptyIs ==
  ASSUME NEW s, IsSeq(s), Len(s) = 0
  PROVE  s = <<>>
<1>1. PICK S : s \in Seq(S)
  BY DEF IsSeq
<1> QED BY <1>1, EmptySeq

LEMMA Concats ==
  ASSUME NEW s, NEW t, IsSeq(s), IsSeq(t)
  PROVE  /\ IsSeq(s \o t) /\ Len(s \o t) = Len(s) + Len(t)
         /\ \A i \in 1..Len(s) : (s \o t)[i] = s[i]
         /\ \A i \in 1..Len(t) : (s \o t)[Len(s) + i] = t[i]
<1>1. PICK S, T : s \in Seq(S) /\ t \in Seq(T)
  BY DEF IsSeq
<1> DEFINE U == S \cup T
<1>2. s \in Seq(U) /\ t \in Seq(U)
  BY <1>1
<1> HIDE DEF U
<1>3. s \o t \in Seq(U) /\ Len(s \o t) = Len(s) + Len(t)
  BY <1>2
<1>4. \A i \in 1..Len(s) : (s \o t)[i] = s[i]
  BY <1>2
<1>5. \A i \in 1..Len(t) : (s \o t)[Len(s) + i] = t[i]
  BY <1>2
<1> QED BY <1>3, <1>4, <1>5 DEF IsSeq

LEMMA SubSeqIs ==
  ASSUME NEW s, IsSeq(s), NEW a \in Nat \ {0}, NEW b \in Nat, b <= Len(s)
  PROVE  /\ IsSeq(SubSeq(s, a, b)) /\ Len(SubSeq(s, a, b)) = IF a <= b THEN b - a + 1 ELSE 0
         /\ \A i \in 1..Len(SubSeq(s, a, b)) : SubSeq(s, a, b)[i] = s[a + i - 1]
<1>1. PICK S : s \in Seq(S)
  BY DEF IsSeq
<1>2. SubSeq(s, a, b) \in Seq(S)
  BY <1>1
<1>3. Len(SubSeq(s, a, b)) = IF a <= b THEN b - a + 1 ELSE 0
  BY <1>1
<1>4. \A i \in 1..Len(SubSeq(s, a, b)) : SubSeq(s, a, b)[i] = s[a + i - 1]
  BY <1>1
<1> QED BY <1>2, <1>3, <1>4 DEF IsSeq

\* What the messages from a to b tell.
ToldIn(s, a, b) == UNION {Told(s[i]) : i \in a..b}

LEMMA ToldOf ==
  ASSUME NEW s, IsSeq(s)
  PROVE  AllTold(s) = ToldIn(s, 1, Len(s))
BY SeqFacts DEF AllTold, ToldIn

LEMMA ToldSplits ==
  ASSUME NEW s, NEW a \in Int, NEW b \in Int, NEW c \in Int, a <= b + 1, b <= c
  PROVE  ToldIn(s, a, c) = ToldIn(s, a, b) \cup ToldIn(s, b + 1, c)
<1>1. a..c = (a..b) \cup ((b + 1)..c)
  OBVIOUS
<1> QED BY <1>1 DEF ToldIn

LEMMA ToldSubSeq ==
  ASSUME NEW s, IsSeq(s), NEW a \in Nat \ {0}, NEW b \in Nat, b <= Len(s)
  PROVE  AllTold(SubSeq(s, a, b)) = ToldIn(s, a, b)
<1> DEFINE t == SubSeq(s, a, b)
<1>1. /\ IsSeq(t) /\ Len(t) = (IF a <= b THEN b - a + 1 ELSE 0)
      /\ \A i \in 1..Len(t) : t[i] = s[a + i - 1]
  BY SubSeqIs
<1> HIDE DEF t
<1>2. AllTold(t) = ToldIn(t, 1, Len(t))
  BY <1>1, ToldOf
<1>3. \A i \in 1..Len(t) : a + i - 1 \in a..b /\ t[i] = s[a + i - 1]
  BY <1>1
<1>4. \A k \in a..b : k - a + 1 \in 1..Len(t) /\ t[k - a + 1] = s[k]
  <2>1. \A k \in a..b : k - a + 1 \in 1..Len(t) /\ a + (k - a + 1) - 1 = k
    BY <1>1
  <2> QED BY <1>1, <2>1
<1>5. ToldIn(t, 1, Len(t)) = ToldIn(s, a, b)
  BY <1>3, <1>4 DEF ToldIn
<1> QED BY <1>2, <1>5 DEF t

LEMMA ToldConcat ==
  ASSUME NEW s, NEW t, IsSeq(s), IsSeq(t)
  PROVE  AllTold(s \o t) = AllTold(s) \cup AllTold(t)
<1> DEFINE u == s \o t
           L == Len(s)
           M == Len(t)
<1>1. /\ IsSeq(u) /\ Len(u) = L + M /\ L \in Nat /\ M \in Nat
      /\ \A i \in 1..L : u[i] = s[i]
      /\ \A i \in 1..M : u[L + i] = t[i]
  BY Concats, SeqFacts
<1> HIDE DEF u
<1>2. AllTold(u) = ToldIn(u, 1, L + M) /\ AllTold(s) = ToldIn(s, 1, L) /\ AllTold(t) = ToldIn(t, 1, M)
  BY <1>1, ToldOf
<1> HIDE DEF L, M
<1>3. ToldIn(u, 1, L + M) = ToldIn(u, 1, L) \cup ToldIn(u, L + 1, L + M)
  BY <1>1, ToldSplits
<1>4. ToldIn(u, 1, L) = ToldIn(s, 1, L)
  BY <1>1 DEF ToldIn
<1>5. ToldIn(u, L + 1, L + M) = ToldIn(t, 1, M)
  <2>1. \A k \in (L + 1)..(L + M) : k - L \in 1..M /\ u[k] = t[k - L]
    <3>1. \A k \in (L + 1)..(L + M) : k - L \in 1..M /\ L + (k - L) = k
      BY <1>1
    <3> QED BY <1>1, <3>1
  <2>2. \A i \in 1..M : L + i \in (L + 1)..(L + M) /\ u[L + i] = t[i]
    BY <1>1
  <2> QED BY <2>1, <2>2 DEF ToldIn
<1> QED BY <1>2, <1>3, <1>4, <1>5 DEF u

\* The next messages of a conversation, numbered on from top.
NextMessages(t, top) ==
  /\ IsSeq(t) /\ \A k \in 1..Len(t) : /\ MessageOK(t[k]) /\ t[k].n = top + k
                                      /\ IsUser(t[k]) => t[k].sum = {}

\* What comes next is newer than all that was told.
LEMMA Grows ==
  ASSUME NEW top \in Nat, NEW s, Sound(s, top), NEW t, NextMessages(t, top),
         s = <<>> /\ t # <<>> => ~ IsResult(t[1])
  PROVE  /\ Sound(s \o t, top + Len(t)) /\ Len(t) \in Nat
         /\ AllTold(s \o t) = AllTold(s) \cup (top + 1)..(top + Len(t))
<1> DEFINE u == s \o t
           L == Len(s)
           M == Len(t)
<1>1. IsSeq(s) /\ IsSeq(t)
  BY DEF Sound, NextMessages
<1>2. /\ IsSeq(u) /\ Len(u) = L + M /\ L \in Nat /\ M \in Nat
      /\ \A i \in 1..L : u[i] = s[i]
      /\ \A i \in 1..M : u[L + i] = t[i]
  BY <1>1, Concats, SeqFacts
<1>3. AllTold(u) = AllTold(s) \cup AllTold(t)
  BY <1>1, ToldConcat
<1>4. AllTold(t) = (top + 1)..(top + M)
  <2>1. AllTold(t) = ToldIn(t, 1, M)
    BY <1>1, ToldOf
  <2>2. \A k \in 1..M : Told(t[k]) = {top + k}
    <3>1. ASSUME NEW k \in 1..M PROVE Told(t[k]) = {top + k}
      <4>1. t[k].n = top + k /\ top + k # 0 /\ (IsUser(t[k]) => t[k].sum = {})
        BY <1>2 DEF NextMessages
      <4> QED BY <4>1 DEF Told
    <3> QED BY <3>1
  <2>3. \A x \in (top + 1)..(top + M) : x - top \in 1..M /\ x = top + (x - top)
    BY <1>2
  <2>4. \A k \in 1..M : top + k \in (top + 1)..(top + M)
    BY <1>2
  <2> HIDE DEF M
  <2>5. ToldIn(t, 1, M) = UNION {{top + k} : k \in 1..M}
    BY <2>2 DEF ToldIn
  <2>6. UNION {{top + k} : k \in 1..M} = {top + k : k \in 1..M}
    BY Zenon
  <2>7. {top + k : k \in 1..M} = (top + 1)..(top + M)
    BY <2>3, <2>4
  <2> QED BY <2>1, <2>5, <2>6, <2>7
<1>5. \A i \in 1..(L + M) : i \in 1..L \/ (i - L \in 1..M /\ i = L + (i - L))
  BY <1>2
<1>6. \A i \in 1..L : /\ MessageOK(s[i]) /\ s[i].n \in Nat /\ s[i].n <= top
                      /\ IsUser(s[i]) => \A x \in s[i].sum : x \in Nat /\ x <= top
  <2>1. AllTold(s) = ToldIn(s, 1, L) /\ AllTold(s) \subseteq 1..top
    BY <1>1, ToldOf DEF Sound
  <2>2. ASSUME NEW i \in 1..L
        PROVE  /\ MessageOK(s[i]) /\ s[i].n \in Nat /\ s[i].n <= top
               /\ IsUser(s[i]) => \A x \in s[i].sum : x \in Nat /\ x <= top
    <3>1. MessageOK(s[i]) /\ Told(s[i]) \subseteq 1..top
      BY <2>1 DEF Sound, ToldIn
    <3>2. s[i].n \in Nat
      BY <3>1 DEF MessageOK
    <3>3. s[i].n = 0 \/ s[i].n \in 1..top
      BY <3>1 DEF Told
    <3>4. IsUser(s[i]) => s[i].sum \subseteq 1..top
      BY <3>1 DEF Told
    <3> QED BY <3>1, <3>2, <3>3, <3>4
  <2> QED BY <2>2
<1>7. \A k \in 1..M : MessageOK(t[k]) /\ t[k].n = top + k /\ (IsUser(t[k]) => t[k].sum = {})
  BY DEF NextMessages
<1> HIDE DEF u
<1>8. \A i \in 1..(L + M) :
        \/ i \in 1..L /\ u[i] = s[i]
        \/ i - L \in 1..M /\ i = L + (i - L) /\ u[i] = t[i - L] /\ u[i].n = top + (i - L)
           /\ (IsUser(u[i]) => u[i].sum = {}) /\ MessageOK(u[i])
  <2>1. \A k \in 1..M : u[L + k] = t[k]
    BY <1>2
  <2> HIDE DEF L, M
  <2> QED BY <1>2, <1>5, <1>7, <2>1
<1>9. Sound(u, top + M)
  <2>1. \A i \in 1..(L + M) : MessageOK(u[i])
    BY <1>6, <1>8
  <2>2. AllTold(u) \subseteq 1..(top + M)
    BY <1>2, <1>3, <1>4 DEF Sound
  <2>3. ASSUME NEW i \in 1..(L + M), NEW j \in 1..(L + M), i < j PROVE u[i].n < u[j].n
    <3>1. CASE i \in 1..L /\ u[i] = s[i] /\ j \in 1..L /\ u[j] = s[j]
      BY <2>3, <3>1 DEF Sound
    <3>2. CASE i \in 1..L /\ u[i] = s[i] /\ j - L \in 1..M /\ u[j].n = top + (j - L)
      BY <1>2, <1>6, <3>2
    <3>3. CASE i - L \in 1..M /\ u[i].n = top + (i - L) /\ j - L \in 1..M /\ u[j].n = top + (j - L)
      BY <1>2, <2>3, <3>3
    <3>4. ~ (i - L \in 1..M /\ j \in 1..L)
      BY <1>2, <2>3
    <3> HIDE DEF L, M
    <3> QED BY <1>8, <3>1, <3>2, <3>3, <3>4
  <2>4. ASSUME NEW i \in 1..(L + M), IsUser(u[i])
        PROVE  /\ i # 1 => u[i].sum = {}
               /\ \A x \in u[i].sum : \A j \in 1..(L + M) : u[j].n # 0 => x < u[j].n
    <3>1. CASE IsUser(u[i]) /\ u[i].sum = {}
      BY <3>1
    <3>2. CASE i \in 1..L /\ u[i] = s[i]
      <4>1. /\ i # 1 => s[i].sum = {}
            /\ \A x \in s[i].sum : \A j \in 1..L : s[j].n # 0 => x < s[j].n
        BY <2>4, <3>2 DEF Sound
      <4>2. \A x \in s[i].sum : x \in Nat /\ x <= top
        BY <1>6, <2>4, <3>2
      <4>3. ASSUME NEW x \in s[i].sum, NEW j \in 1..(L + M), u[j].n # 0 PROVE x < u[j].n
        <5>1. CASE j \in 1..L /\ u[j] = s[j]
          BY <4>1, <4>3, <5>1
        <5>2. CASE j - L \in 1..M /\ u[j].n = top + (j - L)
          BY <1>2, <4>2, <5>2
        <5> HIDE DEF L, M
        <5> QED BY <1>8, <5>1, <5>2
      <4> QED BY <3>2, <4>1, <4>3
    <3> HIDE DEF L, M
    <3> QED BY <1>8, <2>4, <3>1, <3>2
  <2>5. u # <<>> => ~ IsResult(u[1])
    <3>1. CASE L = 0
      <4>1. s = <<>>
        BY <1>1, <3>1, EmptyIs
      <4>2. M = 0 \/ (1 \in 1..M /\ u[L + 1] = t[1] /\ L + 1 = 1)
        BY <1>2, <3>1
      <4>3. M # 0 => t # <<>>
        OBVIOUS
      <4>4. M = 0 => u = <<>>
        <5>1. M = 0 => Len(u) = 0
          BY <1>2, <3>1
        <5> QED BY <1>2, <5>1, EmptyIs
      <4> HIDE DEF L, M
      <4> QED BY <4>1, <4>2, <4>3, <4>4
    <3>2. CASE L # 0
      <4>1. 1 \in 1..L /\ s # <<>>
        BY <1>2, <3>2
      <4>2. u[1] = s[1]
        BY <1>2, <4>1
      <4> QED BY <4>1, <4>2 DEF Sound
    <3> QED BY <3>1, <3>2
  <2> HIDE DEF L, M
  <2> QED BY <1>2, <2>1, <2>2, <2>3, <2>4, <2>5 DEF Sound
<1> QED BY <1>2, <1>3, <1>4, <1>9 DEF u

\* A history that was persisted up to one of its messages.
LEMMA PrefixIsSound ==
  ASSUME NEW top \in Nat, NEW s, Sound(s, top), NEW n \in 0..Len(s)
  PROVE  Sound(SubSeq(s, 1, n), top)
<1> DEFINE t == SubSeq(s, 1, n)
<1>1. IsSeq(s) /\ Len(s) \in Nat /\ n \in Nat /\ n <= Len(s)
  BY SeqFacts DEF Sound
<1>2. IsSeq(t) /\ Len(t) = n /\ \A i \in 1..n : t[i] = s[i]
  <2>1. /\ IsSeq(t) /\ Len(t) = IF 1 <= n THEN n - 1 + 1 ELSE 0
        /\ \A i \in 1..Len(t) : t[i] = s[1 + i - 1]
    BY <1>1, SubSeqIs
  <2>2. (IF 1 <= n THEN n - 1 + 1 ELSE 0) = n /\ \A i \in 1..n : 1 + i - 1 = i
    BY <1>1
  <2> HIDE DEF t
  <2> QED BY <2>1, <2>2
<1>3. AllTold(t) \subseteq AllTold(s)
  <2>1. AllTold(t) = ToldIn(s, 1, n) /\ AllTold(s) = ToldIn(s, 1, Len(s))
    BY <1>1, ToldSubSeq, ToldOf
  <2>2. 1..n \subseteq 1..Len(s)
    BY <1>1
  <2> QED BY <2>1, <2>2 DEF ToldIn
<1> HIDE DEF t
<1>4. \A i \in 1..n : i \in 1..Len(s)
  BY <1>1
<1>5. t # <<>> => s # <<>> /\ t[1] = s[1]
  <2>1. CASE n = 0
    <3>1. t = <<>>
      BY <1>2, <2>1, EmptyIs
    <3> QED BY <3>1
  <2>2. CASE n # 0
    <3>1. 1 \in 1..n /\ Len(s) # 0
      BY <1>1, <2>2
    <3> QED BY <1>2, <3>1
  <2> QED BY <2>1, <2>2
<1> QED BY <1>2, <1>3, <1>4, <1>5 DEF Sound, t

LEMMA MinOf ==
  ASSUME NEW T, T \subseteq Nat, T # {}
  PROVE  Min(T) \in T /\ \A y \in T : Min(T) <= y
BY NatMin DEF Min

LEMMA MaxOf ==
  ASSUME NEW b \in Nat, NEW T, T \subseteq 0..b, T # {}
  PROVE  Max(T) \in T /\ \A y \in T : Max(T) >= y
<1> DEFINE D == {b - x : x \in T}
<1>1. D \subseteq Nat /\ D # {}
  <2>1. \A x \in T : b - x \in Nat
    OBVIOUS
  <2> QED BY <2>1
<1>2. PICK m \in D : \A y \in D : m <= y
  BY <1>1, NatMin
<1>3. PICK x \in T : m = b - x
  BY <1>2
<1>4. \A y \in T : x >= y
  <2>1. ASSUME NEW y \in T PROVE x >= y
    <3>1. b - x <= b - y
      BY <1>2, <1>3
    <3> QED BY <3>1
  <2> QED BY <2>1
<1> QED BY <1>3, <1>4 DEF Max

\* A cut never falls on a result.
LEMMA CutIsValid ==
  ASSUME NEW s, IsSeq(s), s # <<>>, ~ IsResult(s[1])
  PROVE  FindCutPoint(s) \in 1..Len(s) /\ ~ IsResult(s[FindCutPoint(s)])
<1> DEFINE full == {i \in DOMAIN s : TokensOf(After(s, i - 1)) >= KeepRecentTokens}
           inTail == {c \in CutPoints(s) : full # {} /\ c >= Max(full)}
<1>1. Len(s) \in Nat \ {0} /\ DOMAIN s = 1..Len(s)
  BY SeqFacts, EmptyIs
<1>2. CutPoints(s) \subseteq Nat /\ 1 \in CutPoints(s)
  BY <1>1 DEF CutPoints
<1>3. FindCutPoint(s) = IF inTail = {} THEN Min(CutPoints(s)) ELSE Min(inTail)
  BY DEF FindCutPoint
<1>4. inTail \subseteq CutPoints(s)
  OBVIOUS
<1> HIDE DEF inTail
<1>5. FindCutPoint(s) \in CutPoints(s)
  <2>1. CASE inTail = {}
    BY <1>2, <1>3, <2>1, MinOf
  <2>2. CASE inTail # {}
    <3>1. inTail \subseteq Nat
      BY <1>2, <1>4
    <3>2. Min(inTail) \in inTail
      BY <2>2, <3>1, MinOf
    <3> QED BY <1>3, <1>4, <2>2, <3>2
  <2> QED BY <2>1, <2>2
<1> QED BY <1>1, <1>5 DEF CutPoints

LEMMA TurnStartIs ==
  ASSUME NEW s, NEW i \in Nat
  PROVE  TurnStart(s, i) \in 0..i
<1> DEFINE T == {0} \cup {j \in 1..i : IsUser(s[j])}
<1>1. T \subseteq 0..i /\ T # {}
  OBVIOUS
<1>2. TurnStart(s, i) = Max(T)
  BY DEF TurnStart
<1> HIDE DEF T
<1> QED BY <1>1, <1>2, MaxOf

LEMMA NothingTold == AllTold(<<>>) = {}
BY DEF AllTold

\* What a compaction summarises is what lies before the cut, whether or not the cut splits
\* a turn.
LEMMA PreparedTold ==
  ASSUME NEW s, IsSeq(s), s # <<>>, ~ IsResult(s[1]), ~ NothingToSummarize(PrepareCompaction(s))
  PROVE  /\ FindCutPoint(s) \in 2..Len(s) /\ PrepareCompaction(s).cut = FindCutPoint(s)
         /\ AllTold(PrepareCompaction(s).history \o PrepareCompaction(s).prefix)
              = ToldIn(s, 1, FindCutPoint(s) - 1)
<1> DEFINE cut == FindCutPoint(s)
           prep == PrepareCompaction(s)
           from == TurnStart(s, cut)
           split == ~ IsUser(s[cut]) /\ from # 0
<1>1. Len(s) \in Nat /\ cut \in 1..Len(s)
  BY SeqFacts, CutIsValid
<1>2. from \in 0..cut
  BY <1>1, TurnStartIs
<1>3. prep = [cut |-> cut, history |-> SubSeq(s, 1, (IF split THEN from ELSE cut) - 1),
              prefix |-> IF split THEN SubSeq(s, from, cut - 1) ELSE <<>>]
  BY DEF PrepareCompaction
<1>4. ~ (prep.history = <<>> /\ prep.prefix = <<>>)
  BY DEF NothingToSummarize
<1> HIDE DEF cut, prep, from
<1>5. ASSUME cut # 1, AllTold(prep.history \o prep.prefix) = ToldIn(s, 1, cut - 1)
      PROVE  /\ cut \in 2..Len(s) /\ prep.cut = cut
             /\ AllTold(prep.history \o prep.prefix) = ToldIn(s, 1, cut - 1)
  BY <1>1, <1>3, <1>5
<1>6. CASE split
  <2>1. /\ prep.history = SubSeq(s, 1, from - 1) /\ prep.prefix = SubSeq(s, from, cut - 1)
        /\ from \in Nat \ {0} /\ from - 1 \in Nat /\ from - 1 <= Len(s)
        /\ cut - 1 \in Nat /\ cut - 1 <= Len(s) /\ from <= cut
    BY <1>1, <1>2, <1>3, <1>6
  <2>2. /\ IsSeq(prep.history) /\ AllTold(prep.history) = ToldIn(s, 1, from - 1)
        /\ Len(prep.history) = IF 1 <= from - 1 THEN from - 1 - 1 + 1 ELSE 0
    BY <2>1, SubSeqIs, ToldSubSeq
  <2>3. /\ IsSeq(prep.prefix) /\ AllTold(prep.prefix) = ToldIn(s, from, cut - 1)
        /\ Len(prep.prefix) = IF from <= cut - 1 THEN cut - 1 - from + 1 ELSE 0
    BY <2>1, SubSeqIs, ToldSubSeq
  <2>4. AllTold(prep.history \o prep.prefix) = ToldIn(s, 1, from - 1) \cup ToldIn(s, from, cut - 1)
    BY <2>2, <2>3, ToldConcat
  <2>5. ToldIn(s, 1, cut - 1) = ToldIn(s, 1, from - 1) \cup ToldIn(s, from - 1 + 1, cut - 1)
    <3>1. from - 1 \in Int /\ cut - 1 \in Int /\ 1 <= from - 1 + 1 /\ from - 1 <= cut - 1
      BY <1>1, <2>1
    <3> QED BY <3>1, ToldSplits
  <2>6. from - 1 + 1 = from
    BY <2>1
  <2>7. cut # 1
    <3> SUFFICES ASSUME cut = 1 PROVE FALSE
      OBVIOUS
    <3>1. Len(prep.history) = 0 /\ Len(prep.prefix) = 0
      BY <2>1, <2>2, <2>3
    <3> QED BY <1>4, <2>2, <2>3, <3>1, EmptyIs
  <2>8. AllTold(prep.history \o prep.prefix) = ToldIn(s, 1, cut - 1)
    BY <2>4, <2>5, <2>6
  <2> QED BY <1>5, <2>7, <2>8 DEF cut, prep
<1>7. CASE ~ split
  <2>1. /\ prep.history = SubSeq(s, 1, cut - 1) /\ prep.prefix = <<>>
        /\ cut - 1 \in Nat /\ cut - 1 <= Len(s)
    BY <1>1, <1>3, <1>7
  <2>2. /\ IsSeq(prep.history) /\ AllTold(prep.history) = ToldIn(s, 1, cut - 1)
        /\ Len(prep.history) = IF 1 <= cut - 1 THEN cut - 1 - 1 + 1 ELSE 0
    BY <2>1, SubSeqIs, ToldSubSeq
  <2>3. IsSeq(<<>>)
    BY DEF IsSeq
  <2>4. AllTold(prep.history \o prep.prefix) = AllTold(prep.history) \cup AllTold(<<>>)
    BY <2>1, <2>2, <2>3, ToldConcat
  <2>5. cut # 1
    <3> SUFFICES ASSUME cut = 1 PROVE FALSE
      OBVIOUS
    <3>1. Len(prep.history) = 0
      BY <2>1, <2>2
    <3> QED BY <1>4, <2>1, <2>2, <3>1, EmptyIs
  <2>6. AllTold(prep.history \o prep.prefix) = ToldIn(s, 1, cut - 1)
    BY <2>2, <2>4, <2>1, NothingTold
  <2> QED BY <1>5, <2>5, <2>6 DEF cut, prep
<1> QED BY <1>6, <1>7 DEF cut, prep

\* The rebuilt history: one message that carries the summary, and what followed the cut,
\* moved down by d.
Rebuilt(s, new, cut, sum, d) ==
  /\ IsSeq(new) /\ Len(new) = Len(s) - d /\ d \in Nat /\ Len(new) >= 1
  /\ \A k \in 2..Len(new) : new[k] = s[k + d]
  /\ new[1].role = "user" /\ DOMAIN new[1] = UserFields /\ new[1].sum = sum
  /\ \/ IsUser(s[cut]) /\ d = cut - 1 /\ new[1].n = s[cut].n
     \/ ~ IsUser(s[cut]) /\ d = cut - 2 /\ new[1].n = 0

LEMMA SummaryLeads ==
  ASSUME NEW s, IsSeq(s), NEW prep, prep.cut \in 2..Len(s), NEW summary,
         IsUser(s[prep.cut]) => DOMAIN s[prep.cut] = UserFields
  PROVE  \E d \in Nat : Rebuilt(s, ApplyCompaction(s, prep, summary), prep.cut, summary.sum, d)
<1> DEFINE cut == prep.cut
           kept == After(s, cut - 1)
           own == UserMessage(0, 0, <<>>)
           first == IF IsUser(kept[1]) THEN kept[1] ELSE own
           merged == [first EXCEPT !.size = @ + SummarySize, !.content = <<TextBlock>> \o @,
                                   !.sum = summary.sum, !.files = summary.files]
           rest == IF IsUser(kept[1]) THEN Tail(kept) ELSE kept
           new == <<merged>> \o rest
<1>1. Len(s) \in Nat /\ cut \in 2..Len(s)
  BY SeqFacts
<1>2. ApplyCompaction(s, prep, summary) = new
  BY DEF ApplyCompaction
<1>3. IsSeq(kept) /\ Len(kept) = Len(s) - cut + 1 /\ \A i \in 1..Len(kept) : kept[i] = s[cut + i - 1]
  <2>1. cut - 1 + 1 = cut /\ cut \in Nat \ {0}
    BY <1>1
  <2>2. kept = SubSeq(s, cut, Len(s))
    BY <2>1 DEF After
  <2> HIDE DEF kept, cut
  <2> QED BY <1>1, <2>1, <2>2, SubSeqIs
<1>4. kept[1] = s[cut]
  <2>1. 1 \in 1..Len(kept) /\ cut + 1 - 1 = cut
    BY <1>1, <1>3
  <2> HIDE DEF kept, cut
  <2> QED BY <1>3, <2>1
<1>5. own.role = "user" /\ own.n = 0 /\ DOMAIN own = UserFields
  BY DEF UserMessage, UserFields
<1>6. /\ first.role = "user" /\ DOMAIN first = UserFields
      /\ first.n = IF IsUser(s[cut]) THEN s[cut].n ELSE 0
  <2> HIDE DEF kept, own
  <2> QED BY <1>4, <1>5 DEF IsUser
<1> HIDE DEF first
<1>7. merged.role = "user" /\ DOMAIN merged = UserFields /\ merged.sum = summary.sum /\ merged.n = first.n
  BY <1>6 DEF UserFields
<1> HIDE DEF merged
<1>8. IsSeq(<<merged>>) /\ Len(<<merged>>) = 1 /\ <<merged>>[1] = merged
  <2>1. <<merged>> \in Seq({merged})
    OBVIOUS
  <2> QED BY <2>1 DEF IsSeq
<1>9. CASE IsUser(s[cut])
  <2> DEFINE d == cut - 1
  <2>1. rest = Tail(kept)
    BY <1>4, <1>9
  <2>2. /\ IsSeq(rest) /\ Len(rest) = Len(kept) - 1
        /\ \A i \in 1..Len(rest) : rest[i] = kept[i + 1]
    <3>1. PICK S : kept \in Seq(S)
      BY <1>3 DEF IsSeq
    <3>2. kept # <<>>
      BY <1>1, <1>3
    <3> HIDE DEF kept, cut
    <3>3. /\ Tail(kept) \in Seq(S) /\ Len(Tail(kept)) = Len(kept) - 1
          /\ \A i \in 1..Len(Tail(kept)) : Tail(kept)[i] = kept[i + 1]
      BY <3>1, <3>2, HeadTailProperties
    <3> QED BY <2>1, <3>3 DEF IsSeq
  <2> HIDE DEF rest, kept, cut
  <2>3. /\ IsSeq(new) /\ Len(new) = 1 + Len(rest) /\ new[1] = merged
        /\ \A i \in 1..Len(rest) : new[1 + i] = rest[i]
    BY <1>8, <2>2, Concats
  <2> HIDE DEF new
  <2>4. Len(new) = Len(s) - d /\ d \in Nat /\ Len(new) >= 1
    BY <1>1, <1>3, <2>2, <2>3
  <2>5. ASSUME NEW k \in 2..Len(new) PROVE new[k] = s[k + d]
    <3>1. /\ k - 1 \in 1..Len(rest) /\ 1 + (k - 1) = k /\ k - 1 + 1 = k /\ k \in 1..Len(kept)
          /\ cut + k - 1 = k + d
      BY <1>1, <1>3, <2>2, <2>3
    <3> HIDE DEF d
    <3> QED BY <1>3, <2>2, <2>3, <3>1
  <2>6. Rebuilt(s, new, cut, summary.sum, d)
    BY <1>6, <1>7, <1>9, <2>3, <2>4, <2>5 DEF Rebuilt
  <2> QED BY <1>2, <2>4, <2>6 DEF new, cut
<1>10. CASE ~ IsUser(s[cut])
  <2> DEFINE d == cut - 2
  <2>1. rest = kept
    BY <1>4, <1>10
  <2> HIDE DEF rest, kept, cut
  <2>3. /\ IsSeq(new) /\ Len(new) = 1 + Len(rest) /\ new[1] = merged
        /\ \A i \in 1..Len(rest) : new[1 + i] = rest[i]
    BY <1>3, <1>8, <2>1, Concats
  <2> HIDE DEF new
  <2>4. Len(new) = Len(s) - d /\ d \in Nat /\ Len(new) >= 1
    BY <1>1, <1>3, <2>1, <2>3
  <2>5. ASSUME NEW k \in 2..Len(new) PROVE new[k] = s[k + d]
    <3>1. k - 1 \in 1..Len(rest) /\ 1 + (k - 1) = k /\ cut + (k - 1) - 1 = k + d
      BY <1>1, <1>3, <2>1, <2>3
    <3> HIDE DEF d
    <3> QED BY <1>3, <2>1, <2>3, <3>1
  <2>6. Rebuilt(s, new, cut, summary.sum, d)
    BY <1>6, <1>7, <1>10, <2>3, <2>4, <2>5 DEF Rebuilt
  <2> QED BY <1>2, <2>4, <2>6 DEF new, cut
<1> QED BY <1>9, <1>10

\* The rebuilt history is sound and tells what the old one did.
LEMMA RebuiltIsSound ==
  ASSUME NEW top \in Nat, NEW s, Sound(s, top), NEW cut \in 2..Len(s), NEW d \in Nat, NEW new,
         Rebuilt(s, new, cut, ToldIn(s, 1, cut - 1), d)
  PROVE  Sound(new, top) /\ AllTold(new) = AllTold(s)
<1> DEFINE L == Len(s)
           M == Len(new)
           before == ToldIn(s, 1, cut - 1)
<1>1. /\ IsSeq(s) /\ L \in Nat /\ IsSeq(new) /\ M = L - d /\ M \in Nat /\ M >= 1
      /\ \A i \in 1..L : MessageOK(s[i]) /\ s[i].n \in Nat
      /\ cut \in 2..L
  <2>1. IsSeq(s) /\ IsSeq(new) /\ M = L - d /\ M >= 1 /\ \A i \in 1..L : MessageOK(s[i])
    BY DEF Sound, Rebuilt
  <2>2. L \in Nat /\ M \in Nat
    BY <2>1, SeqFacts
  <2>3. \A i \in 1..L : s[i].n \in Nat
    BY <2>1 DEF MessageOK
  <2> QED BY <2>1, <2>2, <2>3
<1>2. /\ \A k \in 2..M : new[k] = s[k + d]
      /\ IsUser(new[1]) /\ DOMAIN new[1] = UserFields /\ new[1].sum = before
  BY DEF Rebuilt, IsUser
<1>3. \/ IsUser(s[cut]) /\ d = cut - 1 /\ new[1].n = s[cut].n
      \/ ~ IsUser(s[cut]) /\ d = cut - 2 /\ new[1].n = 0
  BY DEF Rebuilt
<1>4. \A i, j \in 1..L : i < j => s[i].n < s[j].n
  BY DEF Sound
<1>5. \A i \in 1..L : IsUser(s[i]) =>
        /\ i # 1 => s[i].sum = {}
        /\ \A x \in s[i].sum : \A j \in 1..L : s[j].n # 0 => x < s[j].n
  BY DEF Sound
<1>6. AllTold(s) = ToldIn(s, 1, L) /\ AllTold(s) \subseteq 1..top
  BY <1>1, ToldOf DEF Sound
<1>7. AllTold(new) = ToldIn(new, 1, M)
  BY <1>1, ToldOf
<1> HIDE DEF L, M
<1>8. /\ ToldIn(s, 1, L) = before \cup ToldIn(s, cut, L)
      /\ ToldIn(s, cut, L) = Told(s[cut]) \cup ToldIn(s, cut + 1, L)
  <2>1. cut - 1 + 1 = cut /\ cut - 1 \in Int /\ L \in Int /\ 1 <= cut - 1 + 1 /\ cut - 1 <= L
        /\ cut \in Int /\ cut <= cut + 1 /\ cut <= L /\ 1 \in Int
    BY <1>1
  <2>2. ToldIn(s, 1, L) = before \cup ToldIn(s, cut - 1 + 1, L)
    BY <2>1, ToldSplits
  <2>3. ToldIn(s, cut, L) = ToldIn(s, cut, cut) \cup ToldIn(s, cut + 1, L)
    BY <2>1, ToldSplits
  <2>4. cut..cut = {cut}
    BY <2>1
  <2>5. ToldIn(s, cut, cut) = Told(s[cut])
    BY <2>4 DEF ToldIn
  <2> HIDE DEF before
  <2> QED BY <2>1, <2>2, <2>3, <2>5
<1>9. AllTold(new) = Told(new[1]) \cup ToldIn(s, 2 + d, L)
  <2>1. ToldIn(new, 1, M) = ToldIn(new, 1, 1) \cup ToldIn(new, 2, M)
    <3>1. 1 \in Int /\ M \in Int /\ 1 <= 1 + 1 /\ 1 <= M /\ 1 + 1 = 2
      BY <1>1
    <3> QED BY <3>1, ToldSplits
  <2>2. ToldIn(new, 1, 1) = Told(new[1])
    <3>1. 1..1 = {1}
      OBVIOUS
    <3> QED BY <3>1 DEF ToldIn
  <2>3. ToldIn(new, 2, M) = ToldIn(s, 2 + d, L)
    <3>1. \A k \in 2..M : k + d \in (2 + d)..L /\ new[k] = s[k + d]
      BY <1>1, <1>2
    <3>2. \A k \in (2 + d)..L : k - d \in 2..M /\ k - d + d = k
      BY <1>1
    <3>3. \A k \in (2 + d)..L : new[k - d] = s[k]
      BY <1>2, <3>2
    <3> QED BY <3>1, <3>2, <3>3 DEF ToldIn
  <2> QED BY <1>7, <2>1, <2>2, <2>3
<1>10. AllTold(new) = AllTold(s)
  <2>1. CASE IsUser(s[cut]) /\ d = cut - 1 /\ new[1].n = s[cut].n
    <3>1. 2 + d = cut + 1 /\ cut # 1 /\ cut \in 1..L
      BY <1>1, <2>1
    <3>2. s[cut].sum = {}
      BY <1>5, <2>1, <3>1
    <3>3. Told(new[1]) = before \cup Told(s[cut])
      BY <1>2, <2>1, <3>2 DEF Told
    <3> HIDE DEF before
    <3> QED BY <1>6, <1>8, <1>9, <3>1, <3>3
  <2>2. CASE ~ IsUser(s[cut]) /\ d = cut - 2 /\ new[1].n = 0
    <3>1. 2 + d = cut
      BY <1>1, <2>2
    <3>2. Told(new[1]) = before
      BY <1>2, <2>2 DEF Told
    <3> HIDE DEF before
    <3> QED BY <1>6, <1>8, <1>9, <3>1, <3>2
  <2> QED BY <1>3, <2>1, <2>2
<1>11. \A k \in 2..M : k + d \in cut..L /\ k + d \in 1..L /\ k + d # 1 /\ new[k] = s[k + d]
  <2>1. \A k \in 2..M : k + d \in cut..L /\ k + d \in 1..L /\ k + d # 1
    BY <1>1, <1>3
  <2> QED BY <1>2, <2>1
<1>12. \A k \in 1..M : k = 1 \/ k \in 2..M
  BY <1>1
\* What the summary tells is older than all that is kept.
<1>13. \A x \in before, k \in cut..L : s[k].n # 0 => x < s[k].n
  <2>1. ASSUME NEW i \in 1..(cut - 1), NEW x \in Told(s[i]), NEW k \in cut..L, s[k].n # 0
        PROVE  x < s[k].n
    <3>1. i \in 1..L /\ k \in 1..L /\ i < k
      BY <1>1
    <3>2. s[i].n < s[k].n
      BY <1>4, <3>1
    <3>3. x = s[i].n \/ (IsUser(s[i]) /\ x \in s[i].sum)
      BY DEF Told
    <3> QED BY <1>5, <2>1, <3>1, <3>2, <3>3
  <2> QED BY <2>1 DEF ToldIn
<1>14. Sound(new, top)
  <2>1. \A k \in 1..M : MessageOK(new[k])
    <3>1. MessageOK(new[1])
      <4>1. new[1].n \in Nat
        <5>1. cut \in 1..L
          BY <1>1
        <5> QED BY <1>1, <1>3, <5>1
      <4>2. before \subseteq Nat
        <5>1. before \subseteq 1..top
          BY <1>6, <1>8
        <5> HIDE DEF before
        <5> QED BY <5>1
      <4> QED BY <1>2, <4>1, <4>2 DEF MessageOK, IsUser
    <3> QED BY <1>1, <1>11, <1>12, <3>1
  <2>2. ASSUME NEW i \in 1..M, NEW j \in 1..M, i < j PROVE new[i].n < new[j].n
    <3>1. j \in 2..M /\ j + d \in cut..L /\ j + d \in 1..L /\ new[j] = s[j + d]
      <4>1. j \in 2..M
        BY <1>1, <2>2
      <4> QED BY <1>11, <4>1
    <3>2. CASE i = 1
      <4>1. CASE d = cut - 1 /\ new[1].n = s[cut].n
        <5>1. cut \in 1..L /\ cut < j + d
          BY <1>1, <3>1, <4>1
        <5> QED BY <1>4, <3>1, <3>2, <4>1, <5>1
      <4>2. CASE new[1].n = 0
        <5>1. 1 \in 1..L /\ 1 < j + d
          BY <1>1, <3>1
        <5>2. s[1].n < s[j + d].n /\ s[1].n \in Nat /\ s[j + d].n \in Nat
          BY <1>1, <1>4, <3>1, <5>1
        <5> QED BY <3>1, <3>2, <4>2, <5>2
      <4> QED BY <1>3, <4>1, <4>2
    <3>3. CASE i \in 2..M
      <4>1. i + d \in 1..L /\ i + d < j + d /\ new[i] = s[i + d]
        BY <1>1, <1>11, <2>2, <3>3
      <4> QED BY <1>4, <3>1, <4>1
    <3> QED BY <1>12, <3>2, <3>3
  <2>3. ASSUME NEW i \in 1..M, IsUser(new[i])
        PROVE  /\ i # 1 => new[i].sum = {}
               /\ \A x \in new[i].sum : \A j \in 1..M : new[j].n # 0 => x < new[j].n
    <3>1. CASE i = 1
      <4>1. ASSUME NEW x \in before, NEW j \in 1..M, new[j].n # 0 PROVE x < new[j].n
        <5>1. CASE j \in 2..M
          BY <1>11, <1>13, <4>1, <5>1
        <5>2. CASE j = 1
          <6>1. cut \in cut..L /\ new[1].n = s[cut].n
            BY <1>1, <1>3, <4>1, <5>2
          <6> QED BY <1>13, <4>1, <5>2, <6>1
        <5> QED BY <1>12, <5>1, <5>2
      <4> QED BY <1>2, <3>1, <4>1
    <3>2. CASE i \in 2..M
      <4>1. new[i].sum = {}
        BY <1>5, <1>11, <2>3, <3>2
      <4> QED BY <4>1
    <3> QED BY <1>12, <3>1, <3>2
  <2>4. ~ IsResult(new[1])
    BY <1>2 DEF IsUser, IsResult
  <2>5. AllTold(new) \subseteq 1..top
    BY <1>6, <1>10
  <2> QED BY <1>1, <2>1, <2>2, <2>3, <2>4, <2>5 DEF Sound, M
<1> QED BY <1>10, <1>14

\* Two user turns in a row were two in a row before.
LEMMA RebuiltKeepsTurns ==
  ASSUME NEW s, IsSeq(s), NEW cut \in 2..Len(s), NEW d \in Nat, NEW new, NEW sum,
         Rebuilt(s, new, cut, sum, d)
  PROVE  Cardinality(UserPairs(new)) <= Cardinality(UserPairs(s))
<1> DEFINE L == Len(s)
           M == Len(new)
           moved == [i \in UserPairs(new) |-> i + d]
<1>1. /\ L \in Nat /\ DOMAIN s = 1..L /\ IsSeq(new) /\ M = L - d /\ M \in Nat /\ DOMAIN new = 1..M
      /\ cut \in 2..L
  <2>1. IsSeq(new) /\ M = L - d
    BY DEF Rebuilt
  <2> QED BY <2>1, SeqFacts
<1>2. /\ \A k \in 2..M : new[k] = s[k + d]
      /\ \/ IsUser(s[cut]) /\ d = cut - 1
         \/ ~ IsUser(s[cut]) /\ d = cut - 2
  BY DEF Rebuilt
<1>3. UserPairs(s) \subseteq 1..L /\ UserPairs(new) \subseteq 1..M
  BY <1>1 DEF UserPairs
<1>4. ASSUME NEW i \in UserPairs(new) PROVE i + d \in UserPairs(s)
  <2>1. i \in 1..M /\ i < M /\ IsUser(new[i]) /\ IsUser(new[i + 1])
    BY <1>1 DEF UserPairs
  <2> HIDE DEF L, M
  <2>2. i + 1 \in 2..M /\ i + d \in 1..L /\ i + d < L /\ (i + 1) + d = (i + d) + 1
    BY <1>1, <2>1
  <2>3. new[i + 1] = s[(i + d) + 1]
    <3>1. new[i + 1] = s[(i + 1) + d]
      BY <1>2, <2>2
    <3> QED BY <2>2, <3>1
  <2>4. IsUser(s[i + d])
    <3>1. CASE i = 1
      <4>1. CASE d = cut - 2
        <5>1. (i + d) + 1 = cut
          BY <1>1, <3>1, <4>1
        <5> QED BY <1>1, <1>2, <2>1, <2>3, <4>1, <5>1
      <4>2. CASE IsUser(s[cut]) /\ d = cut - 1
        <5>1. i + d = cut
          BY <1>1, <3>1, <4>2
        <5> QED BY <4>2, <5>1
      <4> QED BY <1>2, <4>1, <4>2
    <3>2. CASE i # 1
      <4>1. i \in 2..M
        BY <2>1, <3>2
      <4> QED BY <1>2, <2>1, <4>1
    <3> QED BY <3>1, <3>2
  <2> QED BY <1>1, <2>1, <2>2, <2>3, <2>4 DEF UserPairs, L
<1>5. moved \in Injection(UserPairs(new), UserPairs(s))
  <2>1. moved \in [UserPairs(new) -> UserPairs(s)]
    BY <1>4
  <2>2. \A i, j \in UserPairs(new) : i + d = j + d => i = j
    <3>1. \A i, j \in 1..M : i + d = j + d => i = j
      BY <1>1
    <3> QED BY <1>3, <3>1
  <2> QED BY <2>1, <2>2 DEF Injection, IsInjective
<1>6. IsFiniteSet(UserPairs(s))
  <2>1. IsFiniteSet(1..L)
    BY <1>1, FS_Interval
  <2> HIDE DEF L
  <2> QED BY <1>3, <2>1, FS_Subset
<1> QED BY <1>5, <1>6, FS_Injection

\* Both at once, for the hook's own cut and summary.
LEMMA CompactionIsSound ==
  ASSUME NEW top \in Nat, NEW s, Sound(s, top), s # <<>>,
         ~ NothingToSummarize(PrepareCompaction(s)), NEW new,
         new = ApplyCompaction(s, PrepareCompaction(s), Compact(PrepareCompaction(s)))
  PROVE  /\ Sound(new, top) /\ AllTold(new) = AllTold(s) /\ new # <<>>
         /\ Cardinality(UserPairs(new)) <= Cardinality(UserPairs(s))
<1> DEFINE prep == PrepareCompaction(s)
           cut == FindCutPoint(s)
           sum == ToldIn(s, 1, cut - 1)
<1>1. IsSeq(s) /\ ~ IsResult(s[1]) /\ \A i \in 1..Len(s) : MessageOK(s[i])
  BY DEF Sound
<1>2. cut \in 2..Len(s) /\ prep.cut = cut /\ AllTold(prep.history \o prep.prefix) = sum
  BY <1>1, PreparedTold
<1>3. Compact(prep).sum = sum
  BY <1>2 DEF Compact
<1> HIDE DEF prep, cut
<1>4. IsUser(s[cut]) => DOMAIN s[cut] = UserFields
  <2>1. cut \in 1..Len(s)
    BY <1>1, <1>2, SeqFacts
  <2> QED BY <1>1, <2>1 DEF MessageOK
<1>5. new = ApplyCompaction(s, prep, Compact(prep))
  BY DEF prep
<1>6. PICK d \in Nat : Rebuilt(s, new, cut, sum, d)
  BY <1>1, <1>2, <1>3, <1>4, <1>5, SummaryLeads
<1>7. Sound(new, top) /\ AllTold(new) = AllTold(s)
  BY <1>2, <1>6, RebuiltIsSound
<1>8. Cardinality(UserPairs(new)) <= Cardinality(UserPairs(s))
  BY <1>1, <1>2, <1>6, RebuiltKeepsTurns
<1>9. new # <<>>
  BY <1>6 DEF Rebuilt
<1> QED BY <1>7, <1>8, <1>9

\* What is said next, alone or in a row, carries the conversation on.
LEMMA Carries ==
  ASSUME ConversationInv, NEW t, NextMessages(t, numbered), t # <<>>,
         msgs = <<>> => ~ IsResult(t[1]),
         msgs' = msgs \o t, numbered' = numbered + Len(t), UNCHANGED <<seed, base>>
  PROVE  ConversationInv'
<1>1. /\ Sound(msgs', numbered') /\ Len(t) \in Nat
      /\ AllTold(msgs') = AllTold(msgs) \cup (numbered + 1)..numbered'
  BY Grows DEF ConversationInv
<1>2. numbered' \in Nat /\ numbered <= numbered' /\ base' <= numbered'
  BY <1>1 DEF ConversationInv
<1>3. Sound(seed', numbered')
  <2>1. 1..numbered \subseteq 1..numbered'
    BY <1>2 DEF ConversationInv
  <2> QED BY <2>1 DEF ConversationInv, Sound
<1>4. (base + 1)..numbered \cup (numbered + 1)..numbered' = (base + 1)..numbered'
  BY <1>2 DEF ConversationInv
<1>5. msgs' # <<>>
  <2>1. IsSeq(msgs) /\ IsSeq(t)
    BY DEF ConversationInv, Sound, NextMessages
  <2>2. Len(msgs') = Len(msgs) + Len(t) /\ Len(msgs) \in Nat /\ Len(t) \in Nat
    BY <2>1, Concats, SeqFacts
  <2>3. Len(t) # 0
    BY <2>1, EmptyIs
  <2> QED BY <2>2, <2>3
<1> QED BY <1>1, <1>2, <1>3, <1>4, <1>5 DEF ConversationInv

LEMMA OneCarries ==
  ASSUME ConversationInv, NEW m, m.n = numbered + 1, MessageOK(m), ~ IsResult(m),
         IsUser(m) => m.sum = {},
         msgs' = Append(msgs, m), numbered' = numbered + 1, UNCHANGED <<seed, base>>
  PROVE  ConversationInv'
<1> DEFINE t == <<m>>
<1>1. t \in Seq({m}) /\ Len(t) = 1 /\ t[1] = m /\ t # <<>>
  OBVIOUS
<1>2. IsSeq(t)
  BY <1>1 DEF IsSeq
<1>3. msgs' = msgs \o t
  <2>1. PICK S : msgs \in Seq(S)
    BY DEF ConversationInv, Sound, IsSeq
  <2>2. msgs \in Seq(S \cup {m})
    BY <2>1
  <2> QED BY <2>2, AppendIsConcat
<1> HIDE DEF t
<1>4. NextMessages(t, numbered)
  <2>1. \A k \in 1..Len(t) : k = 1
    BY <1>1
  <2> QED BY <1>1, <1>2, <2>1 DEF NextMessages
<1> QED BY <1>1, <1>3, <1>4, Carries

LEMMA UserIsOK ==
  ASSUME NEW n \in Nat, NEW size, NEW content
  PROVE  LET m == UserMessage(n, size, content)
         IN m.n = n /\ MessageOK(m) /\ ~ IsResult(m) /\ m.sum = {}
BY DEF UserMessage, MessageOK, IsUser, IsResult, UserFields

LEMMA AssistantIsOK ==
  ASSUME NEW n \in Nat, NEW size, NEW content, NEW stop, NEW usage, NEW by
  PROVE  LET m == AssistantMessage(n, size, content, stop, usage, by)
         IN m.n = n /\ MessageOK(m) /\ ~ IsResult(m) /\ ~ IsUser(m)
BY DEF AssistantMessage, MessageOK, IsUser, IsResult

LEMMA ResultIsOK ==
  ASSUME NEW n \in Nat, NEW size, NEW id, NEW content
  PROVE  LET m == ToolResult(n, size, id, content)
         IN m.n = n /\ MessageOK(m) /\ ~ IsUser(m)
BY DEF ToolResult, MessageOK, IsUser

LEMMA ConversationInit == Init => ConversationInv
<1> SUFFICES ASSUME Init PROVE ConversationInv
  OBVIOUS
<1>1. msgs = <<>> /\ seed = <<>> /\ base = 0 /\ numbered = 0 /\ phase = "idle"
  BY DEF Init
<1>2. IsSeq(<<>>) /\ Len(<<>>) = 0
  BY DEF IsSeq
<1>3. Sound(<<>>, 0)
  BY <1>2, NothingTold DEF Sound
<1>4. (0 + 1)..0 = {}
  OBVIOUS
<1> QED BY <1>1, <1>3, <1>4, NothingTold DEF ConversationInv

LEMMA ResultsCarry == ASSUME ConversationAssumption, ConversationInv, ToolsReturn PROVE ConversationInv'
<1> DEFINE calls == Calls(Last(msgs))
           results(answered) ==
             [k \in 1..answered |->
               ToolResult(numbered + k, ResultSize[calls[k].mark], calls[k].id, <<TextBlock>>)]
<1>1. PICK answered \in 1..(MaxMessages - numbered) :
        msgs' = msgs \o results(answered) /\ numbered' = numbered + answered
  BY Zenon DEF ToolsReturn
<1>2. numbered \in Nat /\ answered \in Nat \ {0} /\ msgs # <<>> /\ UNCHANGED <<seed, base>>
  BY <1>1 DEF ConversationInv, ConversationAssumption, ToolsReturn, processVars
<1> DEFINE t == results(answered)
<1>3. ASSUME NEW k \in 1..answered PROVE t[k].n = numbered + k /\ MessageOK(t[k]) /\ ~ IsUser(t[k])
  <2>1. t[k] = ToolResult(numbered + k, ResultSize[calls[k].mark], calls[k].id, <<TextBlock>>)
    OBVIOUS
  <2>2. numbered + k \in Nat
    BY <1>2
  <2> HIDE DEF t, calls, results
  <2> QED BY <2>1, <2>2, ResultIsOK
<1>4. DOMAIN t = 1..answered /\ t = [k \in 1..answered |-> t[k]]
  OBVIOUS
<1> HIDE DEF t
<1>5. t \in Seq({t[k] : k \in 1..answered}) /\ Len(t) = answered
  BY <1>2, <1>4
<1>6. IsSeq(t) /\ t # <<>>
  BY <1>2, <1>5 DEF IsSeq
<1>7. NextMessages(t, numbered)
  BY <1>3, <1>5, <1>6 DEF NextMessages
<1>8. msgs' = msgs \o t /\ numbered' = numbered + Len(t)
  BY <1>1, <1>5 DEF t
<1> QED BY <1>2, <1>6, <1>7, <1>8, Carries

LEMMA BetweenTurnsKeeps == ASSUME ConversationInv, BetweenTurns PROVE ConversationInv'
<1>1. msgs # <<>> /\ UNCHANGED <<seed, base, numbered>> /\ numbered \in Nat
  BY DEF ConversationInv, BetweenTurns, processVars
<1>2. CASE UNCHANGED msgs
  BY <1>1, <1>2 DEF ConversationInv
<1>3. CASE /\ ~ NothingToSummarize(PrepareCompaction(msgs))
           /\ msgs' = ApplyCompaction(msgs, PrepareCompaction(msgs), Compact(PrepareCompaction(msgs)))
  <2>1. Sound(msgs', numbered) /\ AllTold(msgs') = AllTold(msgs) /\ msgs' # <<>>
    BY <1>1, <1>3, CompactionIsSound DEF ConversationInv
  <2> QED BY <1>1, <2>1 DEF ConversationInv
<1> QED BY <1>2, <1>3 DEF BetweenTurns

LEMMA ResumeKeeps == ASSUME ConversationInv, Restart PROVE ConversationInv'
<1>1. seed' \in Persisted /\ msgs' = seed' /\ base' = numbered /\ numbered' = numbered
      /\ phase' = "idle"
  BY DEF Restart
<1>2. Sound(seed', numbered)
  <2>1. CASE seed' = seed
    BY <2>1 DEF ConversationInv
  <2>2. CASE seed' \in {SubSeq(msgs, 1, n) : n \in Len(seed)..Len(msgs)}
    <3>1. PICK n \in Len(seed)..Len(msgs) : seed' = SubSeq(msgs, 1, n)
      BY <2>2
    <3>2. n \in 0..Len(msgs)
      <4>1. Len(seed) \in Nat
        BY SeqFacts DEF ConversationInv, Sound
      <4> QED BY <4>1
    <3> QED BY <3>1, <3>2, PrefixIsSound DEF ConversationInv
  <2> QED BY <1>1, <2>1, <2>2 DEF Persisted
<1>3. numbered \in Nat /\ (numbered + 1)..numbered = {}
  BY DEF ConversationInv
<1> QED BY <1>1, <1>2, <1>3 DEF ConversationInv

LEMMA ConversationStep ==
  ASSUME ConversationAssumption, ConversationInv, [Next]_vars
  PROVE  ConversationInv'
<1>0. numbered \in Nat /\ numbered + 1 \in Nat
  BY DEF ConversationInv
<1>1. ASSUME Prompt PROVE ConversationInv'
  <2>1. PICK content : Say(content)
    BY <1>1 DEF Prompt
  <2>2. UNCHANGED <<seed, base>>
    BY <1>1 DEF Prompt, processVars
  <2> QED BY <1>0, <2>1, <2>2, UserIsOK, OneCarries DEF Say
<1>2. ASSUME Send PROVE ConversationInv'
  BY <1>2 DEF Send, ConversationInv, processVars
<1>3. ASSUME Reply PROVE ConversationInv'
  <2>1. PICK size, content, stop, usage, by :
          msgs' = Append(msgs, AssistantMessage(numbered + 1, size, content, stop, usage, by))
    BY <1>3 DEF Reply
  <2>2. numbered' = numbered + 1 /\ UNCHANGED <<seed, base>>
    BY <1>3 DEF Reply, processVars
  <2> QED BY <1>0, <2>1, <2>2, AssistantIsOK, OneCarries
<1>4. ASSUME ToolsReturn PROVE ConversationInv'
  BY <1>4, ResultsCarry
<1>5. ASSUME AbortedReply PROVE ConversationInv'
  <2>1. /\ msgs' = Append(msgs, AssistantMessage(numbered + 1, 0, <<>>, "aborted", 0, model.name))
        /\ numbered' = numbered + 1 /\ UNCHANGED <<seed, base>>
    BY <1>5 DEF AbortedReply, processVars
  <2> QED BY <1>0, <2>1, AssistantIsOK, OneCarries
<1>6. ASSUME BetweenTurns PROVE ConversationInv'
  BY <1>6, BetweenTurnsKeeps
<1>7. ASSUME Steer PROVE ConversationInv'
  <2>1. Say(<<TextBlock>>) /\ UNCHANGED <<seed, base>>
    BY <1>7 DEF Steer, processVars
  <2> QED BY <1>0, <2>1, UserIsOK, OneCarries DEF Say
<1>8. ASSUME Stop PROVE ConversationInv'
  BY <1>8 DEF Stop, ConversationInv, processVars
<1>9. ASSUME Restart PROVE ConversationInv'
  BY <1>9, ResumeKeeps
<1>10. ASSUME UNCHANGED vars PROVE ConversationInv'
  BY <1>10 DEF vars, ConversationInv
<1> QED BY <1>1, <1>2, <1>3, <1>4, <1>5, <1>6, <1>7, <1>8, <1>9, <1>10 DEF Next

LEMMA SoundForgetsNothing == ConversationInv => NothingForgotten
<1> SUFFICES ASSUME ConversationInv PROVE NothingForgotten
  OBVIOUS
<1>1. Sound(msgs, numbered) /\ AllTold(msgs) = AllTold(seed) \cup (base + 1)..numbered
  BY DEF ConversationInv
<1>2. DOMAIN msgs = 1..Len(msgs)
  BY <1>1, SeqFacts DEF Sound
<1>3. ASSUME NEW i \in DOMAIN msgs, NEW j \in DOMAIN msgs, IsUser(msgs[i])
      PROVE  msgs[j].n \notin msgs[i].sum
  <2>1. msgs[i].sum \subseteq 1..numbered
    <3>1. Told(msgs[i]) \subseteq AllTold(msgs)
      BY DEF AllTold
    <3>2. msgs[i].sum \subseteq Told(msgs[i])
      BY <1>3 DEF Told
    <3> QED BY <1>1, <3>1, <3>2 DEF Sound
  <2>2. msgs[j].n \in Nat
    BY <1>1, <1>2 DEF Sound, MessageOK
  <2>3. CASE msgs[j].n = 0
    BY <2>1, <2>3
  <2>4. CASE msgs[j].n # 0
    <3>1. \A x \in msgs[i].sum : x < msgs[j].n
      BY <1>1, <1>2, <1>3, <2>4 DEF Sound
    <3> QED BY <2>2, <3>1
  <2> QED BY <2>3, <2>4
<1>4. \A i, j \in DOMAIN msgs : i < j => msgs[i].n < msgs[j].n
  BY <1>1, <1>2 DEF Sound
<1> QED BY <1>1, <1>3, <1>4 DEF NothingForgotten

\* The invariant of a conversation over its turns, compactions, crashes and restarts
\* (maybeCompact, persistNewMessages).
THEOREM ConversationInvariant ==
  ASSUME ConversationAssumption PROVE Spec => []ConversationInv
<1> QED BY ConversationInit, ConversationStep, PTL DEF Spec

\* Over any number of compactions and restarts, each message of the conversation is in the
\* history, in its place, or told by the summary that leads it, and never both
\* (PrepareCompaction, ApplyCompaction).
THEOREM NothingForgottenAlways ==
  ASSUME ConversationAssumption PROVE Spec => []NothingForgotten
<1> QED BY ConversationInvariant, SoundForgetsNothing, PTL

\* A compaction makes no two user turns in a row where there were none (ApplyCompaction).
THEOREM CompactionKeepsTurnsAlways ==
  ASSUME ConversationAssumption PROVE Spec => CompactionKeepsTurns
<1>1. ASSUME ConversationInv, BetweenTurns
      PROVE  Cardinality(UserPairs(msgs')) <= Cardinality(UserPairs(msgs))
  <2>1. msgs # <<>> /\ numbered \in Nat /\ Sound(msgs, numbered)
    BY <1>1 DEF ConversationInv, BetweenTurns
  <2>2. CASE UNCHANGED msgs
    <3>1. Cardinality(UserPairs(msgs)) \in Nat
      <4>1. UserPairs(msgs) \subseteq 1..Len(msgs) /\ Len(msgs) \in Nat
        BY <2>1, SeqFacts DEF Sound, UserPairs
      <4>2. IsFiniteSet(UserPairs(msgs))
        <5>1. IsFiniteSet(1..Len(msgs))
          BY <4>1, FS_Interval
        <5> QED BY <4>1, <5>1, FS_Subset
      <4> QED BY <4>2, FS_CardinalityType
    <3> QED BY <2>2, <3>1
  <2>3. CASE /\ ~ NothingToSummarize(PrepareCompaction(msgs))
             /\ msgs' = ApplyCompaction(msgs, PrepareCompaction(msgs),
                                        Compact(PrepareCompaction(msgs)))
    BY <2>1, <2>3, CompactionIsSound
  <2> QED BY <1>1, <2>2, <2>3 DEF BetweenTurns
<1>2. ASSUME ConversationInv, [Next]_vars
      PROVE  [BetweenTurns => Cardinality(UserPairs(msgs')) <= Cardinality(UserPairs(msgs))]_vars
  BY <1>1, <1>2
<1> QED BY <1>2, ConversationInvariant, PTL DEF Spec, CompactionKeepsTurns
=============================================================================
