---------------------------- MODULE Conversation ----------------------------
(***************************************************************************)
(* One conversation from prompt to prompt and from process to process: the *)
(* agent's messages grow by prompts, replies and tool results; each        *)
(* request is projected, transformed for its model and converted; between  *)
(* turns the hook of internal/session/compact.go may replace the history   *)
(* by a summary and its tail; at the end cmd/harness persists what it can  *)
(* and the next process resumes it, perhaps with another model.            *)
(*                                                                         *)
(* The loop's copy of the context and the agent's are one variable here:   *)
(* AgentRuntime shows that the hook keeps them equal (ContextIsTranscript).*)
(* The provider and the tools are external: they choose the replies, the   *)
(* ids (with PerProcessIDs the ones Gemini's fold makes up, which count    *)
(* from the start of the process) and the results.                         *)
(***************************************************************************)
EXTENDS Compaction

CONSTANTS
  SystemSize,      \* what the system prompt and the tools take
  MaxOutput,       \* model.MaxTokens
  ContextSafety, MinMaxTokens,       \* contextSafetyTokens, minMaxTokens
  ThinkingBudget, MinOutputTokens, DefaultBudget,  \* the level's budget, 1024 and 1024
  Reasoning,       \* whether a reasoning level is set
  Models,          \* the models a process may be started with
  Prompts,         \* the contents a prompt may have
  Replies,         \* the replies of the provider: [content, stop], ids not yet set
  ResultSize,      \* the size of a result, by tool
  PerProcessIDs,   \* call ids are made up per process
  MaxMessages, MaxRestarts, MaxProjectionFailures   \* bounds of the exploration

\* The bound is a natural.
ConversationAssumption == MaxMessages \in Nat

VARIABLES
  msgs,        \* the history
  model,       \* the model of this process
  phase,       \* "idle", "send", "wait", "tools", "between", "steer"
  cancelled,   \* the run's context is cancelled
  request,     \* the request the provider is answering: its turns and its size
  projected,   \* whether the projection of that request succeeded
  files,       \* the spilled results, by path
  compacted,   \* what the hook did last: "no", "yes", "failed", "nothing"
  seed,        \* the messages this process was started with
  base,        \* how many messages the conversation had had by then
  numbered,    \* how many messages it has had
  nextID,      \* the next tool call id
  restarts, failures

vars == <<msgs, model, phase, cancelled, request, projected, files, compacted, seed, base,
          numbered, nextID, restarts, failures>>
processVars == <<model, seed, base, restarts>>

NoRequest == [turns |-> <<>>, size |-> 0, max |-> 0, budget |-> 0]

Init ==
  /\ msgs = <<>> /\ seed = <<>> /\ base = 0 /\ model \in Models
  /\ phase = "idle" /\ cancelled = FALSE
  /\ request = NoRequest /\ projected = TRUE /\ files = <<>> /\ compacted = "no"
  /\ numbered = 0 /\ nextID = 1 /\ restarts = 0 /\ failures = 0

Room == numbered < MaxMessages

Say(content) ==
  /\ msgs' = Append(msgs, UserMessage(numbered + 1, 1, content))
  /\ numbered' = numbered + 1

\* Prompt starts a run.
Prompt ==
  /\ phase = "idle" /\ Room
  /\ \E content \in Prompts : Say(content)
  /\ phase' = "send" /\ compacted' = "no" /\ cancelled' = FALSE
  /\ UNCHANGED <<processVars, request, projected, files, nextID, failures>>

\* estimate.EstimateContextTokens: the prompt and the tools count when no usage does.
EstimateRequest(shown) ==
  EstimateContext(shown) + IF SelectLastInSeq(shown, HasUsage) = 0 THEN SystemSize ELSE 0

\* clampMaxTokensToContext.
ClampMaxTokens(shown, wanted) ==
  Min({wanted, Max({MinMaxTokens, ContextWindow - EstimateRequest(shown) - ContextSafety})})

\* adjustMaxTokensForThinking for Anthropic's fixed budgets, and the two clamps around it
\* in StreamSimple; buildParams reads a budget of 0 as the default one.
ThinkingLimits(shown) ==
  LET most == Min({ClampMaxTokens(shown, MaxOutput) + ThinkingBudget, MaxOutput})
      level == IF most <= ThinkingBudget THEN Max({0, most - MinOutputTokens}) ELSE ThinkingBudget
      max == ClampMaxTokens(shown, most)
      budget == Min({level, Max({0, max - MinOutputTokens})})
  IN [max |-> max, budget |-> IF budget = 0 THEN DefaultBudget ELSE budget]

Limits(shown) ==
  IF Reasoning /\ model.api = "anthropic" THEN ThinkingLimits(shown)
  ELSE [max |-> ClampMaxTokens(shown, MaxOutput), budget |-> 0]

\* A request: its turns, what it takes of the context, and its limits.
BuildRequest(shown) ==
  LET limits == Limits(shown)
  IN [turns |-> ConvertMessages(shown, model),
      size |-> SystemSize + TokensOf(TransformMessages(shown, model)),
      max |-> limits.max, budget |-> limits.budget]

\* streamAssistantResponse up to the call of the provider.  A projection that fails to
\* write a file has written those of newer results and leaves the messages as they are.
Send ==
  /\ phase = "send" /\ ~cancelled
  /\ \/ /\ projected' = TRUE
        /\ files' = SpillToolResults(files, msgs, 1)
        /\ request' = BuildRequest(ProjectToolResults(msgs))
        /\ UNCHANGED failures
     \/ /\ failures < MaxProjectionFailures
        /\ failures' = failures + 1
        /\ projected' = FALSE
        /\ \E i \in Cleared(msgs) : files' = SpillToolResults(files, msgs, i + 1)
        /\ request' = BuildRequest(msgs)
  /\ phase' = "wait"
  /\ UNCHANGED <<processVars, msgs, cancelled, compacted, numbered, nextID>>

\* The calls of a reply get the next ids; Gemini signs its calls.
WithIDs(content) ==
  [k \in DOMAIN content |->
     IF content[k].kind # "call" THEN content[k]
     ELSE [content[k] EXCEPT
             !.id = nextID + Cardinality({j \in 1..(k - 1) : content[j].kind = "call"}),
             !.signed = (model.api = "google")]]

\* The provider answers; it may report what the request and the reply took.  A failed or
\* aborted reply ends the run before any of its calls is executed.
Reply ==
  /\ phase = "wait" /\ Room
  /\ \E r \in Replies, reported \in BOOLEAN :
       LET m == AssistantMessage(numbered + 1, 1, WithIDs(r.content), r.stop,
                                 IF reported THEN request.size + 1 ELSE 0, model.name)
       IN /\ reported \/ ~Failed(m)
          /\ msgs' = Append(msgs, m)
          /\ nextID' = nextID + Len(Calls(m))
          /\ phase' = IF Failed(m) THEN "idle"
                      ELSE IF Calls(m) # <<>> THEN "tools" ELSE "between"
  /\ numbered' = numbered + 1
  /\ request' = NoRequest
  /\ UNCHANGED <<processVars, cancelled, projected, files, compacted, failures>>

\* executeToolCalls: the results in the order of the calls; a cancelled batch leaves its
\* last calls, never the first, without a result.
ToolsReturn ==
  /\ phase = "tools"
  /\ LET calls == Calls(Last(msgs))
     IN \E answered \in 1..(MaxMessages - numbered) :
          /\ answered <= Len(calls)
          /\ msgs' = msgs \o [k \in 1..answered |->
               ToolResult(numbered + k, ResultSize[calls[k].mark], calls[k].id, <<TextBlock>>)]
          /\ numbered' = numbered + answered
          /\ cancelled' = (answered < Len(calls))
  /\ phase' = "between"
  /\ UNCHANGED <<processVars, request, projected, files, compacted, nextID, failures>>

\* The request under a cancelled context ends as an aborted reply without content.
AbortedReply ==
  /\ phase = "send" /\ cancelled /\ Room
  /\ msgs' = Append(msgs, AssistantMessage(numbered + 1, 0, <<>>, "aborted", 0, model.name))
  /\ numbered' = numbered + 1
  /\ phase' = "idle"
  /\ UNCHANGED <<processVars, cancelled, request, projected, files, compacted, nextID, failures>>

\* The hook after a turn (maybeCompact), whose summary turn may fail, and then the loop:
\* it goes on when the turn had calls, or stops.
BetweenTurns ==
  /\ phase = "between"
  /\ LET prep == PrepareCompaction(msgs)
     IN \/ /\ ~ShouldCompact(msgs) /\ compacted' = "no"
           /\ UNCHANGED msgs
        \/ /\ ShouldCompact(msgs) /\ NothingToSummarize(prep) /\ compacted' = "nothing"
           /\ UNCHANGED msgs
        \/ /\ ShouldCompact(msgs) /\ ~NothingToSummarize(prep)
           /\ \/ /\ compacted' = "failed"
                 /\ UNCHANGED msgs
              \/ /\ compacted' = "yes"
                 /\ msgs' = ApplyCompaction(msgs, prep, Compact(prep))
  /\ phase' = IF IsResult(Last(msgs)) THEN "send" ELSE "steer"
  /\ UNCHANGED <<processVars, cancelled, request, projected, files, numbered, nextID, failures>>

\* A queued message is delivered before the next request, or starts one after the last
\* turn.
Steer ==
  /\ phase \in {"send", "steer"} /\ Room
  /\ msgs # <<>> /\ ~IsUser(Last(msgs))
  /\ Say(<<TextBlock>>)
  /\ phase' = "send"
  /\ UNCHANGED <<processVars, cancelled, request, projected, files, compacted, nextID, failures>>

\* No message is queued: the run ends.
Stop ==
  /\ phase = "steer"
  /\ phase' = "idle"
  /\ UNCHANGED <<processVars, msgs, cancelled, request, projected, files, compacted, numbered,
                 nextID, failures>>

\* persistNewMessages, cut anywhere by a crash or a failed append: nothing is written when
\* the history no longer starts with the seed.
Persisted ==
  IF IsPrefix(seed, msgs) THEN {SubSeq(msgs, 1, n) : n \in Len(seed)..Len(msgs)} ELSE {seed}

\* The process ends and the next one resumes what was persisted, with the model it is
\* started with and a new directory for spilled results.
Restart ==
  /\ phase = "idle" /\ restarts < MaxRestarts
  /\ restarts' = restarts + 1
  /\ seed' \in Persisted \ {<<>>}
  /\ msgs' = seed' /\ base' = numbered
  /\ model' \in Models
  /\ files' = <<>> /\ compacted' = "no" /\ cancelled' = FALSE
  /\ nextID' = IF PerProcessIDs THEN 1 ELSE nextID
  /\ UNCHANGED <<phase, request, projected, numbered, failures>>

Next == Prompt \/ Send \/ Reply \/ ToolsReturn \/ AbortedReply \/ BetweenTurns \/ Steer
          \/ Stop \/ Restart

Spec == Init /\ [][Next]_vars

----------------------------------------------------------------------------
(* Properties                                                              *)

PartIDs(turn, kind) ==
  LET parts == SelectSeq(turn.parts, LAMBDA p : p.kind = kind)
  IN [k \in DOMAIN parts |-> parts[k].id]

Answers(turn) == PartIDs(turn, "result") # <<>>

\* The ids answered right after turn k, in the turns that answer.
AnsweredAfter(turns, k) ==
  LET last == Max({j \in k..Len(turns) : \A i \in (k + 1)..j : Answers(turns[i])})
  IN FlattenSeq([i \in 1..(last - k) |-> PartIDs(turns[k + i], "result")])

\* Whatever cancelled, crashed, was summarised or changed its model before, every call in
\* a request is answered exactly once, in order and at once, and nothing else is: the
\* providers refuse any other request (transform pass 2, findValidCutPoints, the grouping
\* of results in convertMessages).
AnsweredOnce ==
  LET turns == request.turns
  IN \A k \in DOMAIN turns :
       /\ turns[k].role \in {"assistant", "model"} => AnsweredAfter(turns, k) = PartIDs(turns[k], "use")
       /\ Answers(turns[k]) =>
            /\ k > 1
            /\ turns[k - 1].role \in {"assistant", "model"}
                 \/ (model.api = "openai" /\ Answers(turns[k - 1]))
            /\ \A p \in DOMAIN turns[k].parts : turns[k].parts[p].kind = "result"

\* Thinking signed or redacted by one model and the signatures of its calls are never sent
\* to another one (transformAssistantMessage; google/convert.go: Google rejects them).
NoForeignSignature ==
  \A k \in DOMAIN request.turns :
    request.turns[k].by \notin {"", model.name} =>
      \A p \in DOMAIN request.turns[k].parts :
        request.turns[k].parts[p].kind # "thinking" /\ ~request.turns[k].parts[p].signed

\* The file a placeholder in a request points to holds the output of that very call
\* (spillToolResult).
PlaceholderIsFaithful ==
  phase = "wait" /\ projected =>
    \A i \in Cleared(msgs) :
      /\ SpillPath(msgs[i].id) \in DOMAIN files
      /\ files[SpillPath(msgs[i].id)] = msgs[i].n

\* Over any number of compactions each message of the conversation is either in the
\* history, in its place, or told by the summary that leads it, and never both
\* (PrepareCompaction's two parts, ApplyCompaction).
NothingForgotten ==
  /\ AllTold(msgs) = AllTold(seed) \cup (base + 1)..numbered
  /\ \A i \in DOMAIN msgs, j \in DOMAIN msgs :
       /\ i < j => msgs[i].n < msgs[j].n
       /\ IsUser(msgs[i]) => msgs[j].n \notin msgs[i].sum

\* A compaction makes no two user turns in a row where there were none (ApplyCompaction:
\* Anthropic rejects them).
UserPairs(s) == {i \in DOMAIN s : IsUser(s[i]) /\ i < Len(s) /\ IsUser(s[i + 1])}
CompactionKeepsTurns ==
  [][BetweenTurns => Cardinality(UserPairs(msgs')) <= Cardinality(UserPairs(msgs))]_vars

\* The estimate never falls short of what a projected request takes, although the usage it
\* starts from was reported for an earlier request, perhaps by another process, before
\* results were cleared or messages summarised.  So what the request takes and may produce
\* fits the context window, or the estimate leaves no more than the smallest answer
\* (EstimateContextTokens, clampMaxTokensToContext and the two clamps around thinking).
EstimateIsSafe ==
  LET estimate == EstimateRequest(ProjectToolResults(msgs))
  IN phase = "wait" /\ projected =>
       /\ request.size <= estimate
       /\ \/ request.size + request.max + ContextSafety <= ContextWindow
          \/ /\ request.max = MinMaxTokens
             /\ estimate + MinMaxTokens + ContextSafety > ContextWindow

\* The request that carries the results of a turn after which the hook let the history
\* stand leaves the reserve free; the hook's estimate knows of the system prompt and the
\* tools only from a reported usage (maybeCompact).
FitsAfterHook ==
  phase = "wait" /\ projected /\ IsResult(Last(msgs)) /\ compacted = "no" =>
    request.size + ReserveTokens <=
      ContextWindow + IF SelectLastInSeq(msgs, HasUsage) = 0 THEN SystemSize ELSE 0

=============================================================================
