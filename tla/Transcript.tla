----------------------------- MODULE Transcript -----------------------------
(***************************************************************************)
(* A conversation and the request built from it: the projection of old     *)
(* tool results (internal/compaction), the transform of the transcript for *)
(* its target model (internal/engine/transform) and the three wire forms   *)
(* (convertMessages of internal/provider/anthropic, openai and google).    *)
(*                                                                         *)
(* A message has a number n, its identity; the text of a block is left out *)
(* and the text of tool result n is n.  A model is a record [name, api,    *)
(* vision]; the source compares provider, API and model ID, which name     *)
(* stands for.                                                             *)
(*                                                                         *)
(* A definition introduced by "Defect:" is not part of the model.  It is   *)
(* the definition that follows it with a plausible bug.                    *)
(***************************************************************************)
EXTENDS Naturals, Sequences, SequencesExt, FiniteSets, FiniteSetsExt

CONSTANTS
  Awkward,      \* the tool call ids holding characters that Anthropic refuses
  ToolWindow    \* DefaultToolWindow: the newest tool results a request shows in full

----------------------------------------------------------------------------
(* Messages *)

\* signed: a call that carries a thought signature.
Block(kind, mark, id) == [kind |-> kind, mark |-> mark, id |-> id, signed |-> FALSE]
TextBlock == Block("text", "", 0)
ImageBlock == Block("image", "", 0)
CallBlock(id, tool) == Block("call", tool, id)

\* sum: the messages a summary inside this message stands for; files: the files
\* that summary lists.
UserMessage(n, size, content) ==
  [role |-> "user", n |-> n, size |-> size, content |-> content, sum |-> {},
   files |-> [read |-> {}, modified |-> {}]]

AssistantMessage(n, size, content, stop, usage, by) ==
  [role |-> "assistant", n |-> n, size |-> size, content |-> content,
   stop |-> stop, usage |-> usage, by |-> by]

ToolResult(n, size, id, content) ==
  [role |-> "toolResult", n |-> n, size |-> size, id |-> id, content |-> content]

IsUser(m) == m.role = "user"
IsAssistant(m) == m.role = "assistant"
IsResult(m) == m.role = "toolResult"
Calls(m) == SelectSeq(m.content, LAMBDA b : b.kind = "call")
Failed(m) == m.stop \in {"error", "aborted"}

----------------------------------------------------------------------------
(* Projection: compaction.ProjectToolResults.  Walking backward, every     *)
(* result beyond the window is written to a file named after its call and  *)
(* replaced by a placeholder with the path of the file.                    *)

\* The name of the file: a readable form of the id and a hash of the id.
SpillPath(id) == id

Cleared(msgs) ==
  {i \in DOMAIN msgs : /\ IsResult(msgs[i])
                       /\ Cardinality({j \in DOMAIN msgs : j > i /\ IsResult(msgs[j])})
                            >= ToolWindow}

ProjectToolResults(msgs) ==
  [i \in DOMAIN msgs |->
     IF i \in Cleared(msgs)
     THEN [msgs[i] EXCEPT !.size = 0,
                          !.content = <<Block("cleared", "", SpillPath(msgs[i].id))>>]
     ELSE msgs[i]]

\* The files after the walk came down to message from: results of calls with one id
\* share a file, and the oldest of them is written last.
SpillToolResults(files, msgs, from) ==
  LET written == {i \in Cleared(msgs) : i >= from}
      under(p) == {i \in written : SpillPath(msgs[i].id) = p}
      paths == {SpillPath(msgs[i].id) : i \in written}
  IN [p \in DOMAIN files \cup paths |->
        IF p \in paths THEN msgs[Min(under(p))].n ELSE files[p]]

----------------------------------------------------------------------------
(* transform.TransformMessages, first pass                                 *)

\* replaceImagesWithPlaceholder: adjacent images become one placeholder.
ReplaceImages(content) ==
  FoldLeft(LAMBDA out, b :
             IF b.kind # "image" THEN Append(out, b)
             ELSE IF out # <<>> /\ Last(out).kind = "omitted" THEN out
             ELSE Append(out, Block("omitted", "", 0)),
           <<>>, content)

DowngradeImages(m, model) ==
  IF model.vision \/ IsAssistant(m) THEN m
  ELSE [m EXCEPT !.content = ReplaceImages(@)]

\* normalizeToolCallID of Anthropic replaces the characters it refuses and cuts the
\* id at 64; two ids that differ are taken to differ afterwards.  The other two
\* providers send the id as it is.
NormalizeToolCallID(id, model) ==
  IF model.api = "anthropic" /\ id \in Awkward THEN <<"normal", id>> ELSE <<"id", id>>

\* transformAssistantMessage: thinking stays with the model that signed it, thinking with
\* neither text nor signature is dropped, and a call from another model loses its signature
\* and gets an id its target accepts.
TransformAssistant(m, model) ==
  LET same == m.by = model.name
      kept == SelectSeq(m.content, LAMBDA b : b.mark # "empty" /\ (same \/ b.mark # "redacted"))
      rewrite(b) ==
        CASE b.kind = "call"
               -> [b EXCEPT !.signed = same /\ @,
                            !.id = IF same THEN <<"id", b.id>>
                                           ELSE NormalizeToolCallID(b.id, model)]
          [] b.kind = "thinking" /\ ~same -> TextBlock
          [] OTHER -> b
  IN [m EXCEPT !.content = [k \in DOMAIN kept |-> rewrite(kept[k])]]

\* toolCallIDMap at message i: a result follows the call whose id was rewritten, in
\* any earlier message of another model.
ResultID(msgs, i, model) ==
  IF \E j \in 1..(i - 1) :
       /\ IsAssistant(msgs[j]) /\ msgs[j].by # model.name
       /\ \E k \in DOMAIN msgs[j].content :
            msgs[j].content[k].kind = "call" /\ msgs[j].content[k].id = msgs[i].id
  THEN NormalizeToolCallID(msgs[i].id, model)
  ELSE <<"id", msgs[i].id>>

FirstPass(msgs, model) ==
  [i \in DOMAIN msgs |->
     LET m == DowngradeImages(msgs[i], model)
     IN CASE IsAssistant(m) -> TransformAssistant(m, model)
          [] IsResult(m)    -> [m EXCEPT !.id = ResultID(msgs, i, model)]
          [] OTHER          -> m]

----------------------------------------------------------------------------
(* Second pass: failed replies are dropped and every call gets a result    *)


\* insertSyntheticToolResults: "No result provided" for each pending call without one.
InsertSynthetic(acc) ==
  LET missing == SelectSeq(acc.pending, LAMBDA c : c.id \notin acc.seen)
  IN [out |-> acc.out \o [k \in DOMAIN missing |->
                            ToolResult(0, 0, missing[k].id, <<Block("noResult", "", 0)>>)],
      pending |-> <<>>, seen |-> {}]

AddMessage(acc, m) ==
  IF IsResult(m)
  THEN [acc EXCEPT !.out = Append(@, m), !.seen = @ \cup {m.id}]
  ELSE LET settled == InsertSynthetic(acc)
       IN IF IsAssistant(m) /\ Failed(m) THEN settled
          ELSE [settled EXCEPT !.out = Append(@, m),
                               !.pending = IF IsAssistant(m) THEN Calls(m) ELSE <<>>]

TransformMessages(msgs, model) ==
  InsertSynthetic(FoldLeft(AddMessage, [out |-> <<>>, pending |-> <<>>, seen |-> {}],
                           FirstPass(msgs, model))).out

----------------------------------------------------------------------------
(* The wire forms: convertMessages of each provider.  A turn is [role, by, *)
(* parts]; by is the model that made an assistant turn.                    *)

Turn(role, by, parts) == [role |-> role, by |-> by, parts |-> parts]
ResultPart(m) == [kind |-> "result", id |-> m.id, content |-> m.content]
Answering(turn) == turn.role = "user" /\ \E k \in DOMAIN turn.parts : turn.parts[k].kind = "result"

\* The kind of part a block becomes, "" for none.  Anthropic: thinking without a
\* signature is sent as text.
AnthropicKind(b) ==
  CASE b.kind = "call" -> "use"
    [] b.kind = "thinking" /\ b.mark = "plain" -> "text"
    [] OTHER -> b.kind

\* OpenAI: no thinking.
OpenAIKind(b) ==
  CASE b.kind = "call" -> "use" [] b.kind = "thinking" -> "" [] OTHER -> b.kind

\* Gemini: redacted thinking has no text and is left out.
GoogleKind(b) ==
  CASE b.kind = "call" -> "use"
    [] b.kind = "thinking" /\ b.mark = "redacted" -> ""
    [] OTHER -> b.kind

PartKind(b, api) ==
  CASE api = "anthropic" -> AnthropicKind(b)
    [] api = "openai"    -> OpenAIKind(b)
    [] api = "google"    -> GoogleKind(b)

\* Only Gemini knows signed calls; its second look at the model of a reply sees what the
\* transform saw.
Parts(content, api) ==
  LET sent == SelectSeq(content, LAMBDA b : PartKind(b, api) # "")
  IN [k \in DOMAIN sent |-> [sent[k] EXCEPT !.kind = PartKind(sent[k], api),
                                            !.signed = @ /\ api = "google"]]

\* A message without a part is not sent.
AddTurn(turns, role, by, parts) ==
  IF parts = <<>> THEN turns ELSE Append(turns, Turn(role, by, parts))

\* Consecutive results share one user turn.
AddToUserTurn(turns, m) ==
  IF turns # <<>> /\ Answering(Last(turns))
  THEN [turns EXCEPT ![Len(turns)].parts = Append(@, ResultPart(m))]
  ELSE Append(turns, Turn("user", "", <<ResultPart(m)>>))

AnthropicTurn(turns, m) ==
  CASE IsResult(m)    -> AddToUserTurn(turns, m)
    [] IsAssistant(m) -> AddTurn(turns, "assistant", m.by, Parts(m.content, "anthropic"))
    [] OTHER          -> AddTurn(turns, "user", "", m.content)

\* OpenAI: a message for each result.
OpenAITurn(turns, m) ==
  CASE IsResult(m)    -> Append(turns, Turn("tool", "", <<ResultPart(m)>>))
    [] IsAssistant(m) -> AddTurn(turns, "assistant", m.by, Parts(m.content, "openai"))
    [] OTHER          -> AddTurn(turns, "user", "", m.content)

GoogleTurn(turns, m) ==
  CASE IsResult(m)    -> AddToUserTurn(turns, m)
    [] IsAssistant(m) -> AddTurn(turns, "model", m.by, Parts(m.content, "google"))
    [] OTHER          -> AddTurn(turns, "user", "", m.content)

ConvertMessages(msgs, model) ==
  LET transformed == TransformMessages(msgs, model)
  IN CASE model.api = "anthropic" -> FoldLeft(AnthropicTurn, <<>>, transformed)
       [] model.api = "openai"    -> FoldLeft(OpenAITurn, <<>>, transformed)
       [] model.api = "google"    -> FoldLeft(GoogleTurn, <<>>, transformed)
=============================================================================
