----------------------------- MODULE StreamFold -----------------------------
(***************************************************************************)
(* The three wire formats: how the frames of an Anthropic, an OpenAI and a *)
(* Gemini response are folded into the message under construction and      *)
(* which stream events each frame produces.  A fold takes a frame and the  *)
(* fold state and returns [st, events, failed].                            *)
(*                                                                         *)
(* Text, reasoning and tool arguments are sequences of fragments.  The     *)
(* JSON a tool call ends up with is a function of its fragments, so a      *)
(* block carries the fragments and which parse was applied to them last:   *)
(* "streaming" (best effort, ParseStreamingJSON), "final" (with repair) or *)
(* "given" (the server's own value).                                       *)
(*                                                                         *)
(* A definition introduced by "Defect:" is not part of the model.  It is   *)
(* the definition that follows it with a plausible bug.                    *)
(***************************************************************************)
EXTENDS Integers, Sequences, FiniteSets, SequencesExt

NoId == <<>>
NoIndex == -1

Block(kind, id, payload, parse) == [kind |-> kind, id |-> id, payload |-> payload, parse |-> parse]
Text(kind, payload) == Block(kind, NoId, payload, "text")

\* A stream event: block is the block as it is opened or ended, delta what is
\* added to it.  Text opens empty; a tool call opens with its identity.
Opened(i, block) == [type |-> "start", index |-> i, block |-> [block EXCEPT !.payload = <<>>], delta |-> <<>>]
Grown(i, block, delta) == [type |-> "delta", index |-> i, block |-> block, delta |-> delta]
Ended(i, block) == [type |-> "end", index |-> i, block |-> block, delta |-> <<>>]

Folded(st, events) == [st |-> st, events |-> events, failed |-> FALSE]
Refused(st) == [st |-> st, events |-> <<>>, failed |-> TRUE]
Then(f, st, events) == [f EXCEPT !.st = st, !.events = @ \o events]

\* newOutputMessage and the fold states of the three providers in one record.
NewFold == [content |-> <<>>, stop |-> "stop", sawStart |-> FALSE, finished |-> FALSE,
            table |-> <<>>, current |-> 0, ids |-> {}, counter |-> 0]

Grow(st, i, frag) == [st EXCEPT !.content[i].payload = @ \o frag]
AddBlock(st, block) == [st EXCEPT !.content = Append(@, block)]

-----------------------------------------------------------------------------
(* Anthropic: blocks are addressed by the server's index.                  *)

AnthropicReason == [end_turn |-> "stop", pause_turn |-> "stop", stop_sequence |-> "stop",
                    max_tokens |-> "length", tool_use |-> "toolUse",
                    refusal |-> "error", sensitive |-> "error"]

AnthropicKind == [text |-> "text", thinking |-> "thinking",
                  redacted_thinking |-> "thinking", tool_use |-> "toolCall"]

\* The first registered block with this server index; 0 when there is none.
FindServer(st, index) == SelectInSeq(st.table, LAMBDA b : b.server = index)

AnthropicBlockStart(ev, st) ==
    LET i == Len(st.content) + 1
        kind == AnthropicKind[ev.kind]
        block == IF kind = "toolCall" THEN Block(kind, ev.id, <<>>, "given")
                 ELSE Text(kind, ev.frag)         \* redacted thinking comes whole
    IN Folded([AddBlock(st, block) EXCEPT
                 !.table = Append(@, [server |-> ev.index, content |-> i, partial |-> <<>>])],
              <<Opened(i, block)>>)

\* What is known of a call's arguments is parsed best effort.
Streamed(st, b, i, frag) == [Grow(st, i, frag) EXCEPT !.table[b].partial = @ \o frag,
                                                      !.content[i].parse = "streaming"]

\* A delta for an unknown block, or of the wrong kind for its block, is dropped.
AnthropicBlockDelta(ev, st) ==
    LET b == FindServer(st, ev.index)
        i == st.table[b].content
    IN IF b = 0 \/ st.content[i].kind # ev.kind THEN Folded(st, <<>>)
       ELSE Folded(IF ev.kind = "toolCall" THEN Streamed(st, b, i, ev.frag) ELSE Grow(st, i, ev.frag),
                   <<Grown(i, st.content[i], ev.frag)>>)

\* Defect: the end event is made before the final parse.
AnthropicBlockStopEarly(ev, st) ==
    LET b == FindServer(st, ev.index)
        i == st.table[b].content
        final == IF st.content[i].kind # "toolCall" THEN st
                 ELSE [st EXCEPT !.content[i].parse = "final"]
    IN IF b = 0 THEN Folded(st, <<>>) ELSE Folded(final, <<Ended(i, st.content[i])>>)

\* The arguments of a call are replaced by the final parse of their text.
Parsed(st, b, i) == [st EXCEPT !.content[i].parse = "final", !.content[i].payload = st.table[b].partial]

AnthropicBlockStop(ev, st) ==
    LET b == FindServer(st, ev.index)
        i == st.table[b].content
        final == IF st.content[i].kind = "toolCall" THEN Parsed(st, b, i) ELSE st
    IN IF b = 0 THEN Folded(st, <<>>) ELSE Folded(final, <<Ended(i, final.content[i])>>)

\* iterateAnthropicEvents and foldAnthropicEvent.
FoldAnthropic(ev, st) ==
    CASE ev.type = "error" -> Refused(st)
      [] ev.type = "message_start" -> Folded([st EXCEPT !.sawStart = TRUE], <<>>)
      [] ev.type = "message_stop" -> Folded([st EXCEPT !.finished = TRUE], <<>>)
      [] ev.type = "content_block_start" -> AnthropicBlockStart(ev, st)
      [] ev.type = "content_block_delta" -> AnthropicBlockDelta(ev, st)
      [] ev.type = "content_block_stop" -> AnthropicBlockStop(ev, st)
      [] ev.type = "message_delta" ->
            IF ev.reason \in DOMAIN AnthropicReason
            THEN Folded([st EXCEPT !.stop = AnthropicReason[ev.reason]], <<>>)
            ELSE Refused(st)

-----------------------------------------------------------------------------
(* OpenAI: one text block, one reasoning block, and tool calls found by    *)
(* their stream index, else by their id.                                   *)

OpenAIReason == [stop |-> "stop", end |-> "stop", length |-> "length",
                 tool_calls |-> "toolUse", function_call |-> "toolUse",
                 content_filter |-> "error", network_error |-> "error"]

OpenAIText(kind, frag, f) ==
    LET i == SelectLastInSeq(f.st.content, LAMBDA b : b.kind = kind)
        new == Len(f.st.content) + 1
    IN IF frag = <<>> THEN f
       ELSE IF i = 0
       THEN Then(f, AddBlock(f.st, Text(kind, frag)),
                 <<Opened(new, Text(kind, frag)), Grown(new, Text(kind, frag), frag)>>)
       ELSE Then(f, Grow(f.st, i, frag), <<Grown(i, Text(kind, frag), frag)>>)

\* The registered call this delta belongs to: by stream index, else by id.
FindCall(st, tc) ==
    LET byIndex == SelectInSeq(st.table, LAMBDA b : tc.index # NoIndex /\ b.index = tc.index)
        byId == SelectInSeq(st.table, LAMBDA b : tc.id # NoId /\ b.id = tc.id)
    IN IF byIndex # 0 THEN byIndex ELSE byId

\* A call seen for the first time, one whose id comes late, one whose arguments grow.
NewCall(tc) == Block("toolCall", tc.id, <<>>, "none")
Announced(st, tc) ==
    [AddBlock(st, NewCall(tc)) EXCEPT
       !.table = Append(@, [index |-> tc.index, id |-> tc.id,
                            content |-> Len(st.content) + 1, partial |-> <<>>])]
Identified(st, b, i, id) == [st EXCEPT !.content[i].id = id, !.table[b].id = id]
Argued(st, b, i, partial) == [st EXCEPT !.table[b].partial = partial,
                                        !.content[i] = [@ EXCEPT !.payload = partial, !.parse = "streaming"]]

\* A first sight creates and registers the block and falls through to the
\* arguments the same delta carries.
OpenAICall(tc, f) ==
    LET known == FindCall(f.st, tc)
        st1 == IF known # 0 THEN f.st ELSE Announced(f.st, tc)
        created == IF known # 0 THEN <<>> ELSE <<Opened(Len(f.st.content) + 1, NewCall(tc))>>
        b == IF known # 0 THEN known ELSE Len(st1.table)
        i == st1.table[b].content
        named == IF tc.id = NoId \/ st1.content[i].id # NoId THEN st1 ELSE Identified(st1, b, i, tc.id)
    IN IF tc.frag = <<>>
       THEN Then(f, named, created)
       ELSE Then(f, Argued(named, b, i, named.table[b].partial \o tc.frag),
                 created \o <<Grown(i, NewCall(tc), tc.frag)>>)

\* foldOpenAIChunk: the finish reason, then text, reasoning and calls in order.
FoldOpenAI(ev, st) ==
    LET reasoned == IF ev.reason = "" THEN st
                    ELSE [st EXCEPT !.stop = OpenAIReason[ev.reason], !.finished = TRUE]
        texts == OpenAIText("thinking", ev.thinking, OpenAIText("text", ev.text, Folded(reasoned, <<>>)))
        called[n \in 0..Len(ev.calls)] == IF n = 0 THEN texts ELSE OpenAICall(ev.calls[n], called[n - 1])
    IN IF ev.reason \notin DOMAIN OpenAIReason \cup {""} THEN Refused(st) ELSE called[Len(ev.calls)]

\* Defect: the stream is done without ending its blocks.
FinalizeNothing(st) == Folded(st, <<>>)

\* foldOpenAIFinalizeBlocks: an end event for every block, in order; a call the
\* tables still know gets the final parse.
FinalizeOpenAI(st) ==
    LET Registered(i) == \E b \in DOMAIN st.table :
                            /\ st.table[b].content = i
                            /\ st.table[b].index # NoIndex \/ st.table[b].id # NoId
        final == [st EXCEPT !.content = [i \in DOMAIN st.content |->
                    IF st.content[i].kind = "toolCall" /\ Registered(i)
                    THEN [st.content[i] EXCEPT !.parse = "final"] ELSE st.content[i]]]
    IN Folded(final, [i \in DOMAIN final.content |-> Ended(i, final.content[i])])

-----------------------------------------------------------------------------
(* Gemini: a text or reasoning block grows while it is the current one;    *)
(* function calls come whole.                                              *)

GoogleReason(reason) == CASE reason = "STOP" -> "stop"
                          [] reason = "MAX_TOKENS" -> "length"
                          [] OTHER -> "error"

GoogleText(part, f) ==
    LET cur == f.st.current
        new == Len(f.st.content) + 1
        block == Text(part.kind, part.frag)
    IN IF cur # 0 /\ f.st.content[cur].kind = part.kind
       THEN Then(f, Grow(f.st, cur, part.frag), <<Grown(cur, block, part.frag)>>)
       ELSE Then(f, [AddBlock(f.st, block) EXCEPT !.current = new],
                 <<Opened(new, block), Grown(new, block, part.frag)>>)

\* A missing or repeated id is replaced by one made from a process-wide counter.
GoogleCall(part, f) ==
    LET fresh == part.id = NoId \/ part.id \in f.st.ids
        counter == f.st.counter + (IF fresh THEN 1 ELSE 0)
        id == IF fresh THEN <<"name", counter>> ELSE part.id
        block == Block("toolCall", id, part.frag, "given")
        i == Len(f.st.content) + 1
    IN Then(f, [AddBlock(f.st, block) EXCEPT !.current = 0, !.counter = counter, !.ids = @ \cup {id}],
            <<Opened(i, block), Grown(i, block, part.frag), Ended(i, block)>>)

\* foldGoogleChunk: a candidate without content is skipped, its reason too.
FoldGoogle(ev, st) ==
    LET Part(part, f) == IF part.kind = "toolCall" THEN GoogleCall(part, f) ELSE GoogleText(part, f)
        taken[n \in 0..Len(ev.parts)] == IF n = 0 THEN Folded(st, <<>>) ELSE Part(ev.parts[n], taken[n - 1])
        parts == taken[Len(ev.parts)]
        calls == \E i \in DOMAIN parts.st.content : parts.st.content[i].kind = "toolCall"
    IN IF ev.reason = "" \/ ev.empty THEN parts
       ELSE [parts EXCEPT !.st.stop = IF calls THEN "toolUse" ELSE GoogleReason(ev.reason)]

\* foldGoogleFinalizeBlocks: text and reasoning blocks end with the stream.
FinalizeGoogle(st) ==
    LET ended[n \in 0..Len(st.content)] ==
            IF n = 0 THEN <<>>
            ELSE IF st.content[n].kind = "toolCall" THEN ended[n - 1]
            ELSE Append(ended[n - 1], Ended(n, st.content[n]))
    IN Folded([st EXCEPT !.current = 0], ended[Len(st.content)])
=============================================================================
