--------------------------- MODULE ProviderStream ---------------------------
(***************************************************************************)
(* One streaming request of a provider client: the goroutine runStream,    *)
(* its idle watchdog, the cancellation of the caller's context and the     *)
(* server.  provider says whose wire format is decoded; the life cycle is  *)
(* the same in the three clients except at the end of the stream.          *)
(*                                                                         *)
(* The server is external: it sends a well-formed answer of at most        *)
(* MaxFrags fragments and may be cut off, send an error frame or stall at  *)
(* any point.  log remembers the fragments it sent.                        *)
(*                                                                         *)
(* A definition introduced by "Defect:" is not part of the model.  It is   *)
(* the definition that follows it with a plausible bug.                    *)
(***************************************************************************)
EXTENDS StreamFold

CONSTANTS Providers,        \* which clients run: a subset of the three
          MaxFrags,         \* fragments an answer has at most
          MaxBlocks,        \* bracketed blocks or streamed calls it has at most
          Reasons           \* the finish reasons the server may give

ASSUME StreamAssumption ==
          /\ Providers \subseteq {"anthropic", "openai", "google"}
          /\ MaxFrags \in Nat /\ MaxBlocks \in Nat

VARIABLES provider, pc,
          cancelled,        \* parent.Err() # nil
          idle,             \* the watchdog: "armed", "fired" (idleFired set), "cancelled"
          fold,             \* the message under construction and the fold's tables
          queue,            \* stream events produced and not yet pushed
          failure,          \* why the stream is about to end with an error
          message,          \* output.ErrorMessage, by its kind
          view,             \* the AssistantBuilder and what has been pushed
          server, log       \* external: the server's progress, the fragments it sent

run == <<fold, queue, failure, message, view>>
vars == <<provider, pc, cancelled, idle, run, server, log>>

-----------------------------------------------------------------------------
(* External: the frames the server may send next, each with the fragments  *)
(* it brings and the server's next state.                                  *)

NewServer == [stage |-> "new", blocks |-> <<>>, reason |-> ""]

Frame(ev, sent, next) == [ev |-> ev, sent |-> sent, next |-> next]
Sent(kind, call) == <<[kind |-> kind, call |-> call]>>

Frag == <<Len(log) + 1>>                      \* the fragment the next frame brings
NewId == <<"call", Len(server.blocks) + 1>>
MayOpen == Len(server.blocks) < MaxBlocks
Optional == IF Len(log) < MaxFrags THEN {<<>>, Frag} ELSE {<<>>}
Required == Optional \ {<<>>}

\* Anthropic: bracketed blocks, then the stop reason, then message_stop.
AnthropicOpen(kind, frag) ==
    Frame([type |-> "content_block_start", index |-> Len(server.blocks), kind |-> kind,
           id |-> NewId, frag |-> frag],
          IF frag = <<>> THEN <<>> ELSE Sent("thinking", Len(server.blocks) + 1),
          [server EXCEPT !.blocks = Append(@, [kind |-> kind, open |-> TRUE])])

AnthropicInBody ==
    LET open == {b \in DOMAIN server.blocks : server.blocks[b].open}
        growing == {b \in open : server.blocks[b].kind # "redacted_thinking"}
        Kind(b) == AnthropicKind[server.blocks[b].kind] IN
    {AnthropicOpen(kind, <<>>) : kind \in IF MayOpen THEN {"text", "thinking", "tool_use"} ELSE {}}
    \cup {AnthropicOpen("redacted_thinking", frag) : frag \in IF MayOpen THEN Required ELSE {}}
    \cup {Frame([type |-> "content_block_delta", index |-> b - 1, kind |-> Kind(b), frag |-> frag],
                Sent(Kind(b), b), server) : b \in growing, frag \in Required}
    \cup {Frame([type |-> "content_block_stop", index |-> b - 1], <<>>,
                [server EXCEPT !.blocks[b].open = FALSE]) : b \in open}
    \cup {Frame([type |-> "message_delta", reason |-> reason], <<>>,
                [server EXCEPT !.stage = "reason", !.reason = reason])
             : reason \in IF open = {} THEN Reasons ELSE {}}

AnthropicFrames ==
    (CASE server.stage = "new" -> {Frame([type |-> "message_start"], <<>>, [server EXCEPT !.stage = "body"])}
       [] server.stage = "body" -> AnthropicInBody
       [] server.stage = "reason" -> {Frame([type |-> "message_stop"], <<>>, [server EXCEPT !.stage = "end"])}
       [] OTHER -> {}) \cup {Frame([type |-> "error"], <<>>, server)}

\* OpenAI: a call is announced with its id and continued by its index, or by
\* its id on endpoints that send no index.
OpenAIChunk(text, thinking, calls, reason) ==
    [text |-> text, thinking |-> thinking, calls |-> calls, reason |-> reason]

CallDelta(index, id, frag) == <<[index |-> index, id |-> id, frag |-> frag]>>

OpenAINew(indexed, frag) ==
    LET c == Len(server.blocks) + 1
    IN Frame(OpenAIChunk(<<>>, <<>>, CallDelta(IF indexed THEN c - 1 ELSE NoIndex, NewId, frag), ""),
             IF frag = <<>> THEN <<>> ELSE Sent("toolCall", c),
             [server EXCEPT !.blocks = Append(@, indexed)])

OpenAIMore(b, frag) ==
    Frame(OpenAIChunk(<<>>, <<>>, IF server.blocks[b] THEN CallDelta(b - 1, NoId, frag)
                                  ELSE CallDelta(NoIndex, <<"call", b>>, frag), ""),
          Sent("toolCall", b), server)

OpenAIStop(reason) == Frame(OpenAIChunk(<<>>, <<>>, <<>>, reason), <<>>,
                            [server EXCEPT !.stage = "end", !.reason = reason])

OpenAIFrames ==
    IF server.stage = "end" THEN {}
    ELSE {Frame(OpenAIChunk(frag, <<>>, <<>>, ""), Sent("text", 0), server) : frag \in Required}
         \cup {Frame(OpenAIChunk(<<>>, frag, <<>>, ""), Sent("thinking", 0), server) : frag \in Required}
         \cup {OpenAINew(indexed, frag) : indexed \in BOOLEAN, frag \in IF MayOpen THEN Optional ELSE {}}
         \cup {OpenAIMore(b, frag) : b \in DOMAIN server.blocks, frag \in Required}
         \cup {OpenAIStop(reason) : reason \in Reasons}

\* Gemini: a part, alone or with the finish reason; a call comes whole, with or
\* without an id, and ids may repeat; a last candidate may have no content.
GooglePart(kind, id, frag, reason) ==
    Frame([parts |-> <<[kind |-> kind, id |-> id, frag |-> frag]>>, empty |-> FALSE, reason |-> reason],
          Sent(kind, IF kind = "toolCall" THEN Len(log) + 1 ELSE 0),
          [server EXCEPT !.stage = IF reason = "" THEN @ ELSE "end", !.reason = reason])

GoogleEmpty(reason) == Frame([parts |-> <<>>, empty |-> TRUE, reason |-> reason], <<>>,
                             [server EXCEPT !.stage = "end", !.reason = reason])

GoogleFrames ==
    IF server.stage = "end" THEN {}
    ELSE {GooglePart(kind, NoId, frag, reason) :
             kind \in {"text", "thinking", "toolCall"}, frag \in Required, reason \in Reasons \cup {""}}
         \cup {GooglePart("toolCall", <<"given">>, frag, reason) :
                  frag \in Required, reason \in Reasons \cup {""}}
         \cup {GoogleEmpty(reason) : reason \in Reasons}

-----------------------------------------------------------------------------
Init == /\ provider \in Providers
        /\ pc = "prepare" /\ cancelled = FALSE /\ idle = "armed"
        /\ fold = NewFold /\ queue = <<>> /\ failure = "none" /\ message = "none"
        /\ view = [started |-> FALSE, blocks |-> <<>>, terminal |-> "none"]
        /\ server = NewServer /\ log = <<>>

\* Defect: the watchdog cancels nothing.
CtxOfCaller == cancelled

CtxDone == cancelled \/ idle = "cancelled"

\* The caller cancels, at any time.
Cancel == /\ ~cancelled
          /\ cancelled' = TRUE
          /\ UNCHANGED <<provider, pc, idle, run, server, log>>

\* watchIdle: idleFired is stored before the request context is cancelled; the
\* timer may win against any frame, and stops with the run.
WatchdogFires == /\ idle = "armed" /\ pc # "over"
                 /\ idle' = "fired"
                 /\ UNCHANGED <<provider, pc, cancelled, run, server, log>>

WatchdogCancels == /\ idle = "fired"
                   /\ idle' = "cancelled"
                   /\ UNCHANGED <<provider, pc, cancelled, run, server, log>>

Goto(next) == /\ pc' = next
              /\ UNCHANGED <<provider, cancelled, idle, run, server, log>>

FailWith(why) == /\ failure' = why
                 /\ pc' = "classify"
                 /\ UNCHANGED <<provider, cancelled, idle, fold, queue, message, view, server, log>>

\* No key, a refusing payload hook, a body that cannot be built: never sent.
Prepare == pc = "prepare" /\ (FailWith("refused") \/ Goto("request"))

\* http.DefaultClient.Do, the response hook and the status check, then start.
Respond == /\ pc = "request"
           /\ \/ FailWith("refused")
              \/ /\ pc' = "read"
                 /\ view' = [view EXCEPT !.started = TRUE]
                 /\ UNCHANGED <<provider, cancelled, idle, fold, queue, failure, message, server, log>>

\* One decoded frame is folded into the message before its events are pushed.
\* A frame already read is folded after a cancellation too.
Receive(frame, f) ==
    /\ fold' = f.st /\ queue' = f.events
    /\ failure' = IF f.failed THEN "transport" ELSE failure
    /\ pc' = IF f.failed THEN "classify" ELSE "read"
    /\ server' = frame.next /\ log' = log \o frame.sent
    /\ UNCHANGED <<provider, cancelled, idle, message, view>>

MayRead == pc = "read" /\ queue = <<>>

ReadAnthropic == /\ MayRead /\ provider = "anthropic"
                 /\ \E frame \in AnthropicFrames : Receive(frame, FoldAnthropic(frame.ev, fold))

ReadOpenAI == /\ MayRead /\ provider = "openai"
              /\ \E frame \in OpenAIFrames : Receive(frame, FoldOpenAI(frame.ev, fold))

ReadGoogle == /\ MayRead /\ provider = "google"
              /\ \E frame \in GoogleFrames : Receive(frame, FoldGoogle(frame.ev, fold))

\* The connection breaks.
Break == /\ pc = "request" \/ MayRead
         /\ FailWith("transport")

\* The request context is done: Do, Read or the check before a Read returns.
Interrupted == CtxDone /\ Break

\* The body ends cleanly: the blocks that have no end event yet get one.
Close(final) == /\ fold' = final.st /\ queue' = final.events
                /\ pc' = "closing"
                /\ UNCHANGED <<provider, cancelled, idle, failure, message, view, server, log>>

\* Anthropic brackets its blocks and its message: a missing stop is an error.
AnthropicEndsUnchecked == /\ MayRead /\ provider = "anthropic"
                          /\ Close(Folded(fold, <<>>))

AnthropicEnds == /\ MayRead /\ provider = "anthropic"
                 /\ IF fold.sawStart /\ ~fold.finished THEN FailWith("transport")
                    ELSE Close(Folded(fold, <<>>))

\* OpenAI: no finish reason is a truncation, unless the run was being stopped.
OpenAIEnds == /\ MayRead /\ provider = "openai"
              /\ IF ~fold.finished /\ ~cancelled /\ idle = "armed" THEN FailWith("truncated")
                 ELSE Close(FinalizeOpenAI(fold))

GoogleEnds == MayRead /\ provider = "google" /\ Close(FinalizeGoogle(fold))

-----------------------------------------------------------------------------
(* AssistantStream.Push folds each event into the builder's message.       *)
(* closed is kept beside it to say which blocks have had their end event.  *)

\* A block that an end event replaces by its own.
Whole(block) == [kind |-> block.kind, id |-> block.id, payload |-> block.payload,
                 parse |-> block.parse, closed |-> TRUE]

BuilderFold(v, ev) ==
    LET new == [kind |-> ev.block.kind, id |-> NoId, payload |-> <<>>, parse |-> "none", closed |-> FALSE]
        blocks == IF ev.index > Len(v.blocks) THEN Append(v.blocks, new) ELSE v.blocks
        old == blocks[ev.index]
        folded == CASE ev.type = "start" -> [old EXCEPT !.id = ev.block.id]
                    [] ev.type = "delta" -> [old EXCEPT !.payload = @ \o ev.delta]
                    [] ev.type = "end" -> Whole(ev.block)
    IN [v EXCEPT !.blocks = [blocks EXCEPT ![ev.index] = folded]]

PushEvent == /\ queue # <<>> /\ pc \in {"read", "closing"}
             /\ view' = BuilderFold(view, Head(queue))
             /\ queue' = Tail(queue)
             /\ UNCHANGED <<provider, pc, cancelled, idle, fold, failure, message, server, log>>

\* streamError reads the parent's state, then idleFired.
Classify == /\ pc = "classify"
            /\ message' = IF failure # "transport" THEN failure
                          ELSE IF cancelled THEN "cancelled"
                          ELSE IF idle # "armed" THEN "truncated" ELSE "transport"
            /\ pc' = "fail"
            /\ UNCHANGED <<provider, cancelled, idle, fold, queue, failure, view, server, log>>

Terminate(reason) == /\ view' = [view EXCEPT !.terminal = reason]
                     /\ pc' = "over"
                     /\ UNCHANGED <<provider, cancelled, idle, queue, failure, server, log>>

\* pushError: the aborted flag is a second, later read of the parent.
PushError == /\ pc = "fail"
             /\ LET reason == IF cancelled /\ failure # "truncated" THEN "aborted" ELSE "error"
                IN /\ fold' = [fold EXCEPT !.stop = reason]
                   /\ Terminate(reason)
             /\ message' = message

\* The end of runStream: a cancelled parent, then the answer's own error, else done.
PushTerminal == /\ pc = "closing" /\ queue = <<>>
                /\ LET reason == IF cancelled THEN "aborted" ELSE fold.stop
                   IN /\ fold' = [fold EXCEPT !.stop = reason]
                      /\ message' = IF cancelled THEN "cancelled"
                                    ELSE IF reason = "error" THEN "reason" ELSE message
                      /\ Terminate(reason)

-----------------------------------------------------------------------------
\* What the server and the network decide: nothing says they ever do.
Network == \/ Respond \/ Break
           \/ ReadAnthropic \/ ReadOpenAI \/ ReadGoogle
           \/ AnthropicEnds \/ OpenAIEnds \/ GoogleEnds

\* What the goroutine does by itself.
Client == Prepare \/ Interrupted \/ PushEvent \/ Classify \/ PushError \/ PushTerminal

Over == pc = "over" /\ UNCHANGED vars

Next == Cancel \/ WatchdogFires \/ WatchdogCancels \/ Network \/ Client \/ Over

\* The goroutine runs, the idle timer expires when nothing happens, and the
\* watchdog's two steps follow each other.  The network owes nothing.
Fairness == WF_vars(Client) /\ WF_vars(WatchdogFires) /\ WF_vars(WatchdogCancels)

Spec == Init /\ [][Next]_vars /\ Fairness

-----------------------------------------------------------------------------
DoneReasons == {"stop", "length", "toolUse"}
Finished == view.terminal \in DoneReasons

Shown(blocks) == [i \in DOMAIN blocks |->
                    [kind |-> blocks[i].kind, payload |-> blocks[i].payload,
                     closed |-> blocks[i].closed]]

\* Whatever the wire format, the pushed events follow the protocol the agent
\* loop and the retrier rely on: start first, blocks opened in order and closed
\* once, done only with every block closed, one terminal event and nothing after.
Feed == INSTANCE AssistantFeed WITH
            Fragments <- 1..MaxFrags, started <- view.started, terminal <- view.terminal,
            blocks <- Shown(view.blocks)
ImplementsAssistantFeed == Feed!Spec

\* What a consumer folds from the events alone (the builder, and the retrier's
\* own copy of it) never runs ahead of the provider's message, and is the
\* provider's message once it is done.
ViewIsMessage ==
    /\ Len(view.blocks) <= Len(fold.content)
    /\ \A i \in DOMAIN view.blocks :
          /\ IsPrefix(view.blocks[i].payload, fold.content[i].payload)
          /\ Finished => view.blocks[i] = Whole(fold.content[i])
    /\ Finished => Len(view.blocks) = Len(fold.content)

\* What a block's fragments were sent for: a call by its number, the server's block
\* (Anthropic), else the answer's text or reasoning.
CallOf(c, i) ==
    IF c[i].kind = "toolCall" THEN IF provider = "google" THEN c[i].payload[1] ELSE c[i].id[2]
    ELSE IF provider = "anthropic" THEN i ELSE 0

\* Every fragment is in a block of what it was sent for, once, and in the order sent.
FragmentsInPlace(c) ==
    /\ \A i \in DOMAIN c : \A m \in DOMAIN c[i].payload :
          LET n == c[i].payload[m]
          IN /\ n \in DOMAIN log /\ log[n] = [kind |-> c[i].kind, call |-> CallOf(c, i)]
             /\ \A k \in 1..m - 1 : c[i].payload[k] < n
    /\ \A n \in DOMAIN log : \E i \in DOMAIN c : n \in Range(c[i].payload)
    /\ \A i, j \in DOMAIN c : i < j /\ c[i].kind = c[j].kind /\ CallOf(c, i) = CallOf(c, j) =>
          \A m \in Range(c[i].payload), n \in Range(c[j].payload) : m < n

CallsMade == IF provider = "google" THEN {n \in DOMAIN log : log[n].kind = "toolCall"}
             ELSE IF provider = "openai" THEN DOMAIN server.blocks
             ELSE {b \in DOMAIN server.blocks : server.blocks[b].kind = "tool_use"}

\* Every call made is in the message once, under an id of its own, and parsed whole.
CallsInPlace(c) ==
    LET calls == {i \in DOMAIN c : c[i].kind = "toolCall"}
    IN /\ \A i \in calls : c[i].id # NoId
       /\ {CallOf(c, i) : i \in calls} = CallsMade
       /\ \A i \in calls : c[i].parse = IF provider = "google" THEN "given" ELSE "final"
       /\ \A i, j \in calls : i # j => c[i].id # c[j].id /\ CallOf(c, i) # CallOf(c, j)

\* A finished answer is what the server sent: every fragment once, in order, in
\* the text, the reasoning or the call it was sent for; each call parsed from
\* its whole argument text; no two calls with the same id.
FaithfulCopy == Finished => CallsInPlace(fold.content) /\ FragmentsInPlace(fold.content)

\* What consumers fold is the provider's message, and that is the server's (foldState,
\* Builder).
MessageIsFaithful == ViewIsMessage /\ FaithfulCopy

\* An answer that is reported done was completed by the server.  What the code
\* lets through is stated: a body without any message_start, a Gemini body
\* without a finish reason, and an OpenAI body that ends after the idle timer.
NoTruncatedDone == Finished =>
    \/ server.stage = "end"
    \/ provider = "anthropic" /\ server.stage = "new"
    \/ provider = "openai" /\ idle # "armed"
    \/ provider = "google"

\* Only the caller's cancellation is reported as an abort: not the watchdog's,
\* which cancels the same request context, and never a truncation.
AbortIsTheCallers == view.terminal = "aborted" => cancelled /\ failure # "truncated"

\* The terminal event tells how the request ended (runStream, pushError).
TerminalIsTrue == NoTruncatedDone /\ AbortIsTheCallers

\* Every request ends with its terminal event, though the server may stall for
\* ever: the watchdog cancels the request the client is blocked in.
StreamSettles == <>(view.terminal # "none")
=============================================================================
