------------------------ MODULE ProviderStreamProofs ------------------------
(***************************************************************************)
(* One streaming request, proved for any number of fragments, blocks and   *)
(* finish reasons: its events implement AssistantFeed, its terminal event  *)
(* tells how it ended, and a finished answer is what the server sent.      *)
(***************************************************************************)
EXTENDS ProviderStream, NaturalRecursion, SequenceTheorems

Kinds == {"text", "thinking", "toolCall"}
Fragments == 1..MaxFrags
Payloads == Seq(Fragments)
Ids == {NoId, <<"given">>} \cup ({"call", "name"} \X Nat)
Parses == {"text", "given", "none", "streaming", "final"}

Blocks == [kind : Kinds, id : Ids, payload : Payloads, parse : Parses]
ViewBlocks == [kind : Kinds, id : Ids, payload : Payloads, parse : Parses, closed : BOOLEAN]
Events == [type : {"start", "delta", "end"}, index : Nat \ {0}, block : Blocks, delta : Payloads]

\* An entry of foldState's table, and of the OpenAI client's.
Registered == [server : Nat, content : Nat \ {0}, partial : Payloads]
StreamedCalls == [index : Int, id : Ids, content : Nat \ {0}, partial : Payloads]

Stops == {"stop", "length", "toolUse", "error", "aborted"}

FoldStates ==
  [content : Seq(Blocks), stop : Stops, sawStart : BOOLEAN, finished : BOOLEAN,
   table : Seq(Registered) \cup Seq(StreamedCalls), current : Nat, ids : SUBSET Ids,
   counter : Nat]

Views == [started : BOOLEAN, blocks : Seq(ViewBlocks), terminal : Stops \cup {"none"}]

\* External: a block of Anthropic's server, and whether a call of OpenAI's is indexed.
Brackets == [kind : DOMAIN AnthropicKind, open : BOOLEAN]

Servers ==
  [stage : {"new", "body", "reason", "end"}, blocks : Seq(Brackets) \cup Seq(BOOLEAN),
   reason : Reasons \cup {""}]

Sents == [kind : Kinds, call : Nat]

TypeInv ==
  /\ provider \in {"anthropic", "openai", "google"}
  /\ pc \in {"prepare", "request", "read", "closing", "classify", "fail", "over"}
  /\ cancelled \in BOOLEAN /\ idle \in {"armed", "fired", "cancelled"}
  /\ fold \in FoldStates /\ queue \in Seq(Events)
  /\ failure \in {"none", "refused", "transport", "truncated"}
  /\ view \in Views /\ server \in Servers /\ log \in Seq(Sents)

-----------------------------------------------------------------------------
(***************************************************************************)
(* The message c under construction, the blocks v that the events pushed   *)
(* so far make of it, and the events q that are still to be pushed.  w are *)
(* the blocks whose payload comes with their end: redacted reasoning.      *)
(***************************************************************************)
\* The payload pushed for block i.
Told(v, i) == IF i <= Len(v) THEN v[i].payload ELSE <<>>

Closed(v, i) == i <= Len(v) /\ v[i].closed

\* An event brings a block to where the message has it.
Tells(c, v, w, e) ==
  /\ e.index \in 1..Len(c) /\ ~ Closed(v, e.index)
  /\ e.type = "start" => /\ e.index = Len(v) + 1 /\ e.index = Len(c)
                         /\ e.block.kind = c[e.index].kind
  /\ e.type = "delta" => /\ e.index \notin w /\ Len(e.delta) = 1
                         /\ Told(v, e.index) \o e.delta = c[e.index].payload
  /\ e.type = "end" => e.block = c[e.index]

\* The events of one block are queued in this order: start, delta, end.
InOrder(e, f) ==
  /\ f.type # "start"
  /\ e.index = f.index => e.type # "end" /\ e.type # f.type

QueueOK(c, v, q, w) ==
  /\ \A n \in 1..Len(q) : Tells(c, v, w, q[n])
  /\ \A m, n \in 1..Len(q) : m < n => InOrder(q[m], q[n])

NoDelta(q, i) == \A n \in 1..Len(q) : q[n].index = i => q[n].type # "delta"

BlockOK(c, v, q, w, i) ==
  /\ i <= Len(v) => v[i].kind = c[i].kind
  /\ Closed(v, i) => v[i] = Whole(c[i])
  /\ ~ Closed(v, i) /\ i \in w => Told(v, i) = <<>> /\ Len(c[i].payload) = 1
  /\ ~ Closed(v, i) /\ i \notin w /\ NoDelta(q, i) => Told(v, i) = c[i].payload

ViewOK(c, v, q, w) ==
  /\ \/ Len(v) = Len(c)
     \/ Len(c) = Len(v) + 1 /\ q # <<>> /\ q[1].type = "start"
  /\ QueueOK(c, v, q, w)
  /\ \A i \in 1..Len(c) : BlockOK(c, v, q, w, i)

\* The blocks that are closed, or will be once the queue is pushed.
Closing(c, v, q) ==
  {i \in 1..Len(c) : Closed(v, i) \/ \E n \in 1..Len(q) : q[n].index = i /\ q[n].type = "end"}

Redacted(sv) == {i \in 1..Len(sv.blocks) : sv.blocks[i].kind = "redacted_thinking"}

Withheld == IF provider = "anthropic" THEN Redacted(server) ELSE {}

\* The tables of the three clients while they read, the blocks of the server sv, and
\* which blocks are closed.
AnthropicTables(st, sv, closing) ==
  /\ st.table \in Seq(Registered) /\ sv.blocks \in Seq(Brackets)
  /\ Len(st.table) = Len(sv.blocks) /\ Len(st.content) = Len(sv.blocks)
  /\ \A i \in 1..Len(sv.blocks) :
       /\ st.table[i].server = i - 1 /\ st.table[i].content = i
       /\ st.content[i].kind = AnthropicKind[sv.blocks[i].kind]
       /\ st.content[i].kind = "toolCall" => st.table[i].partial = st.content[i].payload
       /\ i \in closing <=> ~ sv.blocks[i].open
  /\ sv.stage = "new" => sv.blocks = <<>>
  /\ sv.stage \in {"reason", "end"} => \A i \in 1..Len(sv.blocks) : ~ sv.blocks[i].open
  /\ st.finished => sv.stage = "end"
  /\ ~ st.sawStart => sv.stage = "new"

OpenAITables(st, sv, closing) ==
  /\ st.table \in Seq(StreamedCalls) /\ sv.blocks \in Seq(BOOLEAN)
  /\ \A b \in 1..Len(st.table) :
       LET i == st.table[b].content IN
       /\ i <= Len(st.content) /\ st.content[i].kind = "toolCall"
       /\ st.table[b].partial = st.content[i].payload
  /\ \A a, b \in 1..Len(st.table) : st.table[a].content = st.table[b].content => a = b
  /\ closing = {}
  /\ st.finished => sv.stage = "end"

GoogleTables(st, closing) ==
  /\ st.current # 0 => /\ st.current <= Len(st.content)
                       /\ st.content[st.current].kind # "toolCall"
  /\ \A i \in 1..Len(st.content) : i \in closing <=> st.content[i].kind = "toolCall"

Tables(st, sv, closing) ==
  /\ provider = "anthropic" => AnthropicTables(st, sv, closing)
  /\ provider = "openai" => OpenAITables(st, sv, closing)
  /\ provider = "google" => GoogleTables(st, closing)

\* The blocks c hold the fragments l that were sent, each once, in order and in a block of
\* what it was sent for.
Ledger(c, l) ==
  /\ \A i \in 1..Len(c) : \A m \in 1..Len(c[i].payload) :
       /\ c[i].payload[m] \in 1..Len(l)
       /\ l[c[i].payload[m]] = [kind |-> c[i].kind, call |-> CallOf(c, i)]
       /\ \A k \in 1..m - 1 : c[i].payload[k] < c[i].payload[m]
  /\ \A n \in 1..Len(l) :
       \E i \in 1..Len(c) : \E m \in 1..Len(c[i].payload) : c[i].payload[m] = n
  /\ \A i, j \in 1..Len(c) :
       i < j /\ c[i].kind = c[j].kind /\ CallOf(c, i) = CallOf(c, j) =>
         \A m \in 1..Len(c[i].payload), k \in 1..Len(c[j].payload) :
            c[i].payload[m] < c[j].payload[k]

\* What the calls are known by while the three clients read.
AnthropicNames(st, sv) ==
  \A i \in 1..Len(st.content) : st.content[i].kind = "toolCall" =>
     /\ st.content[i].id = <<"call", i>>
     /\ sv.blocks[i].open \/ st.content[i].parse = "final"

OpenAINames(st, sv) ==
  /\ Len(st.table) = Len(sv.blocks)
  /\ \A b \in 1..Len(st.table) :
       /\ st.table[b].id = <<"call", b>> /\ st.content[st.table[b].content].id = <<"call", b>>
       /\ st.table[b].index = IF sv.blocks[b] THEN b - 1 ELSE NoIndex
  /\ \A i \in 1..Len(st.content) : st.content[i].kind = "toolCall" =>
       \E b \in 1..Len(st.table) : st.table[b].content = i
  /\ \A i, j \in 1..Len(st.content) :
       st.content[i].kind = st.content[j].kind /\ st.content[i].kind # "toolCall" => i = j

GoogleNames(st) ==
  /\ st.current \in {0, Len(st.content)}
  /\ \A i \in 1..Len(st.content) : st.content[i].kind = "toolCall" =>
       /\ st.content[i].id \in st.ids /\ st.content[i].parse = "given"
       /\ Len(st.content[i].payload) = 1
  /\ \A i, j \in 1..Len(st.content) :
       st.content[i].kind = "toolCall" /\ st.content[j].kind = "toolCall" /\ i # j =>
         st.content[i].id # st.content[j].id
  /\ \A k \in Nat : <<"name", k>> \in st.ids => k <= st.counter
  /\ NoId \notin st.ids

Names(st, sv) ==
  /\ provider = "anthropic" => AnthropicNames(st, sv)
  /\ provider = "openai" => OpenAINames(st, sv)
  /\ provider = "google" => GoogleNames(st)

Copied(st, sv, l) == Ledger(st.content, l) /\ Names(st, sv)

CopyInv ==
  /\ pc \notin {"closing", "over"} => Copied(fold, server, log)
  /\ pc = "closing" \/ Finished =>
       Ledger(fold.content, log) /\ CallsInPlace(fold.content)

\* Where the request is.
RequestInv ==
  /\ pc \in {"prepare", "request", "read", "closing"} => failure = "none"
  /\ pc \in {"read", "closing"} => view.started
  /\ pc \notin {"read", "closing"} => queue = <<>>
  /\ pc = "closing" => Closing(fold.content, view.blocks, queue) = 1..Len(fold.content)
  /\ pc = "closing" /\ provider = "anthropic" => server.stage \in {"new", "end"}
  /\ pc = "closing" /\ provider = "openai" => server.stage = "end" \/ cancelled \/ idle # "armed"
  /\ pc # "over" => view.terminal = "none" /\ fold.stop # "aborted"
  /\ Finished => /\ Len(view.blocks) = Len(fold.content)
                 /\ \A i \in 1..Len(fold.content) : Closed(view.blocks, i)

StreamInv ==
  /\ TypeInv
  /\ ViewOK(fold.content, view.blocks, queue, Withheld)
  /\ pc \notin {"closing", "over"} =>
       Tables(fold, server, Closing(fold.content, view.blocks, queue))
  /\ RequestInv /\ TerminalIsTrue /\ CopyInv

-----------------------------------------------------------------------------
(* What pushing an event does to the builder's blocks.                     *)

\* The builder's block e.index after the event e.
BuiltBlock(v, u, e) ==
  LET i == e.index IN
  /\ e.type = "start" => u[i].kind = e.block.kind /\ u[i].payload = <<>> /\ ~ u[i].closed
  /\ e.type = "delta" => /\ u[i].kind = v[i].kind /\ u[i].closed = v[i].closed
                         /\ u[i].payload = v[i].payload \o e.delta
  /\ e.type = "end" => u[i] = Whole(e.block)

Built(v, u, e) ==
  /\ Len(u) = IF e.type = "start" THEN Len(v) + 1 ELSE Len(v)
  /\ \A j \in 1..Len(v) : j # e.index => u[j] = v[j]
  /\ BuiltBlock(v, u, e)

LEMMA PayloadsJoin ==
  /\ <<>> \in Payloads /\ Len(<<>>) = 0
  /\ \A s \in Payloads : s \o <<>> = s /\ <<>> \o s = s /\ Len(s) \in Nat
  /\ \A s, t \in Payloads : s \o t \in Payloads
  /\ \A f \in Fragments : <<f>> \in Payloads /\ Len(<<f>>) = 1
BY DEF Payloads

LEMMA BuilderBuilds ==
  ASSUME NEW x \in Views, NEW e \in Events,
         e.type = "start" => e.index = Len(x.blocks) + 1,
         e.type # "start" => e.index <= Len(x.blocks)
  PROVE  /\ BuilderFold(x, e) \in Views
         /\ BuilderFold(x, e).started = x.started /\ BuilderFold(x, e).terminal = x.terminal
         /\ Built(x.blocks, BuilderFold(x, e).blocks, e)
<1> DEFINE v == x.blocks
           i == e.index
           new == [kind |-> e.block.kind, id |-> NoId, payload |-> <<>>, parse |-> "none",
                   closed |-> FALSE]
           grown == IF i > Len(v) THEN Append(v, new) ELSE v
           old == grown[i]
           folded == CASE e.type = "start" -> [old EXCEPT !.id = e.block.id]
                       [] e.type = "delta" -> [old EXCEPT !.payload = @ \o e.delta]
                       [] e.type = "end" -> Whole(e.block)
           u == [grown EXCEPT ![i] = folded]
<1>1. BuilderFold(x, e) = [x EXCEPT !.blocks = u]
  BY DEF BuilderFold
<1>2. /\ v \in Seq(ViewBlocks) /\ Len(v) \in Nat /\ i \in Nat \ {0} /\ e.block \in Blocks
      /\ e.delta \in Payloads /\ e.type \in {"start", "delta", "end"}
  BY DEF Views, Events
<1>3. new \in ViewBlocks
  BY <1>2, PayloadsJoin DEF ViewBlocks, Blocks, Ids, Parses
<1>4. /\ grown \in Seq(ViewBlocks) /\ i \in 1..Len(grown)
      /\ Len(grown) = IF e.type = "start" THEN Len(v) + 1 ELSE Len(v)
      /\ \A j \in 1..Len(v) : grown[j] = v[j]
      /\ e.type = "start" => old = new
  <2> HIDE DEF new, v, i
  <2>1. CASE e.type = "start"
    BY <1>2, <1>3, <2>1, AppendProperties DEF v, i
  <2>2. CASE e.type # "start"
    BY <1>2, <2>2 DEF v, i
  <2> QED BY <2>1, <2>2
<1>5. old \in ViewBlocks
  <2> HIDE DEF grown
  <2> QED BY <1>4
<1>6. /\ folded \in ViewBlocks
      /\ e.type = "start" => folded.kind = e.block.kind /\ folded.payload = <<>> /\ ~ folded.closed
      /\ e.type = "delta" => /\ folded.kind = old.kind /\ folded.closed = old.closed
                             /\ folded.payload = old.payload \o e.delta
      /\ e.type = "end" => folded = Whole(e.block)
  <2>1. CASE e.type = "start"
    <3>1. folded = [old EXCEPT !.id = e.block.id] /\ old = new
      BY <1>4, <2>1
    <3> HIDE DEF folded, old
    <3> QED BY <1>2, <1>3, <2>1, <3>1 DEF ViewBlocks, Blocks
  <2>2. CASE e.type = "delta"
    <3>1. folded = [old EXCEPT !.payload = old.payload \o e.delta]
      BY <2>2
    <3>2. old.payload \o e.delta \in Payloads
      BY <1>2, <1>5, PayloadsJoin DEF ViewBlocks
    <3> HIDE DEF folded, old
    <3> QED BY <1>5, <2>2, <3>1, <3>2 DEF ViewBlocks
  <2>3. CASE e.type = "end"
    <3>1. folded = Whole(e.block)
      BY <2>3
    <3> HIDE DEF folded
    <3> QED BY <1>2, <2>3, <3>1 DEF ViewBlocks, Blocks, Whole
  <2> QED BY <1>2, <2>1, <2>2, <2>3
<1>7. /\ u \in Seq(ViewBlocks) /\ Len(u) = Len(grown)
      /\ \A j \in 1..Len(grown) : u[j] = IF j = i THEN folded ELSE grown[j]
  <2> HIDE DEF folded, grown
  <2> QED BY <1>4, <1>6, ExceptSeq
<1>8. Built(v, u, e)
  <2> HIDE DEF folded, grown, u, v
  <2>1. /\ Len(u) = IF e.type = "start" THEN Len(v) + 1 ELSE Len(v)
        /\ \A j \in 1..Len(v) : j # i => u[j] = v[j]
    BY <1>2, <1>4, <1>7
  <2>2. u[i] = folded
    BY <1>4, <1>7
  <2>3. e.type # "start" => old = v[i]
    BY <1>2, <1>4 DEF v
  <2>4. BuiltBlock(v, u, e)
    BY <1>6, <2>2, <2>3 DEF BuiltBlock
  <2> QED BY <2>1, <2>4 DEF Built
<1>9. [x EXCEPT !.blocks = u] \in Views /\ [x EXCEPT !.blocks = u].blocks = u
      /\ [x EXCEPT !.blocks = u].started = x.started
      /\ [x EXCEPT !.blocks = u].terminal = x.terminal
  <2> HIDE DEF u
  <2> QED BY <1>7 DEF Views
<1> HIDE DEF u
<1> QED BY <1>1, <1>8, <1>9

\* Pushing the first event of the queue brings the blocks nearer to the message.
LEMMA PushKeeps ==
  ASSUME NEW c \in Seq(Blocks), NEW v \in Seq(ViewBlocks), NEW u \in Seq(ViewBlocks),
         NEW q \in Seq(Events), q # <<>>, NEW w, ViewOK(c, v, q, w), Built(v, u, q[1])
  PROVE  ViewOK(c, u, Tail(q), w) /\ Closing(c, u, Tail(q)) = Closing(c, v, q)
<1> DEFINE e == q[1]
           i == e.index
           r == Tail(q)
<1>1. /\ Len(c) \in Nat /\ Len(v) \in Nat /\ Len(u) \in Nat /\ Len(q) \in Nat \ {0}
      /\ e \in Events /\ 1 \in 1..Len(q)
      /\ r \in Seq(Events) /\ Len(r) = Len(q) - 1 /\ \A n \in 1..Len(r) : r[n] = q[n + 1]
  BY EmptySeq, HeadTailProperties
<1>2. e.type \in {"start", "delta", "end"} /\ i \in Nat \ {0}
  BY <1>1 DEF Events
<1> HIDE DEF r
<1>3. /\ Tells(c, v, w, e)
      /\ \A n \in 1..Len(r) : Tells(c, v, w, r[n]) /\ InOrder(e, r[n])
      /\ \A m, n \in 1..Len(r) : m < n => InOrder(r[m], r[n])
      /\ \A n \in 1..Len(r) : r[n].type # "start"
  <2>1. /\ \A n \in 1..Len(q) : Tells(c, v, w, q[n])
        /\ \A m, n \in 1..Len(q) : m < n => InOrder(q[m], q[n])
    BY DEF ViewOK, QueueOK
  <2>2. /\ \A n \in 1..Len(r) : n + 1 \in 1..Len(q) /\ r[n] = q[n + 1] /\ 1 < n + 1
        /\ \A m, n \in 1..Len(r) : m < n => m + 1 < n + 1
    BY <1>1
  <2>3. \A n \in 1..Len(r) : InOrder(e, r[n])
    BY <1>1, <2>1, <2>2
  <2>4. \A n \in 1..Len(r) : r[n].type # "start"
    BY <2>3 DEF InOrder
  <2>5. \A m, n \in 1..Len(r) : m < n => InOrder(r[m], r[n])
    BY <2>1, <2>2
  <2> QED BY <1>1, <2>1, <2>2, <2>3, <2>4, <2>5
<1>4. /\ e.type = "start" => i = Len(v) + 1 /\ i = Len(c) /\ Len(u) = Len(v) + 1
      /\ e.type # "start" => Len(v) = Len(c) /\ i <= Len(v) /\ Len(u) = Len(v)
      /\ i \in 1..Len(c)
  BY <1>1, <1>2, <1>3 DEF ViewOK, Tells, Built
<1>5. Len(u) = Len(c)
  BY <1>1, <1>2, <1>4
<1>6. /\ \A j \in 1..Len(c) : j # i => j <= Len(v) /\ u[j] = v[j]
      /\ BuiltBlock(v, u, e)
  BY <1>1, <1>4 DEF Built
<1>7. \A j \in 1..Len(c) : j # i => Told(u, j) = Told(v, j) /\ (Closed(u, j) <=> Closed(v, j))
  BY <1>1, <1>5, <1>6 DEF Told, Closed
<1>8. /\ e.type # "end" => ~ Closed(u, i) /\ ~ Closed(v, i)
      /\ e.type = "end" => Closed(u, i)
      /\ e.type = "start" => Told(u, i) = Told(v, i) /\ Told(u, i) = <<>>
      /\ e.type = "delta" => Told(u, i) = Told(v, i) \o e.delta
  <2>1. ~ Closed(v, i)
    BY <1>3 DEF Tells
  <2>2. CASE e.type = "start"
    BY <1>1, <1>4, <1>5, <1>6, <2>1, <2>2 DEF Told, Closed, BuiltBlock
  <2>3. CASE e.type = "delta"
    BY <1>1, <1>4, <1>5, <1>6, <2>1, <2>3 DEF Told, Closed, BuiltBlock
  <2>4. CASE e.type = "end"
    BY <1>1, <1>4, <1>5, <1>6, <2>4 DEF Closed, BuiltBlock, Whole
  <2> QED BY <1>2, <2>1, <2>2, <2>3, <2>4
<1>9. \A n \in 1..Len(r) : Tells(c, u, w, r[n])
  <2> SUFFICES ASSUME NEW n \in 1..Len(r) PROVE Tells(c, u, w, r[n])
    OBVIOUS
  <2> DEFINE f == r[n]
             j == f.index
  <2>0. f \in Events
    BY <1>1
  <2>1. f.type \in {"start", "delta", "end"}
    BY <2>0 DEF Events
  <2>2. Tells(c, v, w, f) /\ InOrder(e, f) /\ f.type # "start"
    BY <1>3
  <2> HIDE DEF f
  <2>6. /\ j \in 1..Len(c) /\ ~ Closed(v, j)
        /\ f.type = "delta" => /\ j \notin w /\ Len(f.delta) = 1
                               /\ Told(v, j) \o f.delta = c[j].payload
        /\ f.type = "end" => f.block = c[j]
    BY <2>2 DEF Tells
  <2>3. CASE j # i
    <3>1. Told(u, j) = Told(v, j) /\ ~ Closed(u, j)
      BY <1>7, <2>3, <2>6
    <3> QED BY <2>2, <2>6, <3>1 DEF Tells, f
  <2>4. CASE j = i
    <3>1. e.type # "end" /\ e.type # f.type
      BY <2>2, <2>4 DEF InOrder
    <3>2. CASE f.type = "end"
      <4>1. ~ Closed(u, j)
        BY <1>8, <2>4, <3>1
      <4> QED BY <2>6, <3>2, <4>1 DEF Tells, f
    <3>3. CASE f.type = "delta"
      <4>1. e.type = "start"
        BY <1>2, <3>1, <3>3
      <4>2. Told(u, j) = Told(v, j) /\ ~ Closed(u, j)
        BY <1>8, <2>4, <4>1
      <4> QED BY <2>6, <3>3, <4>2 DEF Tells, f
    <3> QED BY <2>1, <2>2, <3>2, <3>3
  <2>5. QED BY <2>3, <2>4 DEF f
<1>10. QueueOK(c, u, r, w)
  BY <1>3, <1>9 DEF QueueOK
<1>11. \A j \in 1..Len(c) : BlockOK(c, v, q, w, j)
  BY DEF ViewOK
<1>12. \A j \in 1..Len(c) : j # i => (NoDelta(r, j) <=> NoDelta(q, j))
  <2> SUFFICES ASSUME NEW j \in 1..Len(c), j # i PROVE NoDelta(r, j) <=> NoDelta(q, j)
    OBVIOUS
  <2>1. \A n \in 1..Len(q) : n = 1 \/ (n - 1 \in 1..Len(r) /\ q[n] = r[n - 1])
    BY <1>1
  <2>2. \A n \in 1..Len(r) : n + 1 \in 1..Len(q) /\ r[n] = q[n + 1]
    BY <1>1
  <2>3. NoDelta(r, j) => NoDelta(q, j)
    BY <2>1 DEF NoDelta
  <2>4. NoDelta(q, j) => NoDelta(r, j)
    BY <2>2 DEF NoDelta
  <2> QED BY <2>3, <2>4
<1>13. ASSUME NEW j \in 1..Len(c) PROVE BlockOK(c, u, r, w, j)
  <2>1. BlockOK(c, v, q, w, j)
    BY <1>11
  <2>2. CASE j # i
    BY <1>5, <1>6, <1>7, <1>12, <2>1, <2>2 DEF BlockOK
  <2>3. CASE j = i
    <3>1. CASE e.type = "start"
      <4>1. /\ u[i].kind = c[i].kind /\ ~ Closed(v, i) /\ Told(v, i) = <<>> /\ Told(u, i) = <<>>
            /\ ~ Closed(u, i)
        BY <1>3, <1>6, <1>8, <3>1 DEF BuiltBlock, Tells
      <4>2. NoDelta(r, i) => NoDelta(q, i)
        <5>1. \A n \in 1..Len(q) : n = 1 \/ (n - 1 \in 1..Len(r) /\ q[n] = r[n - 1])
          BY <1>1
        <5> QED BY <3>1, <5>1 DEF NoDelta
      <4> QED BY <2>1, <2>3, <4>1, <4>2 DEF BlockOK
    <3>2. CASE e.type = "delta"
      <4>1. /\ u[i].kind = v[i].kind /\ v[i].kind = c[i].kind /\ ~ Closed(u, i) /\ i \notin w
            /\ Told(u, i) = c[i].payload
        BY <1>3, <1>4, <1>6, <1>8, <2>1, <2>3, <3>2 DEF BuiltBlock, Tells, BlockOK
      <4> QED BY <2>3, <4>1 DEF BlockOK
    <3>3. CASE e.type = "end"
      <4>1. u[i] = Whole(c[i]) /\ Closed(u, i)
        BY <1>3, <1>6, <1>8, <3>3 DEF BuiltBlock, Tells
      <4> QED BY <2>3, <4>1 DEF BlockOK, Whole
    <3> QED BY <1>2, <3>1, <3>2, <3>3
  <2> QED BY <2>2, <2>3
<1>14. ViewOK(c, u, r, w)
  BY <1>5, <1>10, <1>13 DEF ViewOK
<1>15. ASSUME NEW j \in 1..Len(c) PROVE j \in Closing(c, u, r) <=> j \in Closing(c, v, q)
  <2>1. \A n \in 1..Len(q) : n = 1 \/ (n - 1 \in 1..Len(r) /\ q[n] = r[n - 1])
    BY <1>1
  <2>2. \A n \in 1..Len(r) : n + 1 \in 1..Len(q) /\ r[n] = q[n + 1]
    BY <1>1
  <2>3. CASE j = i /\ e.type = "end"
    <3>1. Closed(u, j)
      BY <1>8, <2>3
    <3> QED BY <1>1, <2>3, <3>1 DEF Closing
  <2>4. CASE j # i \/ e.type # "end"
    <3>1. Closed(u, j) <=> Closed(v, j)
      BY <1>7, <1>8, <2>4
    <3>2. (\E n \in 1..Len(q) : q[n].index = j /\ q[n].type = "end")
            <=> \E n \in 1..Len(r) : r[n].index = j /\ r[n].type = "end"
      BY <2>1, <2>2, <2>4
    <3> QED BY <3>1, <3>2 DEF Closing
  <2> QED BY <2>3, <2>4
<1>16. Closing(c, u, r) = Closing(c, v, q)
  BY <1>15 DEF Closing
<1> QED BY <1>14, <1>16 DEF r

-----------------------------------------------------------------------------
(***************************************************************************)
(* What a frame does to the message, the queue being empty: from c to d,   *)
(* with the events q to be pushed.  z are the blocks then withheld.        *)
(***************************************************************************)
\* Block i grows by x; its id and its parse may change.
Changed(c, d, i, x) ==
  /\ Len(d) = Len(c) /\ i \in 1..Len(c)
  /\ \A j \in 1..Len(c) : j # i => d[j] = c[j]
  /\ d[i].kind = c[i].kind /\ d[i].payload = c[i].payload \o x

Rests(c, d, v, q, w, z) ==
  /\ q = <<>> /\ z = w
  /\ d = c \/ \E i \in 1..Len(c) : ~ Closed(v, i) /\ Changed(c, d, i, <<>>)

Grows(c, d, v, q, w, z) ==
  \E i \in 1..Len(c), f \in Fragments, b \in Blocks :
    /\ ~ Closed(v, i) /\ i \notin w /\ z = w
    /\ Changed(c, d, i, <<f>>) /\ q = <<Grown(i, b, <<f>>)>>

EndsOne(c, d, v, q, w, z, i) ==
  /\ i \in 1..Len(c) /\ ~ Closed(v, i) /\ z = w
  /\ Changed(c, d, i, <<>>) /\ q = <<Ended(i, d[i])>>

\* A new block, whose payload is empty, withheld or told at once; o and g are the blocks
\* its events carry.
Opens(c, d, v, q, w, z) ==
  \E b \in Blocks, o \in Blocks, g \in Blocks :
    /\ d = Append(c, b) /\ o.kind = b.kind
    /\ \/ /\ b.payload = <<>> /\ z = w
          /\ q = <<Opened(Len(c) + 1, o)>>
       \/ /\ Len(b.payload) = 1 /\ z = w \cup {Len(c) + 1}
          /\ q = <<Opened(Len(c) + 1, o)>>
       \/ /\ Len(b.payload) = 1 /\ z = w
          /\ q = <<Opened(Len(c) + 1, o), Grown(Len(c) + 1, g, b.payload)>>

OpensAndEnds(c, d, v, q, w, z) ==
  \E b \in Blocks :
    /\ d = Append(c, b) /\ Len(b.payload) = 1 /\ z = w
    /\ q = <<Opened(Len(c) + 1, b), Grown(Len(c) + 1, b, b.payload), Ended(Len(c) + 1, b)>>

\* With an empty queue the blocks pushed are those of the message.
Level(c, v, w) ==
  /\ Len(v) = Len(c)
  /\ \A i \in 1..Len(c) :
       /\ v[i].kind = c[i].kind
       /\ v[i].closed => v[i] = Whole(c[i])
       /\ ~ v[i].closed /\ i \in w => v[i].payload = <<>> /\ Len(c[i].payload) = 1
       /\ ~ v[i].closed /\ i \notin w => v[i].payload = c[i].payload

LEMMA NothingQueued ==
  ASSUME NEW c \in Seq(Blocks), NEW v \in Seq(ViewBlocks), NEW w
  PROVE  /\ ViewOK(c, v, <<>>, w) <=> Level(c, v, w)
         /\ Len(v) = Len(c) =>
              /\ Closing(c, v, <<>>) = {i \in 1..Len(c) : v[i].closed}
              /\ \A i \in 1..Len(c) : Closed(v, i) <=> v[i].closed
<1>1. Len(<<>>) = 0 /\ 1..0 = {} /\ Len(c) \in Nat /\ Len(v) \in Nat
  OBVIOUS
<1>2. QueueOK(c, v, <<>>, w) /\ \A i : NoDelta(<<>>, i)
  BY <1>1 DEF QueueOK, NoDelta
<1>3. Len(v) = Len(c) =>
        \A i \in 1..Len(c) : /\ i <= Len(v) /\ Told(v, i) = v[i].payload
                             /\ Closed(v, i) <=> v[i].closed
  BY <1>1 DEF Told, Closed
<1>4. ASSUME Len(v) = Len(c)
      PROVE  (\A i \in 1..Len(c) : BlockOK(c, v, <<>>, w, i)) <=> Level(c, v, w)
  BY <1>2, <1>3, <1>4 DEF BlockOK, Level
<1>5. ViewOK(c, v, <<>>, w) <=> Level(c, v, w)
  <2>1. ViewOK(c, v, <<>>, w) => Len(v) = Len(c)
    BY DEF ViewOK
  <2>2. Level(c, v, w) => Len(v) = Len(c)
    BY DEF Level
  <2> QED BY <1>2, <1>4, <2>1, <2>2 DEF ViewOK
<1>6. Len(v) = Len(c) => Closing(c, v, <<>>) = {i \in 1..Len(c) : v[i].closed}
  BY <1>1, <1>3 DEF Closing
<1> QED BY <1>3, <1>5, <1>6

LEMMA RestsKeeps ==
  ASSUME NEW c \in Seq(Blocks), NEW d \in Seq(Blocks), NEW v \in Seq(ViewBlocks), NEW q,
         NEW w, NEW z, Level(c, v, w), Rests(c, d, v, q, w, z)
  PROVE  ViewOK(d, v, q, z) /\ Closing(d, v, q) = Closing(c, v, <<>>) /\ Len(d) = Len(c)
<1>1. q = <<>> /\ z = w /\ Len(d) = Len(c) /\ Len(v) = Len(c) /\ Len(c) \in Nat
  BY DEF Rests, Changed, Level
<1>2. ASSUME NEW j \in 1..Len(c)
      PROVE  d[j].kind = c[j].kind /\ d[j].payload = c[j].payload /\ (v[j].closed => d[j] = c[j])
  <2>1. CASE d = c
    BY <2>1
  <2>2. CASE d # c
    <3>1. PICK i \in 1..Len(c) : ~ Closed(v, i) /\ Changed(c, d, i, <<>>)
      BY <2>2 DEF Rests
    <3>2. c[i].payload \o <<>> = c[i].payload /\ ~ v[i].closed
      BY <1>1, <3>1, PayloadsJoin DEF Blocks, Closed
    <3> QED BY <3>1, <3>2 DEF Changed
  <2> QED BY <2>1, <2>2
<1>3. Level(d, v, z)
  BY <1>1, <1>2 DEF Level
<1> QED BY <1>1, <1>3, NothingQueued

\* A queue of one event, and the fields of events.
LEMMA OneEvent ==
  \A e : /\ Len(<<e>>) = 1 /\ <<e>>[1] = e
         /\ \A i : NoDelta(<<e>>, i) <=> (e.index = i => e.type # "delta")
         /\ \A c, v, w : QueueOK(c, v, <<e>>, w) <=> Tells(c, v, w, e)
<1> SUFFICES ASSUME NEW e
             PROVE  /\ Len(<<e>>) = 1 /\ <<e>>[1] = e
                    /\ \A i : NoDelta(<<e>>, i) <=> (e.index = i => e.type # "delta")
                    /\ \A c, v, w : QueueOK(c, v, <<e>>, w) <=> Tells(c, v, w, e)
  BY Zenon
<1>1. Len(<<e>>) = 1 /\ <<e>>[1] = e /\ \A n \in 1..1 : n = 1
  OBVIOUS
<1>2. \A i : NoDelta(<<e>>, i) <=> (e.index = i => e.type # "delta")
  BY <1>1 DEF NoDelta
<1>3. \A c, v, w : QueueOK(c, v, <<e>>, w) <=> Tells(c, v, w, e)
  BY <1>1 DEF QueueOK
<1> QED BY <1>1, <1>2, <1>3

LEMMA EventFields ==
  \A i : \A b : \A x :
    /\ Opened(i, b).type = "start" /\ Opened(i, b).index = i
    /\ Grown(i, b, x).type = "delta" /\ Grown(i, b, x).index = i /\ Grown(i, b, x).delta = x
    /\ Ended(i, b).type = "end" /\ Ended(i, b).index = i /\ Ended(i, b).block = b
    /\ b \in Blocks => Opened(i, b).block.kind = b.kind
BY DEF Opened, Grown, Ended, Blocks

\* The blocks of an open message that do not change keep their place.
LEMMA GrowsKeeps ==
  ASSUME NEW c \in Seq(Blocks), NEW d \in Seq(Blocks), NEW v \in Seq(ViewBlocks), NEW q,
         NEW w, NEW z, Level(c, v, w), Grows(c, d, v, q, w, z)
  PROVE  ViewOK(d, v, q, z) /\ Closing(d, v, q) = Closing(c, v, <<>>)
<1>1. PICK i \in 1..Len(c) : \E f \in Fragments, b \in Blocks :
         /\ ~ Closed(v, i) /\ i \notin w /\ z = w
         /\ Changed(c, d, i, <<f>>) /\ q = <<Grown(i, b, <<f>>)>>
  BY DEF Grows
<1>2. PICK f \in Fragments, b \in Blocks :
         /\ ~ Closed(v, i) /\ i \notin w /\ z = w
         /\ Changed(c, d, i, <<f>>) /\ q = <<Grown(i, b, <<f>>)>>
  BY <1>1
<1> DEFINE e == Grown(i, b, <<f>>)
<1>3. e.type = "delta" /\ e.index = i /\ e.delta = <<f>> /\ q = <<e>>
  BY <1>2 DEF Grown
<1> HIDE DEF e
<1>4. /\ Len(v) = Len(c) /\ Len(d) = Len(c) /\ Len(c) \in Nat /\ Len(<<f>>) = 1
      /\ \A j \in 1..Len(c) : Told(v, j) = v[j].payload /\ (Closed(v, j) <=> v[j].closed)
  BY <1>2, PayloadsJoin DEF Level, Changed, Told, Closed
<1>5. Tells(d, v, w, e)
  <2>1. v[i].payload = c[i].payload /\ d[i].payload = c[i].payload \o <<f>>
    BY <1>2, <1>4 DEF Level, Changed
  <2> QED BY <1>2, <1>3, <1>4, <2>1 DEF Tells
<1>6. QueueOK(d, v, q, w)
  BY <1>3, <1>5, OneEvent, Zenon
<1>7. NoDelta(q, i) = FALSE
  BY <1>3, OneEvent
<1>8. ASSUME NEW j \in 1..Len(d) PROVE BlockOK(d, v, q, w, j)
  <2>1. j \in 1..Len(c) /\ d[j].kind = c[j].kind /\ (j # i => d[j] = c[j])
    BY <1>2, <1>4 DEF Changed
  <2> QED BY <1>2, <1>4, <1>7, <2>1 DEF Level, BlockOK
<1>9. ViewOK(d, v, q, z)
  BY <1>2, <1>4, <1>6, <1>8 DEF ViewOK
<1>10. Closing(d, v, q) = {j \in 1..Len(c) : Closed(v, j)}
  <2>1. Len(q) = 1 /\ q[1].type # "end" /\ \A n \in 1..1 : n = 1
    BY <1>3, OneEvent
  <2> QED BY <1>4, <2>1 DEF Closing
<1>11. Closing(c, v, <<>>) = {j \in 1..Len(c) : Closed(v, j)}
  BY DEF Closing
<1> QED BY <1>9, <1>10, <1>11

LEMMA EndsOneKeeps ==
  ASSUME NEW c \in Seq(Blocks), NEW d \in Seq(Blocks), NEW v \in Seq(ViewBlocks), NEW q,
         NEW w, NEW z, NEW i, Level(c, v, w), EndsOne(c, d, v, q, w, z, i)
  PROVE  ViewOK(d, v, q, z) /\ Closing(d, v, q) = Closing(c, v, <<>>) \cup {i}
<1>1. /\ i \in 1..Len(c) /\ ~ Closed(v, i) /\ z = w
      /\ Changed(c, d, i, <<>>) /\ q = <<Ended(i, d[i])>>
  BY DEF EndsOne
<1> DEFINE e == Ended(i, d[i])
<1>2. e.type = "end" /\ e.index = i /\ e.block = d[i] /\ q = <<e>>
  BY <1>1 DEF Ended
<1> HIDE DEF e
<1>3. /\ Len(v) = Len(c) /\ Len(d) = Len(c) /\ Len(c) \in Nat
      /\ \A j \in 1..Len(c) : Told(v, j) = v[j].payload /\ (Closed(v, j) <=> v[j].closed)
  BY <1>1 DEF Level, Changed, Told, Closed
<1>4. QueueOK(d, v, q, w)
  <2>1. Tells(d, v, w, e)
    BY <1>1, <1>2, <1>3 DEF Tells
  <2> QED BY <1>2, <2>1, OneEvent, Zenon
<1>5. d[i].payload = c[i].payload
  <2>1. c[i].payload \in Payloads
    <3>1. c[i] \in Blocks
      BY <1>1
    <3> QED BY <3>1 DEF Blocks
  <2> QED BY <1>1, <2>1, PayloadsJoin DEF Changed
<1>6. ASSUME NEW j \in 1..Len(d) PROVE BlockOK(d, v, q, w, j)
  <2>1. /\ j \in 1..Len(c) /\ d[j].kind = c[j].kind /\ (j # i => d[j] = c[j])
        /\ d[j].payload = c[j].payload
    BY <1>1, <1>3, <1>5 DEF Changed
  <2> QED BY <1>1, <1>3, <2>1 DEF Level, BlockOK
<1>7. ViewOK(d, v, q, z)
  BY <1>1, <1>3, <1>4, <1>6 DEF ViewOK
<1>8. Closing(d, v, q) = {j \in 1..Len(c) : Closed(v, j)} \cup {i}
  <2>1. Len(q) = 1 /\ q[1].type = "end" /\ q[1].index = i /\ \A n \in 1..1 : n = 1
    BY <1>2, OneEvent
  <2> QED BY <1>1, <1>3, <2>1 DEF Closing
<1>9. Closing(c, v, <<>>) = {j \in 1..Len(c) : Closed(v, j)}
  BY DEF Closing
<1> QED BY <1>7, <1>8, <1>9

\* The blocks before a new one, and the new one.
LEMMA NewBlock ==
  ASSUME NEW c \in Seq(Blocks), NEW v \in Seq(ViewBlocks), NEW w, Level(c, v, w),
         NEW b \in Blocks
  PROVE  LET d == Append(c, b)  k == Len(c) + 1 IN
         /\ k \in Nat \ {0} /\ Len(d) = k /\ d[k] = b /\ k \in 1..Len(d) /\ Len(v) = Len(c)
         /\ \A j \in 1..Len(c) : /\ d[j] = c[j] /\ j # k /\ j \in 1..Len(d)
                                 /\ Told(v, j) = v[j].payload /\ (Closed(v, j) <=> v[j].closed)
         /\ \A j \in 1..Len(d) : j # k => j \in 1..Len(c)
         /\ Told(v, k) = <<>> /\ ~ Closed(v, k) /\ k = Len(v) + 1 /\ ~ (k <= Len(v))
<1>1. /\ Len(c) \in Nat /\ Len(v) = Len(c) /\ Len(Append(c, b)) = Len(c) + 1
      /\ Append(c, b)[Len(c) + 1] = b /\ \A j \in 1..Len(c) : Append(c, b)[j] = c[j]
  BY AppendProperties DEF Level
<1> DEFINE d == Append(c, b)
<1> HIDE DEF d
<1>2. /\ Len(c) \in Nat /\ Len(v) = Len(c) /\ Len(d) = Len(c) + 1
      /\ d[Len(c) + 1] = b /\ \A j \in 1..Len(c) : d[j] = c[j]
  BY <1>1 DEF d
<1>3. LET k == Len(c) + 1 IN
         /\ k \in Nat \ {0} /\ Len(d) = k /\ d[k] = b /\ k \in 1..Len(d) /\ Len(v) = Len(c)
         /\ \A j \in 1..Len(c) : /\ d[j] = c[j] /\ j # k /\ j \in 1..Len(d)
                                 /\ Told(v, j) = v[j].payload /\ (Closed(v, j) <=> v[j].closed)
         /\ \A j \in 1..Len(d) : j # k => j \in 1..Len(c)
         /\ Told(v, k) = <<>> /\ ~ Closed(v, k) /\ k = Len(v) + 1 /\ ~ (k <= Len(v))
  BY <1>2 DEF Told, Closed
<1> QED BY <1>3 DEF d

LEMMA OpensKeeps ==
  ASSUME NEW c \in Seq(Blocks), NEW d \in Seq(Blocks), NEW v \in Seq(ViewBlocks), NEW q,
         NEW w, w \subseteq 1..Len(c), NEW z, Level(c, v, w), Opens(c, d, v, q, w, z)
  PROVE  ViewOK(d, v, q, z) /\ Closing(d, v, q) = Closing(c, v, <<>>) /\ Len(d) = Len(c) + 1
<1> DEFINE k == Len(c) + 1
<1>1. PICK b \in Blocks, o \in Blocks, h \in Blocks :
        /\ d = Append(c, b) /\ o.kind = b.kind
        /\ \/ b.payload = <<>> /\ z = w /\ q = <<Opened(k, o)>>
           \/ Len(b.payload) = 1 /\ z = w \cup {k} /\ q = <<Opened(k, o)>>
           \/ Len(b.payload) = 1 /\ z = w /\ q = <<Opened(k, o), Grown(k, h, b.payload)>>
  BY DEF Opens
<1>2. /\ k \in Nat \ {0} /\ Len(d) = k /\ d[k] = b /\ k \in 1..Len(d) /\ Len(v) = Len(c)
      /\ \A j \in 1..Len(c) : /\ d[j] = c[j] /\ j # k /\ j \in 1..Len(d)
                              /\ Told(v, j) = v[j].payload /\ (Closed(v, j) <=> v[j].closed)
      /\ \A j \in 1..Len(d) : j # k => j \in 1..Len(c)
      /\ Told(v, k) = <<>> /\ ~ Closed(v, k) /\ k = Len(v) + 1 /\ ~ (k <= Len(v))
  BY <1>1, NewBlock
<1> DEFINE e == Opened(k, o)
           g == Grown(k, h, b.payload)
<1>3. /\ e.type = "start" /\ e.index = k /\ e.block.kind = b.kind
      /\ g.type = "delta" /\ g.index = k /\ g.delta = b.payload
  BY <1>1 DEF Opened, Grown, Blocks
<1>4. /\ b.payload \in Payloads /\ <<>> \o b.payload = b.payload
  BY PayloadsJoin DEF Blocks
<1>5. /\ d = Append(c, b)
      /\ \/ b.payload = <<>> /\ z = w /\ q = <<e>>
         \/ Len(b.payload) = 1 /\ z = w \cup {k} /\ q = <<e>>
         \/ Len(b.payload) = 1 /\ z = w /\ q = <<e, g>>
  BY <1>1
<1> HIDE DEF e, g, k
<1>6. k \notin w
  BY <1>2
<1>7. Tells(d, v, z, e)
  BY <1>2, <1>3 DEF Tells
<1>8. z = w => Tells(d, v, z, g) \/ Len(b.payload) # 1
  BY <1>2, <1>3, <1>4, <1>6 DEF Tells
<1>9. /\ Len(q) \in {1, 2} /\ q[1] = e /\ (Len(q) = 2 => q[2] = g)
      /\ \A n \in 1..Len(q) : n = 1 \/ (n = 2 /\ Len(q) = 2)
      /\ Len(q) = 2 => Len(b.payload) = 1 /\ z = w
  <2>1. CASE q = <<e>>
    <3>1. Len(q) = 1 /\ q[1] = e
      BY <2>1
    <3> QED BY <3>1
  <2>2. CASE q = <<e, g>> /\ Len(b.payload) = 1 /\ z = w
    <3>1. Len(q) = 2 /\ q[1] = e /\ q[2] = g
      BY <2>2
    <3> QED BY <2>2, <3>1
  <2> QED BY <1>5, <2>1, <2>2
<1>10. QueueOK(d, v, q, z)
  <2>1. InOrder(e, g)
    BY <1>3 DEF InOrder
  <2>2. \A n \in 1..Len(q) : Tells(d, v, z, q[n])
    <3>1. CASE Len(q) = 2
      BY <1>7, <1>8, <1>9, <3>1
    <3> QED BY <1>7, <1>9, <3>1
  <2>3. \A m, n \in 1..Len(q) : m < n => InOrder(q[m], q[n])
    BY <1>9, <2>1
  <2> QED BY <2>2, <2>3 DEF QueueOK
<1>11. ASSUME NEW j \in 1..Len(c) PROVE BlockOK(d, v, q, z, j)
  BY <1>2, <1>5 DEF Level, BlockOK
<1>12. BlockOK(d, v, q, z, k)
  <2>1. CASE b.payload = <<>> /\ z = w
    BY <1>2, <1>6, <2>1 DEF BlockOK
  <2>2. CASE Len(b.payload) = 1 /\ z = w \cup {k}
    BY <1>2, <2>2 DEF BlockOK
  <2>3. CASE z = w /\ q = <<e, g>>
    <3>1. ~ NoDelta(q, k)
      <4>1. Len(q) = 2 /\ q[2] = g /\ 2 \in 1..Len(q)
        BY <2>3
      <4> QED BY <1>3, <4>1 DEF NoDelta
    <3> QED BY <1>2, <1>6, <2>3, <3>1 DEF BlockOK
  <2> QED BY <1>5, <2>1, <2>2, <2>3
<1>13. ViewOK(d, v, q, z)
  <2>1. q # <<>> /\ q[1].type = "start"
    BY <1>3, <1>5
  <2>2. \A j \in 1..Len(d) : BlockOK(d, v, q, z, j)
    BY <1>2, <1>11, <1>12
  <2> QED BY <1>2, <1>10, <2>1, <2>2 DEF ViewOK
<1>14. Closing(d, v, q) = {j \in 1..Len(c) : Closed(v, j)}
  <2>1. \A n \in 1..Len(q) : q[n].type # "end"
    BY <1>3, <1>9
  <2> QED BY <1>2, <2>1 DEF Closing
<1>15. Closing(c, v, <<>>) = {j \in 1..Len(c) : Closed(v, j)}
  BY DEF Closing
<1> QED BY <1>2, <1>13, <1>14, <1>15 DEF k

LEMMA OpensAndEndsKeeps ==
  ASSUME NEW c \in Seq(Blocks), NEW d \in Seq(Blocks), NEW v \in Seq(ViewBlocks), NEW q,
         NEW w, w \subseteq 1..Len(c), NEW z, Level(c, v, w), OpensAndEnds(c, d, v, q, w, z)
  PROVE  /\ ViewOK(d, v, q, z) /\ Closing(d, v, q) = Closing(c, v, <<>>) \cup {Len(d)}
         /\ Len(d) = Len(c) + 1
<1> DEFINE k == Len(c) + 1
<1>1. PICK b \in Blocks :
        /\ d = Append(c, b) /\ Len(b.payload) = 1 /\ z = w
        /\ q = <<Opened(k, b), Grown(k, b, b.payload), Ended(k, b)>>
  BY DEF OpensAndEnds
<1>2. /\ k \in Nat \ {0} /\ Len(d) = k /\ d[k] = b /\ k \in 1..Len(d) /\ Len(v) = Len(c)
      /\ \A j \in 1..Len(c) : /\ d[j] = c[j] /\ j # k /\ j \in 1..Len(d)
                              /\ Told(v, j) = v[j].payload /\ (Closed(v, j) <=> v[j].closed)
      /\ \A j \in 1..Len(d) : j # k => j \in 1..Len(c)
      /\ Told(v, k) = <<>> /\ ~ Closed(v, k) /\ k = Len(v) + 1 /\ ~ (k <= Len(v))
  BY <1>1, NewBlock
<1> DEFINE e == Opened(k, b)
           g == Grown(k, b, b.payload)
           h == Ended(k, b)
<1>3. /\ e.type = "start" /\ e.index = k /\ e.block.kind = b.kind
      /\ g.type = "delta" /\ g.index = k /\ g.delta = b.payload
      /\ h.type = "end" /\ h.index = k /\ h.block = b
  BY DEF Opened, Grown, Ended, Blocks
<1>4. /\ b.payload \in Payloads /\ <<>> \o b.payload = b.payload
  BY PayloadsJoin DEF Blocks
<1>5. d = Append(c, b) /\ Len(b.payload) = 1 /\ z = w /\ q = <<e, g, h>>
  BY <1>1
<1> HIDE DEF e, g, h, k
<1>6. k \notin w
  BY <1>2
<1>7. Tells(d, v, z, e) /\ Tells(d, v, z, g) /\ Tells(d, v, z, h)
  BY <1>2, <1>3, <1>4, <1>5, <1>6 DEF Tells
<1>8. /\ Len(q) = 3 /\ q[1] = e /\ q[2] = g /\ q[3] = h
      /\ \A n \in 1..Len(q) : n = 1 \/ n = 2 \/ n = 3
  BY <1>5
<1>9. QueueOK(d, v, q, z)
  <2>1. InOrder(e, g) /\ InOrder(e, h) /\ InOrder(g, h)
    BY <1>3 DEF InOrder
  <2>2. \A n \in 1..Len(q) : Tells(d, v, z, q[n])
    BY <1>7, <1>8
  <2>3. \A m, n \in 1..Len(q) : m < n => InOrder(q[m], q[n])
    BY <1>8, <2>1
  <2> QED BY <2>2, <2>3 DEF QueueOK
<1>10. ASSUME NEW j \in 1..Len(c) PROVE BlockOK(d, v, q, z, j)
  BY <1>2, <1>5 DEF Level, BlockOK
<1>11. BlockOK(d, v, q, z, k)
  <2>1. ~ NoDelta(q, k)
    <3>1. 2 \in 1..Len(q)
      BY <1>8
    <3> QED BY <1>3, <1>8, <3>1 DEF NoDelta
  <2> QED BY <1>2, <1>5, <1>6, <2>1 DEF BlockOK
<1>12. ViewOK(d, v, q, z)
  <2>1. q # <<>> /\ q[1].type = "start"
    BY <1>3, <1>5
  <2>2. \A j \in 1..Len(d) : BlockOK(d, v, q, z, j)
    BY <1>2, <1>10, <1>11
  <2> QED BY <1>2, <1>9, <2>1, <2>2 DEF ViewOK
<1>13. Closing(d, v, q) = {j \in 1..Len(c) : Closed(v, j)} \cup {k}
  <2>1. \A n \in 1..Len(q) : q[n].type = "end" => q[n].index = k
    BY <1>3, <1>8
  <2>2. q[3].type = "end" /\ q[3].index = k /\ 3 \in 1..Len(q)
    BY <1>3, <1>8
  <2> QED BY <1>2, <2>1, <2>2 DEF Closing
<1>14. Closing(c, v, <<>>) = {j \in 1..Len(c) : Closed(v, j)}
  BY DEF Closing
<1> QED BY <1>2, <1>12, <1>13, <1>14 DEF k

\* The end of the stream: every block that is open is ended, some with another parse.
EndsAll(c, d, v, q) ==
  /\ Len(d) = Len(c)
  /\ \A j \in 1..Len(c) : /\ d[j].kind = c[j].kind /\ d[j].payload = c[j].payload
                          /\ Closed(v, j) => d[j] = c[j]
                          /\ Closed(v, j) \/ \E n \in 1..Len(q) : q[n].index = j
  /\ \A n \in 1..Len(q) : /\ q[n].type = "end" /\ q[n].index \in 1..Len(c)
                          /\ ~ Closed(v, q[n].index) /\ q[n].block = d[q[n].index]
  /\ \A m, n \in 1..Len(q) : m < n => q[m].index # q[n].index

LEMMA EndsAllKeeps ==
  ASSUME NEW c \in Seq(Blocks), NEW d \in Seq(Blocks), NEW v \in Seq(ViewBlocks), NEW q,
         NEW w, Level(c, v, w), EndsAll(c, d, v, q)
  PROVE  ViewOK(d, v, q, w) /\ Closing(d, v, q) = 1..Len(d)
<1>1. /\ Len(d) = Len(c) /\ Len(v) = Len(c) /\ Len(c) \in Nat
      /\ \A j \in 1..Len(c) : Told(v, j) = v[j].payload /\ (Closed(v, j) <=> v[j].closed)
  BY DEF EndsAll, Level, Told, Closed
<1>2. QueueOK(d, v, q, w)
  <2>1. \A n \in 1..Len(q) : Tells(d, v, w, q[n])
    BY <1>1 DEF EndsAll, Tells
  <2>2. \A m, n \in 1..Len(q) : m < n => InOrder(q[m], q[n])
    BY DEF EndsAll, InOrder
  <2> QED BY <2>1, <2>2 DEF QueueOK
<1>3. ASSUME NEW j \in 1..Len(d) PROVE BlockOK(d, v, q, w, j)
  <2>1. /\ j \in 1..Len(c) /\ d[j].kind = c[j].kind /\ d[j].payload = c[j].payload
        /\ Closed(v, j) => d[j] = c[j]
    BY <1>1 DEF EndsAll
  <2> QED BY <1>1, <2>1 DEF Level, BlockOK
<1>4. ViewOK(d, v, q, w)
  BY <1>1, <1>2, <1>3 DEF ViewOK
<1>5. ASSUME NEW j \in 1..Len(d) PROVE j \in Closing(d, v, q)
  <2>1. Closed(v, j) \/ \E n \in 1..Len(q) : q[n].index = j
    BY <1>1 DEF EndsAll
  <2>2. \A n \in 1..Len(q) : q[n].type = "end"
    BY DEF EndsAll
  <2> QED BY <2>1, <2>2 DEF Closing
<1> QED BY <1>4, <1>5 DEF Closing

-----------------------------------------------------------------------------
(* What the server sends and what is folded of it.                         *)

\* What a frame must be for the client to go on.
Reads(frame, f) ==
  /\ f.st \in FoldStates /\ f.st.stop # "aborted"
  /\ f.events \in Seq(Events) /\ f.failed \in BOOLEAN /\ (f.failed => f.events = <<>>)
  /\ frame.next \in Servers /\ frame.sent \in Seq(Sents)
  /\ ViewOK(f.st.content, view.blocks, f.events,
            IF provider = "anthropic" THEN Redacted(frame.next) ELSE {})
  /\ Tables(f.st, frame.next, Closing(f.st.content, view.blocks, f.events))
  /\ Copied(f.st, frame.next, log \o frame.sent)

Ready ==
  /\ fold \in FoldStates /\ view \in Views /\ server \in Servers /\ log \in Seq(Sents)
  /\ fold.content \in Seq(Blocks) /\ view.blocks \in Seq(ViewBlocks)
  /\ Level(fold.content, view.blocks, Withheld)
  /\ Tables(fold, server, Closing(fold.content, view.blocks, <<>>))
  /\ Copied(fold, server, log) /\ fold.stop # "aborted"

LEMMA ReadyToRead ==
  ASSUME StreamInv, MayRead
  PROVE  Ready
<1>1. /\ fold \in FoldStates /\ view \in Views /\ server \in Servers /\ log \in Seq(Sents)
      /\ queue = <<>> /\ pc = "read" /\ fold.stop # "aborted"
  BY DEF StreamInv, TypeInv, RequestInv, MayRead
<1>2. fold.content \in Seq(Blocks) /\ view.blocks \in Seq(ViewBlocks)
  BY <1>1 DEF FoldStates, Views
<1>3. ViewOK(fold.content, view.blocks, <<>>, Withheld)
  BY <1>1 DEF StreamInv
<1>4. Level(fold.content, view.blocks, Withheld)
  BY <1>2, <1>3, NothingQueued
<1>5. Tables(fold, server, Closing(fold.content, view.blocks, <<>>)) /\ Copied(fold, server, log)
  BY <1>1 DEF StreamInv, CopyInv
<1> QED BY <1>1, <1>2, <1>4, <1>5 DEF Ready

\* The fragments the next frame may bring.
LEMMA FragmentsSent ==
  ASSUME StreamAssumption, log \in Seq(Sents)
  PROVE  /\ \A x \in Required : x = <<Len(log) + 1>>
         /\ \A x \in Required : \E f \in Fragments : x = <<f>>
         /\ \A x \in Required : x \in Payloads /\ Len(x) = 1
         /\ \A x \in Optional : x = <<>> \/ x \in Required
<1>1. Len(log) \in Nat /\ MaxFrags \in Nat
  BY DEF StreamAssumption
<1>2. \A x \in Required : Len(log) < MaxFrags /\ x = <<Len(log) + 1>>
  BY DEF Required, Optional, Frag
<1>3. \A x \in Required : \E f \in Fragments : x = <<f>>
  BY <1>1, <1>2 DEF Fragments
<1>4. \A x \in Required : x \in Payloads /\ Len(x) = 1
  BY <1>3, PayloadsJoin
<1> QED BY <1>2, <1>3, <1>4 DEF Required

\* A frame brings the next fragment.
LEMMA NextFragment ==
  ASSUME StreamAssumption, log \in Seq(Sents), NEW x \in Required
  PROVE  x = <<Len(log) + 1>> /\ Len(log) + 1 \in Fragments
<1>1. x = <<Len(log) + 1>> /\ \E f \in Fragments : x = <<f>>
  BY FragmentsSent
<1> QED BY <1>1

LEMMA SentFragment ==
  \A kind \in Kinds : \A call \in Nat : Sent(kind, call) \in Seq(Sents)
<1> SUFFICES ASSUME NEW kind \in Kinds, NEW call \in Nat PROVE Sent(kind, call) \in Seq(Sents)
  BY Zenon
<1> DEFINE x == [kind |-> kind, call |-> call]
<1>1. x \in Sents
  BY DEF Sents
<1>2. Sent(kind, call) = <<x>>
  BY DEF Sent
<1> HIDE DEF x
<1> QED BY <1>1, <1>2

\* What follows an empty fold.
LEMMA ThenFolded ==
  \A s : \A st : \A q \in Seq(Events) :
    Then(Folded(s, <<>>), st, q) = [st |-> st, events |-> q, failed |-> FALSE]
<1> SUFFICES ASSUME NEW s, NEW st, NEW q \in Seq(Events)
             PROVE  Then(Folded(s, <<>>), st, q) = [st |-> st, events |-> q, failed |-> FALSE]
  BY Zenon
<1>1. <<>> \o q = q
  BY ConcatEmptySeq
<1> DEFINE f == Folded(s, <<>>)
           r == <<>> \o q
<1>2. f \in [st : {s}, events : {<<>>}, failed : {FALSE}]
  BY DEF Folded
<1>3. Then(f, st, q) = [f EXCEPT !.st = st, !.events = r]
  BY <1>2 DEF Then
<1> HIDE DEF f, r
<1>4. Then(f, st, q) = [st |-> st, events |-> r, failed |-> FALSE]
  BY <1>2, <1>3
<1> QED BY <1>1, <1>4 DEF f, r

LEMMA JoinTwo ==
  \A o \in Events, g \in Events : <<o>> \o <<g>> = <<o, g>>
<1> SUFFICES ASSUME NEW o \in Events, NEW g \in Events PROVE <<o>> \o <<g>> = <<o, g>>
  OBVIOUS
<1> DEFINE a == <<o>>
           b == <<g>>
           s == a \o b
           t == <<o, g>>
<1>1. a \in Seq(Events) /\ b \in Seq(Events) /\ t \in Seq(Events)
  OBVIOUS
<1>2. /\ Len(a) = 1 /\ a[1] = o /\ Len(b) = 1 /\ b[1] = g
      /\ Len(t) = 2 /\ t[1] = o /\ t[2] = g
  OBVIOUS
<1> HIDE DEF a, b, t
<1>3. /\ s \in Seq(Events) /\ Len(s) = Len(a) + Len(b)
      /\ \A i \in 1..Len(a) + Len(b) : s[i] = IF i <= Len(a) THEN a[i] ELSE b[i - Len(a)]
  BY <1>1, ConcatProperties
<1> HIDE DEF s
<1>4. Len(s) = 2 /\ s[1] = o /\ s[2] = g
  BY <1>2, <1>3
<1>5. \A i \in 1..2 : i = 1 \/ i = 2
  OBVIOUS
<1>6. s = t
  BY <1>1, <1>2, <1>3, <1>4, <1>5, SeqEqual
<1> QED BY <1>6 DEF s, a, b, t

\* Updates of the fold's record.
LEMMA FoldUpdates ==
  \A st \in FoldStates :
    /\ \A d \in Seq(Blocks) :
         LET t == [st EXCEPT !.content = d] IN
         /\ t \in FoldStates /\ t.content = d /\ t.table = st.table /\ t.stop = st.stop
         /\ t.finished = st.finished /\ t.sawStart = st.sawStart /\ t.current = st.current
         /\ t.ids = st.ids /\ t.counter = st.counter
    /\ \A r \in Seq(Registered) \cup Seq(StreamedCalls) :
         LET t == [st EXCEPT !.table = r] IN
         /\ t \in FoldStates /\ t.table = r /\ t.content = st.content /\ t.stop = st.stop
         /\ t.finished = st.finished /\ t.sawStart = st.sawStart /\ t.current = st.current
         /\ t.ids = st.ids /\ t.counter = st.counter
    /\ \A x \in Stops :
         LET t == [st EXCEPT !.stop = x] IN
         /\ t \in FoldStates /\ t.stop = x /\ t.content = st.content /\ t.table = st.table
         /\ t.finished = st.finished /\ t.sawStart = st.sawStart /\ t.current = st.current
         /\ t.ids = st.ids /\ t.counter = st.counter
BY DEF FoldStates

LEMMA BlockUpdates ==
  \A b \in Blocks :
    /\ \A x \in Payloads : LET t == [b EXCEPT !.payload = x] IN
         t \in Blocks /\ t.kind = b.kind /\ t.payload = x /\ t.id = b.id /\ t.parse = b.parse
    /\ \A x \in Parses : LET t == [b EXCEPT !.parse = x] IN
         t \in Blocks /\ t.kind = b.kind /\ t.payload = b.payload /\ t.id = b.id /\ t.parse = x
    /\ \A x \in Ids : LET t == [b EXCEPT !.id = x] IN
         t \in Blocks /\ t.kind = b.kind /\ t.payload = b.payload /\ t.id = x /\ t.parse = b.parse
BY DEF Blocks

-----------------------------------------------------------------------------
(* The fragments that were sent, and where they are.                       *)

\* One element more.
LEMMA JoinOne ==
  ASSUME NEW S, NEW s \in Seq(S), NEW x \in S
  PROVE  /\ s \o <<x>> \in Seq(S) /\ Len(s \o <<x>>) = Len(s) + 1
         /\ \A i \in 1..Len(s) : (s \o <<x>>)[i] = s[i]
         /\ (s \o <<x>>)[Len(s) + 1] = x
<1> DEFINE a == <<x>>
<1>1. a \in Seq(S) /\ Len(a) = 1 /\ a[1] = x /\ Len(s) \in Nat
  OBVIOUS
<1> HIDE DEF a
<1>2. /\ s \o a \in Seq(S) /\ Len(s \o a) = Len(s) + Len(a)
      /\ \A i \in 1..Len(s) + Len(a) : (s \o a)[i] = IF i <= Len(s) THEN s[i] ELSE a[i - Len(s)]
  BY <1>1, ConcatProperties
<1>3. \A i \in 1..Len(s) : (s \o a)[i] = s[i]
  BY <1>1, <1>2
<1>4. (s \o a)[Len(s) + 1] = x
  BY <1>1, <1>2
<1> QED BY <1>1, <1>2, <1>3, <1>4 DEF a

\* The blocks keep their payload, and what they are for.
LEMMA LedgerStays ==
  ASSUME NEW c, NEW d, NEW l \in Seq(Sents), Ledger(c, l), Len(d) = Len(c),
         \A i \in 1..Len(c) : /\ d[i].kind = c[i].kind /\ d[i].payload = c[i].payload
                              /\ CallOf(d, i) = CallOf(c, i)
  PROVE  Ledger(d, l) /\ Ledger(d, l \o <<>>)
<1>1. l \o <<>> = l
  BY ConcatEmptySeq
<1>2. Ledger(d, l)
  <2>1. \A i \in 1..Len(d) : \A m \in 1..Len(d[i].payload) :
          /\ d[i].payload[m] \in 1..Len(l)
          /\ l[d[i].payload[m]] = [kind |-> d[i].kind, call |-> CallOf(d, i)]
          /\ \A k \in 1..m - 1 : d[i].payload[k] < d[i].payload[m]
    BY DEF Ledger
  <2>2. \A n \in 1..Len(l) :
          \E i \in 1..Len(d) : \E m \in 1..Len(d[i].payload) : d[i].payload[m] = n
    <3> SUFFICES ASSUME NEW n \in 1..Len(l)
                 PROVE  \E i \in 1..Len(d) : \E m \in 1..Len(d[i].payload) :
                           d[i].payload[m] = n
      OBVIOUS
    <3>1. PICK i \in 1..Len(c) : \E m \in 1..Len(c[i].payload) : c[i].payload[m] = n
      BY DEF Ledger
    <3>2. i \in 1..Len(d) /\ d[i].payload = c[i].payload
      OBVIOUS
    <3> QED BY <3>1, <3>2
  <2>3. \A i, j \in 1..Len(d) :
          i < j /\ d[i].kind = d[j].kind /\ CallOf(d, i) = CallOf(d, j) =>
            \A m \in 1..Len(d[i].payload), k \in 1..Len(d[j].payload) :
               d[i].payload[m] < d[j].payload[k]
    BY DEF Ledger
  <2> QED BY <2>1, <2>2, <2>3 DEF Ledger
<1> QED BY <1>1, <1>2

\* The fragment sent goes to the end of block i; no later block is for the same.  The
\* blocks d are those of c, but for block i, which may be a new one.
LEMMA LedgerTakes ==
  ASSUME NEW c \in Seq(Blocks), NEW d \in Seq(Blocks), NEW l \in Seq(Sents), Ledger(c, l),
         NEW i \in 1..Len(d), NEW x \in Sents, Len(l) + 1 \in Fragments,
         \/ Len(d) = Len(c) /\ d[i].payload = c[i].payload \o <<Len(l) + 1>>
         \/ Len(d) = Len(c) + 1 /\ i = Len(d) /\ d[i].payload = <<Len(l) + 1>>,
         \A j \in 1..Len(c) : /\ d[j].kind = c[j].kind /\ CallOf(d, j) = CallOf(c, j)
                              /\ j # i => d[j].payload = c[j].payload,
         x = [kind |-> d[i].kind, call |-> CallOf(d, i)],
         \A j \in 1..Len(c) : i < j /\ d[j].kind = d[i].kind => CallOf(d, j) # CallOf(d, i)
  PROVE  Ledger(d, l \o <<x>>)
<1> DEFINE n == Len(l) + 1
           e == l \o <<x>>
           p(j) == d[j].payload
           old(j) == IF j <= Len(c) THEN c[j].payload ELSE <<>>
<1>1. /\ e \in Seq(Sents) /\ Len(e) = n /\ e[n] = x /\ \A k \in 1..Len(l) : e[k] = l[k]
      /\ Len(l) \in Nat /\ Len(c) \in Nat /\ Len(d) \in Nat
  <2>1. /\ e \in Seq(Sents) /\ Len(e) = Len(l) + 1 /\ e[Len(l) + 1] = x
        /\ \A k \in 1..Len(l) : e[k] = l[k]
    BY JoinOne
  <2> QED BY <2>1
<1>2. \A j \in 1..Len(c) : c[j].payload \in Payloads
  <2>1. \A j \in 1..Len(c) : c[j] \in Blocks
    OBVIOUS
  <2> QED BY <2>1 DEF Blocks
<1>3. /\ p(i) = old(i) \o <<n>> /\ old(i) \in Payloads
      /\ \A j \in 1..Len(d) : j # i => j \in 1..Len(c) /\ p(j) = old(j)
  <2>1. CASE Len(d) = Len(c) /\ d[i].payload = c[i].payload \o <<Len(l) + 1>>
    BY <1>1, <1>2, <2>1
  <2>2. CASE Len(d) = Len(c) + 1 /\ i = Len(d) /\ d[i].payload = <<Len(l) + 1>>
    <3>1. <<>> \o <<n>> = <<n>> /\ <<>> \in Payloads
      BY PayloadsJoin DEF Payloads
    <3>2. old(i) = <<>>
      BY <1>1, <2>2
    <3> QED BY <1>1, <2>2, <3>1, <3>2
  <2> QED BY <2>1, <2>2
<1>4. /\ p(i) \in Payloads /\ Len(p(i)) = Len(old(i)) + 1 /\ p(i)[Len(old(i)) + 1] = n
      /\ \A k \in 1..Len(old(i)) : p(i)[k] = old(i)[k]
      /\ Len(old(i)) \in Nat
  <2> HIDE DEF p, old
  <2> QED BY <1>3, JoinOne DEF Payloads, n
\* What the old blocks hold is older.
<1>5. ASSUME NEW j \in 1..Len(d), NEW m \in 1..Len(old(j))
      PROVE  /\ old(j)[m] \in 1..Len(l) /\ p(j)[m] = old(j)[m] /\ m \in 1..Len(p(j))
             /\ e[p(j)[m]] = [kind |-> d[j].kind, call |-> CallOf(d, j)]
             /\ \A k \in 1..m - 1 : p(j)[k] < p(j)[m]
             /\ j \in 1..Len(c) /\ old(j) = c[j].payload /\ m \in Nat
  <2>1. j \in 1..Len(c) /\ old(j) = c[j].payload /\ m \in 1..Len(c[j].payload)
    <3>1. CASE j <= Len(c)
      BY <1>1, <3>1
    <3>2. CASE ~ (j <= Len(c))
      BY <3>2
    <3> QED BY <3>1, <3>2
  <2>2. /\ old(j)[m] \in 1..Len(l)
        /\ l[old(j)[m]] = [kind |-> c[j].kind, call |-> CallOf(c, j)]
        /\ \A k \in 1..m - 1 : old(j)[k] < old(j)[m]
    <3>1. /\ c[j].payload[m] \in 1..Len(l)
          /\ l[c[j].payload[m]] = [kind |-> c[j].kind, call |-> CallOf(c, j)]
          /\ \A k \in 1..m - 1 : c[j].payload[k] < c[j].payload[m]
      <4> HIDE DEF p, old, e, n
      <4> QED BY <2>1 DEF Ledger
    <3> HIDE DEF old
    <3> QED BY <2>1, <3>1
  <2>3. Len(old(j)) \in Nat /\ m \in Nat /\ \A k \in 1..m - 1 : k \in 1..Len(old(j))
    BY <1>2, <2>1
  <2>4. \A k \in 1..Len(old(j)) : p(j)[k] = old(j)[k] /\ k \in 1..Len(p(j))
    <3> HIDE DEF p, old
    <3>1. CASE j = i
      BY <1>4, <3>1
    <3>2. CASE j # i
      BY <1>3, <3>2
    <3> QED BY <3>1, <3>2
  <2> QED BY <1>1, <2>1, <2>2, <2>3, <2>4
<1>6. Ledger(d, e)
  <2>1. ASSUME NEW j \in 1..Len(d), NEW m \in 1..Len(d[j].payload)
        PROVE  /\ d[j].payload[m] \in 1..Len(e)
               /\ e[d[j].payload[m]] = [kind |-> d[j].kind, call |-> CallOf(d, j)]
               /\ \A k \in 1..m - 1 : d[j].payload[k] < d[j].payload[m]
    <3>0. d[j].payload = p(j)
      OBVIOUS
    <3>1. CASE m \in 1..Len(old(j))
      <4>1. /\ old(j)[m] \in 1..Len(l) /\ p(j)[m] = old(j)[m]
            /\ e[p(j)[m]] = [kind |-> d[j].kind, call |-> CallOf(d, j)]
            /\ \A k \in 1..m - 1 : p(j)[k] < p(j)[m]
        BY <1>5, <3>1
      <4>2. \A k \in 1..Len(l) : k \in 1..Len(e)
        BY <1>1
      <4> HIDE DEF p, old, e, n
      <4> QED BY <3>0, <4>1, <4>2
    <3>2. CASE m \notin 1..Len(old(j))
      <4>1. j = i /\ m = Len(old(i)) + 1
        <5> HIDE DEF p, old
        <5> QED BY <1>3, <1>4, <3>0, <3>2
      <4>2. p(i)[m] = n
        BY <1>4, <4>1
      <4>3. \A k \in 1..m - 1 : p(i)[k] \in 1..Len(l)
        <5>1. \A k \in 1..m - 1 : k \in 1..Len(old(i))
          <6> HIDE DEF old
          <6> QED BY <1>4, <4>1
        <5>2. \A k \in 1..Len(old(i)) : p(i)[k] \in 1..Len(l)
          BY <1>5
        <5> QED BY <5>1, <5>2
      <4> QED BY <1>1, <4>1, <4>2, <4>3
    <3> QED BY <3>1, <3>2
  <2>2. ASSUME NEW k \in 1..Len(e)
        PROVE  \E j \in 1..Len(d) : \E m \in 1..Len(d[j].payload) : d[j].payload[m] = k
    <3>1. CASE k = n
      <4> DEFINE m == Len(old(i)) + 1
      <4>1. m \in 1..Len(p(i)) /\ p(i)[m] = n
        <5> HIDE DEF old, p, n
        <5> QED BY <1>4
      <4> HIDE DEF m
      <4> QED BY <3>1, <4>1
    <3>2. CASE k # n
      <4>1. k \in 1..Len(l)
        BY <1>1, <3>2
      <4>2. PICK j \in 1..Len(c) : \E m \in 1..Len(c[j].payload) : c[j].payload[m] = k
        BY <4>1 DEF Ledger
      <4>3. j \in 1..Len(d) /\ old(j) = c[j].payload
        BY <1>1
      <4>4. PICK m \in 1..Len(old(j)) : old(j)[m] = k
        BY <4>2, <4>3
      <4> QED BY <1>5, <4>3, <4>4
    <3> QED BY <3>1, <3>2
  <2>3. ASSUME NEW j \in 1..Len(d), NEW k \in 1..Len(d), j < k, d[j].kind = d[k].kind,
               CallOf(d, j) = CallOf(d, k),
               NEW a \in 1..Len(d[j].payload), NEW b \in 1..Len(d[k].payload)
        PROVE  d[j].payload[a] < d[k].payload[b]
    <3>1. j # i
      <4>1. k \in 1..Len(c) \/ k = i
        BY <1>3
      <4> QED BY <2>3, <4>1
    <3>2. j \in 1..Len(c) /\ a \in 1..Len(old(j)) /\ p(j) = old(j)
      BY <1>3, <3>1
    <3>3. p(j)[a] \in 1..Len(l)
      BY <1>5, <3>2
    <3>4. CASE b \in 1..Len(old(k))
      <4>1. k \in 1..Len(c) /\ old(k) = c[k].payload /\ old(j) = c[j].payload /\ p(k)[b] = old(k)[b]
        BY <1>5, <3>2, <3>4
      <4>2. c[j].kind = c[k].kind /\ CallOf(c, j) = CallOf(c, k)
        BY <2>3, <3>2, <4>1
      <4>3. c[j].payload[a] < c[k].payload[b]
        BY <2>3, <3>2, <3>4, <4>1, <4>2 DEF Ledger
      <4> QED BY <3>2, <4>1, <4>3
    <3>5. CASE b \notin 1..Len(old(k))
      <4>1. k = i /\ p(k)[b] = n
        <5>1. b \in 1..Len(p(k))
          OBVIOUS
        <5> HIDE DEF p, old
        <5>2. k = i
          BY <1>3, <3>5, <5>1
        <5>3. b = Len(old(i)) + 1
          BY <1>4, <3>5, <5>1, <5>2
        <5> QED BY <1>4, <5>2, <5>3
      <4> QED BY <1>1, <3>3, <4>1
    <3> QED BY <3>4, <3>5
  <2> HIDE DEF e
  <2> QED BY <2>1, <2>2, <2>3 DEF Ledger
<1> QED BY <1>6

\* A block is opened without a fragment.
LEMMA LedgerOpens ==
  ASSUME NEW c \in Seq(Blocks), NEW d, NEW l \in Seq(Sents), Ledger(c, l),
         Len(d) = Len(c) + 1, d[Len(c) + 1].payload = <<>>,
         \A j \in 1..Len(c) : /\ d[j].kind = c[j].kind /\ d[j].payload = c[j].payload
                              /\ CallOf(d, j) = CallOf(c, j)
  PROVE  Ledger(d, l) /\ Ledger(d, l \o <<>>)
<1>1. l \o <<>> = l
  BY ConcatEmptySeq
<1>2. /\ Len(c) \in Nat /\ \A j \in 1..Len(d) : j \in 1..Len(c) \/ j = Len(c) + 1
      /\ \A m \in 1..Len(<<>>) : FALSE
  OBVIOUS
<1>3. \A j \in 1..Len(d) : \A m \in 1..Len(d[j].payload) :
        j \in 1..Len(c) /\ m \in 1..Len(c[j].payload) /\ d[j].payload = c[j].payload
  BY <1>2
<1>4. \A i \in 1..Len(d) : \A m \in 1..Len(d[i].payload) :
        /\ d[i].payload[m] \in 1..Len(l)
        /\ l[d[i].payload[m]] = [kind |-> d[i].kind, call |-> CallOf(d, i)]
        /\ \A k \in 1..m - 1 : d[i].payload[k] < d[i].payload[m]
  <2> SUFFICES ASSUME NEW i \in 1..Len(d), NEW m \in 1..Len(d[i].payload)
               PROVE  /\ d[i].payload[m] \in 1..Len(l)
                      /\ l[d[i].payload[m]] = [kind |-> d[i].kind, call |-> CallOf(d, i)]
                      /\ \A k \in 1..m - 1 : d[i].payload[k] < d[i].payload[m]
    OBVIOUS
  <2>1. i \in 1..Len(c) /\ m \in 1..Len(c[i].payload) /\ d[i].payload = c[i].payload
    BY <1>3
  <2>2. /\ c[i].payload[m] \in 1..Len(l)
        /\ l[c[i].payload[m]] = [kind |-> c[i].kind, call |-> CallOf(c, i)]
        /\ \A k \in 1..m - 1 : c[i].payload[k] < c[i].payload[m]
    BY <2>1 DEF Ledger
  <2> QED BY <2>1, <2>2
<1>5. \A n \in 1..Len(l) :
        \E i \in 1..Len(d) : \E m \in 1..Len(d[i].payload) : d[i].payload[m] = n
  <2> SUFFICES ASSUME NEW n \in 1..Len(l)
               PROVE  \E i \in 1..Len(d) : \E m \in 1..Len(d[i].payload) : d[i].payload[m] = n
    OBVIOUS
  <2>1. PICK i \in 1..Len(c) : \E m \in 1..Len(c[i].payload) : c[i].payload[m] = n
    BY DEF Ledger
  <2>2. i \in 1..Len(d) /\ d[i].payload = c[i].payload
    BY <1>2
  <2> QED BY <2>1, <2>2
<1>6. ASSUME NEW i \in 1..Len(d), NEW j \in 1..Len(d), i < j, d[i].kind = d[j].kind,
             CallOf(d, i) = CallOf(d, j),
             NEW m \in 1..Len(d[i].payload), NEW k \in 1..Len(d[j].payload)
      PROVE  d[i].payload[m] < d[j].payload[k]
  BY <1>3, <1>6 DEF Ledger
<1> QED BY <1>1, <1>4, <1>5, <1>6 DEF Ledger

\* The blocks keep what they are for, and block b grows by what was sent for it, if any;
\* no later block is for the same.
LEMMA LedgerGrows ==
  ASSUME NEW c \in Seq(Blocks), NEW d \in Seq(Blocks), NEW l \in Seq(Sents), Ledger(c, l),
         NEW b \in 1..Len(c), NEW x, NEW sent, Changed(c, d, b, x),
         \A j \in 1..Len(c) : CallOf(d, j) = CallOf(c, j),
         \A j \in 1..Len(c) : b < j /\ c[j].kind = c[b].kind => CallOf(c, j) # CallOf(c, b),
         \/ x = <<>> /\ sent = <<>>
         \/ /\ x = <<Len(l) + 1>> /\ Len(l) + 1 \in Fragments /\ CallOf(c, b) \in Nat
            /\ sent = Sent(c[b].kind, CallOf(c, b))
  PROVE  Ledger(d, l \o sent)
<1>1. /\ Len(d) = Len(c) /\ b \in 1..Len(d) /\ c[b] \in Blocks
      /\ d[b].payload = c[b].payload \o x
      /\ \A j \in 1..Len(c) : /\ d[j].kind = c[j].kind /\ CallOf(d, j) = CallOf(c, j)
                              /\ j # b => d[j].payload = c[j].payload
  BY DEF Changed
<1>2. CASE x = <<>> /\ sent = <<>>
  <2>1. c[b].payload \o <<>> = c[b].payload
    BY <1>1, PayloadsJoin DEF Blocks
  <2>2. \A j \in 1..Len(c) : d[j].payload = c[j].payload
    BY <1>1, <1>2, <2>1
  <2> QED BY <1>1, <1>2, <2>2, LedgerStays
<1>3. CASE /\ x = <<Len(l) + 1>> /\ Len(l) + 1 \in Fragments /\ CallOf(c, b) \in Nat
           /\ sent = Sent(c[b].kind, CallOf(c, b))
  <2> DEFINE y == [kind |-> d[b].kind, call |-> CallOf(d, b)]
  <2>1. sent = <<y>> /\ y = [kind |-> d[b].kind, call |-> CallOf(d, b)]
    BY <1>1, <1>3 DEF Sent
  <2>2. y \in Sents
    BY <1>1, <1>3 DEF Sents, Blocks
  <2>3. \A j \in 1..Len(c) : b < j /\ d[j].kind = d[b].kind => CallOf(d, j) # CallOf(d, b)
    BY <1>1
  <2> HIDE DEF y
  <2>4. Ledger(d, l \o <<y>>)
    BY <1>1, <1>3, <2>1, <2>2, <2>3, LedgerTakes
  <2> QED BY <2>1, <2>4
<1> QED BY <1>2, <1>3

\* A last block is added, with what was sent for it, if any.
LEMMA LedgerAdds ==
  ASSUME NEW c \in Seq(Blocks), NEW d \in Seq(Blocks), NEW l \in Seq(Sents), Ledger(c, l),
         NEW block \in Blocks, d = Append(c, block), NEW call \in Nat, NEW sent,
         \/ block.payload = <<>> /\ sent = <<>>
         \/ /\ block.payload = <<Len(l) + 1>> /\ Len(l) + 1 \in Fragments
            /\ CallOf(d, Len(c) + 1) = call /\ sent = Sent(block.kind, call)
  PROVE  Ledger(d, l \o sent)
<1> DEFINE k == Len(c) + 1
<1>1. /\ Len(c) \in Nat /\ Len(d) = k /\ k \in 1..Len(d) /\ d[k] = block
      /\ \A j \in 1..Len(c) : d[j] = c[j]
  BY AppendProperties
<1>2. \A j \in 1..Len(c) : /\ d[j].kind = c[j].kind /\ d[j].payload = c[j].payload
                            /\ CallOf(d, j) = CallOf(c, j)
  BY <1>1 DEF CallOf
<1>3. CASE block.payload = <<>> /\ sent = <<>>
  BY <1>1, <1>2, <1>3, LedgerOpens
<1>4. CASE /\ block.payload = <<Len(l) + 1>> /\ Len(l) + 1 \in Fragments
           /\ CallOf(d, k) = call /\ sent = Sent(block.kind, call)
  <2> DEFINE x == [kind |-> block.kind, call |-> call]
  <2>1. x \in Sents /\ sent = <<x>>
    BY <1>4 DEF Sents, Blocks, Sent
  <2>2. x = [kind |-> d[k].kind, call |-> CallOf(d, k)] /\ d[k].payload = <<Len(l) + 1>>
    BY <1>1, <1>4
  <2>3. k = Len(d) /\ Len(d) = Len(c) + 1 /\ \A j \in 1..Len(c) : ~ (k < j)
    BY <1>1
  <2> HIDE DEF x, k
  <2>4. Ledger(d, l \o <<x>>)
    BY <1>1, <1>2, <1>4, <2>1, <2>2, <2>3, LedgerTakes
  <2> QED BY <2>1, <2>4
<1> QED BY <1>3, <1>4

-----------------------------------------------------------------------------
(* Anthropic.                                                              *)

LEMMA AnthropicReady ==
  ASSUME Ready, provider = "anthropic"
  PROVE  /\ AnthropicTables(fold, server, Closing(fold.content, view.blocks, <<>>))
         /\ Level(fold.content, view.blocks, Redacted(server))
         /\ Redacted(server) \subseteq 1..Len(fold.content)
         /\ fold.table \in Seq(Registered) /\ server.blocks \in Seq(Brackets)
         /\ Len(server.blocks) \in Nat
         /\ Len(fold.content) = Len(server.blocks) /\ Len(fold.table) = Len(server.blocks)
         /\ Len(view.blocks) = Len(server.blocks)
BY DEF Ready, Tables, Withheld, AnthropicTables, Redacted, Level

\* A block is found by the server's index.
LEMMA FindServerFinds ==
  ASSUME NEW st, NEW sv, NEW closing, AnthropicTables(st, sv, closing),
         NEW b \in 1..Len(sv.blocks)
  PROVE  FindServer(st, b - 1) = b
<1> DEFINE Found == {i \in 1..Len(st.table) : st.table[i].server = b - 1}
<1>1. /\ Len(st.table) = Len(sv.blocks) /\ Len(sv.blocks) \in Nat
      /\ \A i \in 1..Len(sv.blocks) : st.table[i].server = i - 1
  BY DEF AnthropicTables
<1>2. Found = {b}
  BY <1>1
<1>3. FindServer(st, b - 1) = IF Found # {} THEN Min(Found) ELSE 0
  BY DEF FindServer, SelectInSeq
<1> HIDE DEF Found
<1>4. Min({b}) = b
  BY <1>1 DEF Min
<1> QED BY <1>2, <1>3, <1>4

\* Frames that carry no block: the message's start and stop, its reason, an error.
LEMMA AnthropicPlain ==
  ASSUME Ready, provider = "anthropic", NEW st, NEW sv, NEW failed \in BOOLEAN,
         st \in FoldStates, st.stop # "aborted", st.content = fold.content,
         st.table = fold.table, sv \in Servers, sv.blocks = server.blocks,
         sv.stage = "new" => sv.blocks = <<>>,
         sv.stage \in {"reason", "end"} =>
           \A i \in 1..Len(server.blocks) : ~ server.blocks[i].open,
         st.finished => sv.stage = "end", ~ st.sawStart => sv.stage = "new",
         NEW ev
  PROVE  Reads(Frame(ev, <<>>, sv), [st |-> st, events |-> <<>>, failed |-> failed])
<1> DEFINE frame == Frame(ev, <<>>, sv)
           f == [st |-> st, events |-> <<>>, failed |-> failed]
           closing == Closing(fold.content, view.blocks, <<>>)
<1>1. frame.next = sv /\ frame.sent = <<>> /\ f.st = st /\ f.events = <<>> /\ f.failed = failed
  BY DEF Frame
<1>2. Redacted(sv) = Redacted(server)
  BY DEF Redacted
<1>3. ViewOK(fold.content, view.blocks, <<>>, Redacted(sv))
  <2>1. fold.content \in Seq(Blocks) /\ view.blocks \in Seq(ViewBlocks)
    BY DEF Ready
  <2> QED BY <1>2, <2>1, AnthropicReady, NothingQueued
<1>4. AnthropicTables(st, sv, closing)
  BY AnthropicReady DEF AnthropicTables
<1>5. <<>> \in Seq(Events) /\ <<>> \in Seq(Sents)
  OBVIOUS
<1> HIDE DEF frame, f, closing
<1>6. Copied(st, sv, log \o <<>>)
  <2>1. Ledger(st.content, log \o <<>>)
    BY LedgerStays DEF Ready, Copied
  <2>2. AnthropicNames(st, sv)
    BY DEF Ready, Copied, Names, AnthropicNames
  <2> QED BY <2>1, <2>2 DEF Copied, Names
<1>7. Reads(frame, f)
  BY <1>1, <1>3, <1>4, <1>5, <1>6 DEF Reads, Tables, closing
<1> QED BY <1>7 DEF frame, f

\* A block is opened; the payload of redacted reasoning comes with it.
LEMMA AnthropicOpens ==
  ASSUME Ready, StreamAssumption, provider = "anthropic", server.stage = "body",
         NEW kind \in DOMAIN AnthropicKind, NEW frag,
         IF kind = "redacted_thinking" THEN frag \in Required ELSE frag = <<>>
  PROVE  Reads(AnthropicOpen(kind, frag), FoldAnthropic(AnthropicOpen(kind, frag).ev, fold))
<1> DEFINE frame == AnthropicOpen(kind, frag)
           ev == frame.ev
           c == fold.content
           v == view.blocks
           k == Len(c) + 1
           block == IF AnthropicKind[kind] = "toolCall"
                    THEN Block("toolCall", ev.id, <<>>, "given")
                    ELSE Text(AnthropicKind[kind], frag)
           entry == [server |-> Len(server.blocks), content |-> k, partial |-> <<>>]
           bracket == [kind |-> kind, open |-> TRUE]
           st == [AddBlock(fold, block) EXCEPT !.table = Append(@, entry)]
           q == <<Opened(k, block)>>
           sv == [server EXCEPT !.blocks = Append(@, bracket)]
           closing == Closing(c, v, <<>>)
<1>1. /\ c \in Seq(Blocks) /\ v \in Seq(ViewBlocks) /\ Level(c, v, Redacted(server))
      /\ Redacted(server) \subseteq 1..Len(c) /\ AnthropicTables(fold, server, closing)
      /\ fold.table \in Seq(Registered) /\ server.blocks \in Seq(Brackets)
      /\ Len(server.blocks) \in Nat /\ Len(c) = Len(server.blocks)
      /\ Len(fold.table) = Len(server.blocks) /\ Len(v) = Len(server.blocks)
      /\ fold \in FoldStates /\ server \in Servers /\ log \in Seq(Sents) /\ fold.stop # "aborted"
  BY AnthropicReady DEF Ready
<1>2. /\ ev.type = "content_block_start" /\ ev.index = Len(server.blocks) /\ ev.kind = kind
      /\ ev.frag = frag /\ ev.id = NewId /\ frame.next = sv
      /\ frame.sent = IF frag = <<>> THEN <<>> ELSE Sent("thinking", Len(server.blocks) + 1)
  BY DEF AnthropicOpen, Frame
<1>3. AnthropicKind[kind] \in Kinds
      /\ (AnthropicKind[kind] = "toolCall" => kind # "redacted_thinking")
      /\ (AnthropicKind[kind] # "toolCall" => AnthropicKind[kind] \in {"text", "thinking"})
  BY DEF AnthropicKind, Kinds
<1>4. NewId \in Ids /\ NoId \in Ids
  BY <1>1 DEF NewId, Ids
<1>5. frag \in Payloads /\ <<>> \in Payloads /\ (kind = "redacted_thinking" => Len(frag) = 1)
  BY <1>1, FragmentsSent, PayloadsJoin
<1>6. /\ block \in Blocks /\ block.kind = AnthropicKind[kind]
      /\ block.payload = (IF kind = "redacted_thinking" THEN frag ELSE <<>>)
      /\ block.kind = "toolCall" => block.id = <<"call", Len(server.blocks) + 1>>
  BY <1>2, <1>3, <1>4, <1>5 DEF Blocks, Block, Text, Parses, Kinds, NewId
<1>7. FoldAnthropic(ev, fold) = Folded(st, q)
  BY <1>2 DEF FoldAnthropic, AnthropicBlockStart
<1> HIDE DEF block
<1>8. /\ st \in FoldStates /\ st.content = Append(c, block) /\ st.table = Append(fold.table, entry)
      /\ st.stop = fold.stop /\ st.finished = fold.finished /\ st.sawStart = fold.sawStart
  <2>1. entry \in Registered /\ Append(fold.table, entry) \in Seq(Registered)
    BY <1>1, PayloadsJoin DEF Registered
  <2>2. Append(c, block) \in Seq(Blocks)
    BY <1>1, <1>6
  <2> DEFINE d == Append(c, block)
             r == Append(fold.table, entry)
  <2> DEFINE s == [fold EXCEPT !.content = d]
  <2>3. s = [fold EXCEPT !.content = d] /\ st = [s EXCEPT !.table = r]
    BY <1>1 DEF AddBlock, FoldStates
  <2>4. d \in Seq(Blocks) /\ r \in Seq(Registered) \cup Seq(StreamedCalls)
    BY <2>1, <2>2
  <2> HIDE DEF st, s, d, r
  <2>5. /\ st \in FoldStates /\ st.content = d /\ st.table = r /\ st.stop = fold.stop
        /\ st.finished = fold.finished /\ st.sawStart = fold.sawStart
    <3>1. fold \in FoldStates
      BY <1>1
    <3> HIDE DEF ev, closing, sv, bracket, entry, k, frame
    <3> QED BY <2>3, <2>4, <3>1 DEF FoldStates
  <2> QED BY <2>5 DEF d, r
<1>9. /\ sv \in Servers /\ sv.blocks = Append(server.blocks, bracket) /\ sv.stage = server.stage
  <2>1. Append(server.blocks, bracket) \in Seq(Brackets)
    BY <1>1 DEF Brackets
  <2> HIDE DEF bracket
  <2> QED BY <1>1, <2>1 DEF Servers
<1> DEFINE f == Folded(st, q)
<1>10. f.st = st /\ f.events = q /\ f.failed = FALSE
  BY DEF Folded
<1> HIDE DEF st, sv, q, f, frame
<1>11. /\ Len(sv.blocks) = k /\ Len(st.table) = k /\ st.table[k] = entry /\ sv.blocks[k] = bracket
       /\ Len(st.content) = k /\ st.content[k] = block
       /\ \A i \in 1..Len(c) : /\ sv.blocks[i] = server.blocks[i] /\ st.table[i] = fold.table[i]
                               /\ st.content[i] = c[i]
       /\ sv.blocks \in Seq(Brackets) /\ st.table \in Seq(Registered)
  <2>1. entry \in Registered /\ bracket \in Brackets
    BY <1>1, PayloadsJoin DEF Registered, Brackets
  <2> HIDE DEF entry, bracket
  <2> QED BY <1>1, <1>6, <1>8, <1>9, <2>1, AppendProperties
<1>12. Redacted(sv) = IF kind = "redacted_thinking" THEN Redacted(server) \cup {k}
                      ELSE Redacted(server)
  <2>1. bracket.kind = kind /\ \A i \in 1..k : i = k \/ i \in 1..Len(c)
    BY <1>1
  <2> QED BY <1>1, <1>11, <2>1 DEF Redacted
<1>13. Opens(c, st.content, v, q, Redacted(server), Redacted(sv))
  BY <1>5, <1>6, <1>8, <1>12 DEF Opens, q
<1>14. /\ ViewOK(st.content, v, q, Redacted(sv)) /\ Closing(st.content, v, q) = closing
  <2>1. st.content \in Seq(Blocks)
    BY <1>8 DEF FoldStates
  <2> DEFINE d == st.content
  <2> HIDE DEF c, v, q, st, sv, d
  <2> QED BY <1>1, <1>13, <2>1, OpensKeeps DEF d
<1>15. AnthropicTables(st, sv, closing)
  <2>1. ASSUME NEW i \in 1..Len(sv.blocks)
        PROVE  /\ st.table[i].server = i - 1 /\ st.table[i].content = i
               /\ st.content[i].kind = AnthropicKind[sv.blocks[i].kind]
               /\ st.content[i].kind = "toolCall" => st.table[i].partial = st.content[i].payload
               /\ i \in closing <=> ~ sv.blocks[i].open
    <3>1. CASE i = k
      <4>1. k \notin closing
        BY <1>1 DEF Closing
      <4>2. /\ entry.server = k - 1 /\ entry.content = k /\ entry.partial = <<>>
            /\ bracket.kind = kind /\ bracket.open
        BY <1>1
      <4>3. block.kind = "toolCall" => block.payload = <<>>
        BY <1>3, <1>6
      <4> QED BY <1>6, <1>11, <3>1, <4>1, <4>2, <4>3
    <3>2. CASE i # k
      <4>1. i \in 1..Len(c) /\ i \in 1..Len(server.blocks)
        BY <1>1, <1>11, <3>2
      <4>2. /\ fold.table[i].server = i - 1 /\ fold.table[i].content = i
            /\ c[i].kind = AnthropicKind[server.blocks[i].kind]
            /\ c[i].kind = "toolCall" => fold.table[i].partial = c[i].payload
            /\ i \in closing <=> ~ server.blocks[i].open
        BY <1>1, <4>1 DEF AnthropicTables
      <4>3. st.table[i] = fold.table[i] /\ st.content[i] = c[i] /\ sv.blocks[i] = server.blocks[i]
        BY <1>11, <4>1
      <4> QED BY <4>2, <4>3
    <3> QED BY <3>1, <3>2
  <2> QED BY <1>1, <1>8, <1>9, <1>11, <2>1 DEF AnthropicTables
<1>16. frame.sent \in Seq(Sents)
  <2>1. [kind |-> "thinking", call |-> Len(server.blocks) + 1] \in Sents
    BY <1>1 DEF Sents, Kinds
  <2> QED BY <1>2, <2>1 DEF Sent
<1>17. q \in Seq(Events)
  <2>1. [block EXCEPT !.payload = <<>>] \in Blocks
    BY <1>6, PayloadsJoin, BlockUpdates
  <2>2. Opened(k, block) \in Events
    BY <1>1, <2>1, PayloadsJoin DEF Opened, Events
  <2> QED BY <2>2 DEF q
<1>18. Copied(st, sv, log \o frame.sent)
  <2> DEFINE d == st.content
  <2>1. /\ d \in Seq(Blocks) /\ Len(d) = Len(c) + 1 /\ d[k] = block /\ k \in 1..Len(d)
        /\ \A j \in 1..Len(c) : d[j] = c[j]
    BY <1>1, <1>8, <1>11 DEF FoldStates
  <2>2. \A j \in 1..Len(c) : /\ d[j].kind = c[j].kind /\ d[j].payload = c[j].payload
                              /\ CallOf(d, j) = CallOf(c, j)
    BY <2>1 DEF CallOf
  <2>3. Ledger(c, log) /\ AnthropicNames(fold, server)
    BY DEF Ready, Copied, Names
  <2>4. Ledger(d, log \o frame.sent)
    <3>1. CASE kind # "redacted_thinking"
      <4>1. frame.sent = <<>> /\ d[Len(c) + 1].payload = <<>>
        BY <1>2, <1>6, <2>1, <3>1
      <4> HIDE DEF c, d
      <4> QED BY <1>1, <2>1, <2>2, <2>3, <4>1, LedgerOpens
    <3>2. CASE kind = "redacted_thinking"
      <4> DEFINE x == [kind |-> "thinking", call |-> k]
      <4>1. frag = <<Len(log) + 1>> /\ Len(log) + 1 \in Fragments
        BY <1>1, <3>2, NextFragment
      <4>2. block.kind = "thinking" /\ block.payload = <<Len(log) + 1>>
        BY <1>6, <3>2, <4>1 DEF AnthropicKind
      <4>3. frame.sent = <<x>>
        BY <1>1, <1>2, <4>1 DEF Sent
      <4>4. x \in Sents /\ CallOf(d, k) = k /\ d[k].kind = "thinking"
        BY <1>1, <2>1, <4>2 DEF Sents, Kinds, CallOf
      <4>5. x = [kind |-> d[k].kind, call |-> CallOf(d, k)] /\ d[k].payload = <<Len(log) + 1>>
        BY <2>1, <4>2, <4>4
      <4>6. k = Len(d) /\ \A j \in 1..Len(c) : ~ (k < j)
        BY <1>1, <2>1
      <4>7. c \in Seq(Blocks) /\ log \in Seq(Sents)
        BY <1>1
      <4> HIDE DEF c, d, x, k
      <4>8. Ledger(d, log \o <<x>>)
        BY <2>1, <2>2, <2>3, <4>1, <4>4, <4>5, <4>6, <4>7, LedgerTakes
      <4> QED BY <4>3, <4>8
    <3> QED BY <3>1, <3>2
  <2>5. AnthropicNames(st, sv)
    <3>1. \A i \in 1..Len(d) : i = k \/ i \in 1..Len(c)
      BY <1>1, <2>1
    <3>2. bracket.open
      OBVIOUS
    <3> HIDE DEF bracket
    <3>3. d[k].kind = "toolCall" => d[k].id = <<"call", k>> /\ sv.blocks[k].open
      BY <1>1, <1>6, <1>11, <2>1, <3>2
    <3>4. \A i \in 1..Len(c) : d[i].kind = "toolCall" =>
             d[i].id = <<"call", i>> /\ (sv.blocks[i].open \/ d[i].parse = "final")
      BY <1>11, <2>1, <2>3 DEF AnthropicNames
    <3> QED BY <3>1, <3>3, <3>4 DEF AnthropicNames
  <2> QED BY <2>4, <2>5 DEF Copied, Names
<1>19. Reads(frame, f)
  BY <1>1, <1>2, <1>8, <1>9, <1>10, <1>14, <1>15, <1>16, <1>17, <1>18 DEF Reads, Tables
<1> QED BY <1>2, <1>7, <1>19 DEF frame, f

\* A block of the message, its entry in the table and its bracket change together.
LEMMA AnthropicBlockChanges ==
  ASSUME NEW closing, AnthropicTables(fold, server, closing), server.stage = "body",
         NEW b \in 1..Len(server.blocks), NEW st, NEW sv, NEW after, NEW x,
         Changed(fold.content, st.content, b, x),
         st.table \in Seq(Registered), Len(st.table) = Len(fold.table),
         \A j \in 1..Len(fold.table) :
           /\ st.table[j].server = fold.table[j].server
           /\ st.table[j].content = fold.table[j].content
           /\ j # b => st.table[j].partial = fold.table[j].partial,
         st.content[b].kind = "toolCall" => st.table[b].partial = st.content[b].payload,
         sv.blocks \in Seq(Brackets), Len(sv.blocks) = Len(server.blocks),
         \A j \in 1..Len(server.blocks) :
           /\ sv.blocks[j].kind = server.blocks[j].kind
           /\ j \in after <=> ~ sv.blocks[j].open,
         sv.stage = "body", st.finished = fold.finished, st.sawStart = fold.sawStart
  PROVE  AnthropicTables(st, sv, after)
<1>1. /\ Len(fold.table) = Len(server.blocks) /\ Len(fold.content) = Len(server.blocks)
      /\ \A j \in 1..Len(server.blocks) :
           /\ fold.table[j].server = j - 1 /\ fold.table[j].content = j
           /\ fold.content[j].kind = AnthropicKind[server.blocks[j].kind]
           /\ fold.content[j].kind = "toolCall" => fold.table[j].partial = fold.content[j].payload
      /\ ~ fold.finished /\ fold.sawStart
  BY DEF AnthropicTables
<1>2. /\ Len(st.content) = Len(fold.content)
      /\ \A j \in 1..Len(fold.content) : /\ j # b => st.content[j] = fold.content[j]
                                         /\ st.content[j].kind = fold.content[j].kind
  BY DEF Changed
<1>3. ASSUME NEW j \in 1..Len(sv.blocks)
      PROVE  /\ st.table[j].server = j - 1 /\ st.table[j].content = j
             /\ st.content[j].kind = AnthropicKind[sv.blocks[j].kind]
             /\ st.content[j].kind = "toolCall" => st.table[j].partial = st.content[j].payload
             /\ j \in after <=> ~ sv.blocks[j].open
  <2>1. CASE j = b
    BY <1>1, <1>2, <2>1
  <2>2. CASE j # b
    <3>1. j \in 1..Len(server.blocks) /\ j \in 1..Len(fold.table) /\ j \in 1..Len(fold.content)
      BY <1>1
    <3>2. /\ st.table[j].server = fold.table[j].server /\ st.content[j] = fold.content[j]
          /\ st.table[j].content = fold.table[j].content
          /\ st.table[j].partial = fold.table[j].partial
          /\ sv.blocks[j].kind = server.blocks[j].kind /\ (j \in after <=> ~ sv.blocks[j].open)
      BY <1>2, <2>2, <3>1
    <3> QED BY <1>1, <3>1, <3>2
  <2> QED BY <2>1, <2>2
<1> QED BY <1>1, <1>2, <1>3 DEF AnthropicTables

\* A block that the server has not closed takes what is sent for it; the last parse of a
\* call comes with its end.
LEMMA AnthropicCopies ==
  ASSUME Ready, StreamAssumption, provider = "anthropic", NEW b \in 1..Len(fold.content),
         NEW st, NEW sv, NEW x, NEW sent, st.content \in Seq(Blocks),
         Changed(fold.content, st.content, b, x), st.content[b].id = fold.content[b].id,
         \A j \in 1..Len(fold.content) : j # b => sv.blocks[j].open = server.blocks[j].open,
         st.content[b].kind = "toolCall" => sv.blocks[b].open \/ st.content[b].parse = "final",
         \/ x = <<>> /\ sent = <<>>
         \/ x \in Required /\ sent = Sent(fold.content[b].kind, b)
  PROVE  Copied(st, sv, log \o sent)
<1> DEFINE c == fold.content
           d == st.content
<1>1. /\ c \in Seq(Blocks) /\ log \in Seq(Sents) /\ Ledger(c, log)
      /\ AnthropicNames(fold, server)
  BY DEF Ready, Copied, Names
<1>2. /\ Len(d) = Len(c) /\ \A j \in 1..Len(c) : /\ j # b => d[j] = c[j]
                                                /\ d[j].kind = c[j].kind /\ d[j].id = c[j].id
  BY DEF Changed
<1>3. \A j \in 1..Len(c) : c[j].kind = "toolCall" => c[j].id[2] = j
  BY <1>1 DEF AnthropicNames
<1>4. \A j \in 1..Len(c) : CallOf(c, j) = j /\ CallOf(d, j) = j
  BY <1>2, <1>3 DEF CallOf
<1>5. x \in Required => x = <<Len(log) + 1>> /\ Len(log) + 1 \in Fragments
  BY <1>1, NextFragment
<1>6. Ledger(d, log \o sent)
  <2>1. /\ \A j \in 1..Len(c) : b < j => CallOf(c, j) # CallOf(c, b)
        /\ \A j \in 1..Len(c) : CallOf(d, j) = CallOf(c, j)
    BY <1>4
  <2>2. CallOf(c, b) = b /\ b \in Nat
    BY <1>1, <1>4
  <2>3. Changed(c, d, b, x) /\ b \in 1..Len(c) /\ d \in Seq(Blocks)
    OBVIOUS
  <2>4. \/ x = <<>> /\ sent = <<>>
        \/ /\ x = <<Len(log) + 1>> /\ Len(log) + 1 \in Fragments /\ CallOf(c, b) \in Nat
           /\ sent = Sent(c[b].kind, CallOf(c, b))
    BY <1>5, <2>2
  <2> HIDE DEF c, d
  <2> QED BY <1>1, <2>1, <2>3, <2>4, LedgerGrows
<1>7. AnthropicNames(st, sv)
  BY <1>1, <1>2 DEF AnthropicNames
<1> QED BY <1>6, <1>7 DEF Copied, Names

\* What the client knows of a block that the server has not closed.
LEMMA AnthropicOpenBlock ==
  ASSUME Ready, provider = "anthropic", NEW b \in 1..Len(server.blocks), server.blocks[b].open
  PROVE  /\ FindServer(fold, b - 1) = b /\ fold.table[b].content = b /\ b # 0
         /\ fold.content[b].kind = AnthropicKind[server.blocks[b].kind]
         /\ fold.content[b] \in Blocks /\ fold.table[b] \in Registered
         /\ fold.content[b].kind = "toolCall" => fold.table[b].partial = fold.content[b].payload
         /\ b \in 1..Len(fold.content) /\ ~ Closed(view.blocks, b)
         /\ server.blocks[b].kind # "redacted_thinking" <=> b \notin Redacted(server)
<1> DEFINE closing == Closing(fold.content, view.blocks, <<>>)
<1>1. /\ AnthropicTables(fold, server, closing) /\ fold.content \in Seq(Blocks)
      /\ fold.table \in Seq(Registered) /\ Len(fold.content) = Len(server.blocks)
      /\ Len(fold.table) = Len(server.blocks) /\ Len(server.blocks) \in Nat
  BY AnthropicReady DEF Ready
<1>2. b \in 1..Len(fold.content) /\ b \in 1..Len(fold.table)
  BY <1>1
<1>3. fold.content[b] \in Blocks /\ fold.table[b] \in Registered
  BY <1>1, <1>2
<1>4. FindServer(fold, b - 1) = b
  <2> HIDE DEF closing
  <2> QED BY <1>1, FindServerFinds
<1>5. /\ fold.table[b].content = b /\ fold.content[b].kind = AnthropicKind[server.blocks[b].kind]
      /\ fold.content[b].kind = "toolCall" => fold.table[b].partial = fold.content[b].payload
      /\ b \in closing <=> ~ server.blocks[b].open
  <2> HIDE DEF closing
  <2> QED BY <1>1 DEF AnthropicTables
<1>6. ~ Closed(view.blocks, b)
  BY <1>2, <1>5 DEF Closing
<1> QED BY <1>2, <1>3, <1>4, <1>5, <1>6 DEF Redacted
\* A block grows; the argument text of a call is kept in the table.
LEMMA AnthropicGrows ==
  ASSUME Ready, StreamAssumption, provider = "anthropic", server.stage = "body",
         NEW b \in 1..Len(server.blocks), server.blocks[b].open,
         server.blocks[b].kind # "redacted_thinking", NEW frag \in Required,
         NEW kind, kind = AnthropicKind[server.blocks[b].kind],
         NEW ev, ev = [type |-> "content_block_delta", index |-> b - 1, kind |-> kind,
                       frag |-> frag]
  PROVE  Reads(Frame(ev, Sent(kind, b), server), FoldAnthropic(ev, fold))
<1> DEFINE frame == Frame(ev, Sent(kind, b), server)
           c == fold.content
           v == view.blocks
           closing == Closing(c, v, <<>>)
           x == c[b].payload \o frag
           grown == Grow(fold, b, frag)
           partial == Streamed(fold, b, b, frag)
           st == IF kind = "toolCall" THEN partial ELSE grown
           q == <<Grown(b, c[b], frag)>>
<1>1. /\ c \in Seq(Blocks) /\ v \in Seq(ViewBlocks) /\ Level(c, v, Redacted(server))
      /\ AnthropicTables(fold, server, closing)
      /\ fold.table \in Seq(Registered) /\ server.blocks \in Seq(Brackets)
      /\ Len(server.blocks) \in Nat /\ Len(c) = Len(server.blocks)
      /\ Len(fold.table) = Len(server.blocks)
      /\ fold \in FoldStates /\ server \in Servers /\ log \in Seq(Sents) /\ fold.stop # "aborted"
  BY AnthropicReady DEF Ready
<1>2. /\ FindServer(fold, b - 1) = b /\ fold.table[b].content = b /\ b # 0 /\ c[b].kind = kind
      /\ c[b] \in Blocks /\ fold.table[b] \in Registered
      /\ kind = "toolCall" => fold.table[b].partial = c[b].payload
      /\ b \in 1..Len(c) /\ b \in 1..Len(fold.table) /\ ~ Closed(v, b) /\ b \notin Redacted(server)
  BY <1>1, AnthropicOpenBlock
<1>3. PICK piece \in Fragments : frag = <<piece>>
  BY <1>1, FragmentsSent
<1>4. frag \in Payloads /\ c[b].payload \in Payloads /\ x \in Payloads
  <2>1. frag \in Payloads /\ c[b].payload \in Payloads
    BY <1>2, <1>3, PayloadsJoin DEF Blocks
  <2> QED BY <2>1, PayloadsJoin
<1>5. /\ FoldAnthropic(ev, fold) = Folded(st, q) /\ frame.next = server
      /\ frame.sent = Sent(kind, b)
  <2>1. /\ ev.type = "content_block_delta" /\ ev.index = b - 1 /\ ev.kind = kind
        /\ ev.frag = frag
    OBVIOUS
  <2>2. FoldAnthropic(ev, fold) = AnthropicBlockDelta(ev, fold)
    BY <2>1 DEF FoldAnthropic
  <2>3. AnthropicBlockDelta(ev, fold) = Folded(st, q)
    <3>1. FindServer(fold, ev.index) = b
      BY <1>2, <2>1
    <3> HIDE DEF c
    <3> QED BY <1>2, <2>1, <3>1, Zenon DEF AnthropicBlockDelta, c
  <2> QED BY <2>2, <2>3 DEF Frame
<1> DEFINE one == [c[b] EXCEPT !.payload = x]
           d == [c EXCEPT ![b] = one]
<1>6. one \in Blocks /\ one.kind = kind /\ one.payload = x /\ one.id = c[b].id
  BY <1>2, <1>4 DEF Blocks
<1>7. /\ d \in Seq(Blocks) /\ Len(d) = Len(c) /\ d[b] = one
      /\ \A j \in 1..Len(c) : j # b => d[j] = c[j]
  <2> HIDE DEF one, c
  <2> QED BY <1>1, <1>2, <1>6, ExceptSeq
<1>8. /\ grown \in FoldStates /\ grown.content = d /\ grown.table = fold.table
      /\ grown.stop = fold.stop /\ grown.finished = fold.finished
      /\ grown.sawStart = fold.sawStart
  <2>1. grown = [fold EXCEPT !.content = d]
    BY <1>1, <1>2 DEF Grow, FoldStates
  <2> HIDE DEF grown, d
  <2> QED BY <1>1, <1>7, <2>1 DEF FoldStates
<1> HIDE DEF grown, one
<1> DEFINE two == [one EXCEPT !.parse = "streaming"]
           e == [d EXCEPT ![b] = two]
           entry == [fold.table[b] EXCEPT !.partial = fold.table[b].partial \o frag]
           r == [fold.table EXCEPT ![b] = entry]
<1>9. two \in Blocks /\ two.kind = kind /\ two.payload = x /\ two.id = c[b].id
  BY <1>6 DEF Blocks, Parses
<1>10. /\ e \in Seq(Blocks) /\ Len(e) = Len(c) /\ e[b] = two
       /\ \A j \in 1..Len(c) : j # b => e[j] = c[j]
  <2> HIDE DEF two, c, d
  <2> QED BY <1>1, <1>2, <1>7, <1>9, ExceptSeq
<1>11. ASSUME kind = "toolCall"
       PROVE  /\ entry \in Registered /\ entry.server = fold.table[b].server
              /\ entry.content = fold.table[b].content /\ entry.partial = x
  <2>1. fold.table[b].partial \o frag = x
    BY <1>2, <1>11
  <2> HIDE DEF x
  <2> QED BY <1>2, <1>4, <2>1 DEF Registered
<1>12. ASSUME kind = "toolCall"
       PROVE  /\ r \in Seq(Registered) /\ Len(r) = Len(fold.table) /\ r[b] = entry
              /\ \A j \in 1..Len(fold.table) : j # b => r[j] = fold.table[j]
  <2>1. entry \in Registered
    BY <1>11, <1>12
  <2> HIDE DEF entry
  <2> QED BY <1>1, <1>2, <2>1, ExceptSeq
<1>13. ASSUME kind = "toolCall"
       PROVE  /\ partial \in FoldStates /\ partial.content = e /\ partial.table = r
              /\ partial.stop = fold.stop /\ partial.finished = fold.finished
              /\ partial.sawStart = fold.sawStart
  <2>1. partial = [grown EXCEPT !.table = r, !.content = e]
    <3>1. partial = [grown EXCEPT !.table[b].partial = @ \o frag, !.content[b].parse = "streaming"]
      BY DEF Streamed, grown
    <3> QED BY <1>7, <1>8, <3>1 DEF FoldStates
  <2>2. r \in Seq(Registered) /\ e \in Seq(Blocks)
    BY <1>10, <1>12, <1>13
  <2> HIDE DEF partial, r, e
  <2> QED BY <1>8, <2>1, <2>2 DEF FoldStates
<1> HIDE DEF partial, r, e, d, entry, two
<1>14. /\ st \in FoldStates /\ st.content \in Seq(Blocks) /\ st.stop = fold.stop
       /\ st.finished = fold.finished /\ st.sawStart = fold.sawStart
       /\ Changed(c, st.content, b, frag) /\ st.content[b].id = c[b].id
       /\ st.table \in Seq(Registered) /\ Len(st.table) = Len(fold.table)
       /\ \A j \in 1..Len(fold.table) :
           /\ st.table[j].server = fold.table[j].server
           /\ st.table[j].content = fold.table[j].content
           /\ j # b => st.table[j].partial = fold.table[j].partial
       /\ st.content[b].kind = "toolCall" => st.table[b].partial = st.content[b].payload
  <2>1. CASE kind = "toolCall"
    <3>1. st = partial
      BY <2>1
    <3> HIDE DEF st, c
    <3>2. Changed(c, st.content, b, frag)
      BY <1>2, <1>9, <1>10, <1>13, <2>1, <3>1 DEF Changed
    <3>3. \A j \in 1..Len(fold.table) :
            /\ st.table[j].server = fold.table[j].server
            /\ st.table[j].content = fold.table[j].content
            /\ j # b => st.table[j].partial = fold.table[j].partial
      BY <1>11, <1>12, <1>13, <2>1, <3>1
    <3>4. st.table[b].partial = st.content[b].payload
      BY <1>9, <1>10, <1>11, <1>12, <1>13, <2>1, <3>1
    <3>5. st.content[b].id = c[b].id
      BY <1>9, <1>10, <1>13, <2>1, <3>1
    <3> QED BY <1>10, <1>12, <1>13, <2>1, <3>1, <3>2, <3>3, <3>4, <3>5
  <2>2. CASE kind # "toolCall"
    <3>1. st = grown
      BY <2>2
    <3> HIDE DEF st, c
    <3>2. Changed(c, st.content, b, frag)
      BY <1>2, <1>6, <1>7, <1>8, <3>1 DEF Changed
    <3> QED BY <1>1, <1>6, <1>7, <1>8, <2>2, <3>1, <3>2
  <2> QED BY <2>1, <2>2
<1> HIDE DEF st
<1>15. Grows(c, st.content, v, q, Redacted(server), Redacted(server))
  BY <1>2, <1>3, <1>14 DEF Grows
<1> HIDE DEF q, x
<1>16. ViewOK(st.content, v, q, Redacted(server)) /\ Closing(st.content, v, q) = closing
  BY <1>1, <1>14, <1>15, GrowsKeeps
<1>17. AnthropicTables(st, server, closing)
  <2>1. \A j \in 1..Len(server.blocks) : j \in closing <=> ~ server.blocks[j].open
    BY <1>1 DEF AnthropicTables
  <2> HIDE DEF closing, c
  <2> QED BY <1>1, <1>14, <2>1, AnthropicBlockChanges DEF c
<1>18. q \in Seq(Events) /\ frame.sent \in Seq(Sents)
  <2>1. Grown(b, c[b], frag) \in Events
    BY <1>1, <1>2, <1>4 DEF Grown, Events
  <2>3. q \in Seq(Events)
    BY <2>1 DEF q
  <2>4. kind \in Kinds /\ b \in Nat
    BY <1>1, <1>2 DEF Blocks
  <2> HIDE DEF frame
  <2> QED BY <1>5, <2>3, <2>4, SentFragment
<1> DEFINE f == Folded(st, q)
<1>19. f.st = st /\ f.events = q /\ f.failed = FALSE
  BY DEF Folded
<1> HIDE DEF f, frame
<1>20. Copied(st, server, log \o frame.sent)
  <2>1. frame.sent = Sent(fold.content[b].kind, b) /\ Changed(fold.content, st.content, b, frag)
    BY <1>2, <1>5, <1>14
  <2> QED BY <1>2, <1>14, <2>1, AnthropicCopies
<1>21. Reads(frame, f)
  BY <1>1, <1>5, <1>14, <1>16, <1>17, <1>18, <1>19, <1>20 DEF Reads, Tables
<1> QED BY <1>5, <1>21 DEF frame, f

\* A block ends; the arguments of a call get their final parse first.
LEMMA AnthropicBlockEnds ==
  ASSUME Ready, StreamAssumption, provider = "anthropic", server.stage = "body",
         NEW b \in 1..Len(server.blocks), server.blocks[b].open,
         NEW ev, ev = [type |-> "content_block_stop", index |-> b - 1]
  PROVE  Reads(Frame(ev, <<>>, [server EXCEPT !.blocks[b].open = FALSE]),
               FoldAnthropic(ev, fold))
<1> DEFINE sv == [server EXCEPT !.blocks[b].open = FALSE]
           frame == Frame(ev, <<>>, sv)
           c == fold.content
           v == view.blocks
           w == Redacted(server)
           closing == Closing(c, v, <<>>)
           parsed == Parsed(fold, b, b)
           st == IF c[b].kind = "toolCall" THEN parsed ELSE fold
           q == <<Ended(b, st.content[b])>>
<1>1. /\ c \in Seq(Blocks) /\ v \in Seq(ViewBlocks) /\ Level(c, v, w)
      /\ AnthropicTables(fold, server, closing)
      /\ fold.table \in Seq(Registered) /\ server.blocks \in Seq(Brackets)
      /\ Len(server.blocks) \in Nat /\ Len(c) = Len(server.blocks)
      /\ Len(fold.table) = Len(server.blocks)
      /\ fold \in FoldStates /\ server \in Servers /\ log \in Seq(Sents) /\ fold.stop # "aborted"
  BY AnthropicReady DEF Ready
<1>2. /\ FindServer(fold, b - 1) = b /\ fold.table[b].content = b /\ b # 0
      /\ c[b] \in Blocks /\ b \in 1..Len(c) /\ ~ Closed(v, b)
      /\ c[b].kind = "toolCall" => fold.table[b].partial = c[b].payload
  BY <1>1, AnthropicOpenBlock
<1>3. FoldAnthropic(ev, fold) = Folded(st, q) /\ frame.next = sv /\ frame.sent = <<>>
  <2>1. ev.type = "content_block_stop" /\ ev.index = b - 1
    OBVIOUS
  <2>2. FoldAnthropic(ev, fold) = AnthropicBlockStop(ev, fold)
    BY <2>1 DEF FoldAnthropic
  <2>3. AnthropicBlockStop(ev, fold) = Folded(st, q)
    BY <1>2, <2>1 DEF AnthropicBlockStop
  <2> QED BY <2>2, <2>3 DEF Frame
<1> DEFINE one == [c[b] EXCEPT !.parse = "final", !.payload = fold.table[b].partial]
           d == [c EXCEPT ![b] = one]
<1>4. ASSUME c[b].kind = "toolCall"
      PROVE  /\ one \in Blocks /\ one.kind = c[b].kind /\ one.payload = c[b].payload
             /\ one.id = c[b].id /\ one.parse = "final"
  BY <1>2, <1>4 DEF Blocks, Parses
<1>5. ASSUME c[b].kind = "toolCall"
      PROVE  /\ d \in Seq(Blocks) /\ Len(d) = Len(c) /\ d[b] = one
             /\ \A j \in 1..Len(c) : j # b => d[j] = c[j]
  <2>1. one \in Blocks
    BY <1>4, <1>5
  <2> HIDE DEF one, c
  <2> QED BY <1>1, <1>2, <2>1, ExceptSeq
<1>6. ASSUME c[b].kind = "toolCall"
      PROVE  /\ parsed \in FoldStates /\ parsed.content = d /\ parsed.table = fold.table
             /\ parsed.stop = fold.stop /\ parsed.finished = fold.finished
             /\ parsed.sawStart = fold.sawStart
  <2>1. parsed = [fold EXCEPT !.content = d]
    BY <1>1, <1>2 DEF Parsed, FoldStates
  <2>2. d \in Seq(Blocks)
    BY <1>5, <1>6
  <2> HIDE DEF parsed, d
  <2> QED BY <1>1, <2>1, <2>2 DEF FoldStates
<1> HIDE DEF parsed, d, one
<1>7. c[b].payload \o <<>> = c[b].payload
  BY <1>2, PayloadsJoin DEF Blocks
<1>8. /\ st \in FoldStates /\ st.content \in Seq(Blocks) /\ st.stop = fold.stop
      /\ st.finished = fold.finished /\ st.sawStart = fold.sawStart
      /\ Changed(c, st.content, b, <<>>) /\ st.table = fold.table
      /\ st.content[b].kind = "toolCall" => /\ st.table[b].partial = st.content[b].payload
                                            /\ st.content[b].parse = "final"
      /\ st.content[b].id = c[b].id
  <2>1. CASE c[b].kind = "toolCall"
    <3>1. st = parsed
      BY <2>1
    <3> HIDE DEF st, c
    <3>2. Changed(c, st.content, b, <<>>)
      BY <1>2, <1>4, <1>5, <1>6, <1>7, <2>1, <3>1 DEF Changed
    <3> QED BY <1>2, <1>4, <1>5, <1>6, <2>1, <3>1, <3>2
  <2>2. CASE c[b].kind # "toolCall"
    <3>1. st = fold
      BY <2>2
    <3> HIDE DEF st
    <3> QED BY <1>1, <1>2, <1>7, <2>2, <3>1 DEF Changed
  <2> QED BY <2>1, <2>2
<1> HIDE DEF st
<1> DEFINE bracket == [server.blocks[b] EXCEPT !.open = FALSE]
           u == [server.blocks EXCEPT ![b] = bracket]
<1>9. /\ sv \in Servers /\ sv.stage = "body" /\ sv.blocks \in Seq(Brackets)
      /\ Len(sv.blocks) = Len(server.blocks)
      /\ \A j \in 1..Len(server.blocks) :
           /\ sv.blocks[j].kind = server.blocks[j].kind
           /\ sv.blocks[j].open <=> j # b /\ server.blocks[j].open
  <2>1. server.blocks[b] \in Brackets
    BY <1>1
  <2>2. bracket \in Brackets /\ bracket.kind = server.blocks[b].kind /\ ~ bracket.open
    BY <2>1 DEF Brackets
  <2>3. /\ u \in Seq(Brackets) /\ Len(u) = Len(server.blocks) /\ u[b] = bracket
        /\ \A j \in 1..Len(server.blocks) : j # b => u[j] = server.blocks[j]
    <3> HIDE DEF bracket
    <3> QED BY <1>1, <2>2, ExceptSeq
  <2>4. sv = [server EXCEPT !.blocks = u]
    BY <1>1 DEF Servers
  <2> HIDE DEF sv, u, bracket
  <2>5. sv \in Servers /\ sv.stage = "body" /\ sv.blocks = u
    BY <1>1, <2>3, <2>4 DEF Servers
  <2> QED BY <2>2, <2>3, <2>5
<1> HIDE DEF sv
<1>10. Redacted(sv) = w
  BY <1>9 DEF Redacted
<1>11. EndsOne(c, st.content, v, q, w, w, b)
  BY <1>2, <1>8 DEF EndsOne
<1> HIDE DEF q
<1>12. ViewOK(st.content, v, q, w) /\ Closing(st.content, v, q) = closing \cup {b}
  <2> DEFINE x == st.content
  <2>1. x \in Seq(Blocks) /\ EndsOne(c, x, v, q, w, w, b)
    BY <1>8, <1>11
  <2> HIDE DEF c, v, w, x
  <2>2. ViewOK(x, v, q, w) /\ Closing(x, v, q) = Closing(c, v, <<>>) \cup {b}
    BY <1>1, <2>1, EndsOneKeeps
  <2> QED BY <2>2 DEF x
<1>13. AnthropicTables(st, sv, closing \cup {b})
  <2>1. \A j \in 1..Len(server.blocks) : j \in closing \cup {b} <=> ~ sv.blocks[j].open
    BY <1>1, <1>9 DEF AnthropicTables
  <2> HIDE DEF closing
  <2>2. AnthropicTables(fold, server, closing)
    BY <1>1
  <2>3. Changed(fold.content, st.content, b, <<>>)
    BY <1>8
  <2> HIDE DEF c
  <2> QED BY <1>1, <1>8, <1>9, <2>1, <2>2, <2>3, AnthropicBlockChanges
<1>14. q \in Seq(Events) /\ <<>> \in Seq(Sents)
  <2>1. st.content[b] \in Blocks
    BY <1>2, <1>8 DEF Changed
  <2>2. Ended(b, st.content[b]) \in Events
    BY <1>1, <1>2, <2>1, PayloadsJoin DEF Ended, Events
  <2> QED BY <2>2 DEF q
<1> DEFINE f == Folded(st, q)
<1>15. f.st = st /\ f.events = q /\ f.failed = FALSE
  BY DEF Folded
<1> HIDE DEF f, frame
<1>16. Copied(st, sv, log \o frame.sent)
  <2>1. \A j \in 1..Len(fold.content) : j # b => sv.blocks[j].open = server.blocks[j].open
    <3>1. \A j \in 1..Len(server.blocks) : server.blocks[j] \in Brackets /\ sv.blocks[j] \in Brackets
      BY <1>1, <1>9
    <3> QED BY <1>1, <1>9, <3>1 DEF Brackets
  <2>2. b \in 1..Len(fold.content) /\ Changed(fold.content, st.content, b, <<>>)
    BY <1>2, <1>8
  <2> QED BY <1>3, <1>8, <2>1, <2>2, AnthropicCopies
<1>17. Reads(frame, f)
  BY <1>1, <1>3, <1>8, <1>9, <1>10, <1>12, <1>13, <1>14, <1>15, <1>16 DEF Reads, Tables
<1> QED BY <1>3, <1>17 DEF frame, f, sv

\* Whatever Anthropic's server sends next is folded as it should be.
LEMMA AnthropicReads ==
  ASSUME Ready, StreamAssumption, provider = "anthropic", NEW frame \in AnthropicFrames
  PROVE  Reads(frame, FoldAnthropic(frame.ev, fold))
<1> DEFINE closing == Closing(fold.content, view.blocks, <<>>)
           f == FoldAnthropic(frame.ev, fold)
<1>1. /\ fold \in FoldStates /\ server \in Servers /\ fold.stop # "aborted"
      /\ server.blocks \in Seq(Brackets)
      /\ AnthropicTables(fold, server, closing)
  BY AnthropicReady DEF Ready
<1>2. /\ server.stage = "new" => server.blocks = <<>>
      /\ server.stage \in {"reason", "end"} =>
           \A i \in 1..Len(server.blocks) : ~ server.blocks[i].open
      /\ fold.finished => server.stage = "end"
      /\ ~ fold.sawStart => server.stage = "new"
  BY <1>1 DEF AnthropicTables
<1>3. <<>> \in Seq(Sents)
  OBVIOUS
<1>4. CASE frame = Frame([type |-> "error"], <<>>, server)
  <2> DEFINE ev == [type |-> "error"]
  <2>1. FoldAnthropic(ev, fold) = [st |-> fold, events |-> <<>>, failed |-> TRUE]
    BY DEF FoldAnthropic, Refused
  <2>2. frame.ev = ev
    BY <1>4 DEF Frame
  <2> HIDE DEF ev
  <2>3. Reads(Frame(ev, <<>>, server), [st |-> fold, events |-> <<>>, failed |-> TRUE])
    BY <1>1, <1>2, <1>3, AnthropicPlain
  <2> QED BY <1>4, <2>1, <2>2, <2>3 DEF ev
<1>5. CASE /\ server.stage = "new"
           /\ frame = Frame([type |-> "message_start"], <<>>, [server EXCEPT !.stage = "body"])
  <2> DEFINE ev == [type |-> "message_start"]
             st == [fold EXCEPT !.sawStart = TRUE]
             sv == [server EXCEPT !.stage = "body"]
  <2>1. FoldAnthropic(ev, fold) = [st |-> st, events |-> <<>>, failed |-> FALSE]
    BY DEF FoldAnthropic, Folded
  <2>2. frame.ev = ev /\ frame = Frame(ev, <<>>, sv)
    BY <1>5 DEF Frame
  <2>3. /\ st \in FoldStates /\ st.stop = fold.stop /\ st.content = fold.content
        /\ st.table = fold.table /\ st.sawStart /\ st.finished = fold.finished
    BY <1>1 DEF FoldStates
  <2>4. sv \in Servers /\ sv.blocks = server.blocks /\ sv.stage = "body"
    BY <1>1 DEF Servers
  <2> HIDE DEF ev, st, sv
  <2>5. Reads(Frame(ev, <<>>, sv), [st |-> st, events |-> <<>>, failed |-> FALSE])
    BY <1>1, <1>2, <1>3, <1>5, <2>3, <2>4, AnthropicPlain
  <2> QED BY <2>1, <2>2, <2>5
<1>6. CASE /\ server.stage = "reason"
           /\ frame = Frame([type |-> "message_stop"], <<>>, [server EXCEPT !.stage = "end"])
  <2> DEFINE ev == [type |-> "message_stop"]
             st == [fold EXCEPT !.finished = TRUE]
             sv == [server EXCEPT !.stage = "end"]
  <2>1. FoldAnthropic(ev, fold) = [st |-> st, events |-> <<>>, failed |-> FALSE]
    BY DEF FoldAnthropic, Folded
  <2>2. frame.ev = ev /\ frame = Frame(ev, <<>>, sv)
    BY <1>6 DEF Frame
  <2>3. /\ st \in FoldStates /\ st.stop = fold.stop /\ st.content = fold.content
        /\ st.table = fold.table /\ st.sawStart = fold.sawStart
    BY <1>1 DEF FoldStates
  <2>4. sv \in Servers /\ sv.blocks = server.blocks /\ sv.stage = "end"
    BY <1>1 DEF Servers
  <2> HIDE DEF ev, st, sv
  <2>5. Reads(Frame(ev, <<>>, sv), [st |-> st, events |-> <<>>, failed |-> FALSE])
    BY <1>1, <1>2, <1>3, <1>6, <2>3, <2>4, AnthropicPlain
  <2> QED BY <2>1, <2>2, <2>5
<1>7. CASE server.stage = "body" /\ frame \in AnthropicInBody
  <2> DEFINE open == {b \in 1..Len(server.blocks) : server.blocks[b].open}
  <2>1. CASE \E kind \in {"text", "thinking", "tool_use"} : frame = AnthropicOpen(kind, <<>>)
    <3>1. PICK kind \in {"text", "thinking", "tool_use"} : frame = AnthropicOpen(kind, <<>>)
      BY <2>1
    <3>2. kind \in DOMAIN AnthropicKind /\ kind # "redacted_thinking"
      BY DEF AnthropicKind
    <3>3. Reads(AnthropicOpen(kind, <<>>), FoldAnthropic(AnthropicOpen(kind, <<>>).ev, fold))
      BY <1>7, <3>2, AnthropicOpens
    <3> QED BY <3>1, <3>3
  <2>2. CASE \E frag \in Required : frame = AnthropicOpen("redacted_thinking", frag)
    <3>1. PICK frag \in Required : frame = AnthropicOpen("redacted_thinking", frag)
      BY <2>2
    <3>2. "redacted_thinking" \in DOMAIN AnthropicKind
      BY DEF AnthropicKind
    <3>3. Reads(AnthropicOpen("redacted_thinking", frag),
                FoldAnthropic(AnthropicOpen("redacted_thinking", frag).ev, fold))
      BY <1>7, <3>2, AnthropicOpens
    <3> QED BY <3>1, <3>3
  <2>3. ASSUME NEW b \in open, server.blocks[b].kind # "redacted_thinking", NEW frag \in Required,
               NEW kind, kind = AnthropicKind[server.blocks[b].kind],
               frame = Frame([type |-> "content_block_delta", index |-> b - 1, kind |-> kind,
                              frag |-> frag], Sent(kind, b), server)
        PROVE  Reads(frame, FoldAnthropic(frame.ev, fold))
    <3> DEFINE ev == [type |-> "content_block_delta", index |-> b - 1, kind |-> kind,
                      frag |-> frag]
    <3>1. Reads(Frame(ev, Sent(kind, b), server), FoldAnthropic(ev, fold))
      BY <1>7, <2>3, AnthropicGrows
    <3>2. frame.ev = ev /\ frame = Frame(ev, Sent(kind, b), server)
      BY <2>3 DEF Frame
    <3> HIDE DEF ev
    <3> QED BY <3>1, <3>2
  <2>4. ASSUME NEW b \in open,
               frame = Frame([type |-> "content_block_stop", index |-> b - 1], <<>>,
                             [server EXCEPT !.blocks[b].open = FALSE])
        PROVE  Reads(frame, FoldAnthropic(frame.ev, fold))
    <3> DEFINE ev == [type |-> "content_block_stop", index |-> b - 1]
               sv == [server EXCEPT !.blocks[b].open = FALSE]
    <3>1. Reads(Frame(ev, <<>>, sv), FoldAnthropic(ev, fold))
      BY <1>7, <2>4, AnthropicBlockEnds
    <3>2. frame.ev = ev /\ frame = Frame(ev, <<>>, sv)
      BY <2>4 DEF Frame
    <3> HIDE DEF ev, sv
    <3> QED BY <3>1, <3>2
  <2>5. ASSUME open = {}, NEW reason \in Reasons,
               frame = Frame([type |-> "message_delta", reason |-> reason], <<>>,
                             [server EXCEPT !.stage = "reason", !.reason = reason])
        PROVE  Reads(frame, FoldAnthropic(frame.ev, fold))
    <3> DEFINE ev == [type |-> "message_delta", reason |-> reason]
               stop == AnthropicReason[reason]
               st == IF reason \in DOMAIN AnthropicReason THEN [fold EXCEPT !.stop = stop] ELSE fold
               sv == [server EXCEPT !.stage = "reason", !.reason = reason]
               failed == reason \notin DOMAIN AnthropicReason
    <3>1. FoldAnthropic(ev, fold) = [st |-> st, events |-> <<>>, failed |-> failed]
      BY DEF FoldAnthropic, Folded, Refused
    <3>2. frame.ev = ev /\ frame = Frame(ev, <<>>, sv)
      BY <2>5 DEF Frame
    <3>3. /\ st \in FoldStates /\ st.stop # "aborted" /\ st.content = fold.content
          /\ st.table = fold.table /\ st.sawStart = fold.sawStart /\ st.finished = fold.finished
      <4>1. reason \in DOMAIN AnthropicReason => stop \in Stops \ {"aborted"}
        BY DEF AnthropicReason, Stops
      <4> HIDE DEF stop
      <4>2. CASE reason \in DOMAIN AnthropicReason
        BY <1>1, <4>1, <4>2 DEF FoldStates
      <4>3. CASE reason \notin DOMAIN AnthropicReason
        BY <1>1, <4>3
      <4> QED BY <4>2, <4>3
    <3>4. sv \in Servers /\ sv.blocks = server.blocks /\ sv.stage = "reason"
      BY <1>1 DEF Servers
    <3>5. \A i \in 1..Len(server.blocks) : ~ server.blocks[i].open
      BY <2>5
    <3>6. failed \in BOOLEAN
      OBVIOUS
    <3> HIDE DEF ev, st, sv, failed
    <3>7. Reads(Frame(ev, <<>>, sv), [st |-> st, events |-> <<>>, failed |-> failed])
      BY <1>1, <1>2, <1>3, <1>7, <3>3, <3>4, <3>5, <3>6, AnthropicPlain
    <3> QED BY <3>1, <3>2, <3>7
  <2>6. DOMAIN server.blocks = 1..Len(server.blocks)
    BY <1>1
  <2> DEFINE growing == {b \in open : server.blocks[b].kind # "redacted_thinking"}
             Kind(b) == AnthropicKind[server.blocks[b].kind]
             A1 == {AnthropicOpen(kind, <<>>) :
                      kind \in IF MayOpen THEN {"text", "thinking", "tool_use"} ELSE {}}
             A2 == {AnthropicOpen("redacted_thinking", frag) :
                      frag \in IF MayOpen THEN Required ELSE {}}
             A3 == {Frame([type |-> "content_block_delta", index |-> b - 1, kind |-> Kind(b),
                           frag |-> frag], Sent(Kind(b), b), server) :
                      b \in growing, frag \in Required}
             A4 == {Frame([type |-> "content_block_stop", index |-> b - 1], <<>>,
                          [server EXCEPT !.blocks[b].open = FALSE]) : b \in open}
             A5 == {Frame([type |-> "message_delta", reason |-> reason], <<>>,
                          [server EXCEPT !.stage = "reason", !.reason = reason]) :
                      reason \in IF open = {} THEN Reasons ELSE {}}
  <2>7. AnthropicInBody = A1 \cup A2 \cup A3 \cup A4 \cup A5
    BY <2>6 DEF AnthropicInBody
  <2> HIDE DEF A1, A2, A3, A4, A5
  <2>8. CASE frame \in A1
    BY <2>1, <2>8 DEF A1
  <2>9. CASE frame \in A2
    BY <2>2, <2>9 DEF A2
  <2>10. CASE frame \in A3
    <3>1. PICK b \in growing, frag \in Required :
            frame = Frame([type |-> "content_block_delta", index |-> b - 1, kind |-> Kind(b),
                           frag |-> frag], Sent(Kind(b), b), server)
      BY <2>10 DEF A3
    <3>2. b \in open /\ server.blocks[b].kind # "redacted_thinking"
      OBVIOUS
    <3> HIDE DEF open
    <3> QED BY <2>3, <3>1, <3>2
  <2>11. CASE frame \in A4
    <3>1. PICK b \in open : frame = Frame([type |-> "content_block_stop", index |-> b - 1], <<>>,
                                          [server EXCEPT !.blocks[b].open = FALSE])
      BY <2>11 DEF A4
    <3> HIDE DEF open
    <3> QED BY <2>4, <3>1
  <2>12. CASE frame \in A5
    <3>1. PICK reason \in IF open = {} THEN Reasons ELSE {} :
            frame = Frame([type |-> "message_delta", reason |-> reason], <<>>,
                          [server EXCEPT !.stage = "reason", !.reason = reason])
      BY <2>12 DEF A5
    <3>2. open = {} /\ reason \in Reasons
      BY <3>1
    <3> HIDE DEF open
    <3> QED BY <2>5, <3>1, <3>2
  <2> QED BY <1>7, <2>7, <2>8, <2>9, <2>10, <2>11, <2>12
<1>8. \/ frame \in AnthropicInBody /\ server.stage = "body"
      \/ frame = Frame([type |-> "error"], <<>>, server)
      \/ /\ server.stage = "new"
         /\ frame = Frame([type |-> "message_start"], <<>>, [server EXCEPT !.stage = "body"])
      \/ /\ server.stage = "reason"
         /\ frame = Frame([type |-> "message_stop"], <<>>, [server EXCEPT !.stage = "end"])
  <2> HIDE DEF closing, f
  <2>1. server.stage \in {"new", "body", "reason", "end"}
    BY <1>1 DEF Servers
  <2> DEFINE start == Frame([type |-> "message_start"], <<>>, [server EXCEPT !.stage = "body"])
             stop == Frame([type |-> "message_stop"], <<>>, [server EXCEPT !.stage = "end"])
             error == Frame([type |-> "error"], <<>>, server)
  <2>2. AnthropicFrames = (CASE server.stage = "new" -> {start}
                             [] server.stage = "body" -> AnthropicInBody
                             [] server.stage = "reason" -> {stop}
                             [] OTHER -> {}) \cup {error}
    BY DEF AnthropicFrames
  <2> HIDE DEF start, stop, error
  <2>3. CASE server.stage = "new"
    BY <2>2, <2>3 DEF start, error
  <2>4. CASE server.stage = "body"
    BY <2>2, <2>4 DEF error
  <2>5. CASE server.stage = "reason"
    BY <2>2, <2>5 DEF stop, error
  <2>6. CASE server.stage = "end"
    BY <2>2, <2>6 DEF error
  <2> QED BY <2>1, <2>3, <2>4, <2>5, <2>6
<1> QED BY <1>4, <1>5, <1>6, <1>7, <1>8

-----------------------------------------------------------------------------
(* OpenAI.                                                                 *)

\* The index a search returns.
LEMMA MinMaxIn ==
  ASSUME NEW n \in Nat, NEW T, T \subseteq 1..n, T # {}
  PROVE  Min(T) \in T /\ Max(T) \in T
<1>1. \E x \in T : \A y \in T : x <= y
  BY NatMin, T \subseteq Nat
<1>2. \E x \in T : \A y \in T : x >= y
  <2> DEFINE Above == {x \in Nat : \A y \in T : x >= y}
  <2>1. n \in Above
    OBVIOUS
  <2>2. PICK x \in Above : \A y \in Above : x <= y
    <3>1. Above \subseteq Nat /\ Above # {}
      BY <2>1
    <3> HIDE DEF Above
    <3> QED BY <3>1, NatMin
  <2>3. x \in T
    <3> SUFFICES ASSUME x \notin T PROVE FALSE
      OBVIOUS
    <3>1. \A y \in T : y \in 1..n /\ x > y
      BY <2>2
    <3>0. PICK z \in T : TRUE
      OBVIOUS
    <3>2. x \in Nat /\ z \in 1..n /\ x > z
      <4>1. x \in Nat
        BY <2>2
      <4> QED BY <3>1, <4>1
    <3>3. x - 1 \in Above
      BY <3>1, <3>2
    <3>4. x <= x - 1
      BY <2>2, <3>3
    <3> QED BY <3>2, <3>4
  <2> QED BY <2>2, <2>3
<1> QED BY <1>1, <1>2 DEF Min, Max

\* Nothing is closed before the end of the body.
LEMMA OpenAIReady ==
  ASSUME Ready, provider = "openai"
  PROVE  /\ OpenAITables(fold, server, {})
         /\ fold \in FoldStates /\ server \in Servers /\ fold.stop # "aborted"
         /\ fold.content \in Seq(Blocks) /\ view.blocks \in Seq(ViewBlocks)
         /\ Level(fold.content, view.blocks, {})
         /\ fold.table \in Seq(StreamedCalls) /\ server.blocks \in Seq(BOOLEAN)
         /\ Len(fold.content) \in Nat /\ Len(fold.table) \in Nat
         /\ Closing(fold.content, view.blocks, <<>>) = {}
         /\ \A i \in 1..Len(fold.content) : ~ Closed(view.blocks, i)
<1> DEFINE closing == Closing(fold.content, view.blocks, <<>>)
<1>1. /\ fold \in FoldStates /\ server \in Servers /\ fold.stop # "aborted"
      /\ fold.content \in Seq(Blocks) /\ view.blocks \in Seq(ViewBlocks)
      /\ Level(fold.content, view.blocks, {}) /\ OpenAITables(fold, server, closing)
  BY DEF Ready, Tables, Withheld
<1>2. closing = {} /\ fold.table \in Seq(StreamedCalls) /\ server.blocks \in Seq(BOOLEAN)
  BY <1>1 DEF OpenAITables
<1>3. \A i \in 1..Len(fold.content) : ~ Closed(view.blocks, i)
  BY <1>2 DEF Closing
<1> HIDE DEF closing
<1>4. OpenAITables(fold, server, {})
  BY <1>1, <1>2
<1> QED BY <1>1, <1>2, <1>3, <1>4 DEF closing

\* A frame that moves the message and leaves the tables in order is folded well.
LEMMA OpenAIMoves ==
  ASSUME Ready, provider = "openai", NEW st \in FoldStates, st.stop # "aborted",
         NEW sv \in Servers, OpenAITables(st, sv, {}), NEW q \in Seq(Events),
         NEW sent \in Seq(Sents), NEW ev, NEW failed \in BOOLEAN, failed => q = <<>>,
         Copied(st, sv, log \o sent),
         \/ Rests(fold.content, st.content, view.blocks, q, {}, {})
         \/ Grows(fold.content, st.content, view.blocks, q, {}, {})
         \/ Opens(fold.content, st.content, view.blocks, q, {}, {})
  PROVE  Reads(Frame(ev, sent, sv), [st |-> st, events |-> q, failed |-> failed])
<1> DEFINE frame == Frame(ev, sent, sv)
           f == [st |-> st, events |-> q, failed |-> failed]
<1>1. /\ fold.content \in Seq(Blocks) /\ view.blocks \in Seq(ViewBlocks)
      /\ Level(fold.content, view.blocks, {})
      /\ Closing(fold.content, view.blocks, <<>>) = {}
  BY OpenAIReady
<1>2. st.content \in Seq(Blocks) /\ {} \subseteq 1..Len(fold.content)
  BY DEF FoldStates
<1>3. ViewOK(st.content, view.blocks, q, {}) /\ Closing(st.content, view.blocks, q) = {}
  <2>1. CASE Rests(fold.content, st.content, view.blocks, q, {}, {})
    BY <1>1, <1>2, <2>1, RestsKeeps
  <2>2. CASE Grows(fold.content, st.content, view.blocks, q, {}, {})
    BY <1>1, <1>2, <2>2, GrowsKeeps
  <2>3. CASE Opens(fold.content, st.content, view.blocks, q, {}, {})
    BY <1>1, <1>2, <2>3, OpensKeeps
  <2> QED BY <2>1, <2>2, <2>3
<1>4. /\ frame.next = sv /\ frame.sent = sent /\ f.st = st /\ f.events = q /\ f.failed = failed
  BY DEF Frame
<1> HIDE DEF frame, f
<1>5. Reads(frame, f)
  BY <1>3, <1>4 DEF Reads, Tables
<1> QED BY <1>5 DEF frame, f

\* The tables say nothing of text and reasoning.
LEMMA OpenAITablesKept ==
  ASSUME NEW st, NEW t, NEW sv, OpenAITables(st, sv, {}), t.table = st.table,
         t.finished = st.finished, Len(st.content) \in Nat, Len(t.content) \in Nat,
         Len(st.content) <= Len(t.content),
         \A j \in 1..Len(st.content) : st.content[j].kind = "toolCall" =>
           t.content[j] = st.content[j]
  PROVE  OpenAITables(t, sv, {})
<1>1. /\ st.table \in Seq(StreamedCalls) /\ sv.blocks \in Seq(BOOLEAN)
      /\ \A b \in 1..Len(st.table) :
           /\ st.table[b].content <= Len(st.content)
           /\ st.content[st.table[b].content].kind = "toolCall"
           /\ st.table[b].partial = st.content[st.table[b].content].payload
      /\ \A a, b \in 1..Len(st.table) : st.table[a].content = st.table[b].content => a = b
      /\ st.finished => sv.stage = "end"
  BY DEF OpenAITables
<1>2. ASSUME NEW b \in 1..Len(st.table)
      PROVE  /\ st.table[b].content <= Len(t.content)
             /\ t.content[st.table[b].content].kind = "toolCall"
             /\ st.table[b].partial = t.content[st.table[b].content].payload
  <2>1. st.table[b].content \in Nat \ {0}
    <3>1. st.table[b] \in StreamedCalls
      BY <1>1
    <3> QED BY <3>1 DEF StreamedCalls
  <2>2. /\ st.table[b].content \in 1..Len(st.content)
        /\ st.content[st.table[b].content].kind = "toolCall"
        /\ st.table[b].partial = st.content[st.table[b].content].payload
    BY <1>1, <2>1
  <2>3. t.content[st.table[b].content] = st.content[st.table[b].content]
    BY <2>2
  <2> QED BY <2>2, <2>3
<1> QED BY <1>1, <1>2 DEF OpenAITables

\* A registered call: its entry and its block.
LEMMA CallKnown ==
  ASSUME NEW st \in FoldStates, NEW sv, OpenAITables(st, sv, {}), NEW b \in 1..Len(st.table)
  PROVE  /\ st.table \in Seq(StreamedCalls) /\ st.content \in Seq(Blocks)
         /\ st.table[b] \in StreamedCalls
         /\ st.table[b].content \in 1..Len(st.content)
         /\ st.content[st.table[b].content] \in Blocks
         /\ st.content[st.table[b].content].kind = "toolCall"
         /\ st.table[b].partial = st.content[st.table[b].content].payload
         /\ st.table[b].partial \in Payloads
<1>1. st.table \in Seq(StreamedCalls) /\ st.content \in Seq(Blocks)
  BY DEF OpenAITables, FoldStates
<1>2. st.table[b] \in StreamedCalls
  BY <1>1
<1>3. st.table[b].content \in Nat \ {0} /\ st.table[b].partial \in Payloads
  BY <1>2 DEF StreamedCalls
<1>4. /\ st.table[b].content <= Len(st.content)
      /\ st.content[st.table[b].content].kind = "toolCall"
      /\ st.table[b].partial = st.content[st.table[b].content].payload
  BY DEF OpenAITables
<1>5. st.table[b].content \in 1..Len(st.content)
  BY <1>1, <1>3, <1>4
<1> QED BY <1>1, <1>2, <1>3, <1>4, <1>5

\* The blocks of an OpenAI message are told apart by what they are for.
LEMMA OpenAICallOf ==
  ASSUME provider = "openai", NEW st \in FoldStates, NEW sv,
         OpenAITables(st, sv, {}), OpenAINames(st, sv)
  PROVE  /\ \A b \in 1..Len(st.table) : CallOf(st.content, st.table[b].content) = b
         /\ \A i \in 1..Len(st.content) : st.content[i].kind # "toolCall" => CallOf(st.content, i) = 0
         /\ \A i, j \in 1..Len(st.content) :
              st.content[i].kind = st.content[j].kind /\ CallOf(st.content, i) = CallOf(st.content, j)
                => i = j
<1> DEFINE c == st.content
<1>1. \A b \in 1..Len(st.table) : CallOf(c, st.table[b].content) = b
  <2> SUFFICES ASSUME NEW b \in 1..Len(st.table) PROVE CallOf(c, st.table[b].content) = b
    OBVIOUS
  <2>1. c[st.table[b].content].kind = "toolCall"
    BY DEF OpenAITables
  <2>2. c[st.table[b].content].id = <<"call", b>>
    BY DEF OpenAINames
  <2> QED BY <2>1, <2>2 DEF CallOf
<1>2. \A i \in 1..Len(c) : c[i].kind # "toolCall" => CallOf(c, i) = 0
  BY DEF CallOf
<1>3. ASSUME NEW i \in 1..Len(c), NEW j \in 1..Len(c), c[i].kind = c[j].kind,
             CallOf(c, i) = CallOf(c, j)
      PROVE  i = j
  <2>1. CASE c[i].kind = "toolCall"
    <3>1. /\ \E b \in 1..Len(st.table) : st.table[b].content = i
          /\ \E b \in 1..Len(st.table) : st.table[b].content = j
      BY <1>3, <2>1 DEF OpenAINames
    <3> HIDE DEF c
    <3> QED BY <1>1, <1>3, <3>1
  <2>2. CASE c[i].kind # "toolCall"
    BY <1>3, <2>2 DEF OpenAINames
  <2> QED BY <2>1, <2>2
<1> QED BY <1>1, <1>2, <1>3

\* Kinds and identities stay.
LEMMA OpenAINamesKept ==
  ASSUME NEW st, NEW t, NEW sv, NEW z, OpenAINames(st, sv), z.blocks = sv.blocks,
         Len(t.content) = Len(st.content), Len(t.table) = Len(st.table),
         \A j \in 1..Len(st.content) : /\ t.content[j].kind = st.content[j].kind
                                      /\ t.content[j].id = st.content[j].id,
         \A a \in 1..Len(st.table) : /\ t.table[a].id = st.table[a].id
                                    /\ t.table[a].index = st.table[a].index
                                    /\ t.table[a].content = st.table[a].content
                                    /\ st.table[a].content \in 1..Len(st.content)
  PROVE  OpenAINames(t, z)
<1>1. Len(t.table) = Len(z.blocks)
  BY DEF OpenAINames
<1>2. \A b \in 1..Len(t.table) :
        /\ t.table[b].id = <<"call", b>> /\ t.content[t.table[b].content].id = <<"call", b>>
        /\ t.table[b].index = IF z.blocks[b] THEN b - 1 ELSE NoIndex
  <2> SUFFICES ASSUME NEW b \in 1..Len(st.table)
               PROVE  /\ t.table[b].id = <<"call", b>>
                      /\ t.content[t.table[b].content].id = <<"call", b>>
                      /\ t.table[b].index = IF z.blocks[b] THEN b - 1 ELSE NoIndex
    OBVIOUS
  <2>1. /\ st.table[b].id = <<"call", b>> /\ st.content[st.table[b].content].id = <<"call", b>>
        /\ st.table[b].index = IF sv.blocks[b] THEN b - 1 ELSE NoIndex
    BY DEF OpenAINames
  <2>2. t.content[t.table[b].content].id = st.content[st.table[b].content].id
    OBVIOUS
  <2> QED BY <2>1, <2>2
<1>3. \A i \in 1..Len(t.content) : t.content[i].kind = "toolCall" =>
        \E b \in 1..Len(t.table) : t.table[b].content = i
  <2> SUFFICES ASSUME NEW i \in 1..Len(t.content), t.content[i].kind = "toolCall"
               PROVE  \E b \in 1..Len(t.table) : t.table[b].content = i
    OBVIOUS
  <2>1. PICK b \in 1..Len(st.table) : st.table[b].content = i
    BY DEF OpenAINames
  <2>2. b \in 1..Len(t.table) /\ t.table[b].content = i
    BY <2>1
  <2> QED BY <2>2
<1>4. \A i, j \in 1..Len(t.content) :
        t.content[i].kind = t.content[j].kind /\ t.content[i].kind # "toolCall" => i = j
  BY DEF OpenAINames
<1> QED BY <1>1, <1>2, <1>3, <1>4 DEF OpenAINames

\* Text or reasoning: the last block of the kind grows, or the first one is opened.
LEMMA OpenAITextReads ==
  ASSUME Ready, StreamAssumption, provider = "openai", NEW kind \in {"text", "thinking"},
         NEW frag \in Required, NEW ev
  PROVE  Reads(Frame(ev, Sent(kind, 0), server), OpenAIText(kind, frag, Folded(fold, <<>>)))
<1> DEFINE c == fold.content
           v == view.blocks
           I == {j \in 1..Len(c) : c[j].kind = kind}
           i == SelectLastInSeq(c, LAMBDA b : b.kind = kind)
           new == Len(c) + 1
           block == Text(kind, frag)
           F == OpenAIText(kind, frag, Folded(fold, <<>>))
<1>1. /\ OpenAITables(fold, server, {}) /\ c \in Seq(Blocks) /\ v \in Seq(ViewBlocks)
      /\ fold \in FoldStates /\ server \in Servers /\ fold.stop # "aborted"
      /\ Level(c, v, {}) /\ Len(c) \in Nat
      /\ \A j \in 1..Len(c) : ~ Closed(v, j)
  BY OpenAIReady
<1>2. PICK x \in Fragments : frag = <<x>>
  BY FragmentsSent DEF Ready
<1>3. frag \in Payloads /\ frag # <<>> /\ Len(frag) = 1
  BY <1>2, PayloadsJoin
<1>4. block \in Blocks /\ block.kind = kind /\ block.payload = frag
  BY <1>3 DEF Text, Block, Blocks, Kinds, Parses, Ids
<1>5. Sent(kind, 0) \in Seq(Sents)
  BY SentFragment DEF Kinds
<1>6. i = IF I # {} THEN Max(I) ELSE 0
  BY DEF SelectLastInSeq
<1>7. Folded(fold, <<>>) = [st |-> fold, events |-> <<>>, failed |-> FALSE]
  BY DEF Folded
<1>8. /\ log \in Seq(Sents) /\ Ledger(c, log) /\ OpenAINames(fold, server)
      /\ frag = <<Len(log) + 1>> /\ Len(log) + 1 \in Fragments
  BY NextFragment DEF Ready, Copied, Names
<1>9. /\ \A j \in 1..Len(c) : c[j].kind # "toolCall" => CallOf(c, j) = 0
      /\ \A j, k \in 1..Len(c) : c[j].kind = c[k].kind /\ CallOf(c, j) = CallOf(c, k) => j = k
  BY <1>1, <1>8, OpenAICallOf
<1>10. \A a \in 1..Len(fold.table) : fold.table[a].content \in 1..Len(c)
  BY <1>1, CallKnown
<1>11. kind # "toolCall"
  OBVIOUS
<1>12. CASE I # {}
  <2>1. i \in 1..Len(c) /\ i # 0 /\ c[i].kind = kind
    <3>1. i \in I
      <4>1. I \subseteq 1..Len(c)
        OBVIOUS
      <4> HIDE DEF I, i
      <4> QED BY <1>1, <1>6, <1>12, <4>1, MinMaxIn
    <3> HIDE DEF i
    <3> QED BY <1>1, <3>1
  <2> HIDE DEF i
  <2> DEFINE st == Grow(fold, i, frag)
             one == [c[i] EXCEPT !.payload = c[i].payload \o frag]
             d == [c EXCEPT ![i] = one]
             q == <<Grown(i, block, frag)>>
  <2>2. c[i] \in Blocks /\ c[i].payload \in Payloads
    <3>1. c[i] \in Blocks
      BY <1>1, <2>1
    <3> HIDE DEF c
    <3> QED BY <3>1 DEF Blocks
  <2>3. /\ one \in Blocks /\ one.kind = kind /\ one.payload = c[i].payload \o frag
        /\ one.id = c[i].id
    BY <1>3, <2>1, <2>2, PayloadsJoin DEF Blocks
  <2>4. /\ d \in Seq(Blocks) /\ Len(d) = Len(c) /\ d[i] = one
        /\ \A j \in 1..Len(c) : j # i => d[j] = c[j]
    <3> HIDE DEF one, c
    <3> QED BY <1>1, <2>1, <2>3, ExceptSeq
  <2>5. /\ st \in FoldStates /\ st.content = d /\ st.table = fold.table
        /\ st.stop = fold.stop /\ st.finished = fold.finished
    <3>1. st = [fold EXCEPT !.content = d]
      BY <1>1, <2>1 DEF Grow, FoldStates
    <3> HIDE DEF st, d
    <3> QED BY <1>1, <2>4, <3>1 DEF FoldStates
  <2>6. F = [st |-> st, events |-> q, failed |-> FALSE]
    <3>1. F = Then(Folded(fold, <<>>), st, q)
      BY <1>3, <1>7, <2>1 DEF OpenAIText, i
    <3>2. q \in Seq(Events)
      <4>1. Grown(i, block, frag) \in Events
        BY <1>1, <1>3, <1>4, <2>1 DEF Grown, Events
      <4> QED BY <4>1
    <3> HIDE DEF st, q, F
    <3> QED BY <3>1, <3>2, ThenFolded, Zenon
  <2> HIDE DEF st, one, d
  <2>7. Changed(c, st.content, i, frag)
    BY <1>1, <2>1, <2>3, <2>4, <2>5 DEF Changed
  <2>8. Grows(c, st.content, v, q, {}, {})
    BY <1>1, <1>2, <1>4, <2>1, <2>7 DEF Grows
  <2>9. q \in Seq(Events)
    <3>1. Grown(i, block, frag) \in Events
      BY <1>1, <1>3, <1>4, <2>1 DEF Grown, Events
    <3> QED BY <3>1
  <2>10. OpenAITables(st, server, {})
    <3>1. \A j \in 1..Len(c) : c[j].kind = "toolCall" => st.content[j] = c[j]
      BY <2>1, <2>4, <2>5
    <3>2. Len(c) <= Len(st.content) /\ Len(st.content) \in Nat
      BY <1>1, <2>4, <2>5
    <3> HIDE DEF c
    <3> QED BY <1>1, <2>5, <3>1, <3>2, OpenAITablesKept DEF c
  <2>11. \A j \in 1..Len(c) : /\ st.content[j].kind = c[j].kind /\ st.content[j].id = c[j].id
                              /\ CallOf(st.content, j) = CallOf(c, j)
    <3>1. \A j \in 1..Len(c) : st.content[j].kind = c[j].kind /\ st.content[j].id = c[j].id
      BY <2>1, <2>3, <2>4, <2>5
    <3>2. \A j \in 1..Len(c) : CallOf(st.content, j) = CallOf(c, j)
      <4> SUFFICES ASSUME NEW j \in 1..Len(c) PROVE CallOf(st.content, j) = CallOf(c, j)
        OBVIOUS
      <4> HIDE DEF c
      <4> QED BY <3>1 DEF CallOf
    <3> QED BY <3>1, <3>2
  <2>12. Copied(st, server, log \o Sent(kind, 0))
    <3>1. CallOf(c, i) = 0 /\ 0 \in Nat /\ Sent(kind, 0) = Sent(c[i].kind, CallOf(c, i))
      BY <1>9, <1>11, <2>1
    <3>2. \A j \in 1..Len(c) : i < j /\ c[j].kind = c[i].kind => CallOf(c, j) # CallOf(c, i)
      BY <1>9, <2>1
    <3>3. st.content \in Seq(Blocks)
      BY <2>4, <2>5
    <3>4. Ledger(st.content, log \o Sent(kind, 0))
      <4> HIDE DEF c
      <4> QED BY <1>1, <1>8, <2>1, <2>7, <2>11, <3>1, <3>2, <3>3, LedgerGrows
    <3>5. OpenAINames(st, server)
      <4>1. Len(st.content) = Len(fold.content)
        BY <2>4, <2>5
      <4> QED BY <1>8, <1>10, <2>5, <2>11, <4>1, OpenAINamesKept
    <3> QED BY <3>4, <3>5 DEF Copied, Names
  <2> HIDE DEF q, F
  <2> QED BY <1>1, <1>5, <2>5, <2>6, <2>8, <2>9, <2>10, <2>12, OpenAIMoves DEF F
<1>13. CASE I = {}
  <2>1. i = 0
    BY <1>6, <1>13
  <2> DEFINE st == AddBlock(fold, block)
             q == <<Opened(new, block), Grown(new, block, frag)>>
             d == Append(c, block)
  <2>2. /\ d \in Seq(Blocks) /\ Len(d) = Len(c) + 1
        /\ \A j \in 1..Len(c) : d[j] = c[j]
    <3> HIDE DEF block, c
    <3> QED BY <1>1, <1>4, AppendProperties
  <2>3. /\ st \in FoldStates /\ st.content = d /\ st.table = fold.table
        /\ st.stop = fold.stop /\ st.finished = fold.finished
    <3>1. st = [fold EXCEPT !.content = d]
      BY <1>1 DEF AddBlock, FoldStates
    <3> HIDE DEF st, d
    <3> QED BY <1>1, <2>2, <3>1 DEF FoldStates
  <2>4. F = [st |-> st, events |-> q, failed |-> FALSE]
    <3>1. F = Then(Folded(fold, <<>>), st, q)
      BY <1>3, <1>7, <2>1 DEF OpenAIText
    <3>2. q \in Seq(Events)
      <4>1. Opened(new, block) \in Events
        <5>1. [block EXCEPT !.payload = <<>>] \in Blocks
          BY <1>4, PayloadsJoin, BlockUpdates
        <5> HIDE DEF block
        <5> QED BY <1>1, <5>1, PayloadsJoin DEF Opened, Events
      <4>2. Grown(new, block, frag) \in Events
        BY <1>1, <1>3, <1>4 DEF Grown, Events
      <4> QED BY <4>1, <4>2
    <3> HIDE DEF st, q, F
    <3> QED BY <3>1, <3>2, ThenFolded, Zenon
  <2> HIDE DEF st, d, block
  <2>5. Opens(c, st.content, v, q, {}, {})
    BY <1>3, <1>4, <2>3 DEF Opens, d
  <2>6. q \in Seq(Events)
    <3>1. Opened(new, block) \in Events
      <4>1. [block EXCEPT !.payload = <<>>] \in Blocks
        BY <1>4, PayloadsJoin, BlockUpdates
      <4> QED BY <1>1, <4>1, PayloadsJoin DEF Opened, Events
    <3>2. Grown(new, block, frag) \in Events
      BY <1>1, <1>3, <1>4 DEF Grown, Events
    <3> QED BY <3>1, <3>2
  <2>7. OpenAITables(st, server, {})
    <3>1. \A j \in 1..Len(c) : c[j].kind = "toolCall" => st.content[j] = c[j]
      BY <2>2, <2>3
    <3>2. Len(c) <= Len(st.content) /\ Len(st.content) \in Nat
      BY <1>1, <2>2, <2>3
    <3> HIDE DEF c
    <3> QED BY <1>1, <2>3, <3>1, <3>2, OpenAITablesKept DEF c
  <2>8. Copied(st, server, log \o Sent(kind, 0))
    <3>1. CallOf(d, Len(c) + 1) = 0 /\ d[Len(c) + 1] = block
      <4>1. d[Len(c) + 1] = block
        <5> HIDE DEF c
        <5> QED BY <1>1, <1>4, AppendProperties DEF d
      <4> QED BY <1>4, <1>11, <4>1 DEF CallOf
    <3>2. Ledger(d, log \o Sent(kind, 0))
      <4>1. /\ block.payload = <<Len(log) + 1>> /\ Sent(kind, 0) = Sent(block.kind, 0)
            /\ d = Append(c, block) /\ 0 \in Nat
        BY <1>4, <1>8 DEF d
      <4> HIDE DEF c, d
      <4> QED BY <1>1, <1>4, <1>8, <2>2, <3>1, <4>1, LedgerAdds
    <3>3. OpenAINames(st, server)
      <4>1. \A j \in 1..Len(d) : j = Len(c) + 1 \/ j \in 1..Len(c)
        BY <1>1, <2>2
      <4>2. \A j \in 1..Len(c) : d[j] = c[j] /\ c[j].kind # kind
        BY <1>13, <2>2
      <4>3. \A a \in 1..Len(fold.table) : d[fold.table[a].content] = c[fold.table[a].content]
        BY <1>10, <4>2
      <4>4. \A j \in 1..Len(d) : d[j].kind = "toolCall" =>
              \E b \in 1..Len(fold.table) : fold.table[b].content = j
        BY <1>4, <1>8, <1>11, <3>1, <4>1, <4>2 DEF OpenAINames
      <4>5. \A j, k \in 1..Len(d) : d[j].kind = d[k].kind /\ d[j].kind # "toolCall" => j = k
        <5> SUFFICES ASSUME NEW j \in 1..Len(d), NEW k \in 1..Len(d), d[j].kind = d[k].kind,
                            d[j].kind # "toolCall"
                     PROVE  j = k
          OBVIOUS
        <5>1. CASE j \in 1..Len(c) /\ k \in 1..Len(c)
          BY <1>8, <4>2, <5>1 DEF OpenAINames
        <5> QED BY <1>4, <3>1, <4>1, <4>2, <5>1
      <4>6. \A b \in 1..Len(fold.table) :
              /\ fold.table[b].id = <<"call", b>> /\ d[fold.table[b].content].id = <<"call", b>>
              /\ fold.table[b].index = IF server.blocks[b] THEN b - 1 ELSE NoIndex
        BY <1>8, <4>3 DEF OpenAINames
      <4>7. Len(fold.table) = Len(server.blocks)
        BY <1>8 DEF OpenAINames
      <4> HIDE DEF d
      <4> QED BY <2>3, <4>4, <4>5, <4>6, <4>7 DEF OpenAINames
    <3> QED BY <2>3, <3>2, <3>3 DEF Copied, Names
  <2> HIDE DEF q, F
  <2> QED BY <1>1, <1>5, <2>3, <2>4, <2>5, <2>6, <2>7, <2>8, OpenAIMoves DEF F
<1> QED BY <1>12, <1>13
\* The block and the entry of a call change together.
CallMoves(st, t, b, i) ==
  /\ Len(t.content) = Len(st.content) /\ t.content[i].kind = "toolCall"
  /\ \A j \in 1..Len(st.content) : j # i => t.content[j] = st.content[j]
  /\ t.table \in Seq(StreamedCalls) /\ Len(t.table) = Len(st.table)
  /\ t.table[b].content = i /\ t.table[b].partial = t.content[i].payload
  /\ \A a \in 1..Len(st.table) : a # b => t.table[a] = st.table[a]
  /\ t.finished = st.finished

LEMMA CallChanges ==
  ASSUME NEW st \in FoldStates, NEW sv, OpenAITables(st, sv, {}), NEW b \in 1..Len(st.table),
         NEW t, NEW i, i = st.table[b].content, CallMoves(st, t, b, i)
  PROVE  OpenAITables(t, sv, {})
<1> DEFINE c == st.content
           d == t.content
           r == t.table
           m == Len(st.table)
<1>0. /\ Len(d) = Len(c) /\ d[i].kind = "toolCall"
      /\ \A j \in 1..Len(c) : j # i => d[j] = c[j]
      /\ r \in Seq(StreamedCalls) /\ Len(r) = m
      /\ r[b].content = i /\ r[b].partial = d[i].payload
      /\ \A a \in 1..m : a # b => r[a] = st.table[a]
      /\ t.finished = st.finished
  BY DEF CallMoves
<1>1. ASSUME NEW a \in 1..m
      PROVE  /\ st.table[a].content \in 1..Len(c) /\ c[st.table[a].content].kind = "toolCall"
             /\ st.table[a].partial = c[st.table[a].content].payload
             /\ a # b => st.table[a].content # i
  <2>1. a # b => st.table[a].content # i
    BY DEF OpenAITables
  <2> QED BY <2>1, CallKnown
<1>2. Len(c) \in Nat /\ i \in 1..Len(c) /\ b \in 1..m
  <2>1. st.content \in Seq(Blocks) /\ st.table[b].content \in 1..Len(st.content)
    BY CallKnown
  <2> QED BY <2>1
<1>3. ASSUME NEW a \in 1..Len(r)
      PROVE  /\ r[a].content <= Len(d) /\ d[r[a].content].kind = "toolCall"
             /\ r[a].partial = d[r[a].content].payload
             /\ r[a].content = st.table[a].content
  <2>1. CASE a = b
    BY <1>0, <1>2, <2>1
  <2>2. CASE a # b
    <3>1. a \in 1..m /\ r[a] = st.table[a]
      BY <1>0, <2>2
    <3>2. /\ st.table[a].content \in 1..Len(c) /\ st.table[a].content # i
          /\ c[st.table[a].content].kind = "toolCall"
          /\ st.table[a].partial = c[st.table[a].content].payload
      BY <1>1, <2>2, <3>1
    <3>3. d[st.table[a].content] = c[st.table[a].content]
      BY <1>0, <3>2
    <3>4. st.table[a].content <= Len(d)
      BY <1>0, <1>2, <3>2
    <3> QED BY <3>1, <3>2, <3>3, <3>4
  <2> QED BY <2>1, <2>2
<1>4. \A a1, a2 \in 1..Len(r) : r[a1].content = r[a2].content => a1 = a2
  <2>1. \A a1, a2 \in 1..m : st.table[a1].content = st.table[a2].content => a1 = a2
    BY DEF OpenAITables
  <2>2. Len(r) = m
    BY <1>0
  <2> HIDE DEF r, m
  <2> QED BY <1>3, <2>1, <2>2
<1>5. sv.blocks \in Seq(BOOLEAN) /\ (t.finished => sv.stage = "end")
  BY <1>0 DEF OpenAITables
<1> QED BY <1>0, <1>3, <1>4, <1>5 DEF OpenAITables

\* The arguments of a call grow.
ArguedWell(st, sv, t, i, frag, x) ==
  /\ t \in FoldStates /\ Changed(st.content, t.content, i, frag)
  /\ OpenAITables(t, sv, {}) /\ t.stop = st.stop /\ t.content[i].payload = x
  /\ t.content[i].id = st.content[i].id /\ Len(t.table) = Len(st.table)
  /\ \A a \in 1..Len(st.table) : /\ t.table[a].id = st.table[a].id
                               /\ t.table[a].index = st.table[a].index
                               /\ t.table[a].content = st.table[a].content

LEMMA CallArgued ==
  ASSUME NEW st \in FoldStates, NEW sv, OpenAITables(st, sv, {}), NEW b \in 1..Len(st.table),
         NEW frag \in Payloads
  PROVE  ArguedWell(st, sv, Argued(st, b, st.table[b].content, st.table[b].partial \o frag),
                    st.table[b].content, frag, st.table[b].partial \o frag)
<1> DEFINE c == st.content
           s == st.table
           i == s[b].content
           x == s[b].partial \o frag
           t == Argued(st, b, i, x)
           one == [c[i] EXCEPT !.payload = x, !.parse = "streaming"]
           entry == [s[b] EXCEPT !.partial = x]
           d == [c EXCEPT ![i] = one]
           r == [s EXCEPT ![b] = entry]
<1>1. /\ s \in Seq(StreamedCalls) /\ c \in Seq(Blocks) /\ b \in 1..Len(s)
      /\ s[b] \in StreamedCalls /\ i \in 1..Len(c)
      /\ c[i] \in Blocks /\ c[i].kind = "toolCall" /\ s[b].content = i
      /\ s[b].partial = c[i].payload /\ s[b].partial \in Payloads
  BY CallKnown
<1>2. x \in Payloads /\ x = c[i].payload \o frag
  <2>1. s[b].partial \o frag \in Payloads
    BY <1>1, PayloadsJoin
  <2> QED BY <1>1, <2>1
<1>3. one \in Blocks /\ one.kind = "toolCall" /\ one.payload = x /\ one.id = c[i].id
  BY <1>1, <1>2 DEF Blocks, Parses
<1>4. /\ entry \in StreamedCalls /\ entry.content = i /\ entry.partial = x
      /\ entry.id = s[b].id /\ entry.index = s[b].index
  BY <1>1, <1>2 DEF StreamedCalls
<1>5. t = [st EXCEPT !.content = d, !.table = r]
  BY <1>1 DEF Argued, FoldStates
<1> HIDE DEF one, entry, c, s, t, i, x
<1>6. /\ d \in Seq(Blocks) /\ Len(d) = Len(c) /\ d[i] = one
      /\ \A j \in 1..Len(c) : j # i => d[j] = c[j]
  BY <1>1, <1>3, ExceptSeq
<1>7. /\ r \in Seq(StreamedCalls) /\ Len(r) = Len(s) /\ r[b] = entry
      /\ \A a \in 1..Len(s) : a # b => r[a] = s[a]
  BY <1>1, <1>4, ExceptSeq
<1> HIDE DEF d, r
<1>8. /\ t \in FoldStates /\ t.content = d /\ t.table = r /\ t.stop = st.stop
      /\ t.finished = st.finished
  BY <1>5, <1>6, <1>7 DEF FoldStates
<1>9. OpenAITables(t, sv, {})
  <2>1. /\ Len(t.content) = Len(st.content) /\ t.content[i].kind = "toolCall"
        /\ \A j \in 1..Len(st.content) : j # i => t.content[j] = st.content[j]
    BY <1>3, <1>6, <1>8 DEF c
  <2>2. /\ t.table \in Seq(StreamedCalls) /\ Len(t.table) = Len(st.table)
        /\ t.table[b].content = i /\ t.table[b].partial = t.content[i].payload
        /\ \A a \in 1..Len(st.table) : a # b => t.table[a] = st.table[a]
    BY <1>3, <1>4, <1>6, <1>7, <1>8 DEF s
  <2>3. CallMoves(st, t, b, i)
    BY <1>8, <2>1, <2>2 DEF CallMoves
  <2>4. i = st.table[b].content
    BY DEF i, s
  <2> QED BY <2>3, <2>4, CallChanges
<1>10. Changed(c, t.content, i, frag)
  BY <1>1, <1>2, <1>3, <1>6, <1>8 DEF Changed
<1>11. \A a \in 1..Len(s) : /\ r[a].id = s[a].id /\ r[a].index = s[a].index
                           /\ r[a].content = s[a].content
  BY <1>1, <1>4, <1>7
<1>12. ArguedWell(st, sv, t, i, frag, x)
  BY <1>3, <1>6, <1>7, <1>8, <1>9, <1>10, <1>11 DEF c, s, ArguedWell
<1> QED BY <1>12 DEF t, i, x, s

\* A call is announced.
LEMMA CallAnnounced ==
  ASSUME NEW st \in FoldStates, NEW sv, OpenAITables(st, sv, {}),
         NEW tc, tc.index \in Int, tc.id \in Ids, NEW t, t = Announced(st, tc)
  PROVE  LET k == Len(st.content) + 1  b == Len(st.table) + 1 IN
         /\ t \in FoldStates /\ t.content = Append(st.content, NewCall(tc))
         /\ t.content \in Seq(Blocks) /\ Len(t.content) = k /\ t.content[k] = NewCall(tc)
         /\ \A j \in 1..Len(st.content) : t.content[j] = st.content[j]
         /\ OpenAITables(t, sv, {}) /\ t.stop = st.stop
         /\ Len(t.table) = b /\ b \in 1..Len(t.table) /\ t.table[b].content = k
         /\ t.table[b].partial = <<>> /\ t.table[b].id = tc.id /\ t.table[b].index = tc.index
         /\ \A a \in 1..Len(st.table) : t.table[a] = st.table[a]
         /\ NewCall(tc) \in Blocks /\ NewCall(tc).kind = "toolCall"
         /\ NewCall(tc).payload = <<>> /\ NewCall(tc).id = tc.id
<1> DEFINE k == Len(st.content) + 1
           b == Len(st.table) + 1
           call == NewCall(tc)
           entry == [index |-> tc.index, id |-> tc.id, content |-> k, partial |-> <<>>]
           d == Append(st.content, call)
           r == Append(st.table, entry)
<1>1. /\ st.content \in Seq(Blocks) /\ st.table \in Seq(StreamedCalls)
      /\ Len(st.content) \in Nat /\ Len(st.table) \in Nat
  <2>1. st.content \in Seq(Blocks)
    BY DEF FoldStates
  <2>2. st.table \in Seq(StreamedCalls)
    BY DEF OpenAITables
  <2> QED BY <2>1, <2>2
<1>2. call \in Blocks /\ call.kind = "toolCall" /\ call.payload = <<>> /\ call.id = tc.id
  BY PayloadsJoin DEF NewCall, Block, Blocks, Kinds, Parses
<1>3. /\ entry \in StreamedCalls /\ entry.content = k /\ entry.partial = <<>>
      /\ entry.id = tc.id /\ entry.index = tc.index
  BY <1>1, PayloadsJoin DEF StreamedCalls
<1>4. t = [st EXCEPT !.content = d, !.table = r]
  BY DEF Announced, AddBlock, FoldStates
<1>5. /\ d \in Seq(Blocks) /\ Len(d) = k /\ d[k] = call
      /\ \A j \in 1..Len(st.content) : d[j] = st.content[j]
  <2> HIDE DEF call
  <2> QED BY <1>1, <1>2, AppendProperties
<1>6. /\ r \in Seq(StreamedCalls) /\ Len(r) = b /\ r[b] = entry
      /\ \A a \in 1..Len(st.table) : r[a] = st.table[a]
  <2> HIDE DEF entry
  <2> QED BY <1>1, <1>3, AppendProperties
<1>7. /\ t \in FoldStates /\ t.content = d /\ t.table = r /\ t.stop = st.stop
      /\ t.finished = st.finished
  <2> HIDE DEF d, r
  <2> QED BY <1>4, <1>5, <1>6 DEF FoldStates
<1> HIDE DEF entry, d, r, call
<1>8. OpenAITables(t, sv, {})
  <2>1. ASSUME NEW a \in 1..Len(st.table)
        PROVE  /\ r[a].content \in 1..Len(st.content) /\ d[r[a].content].kind = "toolCall"
               /\ r[a].partial = d[r[a].content].payload
    <3>1. /\ st.table[a].content \in 1..Len(st.content)
          /\ st.content[st.table[a].content].kind = "toolCall"
          /\ st.table[a].partial = st.content[st.table[a].content].payload
      BY CallKnown
    <3> QED BY <1>5, <1>6, <3>1
  <2>2. r[b].content = k /\ d[k].kind = "toolCall" /\ r[b].partial = d[k].payload
    BY <1>2, <1>3, <1>5, <1>6
  <2>3. \A a \in 1..Len(r) : a = b \/ a \in 1..Len(st.table)
    BY <1>1, <1>6
  <2>4. \A a \in 1..Len(r) : /\ r[a].content <= Len(d) /\ d[r[a].content].kind = "toolCall"
                             /\ r[a].partial = d[r[a].content].payload
    BY <1>1, <1>5, <2>1, <2>2, <2>3
  <2>5. ASSUME NEW a1 \in 1..Len(r), NEW a2 \in 1..Len(r), r[a1].content = r[a2].content
        PROVE  a1 = a2
    <3>1. CASE a1 = b \/ a2 = b
      BY <1>1, <2>1, <2>2, <2>3, <2>5, <3>1
    <3>2. CASE a1 # b /\ a2 # b
      <4>1. a1 \in 1..Len(st.table) /\ a2 \in 1..Len(st.table)
        BY <2>3, <3>2
      <4>2. st.table[a1].content = st.table[a2].content
        BY <1>6, <2>5, <4>1
      <4> QED BY <4>1, <4>2 DEF OpenAITables
    <3> QED BY <3>1, <3>2
  <2>6. sv.blocks \in Seq(BOOLEAN) /\ (st.finished => sv.stage = "end")
    BY DEF OpenAITables
  <2> QED BY <1>6, <1>7, <2>4, <2>5, <2>6 DEF OpenAITables
<1>9. /\ b \in 1..Len(t.table) /\ t.table[b].content = k /\ t.table[b].partial = <<>>
      /\ t.table[b].id = tc.id /\ t.table[b].index = tc.index
  BY <1>1, <1>3, <1>6, <1>7
<1> QED BY <1>2, <1>5, <1>6, <1>7, <1>8, <1>9 DEF call, d

\* A known call is found by its index, else by its id; a new one is not found.
LEMMA FindCallNames ==
  ASSUME Ready, provider = "openai", NEW frag
  PROVE  /\ Len(fold.table) = Len(server.blocks)
         /\ \A b \in 1..Len(server.blocks) :
              FindCall(fold, IF server.blocks[b] THEN [index |-> b - 1, id |-> NoId, frag |-> frag]
                             ELSE [index |-> NoIndex, id |-> <<"call", b>>, frag |-> frag]) = b
         /\ \A i \in {Len(server.blocks), NoIndex} :
              FindCall(fold, [index |-> i, id |-> NewId, frag |-> frag]) = 0
<1> DEFINE n == Len(fold.table)
           A(tc) == {j \in 1..n : tc.index # NoIndex /\ fold.table[j].index = tc.index}
           B(tc) == {j \in 1..n : tc.id # NoId /\ fold.table[j].id = tc.id}
<1>1. /\ n = Len(server.blocks) /\ n \in Nat
      /\ \A j \in 1..n : /\ fold.table[j].id = <<"call", j>>
                        /\ fold.table[j].index = IF server.blocks[j] THEN j - 1 ELSE NoIndex
  <2>1. OpenAINames(fold, server) /\ n \in Nat
    BY OpenAIReady DEF Ready, Copied, Names
  <2> QED BY <2>1 DEF OpenAINames
<1>2. \A tc : FindCall(fold, tc) = IF (IF A(tc) # {} THEN Min(A(tc)) ELSE 0) # 0
                                 THEN IF A(tc) # {} THEN Min(A(tc)) ELSE 0
                                 ELSE IF B(tc) # {} THEN Min(B(tc)) ELSE 0
  BY DEF FindCall, SelectInSeq
<1>3. \A b \in Nat : Min({b}) = b
  BY DEF Min
<1>4. ASSUME NEW b \in 1..n, server.blocks[b]
      PROVE  FindCall(fold, [index |-> b - 1, id |-> NoId, frag |-> frag]) = b
  <2> DEFINE tc == [index |-> b - 1, id |-> NoId, frag |-> frag]
  <2>1. A(tc) = {b}
    BY <1>1, <1>4 DEF NoIndex
  <2>2. Min(A(tc)) = b /\ b # 0
    BY <1>1, <1>3, <2>1
  <2> HIDE DEF A, B, tc
  <2> QED BY <1>2, <2>1, <2>2 DEF tc
<1>5. ASSUME NEW b \in 1..n
      PROVE  FindCall(fold, [index |-> NoIndex, id |-> <<"call", b>>, frag |-> frag]) = b
  <2> DEFINE tc == [index |-> NoIndex, id |-> <<"call", b>>, frag |-> frag]
  <2>1. A(tc) = {} /\ B(tc) = {b}
    <3>1. \A j \in 1..n : <<"call", j>> = <<"call", b>> => j = b
      OBVIOUS
    <3>2. <<"call", b>> # NoId
      BY DEF NoId
    <3> QED BY <1>1, <3>1, <3>2
  <2>2. Min(B(tc)) = b /\ b # 0
    BY <1>1, <1>3, <2>1
  <2> HIDE DEF A, B, tc
  <2> QED BY <1>2, <2>1, <2>2 DEF tc
<1>6. ASSUME NEW i \in {n, NoIndex}
      PROVE  FindCall(fold, [index |-> i, id |-> NewId, frag |-> frag]) = 0
  <2> DEFINE tc == [index |-> i, id |-> NewId, frag |-> frag]
  <2>1. A(tc) = {}
    BY <1>1 DEF NoIndex
  <2>2. B(tc) = {}
    <3>1. \A j \in 1..n : <<"call", j>> # NewId
      BY <1>1 DEF NewId
    <3> QED BY <1>1, <3>1
  <2> HIDE DEF A, B, tc
  <2> QED BY <1>2, <2>1, <2>2 DEF tc
<1> HIDE DEF n, A, B
<1>7. \A b \in 1..n : FindCall(fold, IF server.blocks[b] THEN [index |-> b - 1, id |-> NoId, frag |-> frag]
                                   ELSE [index |-> NoIndex, id |-> <<"call", b>>, frag |-> frag]) = b
  BY <1>4, <1>5
<1> QED BY <1>1, <1>6, <1>7 DEF n

\* What an OpenAI tool call delta makes of the fold: a known call.
LEMMA KnownCall ==
  ASSUME Ready, StreamAssumption, provider = "openai", NEW b \in 1..Len(fold.table),
         NEW tc, tc.id \in Ids, tc.index \in Int, tc.frag \in Required, FindCall(fold, tc) = b,
         NEW ev
  PROVE  Reads(Frame(ev, Sent("toolCall", b), server), OpenAICall(tc, Folded(fold, <<>>)))
<1> DEFINE c == fold.content
           v == view.blocks
           F == Folded(fold, <<>>)
           i == fold.table[b].content
           x == fold.table[b].partial \o tc.frag
           t == Argued(fold, b, i, x)
           g == Grown(i, NewCall(tc), tc.frag)
           sent == Sent("toolCall", b)
<1>1. /\ c \in Seq(Blocks) /\ v \in Seq(ViewBlocks) /\ fold \in FoldStates
      /\ server \in Servers /\ OpenAITables(fold, server, {}) /\ OpenAINames(fold, server)
      /\ fold.stop # "aborted" /\ fold.table \in Seq(StreamedCalls)
      /\ Len(fold.table) \in Nat /\ log \in Seq(Sents) /\ Ledger(c, log)
      /\ \A j \in 1..Len(c) : ~ Closed(v, j)
  BY OpenAIReady DEF Ready, Copied, Names
<1>2. /\ i \in 1..Len(c) /\ c[i] \in Blocks /\ c[i].kind = "toolCall"
      /\ \A a \in 1..Len(fold.table) : fold.table[a].content \in 1..Len(c)
  BY <1>1, CallKnown
\* Its block has had its id from the start.
<1>3. c[i].id = <<"call", b>> /\ c[i].id # NoId
  <2>1. c[i].id = <<"call", b>>
    BY <1>1 DEF OpenAINames
  <2> HIDE DEF c, i
  <2> QED BY <2>1 DEF NoId
<1>4. /\ tc.frag \in Payloads /\ Len(tc.frag) = 1
      /\ tc.frag = <<Len(log) + 1>> /\ Len(log) + 1 \in Fragments
  BY FragmentsSent, NextFragment DEF Ready
<1>5. OpenAICall(tc, F) = Then(F, t, <<>> \o <<g>>)
  <2>1. F.st = fold /\ tc.frag # <<>> /\ b # 0
    BY <1>4 DEF Folded
  <2> QED BY <1>3, <2>1 DEF OpenAICall
<1>6. ArguedWell(fold, server, t, i, tc.frag, x)
  <2> HIDE DEF t, i, x
  <2> QED BY <1>1, <1>4, CallArgued DEF t, i, x
<1> HIDE DEF t, x
<1>7. /\ t \in FoldStates /\ Changed(c, t.content, i, tc.frag)
      /\ OpenAITables(t, server, {}) /\ t.stop = fold.stop /\ t.content \in Seq(Blocks)
      /\ t.content[i].id = c[i].id /\ Len(t.table) = Len(fold.table)
      /\ \A a \in 1..Len(fold.table) : /\ t.table[a].id = fold.table[a].id
                                      /\ t.table[a].index = fold.table[a].index
                                      /\ t.table[a].content = fold.table[a].content
  BY <1>6 DEF ArguedWell, FoldStates
<1>8. NewCall(tc) \in Blocks
  BY <1>1, CallAnnounced
<1>9. PICK y \in Fragments : tc.frag = <<y>>
  BY <1>4
<1>10. Grows(c, t.content, v, <<g>>, {}, {})
  BY <1>1, <1>2, <1>7, <1>8, <1>9 DEF Grows
<1>11. g \in Events /\ <<g>> \in Seq(Events) /\ <<>> \o <<g>> = <<g>>
  <2>1. i \in Nat \ {0}
    BY <1>1, <1>2
  <2> HIDE DEF i
  <2>2. g \in Events
    BY <1>4, <1>8, <2>1 DEF Grown, Events
  <2> HIDE DEF g
  <2> QED BY <2>2
<1> HIDE DEF g
<1>12. OpenAICall(tc, F) = [st |-> t, events |-> <<g>>, failed |-> FALSE]
  BY <1>5, <1>11, ThenFolded
<1>13. Copied(t, server, log \o sent)
  <2>1. \A j \in 1..Len(c) : t.content[j].kind = c[j].kind /\ t.content[j].id = c[j].id
    BY <1>7 DEF Changed
  <2>2. \A j \in 1..Len(c) : CallOf(t.content, j) = CallOf(c, j)
    <3> SUFFICES ASSUME NEW j \in 1..Len(c) PROVE CallOf(t.content, j) = CallOf(c, j)
      OBVIOUS
    <3> HIDE DEF c
    <3> QED BY <2>1 DEF CallOf
  <2>3. /\ CallOf(c, i) = b /\ b \in Nat /\ sent = Sent(c[i].kind, CallOf(c, i))
        /\ \A j \in 1..Len(c) : i < j /\ c[j].kind = c[i].kind => CallOf(c, j) # CallOf(c, i)
    <3>1. /\ CallOf(c, i) = b
          /\ \A j \in 1..Len(c) : c[i].kind = c[j].kind /\ CallOf(c, i) = CallOf(c, j) => i = j
      <4> HIDE DEF i
      <4> QED BY <1>1, <1>2, OpenAICallOf DEF i
    <3> HIDE DEF c, i
    <3> QED BY <1>1, <1>2, <3>1
  <2>4. Ledger(t.content, log \o sent)
    <3> HIDE DEF c, i
    <3> QED BY <1>1, <1>2, <1>4, <1>7, <2>2, <2>3, LedgerGrows
  <2>5. OpenAINames(t, server)
    <3>1. /\ Len(t.content) = Len(fold.content) /\ Len(t.table) = Len(fold.table)
          /\ \A j \in 1..Len(fold.content) : /\ t.content[j].kind = fold.content[j].kind
                                           /\ t.content[j].id = fold.content[j].id
      BY <1>7, <2>1 DEF Changed
    <3>2. \A a \in 1..Len(fold.table) : /\ t.table[a].id = fold.table[a].id
                                      /\ t.table[a].index = fold.table[a].index
                                      /\ t.table[a].content = fold.table[a].content
                                      /\ fold.table[a].content \in 1..Len(fold.content)
      BY <1>2, <1>7
    <3> HIDE DEF c, i
    <3> QED BY <1>1, <3>1, <3>2, OpenAINamesKept
  <2> QED BY <2>4, <2>5 DEF Copied, Names
<1>14. sent \in Seq(Sents)
  BY SentFragment DEF Kinds
<1> HIDE DEF F, sent
<1>15. Reads(Frame(ev, sent, server), [st |-> t, events |-> <<g>>, failed |-> FALSE])
  BY <1>1, <1>7, <1>10, <1>11, <1>13, <1>14, OpenAIMoves
<1> QED BY <1>12, <1>15 DEF F, sent

\* A call is added.
LEMMA OpenAINamesAdded ==
  ASSUME NEW st \in FoldStates, NEW t, NEW sv, NEW z, NEW indexed,
         OpenAITables(st, sv, {}), OpenAINames(st, sv),
         z.blocks = Append(sv.blocks, indexed), indexed \in BOOLEAN,
         Len(t.content) = Len(st.content) + 1, Len(t.table) = Len(st.table) + 1,
         t.content[Len(st.content) + 1].kind = "toolCall",
         t.content[Len(st.content) + 1].id = <<"call", Len(st.table) + 1>>,
         \A j \in 1..Len(st.content) : t.content[j] = st.content[j],
         t.table[Len(st.table) + 1].id = <<"call", Len(st.table) + 1>>,
         t.table[Len(st.table) + 1].index = IF indexed THEN Len(st.table) ELSE NoIndex,
         t.table[Len(st.table) + 1].content = Len(st.content) + 1,
         \A a \in 1..Len(st.table) : /\ t.table[a].id = st.table[a].id
                                    /\ t.table[a].index = st.table[a].index
                                    /\ t.table[a].content = st.table[a].content
  PROVE  OpenAINames(t, z)
<1> DEFINE k == Len(st.content) + 1
           n == Len(st.table) + 1
<1>1. /\ Len(st.content) \in Nat /\ Len(st.table) \in Nat /\ sv.blocks \in Seq(BOOLEAN)
      /\ Len(st.table) = Len(sv.blocks)
      /\ \A a \in 1..Len(st.table) : st.table[a].content \in 1..Len(st.content)
  <2>1. Len(st.content) \in Nat /\ Len(st.table) \in Nat /\ sv.blocks \in Seq(BOOLEAN)
    BY DEF OpenAITables, FoldStates
  <2>2. \A a \in 1..Len(st.table) : st.table[a].content \in 1..Len(st.content)
    BY CallKnown
  <2> QED BY <2>1, <2>2 DEF OpenAINames
<1>2. /\ Len(z.blocks) = n /\ z.blocks[n] = indexed
      /\ \A a \in 1..Len(st.table) : z.blocks[a] = sv.blocks[a]
  BY <1>1, AppendProperties
<1>3. /\ \A j \in 1..Len(t.content) : j = k \/ j \in 1..Len(st.content)
      /\ \A a \in 1..Len(t.table) : a = n \/ a \in 1..Len(st.table)
      /\ n \in 1..Len(t.table) /\ n - 1 = Len(st.table)
  BY <1>1
<1>4. ASSUME NEW b \in 1..Len(t.table)
      PROVE  /\ t.table[b].id = <<"call", b>> /\ t.content[t.table[b].content].id = <<"call", b>>
             /\ t.table[b].index = IF z.blocks[b] THEN b - 1 ELSE NoIndex
  <2>1. CASE b = n
    BY <1>2, <1>3, <2>1
  <2>2. CASE b # n
    <3>1. b \in 1..Len(st.table)
      BY <1>3, <2>2
    <3>2. /\ st.table[b].id = <<"call", b>>
          /\ st.content[st.table[b].content].id = <<"call", b>>
          /\ st.table[b].index = IF sv.blocks[b] THEN b - 1 ELSE NoIndex
      BY <3>1 DEF OpenAINames
    <3>3. t.content[t.table[b].content] = st.content[st.table[b].content]
      BY <1>1, <3>1
    <3> QED BY <1>2, <3>1, <3>2, <3>3
  <2> QED BY <2>1, <2>2
<1>5. ASSUME NEW i \in 1..Len(t.content), t.content[i].kind = "toolCall"
      PROVE  \E b \in 1..Len(t.table) : t.table[b].content = i
  <2>1. CASE i = k
    BY <1>3, <2>1
  <2>2. CASE i # k
    <3>1. i \in 1..Len(st.content) /\ st.content[i].kind = "toolCall"
      BY <1>3, <1>5, <2>2
    <3>2. PICK b \in 1..Len(st.table) : st.table[b].content = i
      BY <3>1 DEF OpenAINames
    <3>3. b \in 1..Len(t.table) /\ t.table[b].content = i
      BY <1>1, <3>2
    <3> QED BY <3>3
  <2> QED BY <2>1, <2>2
<1>6. ASSUME NEW i \in 1..Len(t.content), NEW j \in 1..Len(t.content),
             t.content[i].kind = t.content[j].kind, t.content[i].kind # "toolCall"
      PROVE  i = j
  <2>1. i \in 1..Len(st.content) /\ j \in 1..Len(st.content)
    BY <1>3, <1>6
  <2>2. st.content[i].kind = st.content[j].kind /\ st.content[i].kind # "toolCall"
    BY <1>6, <2>1
  <2> QED BY <2>1, <2>2 DEF OpenAINames
<1> QED BY <1>2, <1>4, <1>5, <1>6 DEF OpenAINames

\* A call seen for the first time.
LEMMA FirstSeenCall ==
  ASSUME Ready, StreamAssumption, provider = "openai", NEW indexed \in BOOLEAN, NEW tc,
         tc.id = NewId, tc.index = IF indexed THEN Len(server.blocks) ELSE NoIndex,
         tc.frag = <<>> \/ tc.frag \in Required, FindCall(fold, tc) = 0,
         NEW sv \in Servers, OpenAITables(fold, sv, {}),
         sv.blocks = Append(server.blocks, indexed), NEW sent \in Seq(Sents), NEW ev,
         sent = IF tc.frag = <<>> THEN <<>> ELSE Sent("toolCall", Len(server.blocks) + 1)
  PROVE  Reads(Frame(ev, sent, sv), OpenAICall(tc, Folded(fold, <<>>)))
<1> DEFINE c == fold.content
           v == view.blocks
           F == Folded(fold, <<>>)
           st1 == Announced(fold, tc)
           k == Len(c) + 1
           n == Len(fold.table) + 1
           b == Len(st1.table)
           call == NewCall(tc)
           x == st1.table[b].partial \o tc.frag
           t == Argued(st1, b, k, x)
           o == Opened(k, call)
           g == Grown(k, call, tc.frag)
<1>1. /\ c \in Seq(Blocks) /\ v \in Seq(ViewBlocks) /\ fold \in FoldStates
      /\ fold.stop # "aborted" /\ Len(c) \in Nat /\ log \in Seq(Sents)
      /\ OpenAITables(fold, server, {}) /\ OpenAINames(fold, server) /\ Ledger(c, log)
      /\ Len(fold.table) = Len(server.blocks) /\ Len(fold.table) \in Nat
      /\ tc.id \in Ids /\ tc.index \in Int /\ tc.id = <<"call", n>>
  <2>1. /\ OpenAINames(fold, server) /\ Ledger(c, log) /\ log \in Seq(Sents)
    BY DEF Ready, Copied, Names
  <2>2. Len(fold.table) = Len(server.blocks) /\ Len(fold.table) \in Nat
    BY <2>1, OpenAIReady DEF OpenAINames
  <2>3. tc.id = <<"call", n>> /\ tc.id \in Ids /\ tc.index \in Int
    BY <2>2 DEF NewId, Ids, NoIndex
  <2> QED BY <2>1, <2>2, <2>3, OpenAIReady
<1>2. /\ st1 \in FoldStates /\ st1.content = Append(c, call) /\ st1.content \in Seq(Blocks)
      /\ Len(st1.content) = k /\ st1.content[k] = call
      /\ \A j \in 1..Len(c) : st1.content[j] = c[j]
      /\ OpenAITables(st1, sv, {}) /\ st1.stop = fold.stop
      /\ b \in 1..Len(st1.table) /\ st1.table[b].content = k /\ st1.table[b].partial = <<>>
      /\ call \in Blocks /\ call.payload = <<>> /\ call.id = tc.id /\ call.kind = "toolCall"
      /\ b = n /\ st1.table[b].id = tc.id /\ st1.table[b].index = tc.index
      /\ \A a \in 1..Len(fold.table) : st1.table[a] = fold.table[a]
  <2>1. st1 = Announced(fold, tc) /\ call = NewCall(tc)
    OBVIOUS
  <2>0. /\ fold \in FoldStates /\ OpenAITables(fold, sv, {})
        /\ tc.id \in Ids /\ tc.index \in Int
    BY <1>1
  <2> HIDE DEF st1, call
  <2>2. /\ st1 \in FoldStates /\ st1.content = Append(c, call) /\ st1.content \in Seq(Blocks)
        /\ Len(st1.content) = k /\ st1.content[k] = call
        /\ \A j \in 1..Len(c) : st1.content[j] = c[j]
        /\ OpenAITables(st1, sv, {}) /\ st1.stop = fold.stop
        /\ call \in Blocks /\ call.payload = <<>> /\ call.id = tc.id /\ call.kind = "toolCall"
    BY <2>0, <2>1, CallAnnounced
  <2>3. /\ Len(st1.table) = n /\ n \in 1..Len(st1.table) /\ st1.table[n].content = k
        /\ st1.table[n].partial = <<>> /\ st1.table[n].id = tc.id
        /\ st1.table[n].index = tc.index
        /\ \A a \in 1..Len(fold.table) : st1.table[a] = fold.table[a]
    BY <2>0, <2>1, CallAnnounced
  <2> QED BY <2>2, <2>3
<1>3. F.st = fold
  BY DEF Folded
<1> HIDE DEF st1, call
<1>4. OpenAICall(tc, F) = IF tc.frag = <<>> THEN Then(F, st1, <<o>>)
                          ELSE Then(F, t, <<o>> \o <<g>>)
  <2>1. tc.id = NoId \/ st1.content[k].id # NoId
    BY <1>2
  <2>2. /\ b = Len(st1.table) /\ st1.table[b].content = k /\ st1.content[k] = call
        /\ st1 = Announced(fold, tc) /\ call = NewCall(tc)
    BY <1>2 DEF st1, call
  <2> QED BY <1>3, <2>1, <2>2 DEF OpenAICall
<1>5. o \in Events /\ <<o>> \in Seq(Events)
  <2>1. [call EXCEPT !.payload = <<>>] \in Blocks
    BY <1>2, PayloadsJoin, BlockUpdates
  <2>2. o \in Events
    BY <1>1, <2>1, PayloadsJoin DEF Opened, Events
  <2> HIDE DEF o
  <2> QED BY <2>2
<1>6. CASE tc.frag = <<>>
  <2>1. Opens(c, st1.content, v, <<o>>, {}, {})
    BY <1>2 DEF Opens
  <2> HIDE DEF o
  <2>2. OpenAICall(tc, F) = [st |-> st1, events |-> <<o>>, failed |-> FALSE]
    BY <1>4, <1>5, <1>6, ThenFolded
  <2>3. Copied(st1, sv, log \o sent)
    <3>1. Ledger(st1.content, log \o sent)
      <4>1. sent = <<>> /\ n \in Nat
        BY <1>1, <1>6
      <4> HIDE DEF c, n
      <4> QED BY <1>1, <1>2, <4>1, LedgerAdds
    <3>2. OpenAINames(st1, sv)
      <4>1. /\ Len(st1.table) = n /\ st1.table[n].id = <<"call", n>> /\ st1.table[n].content = k
            /\ st1.table[n].index = IF indexed THEN Len(fold.table) ELSE NoIndex
            /\ st1.content[k].kind = "toolCall" /\ st1.content[k].id = <<"call", n>>
        BY <1>1, <1>2
      <4>2. /\ Len(st1.content) = k /\ \A j \in 1..Len(c) : st1.content[j] = c[j]
            /\ \A a \in 1..Len(fold.table) : /\ st1.table[a].id = fold.table[a].id
                                            /\ st1.table[a].index = fold.table[a].index
                                            /\ st1.table[a].content = fold.table[a].content
        BY <1>2
      <4>3. fold \in FoldStates /\ OpenAITables(fold, server, {}) /\ OpenAINames(fold, server)
        BY <1>1
      <4>4. sv.blocks = Append(server.blocks, indexed) /\ indexed \in BOOLEAN
        OBVIOUS
      <4> DEFINE d == st1.content
                 r == st1.table
      <4>5. /\ Len(d) = Len(fold.content) + 1 /\ d[Len(fold.content) + 1].kind = "toolCall"
            /\ d[Len(fold.content) + 1].id = <<"call", Len(fold.table) + 1>>
            /\ \A j \in 1..Len(fold.content) : d[j] = fold.content[j]
        BY <4>1, <4>2
      <4>6. /\ Len(r) = Len(fold.table) + 1
            /\ r[Len(fold.table) + 1].id = <<"call", Len(fold.table) + 1>>
            /\ r[Len(fold.table) + 1].index = IF indexed THEN Len(fold.table) ELSE NoIndex
            /\ r[Len(fold.table) + 1].content = Len(fold.content) + 1
            /\ \A a \in 1..Len(fold.table) : /\ r[a].id = fold.table[a].id
                                            /\ r[a].index = fold.table[a].index
                                            /\ r[a].content = fold.table[a].content
        BY <4>1, <4>2
      <4> HIDE DEF c, v, F, k, n, b, x, t, o, g
      <4> QED BY <4>3, <4>4, <4>5, <4>6, OpenAINamesAdded
    <3> QED BY <3>1, <3>2 DEF Copied, Names
  <2>4. Reads(Frame(ev, sent, sv), [st |-> st1, events |-> <<o>>, failed |-> FALSE])
    BY <1>1, <1>2, <1>5, <2>1, <2>3, OpenAIMoves
  <2> HIDE DEF F
  <2> QED BY <2>2, <2>4 DEF F
<1>7. CASE tc.frag # <<>>
  <2>1. tc.frag \in Payloads /\ Len(tc.frag) = 1
    BY <1>7, FragmentsSent DEF Ready
  <2>2. x = tc.frag
    BY <1>2, <2>1, PayloadsJoin
  <2>3. /\ t \in FoldStates /\ Changed(st1.content, t.content, k, tc.frag)
        /\ OpenAITables(t, sv, {}) /\ t.stop = st1.stop /\ t.content[k].payload = x
        /\ t.content[k].id = st1.content[k].id /\ Len(t.table) = Len(st1.table)
        /\ \A a \in 1..Len(st1.table) : /\ t.table[a].id = st1.table[a].id
                                       /\ t.table[a].index = st1.table[a].index
                                       /\ t.table[a].content = st1.table[a].content
    <3> DEFINE j == st1.table[b].content
               u == Argued(st1, b, j, x)
    <3> HIDE DEF b
    <3>0. ArguedWell(st1, sv, u, j, tc.frag, x)
      BY <1>2, <2>1, CallArgued
    <3> HIDE DEF u, j, x
    <3>1. /\ u \in FoldStates /\ Changed(st1.content, u.content, j, tc.frag)
          /\ OpenAITables(u, sv, {}) /\ u.stop = st1.stop /\ u.content[j].payload = x
          /\ u.content[j].id = st1.content[j].id /\ Len(u.table) = Len(st1.table)
          /\ \A a \in 1..Len(st1.table) : /\ u.table[a].id = st1.table[a].id
                                         /\ u.table[a].index = st1.table[a].index
                                         /\ u.table[a].content = st1.table[a].content
      BY <3>0 DEF ArguedWell
    <3> USE DEF j, u, x
    <3>2. j = k
      BY <1>2, <2>1
    <3> HIDE DEF j
    <3> QED BY <3>1, <3>2
  <2> HIDE DEF t
  <2>4. t.content \in Seq(Blocks)
    BY <2>3 DEF FoldStates
  <2> DEFINE new == t.content[k]
  <2>5. new \in Blocks /\ new.kind = call.kind /\ new.payload = tc.frag /\ new.id = tc.id
    <3>1. k \in 1..Len(t.content)
      BY <1>1, <1>2, <2>3 DEF Changed
    <3>2. new \in Blocks
      BY <2>4, <3>1
    <3> QED BY <1>2, <2>2, <2>3, <3>2 DEF Changed
  <2>6. t.content = Append(c, new)
    <3> HIDE DEF new
    <3>1. /\ Append(c, new) \in Seq(Blocks) /\ Len(Append(c, new)) = k
          /\ Append(c, new)[k] = new /\ \A j \in 1..Len(c) : Append(c, new)[j] = c[j]
      BY <1>1, <2>5, AppendProperties
    <3>2. Len(t.content) = k /\ \A j \in 1..Len(c) : t.content[j] = c[j]
      <4>1. /\ Len(t.content) = Len(st1.content)
            /\ \A j \in 1..Len(st1.content) : j # k => t.content[j] = st1.content[j]
        BY <2>3 DEF Changed
      <4>2. /\ Len(st1.content) = k
            /\ \A j \in 1..Len(c) : st1.content[j] = c[j] /\ j # k /\ j \in 1..k
        BY <1>1, <1>2
      <4> HIDE DEF c, k
      <4> QED BY <4>1, <4>2
    <3>3. \A j \in 1..k : j = k \/ j \in 1..Len(c)
      BY <1>1
    <3>4. t.content[k] = new
      BY DEF new
    <3>5. \A j \in 1..k : t.content[j] = Append(c, new)[j]
      BY <3>1, <3>2, <3>3, <3>4
    <3> QED BY <2>4, <3>1, <3>2, <3>5, SeqEqual
  <2> HIDE DEF new
  <2>7. Opens(c, t.content, v, <<o, g>>, {}, {})
    <3>1. g = Grown(k, call, new.payload)
      BY <2>5
    <3> QED BY <1>2, <2>1, <2>5, <2>6, <3>1 DEF Opens
  <2>8. g \in Events
    BY <1>1, <1>2, <2>1 DEF Grown, Events
  <2> HIDE DEF o, g
  <2>9. <<o, g>> \in Seq(Events) /\ <<o>> \o <<g>> = <<o, g>>
    <3>1. <<o, g>> \in Seq(Events)
      BY <1>5, <2>8
    <3>2. <<o>> \o <<g>> = <<o, g>>
      BY <1>5, <2>8, JoinTwo
    <3> QED BY <3>1, <3>2
  <2>10. OpenAICall(tc, F) = [st |-> t, events |-> <<o, g>>, failed |-> FALSE]
    BY <1>4, <1>7, <2>9, ThenFolded
  <2>11. Copied(t, sv, log \o sent)
    <3>1. /\ Len(t.content) = k /\ t.content[k] = new
          /\ \A j \in 1..Len(c) : t.content[j] = c[j]
      <4> HIDE DEF c
      <4> QED BY <1>1, <2>5, <2>6, AppendProperties
    <3>2. CallOf(t.content, k) = n
      BY <1>1, <1>2, <2>5, <3>1 DEF CallOf
    <3>3. Ledger(t.content, log \o sent)
      <4>1. /\ new.payload = <<Len(log) + 1>> /\ Len(log) + 1 \in Fragments
            /\ sent = Sent(new.kind, n) /\ n \in Nat
        BY <1>1, <1>2, <1>7, <2>5, NextFragment
      <4> HIDE DEF c, n
      <4> QED BY <1>1, <2>4, <2>5, <2>6, <3>2, <4>1, LedgerAdds
    <3>4. OpenAINames(t, sv)
      <4>1. \A a \in 1..Len(fold.table) : a \in 1..Len(st1.table)
        BY <1>1, <1>2
      <4>2. /\ Len(t.table) = n /\ t.table[n].id = <<"call", n>> /\ t.table[n].content = k
            /\ t.table[n].index = IF indexed THEN Len(fold.table) ELSE NoIndex
            /\ \A a \in 1..Len(fold.table) : /\ t.table[a].id = fold.table[a].id
                                            /\ t.table[a].index = fold.table[a].index
                                            /\ t.table[a].content = fold.table[a].content
        <5>1. /\ b = n /\ Len(t.table) = n /\ n \in 1..Len(st1.table)
              /\ st1.table[n].id = <<"call", n>> /\ st1.table[n].content = k
              /\ st1.table[n].index = IF indexed THEN Len(fold.table) ELSE NoIndex
          BY <1>1, <1>2, <2>3
        <5>2. \A a \in 1..Len(st1.table) : /\ t.table[a].id = st1.table[a].id
                                         /\ t.table[a].index = st1.table[a].index
                                         /\ t.table[a].content = st1.table[a].content
          BY <2>3
        <5> HIDE DEF n, k
        <5>3. \A a \in 1..Len(fold.table) : st1.table[a] = fold.table[a]
          BY <1>2
        <5> QED BY <4>1, <5>1, <5>2, <5>3
      <4>3. t.content[k].kind = "toolCall" /\ t.content[k].id = <<"call", n>>
        BY <1>1, <1>2, <2>5, <3>1
      <4>4. fold \in FoldStates /\ OpenAITables(fold, server, {}) /\ OpenAINames(fold, server)
        BY <1>1
      <4>5. sv.blocks = Append(server.blocks, indexed) /\ indexed \in BOOLEAN
        OBVIOUS
      <4> DEFINE d == t.content
                 r == t.table
      <4>6. /\ Len(d) = Len(fold.content) + 1 /\ d[Len(fold.content) + 1].kind = "toolCall"
            /\ d[Len(fold.content) + 1].id = <<"call", Len(fold.table) + 1>>
            /\ \A j \in 1..Len(fold.content) : d[j] = fold.content[j]
        BY <3>1, <4>3
      <4>7. /\ Len(r) = Len(fold.table) + 1
            /\ r[Len(fold.table) + 1].id = <<"call", Len(fold.table) + 1>>
            /\ r[Len(fold.table) + 1].index = IF indexed THEN Len(fold.table) ELSE NoIndex
            /\ r[Len(fold.table) + 1].content = Len(fold.content) + 1
            /\ \A a \in 1..Len(fold.table) : /\ r[a].id = fold.table[a].id
                                            /\ r[a].index = fold.table[a].index
                                            /\ r[a].content = fold.table[a].content
        BY <4>2
      <4> HIDE DEF c, v, F, k, n, b, x, o, g, d, r
      <4> QED BY <4>4, <4>5, <4>6, <4>7, OpenAINamesAdded DEF d, r
    <3> QED BY <3>3, <3>4 DEF Copied, Names
  <2>12. Reads(Frame(ev, sent, sv), [st |-> t, events |-> <<o, g>>, failed |-> FALSE])
    BY <1>1, <1>2, <2>3, <2>7, <2>9, <2>11, OpenAIMoves
  <2> HIDE DEF F
  <2> QED BY <2>10, <2>12 DEF F
<1> QED BY <1>6, <1>7

\* The calls of a chunk, folded in order.
Called(calls, texts, m) ==
  LET called[n \in 0..m] == IF n = 0 THEN texts ELSE OpenAICall(calls[n], called[n - 1])
  IN called[m]

\* A recursion over at most one call.
LEMMA CalledOnce ==
  \A calls, texts :
     /\ Called(calls, texts, 0) = texts
     /\ Called(calls, texts, 1) = OpenAICall(calls[1], texts)
<1> SUFFICES ASSUME NEW calls, NEW texts, NEW m, m \in 0..1
             PROVE  Called(calls, texts, m) = IF m = 0 THEN texts ELSE OpenAICall(calls[1], texts)
  <2>1. 0 \in 0..1 /\ 1 \in 0..1 /\ 1 # 0
    OBVIOUS
  <2> QED BY <2>1
<1> DEFINE called[n \in 0..m] == IF n = 0 THEN texts ELSE OpenAICall(calls[n], called[n - 1])
           last == OpenAICall(calls[1], texts)
           g == [n \in 0..m |-> IF n = 0 THEN texts ELSE last]
<1>1. 0 \in 0..m /\ m \in 0..m /\ \A n \in 0..m : n = 0 \/ (n = 1 /\ m = 1)
  <2>1. m \in Int
    OBVIOUS
  <2>2. m = 0 \/ m = 1
    OBVIOUS
  <2>3. 0 \in 0..m /\ m \in 0..m
    BY <2>1, <2>2
  <2>4. \A n \in 0..m : n = 0 \/ (n = 1 /\ m = 1)
    BY <2>1, <2>2
  <2> QED BY <2>3, <2>4
<1>2. g[0] = texts /\ g[m] = IF m = 0 THEN texts ELSE last
  BY <1>1
<1>3. g = [n \in 0..m |-> IF n = 0 THEN texts ELSE OpenAICall(calls[n], g[n - 1])]
  <2>1. ASSUME NEW n \in 0..m
        PROVE  g[n] = IF n = 0 THEN texts ELSE OpenAICall(calls[n], g[n - 1])
    <3>1. CASE n = 0
      BY <1>2, <3>1
    <3>2. CASE n # 0
      <4>1. n = 1 /\ n - 1 = 0 /\ m = 1
        BY <1>1, <3>2
      <4>2. g[n] = last /\ g[n - 1] = texts
        BY <1>2, <4>1
      <4> HIDE DEF g
      <4> QED BY <3>2, <4>1, <4>2
    <3> QED BY <3>1, <3>2
  <2>2. g = [n \in 0..m |-> g[n]]
    OBVIOUS
  <2> HIDE DEF g
  <2> QED BY <2>1, <2>2
<1>4. called = [n \in 0..m |-> IF n = 0 THEN texts ELSE OpenAICall(calls[n], called[n - 1])]
  <2> HIDE DEF g
  <2> QED BY <1>3
<1> HIDE DEF called, g
<1>5. \A n \in 0..m : called[n] = IF n = 0 THEN texts ELSE OpenAICall(calls[n], called[n - 1])
  BY <1>4
<1>6. called[0] = texts
  BY <1>1, <1>5
<1>7. ASSUME m = 1 PROVE called[m] = OpenAICall(calls[1], texts)
  <2>1. 1 \in 0..m /\ 1 - 1 = 0
    BY <1>7
  <2>2. called[1] = IF 1 = 0 THEN texts ELSE OpenAICall(calls[1], called[1 - 1])
    BY <1>5, <2>1
  <2> QED BY <1>6, <1>7, <2>1, <2>2
<1>8. called[m] = IF m = 0 THEN texts ELSE OpenAICall(calls[1], texts)
  <2>1. CASE m = 0
    BY <1>6, <2>1
  <2> QED BY <1>7, <2>1
<1> QED BY <1>8 DEF Called, called

\* A chunk's text, reasoning and calls are folded in this order.
LEMMA ChunkFolds ==
  ASSUME NEW ev, NEW st, ev.reason = ""
  PROVE  FoldOpenAI(ev, st)
           = Called(ev.calls,
                    OpenAIText("thinking", ev.thinking, OpenAIText("text", ev.text, Folded(st, <<>>))),
                    Len(ev.calls))
<1>1. ev.reason \in DOMAIN OpenAIReason \cup {""}
  OBVIOUS
<1> DEFINE reasoned == IF ev.reason = "" THEN st
                       ELSE [st EXCEPT !.stop = OpenAIReason[ev.reason], !.finished = TRUE]
           Texts(r) == OpenAIText("thinking", ev.thinking, OpenAIText("text", ev.text, Folded(r, <<>>)))
<1>2. reasoned = st
  OBVIOUS
<1>3. FoldOpenAI(ev, st) = IF ev.reason \notin DOMAIN OpenAIReason \cup {""} THEN Refused(st)
                           ELSE Called(ev.calls, Texts(reasoned), Len(ev.calls))
  BY DEF FoldOpenAI, Called
<1> HIDE DEF reasoned, Texts
<1>4. FoldOpenAI(ev, st) = Called(ev.calls, Texts(st), Len(ev.calls))
  BY <1>1, <1>2, <1>3
<1> QED BY <1>4 DEF Texts

LEMMA OpenAISends ==
  \A frame \in OpenAIFrames :
     \/ \E frag \in Required :
          frame = Frame(OpenAIChunk(frag, <<>>, <<>>, ""), Sent("text", 0), server)
     \/ \E frag \in Required :
          frame = Frame(OpenAIChunk(<<>>, frag, <<>>, ""), Sent("thinking", 0), server)
     \/ \E indexed \in BOOLEAN, frag \in Optional : frame = OpenAINew(indexed, frag)
     \/ \E b \in DOMAIN server.blocks, frag \in Required : frame = OpenAIMore(b, frag)
     \/ \E reason \in Reasons : frame = OpenAIStop(reason)
<1> DEFINE B1 == {Frame(OpenAIChunk(frag, <<>>, <<>>, ""), Sent("text", 0), server) :
                    frag \in Required}
           B2 == {Frame(OpenAIChunk(<<>>, frag, <<>>, ""), Sent("thinking", 0), server) :
                    frag \in Required}
           B3 == {OpenAINew(indexed, frag) : indexed \in BOOLEAN,
                                             frag \in IF MayOpen THEN Optional ELSE {}}
           B4 == {OpenAIMore(b, frag) : b \in DOMAIN server.blocks, frag \in Required}
           B5 == {OpenAIStop(reason) : reason \in Reasons}
<1>1. OpenAIFrames = IF server.stage = "end" THEN {} ELSE B1 \cup B2 \cup B3 \cup B4 \cup B5
  BY DEF OpenAIFrames
<1>2. \A x \in B1 : \E frag \in Required :
        x = Frame(OpenAIChunk(frag, <<>>, <<>>, ""), Sent("text", 0), server)
  OBVIOUS
<1>3. \A x \in B2 : \E frag \in Required :
        x = Frame(OpenAIChunk(<<>>, frag, <<>>, ""), Sent("thinking", 0), server)
  OBVIOUS
<1>4. \A x \in B3 : \E indexed \in BOOLEAN, frag \in Optional : x = OpenAINew(indexed, frag)
  OBVIOUS
<1>5. \A x \in B4 : \E b \in DOMAIN server.blocks, frag \in Required : x = OpenAIMore(b, frag)
  OBVIOUS
<1>6. \A x \in B5 : \E reason \in Reasons : x = OpenAIStop(reason)
  OBVIOUS
<1> HIDE DEF B1, B2, B3, B4, B5
<1>7. \A x \in OpenAIFrames : x \in B1 \/ x \in B2 \/ x \in B3 \/ x \in B4 \/ x \in B5
  BY <1>1
<1> QED BY <1>2, <1>3, <1>4, <1>5, <1>6, <1>7, Zenon

\* Whatever OpenAI's server sends next is folded as it should be.
LEMMA OpenAIReads ==
  ASSUME Ready, StreamAssumption, provider = "openai", NEW frame \in OpenAIFrames
  PROVE  Reads(frame, FoldOpenAI(frame.ev, fold))
<1> DEFINE c == Len(server.blocks) + 1
           Text1(frag) == Frame(OpenAIChunk(frag, <<>>, <<>>, ""), Sent("text", 0), server)
           Thinking(frag) == Frame(OpenAIChunk(<<>>, frag, <<>>, ""), Sent("thinking", 0), server)
<1>1. /\ OpenAITables(fold, server, {}) /\ fold \in FoldStates /\ server \in Servers
      /\ server.blocks \in Seq(BOOLEAN) /\ Len(server.blocks) \in Nat /\ log \in Seq(Sents)
      /\ fold.stop # "aborted"
  BY OpenAIReady DEF Ready
<1>2. \/ \E frag \in Required : frame = Text1(frag)
      \/ \E frag \in Required : frame = Thinking(frag)
      \/ \E indexed \in BOOLEAN, frag \in Optional : frame = OpenAINew(indexed, frag)
      \/ \E b \in 1..Len(server.blocks), frag \in Required : frame = OpenAIMore(b, frag)
      \/ \E reason \in Reasons : frame = OpenAIStop(reason)
  <2>1. DOMAIN server.blocks = 1..Len(server.blocks)
    BY <1>1
  <2> QED BY <2>1, OpenAISends
<1>3. CASE \E frag \in Required : frame = Text1(frag)
  <2>1. PICK frag \in Required : frame = Text1(frag)
    BY <1>3
  <2> DEFINE ev == OpenAIChunk(frag, <<>>, <<>>, "")
  <2>2. /\ frame.ev = ev /\ ev.reason = "" /\ Len(ev.calls) = 0 /\ ev.text = frag
        /\ ev.thinking = <<>> /\ frame = Frame(ev, Sent("text", 0), server)
    BY <2>1 DEF Frame, OpenAIChunk
  <2> HIDE DEF ev
  <2> DEFINE text == OpenAIText("text", frag, Folded(fold, <<>>))
  <2>3. FoldOpenAI(ev, fold) = OpenAIText("thinking", <<>>, text)
    <3> DEFINE texts(said) == OpenAIText("thinking", ev.thinking,
                                         OpenAIText("text", said, Folded(fold, <<>>)))
    <3>1. FoldOpenAI(ev, fold) = Called(ev.calls, texts(ev.text), Len(ev.calls))
      BY <2>2, ChunkFolds
    <3>2. texts(ev.text) = OpenAIText("thinking", <<>>, text)
      BY <2>2
    <3> HIDE DEF texts, text
    <3>3. Called(ev.calls, texts(ev.text), 0) = texts(ev.text)
      BY CalledOnce, Zenon
    <3> QED BY <2>2, <3>1, <3>2, <3>3
  <2>4. OpenAIText("thinking", <<>>, text) = text
    BY DEF OpenAIText
  <2>5. Reads(Frame(ev, Sent("text", 0), server), text)
    BY OpenAITextReads
  <2> HIDE DEF text
  <2> QED BY <2>2, <2>3, <2>4, <2>5
<1>4. CASE \E frag \in Required : frame = Thinking(frag)
  <2>1. PICK frag \in Required : frame = Thinking(frag)
    BY <1>4
  <2> DEFINE ev == OpenAIChunk(<<>>, frag, <<>>, "")
  <2>2. /\ frame.ev = ev /\ ev.reason = "" /\ Len(ev.calls) = 0 /\ ev.text = <<>>
        /\ ev.thinking = frag /\ frame = Frame(ev, Sent("thinking", 0), server)
    BY <2>1 DEF Frame, OpenAIChunk
  <2> HIDE DEF ev
  <2> DEFINE text == OpenAIText("text", <<>>, Folded(fold, <<>>))
  <2>3. FoldOpenAI(ev, fold) = OpenAIText("thinking", frag, text)
    <3> DEFINE texts(said) == OpenAIText("thinking", ev.thinking,
                                         OpenAIText("text", said, Folded(fold, <<>>)))
    <3>1. FoldOpenAI(ev, fold) = Called(ev.calls, texts(ev.text), Len(ev.calls))
      BY <2>2, ChunkFolds
    <3>2. texts(ev.text) = OpenAIText("thinking", frag, text)
      BY <2>2
    <3> HIDE DEF texts, text
    <3>3. Called(ev.calls, texts(ev.text), 0) = texts(ev.text)
      BY CalledOnce, Zenon
    <3> QED BY <2>2, <3>1, <3>2, <3>3
  <2>4. text = Folded(fold, <<>>)
    BY DEF OpenAIText
  <2>5. Reads(Frame(ev, Sent("thinking", 0), server), OpenAIText("thinking", frag, Folded(fold, <<>>)))
    BY OpenAITextReads
  <2> HIDE DEF text
  <2> QED BY <2>2, <2>3, <2>4, <2>5
<1>5. ASSUME NEW tc, NEW sv, NEW sent,
             frame = Frame(OpenAIChunk(<<>>, <<>>, <<tc>>, ""), sent, sv),
             Reads(Frame(frame.ev, sent, sv), OpenAICall(tc, Folded(fold, <<>>)))
      PROVE  Reads(frame, FoldOpenAI(frame.ev, fold))
  <2> DEFINE ev == OpenAIChunk(<<>>, <<>>, <<tc>>, "")
             texts == Folded(fold, <<>>)
  <2>1. /\ frame.ev = ev /\ ev.reason = "" /\ Len(ev.calls) = 1 /\ ev.calls[1] = tc
        /\ ev.text = <<>> /\ ev.thinking = <<>> /\ frame = Frame(ev, sent, sv)
    BY <1>5 DEF Frame, OpenAIChunk
  <2> HIDE DEF ev
  <2>2. FoldOpenAI(ev, fold)
          = OpenAICall(tc, OpenAIText("thinking", <<>>, OpenAIText("text", <<>>, texts)))
    <3> DEFINE told == OpenAIText("thinking", <<>>, OpenAIText("text", <<>>, texts))
    <3>1. FoldOpenAI(ev, fold) = Called(ev.calls, told, Len(ev.calls))
      BY <2>1, ChunkFolds
    <3> HIDE DEF told
    <3>2. FoldOpenAI(ev, fold) = OpenAICall(tc, told)
      BY <2>1, <3>1, CalledOnce
    <3> QED BY <3>2 DEF told
  <2>3. OpenAIText("thinking", <<>>, OpenAIText("text", <<>>, texts)) = texts
    BY DEF OpenAIText
  <2>4. Reads(Frame(ev, sent, sv), OpenAICall(tc, texts))
    BY <1>5, <2>1
  <2> HIDE DEF texts
  <2> QED BY <2>1, <2>2, <2>3, <2>4
<1> DEFINE Delta(index, id, frag) == [index |-> index, id |-> id, frag |-> frag]
<1>6. CASE \E indexed \in BOOLEAN, frag \in Optional : frame = OpenAINew(indexed, frag)
  <2>1. PICK indexed \in BOOLEAN, frag \in Optional : frame = OpenAINew(indexed, frag)
    BY <1>6
  <2> DEFINE tc == Delta(IF indexed THEN c - 1 ELSE NoIndex, NewId, frag)
             sv == [server EXCEPT !.blocks = Append(server.blocks, indexed)]
             sent == IF frag = <<>> THEN <<>> ELSE Sent("toolCall", c)
  <2>2. /\ tc.id = NewId /\ tc.index = (IF indexed THEN Len(server.blocks) ELSE NoIndex)
        /\ tc.frag = frag /\ tc = Delta(tc.index, NewId, frag)
    BY <1>1
  <2>3. frag = <<>> \/ frag \in Required
    BY <1>1, FragmentsSent
  <2>4. sv \in Servers /\ sv.blocks \in Seq(BOOLEAN) /\ sv.stage = server.stage
    <3>1. Append(server.blocks, indexed) \in Seq(BOOLEAN)
      BY <1>1
    <3> QED BY <1>1, <3>1 DEF Servers
  <2>5. OpenAITables(fold, sv, {})
    <3> HIDE DEF sv
    <3> QED BY <1>1, <2>4 DEF OpenAITables
  <2>6. sent \in Seq(Sents)
    <3>1. <<>> \in Seq(Sents)
      OBVIOUS
    <3>2. Sent("toolCall", c) \in Seq(Sents)
      <4>1. c \in Nat /\ "toolCall" \in Kinds
        BY <1>1 DEF Kinds
      <4> HIDE DEF c
      <4> QED BY <4>1, SentFragment
    <3> QED BY <3>1, <3>2
  <2>7. frame = Frame(OpenAIChunk(<<>>, <<>>, <<tc>>, ""), sent, sv)
    BY <2>1 DEF CallDelta, OpenAINew
  <2>8. FindCall(fold, tc) = 0
    <3>1. tc.index \in {Len(server.blocks), NoIndex}
      BY <2>2
    <3> HIDE DEF tc
    <3> QED BY <2>2, <3>1, FindCallNames
  <2>9. sv.blocks = Append(server.blocks, indexed)
    BY <1>1 DEF Servers
  <2>10. sent = IF tc.frag = <<>> THEN <<>> ELSE Sent("toolCall", Len(server.blocks) + 1)
    BY <2>2
  <2> HIDE DEF tc, sv, sent
  <2>11. Reads(Frame(frame.ev, sent, sv), OpenAICall(tc, Folded(fold, <<>>)))
    BY <2>2, <2>3, <2>4, <2>5, <2>6, <2>8, <2>9, <2>10, FirstSeenCall
  <2> QED BY <1>5, <2>7, <2>11
<1>7. CASE \E b \in 1..Len(server.blocks), frag \in Required : frame = OpenAIMore(b, frag)
  <2>1. PICK b \in 1..Len(server.blocks), frag \in Required : frame = OpenAIMore(b, frag)
    BY <1>7
  <2> DEFINE tc == IF server.blocks[b] THEN Delta(b - 1, NoId, frag)
                   ELSE Delta(NoIndex, <<"call", b>>, frag)
  <2>2. tc.id \in Ids /\ tc.index \in Int /\ tc.frag = frag
    BY <1>1 DEF Ids, NoIndex
  <2>3. FindCall(fold, tc) = b /\ b \in 1..Len(fold.table)
    BY FindCallNames
  <2>4. frame = Frame(OpenAIChunk(<<>>, <<>>, <<tc>>, ""), Sent("toolCall", b), server)
    BY <2>1 DEF CallDelta, OpenAIMore
  <2> HIDE DEF tc
  <2>5. Reads(Frame(frame.ev, Sent("toolCall", b), server), OpenAICall(tc, Folded(fold, <<>>)))
    BY <2>2, <2>3, KnownCall
  <2> QED BY <1>5, <2>4, <2>5
<1>8. CASE \E reason \in Reasons : frame = OpenAIStop(reason)
  <2>1. PICK reason \in Reasons : frame = OpenAIStop(reason)
    BY <1>8
  <2> DEFINE ev == OpenAIChunk(<<>>, <<>>, <<>>, reason)
             sv == [server EXCEPT !.stage = "end", !.reason = reason]
             known == reason \in DOMAIN OpenAIReason
             st == IF known THEN [fold EXCEPT !.stop = OpenAIReason[reason], !.finished = TRUE]
                   ELSE fold
             failed == ~ (known \/ reason = "")
  <2>2. /\ frame.ev = ev /\ ev.reason = reason /\ ev.calls = <<>> /\ ev.text = <<>>
        /\ ev.thinking = <<>> /\ frame = Frame(ev, <<>>, sv)
    <3>1. frame = Frame(ev, <<>>, sv)
      BY <2>1 DEF OpenAIStop
    <3> HIDE DEF sv
    <3> QED BY <3>1 DEF Frame, OpenAIChunk
  <2>3. FoldOpenAI(ev, fold) = [st |-> st, events |-> <<>>, failed |-> failed]
    <3> HIDE DEF ev
    <3> DEFINE reasoned == IF ev.reason = "" THEN fold
                           ELSE [fold EXCEPT !.stop = OpenAIReason[ev.reason], !.finished = TRUE]
               texts == OpenAIText("thinking", ev.thinking,
                                   OpenAIText("text", ev.text, Folded(reasoned, <<>>)))
    <3>1. FoldOpenAI(ev, fold) = IF ev.reason \notin DOMAIN OpenAIReason \cup {""} THEN Refused(fold)
                                 ELSE Called(ev.calls, texts, Len(ev.calls))
      BY DEF FoldOpenAI, Called
    <3>2. texts = Folded(reasoned, <<>>)
      BY <2>2 DEF OpenAIText
    <3>3. Called(ev.calls, texts, Len(ev.calls)) = texts
      <4>1. Len(ev.calls) = 0
        BY <2>2
      <4> HIDE DEF texts
      <4> QED BY <4>1, CalledOnce
    <3>4. CASE known
      <4>1. reason # "" /\ reasoned = st
        BY <2>2, <3>4 DEF OpenAIReason
      <4> HIDE DEF texts, reasoned, st
      <4> QED BY <2>2, <3>1, <3>2, <3>3, <3>4, <4>1 DEF Folded
    <3>5. CASE ~ known
      <4>1. st = fold /\ (reason = "" => reasoned = fold)
        BY <2>2, <3>5
      <4> HIDE DEF texts, reasoned, st, known
      <4> QED BY <2>2, <3>1, <3>2, <3>3, <3>5, <4>1 DEF Folded, Refused, known
    <3> QED BY <3>4, <3>5
  <2>4. /\ st \in FoldStates /\ st.stop # "aborted" /\ st.content = fold.content
        /\ st.table = fold.table
    <3>1. CASE known
      <4> DEFINE stop == OpenAIReason[reason]
      <4>1. stop \in Stops \ {"aborted"}
        BY <3>1 DEF OpenAIReason, Stops
      <4> HIDE DEF stop
      <4>2. st = [fold EXCEPT !.stop = stop, !.finished = TRUE]
        BY <3>1 DEF stop
      <4> HIDE DEF st
      <4> QED BY <1>1, <4>1, <4>2 DEF FoldStates
    <3>2. CASE ~ known
      <4>1. st = fold
        BY <3>2
      <4> HIDE DEF st
      <4> QED BY <1>1, <4>1
    <3> QED BY <3>1, <3>2
  <2>5. sv \in Servers /\ sv.blocks = server.blocks /\ sv.stage = "end"
    BY <1>1 DEF Servers
  <2>6. failed \in BOOLEAN /\ <<>> \in Seq(Events) /\ <<>> \in Seq(Sents)
    OBVIOUS
  <2> HIDE DEF sv, st, ev, failed
  <2>7. OpenAITables(st, sv, {})
    BY <1>1, <2>4, <2>5 DEF OpenAITables
  <2>8. Rests(fold.content, st.content, view.blocks, <<>>, {}, {})
    BY <2>4 DEF Rests
  <2>9. Copied(st, sv, log \o <<>>)
    <3>1. Ledger(st.content, log \o <<>>)
      BY <1>1, <2>4, LedgerStays DEF Ready, Copied
    <3>2. OpenAINames(st, sv)
      BY <2>4, <2>5 DEF Ready, Copied, Names, OpenAINames
    <3> QED BY <3>1, <3>2 DEF Copied, Names
  <2>10. Reads(Frame(ev, <<>>, sv), [st |-> st, events |-> <<>>, failed |-> failed])
    BY <2>4, <2>5, <2>6, <2>7, <2>8, <2>9, OpenAIMoves
  <2> QED BY <2>2, <2>3, <2>10
<1> QED BY <1>2, <1>3, <1>4, <1>6, <1>7, <1>8

-----------------------------------------------------------------------------
(* Gemini.                                                                 *)

\* The closed blocks are the calls.
ClosedNow == Closing(fold.content, view.blocks, <<>>)

\* A fold state t and the events q that a part of the answer may lead to, when it brings
\* what sent says.
GoogleMove(t, q, sent) ==
  /\ t \in FoldStates /\ t.stop # "aborted" /\ q \in Seq(Events)
  /\ Ledger(t.content, log \o sent) /\ GoogleNames(t)
  /\ \/ /\ GoogleTables(t, ClosedNow)
        /\ \/ Rests(fold.content, t.content, view.blocks, q, {}, {})
           \/ Grows(fold.content, t.content, view.blocks, q, {}, {})
           \/ Opens(fold.content, t.content, view.blocks, q, {}, {})
     \/ /\ GoogleTables(t, ClosedNow \cup {Len(t.content)})
        /\ OpensAndEnds(fold.content, t.content, view.blocks, q, {}, {})

\* What comes in pieces.
SaidKinds == {"text", "thinking"}

\* The identities a call may come with.
GivenIds == {NoId, <<"given">>}

GoogleTook(f, sent) ==
  \E t, q : f = [st |-> t, events |-> q, failed |-> FALSE] /\ GoogleMove(t, q, sent)

LEMMA GoogleReady ==
  ASSUME Ready, provider = "google"
  PROVE  /\ GoogleTables(fold, ClosedNow)
         /\ fold \in FoldStates /\ server \in Servers /\ fold.stop # "aborted"
         /\ fold.content \in Seq(Blocks) /\ view.blocks \in Seq(ViewBlocks)
         /\ Level(fold.content, view.blocks, {}) /\ log \in Seq(Sents)
         /\ Len(fold.content) \in Nat /\ fold.current \in Nat /\ fold.counter \in Nat
         /\ fold.ids \subseteq Ids
         /\ \A i \in 1..Len(fold.content) :
              i \in ClosedNow <=> Closed(view.blocks, i)
         /\ ClosedNow \subseteq 1..Len(fold.content)
         /\ Ledger(fold.content, log) /\ GoogleNames(fold)
<1>1. /\ fold \in FoldStates /\ server \in Servers /\ fold.stop # "aborted"
      /\ fold.content \in Seq(Blocks) /\ view.blocks \in Seq(ViewBlocks)
      /\ Level(fold.content, view.blocks, {}) /\ log \in Seq(Sents)
      /\ GoogleTables(fold, ClosedNow)
  BY DEF Ready, Tables, Withheld, ClosedNow
<1>2. fold.current \in Nat /\ fold.counter \in Nat /\ fold.ids \subseteq Ids
  BY <1>1 DEF FoldStates
<1>3. Len(<<>>) = 0 /\ 1..0 = {}
  OBVIOUS
<1>4. /\ ClosedNow \subseteq 1..Len(fold.content)
      /\ \A i \in 1..Len(fold.content) : i \in ClosedNow <=> Closed(view.blocks, i)
  BY <1>3 DEF ClosedNow, Closing
<1>5. Ledger(fold.content, log) /\ GoogleNames(fold)
  BY DEF Ready, Copied, Names
<1> QED BY <1>1, <1>2, <1>4, <1>5

LEMMA GoogleMoves ==
  ASSUME Ready, provider = "google", NEW st, NEW q, NEW sent \in Seq(Sents),
         GoogleMove(st, q, sent), NEW sv \in Servers, NEW ev
  PROVE  Reads(Frame(ev, sent, sv), [st |-> st, events |-> q, failed |-> FALSE])
<1> DEFINE frame == Frame(ev, sent, sv)
           f == [st |-> st, events |-> q, failed |-> FALSE]
<1>1. /\ fold.content \in Seq(Blocks) /\ view.blocks \in Seq(ViewBlocks)
      /\ Level(fold.content, view.blocks, {})
  BY GoogleReady
<1>2. /\ st \in FoldStates /\ st.stop # "aborted" /\ q \in Seq(Events)
      /\ st.content \in Seq(Blocks) /\ {} \subseteq 1..Len(fold.content)
  BY DEF FoldStates, GoogleMove
<1>3. /\ ViewOK(st.content, view.blocks, q, {})
      /\ GoogleTables(st, Closing(st.content, view.blocks, q))
  <2>1. CASE GoogleTables(st, ClosedNow) /\ Rests(fold.content, st.content, view.blocks, q, {}, {})
    BY <1>1, <1>2, <2>1, RestsKeeps DEF ClosedNow
  <2>2. CASE GoogleTables(st, ClosedNow) /\ Grows(fold.content, st.content, view.blocks, q, {}, {})
    BY <1>1, <1>2, <2>2, GrowsKeeps DEF ClosedNow
  <2>3. CASE GoogleTables(st, ClosedNow) /\ Opens(fold.content, st.content, view.blocks, q, {}, {})
    BY <1>1, <1>2, <2>3, OpensKeeps DEF ClosedNow
  <2>4. CASE /\ GoogleTables(st, ClosedNow \cup {Len(st.content)})
             /\ OpensAndEnds(fold.content, st.content, view.blocks, q, {}, {})
    BY <1>1, <1>2, <2>4, OpensAndEndsKeeps DEF ClosedNow
  <2> QED BY <2>1, <2>2, <2>3, <2>4 DEF GoogleMove
<1>4. /\ frame.next = sv /\ frame.sent = sent /\ f.st = st /\ f.events = q /\ f.failed = FALSE
  BY DEF Frame
<1> HIDE DEF frame, f
<1>5. Copied(st, sv, log \o sent)
  BY DEF GoogleMove, Copied, Names
<1>6. Reads(frame, f)
  BY <1>2, <1>3, <1>4, <1>5 DEF Reads, Tables
<1> QED BY <1>6 DEF frame, f

\* The stop reason takes no part in it.
LEMMA GoogleReasoned ==
  ASSUME NEW t, NEW q, NEW sent, GoogleMove(t, q, sent), NEW x \in Stops \ {"aborted"}
  PROVE  GoogleMove([t EXCEPT !.stop = x], q, sent)
<1> DEFINE u == [t EXCEPT !.stop = x]
<1>1. t \in FoldStates
  BY DEF GoogleMove
<1>2. /\ u \in FoldStates /\ u.stop = x /\ u.content = t.content /\ u.current = t.current
      /\ u.ids = t.ids /\ u.counter = t.counter
  BY <1>1, FoldUpdates
<1> HIDE DEF u
<1>3. \A closing : GoogleTables(t, closing) => GoogleTables(u, closing)
  BY <1>2 DEF GoogleTables
<1>4. GoogleNames(t) => GoogleNames(u)
  BY <1>2 DEF GoogleNames
<1>5. GoogleMove(u, q, sent)
  BY <1>2, <1>3, <1>4 DEF GoogleMove
<1> QED BY <1>5 DEF u

\* Text or reasoning: the current block grows, or a new one is opened.
LEMMA GoogleTextMoves ==
  ASSUME Ready, StreamAssumption, provider = "google", NEW part,
         part.kind \in SaidKinds, part.frag \in Required
  PROVE  GoogleTook(GoogleText(part, Folded(fold, <<>>)), Sent(part.kind, 0))
<1> DEFINE c == fold.content
           v == view.blocks
           cur == fold.current
           new == Len(c) + 1
           kind == part.kind
           frag == part.frag
           block == Text(kind, frag)
           F == GoogleText(part, Folded(fold, <<>>))
           may == cur # 0 /\ c[cur].kind = kind
           sent == Sent(kind, 0)
<1>1. /\ GoogleTables(fold, ClosedNow) /\ c \in Seq(Blocks) /\ v \in Seq(ViewBlocks)
      /\ fold \in FoldStates /\ fold.stop # "aborted" /\ Len(c) \in Nat /\ cur \in Nat
      /\ \A j \in 1..Len(c) : j \in ClosedNow <=> Closed(v, j)
      /\ ClosedNow \subseteq 1..Len(c)
  BY GoogleReady
<1>2. PICK x \in Fragments : frag = <<x>>
  BY FragmentsSent DEF Ready
<1>3. frag \in Payloads /\ frag # <<>> /\ Len(frag) = 1
  BY <1>2, PayloadsJoin
<1>4. block \in Blocks /\ block.kind = kind /\ block.payload = frag
  BY <1>3 DEF SaidKinds, Text, Block, Blocks, Kinds, Parses, Ids
<1>5. Folded(fold, <<>>).st = fold
  BY DEF Folded
<1>6. /\ log \in Seq(Sents) /\ Ledger(c, log) /\ GoogleNames(fold)
      /\ frag = <<Len(log) + 1>> /\ Len(log) + 1 \in Fragments
      /\ kind # "toolCall" /\ kind \in Kinds
  BY GoogleReady, NextFragment DEF SaidKinds, Kinds
<1> HIDE DEF sent
<1>7. CASE may
  <2>1. cur \in 1..Len(c) /\ ~ Closed(v, cur) /\ c[cur].kind = kind
    BY <1>1, <1>7 DEF GoogleTables
  <2> DEFINE one == [c[cur] EXCEPT !.payload = c[cur].payload \o frag]
             d == [c EXCEPT ![cur] = one]
             t == Grow(fold, cur, frag)
             q == <<Grown(cur, block, frag)>>
  <2>2. c[cur] \in Blocks /\ c[cur].payload \in Payloads
    <3>1. c[cur] \in Blocks
      BY <1>1, <2>1
    <3> HIDE DEF c, cur
    <3> QED BY <3>1 DEF Blocks
  <2>3. one \in Blocks /\ one.kind = kind /\ one.payload = c[cur].payload \o frag
    BY <1>3, <2>1, <2>2, PayloadsJoin DEF Blocks
  <2>4. /\ d \in Seq(Blocks) /\ Len(d) = Len(c) /\ d[cur] = one
        /\ \A j \in 1..Len(c) : j # cur => d[j] = c[j]
    <3> HIDE DEF one, c, cur
    <3> QED BY <1>1, <2>1, <2>3, ExceptSeq
  <2>5. /\ t \in FoldStates /\ t.content = d /\ t.stop = fold.stop /\ t.current = cur
        /\ t.ids = fold.ids /\ t.counter = fold.counter
    <3>1. t = [fold EXCEPT !.content = d]
      BY <1>1, <2>1 DEF Grow, FoldStates
    <3> HIDE DEF t, d
    <3> QED BY <1>1, <2>4, <3>1 DEF FoldStates
  <2>6. q \in Seq(Events)
    <3>1. Grown(cur, block, frag) \in Events
      BY <1>1, <1>3, <1>4, <2>1 DEF Grown, Events
    <3> QED BY <3>1
  <2>7. F = [st |-> t, events |-> q, failed |-> FALSE]
    <3>1. F = Then(Folded(fold, <<>>), t, q)
      BY <1>5, <1>7 DEF GoogleText
    <3> HIDE DEF t, q, F
    <3> QED BY <2>6, <3>1, ThenFolded, Zenon
  <2> HIDE DEF t, one, d, cur
  <2>8. Changed(c, t.content, cur, frag)
    BY <1>1, <2>1, <2>3, <2>4, <2>5 DEF Changed
  <2>9. Grows(c, t.content, v, q, {}, {})
    BY <1>1, <1>2, <1>4, <2>1, <2>8 DEF Grows
  <2>10. GoogleTables(t, ClosedNow)
    <3>1. \A j \in 1..Len(c) : t.content[j].kind = c[j].kind
      BY <2>1, <2>3, <2>4, <2>5
    <3>2. Len(t.content) = Len(c) /\ t.current = cur /\ cur = fold.current
      BY <2>4, <2>5 DEF cur
    <3> QED BY <1>1, <2>1, <3>1, <3>2 DEF GoogleTables
  <2>11. cur = Len(c) /\ cur = fold.current
    BY <1>6, <2>1 DEF GoogleNames, cur
  <2>12. /\ t.content[cur].kind = kind /\ c[cur].kind = kind /\ Len(t.content) = Len(c)
         /\ \A j \in 1..Len(c) : j # cur => t.content[j] = c[j]
    BY <2>1, <2>3, <2>4, <2>5
  <2>13. Ledger(t.content, log \o sent)
    <3>1. \A j \in 1..Len(c) : CallOf(t.content, j) = CallOf(c, j)
      BY <1>6, <2>12 DEF CallOf
    <3>2. CallOf(c, cur) = 0 /\ sent = Sent(c[cur].kind, CallOf(c, cur))
      BY <1>6, <2>1 DEF CallOf, sent
    <3>3. /\ \A j \in 1..Len(c) : cur < j /\ c[j].kind = c[cur].kind => CallOf(c, j) # CallOf(c, cur)
          /\ t.content \in Seq(Blocks) /\ CallOf(c, cur) \in Nat
      BY <1>1, <2>4, <2>5, <2>11, <3>2
    <3> HIDE DEF c, frag, kind
    <3> QED BY <1>1, <1>6, <2>1, <2>8, <3>1, <3>2, <3>3, LedgerGrows
  <2>14. GoogleNames(t)
    <3>1. \A j \in 1..Len(c) : t.content[j].kind = "toolCall" =>
             j # cur /\ t.content[j] = c[j] /\ c[j].kind = "toolCall"
      BY <1>6, <2>12
    <3>2. t.current \in {0, Len(t.content)}
      BY <2>5, <2>11, <2>12
    <3>3. /\ \A i \in 1..Len(c) : c[i].kind = "toolCall" =>
               c[i].id \in fold.ids /\ c[i].parse = "given" /\ Len(c[i].payload) = 1
          /\ \A i, j \in 1..Len(c) : c[i].kind = "toolCall" /\ c[j].kind = "toolCall" /\ i # j =>
               c[i].id # c[j].id
      BY <1>6 DEF GoogleNames
    <3>4. (\A k \in Nat : <<"name", k>> \in fold.ids => k <= fold.counter) /\ NoId \notin fold.ids
      BY <1>6 DEF GoogleNames
    <3> QED BY <2>5, <2>12, <3>1, <3>2, <3>3, <3>4 DEF GoogleNames
  <2>15. GoogleMove(t, q, sent)
    BY <1>1, <2>5, <2>6, <2>9, <2>10, <2>13, <2>14 DEF GoogleMove
  <2> HIDE DEF F, q
  <2> QED BY <2>7, <2>15, Zenon DEF F, GoogleTook, sent
<1>8. CASE ~ may
  <2> DEFINE d == Append(c, block)
             a == AddBlock(fold, block)
             t == [a EXCEPT !.current = new]
             q == <<Opened(new, block), Grown(new, block, frag)>>
  <2>1. /\ d \in Seq(Blocks) /\ Len(d) = new /\ d[new] = block
        /\ \A j \in 1..Len(c) : d[j] = c[j]
    <3> HIDE DEF block, c
    <3> QED BY <1>1, <1>4, AppendProperties
  <2>2. /\ a \in FoldStates /\ a.content = d /\ a.stop = fold.stop
        /\ a.ids = fold.ids /\ a.counter = fold.counter
    <3>1. a = [fold EXCEPT !.content = d]
      BY <1>1 DEF AddBlock, FoldStates
    <3> HIDE DEF a, d
    <3> QED BY <1>1, <2>1, <3>1 DEF FoldStates
  <2>3. /\ t \in FoldStates /\ t.content = d /\ t.stop = fold.stop /\ t.current = new
        /\ t.ids = fold.ids /\ t.counter = fold.counter
    <3>1. new \in Nat
      BY <1>1
    <3> HIDE DEF a, d, new
    <3> QED BY <2>2, <3>1 DEF FoldStates
  <2>4. q \in Seq(Events)
    <3>1. Opened(new, block) \in Events
      <4>1. [block EXCEPT !.payload = <<>>] \in Blocks
        BY <1>4, PayloadsJoin, BlockUpdates
      <4> HIDE DEF block
      <4> QED BY <1>1, <4>1, PayloadsJoin DEF Opened, Events
    <3>2. Grown(new, block, frag) \in Events
      BY <1>1, <1>3, <1>4 DEF Grown, Events
    <3> QED BY <3>1, <3>2
  <2>5. F = [st |-> t, events |-> q, failed |-> FALSE]
    <3>1. F = Then(Folded(fold, <<>>), t, q)
      BY <1>5, <1>8 DEF GoogleText
    <3> HIDE DEF t, q, F
    <3> QED BY <2>4, <3>1, ThenFolded, Zenon
  <2> HIDE DEF t, a, d, block
  <2>6. Opens(c, t.content, v, q, {}, {})
    BY <1>3, <1>4, <2>3 DEF Opens, d
  <2>7. GoogleTables(t, ClosedNow)
    <3>1. \A j \in 1..new : j = new \/ j \in 1..Len(c)
      BY <1>1
    <3>2. new \notin ClosedNow /\ d[new].kind # "toolCall"
      <4>1. kind # "toolCall"
        BY DEF SaidKinds
      <4> QED BY <1>1, <1>4, <2>1, <4>1
    <3>3. \A j \in 1..Len(c) : j \in ClosedNow <=> d[j].kind = "toolCall"
      BY <1>1, <2>1 DEF GoogleTables
    <3>4. \A j \in 1..new : j \in ClosedNow <=> d[j].kind = "toolCall"
      BY <3>1, <3>2, <3>3
    <3> QED BY <1>1, <2>1, <2>3, <3>2, <3>4 DEF GoogleTables
  <2>8. Ledger(t.content, log \o sent)
    <3>1. CallOf(d, Len(c) + 1) = 0 /\ sent = Sent(block.kind, 0)
      BY <1>4, <1>6, <2>1 DEF CallOf, sent
    <3>2. d = Append(c, block) /\ 0 \in Nat
      BY DEF d
    <3>3. block.payload = <<Len(log) + 1>>
      BY <1>4, <1>6
    <3> HIDE DEF c, frag, kind
    <3>4. Ledger(d, log \o sent)
      BY <1>1, <1>4, <1>6, <2>1, <3>1, <3>2, <3>3, LedgerAdds
    <3> QED BY <2>3, <3>4
  <2>9. GoogleNames(t)
    <3>1. \A j \in 1..Len(d) : d[j].kind = "toolCall" =>
             j \in 1..Len(c) /\ d[j] = c[j] /\ c[j].kind = "toolCall"
      <4>1. \A j \in 1..Len(d) : j = new \/ j \in 1..Len(c)
        BY <1>1, <2>1
      <4> QED BY <1>4, <1>6, <2>1, <4>1
    <3>2. t.current \in {0, Len(t.content)}
      BY <2>1, <2>3
    <3>3. /\ \A i \in 1..Len(c) : c[i].kind = "toolCall" =>
               c[i].id \in fold.ids /\ c[i].parse = "given" /\ Len(c[i].payload) = 1
          /\ \A i, j \in 1..Len(c) : c[i].kind = "toolCall" /\ c[j].kind = "toolCall" /\ i # j =>
               c[i].id # c[j].id
      BY <1>6 DEF GoogleNames
    <3>4. (\A k \in Nat : <<"name", k>> \in fold.ids => k <= fold.counter) /\ NoId \notin fold.ids
      BY <1>6 DEF GoogleNames
    <3>5. t.content = d /\ t.ids = fold.ids /\ t.counter = fold.counter
      BY <2>3
    <3>6. \A i \in 1..Len(d) : d[i].kind = "toolCall" =>
            d[i].id \in fold.ids /\ d[i].parse = "given" /\ Len(d[i].payload) = 1
      BY <3>1, <3>3
    <3>7. \A i, j \in 1..Len(d) :
            d[i].kind = "toolCall" /\ d[j].kind = "toolCall" /\ i # j => d[i].id # d[j].id
      BY <3>1, <3>3
    <3> HIDE DEF c, new
    <3> QED BY <3>2, <3>4, <3>5, <3>6, <3>7 DEF GoogleNames
  <2>10. GoogleMove(t, q, sent)
    BY <1>1, <2>3, <2>4, <2>6, <2>7, <2>8, <2>9 DEF GoogleMove
  <2> HIDE DEF F, q
  <2> QED BY <2>5, <2>10, Zenon DEF F, GoogleTook, sent
<1> QED BY <1>7, <1>8

\* A call comes whole, and ends at once.
LEMMA GoogleCallMoves ==
  ASSUME Ready, StreamAssumption, provider = "google", NEW part,
         part.id \in GivenIds, part.frag \in Required
  PROVE  GoogleTook(GoogleCall(part, Folded(fold, <<>>)), Sent("toolCall", Len(log) + 1))
<1> DEFINE c == fold.content
           v == view.blocks
           k == Len(c) + 1
           frag == part.frag
           fresh == part.id = NoId \/ part.id \in fold.ids
           counter == fold.counter + (IF fresh THEN 1 ELSE 0)
           id == IF fresh THEN <<"name", counter>> ELSE part.id
           block == Block("toolCall", id, frag, "given")
           a == AddBlock(fold, block)
           t == [a EXCEPT !.current = 0, !.counter = counter, !.ids = @ \cup {id}]
           q == <<Opened(k, block), Grown(k, block, frag), Ended(k, block)>>
           d == Append(c, block)
           F == GoogleCall(part, Folded(fold, <<>>))
<1>1. /\ GoogleTables(fold, ClosedNow) /\ c \in Seq(Blocks) /\ v \in Seq(ViewBlocks)
      /\ fold \in FoldStates /\ fold.stop # "aborted" /\ Len(c) \in Nat
      /\ fold.counter \in Nat /\ fold.ids \subseteq Ids /\ ClosedNow \subseteq 1..Len(c)
  BY GoogleReady
<1>2. frag \in Payloads /\ Len(frag) = 1
  BY FragmentsSent DEF Ready
<1>3. counter \in Nat /\ id \in Ids
  <2>1. counter \in Nat
    BY <1>1
  <2> HIDE DEF counter, fresh
  <2>2. <<"name", counter>> \in Ids
    BY <2>1 DEF Ids
  <2> QED BY <2>1, <2>2 DEF Ids, GivenIds
<1>4. /\ log \in Seq(Sents) /\ Len(log) + 1 \in Nat /\ Ledger(c, log) /\ GoogleNames(fold)
      /\ frag = <<Len(log) + 1>> /\ Len(log) + 1 \in Fragments
  <2>1. log \in Seq(Sents) /\ Ledger(c, log) /\ GoogleNames(fold)
    BY GoogleReady
  <2> QED BY <2>1, NextFragment
\* The call's id is its own.
<1>5. /\ id \notin fold.ids /\ id # NoId /\ fold.counter <= counter
      /\ \A n \in Nat : <<"name", n>> = id => n <= counter
  <2>1. fold.counter <= counter /\ (fresh => counter > fold.counter)
    BY <1>1
  <2> HIDE DEF counter
  <2>2. CASE fresh
    <3>1. id = <<"name", counter>>
      BY <2>2
    <3>2. <<"name", counter>> \notin fold.ids
      BY <1>1, <1>3, <1>4, <2>1, <2>2 DEF GoogleNames
    <3>3. <<"name", counter>> # NoId /\ \A n \in Nat : <<"name", n>> = <<"name", counter>> => n = counter
      BY DEF NoId
    <3>4. \A n \in Nat : <<"name", n>> = id => n <= counter
      BY <1>3, <3>1, <3>3
    <3> HIDE DEF id
    <3> QED BY <2>1, <3>1, <3>2, <3>3, <3>4
  <2>3. CASE ~ fresh
    <3>1. id = <<"given">> /\ id \notin fold.ids
      BY <2>3 DEF GivenIds
    <3>2. <<"given">> # NoId /\ \A n \in Nat : <<"name", n>> # <<"given">>
      BY DEF NoId
    <3> HIDE DEF id
    <3> QED BY <2>1, <3>1, <3>2
  <2> QED BY <2>2, <2>3
<1> HIDE DEF counter, id
<1>6. /\ block \in Blocks /\ block.kind = "toolCall" /\ block.payload = frag
      /\ block.id = id /\ block.parse = "given"
  BY <1>2, <1>3 DEF Block, Blocks, Kinds, Parses
<1>7. /\ d \in Seq(Blocks) /\ Len(d) = k /\ d[k] = block
      /\ \A j \in 1..Len(c) : d[j] = c[j]
  <2> HIDE DEF block, c
  <2> QED BY <1>1, <1>6, AppendProperties
<1>8. a \in FoldStates /\ a.content = d /\ a.stop = fold.stop /\ a.ids = fold.ids
  <2>1. a = [fold EXCEPT !.content = d]
    BY <1>1 DEF AddBlock, FoldStates
  <2> HIDE DEF a, d
  <2> QED BY <1>1, <1>7, <2>1 DEF FoldStates
<1>9. /\ t \in FoldStates /\ t.content = d /\ t.stop = fold.stop /\ t.current = 0
      /\ t.ids = fold.ids \cup {id} /\ t.counter = counter
  <2> HIDE DEF a, d
  <2> QED BY <1>1, <1>3, <1>8 DEF FoldStates
<1>10. q \in Seq(Events)
  <2>1. [block EXCEPT !.payload = <<>>] \in Blocks
    BY <1>6, PayloadsJoin, BlockUpdates
  <2> HIDE DEF block
  <2>2. Opened(k, block) \in Events
    BY <1>1, <2>1, PayloadsJoin DEF Opened, Events
  <2>3. Grown(k, block, frag) \in Events
    BY <1>1, <1>2, <1>6 DEF Grown, Events
  <2>4. Ended(k, block) \in Events
    BY <1>1, <1>6, PayloadsJoin DEF Ended, Events
  <2> QED BY <2>2, <2>3, <2>4
<1>11. F = [st |-> t, events |-> q, failed |-> FALSE]
  <2>1. Folded(fold, <<>>).st = fold
    BY DEF Folded
  <2>2. F = Then(Folded(fold, <<>>), t, q)
    BY <2>1 DEF GoogleCall, id, counter
  <2> HIDE DEF t, q, F
  <2> QED BY <1>10, <2>2, ThenFolded, Zenon
<1> HIDE DEF t, a, block
<1>12. OpensAndEnds(c, t.content, v, q, {}, {})
  BY <1>2, <1>6, <1>9 DEF OpensAndEnds, d
<1>13. Ledger(t.content, log \o Sent("toolCall", Len(log) + 1))
  <2> DEFINE call == Len(log) + 1
             sent == Sent("toolCall", call)
  <2>1. CallOf(d, Len(c) + 1) = call
    <3>1. d[Len(c) + 1].payload[1] = call /\ d[Len(c) + 1].kind = "toolCall"
      BY <1>6, <1>7, <1>4
    <3> QED BY <3>1 DEF CallOf
  <2>2. d = Append(c, block) /\ sent = Sent(block.kind, call) /\ block.payload = <<Len(log) + 1>>
    BY <1>6, <1>4
  <2>3. call \in Nat
    BY <1>4
  <2> HIDE DEF c, d, call, sent
  <2>4. Ledger(d, log \o sent)
    BY <1>1, <1>6, <1>7, <1>4, <2>1, <2>2, <2>3, LedgerAdds
  <2> QED BY <1>9, <2>4 DEF sent, call
<1> HIDE DEF d
<1>14. GoogleNames(t)
  <2>1. \A j \in 1..Len(d) : j = k \/ j \in 1..Len(c)
    BY <1>1, <1>7
  <2>2. /\ d[k].id = id /\ d[k].parse = "given" /\ Len(d[k].payload) = 1
        /\ \A j \in 1..Len(c) : d[j] = c[j]
    BY <1>2, <1>6, <1>7
  <2>3. /\ \A i \in 1..Len(c) : c[i].kind = "toolCall" =>
             c[i].id \in fold.ids /\ c[i].parse = "given" /\ Len(c[i].payload) = 1
        /\ \A i, j \in 1..Len(c) : c[i].kind = "toolCall" /\ c[j].kind = "toolCall" /\ i # j =>
             c[i].id # c[j].id
    BY <1>4 DEF GoogleNames
  <2>4. (\A n \in Nat : <<"name", n>> \in fold.ids => n <= fold.counter) /\ NoId \notin fold.ids
    BY <1>4 DEF GoogleNames
  <2>5. (\A n \in Nat : <<"name", n>> \in t.ids => n <= t.counter) /\ NoId \notin t.ids
    BY <1>1, <1>3, <1>9, <1>5, <2>4
  <2>6. \A i \in 1..Len(d) : d[i].kind = "toolCall" =>
          d[i].id \in t.ids /\ d[i].parse = "given" /\ Len(d[i].payload) = 1
    BY <1>9, <2>1, <2>2, <2>3
  <2>7. \A i, j \in 1..Len(d) : d[i].kind = "toolCall" /\ d[j].kind = "toolCall" /\ i # j =>
          d[i].id # d[j].id
    <3> SUFFICES ASSUME NEW i \in 1..Len(d), NEW j \in 1..Len(d), d[i].kind = "toolCall",
                        d[j].kind = "toolCall", i # j
                 PROVE  d[i].id # d[j].id
      OBVIOUS
    <3> QED BY <1>5, <2>1, <2>2, <2>3
  <2> QED BY <1>9, <2>5, <2>6, <2>7 DEF GoogleNames
<1>15. GoogleTables(t, ClosedNow \cup {Len(t.content)})
  <2>1. \A j \in 1..k : j = k \/ (j # k /\ j \in 1..Len(c))
    BY <1>1
  <2>2. \A j \in 1..Len(c) : j \in ClosedNow <=> d[j].kind = "toolCall"
    BY <1>1, <1>7 DEF GoogleTables
  <2>3. \A j \in 1..k : j \in ClosedNow \cup {k} <=> d[j].kind = "toolCall"
    BY <1>1, <1>6, <1>7, <2>1, <2>2
  <2> QED BY <1>1, <1>7, <1>9, <2>3 DEF GoogleTables
<1>16. GoogleMove(t, q, Sent("toolCall", Len(log) + 1))
  BY <1>1, <1>9, <1>10, <1>12, <1>15, <1>13, <1>14 DEF GoogleMove
<1> HIDE DEF F, q
<1> QED BY <1>11, <1>16, Zenon DEF F, GoogleTook

\* The parts of a chunk, folded in order.
TakePart(part, f) == IF part.kind = "toolCall" THEN GoogleCall(part, f) ELSE GoogleText(part, f)

Taken(parts, first, m) ==
  LET taken[n \in 0..m] == IF n = 0 THEN first ELSE TakePart(parts[n], taken[n - 1])
  IN taken[m]

\* A recursion over at most one part.
LEMMA TakenOnce ==
  \A parts, first :
     /\ Taken(parts, first, 0) = first
     /\ Taken(parts, first, 1) = TakePart(parts[1], first)
<1> SUFFICES ASSUME NEW parts, NEW first, NEW m, m \in 0..1
             PROVE  Taken(parts, first, m) = IF m = 0 THEN first ELSE TakePart(parts[1], first)
  <2>1. 0 \in 0..1 /\ 1 \in 0..1 /\ 1 # 0
    OBVIOUS
  <2> QED BY <2>1
<1> DEFINE taken[n \in 0..m] == IF n = 0 THEN first ELSE TakePart(parts[n], taken[n - 1])
           last == TakePart(parts[1], first)
           g == [n \in 0..m |-> IF n = 0 THEN first ELSE last]
<1>1. 0 \in 0..m /\ m \in 0..m /\ \A n \in 0..m : n = 0 \/ (n = 1 /\ m = 1)
  <2>1. m \in Int
    OBVIOUS
  <2>2. m = 0 \/ m = 1
    OBVIOUS
  <2>3. 0 \in 0..m /\ m \in 0..m
    BY <2>1, <2>2
  <2>4. \A n \in 0..m : n = 0 \/ (n = 1 /\ m = 1)
    BY <2>1, <2>2
  <2> QED BY <2>3, <2>4
<1>2. g[0] = first /\ g[m] = IF m = 0 THEN first ELSE last
  BY <1>1
<1>3. g = [n \in 0..m |-> IF n = 0 THEN first ELSE TakePart(parts[n], g[n - 1])]
  <2>1. ASSUME NEW n \in 0..m
        PROVE  g[n] = IF n = 0 THEN first ELSE TakePart(parts[n], g[n - 1])
    <3>1. CASE n = 0
      BY <1>2, <3>1
    <3>2. CASE n # 0
      <4>1. n = 1 /\ n - 1 = 0 /\ m = 1
        BY <1>1, <3>2
      <4>2. g[n] = last /\ g[n - 1] = first
        BY <1>2, <4>1
      <4> HIDE DEF g
      <4> QED BY <3>2, <4>1, <4>2
    <3> QED BY <3>1, <3>2
  <2>2. g = [n \in 0..m |-> g[n]]
    OBVIOUS
  <2> HIDE DEF g
  <2> QED BY <2>1, <2>2
<1>4. taken = [n \in 0..m |-> IF n = 0 THEN first ELSE TakePart(parts[n], taken[n - 1])]
  <2> HIDE DEF g
  <2> QED BY <1>3
<1> HIDE DEF taken, g
<1>5. \A n \in 0..m : taken[n] = IF n = 0 THEN first ELSE TakePart(parts[n], taken[n - 1])
  BY <1>4
<1>6. taken[0] = first
  BY <1>1, <1>5
<1>7. ASSUME m = 1 PROVE taken[m] = TakePart(parts[1], first)
  <2>1. 1 \in 0..m /\ 1 - 1 = 0
    BY <1>7
  <2>2. taken[1] = IF 1 = 0 THEN first ELSE TakePart(parts[1], taken[1 - 1])
    BY <1>5, <2>1
  <2> QED BY <1>6, <1>7, <2>1, <2>2
<1>8. taken[m] = IF m = 0 THEN first ELSE TakePart(parts[1], first)
  <2>1. CASE m = 0
    BY <1>6, <2>1
  <2> QED BY <1>7, <2>1
<1> QED BY <1>8 DEF Taken, taken

\* What becomes of a chunk's stop reason.
GoogleStop(ev, f) ==
  LET calls == \E i \in DOMAIN f.st.content : f.st.content[i].kind = "toolCall"
  IN IF calls THEN "toolUse" ELSE GoogleReason(ev.reason)

Stopped(f, x) == [f EXCEPT !.st.stop = x]

LEMMA GoogleChunk ==
  ASSUME NEW ev, NEW st
  PROVE  LET parts == Taken(ev.parts, Folded(st, <<>>), Len(ev.parts))
         IN FoldGoogle(ev, st) = IF ev.reason = "" \/ ev.empty THEN parts
                                 ELSE Stopped(parts, GoogleStop(ev, parts))
BY DEF FoldGoogle, Taken, TakePart, GoogleStop, Stopped

LEMMA GoogleSends ==
  \A frame \in GoogleFrames :
     \/ \E kind \in Kinds : \E frag \in Required : \E reason \in Reasons \cup {""} :
          frame = GooglePart(kind, NoId, frag, reason)
     \/ \E frag \in Required : \E reason \in Reasons \cup {""} :
          frame = GooglePart("toolCall", <<"given">>, frag, reason)
     \/ \E reason \in Reasons : frame = GoogleEmpty(reason)
<1> DEFINE kinds == {"text", "thinking", "toolCall"}
           R == Reasons \cup {""}
           given == <<"given">>
           call == "toolCall"
           B1 == {GooglePart(kind, NoId, frag, reason) :
                    kind \in kinds, frag \in Required, reason \in R}
           B2 == {GooglePart(call, given, frag, reason) : frag \in Required, reason \in R}
           B3 == {GoogleEmpty(reason) : reason \in Reasons}
<1>1. GoogleFrames = IF server.stage = "end" THEN {} ELSE B1 \cup B2 \cup B3
  BY DEF GoogleFrames
<1> HIDE DEF kinds, R, given, call
<1>2. \A x \in B1 : \E kind \in kinds : \E frag \in Required : \E reason \in R :
        x = GooglePart(kind, NoId, frag, reason)
  OBVIOUS
<1>3. \A x \in B2 : \E frag \in Required : \E reason \in R : x = GooglePart(call, given, frag, reason)
  OBVIOUS
<1>4. \A x \in B3 : \E reason \in Reasons : x = GoogleEmpty(reason)
  OBVIOUS
<1> HIDE DEF B1, B2, B3
<1>5. \A x \in GoogleFrames : x \in B1 \/ x \in B2 \/ x \in B3
  BY <1>1
<1> QED BY <1>2, <1>3, <1>4, <1>5, Zenon DEF kinds, R, given, call, Kinds

LEMMA GoogleStopped ==
  ASSUME NEW t, NEW q, NEW x
  PROVE  Stopped([st |-> t, events |-> q, failed |-> FALSE], x)
         = [st |-> [t EXCEPT !.stop = x], events |-> q, failed |-> FALSE]
<1> DEFINE no == FALSE
           f == [st |-> t, events |-> q, failed |-> no]
           u == [t EXCEPT !.stop = x]
<1>1. f = [st |-> t, events |-> q, failed |-> no] /\ f.st = t
  OBVIOUS
<1> HIDE DEF no, f
<1>2. [f EXCEPT !.st = [f.st EXCEPT !.stop = x]] = [f EXCEPT !.st = u]
  BY <1>1
<1> HIDE DEF u
<1>3. [f EXCEPT !.st = u] = [st |-> u, events |-> q, failed |-> no]
  BY <1>1
<1>4. [f EXCEPT !.st.stop = x] = [f EXCEPT !.st = [f.st EXCEPT !.stop = x]]
  OBVIOUS
<1>5. [f EXCEPT !.st.stop = x] = [st |-> u, events |-> q, failed |-> no]
  BY <1>2, <1>3, <1>4
<1> QED BY <1>5 DEF no, f, u, Stopped

\* Whatever Gemini sends next is folded as it should be.
LEMMA GoogleReads ==
  ASSUME Ready, StreamAssumption, provider = "google", NEW frame \in GoogleFrames
  PROVE  Reads(frame, FoldGoogle(frame.ev, fold))
<1>1. /\ fold \in FoldStates /\ fold.stop # "aborted" /\ server \in Servers
      /\ GoogleTables(fold, ClosedNow) /\ log \in Seq(Sents) /\ Len(log) \in Nat
  BY GoogleReady
<1>2. Len(log) + 1 \in Nat /\ 0 \in Nat
  BY <1>1
<1>3. ASSUME NEW kind \in Kinds, NEW id \in GivenIds, NEW frag \in Required,
             NEW reason \in Reasons \cup {""}, frame = GooglePart(kind, id, frag, reason)
      PROVE  Reads(frame, FoldGoogle(frame.ev, fold))
  <2> DEFINE part == [kind |-> kind, id |-> id, frag |-> frag]
             ev == [parts |-> <<part>>, empty |-> FALSE, reason |-> reason]
             call == IF kind = "toolCall" THEN Len(log) + 1 ELSE 0
             sv == [server EXCEPT !.stage = IF reason = "" THEN server.stage ELSE "end",
                                  !.reason = reason]
             first == Folded(fold, <<>>)
  <2>1. frame = Frame(ev, Sent(kind, call), sv)
    BY <1>3 DEF GooglePart
  <2>2. sv \in Servers
    BY <1>1 DEF Servers
  <2>4. ev.parts[1] = part /\ Len(ev.parts) = 1 /\ ~ ev.empty /\ ev.reason = reason
    OBVIOUS
  <2>5. part.kind = kind /\ part.id = id /\ part.frag = frag
    OBVIOUS
  <2> HIDE DEF part, ev, sv, first
  <2>3. Sent(kind, call) \in Seq(Sents)
    <3>1. call \in Nat
      <4>1. Len(log) + 1 \in Nat /\ 0 \in Nat
        BY <1>2
      <4> DEFINE n == Len(log) + 1
      <4> HIDE DEF n
      <4> QED BY <4>1 DEF n
    <3> HIDE DEF call
    <3> QED BY <3>1, SentFragment
  <2> HIDE DEF call
  <2>6. frame.ev = ev
    BY <2>1 DEF Frame
  <2>7. Taken(ev.parts, first, Len(ev.parts)) = TakePart(part, first)
    BY <2>4, TakenOnce
  <2>8. GoogleTook(TakePart(part, first), Sent(kind, call))
    <3>1. CASE kind = "toolCall"
      <4>1. TakePart(part, first) = GoogleCall(part, first)
        BY <2>5, <3>1 DEF TakePart
      <4>2. part.id \in GivenIds /\ part.frag \in Required
        BY <2>5
      <4>3. GoogleTook(GoogleCall(part, Folded(fold, <<>>)), Sent("toolCall", Len(log) + 1))
        BY <4>2, GoogleCallMoves
      <4>4. Sent(kind, call) = Sent("toolCall", Len(log) + 1)
        BY <3>1 DEF call
      <4> QED BY <4>1, <4>3, <4>4 DEF first
    <3>2. CASE kind # "toolCall"
      <4>1. TakePart(part, first) = GoogleText(part, first)
        BY <2>5, <3>2 DEF TakePart
      <4>2. part.kind \in SaidKinds /\ part.frag \in Required
        BY <2>5, <3>2 DEF Kinds, SaidKinds
      <4>3. GoogleTook(GoogleText(part, Folded(fold, <<>>)), Sent(part.kind, 0))
        BY <4>2, GoogleTextMoves
      <4>4. Sent(kind, call) = Sent(part.kind, 0)
        BY <2>5, <3>2 DEF call
      <4> QED BY <4>1, <4>3, <4>4 DEF first
    <3> QED BY <3>1, <3>2
  <2>9. PICK t, q : /\ TakePart(part, first) = [st |-> t, events |-> q, failed |-> FALSE]
                    /\ GoogleMove(t, q, Sent(kind, call))
    BY <2>8, Zenon DEF GoogleTook
  <2> DEFINE f == [st |-> t, events |-> q, failed |-> FALSE]
  <2>10. FoldGoogle(ev, fold) = IF reason = "" THEN f
                                ELSE Stopped(f, GoogleStop(ev, f))
    <3>1. Taken(ev.parts, Folded(fold, <<>>), Len(ev.parts)) = f
      BY <2>7, <2>9 DEF first
    <3>2. FoldGoogle(ev, fold)
            = IF ev.reason = "" \/ ev.empty THEN Taken(ev.parts, Folded(fold, <<>>), Len(ev.parts))
              ELSE Stopped(Taken(ev.parts, Folded(fold, <<>>), Len(ev.parts)),
                           GoogleStop(ev, Taken(ev.parts, Folded(fold, <<>>), Len(ev.parts))))
      BY GoogleChunk
    <3> HIDE DEF f
    <3> QED BY <2>4, <3>1, <3>2
  <2>11. CASE reason = ""
    <3>1. Reads(Frame(ev, Sent(kind, call), sv), f)
      BY <2>2, <2>3, <2>9, GoogleMoves
    <3> HIDE DEF f
    <3> QED BY <2>1, <2>6, <2>10, <2>11, <3>1
  <2>12. CASE reason # ""
    <3> DEFINE stop == GoogleStop(ev, f)
               u == [t EXCEPT !.stop = stop]
    <3>1. stop \in Stops \ {"aborted"}
      <4>1. GoogleReason(ev.reason) \in {"stop", "length", "error"}
        BY DEF GoogleReason
      <4>2. stop \in {"toolUse", GoogleReason(ev.reason)}
        BY DEF GoogleStop
      <4> HIDE DEF stop
      <4> QED BY <4>1, <4>2 DEF Stops
    <3> HIDE DEF stop
    <3>2. Stopped(f, stop) = [st |-> u, events |-> q, failed |-> FALSE]
      BY GoogleStopped, Zenon
    <3>3. FoldGoogle(ev, fold) = [st |-> u, events |-> q, failed |-> FALSE]
      BY <2>10, <2>12, <3>2 DEF stop
    <3>4. GoogleMove(u, q, Sent(kind, call))
      BY <2>9, <3>1, GoogleReasoned
    <3> HIDE DEF u, f
    <3>5. Reads(Frame(ev, Sent(kind, call), sv), [st |-> u, events |-> q, failed |-> FALSE])
      BY <2>2, <2>3, <3>4, GoogleMoves
    <3> QED BY <2>1, <2>6, <3>3, <3>5
  <2> QED BY <2>11, <2>12
<1>4. ASSUME NEW reason \in Reasons, frame = GoogleEmpty(reason)
      PROVE  Reads(frame, FoldGoogle(frame.ev, fold))
  <2> DEFINE ev == [parts |-> <<>>, empty |-> TRUE, reason |-> reason]
             sv == [server EXCEPT !.stage = "end", !.reason = reason]
  <2>1. frame = Frame(ev, <<>>, sv)
    BY <1>4 DEF GoogleEmpty
  <2>2. sv \in Servers /\ <<>> \in Seq(Sents)
    <3>1. sv \in Servers
      BY <1>1 DEF Servers
    <3> QED BY <3>1
  <2>3. Len(ev.parts) = 0 /\ ev.empty
    OBVIOUS
  <2> HIDE DEF ev, sv
  <2>4. frame.ev = ev
    BY <2>1 DEF Frame
  <2>5. FoldGoogle(ev, fold) = Folded(fold, <<>>)
    <3>1. FoldGoogle(ev, fold) = Taken(ev.parts, Folded(fold, <<>>), Len(ev.parts))
      BY <2>3, GoogleChunk
    <3> QED BY <2>3, <3>1, TakenOnce
  <2>6. GoogleMove(fold, <<>>, <<>>)
    <3>1. Rests(fold.content, fold.content, view.blocks, <<>>, {}, {})
      BY DEF Rests
    <3>2. log \o <<>> = log
      BY <1>1, ConcatEmptySeq
    <3> QED BY <1>1, <3>1, <3>2, GoogleReady DEF GoogleMove
  <2>7. Reads(Frame(ev, <<>>, sv), [st |-> fold, events |-> <<>>, failed |-> FALSE])
    BY <2>2, <2>6, GoogleMoves
  <2> QED BY <2>1, <2>4, <2>5, <2>7 DEF Folded
<1>5. NoId \in GivenIds /\ <<"given">> \in GivenIds /\ "toolCall" \in Kinds
  BY DEF Kinds, GivenIds
<1> QED BY <1>3, <1>4, <1>5, GoogleSends, Zenon

-----------------------------------------------------------------------------
(* The end of the body: every block that is open is ended.                 *)

\* What the end of the body must leave to the pushes that follow it.
Ends(f) ==
  /\ f.st \in FoldStates /\ f.st.stop # "aborted" /\ f.events \in Seq(Events)
  /\ EndsAll(fold.content, f.st.content, view.blocks, f.events)
  /\ Ledger(f.st.content, log) /\ CallsInPlace(f.st.content)

\* The servers' calls are told apart by their ids.
LEMMA CallIds ==
  \A i, j \in Nat : /\ <<"call", i>> # NoId /\ <<"call", i>>[2] = i
                    /\ <<"call", i>> = <<"call", j>> => i = j
BY DEF NoId

LEMMA AnthropicCloses ==
  ASSUME Ready, provider = "anthropic", ~ (fold.sawStart /\ ~ fold.finished)
  PROVE  Ends(Folded(fold, <<>>)) /\ server.stage \in {"new", "end"}
<1>1. /\ AnthropicTables(fold, server, Closing(fold.content, view.blocks, <<>>))
      /\ fold \in FoldStates /\ fold.stop # "aborted"
  BY DEF Ready, Tables
<1>2. server.stage = "new" \/ server.stage = "end"
  BY <1>1 DEF AnthropicTables
<1>3. \A i \in 1..Len(server.blocks) : ~ server.blocks[i].open
  <2>1. CASE server.stage = "new"
    <3>1. server.blocks = <<>>
      BY <1>1, <2>1 DEF AnthropicTables
    <3> QED BY <3>1
  <2>2. CASE server.stage = "end"
    BY <1>1, <2>2 DEF AnthropicTables
  <2> QED BY <1>2, <2>1, <2>2
<1>4. Len(<<>>) = 0 /\ 1..0 = {} /\ <<>> \in Seq(Events)
  OBVIOUS
<1>5. \A i \in 1..Len(fold.content) : Closed(view.blocks, i)
  <2>1. Len(fold.content) = Len(server.blocks)
    BY <1>1 DEF AnthropicTables
  <2>2. \A i \in 1..Len(server.blocks) : i \in Closing(fold.content, view.blocks, <<>>)
    BY <1>1, <1>3 DEF AnthropicTables
  <2> QED BY <1>4, <2>1, <2>2 DEF Closing
<1>6. EndsAll(fold.content, fold.content, view.blocks, <<>>)
  BY <1>4, <1>5 DEF EndsAll
<1>7. Folded(fold, <<>>).st = fold /\ Folded(fold, <<>>).events = <<>>
  BY DEF Folded
<1>8. Ledger(fold.content, log) /\ AnthropicNames(fold, server)
  BY DEF Ready, Copied, Names
<1>9. CallsInPlace(fold.content)
  <2> DEFINE c == fold.content
             b == server.blocks
             calls == {i \in DOMAIN c : c[i].kind = "toolCall"}
  <2>1. /\ c \in Seq(Blocks) /\ Len(c) \in Nat /\ DOMAIN c = 1..Len(c)
        /\ b \in Seq(Brackets) /\ Len(b) = Len(c) /\ DOMAIN b = 1..Len(c)
    BY <1>1 DEF AnthropicTables, FoldStates
  <2>2. \A i \in 1..Len(c) : c[i].kind = AnthropicKind[b[i].kind] /\ b[i] \in Brackets
    <3>1. \A i \in 1..Len(b) : c[i].kind = AnthropicKind[b[i].kind]
      BY <1>1 DEF AnthropicTables
    <3> HIDE DEF c, b, calls
    <3>2. \A i \in 1..Len(b) : b[i] \in Brackets
      BY <2>1
    <3> QED BY <2>1, <3>1, <3>2
  <2>3. \A i \in 1..Len(c) : c[i].kind = "toolCall" =>
          c[i].id = <<"call", i>> /\ c[i].parse = "final"
    BY <1>3, <1>8, <2>1 DEF AnthropicNames
  <2> HIDE DEF c, b
  <2>4. \A i \in 1..Len(c) : c[i].kind = "toolCall" <=> b[i].kind = "tool_use"
    BY <2>2 DEF AnthropicKind, Brackets
  <2>5. CallsMade = calls
    BY <2>1, <2>4 DEF CallsMade, b
  <2>6. ASSUME NEW i \in calls PROVE i \in Nat /\ CallOf(c, i) = i /\ c[i].id # NoId
    <3>1. i \in Nat /\ c[i].kind = "toolCall" /\ c[i].id = <<"call", i>>
      BY <2>1, <2>3
    <3>2. CallOf(c, i) = c[i].id[2]
      BY <3>1 DEF CallOf
    <3>3. <<"call", i>> # NoId /\ <<"call", i>>[2] = i
      BY <3>1, CallIds
    <3> QED BY <3>1, <3>2, <3>3
  <2>7. \A i, j \in calls : i # j => c[i].id # c[j].id /\ CallOf(c, i) # CallOf(c, j)
    BY <2>1, <2>3, <2>6, CallIds
  <2>8. {CallOf(c, i) : i \in calls} = CallsMade
    BY <2>5, <2>6
  <2>9. CallsInPlace(c)
    BY <2>1, <2>3, <2>6, <2>7, <2>8 DEF CallsInPlace
  <2> QED BY <2>9 DEF c
<1>10. Ends(Folded(fold, <<>>))
  BY <1>1, <1>4, <1>6, <1>7, <1>8, <1>9 DEF Ends
<1> QED BY <1>2, <1>10

LEMMA OpenAICloses ==
  ASSUME Ready, provider = "openai"
  PROVE  Ends(FinalizeOpenAI(fold))
<1> DEFINE c == fold.content
           Known(i) == \E b \in DOMAIN fold.table :
                         /\ fold.table[b].content = i
                         /\ fold.table[b].index # NoIndex \/ fold.table[b].id # NoId
           last(i) == IF c[i].kind = "toolCall" /\ Known(i) THEN [c[i] EXCEPT !.parse = "final"]
                      ELSE c[i]
           d == [i \in DOMAIN c |-> last(i)]
           t == [fold EXCEPT !.content = d]
           q == [i \in DOMAIN t.content |-> Ended(i, t.content[i])]
<1>1. /\ fold \in FoldStates /\ fold.stop # "aborted" /\ c \in Seq(Blocks) /\ Len(c) \in Nat
      /\ \A i \in 1..Len(c) : ~ Closed(view.blocks, i)
  BY OpenAIReady
<1>2. FinalizeOpenAI(fold) = Folded(t, q)
  BY DEF FinalizeOpenAI
<1> HIDE DEF Known
<1>3. ASSUME NEW i \in 1..Len(c)
      PROVE  /\ last(i) \in Blocks /\ last(i).kind = c[i].kind
             /\ last(i).payload = c[i].payload /\ last(i).id = c[i].id
             /\ c[i].kind = "toolCall" /\ Known(i) => last(i).parse = "final"
  <2>1. c[i] \in Blocks
    BY <1>1
  <2>2. "final" \in Parses
    BY DEF Parses
  <2> HIDE DEF c
  <2> QED BY <2>1, <2>2, BlockUpdates
<1> HIDE DEF last
<1>4. DOMAIN c = 1..Len(c)
  BY <1>1
<1>5. d \in Seq(Blocks) /\ Len(d) = Len(c) /\ \A i \in 1..Len(c) : d[i] = last(i)
  <2> HIDE DEF c
  <2>1. d \in [1..Len(c) -> Blocks] /\ \A i \in 1..Len(c) : d[i] = last(i)
    BY <1>3, <1>4
  <2> HIDE DEF d
  <2>2. d \in Seq(Blocks) /\ DOMAIN d = 1..Len(c)
    BY <1>1, <2>1, SeqDef
  <2>3. Len(d) = Len(c)
    <3> DEFINE n == Len(c)
    <3>1. n \in Nat /\ DOMAIN d = 1..n
      BY <1>1, <2>2
    <3> HIDE DEF n
    <3>2. Len(d) \in Nat /\ 1..Len(d) = 1..n
      BY <2>2, <3>1, LenProperties
    <3>3. Len(d) = n
      <4> DEFINE m == Len(d)
      <4>1. m \in Nat /\ 1..m = 1..n
        BY <3>2
      <4> HIDE DEF m
      <4>2. (m >= 1 => m \in 1..n) /\ (n >= 1 => n \in 1..m)
        BY <3>1, <4>1
      <4>3. m = n
        BY <3>1, <4>1, <4>2
      <4> QED BY <4>3 DEF m
    <3> QED BY <3>3 DEF n
  <2> QED BY <2>1, <2>2, <2>3
<1> HIDE DEF d
<1>6. t \in FoldStates /\ t.content = d /\ t.stop = fold.stop
  <2> HIDE DEF c
  <2> QED BY <1>1, <1>5, FoldUpdates
<1> HIDE DEF t
<1>7. /\ q \in Seq(Events) /\ Len(q) = Len(c) /\ \A i \in 1..Len(c) : q[i] = Ended(i, d[i])
  <2>1. \A i \in 1..Len(c) : Ended(i, d[i]) \in Events
    <3>1. \A i \in 1..Len(c) : d[i] \in Blocks /\ i \in Nat \ {0}
      BY <1>1, <1>5
    <3> QED BY <3>1, PayloadsJoin DEF Ended, Events
  <2>2. DOMAIN t.content = 1..Len(c)
    BY <1>5, <1>6
  <2> HIDE DEF c
  <2>3. q \in [1..Len(c) -> Events] /\ \A i \in 1..Len(c) : q[i] = Ended(i, d[i])
    BY <1>6, <2>1, <2>2
  <2> HIDE DEF q
  <2>4. q \in Seq(Events) /\ DOMAIN q = 1..Len(c)
    BY <1>1, <2>3, SeqDef
  <2>5. Len(q) = Len(c)
    BY <1>1, <2>4
  <2> QED BY <2>3, <2>4, <2>5
<1> HIDE DEF q
<1>8. \A n \in 1..Len(q) : q[n].type = "end" /\ q[n].index = n /\ q[n].block = d[n]
  <2>1. \A n \in 1..Len(q) : q[n] = Ended(n, d[n])
    BY <1>7
  <2> QED BY <2>1, EventFields
<1>9. EndsAll(c, d, view.blocks, q)
  <2>1. \A j \in 1..Len(c) : d[j].kind = c[j].kind /\ d[j].payload = c[j].payload
    BY <1>3, <1>5
  <2>2. \A j \in 1..Len(c) : \E n \in 1..Len(q) : q[n].index = j
    BY <1>7, <1>8
  <2> HIDE DEF c
  <2>3. Len(d) = Len(c) /\ Len(q) = Len(c) /\ \A j \in 1..Len(c) : ~ Closed(view.blocks, j)
    BY <1>1, <1>5, <1>7
  <2>4. \A n \in 1..Len(q) : /\ q[n].type = "end" /\ q[n].index \in 1..Len(c)
                             /\ ~ Closed(view.blocks, q[n].index) /\ q[n].block = d[q[n].index]
    BY <1>8, <2>3
  <2>5. \A m, n \in 1..Len(q) : m < n => q[m].index # q[n].index
    BY <1>1, <1>8, <2>3
  <2> QED BY <2>1, <2>2, <2>3, <2>4, <2>5 DEF EndsAll
<1>10. Folded(t, q).st = t /\ Folded(t, q).events = q
  BY DEF Folded
<1>11. /\ Ledger(c, log) /\ OpenAINames(fold, server) /\ log \in Seq(Sents)
       /\ OpenAITables(fold, server, {}) /\ server.blocks \in Seq(BOOLEAN)
  BY OpenAIReady DEF Ready, Copied, Names
<1>12. /\ \A b \in 1..Len(fold.table) : CallOf(c, fold.table[b].content) = b
       /\ \A i, j \in 1..Len(c) : c[i].kind = c[j].kind /\ CallOf(c, i) = CallOf(c, j) => i = j
  BY <1>1, <1>11, OpenAICallOf
<1>13. \A i \in 1..Len(c) : d[i].kind = c[i].kind /\ d[i].payload = c[i].payload
                            /\ d[i].id = c[i].id /\ CallOf(d, i) = CallOf(c, i)
  BY <1>3, <1>5 DEF CallOf
<1>14. Ledger(d, log)
  <2> HIDE DEF c
  <2> QED BY <1>5, <1>11, <1>13, LedgerStays
\* Every call is registered.
<1>15. \A i \in 1..Len(c) : c[i].kind = "toolCall" =>
         \E b \in 1..Len(fold.table) :
           /\ fold.table[b].content = i /\ fold.table[b].id = <<"call", b>>
           /\ c[i].id = <<"call", b>> /\ CallOf(c, i) = b
  <2> SUFFICES ASSUME NEW i \in 1..Len(c), c[i].kind = "toolCall"
               PROVE  \E b \in 1..Len(fold.table) :
                        /\ fold.table[b].content = i /\ fold.table[b].id = <<"call", b>>
                        /\ c[i].id = <<"call", b>> /\ CallOf(c, i) = b
    OBVIOUS
  <2>1. PICK b \in 1..Len(fold.table) : fold.table[b].content = i
    BY <1>11 DEF OpenAINames
  <2>2. fold.table[b].id = <<"call", b>> /\ c[fold.table[b].content].id = <<"call", b>>
    BY <1>11 DEF OpenAINames
  <2>3. CallOf(c, fold.table[b].content) = b
    BY <1>12
  <2> HIDE DEF c
  <2> QED BY <2>1, <2>2, <2>3
<1>16. fold.table \in Seq(StreamedCalls) /\ Len(fold.table) \in Nat
       /\ DOMAIN fold.table = 1..Len(fold.table)
  BY OpenAIReady
<1>17. CallsInPlace(d)
  <2> DEFINE calls == {i \in DOMAIN d : d[i].kind = "toolCall"}
             r == fold.table
  <2>1. DOMAIN d = 1..Len(c)
    BY <1>5
  <2>2. \A i \in calls : i \in 1..Len(c) /\ c[i].kind = "toolCall" /\ d[i].id = c[i].id
    BY <1>13, <2>1
  <2>3. \A i \in calls : \E b \in 1..Len(r) : /\ r[b].content = i /\ r[b].id = <<"call", b>>
                                              /\ d[i].id = <<"call", b>> /\ CallOf(d, i) = b
    BY <1>13, <1>15, <2>2
  <2>4. \A i \in calls : d[i].parse = "final"
    <3> SUFFICES ASSUME NEW i \in calls PROVE d[i].parse = "final"
      OBVIOUS
    <3>1. PICK b \in 1..Len(r) : r[b].content = i /\ r[b].id = <<"call", b>>
      BY <2>3
    <3>2. r[b].id # NoId
      BY <1>16, <3>1, CallIds
    <3>3. Known(i)
      BY <1>16, <3>1, <3>2 DEF Known
    <3> QED BY <1>3, <1>5, <2>2, <3>3
  <2>5. ASSUME NEW i \in calls PROVE d[i].id # NoId
    <3>1. PICK b \in 1..Len(r) : d[i].id = <<"call", b>>
      BY <2>3
    <3> QED BY <1>16, <3>1, CallIds
  <2>6. \A i, j \in calls : i # j => d[i].id # d[j].id /\ CallOf(d, i) # CallOf(d, j)
    <3> SUFFICES ASSUME NEW i \in calls, NEW j \in calls, i # j
                 PROVE  d[i].id # d[j].id /\ CallOf(d, i) # CallOf(d, j)
      OBVIOUS
    <3>1. CallOf(d, i) # CallOf(d, j)
      BY <1>12, <1>13, <2>2
    <3>2. PICK a \in 1..Len(r) : d[i].id = <<"call", a>> /\ CallOf(d, i) = a
      BY <2>3
    <3>3. PICK b \in 1..Len(r) : d[j].id = <<"call", b>> /\ CallOf(d, j) = b
      BY <2>3
    <3> QED BY <1>16, <3>1, <3>2, <3>3, CallIds
  <2>7. {CallOf(d, i) : i \in calls} = 1..Len(r)
    <3>1. \A i \in calls : CallOf(d, i) \in 1..Len(r)
      BY <2>3
    <3>2. \A b \in 1..Len(r) : r[b].content \in 1..Len(c) /\ c[r[b].content].kind = "toolCall"
      BY <1>1, <1>11, CallKnown
    <3>3. \A b \in 1..Len(r) : r[b].content \in calls /\ CallOf(d, r[b].content) = b
      BY <1>12, <1>13, <2>1, <3>2
    <3> HIDE DEF calls
    <3> QED BY <3>1, <3>3
  <2>8. CallsMade = 1..Len(r)
    BY <1>11, <1>16 DEF CallsMade, OpenAINames
  <2> HIDE DEF r
  <2> QED BY <2>4, <2>5, <2>6, <2>7, <2>8 DEF CallsInPlace
<1>18. Ends(Folded(t, q))
  BY <1>1, <1>6, <1>7, <1>9, <1>10, <1>14, <1>17 DEF Ends
<1> QED BY <1>2, <1>18

\* The end events of the first blocks of c, in order: of those that are not calls.
EndsOf(c, q, n) ==
  /\ \A m \in 1..Len(q) : /\ q[m].type = "end" /\ q[m].index \in 1..n
                          /\ q[m].block = c[q[m].index] /\ q[m].block.kind # "toolCall"
  /\ \A l, m \in 1..Len(q) : l < m => q[l].index # q[m].index
  /\ \A j \in 1..n : c[j].kind = "toolCall" \/ \E m \in 1..Len(q) : q[m].index = j

Endings(c) ==
  LET ended[n \in 0..Len(c)] ==
        IF n = 0 THEN <<>>
        ELSE IF c[n].kind = "toolCall" THEN ended[n - 1]
        ELSE Append(ended[n - 1], Ended(n, c[n]))
  IN ended[Len(c)]

LEMMA EndingsEnd ==
  ASSUME NEW c \in Seq(Blocks)
  PROVE  Endings(c) \in Seq(Events) /\ EndsOf(c, Endings(c), Len(c))
<1> DEFINE N == Len(c)
           V == Seq(Events)
           After(n, q) == IF c[n].kind = "toolCall" THEN q ELSE Append(q, Ended(n, c[n]))
           step == [x \in (1..N) \X V |-> After(x[1], x[2])]
           ended[n \in 0..N] ==
             IF n = 0 THEN <<>>
             ELSE IF c[n].kind = "toolCall" THEN ended[n - 1]
             ELSE Append(ended[n - 1], Ended(n, c[n]))
<1>1. N \in Nat /\ <<>> \in V
  OBVIOUS
<1>2. \A n \in 1..N : c[n] \in Blocks /\ Ended(n, c[n]) \in Events
  <2>1. \A n \in 1..N : c[n] \in Blocks /\ n \in Nat \ {0}
    BY <1>1
  <2> QED BY <2>1, PayloadsJoin DEF Ended, Events
<1>3. \A n \in 1..N : \A q \in V : After(n, q) \in V
  BY <1>2
<1>4. step \in [(1..N) \X V -> V] /\ \A n \in 1..N : \A q \in V : step[<<n, q>>] = After(n, q)
  <2> HIDE DEF After, V, N
  <2> QED BY <1>3
<1> HIDE DEF step
<1>5. PICK f \in [0..N -> V] : Solves(f, <<>>, step, N)
  <2> HIDE DEF V, N
  <2> QED BY <1>1, <1>4, RecursionExists
<1>6. /\ f[0] = <<>>
      /\ \A n \in 1..N : f[n] = After(n, f[n - 1]) /\ f[n - 1] \in V /\ f[n] \in V
  <2>1. \A n \in 1..N : n - 1 \in 0..N /\ n \in 0..N
    BY <1>1
  <2> HIDE DEF V, N, After
  <2> QED BY <1>4, <1>5, <2>1 DEF Solves
<1>7. f = [n \in 0..N |-> IF n = 0 THEN <<>>
                          ELSE IF c[n].kind = "toolCall" THEN f[n - 1]
                          ELSE Append(f[n - 1], Ended(n, c[n]))]
  <2>1. ASSUME NEW n \in 0..N
        PROVE  f[n] = IF n = 0 THEN <<>> ELSE After(n, f[n - 1])
    <3>1. n = 0 \/ n \in 1..N
      BY <1>1
    <3> HIDE DEF After, N
    <3> QED BY <1>6, <3>1
  <2>2. f = [n \in 0..N |-> f[n]]
    OBVIOUS
  <2> HIDE DEF N, V
  <2> QED BY <2>1, <2>2
<1>8. ended = [n \in 0..N |-> IF n = 0 THEN <<>>
                              ELSE IF c[n].kind = "toolCall" THEN ended[n - 1]
                              ELSE Append(ended[n - 1], Ended(n, c[n]))]
  <2> HIDE DEF N
  <2> QED BY <1>7
<1> HIDE DEF ended
<1>9. \A n \in 0..N : ended[n] = f[n]
  <2>1. ended[0] = <<>> /\ \A n \in 1..N : ended[n] = After(n, ended[n - 1])
    <3>1. \A n \in 0..N : ended[n] = IF n = 0 THEN <<>> ELSE After(n, ended[n - 1])
      <4> HIDE DEF N
      <4> QED BY <1>8
    <3>2. 0 \in 0..N /\ \A n \in 1..N : n \in 0..N /\ n # 0
      BY <1>1
    <3> HIDE DEF N, After
    <3> QED BY <3>1, <3>2
  <2>2. Alike(ended, f, N)
    <3> HIDE DEF N, After
    <3> QED BY <1>6, <2>1 DEF Alike
  <2> HIDE DEF N
  <2> QED BY <1>1, <2>2, SameRecurrence
<1> DEFINE Wrong == {n \in 0..N : ~ EndsOf(c, f[n], n)}
<1>10. Wrong = {}
  <2> SUFFICES ASSUME Wrong # {} PROVE FALSE
    OBVIOUS
  <2>1. Wrong \subseteq Nat
    BY <1>1
  <2>2. PICK n \in Wrong : \A m \in Wrong : n <= m
    <3> HIDE DEF Wrong
    <3> QED BY <2>1, NatMin
  <2>3. n \in 0..N /\ ~ EndsOf(c, f[n], n)
    BY <2>2
  <2>4. CASE n = 0
    <3>1. Len(<<>>) = 0 /\ 1..0 = {}
      OBVIOUS
    <3>2. EndsOf(c, <<>>, 0)
      BY <3>1 DEF EndsOf
    <3> QED BY <1>6, <2>3, <2>4, <3>2
  <2>5. CASE n # 0
    <3> DEFINE q == f[n - 1]
    <3>1. n \in 1..N /\ n - 1 \in 0..N /\ n - 1 \notin Wrong
      BY <1>1, <2>2, <2>3, <2>5
    <3>2. EndsOf(c, q, n - 1)
      BY <3>1
    <3>3. f[n] = After(n, q) /\ q \in V
      BY <1>6, <3>1
    <3>4. \A j \in 1..n : j = n \/ j \in 1..n - 1
      BY <1>1, <3>1
    <3>5. \A j \in 1..n - 1 : j \in 1..n /\ j # n
      BY <1>1, <3>1
    <3>6. CASE c[n].kind = "toolCall"
      <4>1. f[n] = q
        BY <3>3, <3>6
      <4> HIDE DEF q, Wrong, N, V
      <4>2. EndsOf(c, q, n)
        BY <3>2, <3>4, <3>5, <3>6 DEF EndsOf
      <4> QED BY <2>3, <4>1, <4>2
    <3>7. CASE c[n].kind # "toolCall"
      <4> DEFINE e == Ended(n, c[n])
                 r == Append(q, e)
      <4>1. f[n] = r
        BY <3>3, <3>7
      <4>2. e.type = "end" /\ e.index = n /\ e.block = c[n] /\ e \in Events
        BY <1>2, <3>1 DEF Ended
      <4> HIDE DEF q, Wrong, N, e
      <4>3. /\ Len(q) \in Nat /\ Len(r) = Len(q) + 1 /\ r[Len(q) + 1] = e
            /\ \A m \in 1..Len(q) : r[m] = q[m]
        BY <3>3, <4>2, AppendProperties
      <4> HIDE DEF r
      <4>4. \A m \in 1..Len(r) : m = Len(r) \/ m \in 1..Len(q)
        BY <4>3
      <4>5. \A m \in 1..Len(r) : /\ r[m].type = "end" /\ r[m].index \in 1..n
                                 /\ r[m].block = c[r[m].index] /\ r[m].block.kind # "toolCall"
        <5>1. \A m \in 1..Len(q) : /\ r[m].type = "end" /\ r[m].index \in 1..n - 1
                                   /\ r[m].block = c[r[m].index] /\ r[m].block.kind # "toolCall"
          BY <3>2, <4>3 DEF EndsOf
        <5>2. n \in 1..n
          BY <3>1, <1>1 DEF N
        <5> QED BY <3>5, <3>7, <4>2, <4>3, <4>4, <5>1, <5>2
      <4>6. \A l, m \in 1..Len(r) : l < m => r[l].index # r[m].index
        <5> SUFFICES ASSUME NEW l \in 1..Len(r), NEW m \in 1..Len(r), l < m
                     PROVE  r[l].index # r[m].index
          OBVIOUS
        <5>1. l \in 1..Len(q)
          BY <4>3
        <5>2. r[l].index \in 1..n - 1
          BY <3>2, <4>3, <5>1 DEF EndsOf
        <5>3. CASE m = Len(r)
          BY <3>5, <4>2, <4>3, <5>2, <5>3
        <5>4. CASE m \in 1..Len(q)
          BY <3>2, <4>3, <5>1, <5>4 DEF EndsOf
        <5> QED BY <4>4, <5>3, <5>4
      <4>7. \A j \in 1..n : c[j].kind = "toolCall" \/ \E m \in 1..Len(r) : r[m].index = j
        <5> SUFFICES ASSUME NEW j \in 1..n, c[j].kind # "toolCall"
                     PROVE  \E m \in 1..Len(r) : r[m].index = j
          OBVIOUS
        <5>1. \A m \in 1..Len(q) : m \in 1..Len(r)
          BY <4>3
        <5>2. Len(r) \in 1..Len(r) /\ r[Len(r)] = e
          BY <4>3
        <5>3. CASE j = n
          BY <4>2, <5>2, <5>3
        <5>4. CASE j \in 1..n - 1
          <6>1. PICK m \in 1..Len(q) : q[m].index = j
            BY <3>2, <5>4 DEF EndsOf
          <6> QED BY <4>3, <5>1, <6>1
        <5> QED BY <3>4, <5>3, <5>4
      <4>8. EndsOf(c, r, n)
        BY <4>5, <4>6, <4>7 DEF EndsOf
      <4> QED BY <2>3, <4>1, <4>8
    <3> QED BY <3>6, <3>7
  <2> QED BY <2>4, <2>5
<1>11. N \in 0..N
  BY <1>1
<1>12. ended[N] = f[N] /\ f[N] \in V /\ EndsOf(c, f[N], N)
  <2> HIDE DEF V, N
  <2> QED BY <1>5, <1>9, <1>10, <1>11
<1> QED BY <1>12 DEF Endings, ended

LEMMA GoogleCloses ==
  ASSUME Ready, provider = "google"
  PROVE  Ends(FinalizeGoogle(fold))
<1> DEFINE c == fold.content
           t == [fold EXCEPT !.current = 0]
           q == Endings(c)
<1>1. /\ fold \in FoldStates /\ fold.stop # "aborted" /\ c \in Seq(Blocks) /\ Len(c) \in Nat
      /\ \A i \in 1..Len(c) : c[i].kind = "toolCall" <=> Closed(view.blocks, i)
  BY GoogleReady DEF GoogleTables
<1>2. FinalizeGoogle(fold) = Folded(t, q)
  BY DEF FinalizeGoogle, Endings
<1>3. q \in Seq(Events) /\ EndsOf(c, q, Len(c))
  <2> HIDE DEF c
  <2> QED BY <1>1, EndingsEnd
<1>4. t \in FoldStates /\ t.content = c /\ t.stop = fold.stop
  BY <1>1 DEF FoldStates
<1> HIDE DEF t, q
<1>5. EndsAll(c, c, view.blocks, q)
  <2> HIDE DEF c
  <2>1. \A n \in 1..Len(q) : /\ q[n].type = "end" /\ q[n].index \in 1..Len(c)
                             /\ ~ Closed(view.blocks, q[n].index) /\ q[n].block = c[q[n].index]
    BY <1>1, <1>3 DEF EndsOf
  <2>2. \A m, n \in 1..Len(q) : m < n => q[m].index # q[n].index
    BY <1>3 DEF EndsOf
  <2>3. \A j \in 1..Len(c) : Closed(view.blocks, j) \/ \E n \in 1..Len(q) : q[n].index = j
    BY <1>1, <1>3 DEF EndsOf
  <2> QED BY <2>1, <2>2, <2>3 DEF EndsAll
<1>6. Folded(t, q).st = t /\ Folded(t, q).events = q
  BY DEF Folded
<1>7. Ledger(c, log) /\ GoogleNames(fold) /\ log \in Seq(Sents)
  BY GoogleReady
<1>8. CallsInPlace(c)
  <2> DEFINE calls == {i \in DOMAIN c : c[i].kind = "toolCall"}
             F(i) == c[i].payload[1]
  <2>1. DOMAIN c = 1..Len(c) /\ DOMAIN log = 1..Len(log)
    BY <1>1, <1>7
  <2>2. \A i \in 1..Len(c) : c[i].kind = "toolCall" =>
          c[i].id \in fold.ids /\ c[i].parse = "given" /\ Len(c[i].payload) = 1
    BY <1>7 DEF GoogleNames
  <2>3. \A i, j \in 1..Len(c) :
          c[i].kind = "toolCall" /\ c[j].kind = "toolCall" /\ i # j => c[i].id # c[j].id
    BY <1>7 DEF GoogleNames
  <2>4. NoId \notin fold.ids
    BY <1>7 DEF GoogleNames
  <2> HIDE DEF c
  <2>5. \A i \in calls : /\ i \in 1..Len(c) /\ c[i].kind = "toolCall" /\ CallOf(c, i) = F(i)
                         /\ 1 \in 1..Len(c[i].payload)
    BY <2>1, <2>2 DEF CallOf
  <2>6. ASSUME NEW i \in calls PROVE F(i) \in 1..Len(log) /\ log[F(i)].kind = "toolCall"
    <3>1. i \in 1..Len(c) /\ c[i].kind = "toolCall" /\ 1 \in 1..Len(c[i].payload)
      BY <2>5
    <3>2. F(i) \in 1..Len(log) /\ log[F(i)] = [kind |-> c[i].kind, call |-> CallOf(c, i)]
      BY <1>7, <3>1 DEF Ledger
    <3> QED BY <3>1, <3>2
  <2>7. ASSUME NEW n \in 1..Len(log), log[n].kind = "toolCall" PROVE \E i \in calls : F(i) = n
    <3>1. PICK i \in 1..Len(c) : \E m \in 1..Len(c[i].payload) : c[i].payload[m] = n
      BY <1>7 DEF Ledger
    <3>2. PICK m \in 1..Len(c[i].payload) : c[i].payload[m] = n
      BY <3>1
    <3>3. log[n] = [kind |-> c[i].kind, call |-> CallOf(c, i)]
      BY <1>7, <3>2 DEF Ledger
    <3>4. c[i].kind = "toolCall"
      BY <2>7, <3>3
    <3>5. m = 1
      BY <2>2, <3>2, <3>4
    <3> QED BY <2>1, <3>2, <3>4, <3>5
  <2>8. CallsMade = {n \in 1..Len(log) : log[n].kind = "toolCall"}
    BY <2>1 DEF CallsMade
  <2>9. {CallOf(c, i) : i \in calls} = CallsMade
    <3> HIDE DEF F, calls
    <3> QED BY <2>5, <2>6, <2>7, <2>8
  <2>10. \A i, j \in calls : i # j => CallOf(c, i) # CallOf(c, j)
    <3>1. ASSUME NEW i \in calls, NEW j \in calls, i < j PROVE CallOf(c, i) # CallOf(c, j)
      <4>1. CASE CallOf(c, i) = CallOf(c, j)
        <5>1. F(i) < F(j)
          BY <1>7, <2>5, <3>1, <4>1 DEF Ledger
        <5>2. F(i) \in Nat /\ F(i) = F(j)
          BY <2>5, <2>6, <4>1
        <5> HIDE DEF F
        <5> QED BY <5>1, <5>2
      <4> QED BY <4>1
    <3>2. \A i \in calls : i \in Nat
      BY <2>5
    <3> HIDE DEF calls
    <3> QED BY <3>1, <3>2
  <2>11. \A i \in calls : c[i].id # NoId /\ c[i].parse = "given"
    BY <2>2, <2>4, <2>5
  <2>12. \A i, j \in calls : i # j => c[i].id # c[j].id
    BY <2>3, <2>5
  <2> QED BY <2>9, <2>10, <2>11, <2>12 DEF CallsInPlace
<1>9. Ends(Folded(t, q))
  BY <1>1, <1>3, <1>4, <1>5, <1>6, <1>7, <1>8 DEF Ends
<1> QED BY <1>2, <1>9

-----------------------------------------------------------------------------
(* The steps of the request.                                               *)

\* Nothing was pushed before the answer, and nothing is withheld yet.
LEMMA NothingYet ==
  ASSUME NEW c \in Seq(Blocks), c = <<>>, NEW w
  PROVE  ViewOK(c, <<>>, <<>>, w) /\ Closing(c, <<>>, <<>>) = {}
<1>1. Len(c) = 0 /\ Len(<<>>) = 0 /\ 1..0 = {}
  OBVIOUS
<1> QED BY <1>1 DEF ViewOK, QueueOK, Closing

LEMMA StreamStarts ==
  ASSUME Init, StreamAssumption
  PROVE  StreamInv
<1>1. fold \in FoldStates /\ fold.content = <<>> /\ fold.content \in Seq(Blocks)
      /\ fold.table = <<>> /\ fold.current = 0 /\ fold.stop = "stop" /\ fold.ids = {}
      /\ ~ fold.finished /\ ~ fold.sawStart
  <2>1. fold = NewFold /\ <<>> \in Seq(Blocks) /\ <<>> \in Seq(Registered) /\ {} \in SUBSET Ids
    BY DEF Init
  <2> QED BY <2>1 DEF NewFold, FoldStates, Stops
<1>2. server \in Servers /\ server.blocks = <<>> /\ server.stage = "new"
  <2>1. <<>> \in Seq(Brackets) /\ server = NewServer
    BY DEF Init
  <2> QED BY <2>1 DEF NewServer, Servers
<1>3. /\ view \in Views /\ view.blocks = <<>> /\ ~ view.started /\ view.terminal = "none"
      /\ queue = <<>> /\ queue \in Seq(Events) /\ log \in Seq(Sents) /\ pc = "prepare"
      /\ cancelled = FALSE /\ idle = "armed" /\ failure = "none"
  <2>1. <<>> \in Seq(ViewBlocks) /\ <<>> \in Seq(Events) /\ <<>> \in Seq(Sents)
    OBVIOUS
  <2> QED BY <2>1 DEF Init, Views
<1>4. provider \in {"anthropic", "openai", "google"}
  BY DEF Init, StreamAssumption
<1>5. TypeInv
  BY <1>1, <1>2, <1>3, <1>4 DEF TypeInv
<1>6. /\ ViewOK(fold.content, view.blocks, queue, Withheld)
      /\ Closing(fold.content, view.blocks, queue) = {}
  BY <1>1, <1>3, NothingYet
<1>7. Len(<<>>) = 0 /\ 1..0 = {} /\ <<>> \in Seq(Registered) /\ <<>> \in Seq(StreamedCalls)
      /\ <<>> \in Seq(Brackets) /\ <<>> \in Seq(BOOLEAN)
  OBVIOUS
<1>8. Tables(fold, server, {})
  BY <1>1, <1>2, <1>7 DEF Tables, AnthropicTables, OpenAITables, GoogleTables
<1>9. ~ Finished
  BY <1>3 DEF Finished, DoneReasons
<1>10. RequestInv /\ TerminalIsTrue
  BY <1>1, <1>3, <1>9 DEF RequestInv, TerminalIsTrue, NoTruncatedDone, AbortIsTheCallers
<1>11. Ledger(fold.content, log)
  <2>1. log = <<>>
    BY DEF Init
  <2> QED BY <1>1, <1>7, <2>1 DEF Ledger
<1>12. Names(fold, server)
  BY <1>1, <1>2, <1>7 DEF Names, AnthropicNames, OpenAINames, GoogleNames
<1>13. CopyInv
  BY <1>3, <1>9, <1>11, <1>12 DEF CopyInv, Copied
<1> QED BY <1>5, <1>6, <1>8, <1>10, <1>13 DEF StreamInv

\* The message holds what it held, as long as nothing is read.
LEMMA CopyStays ==
  ASSUME UNCHANGED <<provider, server, log>>, fold'.content = fold.content
  PROVE  /\ Ledger(fold.content, log) => Ledger(fold.content, log)'
         /\ CallsInPlace(fold.content) => CallsInPlace(fold.content)'
         /\ fold' = fold => (Copied(fold, server, log) => Copied(fold, server, log)')
<1>1. Ledger(fold.content, log) => Ledger(fold.content, log)'
  BY DEF Ledger, CallOf
<1>2. CallsInPlace(fold.content) => CallsInPlace(fold.content)'
  BY DEF CallsInPlace, CallOf, CallsMade
<1>3. fold' = fold => (Names(fold, server) => Names(fold, server)')
  BY DEF Names
<1> QED BY <1>1, <1>2, <1>3 DEF Copied

\* The invariant, as long as only the control moves.
LEMMA ControlKeeps ==
  ASSUME StreamInv, TypeInv', RequestInv', TerminalIsTrue',
         UNCHANGED <<fold, view, queue, server, log, provider>>,
         pc' = pc \/ (pc \notin {"closing", "over"} /\ pc' \notin {"closing", "over"})
  PROVE  StreamInv'
<1>1. Withheld' = Withheld
  BY DEF Withheld, Redacted
<1>2. ViewOK(fold.content, view.blocks, queue, Withheld)'
  BY <1>1 DEF StreamInv
<1>3. (pc \notin {"closing", "over"} =>
         Tables(fold, server, Closing(fold.content, view.blocks, queue)))'
  BY DEF StreamInv, Tables
<1>4. Finished' = Finished /\ fold'.content = fold.content
  BY DEF Finished
<1>5. CopyInv'
  BY <1>4, CopyStays DEF StreamInv, CopyInv
<1> QED BY <1>2, <1>3, <1>5 DEF StreamInv

\* The caller and the watchdog.
LEMMA CancelKeeps ==
  ASSUME StreamInv, Cancel \/ WatchdogFires \/ WatchdogCancels
  PROVE  StreamInv'
<1>1. /\ UNCHANGED <<provider, pc, fold, queue, failure, message, view, server, log>>
      /\ cancelled' \in BOOLEAN /\ (cancelled => cancelled')
  BY DEF StreamInv, TypeInv, Cancel, WatchdogFires, WatchdogCancels, run
<1>2. idle' \in {"armed", "fired", "cancelled"} /\ (idle # "armed" => idle' # "armed")
  BY DEF StreamInv, TypeInv, Cancel, WatchdogFires, WatchdogCancels
<1>3. TypeInv /\ RequestInv /\ TerminalIsTrue
  BY DEF StreamInv
<1>4. TypeInv'
  BY <1>1, <1>2, <1>3 DEF TypeInv
<1>5. Finished' = Finished
  BY <1>1 DEF Finished
<1>6. RequestInv'
  BY <1>1, <1>2, <1>3, <1>5 DEF RequestInv
<1>7. TerminalIsTrue'
  BY <1>1, <1>2, <1>3, <1>5 DEF TerminalIsTrue, NoTruncatedDone, AbortIsTheCallers
<1> QED BY <1>1, <1>4, <1>6, <1>7, ControlKeeps

\* A request that fails has nothing left to push.
LEMMA FailsKeep ==
  ASSUME StreamInv, NEW why \in {"refused", "transport", "truncated"}, FailWith(why),
         pc \in {"prepare", "request", "read"}, queue = <<>>
  PROVE  StreamInv'
<1>1. /\ UNCHANGED <<fold, view, queue, server, provider, cancelled, idle, log>>
      /\ failure' = why /\ pc' = "classify"
  BY DEF FailWith
<1>2. TypeInv /\ RequestInv /\ TerminalIsTrue
  BY DEF StreamInv
<1>3. TypeInv'
  BY <1>1, <1>2 DEF TypeInv
<1>4. ~ Finished'
  <2>1. view.terminal = "none"
    BY <1>2 DEF RequestInv
  <2> QED BY <1>1, <2>1 DEF Finished, DoneReasons
<1>5. RequestInv'
  BY <1>1, <1>2, <1>4 DEF RequestInv
<1>6. TerminalIsTrue'
  <2>1. view'.terminal = "none"
    BY <1>1, <1>2 DEF RequestInv
  <2> QED BY <1>4, <2>1 DEF TerminalIsTrue, NoTruncatedDone, AbortIsTheCallers
<1> QED BY <1>1, <1>3, <1>5, <1>6, ControlKeeps

LEMMA PrepareKeeps ==
  ASSUME StreamInv, Prepare
  PROVE  StreamInv'
<1>1. pc = "prepare" /\ queue = <<>> /\ view.terminal = "none"
  BY DEF Prepare, StreamInv, RequestInv
<1>2. CASE FailWith("refused")
  BY <1>1, <1>2, FailsKeep
<1>3. CASE Goto("request")
  <2>1. /\ UNCHANGED <<fold, view, queue, server, provider, cancelled, idle, log, failure>>
        /\ pc' = "request"
    BY <1>3 DEF Goto, run
  <2>2. TypeInv /\ RequestInv
    BY DEF StreamInv
  <2>3. TypeInv'
    BY <2>1, <2>2 DEF TypeInv
  <2>4. ~ Finished'
    BY <1>1, <2>1 DEF Finished, DoneReasons
  <2>5. RequestInv'
    BY <1>1, <2>1, <2>2, <2>4 DEF RequestInv
  <2>6. TerminalIsTrue'
    BY <1>1, <2>1, <2>4 DEF TerminalIsTrue, NoTruncatedDone, AbortIsTheCallers
  <2> QED BY <1>1, <2>1, <2>3, <2>5, <2>6, ControlKeeps
<1> QED BY <1>2, <1>3 DEF Prepare

LEMMA RespondKeeps ==
  ASSUME StreamInv, Respond
  PROVE  StreamInv'
<1>1. pc = "request" /\ queue = <<>> /\ view.terminal = "none" /\ failure = "none"
  BY DEF Respond, StreamInv, RequestInv
<1>2. CASE FailWith("refused")
  BY <1>1, <1>2, FailsKeep
<1>3. CASE ~ FailWith("refused")
  <2>1. /\ pc' = "read" /\ view' = [view EXCEPT !.started = TRUE]
        /\ UNCHANGED <<provider, cancelled, idle, fold, queue, failure, message, server, log>>
    BY <1>3 DEF Respond
  <2>2. TypeInv /\ RequestInv
    BY DEF StreamInv
  <2>3. view' \in Views /\ view'.started /\ view'.blocks = view.blocks /\ view'.terminal = "none"
    BY <1>1, <2>1, <2>2 DEF TypeInv, Views
  <2>4. TypeInv'
    BY <2>1, <2>2, <2>3 DEF TypeInv
  <2>5. ~ Finished'
    BY <2>3 DEF Finished, DoneReasons
  <2>6. RequestInv'
    BY <1>1, <2>1, <2>2, <2>3, <2>5 DEF RequestInv
  <2>7. TerminalIsTrue'
    BY <2>3, <2>5 DEF TerminalIsTrue, NoTruncatedDone, AbortIsTheCallers
  <2>8. ViewOK(fold.content, view.blocks, queue, Withheld)'
    BY <2>1, <2>3 DEF StreamInv, Withheld, Redacted
  <2>9. Tables(fold, server, Closing(fold.content, view.blocks, queue))'
    BY <1>1, <2>1, <2>3 DEF StreamInv, Tables
  <2>10. CopyInv'
    BY <1>1, <2>1, <2>5, CopyStays DEF StreamInv, CopyInv
  <2> QED BY <2>4, <2>6, <2>7, <2>8, <2>9, <2>10 DEF StreamInv
<1> QED BY <1>2, <1>3

\* A frame is folded.
LEMMA ReceiveKeeps ==
  ASSUME StreamInv, MayRead, NEW frame, NEW f, Reads(frame, f), Receive(frame, f)
  PROVE  StreamInv'
<1>1. /\ pc = "read" /\ queue = <<>> /\ view.terminal = "none" /\ failure = "none" /\ view.started
  BY DEF MayRead, StreamInv, RequestInv
<1>2. /\ fold' = f.st /\ queue' = f.events
      /\ failure' = IF f.failed THEN "transport" ELSE failure
      /\ pc' = IF f.failed THEN "classify" ELSE "read"
      /\ server' = frame.next /\ log' = log \o frame.sent
      /\ UNCHANGED <<provider, cancelled, idle, message, view>>
  BY DEF Receive
<1>3. /\ f.st \in FoldStates /\ f.st.stop # "aborted"
      /\ f.events \in Seq(Events) /\ f.failed \in BOOLEAN /\ (f.failed => f.events = <<>>)
      /\ frame.next \in Servers /\ frame.sent \in Seq(Sents)
  BY DEF Reads
<1>4. TypeInv /\ RequestInv /\ log \in Seq(Sents)
  BY DEF StreamInv, TypeInv
<1>5. log' \in Seq(Sents)
  BY <1>2, <1>3, <1>4
<1>6. TypeInv'
  BY <1>1, <1>2, <1>3, <1>4, <1>5 DEF TypeInv
<1>7. ~ Finished'
  BY <1>1, <1>2 DEF Finished, DoneReasons
<1>8. RequestInv'
  <2>1. CASE f.failed
    BY <1>1, <1>2, <1>3, <1>7, <2>1 DEF RequestInv
  <2>2. CASE ~ f.failed
    BY <1>1, <1>2, <1>3, <1>7, <2>2 DEF RequestInv
  <2> QED BY <2>1, <2>2
<1>9. TerminalIsTrue'
  BY <1>1, <1>2, <1>7 DEF TerminalIsTrue, NoTruncatedDone, AbortIsTheCallers
<1>10. ViewOK(fold.content, view.blocks, queue, Withheld)'
  BY <1>2 DEF Reads, Withheld, Redacted
<1>11. Tables(fold, server, Closing(fold.content, view.blocks, queue))'
  BY <1>2 DEF Reads, Tables
<1>12. Copied(fold, server, log)'
  <2>1. /\ fold' = f.st /\ server' = frame.next /\ log' = log \o frame.sent
        /\ provider' = provider
    BY <1>2
  <2>2. Ledger(f.st.content, log \o frame.sent) /\ Names(f.st, frame.next)
    BY DEF Reads, Copied
  <2>3. Ledger(fold.content, log)'
    <3> DEFINE l == log \o frame.sent
               c == f.st.content
    <3>1. Ledger(c, l) /\ fold'.content = c /\ log' = l
      BY <2>1, <2>2
    <3>2. \A i : CallOf(fold.content, i)' = CallOf(c, i)
      BY <2>1, <3>1 DEF CallOf
    <3> HIDE DEF c, l
    <3>3. \A i \in 1..Len(c) : \A m \in 1..Len(c[i].payload) :
            /\ c[i].payload[m] \in 1..Len(l)
            /\ l[c[i].payload[m]] = [kind |-> c[i].kind, call |-> CallOf(fold.content, i)']
            /\ \A k \in 1..m - 1 : c[i].payload[k] < c[i].payload[m]
      BY <3>1, <3>2 DEF Ledger
    <3>4. \A n \in 1..Len(l) :
            \E i \in 1..Len(c) : \E m \in 1..Len(c[i].payload) : c[i].payload[m] = n
      BY <3>1 DEF Ledger
    <3>5. \A i, j \in 1..Len(c) :
            i < j /\ c[i].kind = c[j].kind /\ CallOf(fold.content, i)' = CallOf(fold.content, j)' =>
              \A m \in 1..Len(c[i].payload), k \in 1..Len(c[j].payload) :
                 c[i].payload[m] < c[j].payload[k]
      BY <3>1, <3>2 DEF Ledger
    <3> QED BY <3>1, <3>3, <3>4, <3>5 DEF Ledger
  <2>4. Names(fold, server)'
    BY <2>1, <2>2 DEF Names
  <2> QED BY <2>3, <2>4 DEF Copied
<1>13. CopyInv'
  BY <1>2, <1>7, <1>12 DEF CopyInv
<1> QED BY <1>6, <1>8, <1>9, <1>10, <1>11, <1>13 DEF StreamInv

LEMMA ReadKeeps ==
  ASSUME StreamInv, StreamAssumption, ReadAnthropic \/ ReadOpenAI \/ ReadGoogle
  PROVE  StreamInv'
<1>1. MayRead
  BY DEF ReadAnthropic, ReadOpenAI, ReadGoogle
<1>2. Ready
  BY <1>1, ReadyToRead
<1>3. CASE ReadAnthropic
  <2>1. PICK frame \in AnthropicFrames : Receive(frame, FoldAnthropic(frame.ev, fold))
    BY <1>3 DEF ReadAnthropic
  <2>2. Reads(frame, FoldAnthropic(frame.ev, fold))
    BY <1>2, <1>3, AnthropicReads DEF ReadAnthropic
  <2> QED BY <1>1, <2>1, <2>2, ReceiveKeeps
<1>4. CASE ReadOpenAI
  <2>1. PICK frame \in OpenAIFrames : Receive(frame, FoldOpenAI(frame.ev, fold))
    BY <1>4 DEF ReadOpenAI
  <2>2. Reads(frame, FoldOpenAI(frame.ev, fold))
    BY <1>2, <1>4, OpenAIReads DEF ReadOpenAI
  <2> QED BY <1>1, <2>1, <2>2, ReceiveKeeps
<1>5. CASE ReadGoogle
  <2>1. PICK frame \in GoogleFrames : Receive(frame, FoldGoogle(frame.ev, fold))
    BY <1>5 DEF ReadGoogle
  <2>2. Reads(frame, FoldGoogle(frame.ev, fold))
    BY <1>2, <1>5, GoogleReads DEF ReadGoogle
  <2> QED BY <1>1, <2>1, <2>2, ReceiveKeeps
<1> QED BY <1>3, <1>4, <1>5

\* The body ends.
LEMMA CloseKeeps ==
  ASSUME StreamInv, MayRead, NEW final, Ends(final), Close(final),
         provider = "anthropic" => server.stage \in {"new", "end"},
         provider = "openai" => fold.finished \/ cancelled \/ idle # "armed"
  PROVE  StreamInv'
<1>1. /\ pc = "read" /\ queue = <<>> /\ view.terminal = "none" /\ failure = "none" /\ view.started
      /\ Ready
  BY ReadyToRead DEF MayRead, StreamInv, RequestInv
<1>2. /\ fold' = final.st /\ queue' = final.events /\ pc' = "closing"
      /\ UNCHANGED <<provider, cancelled, idle, failure, message, view, server, log>>
  BY DEF Close
<1>3. /\ final.st \in FoldStates /\ final.st.stop # "aborted" /\ final.events \in Seq(Events)
      /\ EndsAll(fold.content, final.st.content, view.blocks, final.events)
      /\ Ledger(final.st.content, log) /\ CallsInPlace(final.st.content)
  BY DEF Ends
<1>4. TypeInv /\ RequestInv
  BY DEF StreamInv
<1>5. TypeInv'
  BY <1>2, <1>3, <1>4 DEF TypeInv
<1>6. ~ Finished'
  BY <1>1, <1>2 DEF Finished, DoneReasons
<1>7. /\ ViewOK(final.st.content, view.blocks, final.events, Withheld)
      /\ Closing(final.st.content, view.blocks, final.events) = 1..Len(final.st.content)
  <2> DEFINE c == fold.content
             d == final.st.content
             v == view.blocks
             q == final.events
  <2>1. d \in Seq(Blocks)
    BY <1>3 DEF FoldStates
  <2>2. c \in Seq(Blocks) /\ v \in Seq(ViewBlocks) /\ Level(c, v, Withheld)
    BY <1>1 DEF Ready
  <2>3. EndsAll(c, d, v, q)
    BY <1>3
  <2> HIDE DEF c, d, v, q
  <2>4. ViewOK(d, v, q, Withheld) /\ Closing(d, v, q) = 1..Len(d)
    BY <2>1, <2>2, <2>3, EndsAllKeeps
  <2> QED BY <2>4 DEF d, v, q
<1>8. provider = "openai" /\ fold.finished => server.stage = "end"
  BY <1>1, OpenAIReady DEF OpenAITables
<1>9. RequestInv'
  BY <1>1, <1>2, <1>3, <1>6, <1>7, <1>8 DEF RequestInv
<1>10. TerminalIsTrue'
  BY <1>1, <1>2, <1>6 DEF TerminalIsTrue, NoTruncatedDone, AbortIsTheCallers
<1>11. ViewOK(fold.content, view.blocks, queue, Withheld)'
  BY <1>2, <1>7 DEF Withheld, Redacted
<1>12. Ledger(fold.content, log)'
  <2>1. fold'.content = final.st.content /\ log' = log /\ provider' = provider
    BY <1>2
  <2>2. Ledger(final.st.content, log)
    BY <1>3
  <2>3. \A i : CallOf(fold.content, i)' = CallOf(final.st.content, i)
    BY <2>1 DEF CallOf
  <2> QED BY <2>1, <2>2, <2>3 DEF Ledger
<1>13. CallsInPlace(fold.content)'
  BY <1>2, <1>3 DEF CallsInPlace, CallOf, CallsMade
<1>14. CopyInv'
  BY <1>2, <1>12, <1>13 DEF CopyInv
<1> QED BY <1>2, <1>5, <1>9, <1>10, <1>11, <1>14 DEF StreamInv

LEMMA EndsKeep ==
  ASSUME StreamInv, AnthropicEnds \/ OpenAIEnds \/ GoogleEnds
  PROVE  StreamInv'
<1>1. MayRead
  BY DEF AnthropicEnds, OpenAIEnds, GoogleEnds
<1>2. Ready /\ pc = "read" /\ queue = <<>>
  BY <1>1, ReadyToRead DEF MayRead
<1>3. CASE AnthropicEnds
  <2>1. provider = "anthropic"
    BY <1>3 DEF AnthropicEnds
  <2>2. CASE fold.sawStart /\ ~ fold.finished
    <3>1. FailWith("transport")
      BY <1>3, <2>2 DEF AnthropicEnds
    <3> QED BY <1>2, <3>1, FailsKeep
  <2>3. CASE ~ (fold.sawStart /\ ~ fold.finished)
    <3>1. Close(Folded(fold, <<>>))
      BY <1>3, <2>3 DEF AnthropicEnds
    <3>2. Ends(Folded(fold, <<>>)) /\ server.stage \in {"new", "end"}
      BY <1>2, <2>1, <2>3, AnthropicCloses
    <3> QED BY <1>1, <2>1, <3>1, <3>2, CloseKeeps
  <2> QED BY <2>2, <2>3
<1>4. CASE OpenAIEnds
  <2>1. provider = "openai"
    BY <1>4 DEF OpenAIEnds
  <2>2. CASE ~ fold.finished /\ ~ cancelled /\ idle = "armed"
    <3>1. FailWith("truncated")
      BY <1>4, <2>2 DEF OpenAIEnds
    <3> QED BY <1>2, <3>1, FailsKeep
  <2>3. CASE ~ (~ fold.finished /\ ~ cancelled /\ idle = "armed")
    <3>1. Close(FinalizeOpenAI(fold))
      BY <1>4, <2>3 DEF OpenAIEnds
    <3>2. Ends(FinalizeOpenAI(fold))
      BY <1>2, <2>1, OpenAICloses
    <3> QED BY <1>1, <2>1, <2>3, <3>1, <3>2, CloseKeeps
  <2> QED BY <2>2, <2>3
<1>5. CASE GoogleEnds
  <2>1. provider = "google" /\ Close(FinalizeGoogle(fold))
    BY <1>5 DEF GoogleEnds
  <2>2. Ends(FinalizeGoogle(fold))
    BY <1>2, <2>1, GoogleCloses
  <2> QED BY <1>1, <2>1, <2>2, CloseKeeps
<1> QED BY <1>3, <1>4, <1>5

LEMMA BreakKeeps ==
  ASSUME StreamInv, Break
  PROVE  StreamInv'
<1>1. pc \in {"request", "read"} /\ queue = <<>> /\ FailWith("transport")
  BY DEF Break, MayRead, StreamInv, RequestInv
<1> QED BY <1>1, FailsKeep

-----------------------------------------------------------------------------
(* What has been read is pushed, and the request ends.                     *)

LEMMA PushEventKeeps ==
  ASSUME StreamInv, PushEvent
  PROVE  StreamInv'
<1> DEFINE e == queue[1]
           c == fold.content
           v == view.blocks
           q == queue
           u == BuilderFold(view, queue[1]).blocks
<1>1. /\ pc \in {"read", "closing"} /\ queue # <<>> /\ view' = BuilderFold(view, queue[1])
      /\ queue' = Tail(queue)
      /\ UNCHANGED <<provider, pc, cancelled, idle, fold, failure, message, server, log>>
  BY DEF PushEvent
<1>2. TypeInv /\ RequestInv /\ view.terminal = "none" /\ view.started
  BY <1>1 DEF StreamInv, RequestInv
<1>3. /\ view \in Views /\ queue \in Seq(Events) /\ c \in Seq(Blocks) /\ v \in Seq(ViewBlocks)
      /\ e \in Events /\ Tail(queue) \in Seq(Events) /\ 1 \in 1..Len(queue)
  <2>1. view \in Views /\ queue \in Seq(Events) /\ fold \in FoldStates
    BY <1>2 DEF TypeInv
  <2>2. e \in Events /\ Tail(queue) \in Seq(Events) /\ 1 \in 1..Len(queue)
    BY <1>1, <2>1, EmptySeq, HeadTailProperties
  <2> QED BY <2>1, <2>2 DEF Views, FoldStates
<1>4. ViewOK(c, v, q, Withheld)
  BY DEF StreamInv
<1>5. /\ e.type = "start" => e.index = Len(view.blocks) + 1
      /\ e.type # "start" => e.index <= Len(view.blocks)
  <2>1. Tells(c, v, Withheld, e) /\ \/ Len(v) = Len(c)
                                    \/ Len(c) = Len(v) + 1 /\ q[1].type = "start"
    BY <1>3, <1>4 DEF ViewOK, QueueOK
  <2>2. Len(v) \in Nat /\ Len(c) \in Nat
    BY <1>3
  <2> QED BY <2>1, <2>2 DEF Tells
<1>6. /\ BuilderFold(view, e) \in Views
      /\ BuilderFold(view, e).started = view.started
      /\ BuilderFold(view, e).terminal = view.terminal
      /\ Built(view.blocks, u, e)
  BY <1>3, <1>5, BuilderBuilds
<1>7. view' \in Views /\ view'.started /\ view'.terminal = "none" /\ view'.blocks = u
      /\ u \in Seq(ViewBlocks)
  BY <1>1, <1>2, <1>6 DEF Views
<1>8. ViewOK(c, u, Tail(q), Withheld) /\ Closing(c, u, Tail(q)) = Closing(c, v, q)
  <2> HIDE DEF c, v, u, q
  <2>1. q \in Seq(Events) /\ q # <<>> /\ Built(v, u, q[1])
    BY <1>1, <1>3, <1>6 DEF q, v
  <2> QED BY <1>3, <1>4, <1>7, <2>1, PushKeeps
<1>9. TypeInv'
  BY <1>1, <1>2, <1>3, <1>7 DEF TypeInv
<1>10. ~ Finished'
  BY <1>7 DEF Finished, DoneReasons
<1>11. Closing(fold.content, view.blocks, queue)' = Closing(c, v, q)
  BY <1>1, <1>7, <1>8
<1>12. RequestInv'
  <2>1. Closing(fold.content, view.blocks, queue)' = Closing(fold.content, view.blocks, queue)
    BY <1>11
  <2> HIDE DEF c, v, u, q, e
  <2> QED BY <1>1, <1>2, <1>7, <1>10, <2>1 DEF RequestInv
<1>13. TerminalIsTrue'
  BY <1>7, <1>10 DEF TerminalIsTrue, NoTruncatedDone, AbortIsTheCallers
<1>14. ViewOK(fold.content, view.blocks, queue, Withheld)'
  BY <1>1, <1>7, <1>8 DEF Withheld, Redacted
<1>15. (pc \notin {"closing", "over"} =>
          Tables(fold, server, Closing(fold.content, view.blocks, queue)))'
  <2>1. pc' \notin {"closing", "over"} => Tables(fold, server, Closing(c, v, q))
    BY <1>1 DEF StreamInv
  <2> QED BY <1>1, <1>11, <2>1 DEF Tables
<1>16. CopyInv'
  BY <1>1, <1>10, CopyStays DEF StreamInv, CopyInv
<1> QED BY <1>9, <1>12, <1>13, <1>14, <1>15, <1>16 DEF StreamInv

LEMMA ClassifyKeeps ==
  ASSUME StreamInv, Classify
  PROVE  StreamInv'
<1>1. /\ pc = "classify" /\ pc' = "fail"
      /\ UNCHANGED <<provider, cancelled, idle, fold, queue, failure, view, server, log>>
  BY DEF Classify
<1>2. TypeInv /\ RequestInv /\ view.terminal = "none"
  BY <1>1 DEF StreamInv, RequestInv
<1>3. TypeInv'
  BY <1>1, <1>2 DEF TypeInv
<1>4. ~ Finished'
  BY <1>1, <1>2 DEF Finished, DoneReasons
<1>5. RequestInv'
  BY <1>1, <1>2, <1>4 DEF RequestInv
<1>6. TerminalIsTrue'
  BY <1>1, <1>2, <1>4 DEF TerminalIsTrue, NoTruncatedDone, AbortIsTheCallers
<1> QED BY <1>1, <1>3, <1>5, <1>6, ControlKeeps

\* The fold's stop reason is the terminal event's; its message is what it was.
Ending(reason) ==
  /\ fold' = [fold EXCEPT !.stop = reason] /\ view' = [view EXCEPT !.terminal = reason]
  /\ pc' = "over" /\ UNCHANGED <<provider, cancelled, idle, queue, failure, server, log>>

LEMMA Terminated ==
  ASSUME StreamInv, NEW reason \in Stops, Ending(reason)
  PROVE  /\ TypeInv'
         /\ ViewOK(fold.content, view.blocks, queue, Withheld)'
         /\ fold'.content = fold.content /\ view'.blocks = view.blocks
         /\ view'.started = view.started /\ view'.terminal = reason
         /\ pc' = "over"
         /\ UNCHANGED <<provider, cancelled, idle, queue, failure, server, log>>
<1>1. fold \in FoldStates /\ view \in Views
  BY DEF StreamInv, TypeInv
<1>2. fold' \in FoldStates /\ fold'.content = fold.content
  BY <1>1, FoldUpdates DEF Ending
<1>3. /\ view' \in Views /\ view'.blocks = view.blocks /\ view'.terminal = reason
      /\ view'.started = view.started
  BY <1>1 DEF Ending, Views
<1>4. pc' = "over" /\ UNCHANGED <<provider, cancelled, idle, queue, failure, server, log>>
  BY DEF Ending
<1>5. TypeInv'
  BY <1>2, <1>3, <1>4 DEF StreamInv, TypeInv
<1>6. ViewOK(fold.content, view.blocks, queue, Withheld)'
  BY <1>2, <1>3, <1>4 DEF StreamInv, Withheld, Redacted
<1> QED BY <1>2, <1>3, <1>4, <1>5, <1>6

LEMMA PushErrorKeeps ==
  ASSUME StreamInv, PushError
  PROVE  StreamInv'
<1>1. PICK reason \in {"aborted", "error"} :
        /\ reason = "aborted" => cancelled /\ failure # "truncated"
        /\ Ending(reason)
  BY DEF PushError, Terminate, Ending
<1>2. pc = "fail" /\ reason \in Stops
  BY DEF PushError, Stops
<1>3. /\ TypeInv' /\ ViewOK(fold.content, view.blocks, queue, Withheld)'
      /\ view'.terminal = reason /\ pc' = "over"
      /\ UNCHANGED <<provider, cancelled, idle, queue, failure, server, log>>
  BY <1>1, <1>2, Terminated
<1>4. ~ Finished'
  BY <1>3 DEF Finished, DoneReasons
<1>5. queue = <<>>
  BY <1>2 DEF StreamInv, RequestInv
<1>6. RequestInv'
  BY <1>3, <1>4, <1>5 DEF RequestInv
<1>7. TerminalIsTrue'
  BY <1>1, <1>3, <1>4 DEF TerminalIsTrue, NoTruncatedDone, AbortIsTheCallers
<1>8. CopyInv'
  BY <1>3, <1>4 DEF CopyInv
<1> QED BY <1>3, <1>6, <1>7, <1>8 DEF StreamInv

\* The blocks pushed, once every block is closed and nothing is queued.
LEMMA AllClosed ==
  ASSUME StreamInv, pc = "closing", queue = <<>>
  PROVE  /\ Len(view.blocks) = Len(fold.content)
         /\ \A i \in 1..Len(fold.content) : Closed(view.blocks, i)
<1> DEFINE c == fold.content
           v == view.blocks
<1>1. c \in Seq(Blocks) /\ v \in Seq(ViewBlocks)
  BY DEF StreamInv, TypeInv, FoldStates, Views
<1>2. ViewOK(c, v, <<>>, Withheld) /\ Closing(c, v, <<>>) = 1..Len(c)
  BY DEF StreamInv, RequestInv
<1> HIDE DEF c, v
<1>3. Len(v) = Len(c)
  BY <1>2 DEF ViewOK
<1>4. /\ Closing(c, v, <<>>) = {i \in 1..Len(c) : v[i].closed}
      /\ \A i \in 1..Len(c) : Closed(v, i) <=> v[i].closed
  BY <1>1, <1>3, NothingQueued
<1>5. \A i \in 1..Len(c) : Closed(v, i)
  BY <1>2, <1>4
<1> QED BY <1>3, <1>5 DEF c, v

LEMMA PushTerminalKeeps ==
  ASSUME StreamInv, PushTerminal
  PROVE  StreamInv'
<1>1. pc = "closing" /\ queue = <<>> /\ TypeInv /\ RequestInv
  BY DEF PushTerminal, StreamInv
<1>2. fold.stop \in Stops /\ fold.stop # "aborted"
  BY <1>1 DEF TypeInv, FoldStates, RequestInv
<1>3. PICK reason \in Stops : /\ reason = "aborted" <=> cancelled
                              /\ Ending(reason)
  BY <1>2 DEF PushTerminal, Terminate, Ending, Stops, TypeInv
<1>4. /\ TypeInv' /\ ViewOK(fold.content, view.blocks, queue, Withheld)'
      /\ fold'.content = fold.content /\ view'.blocks = view.blocks
      /\ view'.terminal = reason /\ pc' = "over"
      /\ UNCHANGED <<provider, cancelled, idle, queue, failure, server, log>>
  BY <1>3, Terminated
<1>5. /\ Len(view.blocks) = Len(fold.content)
      /\ \A i \in 1..Len(fold.content) : Closed(view.blocks, i)
  BY <1>1, AllClosed
<1>6. RequestInv'
  BY <1>1, <1>4, <1>5 DEF RequestInv
<1>7. TerminalIsTrue'
  <2>1. Finished' => ~ cancelled
    BY <1>3, <1>4 DEF Finished, DoneReasons
  <2>2. NoTruncatedDone'
    BY <1>1, <1>4, <2>1 DEF NoTruncatedDone, RequestInv, TypeInv
  <2>3. AbortIsTheCallers'
    BY <1>1, <1>3, <1>4 DEF AbortIsTheCallers, RequestInv
  <2> QED BY <2>2, <2>3 DEF TerminalIsTrue
<1>8. CopyInv'
  BY <1>1, <1>4, CopyStays DEF StreamInv, CopyInv
<1> QED BY <1>4, <1>6, <1>7, <1>8 DEF StreamInv

LEMMA StreamKeeps ==
  ASSUME StreamInv, [Next]_vars, StreamAssumption
  PROVE  StreamInv'
<1>1. CASE Cancel \/ WatchdogFires \/ WatchdogCancels
  BY <1>1, CancelKeeps
<1>2. CASE Prepare
  BY <1>2, PrepareKeeps
<1>3. CASE Respond
  BY <1>3, RespondKeeps
<1>4. CASE ReadAnthropic \/ ReadOpenAI \/ ReadGoogle
  BY <1>4, ReadKeeps
<1>5. CASE AnthropicEnds \/ OpenAIEnds \/ GoogleEnds
  BY <1>5, EndsKeep
<1>6. CASE Break \/ Interrupted
  BY <1>6, BreakKeeps DEF Interrupted
<1>7. CASE PushEvent
  BY <1>7, PushEventKeeps
<1>8. CASE Classify
  BY <1>8, ClassifyKeeps
<1>9. CASE PushError
  BY <1>9, PushErrorKeeps
<1>10. CASE PushTerminal
  BY <1>10, PushTerminalKeeps
<1>11. CASE UNCHANGED vars
  <2>1. /\ UNCHANGED <<fold, view, queue, server, provider, pc, cancelled, idle, failure, log>>
        /\ Finished' = Finished
    BY <1>11 DEF vars, run, Finished
  <2>2. TypeInv /\ RequestInv /\ TerminalIsTrue
    BY DEF StreamInv
  <2>3. TypeInv'
    BY <2>1, <2>2 DEF TypeInv
  <2>4. RequestInv'
    BY <2>1, <2>2 DEF RequestInv
  <2>5. TerminalIsTrue'
    BY <2>1, <2>2 DEF TerminalIsTrue, NoTruncatedDone, AbortIsTheCallers
  <2> QED BY <2>1, <2>3, <2>4, <2>5, ControlKeeps
<1> QED
  BY <1>1, <1>2, <1>3, <1>4, <1>5, <1>6, <1>7, <1>8, <1>9, <1>10, <1>11
  DEF Next, Network, Client, Over

-----------------------------------------------------------------------------
(* The blocks pushed, as the feed shows them.                              *)

FeedBlocks == [kind : Kinds, payload : Payloads, closed : BOOLEAN]

ShownWell(v) ==
  /\ Shown(v) \in Seq(FeedBlocks) /\ Len(Shown(v)) = Len(v)
  /\ DOMAIN Shown(v) = 1..Len(v)
  /\ \A i \in 1..Len(v) :
       /\ Shown(v)[i] = [kind |-> v[i].kind, payload |-> v[i].payload, closed |-> v[i].closed]
       /\ Shown(v)[i] \in FeedBlocks /\ v[i] \in ViewBlocks

LEMMA ShownIs ==
  ASSUME NEW v \in Seq(ViewBlocks)
  PROVE  ShownWell(v)
<1>1. DOMAIN v = 1..Len(v) /\ Len(v) \in Nat /\ \A i \in 1..Len(v) : v[i] \in ViewBlocks
  BY LenProperties, ElementOfSeq
<1>2. /\ DOMAIN Shown(v) = 1..Len(v)
      /\ \A i \in 1..Len(v) : /\ Shown(v)[i] = [kind |-> v[i].kind, payload |-> v[i].payload,
                                                closed |-> v[i].closed]
                              /\ Shown(v)[i] \in FeedBlocks
  BY <1>1 DEF Shown, FeedBlocks, ViewBlocks
<1>3. Shown(v) \in [1..Len(v) -> FeedBlocks]
  BY <1>1, <1>2 DEF Shown
<1>4. Shown(v) \in Seq(FeedBlocks)
  BY <1>1, <1>3
<1>5. Len(Shown(v)) = Len(v)
  BY <1>1, <1>2, <1>4, LenProperties
<1> QED BY <1>1, <1>2, <1>4, <1>5 DEF ShownWell

LEMMA ShownOpens ==
  ASSUME NEW v \in Seq(ViewBlocks), NEW u \in Seq(ViewBlocks), Len(u) = Len(v) + 1,
         \A j \in 1..Len(v) : u[j] = v[j],
         u[Len(u)].payload = <<>>, ~ u[Len(u)].closed
  PROVE  Shown(u) = Append(Shown(v), [kind |-> u[Len(u)].kind, payload |-> <<>>,
                                      closed |-> FALSE])
<1> DEFINE b == [kind |-> u[Len(u)].kind, payload |-> <<>>, closed |-> FALSE]
           s == Shown(u)
           t == Append(Shown(v), b)
<1>0. ShownWell(u) /\ ShownWell(v)
  BY ShownIs
<1>1. /\ Shown(v) \in Seq(FeedBlocks) /\ Len(Shown(v)) = Len(v) /\ Len(v) \in Nat
      /\ s \in Seq(FeedBlocks) /\ Len(s) = Len(u) /\ Len(u) \in 1..Len(u)
      /\ \A i \in 1..Len(v) : s[i] = Shown(v)[i]
  <2>1. Len(v) \in Nat /\ \A i \in 1..Len(v) : i \in 1..Len(u) /\ u[i] = v[i]
    OBVIOUS
  <2>2. \A i \in 1..Len(v) : s[i] = Shown(v)[i]
    BY <1>0, <2>1 DEF ShownWell
  <2> QED BY <1>0, <2>1, <2>2 DEF ShownWell
<1>2. s[Len(u)] = b
  <2>1. u[Len(u)].closed = FALSE
    BY <1>0, <1>1 DEF ShownWell, ViewBlocks
  <2> QED BY <1>0, <1>1, <2>1 DEF ShownWell
<1>3. b \in FeedBlocks
  BY <1>0, <1>1, <1>2 DEF ShownWell
<1> HIDE DEF b, s
<1>4. /\ t \in Seq(FeedBlocks) /\ Len(t) = Len(v) + 1 /\ t[Len(v) + 1] = b
      /\ \A i \in 1..Len(v) : t[i] = Shown(v)[i]
  BY <1>1, <1>3, AppendProperties
<1> HIDE DEF t
<1>5. \A i \in 1..Len(s) : s[i] = t[i]
  BY <1>1, <1>2, <1>4
<1>6. s = t
  BY <1>1, <1>4, <1>5, SeqEqual
<1> QED BY <1>6 DEF s, t, b

\* Block i of v gets x, and perhaps its end.
Fills(v, u, i, x, closed) ==
  /\ Len(u) = Len(v) /\ i \in 1..Len(v) /\ \A j \in 1..Len(v) : j # i => u[j] = v[j]
  /\ u[i].kind = v[i].kind /\ u[i].payload = v[i].payload \o x /\ u[i].closed = closed

ShownFilled(v, u, i, x, closed) ==
  Shown(u) = [Shown(v) EXCEPT ![i] = Feed!Filled(@, x, closed)]

LEMMA ShownFills ==
  ASSUME NEW v \in Seq(ViewBlocks), NEW u \in Seq(ViewBlocks), NEW i, NEW x, NEW closed,
         Fills(v, u, i, x, closed)
  PROVE  ShownFilled(v, u, i, x, closed)
<1>0. ShownWell(u) /\ ShownWell(v)
  BY ShownIs
<1>1. /\ Shown(v) \in Seq(FeedBlocks) /\ DOMAIN Shown(v) = 1..Len(v)
      /\ DOMAIN Shown(u) = 1..Len(v) /\ i \in 1..Len(v)
      /\ \A j \in 1..Len(v) : j # i => Shown(u)[j] = Shown(v)[j]
  BY <1>0 DEF ShownWell, Fills
<1>2. Shown(u)[i] = Feed!Filled(Shown(v)[i], x, closed)
  <2>1. /\ Shown(v)[i].kind = v[i].kind /\ Shown(v)[i].payload = v[i].payload
        /\ Shown(u)[i] = [kind |-> u[i].kind, payload |-> u[i].payload, closed |-> u[i].closed]
    BY <1>0 DEF ShownWell, Fills
  <2> QED BY <2>1 DEF Fills, Feed!Filled
<1>3. Shown(u) = [j \in 1..Len(v) |-> Shown(u)[j]]
  BY <1>1 DEF Shown
<1> QED BY <1>1, <1>2, <1>3 DEF ShownFilled

-----------------------------------------------------------------------------
(* Every step of the request is a step of the feed.                        *)

LEMMA FeedStarts ==
  ASSUME StreamInv, Respond
  PROVE  [Feed!Next]_(Feed!vars)
<1>1. CASE FailWith("refused")
  BY <1>1 DEF FailWith, Feed!vars
<1>2. CASE ~ FailWith("refused")
  <2>1. pc = "request" /\ view' = [view EXCEPT !.started = TRUE]
    BY <1>2 DEF Respond
  <2>2. view \in Views /\ view.terminal = "none"
    BY <2>1 DEF StreamInv, TypeInv, RequestInv
  <2>3. view'.started = TRUE /\ view'.blocks = view.blocks /\ view'.terminal = view.terminal
    BY <2>1, <2>2 DEF Views
  <2>4. CASE view.started
    <3>1. view.started = TRUE
      BY <2>2, <2>4 DEF Views
    <3> QED BY <2>3, <3>1 DEF Feed!vars
  <2>5. CASE ~ view.started
    <3>1. Feed!Start
      BY <2>2, <2>3, <2>5 DEF Feed!Start, Feed!Live
    <3> QED BY <3>1 DEF Feed!Next
  <2> QED BY <2>4, <2>5
<1> QED BY <1>1, <1>2

LEMMA FeedGoesOn ==
  ASSUME StreamInv, PushEvent
  PROVE  [Feed!Next]_(Feed!vars)
<1> DEFINE e == queue[1]
           c == fold.content
           v == view.blocks
           q == queue
           u == BuilderFold(view, queue[1]).blocks
           i == queue[1].index
<1>1. pc \in {"read", "closing"} /\ queue # <<>> /\ view' = BuilderFold(view, queue[1])
  BY DEF PushEvent
<1>2. TypeInv /\ RequestInv /\ view.terminal = "none" /\ view.started
  BY <1>1 DEF StreamInv, RequestInv
<1>3. /\ view \in Views /\ queue \in Seq(Events) /\ c \in Seq(Blocks) /\ v \in Seq(ViewBlocks)
      /\ e \in Events /\ 1 \in 1..Len(queue)
  <2>1. view \in Views /\ queue \in Seq(Events) /\ fold \in FoldStates
    BY <1>2 DEF TypeInv
  <2>2. e \in Events /\ 1 \in 1..Len(queue)
    BY <1>1, <2>1, EmptySeq, HeadTailProperties
  <2> QED BY <2>1, <2>2 DEF Views, FoldStates
<1>4. ViewOK(c, v, q, Withheld)
  BY DEF StreamInv
<1>5. /\ Tells(c, v, Withheld, e)
      /\ e.type = "start" => i = Len(v) + 1
      /\ e.type # "start" => i <= Len(v)
      /\ i \in 1..Len(c) /\ Len(v) \in Nat
      /\ BlockOK(c, v, q, Withheld, i)
  <2>1. Tells(c, v, Withheld, e) /\ (\/ Len(v) = Len(c)
                                     \/ Len(c) = Len(v) + 1 /\ q[1].type = "start")
    BY <1>3, <1>4 DEF ViewOK, QueueOK
  <2>2. Len(v) \in Nat /\ Len(c) \in Nat
    BY <1>3
  <2>3. i \in 1..Len(c)
    BY <2>1 DEF Tells
  <2>4. BlockOK(c, v, q, Withheld, i)
    BY <1>4, <2>3 DEF ViewOK
  <2>5. e.type = "start" => i = Len(v) + 1
    BY <2>1 DEF Tells
  <2>6. e.type # "start" => i <= Len(v)
    BY <2>1, <2>2, <2>3
  <2> QED BY <2>1, <2>2, <2>3, <2>4, <2>5, <2>6
<1>6. /\ view' \in Views /\ view'.started = view.started /\ view'.terminal = view.terminal
      /\ view'.blocks = u /\ Built(v, u, e) /\ u \in Seq(ViewBlocks)
  <2>1. /\ BuilderFold(view, e) \in Views
        /\ BuilderFold(view, e).started = view.started
        /\ BuilderFold(view, e).terminal = view.terminal
        /\ Built(v, u, e)
    BY <1>3, <1>5, BuilderBuilds
  <2> QED BY <1>1, <2>1 DEF Views
<1>7. e.type \in {"start", "delta", "end"} /\ e.delta \in Payloads /\ e.block \in Blocks
  BY <1>3 DEF Events
<1>8. CASE e.type = "start"
  <2>1. /\ Len(u) = Len(v) + 1 /\ \A j \in 1..Len(v) : u[j] = v[j]
        /\ u[Len(u)].kind = e.block.kind /\ u[Len(u)].payload = <<>> /\ ~ u[Len(u)].closed
    BY <1>5, <1>8, <1>6 DEF Built, BuiltBlock
  <2> HIDE DEF e, c, v, q, u, i
  <2>2. Shown(u) = Append(Shown(v), [kind |-> u[Len(u)].kind, payload |-> <<>>,
                                     closed |-> FALSE])
    BY <1>3, <1>6, <2>1, ShownOpens
  <2>3. e.block.kind \in Feed!Kinds
    BY <1>7 DEF Blocks, Kinds, Feed!Kinds
  <2>4. Feed!Open(e.block.kind)
    BY <1>2, <1>6, <2>1, <2>2 DEF Feed!Open, Feed!Live, v
  <2> QED BY <2>3, <2>4 DEF Feed!Next
<1>9. CASE e.type = "delta"
  <2>1. PICK f \in Fragments : e.delta = <<f>>
    <3>1. Len(e.delta) = 1
      BY <1>5, <1>9 DEF Tells
    <3>2. e.delta = <<e.delta[1]>> /\ e.delta[1] \in Fragments
      BY <1>7, <3>1 DEF Payloads
    <3> QED BY <3>2
  <2>2. i \in 1..Len(v) /\ ~ v[i].closed
    BY <1>5, <1>9 DEF Tells, Closed
  <2>3. /\ Len(u) = Len(v) /\ \A j \in 1..Len(v) : j # i => u[j] = v[j]
        /\ u[i].kind = v[i].kind /\ u[i].payload = v[i].payload \o <<f>>
        /\ u[i].closed = v[i].closed
    BY <1>6, <1>9, <2>1 DEF Built, BuiltBlock
  <2> HIDE DEF e, c, v, q, u, i
  <2>0. ShownWell(v)
    BY <1>3, ShownIs
  <2>4. u[i].closed = FALSE /\ DOMAIN Shown(v) = 1..Len(v) /\ ~ Shown(v)[i].closed
    BY <2>0, <2>2, <2>3 DEF ShownWell, ViewBlocks
  <2>5. Shown(u) = [Shown(v) EXCEPT ![i] = Feed!Filled(@, <<f>>, FALSE)]
    <3>1. Fills(v, u, i, <<f>>, FALSE)
      BY <2>2, <2>3, <2>4 DEF Fills
    <3>2. ShownFilled(v, u, i, <<f>>, FALSE)
      BY <1>3, <1>6, <3>1, ShownFills
    <3> QED BY <3>2 DEF ShownFilled
  <2>6. Feed!Extend(i, f)
    BY <1>2, <1>6, <2>4, <2>5 DEF Feed!Extend, Feed!Live, v
  <2>7. i \in DOMAIN Shown(view.blocks) /\ f \in 1..MaxFrags
    BY <2>1, <2>2, <2>4 DEF v, Fragments
  <2> QED BY <2>6, <2>7 DEF Feed!Next
<1>10. CASE e.type = "end"
  <2>1. i \in 1..Len(v) /\ ~ v[i].closed /\ e.block = c[i] /\ c[i] \in Blocks
    BY <1>3, <1>5, <1>10 DEF Tells, Closed
  <2>2. /\ Len(u) = Len(v) /\ \A j \in 1..Len(v) : j # i => u[j] = v[j]
        /\ u[i].kind = c[i].kind /\ u[i].payload = c[i].payload /\ u[i].closed = TRUE
        /\ v[i].kind = c[i].kind
    BY <1>5, <1>6, <1>10, <2>1 DEF Built, BuiltBlock, Whole, BlockOK
  <2>3. NoDelta(q, i)
    <3>1. \A n \in 1..Len(q) : n # 1 => InOrder(q[1], q[n])
      <4>1. \A m, n \in 1..Len(q) : m < n => InOrder(q[m], q[n])
        BY <1>4 DEF ViewOK, QueueOK
      <4> QED BY <1>3, <4>1
    <3> QED BY <1>10, <3>1 DEF NoDelta, InOrder
  <2>4. PICK rest \in {<<>>} \cup {<<f>> : f \in Fragments} : c[i].payload = v[i].payload \o rest
    <3>1. Told(v, i) = v[i].payload /\ ~ Closed(v, i)
      BY <2>1 DEF Told, Closed
    <3>2. CASE i \in Withheld
      <4>1. v[i].payload = <<>> /\ Len(c[i].payload) = 1 /\ c[i].payload \in Payloads
        BY <1>5, <2>1, <3>1, <3>2 DEF BlockOK, Blocks
      <4>2. c[i].payload = <<c[i].payload[1]>> /\ c[i].payload[1] \in Fragments
        BY <4>1 DEF Payloads
      <4>3. c[i].payload = v[i].payload \o c[i].payload
        BY <4>1, PayloadsJoin
      <4> QED BY <4>2, <4>3
    <3>3. CASE i \notin Withheld
      <4>1. v[i].payload = c[i].payload /\ c[i].payload \in Payloads
        BY <1>5, <2>1, <2>3, <3>1, <3>3 DEF BlockOK, Blocks
      <4>2. c[i].payload = v[i].payload \o <<>>
        BY <4>1, PayloadsJoin
      <4> QED BY <4>2
    <3> QED BY <3>2, <3>3
  <2> HIDE DEF e, c, v, q, u, i
  <2>5. DOMAIN Shown(v) = 1..Len(v) /\ ~ Shown(v)[i].closed
    <3>1. ShownWell(v)
      BY <1>3, ShownIs
    <3> QED BY <2>1, <3>1 DEF ShownWell
  <2>6. Shown(u) = [Shown(v) EXCEPT ![i] = Feed!Filled(@, rest, TRUE)]
    <3>1. u[i].kind = v[i].kind /\ u[i].payload = v[i].payload \o rest
      BY <2>2, <2>4
    <3>2. Fills(v, u, i, rest, TRUE)
      BY <2>1, <2>2, <3>1 DEF Fills
    <3>3. ShownFilled(v, u, i, rest, TRUE)
      BY <1>3, <1>6, <3>2, ShownFills
    <3> QED BY <3>3 DEF ShownFilled
  <2>7. Feed!Close(i, rest)
    BY <1>2, <1>6, <2>5, <2>6 DEF Feed!Close, Feed!Live, v
  <2>8. i \in DOMAIN Shown(view.blocks) /\ rest \in {<<>>} \cup {<<f>> : f \in 1..MaxFrags}
    BY <2>1, <2>4, <2>5 DEF v, Fragments
  <2> QED BY <2>7, <2>8 DEF Feed!Next
<1> QED BY <1>7, <1>8, <1>9, <1>10

LEMMA FeedFails ==
  ASSUME StreamInv, NEW reason \in {"error", "aborted"}, Ending(reason), pc # "over"
  PROVE  [Feed!Next]_(Feed!vars)
<1>1. /\ view'.blocks = view.blocks /\ view'.started = view.started
      /\ view'.terminal = reason /\ view.terminal = "none"
  <2>1. reason \in Stops
    BY DEF Stops
  <2> QED BY <2>1, Terminated DEF StreamInv, RequestInv
<1>2. Feed!Fail(reason)
  BY <1>1 DEF Feed!Fail, Feed!Live
<1> QED BY <1>2 DEF Feed!Next, Feed!ErrorReasons

LEMMA FeedEnds ==
  ASSUME StreamInv, PushTerminal
  PROVE  [Feed!Next]_(Feed!vars)
<1>1. pc = "closing" /\ queue = <<>> /\ view.started /\ view.terminal = "none"
  BY DEF PushTerminal, StreamInv, RequestInv
<1>2. fold.stop \in Stops
  BY DEF StreamInv, TypeInv, FoldStates
<1>3. PICK reason \in Stops : Ending(reason)
  BY <1>2 DEF PushTerminal, Terminate, Ending, Stops
<1>4. CASE reason \in {"error", "aborted"}
  BY <1>1, <1>3, <1>4, FeedFails
<1>5. CASE reason \in {"stop", "length", "toolUse"}
  <2>1. /\ view'.blocks = view.blocks /\ view'.started = view.started
        /\ view'.terminal = reason
    BY <1>3, Terminated
  <2>2. \A i \in DOMAIN Shown(view.blocks) : Shown(view.blocks)[i].closed
    <3>1. view.blocks \in Seq(ViewBlocks)
      BY DEF StreamInv, TypeInv, Views
    <3>2. \A i \in 1..Len(view.blocks) : view.blocks[i].closed
      BY <1>1, AllClosed DEF Closed
    <3> DEFINE v == view.blocks
    <3>3. ShownWell(v) /\ \A i \in 1..Len(v) : v[i].closed
      BY <3>1, <3>2, ShownIs
    <3> HIDE DEF v
    <3>4. \A i \in DOMAIN Shown(v) : Shown(v)[i].closed
      BY <3>3 DEF ShownWell
    <3> QED BY <3>4 DEF v
  <2>3. Feed!Done(reason)
    BY <1>1, <2>1, <2>2 DEF Feed!Done, Feed!Live
  <2> QED BY <1>5, <2>3 DEF Feed!Next, Feed!DoneReasons
<1> QED BY <1>4, <1>5 DEF Stops

LEMMA FeedMoves ==
  ASSUME StreamInv, [Next]_vars
  PROVE  [Feed!Next]_(Feed!vars)
<1>1. CASE Respond
  BY <1>1, FeedStarts
<1>2. CASE PushEvent
  BY <1>2, FeedGoesOn
<1>3. CASE PushTerminal
  BY <1>3, FeedEnds
<1>4. CASE PushError
  <2>1. PICK reason \in {"error", "aborted"} : Ending(reason)
    BY <1>4 DEF PushError, Terminate, Ending
  <2>2. pc # "over"
    BY <1>4 DEF PushError
  <2> QED BY <2>1, <2>2, FeedFails
<1>5. CASE view' = view
  BY <1>5 DEF Feed!vars
<1>6. Respond \/ PushEvent \/ PushTerminal \/ PushError \/ view' = view
  <2>1. ASSUME NEW why, FailWith(why) PROVE view' = view
    BY <2>1 DEF FailWith
  <2>2. ASSUME NEW final, Close(final) PROVE view' = view
    BY <2>2 DEF Close
  <2>3. ASSUME NEW frame, NEW f, Receive(frame, f) PROVE view' = view
    BY <2>3 DEF Receive
  <2>4. Cancel \/ WatchdogFires \/ WatchdogCancels \/ Classify \/ UNCHANGED vars => view' = view
    BY DEF Cancel, WatchdogFires, WatchdogCancels, Classify, vars, run
  <2>5. Prepare \/ Break => view' = view
    BY <2>1 DEF Prepare, Break, Goto, run
  <2>6. AnthropicEnds \/ OpenAIEnds \/ GoogleEnds => view' = view
    BY <2>1, <2>2 DEF AnthropicEnds, OpenAIEnds, GoogleEnds
  <2>7. ReadAnthropic \/ ReadOpenAI \/ ReadGoogle => view' = view
    BY <2>3 DEF ReadAnthropic, ReadOpenAI, ReadGoogle
  <2> QED BY <2>4, <2>5, <2>6, <2>7 DEF Next, Network, Client, Interrupted, Over
<1> QED BY <1>1, <1>2, <1>3, <1>4, <1>5, <1>6

-----------------------------------------------------------------------------
(* The results.                                                            *)

\* The blocks pushed are prefixes of the message's, and are the message's once it is done.
LEMMA ViewFollows ==
  ASSUME StreamInv
  PROVE  ViewIsMessage
<1> DEFINE c == fold.content
           v == view.blocks
           q == queue
<1>1. c \in Seq(Blocks) /\ v \in Seq(ViewBlocks) /\ q \in Seq(Events)
  BY DEF StreamInv, TypeInv, FoldStates, Views
<1>2. ViewOK(c, v, q, Withheld)
  BY DEF StreamInv
<1>3. Finished => Len(v) = Len(c) /\ \A i \in 1..Len(c) : Closed(v, i)
  BY DEF StreamInv, RequestInv
<1> HIDE DEF c, v, q
<1>4. /\ Len(v) \in Nat /\ Len(c) \in Nat /\ DOMAIN v = 1..Len(v) /\ Len(v) <= Len(c)
      /\ \A i \in 1..Len(v) : i \in 1..Len(c) /\ v[i] \in ViewBlocks /\ c[i] \in Blocks
  BY <1>1, <1>2 DEF ViewOK
<1>5. ASSUME NEW i \in 1..Len(v) PROVE IsPrefix(v[i].payload, c[i].payload)
  <2> DEFINE s == v[i].payload
             t == c[i].payload
  <2>1. BlockOK(c, v, q, Withheld, i) /\ Told(v, i) = s
    BY <1>2, <1>4 DEF ViewOK, Told
  <2>2. s \in Seq(Fragments) /\ t \in Seq(Fragments)
    BY <1>4 DEF ViewBlocks, Blocks, Payloads
  <2>3. \E x \in Seq(Fragments) : t = s \o x
    <3>1. CASE s = t
      <4>1. <<>> \in Seq(Fragments) /\ t = s \o <<>>
        BY <2>2, <3>1, PayloadsJoin DEF Payloads
      <4> QED BY <4>1
    <3>2. CASE s = <<>>
      <4>1. t = s \o t
        BY <2>2, <3>2, PayloadsJoin DEF Payloads
      <4> QED BY <2>2, <4>1
    <3>3. CASE s # t /\ s # <<>>
      <4>1. ~ Closed(v, i) /\ i \notin Withheld
        BY <2>1, <3>3 DEF BlockOK, Whole
      <4>2. PICK n \in 1..Len(q) : q[n].index = i /\ q[n].type = "delta"
        BY <2>1, <3>3, <4>1 DEF BlockOK, NoDelta
      <4>3. Tells(c, v, Withheld, q[n]) /\ q[n] \in Events
        BY <1>1, <1>2 DEF ViewOK, QueueOK
      <4>4. t = s \o q[n].delta
        BY <2>1, <4>2, <4>3 DEF Tells
      <4>5. q[n].delta \in Seq(Fragments)
        BY <4>3 DEF Events, Payloads
      <4> QED BY <4>4, <4>5
    <3> QED BY <3>1, <3>2, <3>3
  <2>4. IsPrefix(s, t)
    <3> HIDE DEF s, t
    <3>1. PICK x \in Seq(Fragments) : t = s \o x
      BY <2>3
    <3>2. Len(s) <= Len(t) /\ \A j \in 1..Len(s) : s[j] = t[j]
      BY <2>2, <3>1
    <3>3. SubSeq(s, 1, Len(s)) = SubSeq(t, 1, Len(s))
      BY <2>2, <3>2
    <3> QED BY <3>2, <3>3 DEF IsPrefix
  <2> QED BY <2>4
<1>6. ASSUME Finished, NEW i \in 1..Len(v) PROVE v[i] = Whole(c[i])
  BY <1>2, <1>3, <1>4, <1>6 DEF ViewOK, BlockOK
<1>7. /\ Len(v) <= Len(c) /\ (Finished => Len(v) = Len(c))
      /\ \A i \in DOMAIN v : /\ IsPrefix(v[i].payload, c[i].payload)
                             /\ Finished => v[i] = Whole(c[i])
  BY <1>3, <1>4, <1>5, <1>6
<1> QED BY <1>3, <1>7 DEF ViewIsMessage, c, v

\* The blocks that hold what was sent, as FragmentsInPlace says it.
LEMMA LedgerInPlace ==
  ASSUME NEW c \in Seq(Blocks), log \in Seq(Sents), Ledger(c, log)
  PROVE  FragmentsInPlace(c)
<1>1. DOMAIN c = 1..Len(c) /\ DOMAIN log = 1..Len(log)
  OBVIOUS
<1>2. \A i \in 1..Len(c) : c[i].payload \in Seq(Fragments) /\ Len(c[i].payload) \in Nat
  <2>1. \A i \in 1..Len(c) : c[i] \in Blocks
    OBVIOUS
  <2>2. \A x \in Blocks : x.payload \in Seq(Fragments) /\ Len(x.payload) \in Nat
    BY DEF Blocks, Payloads
  <2> QED BY <2>1, <2>2
<1>3. \A i \in 1..Len(c) : /\ DOMAIN c[i].payload = 1..Len(c[i].payload)
                          /\ Range(c[i].payload) = {c[i].payload[m] : m \in 1..Len(c[i].payload)}
  BY <1>2 DEF Range
<1>4. \A i \in DOMAIN c : \A m \in DOMAIN c[i].payload :
        LET n == c[i].payload[m]
        IN /\ n \in DOMAIN log /\ log[n] = [kind |-> c[i].kind, call |-> CallOf(c, i)]
           /\ \A k \in 1..m - 1 : c[i].payload[k] < n
  BY <1>1, <1>3 DEF Ledger
<1>5. ASSUME NEW n \in DOMAIN log PROVE \E i \in DOMAIN c : n \in Range(c[i].payload)
  <2>1. PICK i \in 1..Len(c) : \E m \in 1..Len(c[i].payload) : c[i].payload[m] = n
    BY <1>1 DEF Ledger
  <2> QED BY <1>1, <1>3, <2>1
<1>6. ASSUME NEW i \in DOMAIN c, NEW j \in DOMAIN c, i < j, c[i].kind = c[j].kind,
             CallOf(c, i) = CallOf(c, j),
             NEW m \in Range(c[i].payload), NEW n \in Range(c[j].payload)
      PROVE  m < n
  <2>1. PICK a \in 1..Len(c[i].payload) : m = c[i].payload[a]
    BY <1>1, <1>3
  <2>2. PICK b \in 1..Len(c[j].payload) : n = c[j].payload[b]
    BY <1>1, <1>3
  <2> QED BY <1>1, <1>6, <2>1, <2>2 DEF Ledger
<1> QED BY <1>4, <1>5, <1>6 DEF FragmentsInPlace

\* The inductive invariant (runStream of the three clients, AssistantBuilder.Fold): the
\* blocks pushed are those of the message, up to what is queued and what is withheld; the
\* client's tables say where each block of the server is; and the message holds every
\* fragment sent, in place.
THEOREM StreamInvariant == Spec => []StreamInv
<1>1. Init => StreamInv
  BY StreamAssumption, StreamStarts
<1>2. StreamInv /\ [Next]_vars => StreamInv'
  BY StreamAssumption, StreamKeeps
<1> QED BY <1>1, <1>2, PTL DEF Spec

\* The terminal event tells how the request ended (runStream, pushError): nothing that was
\* cut off is reported done, and only the caller's cancellation is reported as an abort.
THEOREM TerminalIsTrueAlways == Spec => []TerminalIsTrue
<1>1. StreamInv => TerminalIsTrue
  BY DEF StreamInv
<1> QED BY <1>1, StreamInvariant, PTL

\* The events of a request follow the protocol that the agent loop and the retrier rely on,
\* whatever wire format is decoded (AssistantStream.Push).
THEOREM StreamIsAssistantFeed == Spec => ImplementsAssistantFeed
<1>1. Init => Feed!Init
  <2> SUFFICES ASSUME Init PROVE Feed!Init
    OBVIOUS
  <2>1. view.started = FALSE /\ view.blocks = <<>> /\ view.terminal = "none"
    BY DEF Init
  <2>2. <<>> \in Seq(ViewBlocks) /\ Len(<<>>) = 0
    OBVIOUS
  <2>3. Shown(<<>>) \in Seq(FeedBlocks) /\ Len(Shown(<<>>)) = 0
    <3>1. ShownWell(<<>>)
      BY <2>2, ShownIs
    <3> QED BY <2>2, <3>1 DEF ShownWell
  <2>4. Shown(<<>>) = <<>>
    BY <2>3, EmptySeq
  <2> QED BY <2>1, <2>4 DEF Feed!Init, Feed!Live
<1>2. StreamInv /\ [Next]_vars => [Feed!Next]_(Feed!vars)
  BY FeedMoves
<1> QED BY <1>1, <1>2, StreamInvariant, PTL DEF Spec, ImplementsAssistantFeed, Feed!Spec

\* What a consumer folds from the events alone never runs ahead of the provider's message,
\* and is that message once it is done (AssistantBuilder.Fold, the retrier's own copy).
THEOREM ViewIsMessageAlways == Spec => []ViewIsMessage
BY ViewFollows, StreamInvariant, PTL

\* A finished answer is what the server sent, whatever the wire format (foldState,
\* finalizeBlocks, AssistantBuilder.Fold): every fragment once, in order, in the text, the
\* reasoning or the call it was sent for; every call once, under an id of its own, parsed
\* from all of its arguments; and the events alone build the same message.
THEOREM MessageIsFaithfulAlways == Spec => []MessageIsFaithful
<1>1. StreamInv => FaithfulCopy
  <2> SUFFICES ASSUME StreamInv, Finished
               PROVE  CallsInPlace(fold.content) /\ FragmentsInPlace(fold.content)
    BY DEF FaithfulCopy
  <2>1. fold.content \in Seq(Blocks) /\ log \in Seq(Sents)
    BY DEF StreamInv, TypeInv, FoldStates
  <2>2. Ledger(fold.content, log) /\ CallsInPlace(fold.content)
    BY DEF StreamInv, CopyInv
  <2> QED BY <2>1, <2>2, LedgerInPlace
<1>2. StreamInv => MessageIsFaithful
  BY <1>1, ViewFollows DEF MessageIsFaithful
<1> QED BY <1>2, StreamInvariant, PTL
=============================================================================
