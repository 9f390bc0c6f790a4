--------------------------- MODULE AssistantFeed ---------------------------
(***************************************************************************)
(* What every provider promises the agent loop about the events of one     *)
(* answer, whatever wire format it decodes: a start, then content blocks   *)
(* that are opened in index order, only grow while they are open and are   *)
(* closed at most once, then exactly one terminal event.  A done event     *)
(* closes every block first and never carries an error reason.             *)
(***************************************************************************)
EXTENDS Naturals, Sequences, SequencesExt

CONSTANT Fragments           \* the pieces of text and arguments an answer is made of

VARIABLES started, blocks, terminal
vars == <<started, blocks, terminal>>

Kinds == {"text", "thinking", "toolCall"}
Live == "none"
DoneReasons == {"stop", "length", "toolUse"}
ErrorReasons == {"error", "aborted"}

Init == started = FALSE /\ blocks = <<>> /\ terminal = Live

Start == /\ ~started /\ terminal = Live
         /\ started' = TRUE
         /\ UNCHANGED <<blocks, terminal>>

Open(kind) == /\ started /\ terminal = Live
              /\ blocks' = Append(blocks, [kind |-> kind, payload |-> <<>>, closed |-> FALSE])
              /\ UNCHANGED <<started, terminal>>

Filled(block, more, closed) == [kind |-> block.kind, payload |-> block.payload \o more,
                                closed |-> closed]

Extend(i, f) == /\ terminal = Live /\ ~blocks[i].closed
                /\ blocks' = [blocks EXCEPT ![i] = Filled(@, <<f>>, FALSE)]
                /\ UNCHANGED <<started, terminal>>

\* An end event carries the whole block: what came without a delta (redacted
\* reasoning) arrives with it.
Close(i, rest) == /\ terminal = Live /\ ~blocks[i].closed
                  /\ blocks' = [blocks EXCEPT ![i] = Filled(@, rest, TRUE)]
                  /\ UNCHANGED <<started, terminal>>

Done(reason) == /\ started /\ terminal = Live
                /\ \A i \in DOMAIN blocks : blocks[i].closed
                /\ terminal' = reason
                /\ UNCHANGED <<started, blocks>>

\* An error may come before the start event and may leave blocks open.
Fail(reason) == /\ terminal = Live
                /\ terminal' = reason
                /\ UNCHANGED <<started, blocks>>

Next == \/ Start
        \/ \E kind \in Kinds : Open(kind)
        \/ \E i \in DOMAIN blocks, f \in Fragments : Extend(i, f)
        \/ \E i \in DOMAIN blocks, rest \in {<<>>} \cup {<<f>> : f \in Fragments} : Close(i, rest)
        \/ \E reason \in DoneReasons : Done(reason)
        \/ \E reason \in ErrorReasons : Fail(reason)

Spec == Init /\ [][Next]_vars
=============================================================================
