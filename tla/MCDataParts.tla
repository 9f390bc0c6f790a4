---------------------------- MODULE MCDataParts ----------------------------
(***************************************************************************)
(* Instances for TLC of what is done to the data of a run: the             *)
(* conversation, an edit and its diff, the output of a command, the        *)
(* decoding of an event source, attachments, and the completion loop.      *)
(* They share no state here; a behaviour explores one of them, its focus,  *)
(* and the others stay in an initial state.                                *)
(***************************************************************************)
EXTENDS Conversation, CompletionLoop, OutputLog, Attachments

CONSTANTS Contents, EditLists, Bodies

VARIABLES
  focus,
  content, edits, applied, firstChangedLine, editStep,
  body, taken, buffer, sse, heard, tornBreak, sseStep

editVars == <<content, edits, applied, firstChangedLine, editStep>>
sseVars == <<body, taken, buffer, sse, heard, tornBreak, sseStep>>

Edits == INSTANCE EditDiff
Source == INSTANCE EventSource

ASSUME DataPartsAssumption ==
  /\ ConversationAssumption /\ CompletionAssumption
  /\ LogAssumption /\ AttachmentsAssumption

DataInit ==
  /\ focus \in {"conversation", "edit", "log", "sse", "attachments", "loop"}
  /\ IF focus = "conversation" THEN TRUE ELSE model = CHOOSE m \in Models : TRUE
  /\ Init
  /\ LogInit
  /\ IF focus = "sse" THEN TRUE ELSE body = CHOOSE b \in Bodies : TRUE
  /\ Source!SseInit
  /\ AttachInit
  /\ IF focus = "loop" THEN TRUE ELSE flag = "absent"
  /\ LoopInit
  /\ IF focus = "edit" THEN TRUE ELSE content = CHOOSE c \in Contents : TRUE
  /\ IF focus = "edit" THEN TRUE ELSE edits = CHOOSE e \in EditLists : TRUE
  /\ Edits!EditInit

DataNext ==
  \/ /\ focus = "conversation" /\ Next
     /\ UNCHANGED <<focus, editVars, logVars, sseVars, attachVars, loopVars>>
  \/ /\ focus = "edit" /\ Edits!EditNext
     /\ UNCHANGED <<focus, vars, logVars, sseVars, attachVars, loopVars>>
  \/ /\ focus = "log" /\ LogNext
     /\ UNCHANGED <<focus, vars, editVars, sseVars, attachVars, loopVars>>
  \/ /\ focus = "sse" /\ Source!SseNext
     /\ UNCHANGED <<focus, vars, editVars, logVars, attachVars, loopVars>>
  \/ /\ focus = "attachments" /\ AttachNext
     /\ UNCHANGED <<focus, vars, editVars, logVars, sseVars, loopVars>>
  \/ /\ focus = "loop" /\ LoopNext
     /\ UNCHANGED <<focus, vars, editVars, logVars, sseVars, attachVars>>

DataSpec ==
  DataInit /\ [][DataNext]_<<focus, vars, editVars, logVars, sseVars, attachVars, loopVars>>

----------------------------------------------------------------------------
(* The conversation: four models, two of them Gemini's, replies with two   *)
(* calls after signed thinking, one call, an answer, and one that broke    *)
(* off in a call.                                                          *)

FourModels == {[name |-> "claude", api |-> "anthropic", vision |-> TRUE],
               [name |-> "gpt", api |-> "openai", vision |-> FALSE],
               [name |-> "gemini pro", api |-> "google", vision |-> TRUE],
               [name |-> "gemini flash", api |-> "google", vision |-> TRUE]}

TextOrImages == {<<TextBlock, ImageBlock, ImageBlock>>}

Shape(blocks, stop) == [content |-> blocks, stop |-> stop]
Thinking(mark) == Block("thinking", mark, 0)

ReplyShapes ==
  {Shape(<<Thinking("signed"), CallBlock(0, "read"), CallBlock(0, "edit")>>, "toolUse"),
   Shape(<<CallBlock(0, "edit")>>, "toolUse"),
   Shape(<<Thinking("redacted"), Thinking("empty"), TextBlock>>, "stop"),
   Shape(<<TextBlock, CallBlock(0, "read")>>, "error")}

Sizes == [t \in {"read", "edit"} |-> IF t = "read" THEN 3 ELSE 1]

(* Texts of up to three lines, with a foldable character and white space;  *)
(* one or two edits.                                                       *)
Lines == {<<>>, <<"x">>, <<"~">>, <<"x", " ">>, <<"y">>}
MCContents ==
  {Tail(FlattenSeq([k \in DOMAIN s |-> <<"nl">> \o s[k]])) : s \in UNION {[1..n -> Lines] : n \in 1..3}}
Olds == {<<"x">>, <<"x", "nl">>, <<"y">>, <<"nl", "y">>, <<"x", "x">>, <<" ">>,
         <<"x", "nl", "x">>, <<"~">>, <<"y", "nl">>}
Firsts == [old : Olds, new : {<<>>, <<"z", "nl">>}]
Seconds == [old : Olds, new : {<<"z">>}]
MCEditLists == {<<e>> : e \in Firsts \cup Seconds} \cup {<<e, f>> : e \in Firsts, f \in Seconds}

(* Pieces of output that cut a character or a line.                        *)
MCPieces == {<<"nl">>, <<"hi">>, <<"lo", "nl">>, <<"a", "a", "a">>}

(* Bodies of up to four lines with each line break, and two that end in a  *)
(* line.                                                                   *)
BodyTexts == {<<"event", "x">>, <<"data", "y">>, <<":">>, <<>>}
Breaks == {<<"cr", "nl">>, <<"nl">>, <<"cr">>}
MCBodies ==
  UNION {{FlattenSeq([k \in 1..n |-> ls[k] \o b]) : ls \in [1..n -> BodyTexts], b \in Breaks}
         : n \in 1..4}
    \cup {<<"data", "y">>, <<"event", "x", "nl", "data">>}

(* Documents at and over the size limit, one that names another type, one  *)
(* whose text is extracted.                                                *)
Doc(kind, declared, size, pages, textSize) ==
  [kind |-> kind, declared |-> declared, size |-> size, pages |-> pages, textSize |-> textSize,
   sound |-> TRUE]
MCDocs == {Doc("pdf", "none", 2, 2, 0), Doc("text", "text", 3, 0, 0), Doc("zip", "ooxml", 2, 0, 3),
           Doc("octet", "text", 1, 0, 0), Doc("image", "image", 2, 0, 0)}

----------------------------------------------------------------------------
(* The properties of the instances.                                        *)

EditIsFaithful == Edits!EditIsFaithful
EventsAreWhole == Source!EventsAreWhole
=============================================================================
