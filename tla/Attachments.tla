----------------------------- MODULE Attachments -----------------------------
(***************************************************************************)
(* The attachments of a session: internal/document (the resolver, the      *)
(* inspector, the content-addressed store), internal/session/prompt.go     *)
(* (what of an attachment a user turn carries) and the attachment blocks   *)
(* of a request, internal/provider/anthropic/convert.go.                   *)
(*                                                                         *)
(* A file is a document of Docs and how much of it there is; its hash is   *)
(* the pair, and the text extracted from it a file of its own.             *)
(*                                                                         *)
(* A definition introduced by "Defect:" is not part of the model.  It is   *)
(* the definition that follows it with a plausible bug.                    *)
(***************************************************************************)
EXTENDS Integers, Sequences, FiniteSets, SequencesExt

CONSTANTS
  Docs,             \* records: what the file is (kind), what its name says (declared),
                    \* size, pages, size of the extractable text, and whether it is sound
  Resolvers,        \* the concurrent calls of Resolve
  attachmentMax,    \* of the resolver
  Window,           \* the context window less what is reserved
  InlineMax,        \* inlineTextThresholdBytes
  ExcerptTokens, ImageTokens, PageTokens,
  MaxPayload, MaxPages,    \* of a request
  MaxFaults,        \* bound: cut connections, failed renames, deleted blobs, restarts
  MaxRequests       \* bound: requests made

\* Sizes and limits are naturals.
AttachmentsAssumption ==
  /\ \A d \in Docs : d.size \in Nat /\ d.pages \in Nat /\ d.textSize \in Nat
  /\ {attachmentMax, Window, ExcerptTokens, ImageTokens, PageTokens, MaxPayload} \subseteq Nat

VARIABLES
  resolves,         \* [Resolvers -> the local state of a Resolve]
  tree,             \* <root>/blobs: hash -> file
  turn, consumed,   \* the blocks of the user turn, MediaDelivery.consumed
  delivery,         \* the request whose attachments are being converted
  deliveries, attachFaults

attachVars == <<resolves, tree, turn, consumed, delivery, deliveries, attachFaults>>

TextTypes == {"text", "html"}

\* What of document d is there: its first n bytes, or the text extracted from it.
File(d, part, n) == [doc |-> d, part |-> part, size |-> n]

IdleResolve == [at |-> "idle"]
NoDelivery == [at |-> "none", next |-> 1, encoded |-> 0, statted |-> 0, sent |-> <<>>]

AttachInit ==
  /\ resolves = [c \in Resolvers |-> IdleResolve] /\ tree = << >>
  /\ turn = <<>> /\ consumed = 0 /\ delivery = NoDelivery /\ deliveries = 0 /\ attachFaults = 0

AttachFault == attachFaults < MaxFaults /\ attachFaults' = attachFaults + 1

----------------------------------------------------------------------------
(* Resolve                                                                 *)

\* The request is answered: how the end of the body is marked is up to the server.
\* The hash is taken of what is copied.
ResolveStart(c) ==
  /\ resolves[c].at = "idle"
  /\ \E d \in Docs, framing \in {"length", "chunked", "close"} :
       resolves' = [resolves EXCEPT ![c] = [at |-> "copying", doc |-> d, framing |-> framing]]
  /\ UNCHANGED <<tree, turn, consumed, delivery, deliveries, attachFaults>>

\* Defect: no byte more than is accepted is read.
CopyLimitExact == attachmentMax

\* What io.Copy reads at most: one byte more than is accepted.
CopyLimit == attachmentMax + 1

\* The temporary file is removed by the deferred functions, the call returns an error.
Refused == [at |-> "refused"]

\* The copy of the body and the checks of its length; n bytes came before the connection
\* closed.  With a length or with chunks a closed connection is an error of the read;
\* without either it is the end of the body.
CopyEnds(c) ==
  /\ resolves[c].at = "copying"
  /\ \E n \in 0..resolves[c].doc.size :
       LET r == resolves[c]
           count == Min({n, CopyLimit})
           cut == n < r.doc.size
           readFails == cut /\ n < CopyLimit /\ r.framing # "close"
           wrongLength == r.framing = "length" /\ r.doc.size # count
       IN /\ IF cut THEN AttachFault ELSE UNCHANGED attachFaults
          /\ resolves' = [resolves EXCEPT ![c] =
               IF readFails \/ count > attachmentMax \/ wrongLength THEN Refused
               ELSE [at |-> "staged", file |-> File(r.doc, "raw", count),
                     endless |-> r.framing = "close"]]
  /\ UNCHANGED <<tree, turn, consumed, delivery, deliveries>>

\* detectMediaType: the first bytes decide, and an empty file is text.
Detected(f) == IF f.size = 0 THEN "text" ELSE f.doc.kind

\* declaredMediaConflict.
Conflict(declared, detected) ==
  \/ declared \in {"pdf", "image"} /\ detected # declared
  \/ declared = "ooxml" /\ detected # "zip"

\* Inspect: the media type of the file, or "refused".  A PDF, an image, a package is read
\* to its end, a text is not read.
Inspect(f) ==
  LET declared == f.doc.declared
      detected == Detected(f)
      sound == f.doc.sound /\ f.size = f.doc.size
  IN CASE Conflict(declared, detected)                    -> "refused"
       [] detected \in {"pdf", "image"} /\ sound          -> detected
       [] detected = "zip" /\ declared = "ooxml" /\ sound -> "ooxml"
       [] detected = "octet" /\ declared \in TextTypes    -> declared
       [] detected \in TextTypes                          -> IF declared \in TextTypes THEN declared
                                                             ELSE detected
       [] OTHER                                           -> "refused"

\* Inspect, and the text of a package extracted into a second temporary file.
Validate(c) ==
  LET r == resolves[c]
      type == Inspect(r.file)
  IN /\ r.at = "staged"
     /\ resolves' = [resolves EXCEPT ![c] =
          IF type = "refused" THEN Refused
          ELSE [at |-> "valid", file |-> r.file, endless |-> r.endless, type |-> type]]
     /\ UNCHANGED <<tree, turn, consumed, delivery, deliveries, attachFaults>>

\* Promote: the rename to the path of the hash.
Promoted(hash, f) == [k \in DOMAIN tree \union {hash} |-> IF k = hash THEN f ELSE tree[k]]

\* The text of a package that is delivered in its place.
Extracted(f) == File(f.doc, "text", f.doc.textSize)

\* The raw file is promoted; it stays when the text is not.
PromoteRaw(c) ==
  LET r == resolves[c]
  IN /\ r.at = "valid" /\ tree' = Promoted(r.file, r.file)
     /\ resolves' = [resolves EXCEPT ![c].at = IF r.type = "ooxml" THEN "rawStored" ELSE "resolved"]
     /\ UNCHANGED <<turn, consumed, delivery, deliveries, attachFaults>>

PromoteText(c) ==
  LET r == resolves[c]
  IN /\ r.at = "rawStored" /\ tree' = Promoted(Extracted(r.file), Extracted(r.file))
     /\ resolves' = [resolves EXCEPT ![c].at = "resolved"]
     /\ UNCHANGED <<turn, consumed, delivery, deliveries, attachFaults>>

\* A file operation fails.
StoreFails(c) ==
  /\ resolves[c].at \in {"copying", "valid", "rawStored"} /\ AttachFault
  /\ resolves' = [resolves EXCEPT ![c] = Refused]
  /\ UNCHANGED <<tree, turn, consumed, delivery, deliveries>>

----------------------------------------------------------------------------
(* The user turn: mediaRefToBlocks                                         *)

\* deliveredBlob: the block of the file that is delivered.
Delivered(r) ==
  [file |-> IF r.type = "ooxml" THEN Extracted(r.file) ELSE r.file,
   type |-> IF r.type = "ooxml" THEN "text" ELSE r.type,
   pages |-> IF r.type = "pdf" THEN r.file.doc.pages ELSE 0,
   endless |-> r.endless]

\* tokensFromBytes, with charsPerToken = 1.
BlockTokens(block) ==
  CASE block.type = "image" -> ImageTokens
    [] block.type = "pdf"   -> PageTokens * Max({block.pages, 1})
    [] OTHER                -> block.file.size

Remaining == Window - consumed

\* The whole file as a reference; a text that does not fit as the excerpt read from the
\* store; else a note.
Admit(c) ==
  LET block == Delivered(resolves[c])
      whole == BlockTokens(block) <= Remaining /\ (block.type = "text" => block.file.size <= InlineMax)
      excerpt == block.type = "text" /\ ExcerptTokens <= Remaining /\ block.file \in DOMAIN tree
  IN /\ turn' = Append(turn, [block EXCEPT !.type = CASE whole -> @
                                                       [] ~whole /\ excerpt -> "excerpt"
                                                       [] OTHER -> "note"])
     /\ consumed' = consumed + (CASE whole -> BlockTokens(block)
                                  [] ~whole /\ excerpt -> ExcerptTokens
                                  [] OTHER -> 0)

\* The resolved attachment joins the turn.
Attach(c) ==
  /\ resolves[c].at = "resolved" /\ deliveries = 0
  /\ Admit(c)
  /\ resolves' = [resolves EXCEPT ![c] = [at |-> "attached"]]
  /\ UNCHANGED <<tree, delivery, deliveries, attachFaults>>

----------------------------------------------------------------------------
(* A request: convertMessages, referencedContentBlock                      *)

RequestStart ==
  /\ delivery.at \in {"none", "sent", "failed"} /\ turn # <<>> /\ deliveries < MaxRequests
  /\ deliveries' = deliveries + 1 /\ delivery' = [NoDelivery EXCEPT !.at = "block"]
  /\ UNCHANGED <<resolves, tree, turn, consumed, attachFaults>>

\* base64.StdEncoding.EncodedLen.
EncodedLen(n) == 4 * ((n + 2) \div 3)

\* A route carries PDFs within its page limit, images and plain text.
Supported(block) ==
  block.type \in {"text", "image"} \/ (block.type = "pdf" /\ block.pages <= MaxPages)

\* reserveRaw: the budget counts the encoded bytes of every attachment of the request.
Reserve(size) ==
  IF size > MaxPayload \/ EncodedLen(size) > MaxPayload - delivery.encoded
  THEN [delivery EXCEPT !.at = "failed"]
  ELSE [delivery EXCEPT !.at = "read", !.statted = size, !.encoded = @ + EncodedLen(size)]

\* An excerpt and a note are text of the turn; a reference is sized first.
ConvertBlock ==
  /\ delivery.at = "block" /\ delivery.next <= Len(turn)
  /\ LET block == turn[delivery.next]
     IN delivery' = CASE block.type \in {"excerpt", "note"} -> [delivery EXCEPT !.next = @ + 1]
                     [] block.type \notin {"excerpt", "note"} /\ Supported(block)
                        /\ block.file \in DOMAIN tree -> Reserve(tree[block.file].size)
                     [] OTHER -> [delivery EXCEPT !.at = "failed"]
  /\ UNCHANGED <<resolves, tree, turn, consumed, deliveries, attachFaults>>

\* Then opened and read to the size reserved; text that is not UTF-8 is refused.
ReadBlob ==
  /\ delivery.at = "read"
  /\ LET block == turn[delivery.next]
         readable == /\ block.file \in DOMAIN tree
                     /\ tree[block.file].size = delivery.statted
                     /\ ~(block.type = "text" /\ block.file.size > 0 /\ block.file.doc.kind = "octet")
     IN delivery' = IF readable
                   THEN [delivery EXCEPT !.at = "block", !.next = @ + 1,
                                        !.sent = Append(@, tree[block.file])]
                   ELSE [delivery EXCEPT !.at = "failed"]
  /\ UNCHANGED <<resolves, tree, turn, consumed, deliveries, attachFaults>>

RequestSent ==
  /\ delivery.at = "block" /\ delivery.next > Len(turn) /\ delivery' = [delivery EXCEPT !.at = "sent"]
  /\ UNCHANGED <<resolves, tree, turn, consumed, deliveries, attachFaults>>

----------------------------------------------------------------------------
(* The environment                                                         *)

\* Delete, by whoever owns the session.
Delete(f) ==
  /\ AttachFault /\ f \in DOMAIN tree
  /\ tree' = [k \in DOMAIN tree \ {f} |-> tree[k]]
  /\ UNCHANGED <<resolves, turn, consumed, delivery, deliveries>>

\* The process restarts: the calls are lost, their temporary files stay beside the tree; a
\* turn that was sent is read back from the session.
ProcessRestart ==
  /\ AttachFault /\ resolves' = [c \in Resolvers |-> IdleResolve] /\ delivery' = NoDelivery
  /\ turn' = IF deliveries = 0 THEN <<>> ELSE turn
  /\ consumed' = IF deliveries = 0 THEN 0 ELSE consumed
  /\ UNCHANGED <<tree, deliveries>>

ResolveStep(c) ==
  \/ ResolveStart(c) \/ CopyEnds(c) \/ Validate(c) \/ PromoteRaw(c) \/ PromoteText(c)
  \/ StoreFails(c) \/ Attach(c)

AttachNext ==
  \/ \E c \in Resolvers : ResolveStep(c)
  \/ RequestStart \/ ConvertBlock \/ ReadBlob \/ RequestSent
  \/ \E f \in DOMAIN tree : Delete(f)
  \/ ProcessRestart

AttachSpec == AttachInit /\ [][AttachNext]_attachVars

----------------------------------------------------------------------------
(* Properties                                                              *)

TotalOf(sizes) ==
  LET total[n \in 0..Len(sizes)] == IF n = 0 THEN 0 ELSE total[n - 1] + sizes[n]
  IN total[Len(sizes)]

\* The store holds files under their own hash, of the size that is accepted, which Inspect
\* accepts as they are, and the texts of packages that it accepts (Resolve, Promote).
StoreIsSound ==
  \A h \in DOMAIN tree :
    /\ tree[h] = h
    /\ h.part = "raw" => h.size <= attachmentMax /\ Inspect(h) # "refused"
    /\ h.part = "text" => Inspect(File(h.doc, "raw", h.doc.size)) = "ooxml"

Charge(block) == CASE block.type = "note"    -> 0
                   [] block.type = "excerpt" -> ExcerptTokens
                   [] OTHER                  -> BlockTokens(block)

\* A turn carries no shortened file, unless the server marked no end, and what it was
\* charged for fits the window (mediaRefToBlocks).
TurnFits ==
  /\ \A k \in DOMAIN turn : ~turn[k].endless /\ turn[k].file.part = "raw"
                            => turn[k].file.size = turn[k].file.doc.size
  /\ TotalOf([k \in DOMAIN turn |-> Charge(turn[k])]) <= Window

Referenced == {k \in DOMAIN turn : turn[k].type \notin {"excerpt", "note"}}
\* The place of block k among the referenced ones.
Place(k) == Cardinality({j \in Referenced : j <= k})

\* A request that is sent holds every attachment its turn references, in their order, and
\* they fit the payload (convertMessages).
RequestIsWhole ==
  /\ TotalOf([k \in DOMAIN delivery.sent |-> EncodedLen(delivery.sent[k].size)]) <= MaxPayload
  /\ delivery.at = "sent" =>
       /\ Len(delivery.sent) = Cardinality(Referenced)
       /\ \A k \in Referenced : delivery.sent[Place(k)] = turn[k].file

\* The attachments of a session, from the server to the request.
AttachmentsHold == StoreIsSound /\ TurnFits /\ RequestIsWhole
=============================================================================
