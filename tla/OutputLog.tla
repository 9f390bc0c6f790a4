------------------------------ MODULE OutputLog ------------------------------
(***************************************************************************)
(* The output of a command as the bash tool keeps it: OutputAccumulator of *)
(* internal/toolio over Tail of internal/truncate, fed with what the pipes *)
(* of the command bring, in pieces that end anywhere.                      *)
(*                                                                         *)
(* Output is a sequence of bytes.  "nl" is a line feed, "hi" "lo" are the  *)
(* two bytes of one character, and every other byte is a character.  What  *)
(* is no character decodes to the replacement character, three bytes.      *)
(*                                                                         *)
(* A definition introduced by "Defect:" is not part of the model.  It is   *)
(* the definition that follows it with a plausible bug.                    *)
(***************************************************************************)
EXTENDS Integers, Sequences, SequencesExt, FiniteSets, FiniteSetsExt

CONSTANTS
  Pieces,         \* what one read of a pipe may bring
  OutputBound,      \* bound: bytes of the output
  maxLines, maxBytes,
  DiskFaults      \* bound: operations on the temporary file that fail

\* A byte is a string.
LogAssumption == Pieces \subseteq Seq(STRING)

VARIABLES
  raw,            \* history: what was appended, in order
  pendingUTF8,    \* the incomplete character at the end of the last piece
  tailText, tailStartsAtLineBoundary,
  totalDecodedBytes, completedLines, currentLineBytes,
  rawChunks,      \* pieces kept for the temporary file
  tempFile,       \* <<>>: none, <<bytes>>: what it holds
  faults,
  logStep,        \* "running", "finished", "reported"
  snapshot        \* what Snapshot returned

textVars == <<pendingUTF8, tailText, tailStartsAtLineBoundary, totalDecodedBytes,
              completedLines, currentLineBytes>>
logVars == <<raw, textVars, rawChunks, tempFile, faults, logStep, snapshot>>

maxRollingBytes == 2 * maxBytes
Continuation == {"lo"}
Replacement == <<"bad", "lo", "lo">>

----------------------------------------------------------------------------
(* internal/truncate                                                       *)

\* splitLinesForCounting: a line feed at the end starts no line.
LinesOf(text) ==
  LET split == FoldLeft(LAMBDA lines, c : IF c = "nl" THEN Append(lines, <<>>)
                                          ELSE [lines EXCEPT ![Len(lines)] = Append(@, c)],
                        << <<>> >>, text)
  IN IF Last(split) = <<>> THEN Front(split) ELSE split

\* truncateStringToBytesFromEnd and the cut of trimTail: the last n bytes, or fewer, so
\* that no character is cut.
LastBytes(text, n) ==
  IF Len(text) <= n THEN text
  ELSE LET starts == {i \in (Len(text) - n + 1)..Len(text) : text[i] \notin Continuation}
       IN IF starts = {} THEN <<>> ELSE SubSeq(text, Min(starts), Len(text))

\* Lines with line feeds between them.
Joined(lines) == IF lines = <<>> THEN <<>>
                 ELSE Tail(FlattenSeq([k \in DOMAIN lines |-> <<"nl">> \o lines[k]]))

\* Tail: the text if it is within the limits, else the last lines that are, else the end
\* of the last line.
TailOf(text) ==
  LET lines == LinesOf(text)
      last(n) == Joined(SubSeq(lines, Len(lines) - n + 1, Len(lines)))
      fitting == {n \in 1..Min({maxLines, Len(lines)}) : Len(last(n)) <= maxBytes}
  IN IF Len(lines) <= maxLines /\ Len(text) <= maxBytes THEN text
     ELSE IF fitting # {} THEN last(Max(fitting))
     ELSE LastBytes(Last(lines), maxBytes)

----------------------------------------------------------------------------
(* decode                                                                  *)

\* Defect: every piece is decoded by itself.
DecodePiecewise(buf, final) ==
  LET step(acc, i) ==
        CASE i < acc.next -> acc
          [] buf[i] = "hi" /\ i < Len(buf) /\ buf[i + 1] = "lo" ->
               [acc EXCEPT !.text = @ \o <<"hi", "lo">>, !.next = i + 2]
          [] buf[i] \in {"hi", "lo"} -> [acc EXCEPT !.text = @ \o Replacement]
          [] OTHER -> [acc EXCEPT !.text = Append(@, buf[i])]
  IN FoldLeft(step, [text |-> <<>>, next |-> 1, pending |-> <<>>], [i \in DOMAIN buf |-> i])

\* The text of the complete characters, and the start of one that is not complete.
Decode(buf, final) ==
  LET step(acc, i) ==
        CASE i < acc.next -> acc
          [] buf[i] = "hi" /\ i < Len(buf) /\ buf[i + 1] = "lo" ->
               [acc EXCEPT !.text = @ \o <<"hi", "lo">>, !.next = i + 2]
          [] buf[i] = "hi" /\ i = Len(buf) /\ ~final -> [acc EXCEPT !.pending = <<"hi">>]
          [] buf[i] \in {"hi", "lo"} -> [acc EXCEPT !.text = @ \o Replacement]
          [] OTHER -> [acc EXCEPT !.text = Append(@, buf[i])]
  IN FoldLeft(step, [text |-> <<>>, next |-> 1, pending |-> <<>>], [i \in DOMAIN buf |-> i])

----------------------------------------------------------------------------
LogInit ==
  /\ raw = <<>> /\ pendingUTF8 = <<>>
  /\ tailText = <<>> /\ tailStartsAtLineBoundary = TRUE
  /\ totalDecodedBytes = 0 /\ completedLines = 0 /\ currentLineBytes = 0
  /\ rawChunks = <<>> /\ tempFile = <<>> /\ faults = 0
  /\ logStep = "running"
  /\ snapshot = [content |-> <<>>, truncated |-> FALSE, file |-> <<>>]

\* trimTail.
Trimmed(text) == IF Len(text) > 2 * maxRollingBytes THEN LastBytes(text, maxRollingBytes) ELSE text

\* appendDecodedText of what decode returns.
AppendText(piece, final) ==
  LET decoded == Decode(pendingUTF8 \o piece, final)
      text == decoded.text
      grown == tailText \o text
      breaks == {i \in DOMAIN text : text[i] = "nl"}
      cut == Len(grown) - Len(Trimmed(grown))
  IN /\ pendingUTF8' = decoded.pending
     /\ totalDecodedBytes' = totalDecodedBytes + Len(text)
     /\ tailText' = Trimmed(grown)
     /\ tailStartsAtLineBoundary' =
          IF cut = 0 THEN tailStartsAtLineBoundary ELSE grown[cut] = "nl"
     /\ completedLines' = completedLines + Cardinality(breaks)
     /\ currentLineBytes' = IF breaks = {} THEN currentLineBytes + Len(text)
                            ELSE Len(text) - Max(breaks)

\* A line is open when it has bytes.
totalLines == completedLines + (IF currentLineBytes > 0 THEN 1 ELSE 0)
shouldUseTempFile ==
  Len(raw) > maxBytes \/ totalDecodedBytes > maxBytes \/ totalLines > maxLines

DiskFails == faults < DiskFaults /\ faults' = faults + 1

\* ensureTempFile, and the write of the piece: the file is created with the chunks kept
\* so far.  When it cannot be created the piece is lost, when a write fails the file is
\* removed; the chunks are gone once they are copied.
Spill(piece) ==
  \/ /\ tempFile' = <<(IF tempFile = <<>> THEN rawChunks ELSE tempFile[1]) \o piece>>
     /\ rawChunks' = <<>> /\ UNCHANGED faults
  \/ /\ DiskFails /\ tempFile' = <<>>
     /\ rawChunks' \in {rawChunks} \cup (IF piece = <<>> THEN {} ELSE {<<>>})

\* Append, under the tool's mutex; the tool ignores its error.
AppendPiece(piece) ==
  /\ logStep = "running" /\ Len(raw) + Len(piece) <= OutputBound
  /\ raw' = raw \o piece
  /\ AppendText(piece, FALSE)
  /\ IF tempFile # <<>> \/ shouldUseTempFile' THEN Spill(piece)
     ELSE rawChunks' = rawChunks \o piece /\ UNCHANGED <<tempFile, faults>>
  /\ UNCHANGED <<logStep, snapshot>>

\* Finish: both pipes have ended.
Finish ==
  /\ logStep = "running" /\ logStep' = "finished"
  /\ UNCHANGED <<raw, snapshot>>
  /\ AppendText(<<>>, TRUE)
  /\ IF tempFile = <<>> /\ shouldUseTempFile' THEN Spill(<<>>)
     ELSE UNCHANGED <<rawChunks, tempFile, faults>>

\* getSnapshotText: a line that was cut at its start is dropped.
SnapshotText ==
  LET breaks == {i \in DOMAIN tailText : tailText[i] = "nl"}
  IN IF tailStartsAtLineBoundary \/ breaks = {} THEN tailText
     ELSE SubSeq(tailText, Min(breaks) + 1, Len(tailText))

Truncated == totalLines > maxLines \/ totalDecodedBytes > maxBytes

\* Snapshot with PersistIfTruncated.  If the file cannot be made the tool goes on with an
\* empty snapshot.
Report ==
  /\ logStep = "finished" /\ logStep' = "reported"
  /\ IF Truncated /\ tempFile = <<>> THEN Spill(<<>>)
     ELSE UNCHANGED <<rawChunks, tempFile, faults>>
  /\ snapshot' = IF faults' > faults THEN snapshot
                 ELSE [content |-> TailOf(SnapshotText), truncated |-> Truncated,
                       file |-> tempFile']
  /\ UNCHANGED <<raw, textVars>>

LogNext == (\E piece \in Pieces : AppendPiece(piece)) \/ Finish \/ Report
LogSpec == LogInit /\ [][LogNext]_logVars

----------------------------------------------------------------------------
(* Properties                                                              *)

Whole == Decode(raw, TRUE).text
\* The rolling buffer is one line that was cut at its start, and ended.
OnlyCutLine ==
  ~tailStartsAtLineBoundary /\ {i \in DOMAIN tailText : tailText[i] = "nl"} = {Len(tailText)}

\* However the output is cut into pieces and however much of it was let go of, what is
\* shown is the end of the whole output, as one call of Tail on it would give it (a line
\* feed at its end apart), and it is called truncated exactly when it is not all
\* (decode, trimTail, getSnapshotText).
TailIsFaithful ==
  logStep = "reported" /\ faults = 0 /\ ~OnlyCutLine =>
    /\ snapshot.content \in {TailOf(Whole), Append(TailOf(Whole), "nl")}
    /\ snapshot.truncated <=> Len(LinesOf(Whole)) > maxLines \/ Len(Whole) > maxBytes

\* The file that a truncated output names holds the raw output from the first byte to the
\* last, those that came before there was a file included (ensureTempFile).
LogIsComplete ==
  logStep = "reported" /\ faults = 0 =>
    /\ snapshot.truncated => snapshot.file # <<>>
    /\ snapshot.file # <<>> => snapshot.file = <<raw>>

\* Both, for one command (OutputAccumulator).
LogIsFaithful == TailIsFaithful /\ LogIsComplete
=============================================================================
