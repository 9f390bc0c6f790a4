------------------------------ MODULE Journal ------------------------------
(***************************************************************************)
(* The session journal: the file format and the Store of                   *)
(* internal/session/journal (entry.go, store.go, resume.go) under the      *)
(* command that uses it, runOneShot, openSession and persistNewMessages of *)
(* cmd/harness/main.go.  One session, whose runs follow one another; a run *)
(* may crash at any point and a write may fail or be torn.                 *)
(*                                                                         *)
(* A line of the file is a sequence of fragments: a write appends one      *)
(* fragment to the unterminated last line or starts a line of its own.  A  *)
(* fragment holds the JSON of its entry whole, or a proper prefix of it.   *)
(* A line decodes iff it is one whole fragment.  A message is its role and *)
(* the sequence of the texts it is made of.                                *)
(*                                                                         *)
(* A definition introduced by "Defect:" is not part of the model.  It is   *)
(* the definition that follows it with a plausible bug.                    *)
(***************************************************************************)
EXTENDS Naturals, Sequences

CONSTANTS
  Models,        \* model ids a run may be started with
  Tears,         \* where a failing write may stop: "part", "body" (before the newline)
  MaxRuns,       \* bound: runs of the command
  MaxMessages,   \* bound: new messages of a run
  MaxForeign     \* bound: entries written by another version of the program

ASSUME JournalAssumption ==
  /\ Models # {} /\ Tears \subseteq {"part", "body"}
  /\ MaxRuns \in Nat /\ MaxMessages \in Nat /\ MaxForeign \in Nat

None == "none"
Kinds == {"session", "message", "model_change", "compaction", "future"}
Roles == {"user", "assistant"}

VARIABLES
  lines, terminated,     \* the file: its lines, and whether the last one has its newline
  pc,                    \* the run: off, create, model, run or persist
  model, lastID,         \* the run's model, Store.lastID
  seed, transcript,      \* messages the run started with, the Agent's messages at its end
  pending,               \* messages persistNewMessages has not appended yet
  acked,                 \* history: entries whose append returned nil
  newID, text,           \* fresh journal ids and message texts
  runs, foreign          \* bound counters

fileVars == <<lines, terminated>>
runVars == <<pc, model, lastID, seed, transcript, pending>>
vars == <<fileVars, runVars, acked, newID, text, runs, foreign>>

Blank == [kind |-> "message", id |-> 0, parent |-> 0, model |-> None, kept |-> 0,
          message |-> [role |-> "user", texts |-> <<>>]]

(***************************************************************************)
(* Reading: decodeEntry, Load, applyCompaction.                            *)
(***************************************************************************)
Decodes(line) == Len(line) = 1 /\ line[1].whole

\* Load tolerates a malformed last line only.
Loadable ==
  /\ lines # <<>>
  /\ Decodes(lines[1]) /\ lines[1][1].entry.kind = "session"
  /\ \A i \in 2..(Len(lines) - 1) : Decodes(lines[i])

TornTail == Len(lines) > 1 /\ ~Decodes(lines[Len(lines)])

\* The entries after the header, the malformed last line dropped.
Loaded ==
  LET last == IF TornTail THEN Len(lines) - 1 ELSE Len(lines) IN
  [i \in 1..(last - 1) |-> lines[i + 1][1].entry]

LastIDOf(entries) == IF entries = <<>> THEN 0 ELSE entries[Len(entries)].id

ModelOf(entries) ==
  LET changes == {i \in DOMAIN entries : entries[i].kind = "model_change"} IN
  IF changes = {} THEN None
  ELSE entries[CHOOSE i \in changes : \A j \in changes : j <= i].model

\* The kept messages with the summary in front, merged into a leading user message.
applyCompaction(messages, e) ==
  LET starts == {i \in DOMAIN messages : messages[i].id = e.kept}
      kept == IF starts = {} THEN messages
              ELSE SubSeq(messages, CHOOSE i \in starts : \A j \in starts : i <= j,
                          Len(messages))
  IN IF kept # <<>> /\ kept[1].message.role = "user"
     THEN [kept EXCEPT ![1].message.texts = e.message.texts \o @]
     ELSE <<[id |-> 0, message |-> e.message]>> \o kept

Replay(entries) ==
  LET replayed[n \in 0..Len(entries)] ==
        IF n = 0 THEN <<>>
        ELSE LET e == entries[n] IN
             CASE e.kind = "message" ->
                    Append(replayed[n - 1], [id |-> e.id, message |-> e.message])
               [] e.kind = "compaction" -> applyCompaction(replayed[n - 1], e)
               [] OTHER -> replayed[n - 1]
      final == replayed[Len(entries)]
  IN [i \in DOMAIN final |-> final[i].message]

(***************************************************************************)
(* Writing: writeLine and append.                                          *)
(***************************************************************************)
Put(e, whole) ==
  LET fragment == [entry |-> e, whole |-> whole] IN
  IF terminated THEN Append(lines, <<fragment>>)
  ELSE [lines EXCEPT ![Len(lines)] = Append(@, fragment)]

\* What a write that stops at cut leaves in the file.
Write(e, cut) ==
  IF cut = "nothing" THEN UNCHANGED fileVars
  ELSE lines' = Put(e, cut # "part") /\ terminated' = (cut = "line")

Off ==
  /\ pc' = "off"
  /\ pending' = <<>>
  /\ UNCHANGED <<model, lastID, seed, transcript>>

\* append returns nil: the entry is on its line.
Acknowledge(e) ==
  /\ Write(e, "line")
  /\ lastID' = e.id
  /\ acked' = Append(acked, e)

\* append returns an error, on which the command gives up, or the process dies
\* in it, the line possibly written.
Fail(e) ==
  /\ \E cut \in {"nothing", "line"} \cup Tears : Write(e, cut)
  /\ Off
  /\ UNCHANGED acked

AppendEntry(body, goOn) ==
  LET e == [body EXCEPT !.id = newID, !.parent = lastID] IN
  /\ newID' = newID + 1
  /\ \/ Acknowledge(e) /\ goOn
     \/ Fail(e)

(***************************************************************************)
(* A run of the command.                                                   *)
(***************************************************************************)
\* Create: a header that cannot be written takes the file with it, unless the
\* process dies first.
CreateSession(m) ==
  /\ pc = "off" /\ lines = <<>> /\ runs < MaxRuns
  /\ runs' = runs + 1
  /\ model' = m /\ lastID' = 0 /\ seed' = <<>> /\ transcript' = <<>>
  /\ \/ /\ Write([Blank EXCEPT !.kind = "session"], "line")
        /\ pc' = "model"
     \/ /\ \E cut \in {"nothing", "line"} \cup Tears : Write([Blank EXCEPT !.kind = "session"], cut)
        /\ pc' = "off"
  /\ UNCHANGED <<pending, acked, newID, text, foreign>>

\* Defect: the last line is dropped whatever it is.
TrimmedAlways ==
  /\ lines' = SubSeq(lines, 1, Len(lines) - 1)
  /\ terminated' = TRUE

\* trimMalformedFinalLine.
Trimmed ==
  IF TornTail THEN lines' = SubSeq(lines, 1, Len(lines) - 1) /\ terminated' = TRUE
  ELSE UNCHANGED fileVars

\* openResumedSession: OpenForResume, then the model is recorded if it changed.
ResumeSession(m) ==
  /\ pc = "off" /\ runs < MaxRuns
  /\ Loadable
  /\ runs' = runs + 1
  /\ Trimmed
  /\ model' = m
  /\ lastID' = LastIDOf(Loaded)
  /\ seed' = Replay(Loaded) /\ transcript' = Replay(Loaded)
  /\ pc' = IF ModelOf(Loaded) = m THEN "run" ELSE "model"
  /\ UNCHANGED <<pending, acked, newID, text, foreign>>

RecordModel ==
  /\ pc = "model"
  /\ AppendEntry([Blank EXCEPT !.kind = "model_change", !.model = model],
                 pc' = "run" /\ UNCHANGED <<model, seed, transcript, pending>>)
  /\ UNCHANGED <<text, runs, foreign>>

\* The agent runs: new messages follow the seed, and a compaction may have
\* replaced a prefix of the whole by a summary.
Converse ==
  /\ pc = "run" /\ transcript = seed
  /\ \E n \in 1..MaxMessages : \E roles \in [1..n -> Roles] :
       LET new == [i \in 1..n |-> [role |-> roles[i], texts |-> <<text + i>>]]
           whole == seed \o new
           summary == [role |-> "user", texts |-> <<text + n + 1>>]
       IN /\ text' = text + n + 1
          /\ \/ transcript' = whole
             \/ \E first \in 2..Len(whole) :
                  transcript' = <<summary>> \o SubSeq(whole, first, Len(whole))
  /\ UNCHANGED <<fileVars, pc, model, lastID, seed, pending, acked, newID,
                 runs, foreign>>

\* RunCompletionLoop returned an error: runOneShot returns before persisting.
RunFails ==
  /\ pc = "run"
  /\ Off
  /\ UNCHANGED <<fileVars, acked, newID, text, runs, foreign>>

Extends(messages, prefix) ==
  Len(prefix) <= Len(messages) /\ SubSeq(messages, 1, Len(prefix)) = prefix

\* Defect: the histories are not compared, only their lengths.
persistNewMessagesByLength ==
  /\ pc = "run" /\ transcript # seed
  /\ IF Len(transcript) >= Len(seed)
     THEN pc' = "persist" /\ pending' = SubSeq(transcript, Len(seed) + 1, Len(transcript))
     ELSE pc' = "off" /\ UNCHANGED pending
  /\ UNCHANGED <<fileVars, model, lastID, seed, transcript, acked, newID, text,
                 runs, foreign>>

persistNewMessages ==
  /\ pc = "run" /\ transcript # seed
  /\ IF Extends(transcript, seed)
     THEN pc' = "persist" /\ pending' = SubSeq(transcript, Len(seed) + 1, Len(transcript))
     ELSE pc' = "off" /\ UNCHANGED pending
  /\ UNCHANGED <<fileVars, model, lastID, seed, transcript, acked, newID, text,
                 runs, foreign>>

AppendMessage ==
  /\ pc = "persist" /\ pending # <<>>
  /\ AppendEntry([Blank EXCEPT !.message = Head(pending)],
                 pending' = Tail(pending) /\ UNCHANGED <<pc, model, seed, transcript>>)
  /\ UNCHANGED <<text, runs, foreign>>

Exit ==
  /\ pc = "persist" /\ pending = <<>>
  /\ Off
  /\ UNCHANGED <<fileVars, acked, newID, text, runs, foreign>>

Crash ==
  /\ pc # "off"
  /\ Off
  /\ UNCHANGED <<fileVars, acked, newID, text, runs, foreign>>

\* Another version of the program appends an entry of a kind that this one reads
\* but does not write (compaction), or does not know.
ForeignAppend ==
  /\ pc = "off" /\ Loadable /\ terminated /\ ~TornTail
  /\ foreign < MaxForeign
  /\ foreign' = foreign + 1
  /\ \E kind \in {"compaction", "future"}, kept \in {0} \cup {Loaded[i].id : i \in DOMAIN Loaded} :
       LET e == [kind |-> kind, id |-> newID, parent |-> LastIDOf(Loaded), model |-> None,
                 kept |-> kept, message |-> [role |-> "user", texts |-> <<text + 1>>]]
       IN /\ kept = 0 \/ kind = "compaction"
          /\ Write(e, "line")
          /\ acked' = Append(acked, e)
          /\ seed' = Replay(Append(Loaded, e)) /\ transcript' = Replay(Append(Loaded, e))
  /\ newID' = newID + 1 /\ text' = text + 1
  /\ UNCHANGED <<pc, model, lastID, pending, runs>>

Init ==
  /\ lines = <<>> /\ terminated = TRUE
  /\ pc = "off" /\ model = None /\ lastID = 0
  /\ seed = <<>> /\ transcript = <<>> /\ pending = <<>>
  /\ acked = <<>>
  /\ newID = 1 /\ text = 0 /\ runs = 0 /\ foreign = 0

Next ==
  \/ \E m \in Models : CreateSession(m) \/ ResumeSession(m)
  \/ RecordModel \/ Converse \/ RunFails \/ persistNewMessages \/ AppendMessage
  \/ Exit \/ Crash
  \/ ForeignAppend

Spec == Init /\ [][Next]_vars
-----------------------------------------------------------------------------
\* No acknowledged entry is ever lost, reordered or doubled: as long as entries
\* have been acknowledged the journal loads, and what it loads is those entries,
\* each once and in the order of their appends, and possibly some whose append was
\* cut off after the line was written.
AckedSurvive ==
  acked # <<>> =>
    /\ Loadable
    /\ LET entries == Loaded IN
       \A i \in DOMAIN acked : \E j \in DOMAIN entries :
         /\ entries[j] = acked[i]
         /\ \A k \in DOMAIN acked, l \in DOMAIN entries :
              entries[l] = acked[k] => (i < k <=> j < l)

\* The transcript is linear: every entry's parent is the entry before it, and the
\* next one will be linked to the last one in the file.
ParentChain ==
  Loadable =>
    /\ \A i \in DOMAIN Loaded :
         Loaded[i].parent = (IF i = 1 THEN 0 ELSE Loaded[i - 1].id)
    /\ pc # "off" => lastID = LastIDOf(Loaded)

\* What store.append acknowledged is there to be read, linked as it was written (Load).
EntriesSurvive == AckedSurvive /\ ParentChain

\* What a resume reads back: a journal that was once opened can be opened again;
\* whatever interrupted a run, the history on disk lies between the messages it
\* started with and those it ended with, a compacted history not mixed in; and when
\* persistNewMessages has appended everything it is exactly the agent's messages,
\* under the model the run used.
RoundTrip ==
  pc # "off" \/ seed # <<>> =>
    /\ Loadable
    /\ LET history == Replay(Loaded) IN
       /\ Extends(history, seed)
       /\ Extends(transcript, history) \/ history = seed
       /\ pc = "persist" /\ pending = <<>> =>
            history = transcript /\ ModelOf(Loaded) = model
=============================================================================
