----------------------------- MODULE Compaction -----------------------------
(***************************************************************************)
(* internal/compaction as the between-turn hook uses it: the token         *)
(* estimate, the cut point, the two parts a cut summarises, the file lists *)
(* of a summary and the history rebuilt around it.                         *)
(*                                                                         *)
(* The hook wraps every message in an entry of type "message" (session's   *)
(* messagesToEntries) and nothing else in the program builds an entry, so  *)
(* the branches for compaction, branch and custom entries are left out.    *)
(* Sizes are in units of tokens; the text of a summary is the set of the   *)
(* messages it stands for.                                                 *)
(*                                                                         *)
(* A definition introduced by "Defect:" is not part of the model.  It is   *)
(* the definition that follows it with a plausible bug.                    *)
(***************************************************************************)
EXTENDS Transcript

CONSTANTS
  ContextWindow,      \* of the model the agent was built with
  ReserveTokens, KeepRecentTokens,   \* DefaultCompactionSettings
  SummarySize         \* what a summary adds to the context

----------------------------------------------------------------------------
(* Estimate (EstimateTokens; estimate.EstimateMessages agrees with it)     *)

TokensOf(msgs) == FoldLeft(LAMBDA total, m : total + m.size, 0, msgs)
After(msgs, i) == SubSeq(msgs, i + 1, Len(msgs))

\* getAssistantUsage: a failed reply says nothing about the context.
HasUsage(m) == IsAssistant(m) /\ ~Failed(m) /\ m.usage > 0

\* EstimateContextTokens: the last reported usage and the messages after it.
EstimateContext(msgs) ==
  LET anchor == SelectLastInSeq(msgs, HasUsage)
  IN IF anchor = 0 THEN TokensOf(msgs)
     ELSE msgs[anchor].usage + TokensOf(After(msgs, anchor))

ShouldCompact(msgs) == EstimateContext(msgs) > ContextWindow - ReserveTokens

----------------------------------------------------------------------------
(* Cut point                                                               *)

\* findValidCutPoints: a result stays with the call it answers.
CutPoints(msgs) == {i \in DOMAIN msgs : ~IsResult(msgs[i])}

\* FindCutPoint: the first cut point of the shortest tail that holds KeepRecentTokens,
\* or the first of all when no tail does or no cut point lies in it.
FindCutPoint(msgs) ==
  LET full == {i \in DOMAIN msgs : TokensOf(After(msgs, i - 1)) >= KeepRecentTokens}
      inTail == {c \in CutPoints(msgs) : full # {} /\ c >= Max(full)}
  IN IF inTail = {} THEN Min(CutPoints(msgs)) ELSE Min(inTail)

\* FindTurnStartIndex; 0 when there is none.
TurnStart(msgs, i) == Max({0} \cup {j \in 1..i : IsUser(msgs[j])})

----------------------------------------------------------------------------
(* Summary                                                                 *)

NoFiles == [read |-> {}, modified |-> {}]

\* ExtractFileOpsFromMessage and ComputeFileLists, for messages of which each call of
\* "read" or "edit" names the file of its own.
FileLists(msgs) ==
  LET named(tool) == {msgs[i].n : i \in {j \in DOMAIN msgs :
                        /\ IsAssistant(msgs[j])
                        /\ \E k \in DOMAIN msgs[j].content : msgs[j].content[k].kind = "call"
                                                /\ msgs[j].content[k].mark = tool}}
  IN [read |-> named("read") \ named("edit"), modified |-> named("edit")]

\* The messages a message stands for: itself, and what a summary inside it tells.
Told(m) == ({m.n} \ {0}) \cup (IF IsUser(m) THEN m.sum ELSE {})
AllTold(msgs) == UNION {Told(msgs[i]) : i \in DOMAIN msgs}

\* Defect: the prefix of a split turn is dropped, not summarised.
PrepareNoPrefix(msgs) ==
  LET cut == FindCutPoint(msgs)
      start == TurnStart(msgs, cut)
      split == ~IsUser(msgs[cut]) /\ start # 0
  IN [cut |-> cut, history |-> SubSeq(msgs, 1, (IF split THEN start ELSE cut) - 1),
      prefix |-> <<>>]

\* PrepareCompaction: what lies before the turn of the cut, and the part of that turn
\* before the cut when the cut splits it.
PrepareCompaction(msgs) ==
  LET cut == FindCutPoint(msgs)
      start == TurnStart(msgs, cut)
      split == ~IsUser(msgs[cut]) /\ start # 0
  IN [cut |-> cut, history |-> SubSeq(msgs, 1, (IF split THEN start ELSE cut) - 1),
      prefix |-> IF split THEN SubSeq(msgs, start, cut - 1) ELSE <<>>]

NothingToSummarize(prep) == prep.history = <<>> /\ prep.prefix = <<>>

\* Compact: a summary of each part, and the files they read and modified.
Compact(prep) ==
  [sum |-> AllTold(prep.history \o prep.prefix),
   files |-> FileLists(prep.history \o prep.prefix)]

\* Defect: the summary is always a turn of its own.
ApplyUnmerged(msgs, prep, summary) ==
  <<[UserMessage(0, SummarySize, <<TextBlock>>) EXCEPT
       !.sum = summary.sum, !.files = summary.files]>> \o After(msgs, prep.cut - 1)

\* ApplyCompaction: the summary leads, inside the first kept message when that is the
\* user's.
ApplyCompaction(msgs, prep, summary) ==
  LET kept == After(msgs, prep.cut - 1)
      own == UserMessage(0, 0, <<>>)
      first == IF IsUser(kept[1]) THEN kept[1] ELSE own
      merged == [first EXCEPT !.size = @ + SummarySize, !.content = <<TextBlock>> \o @,
                              !.sum = summary.sum, !.files = summary.files]
  IN <<merged>> \o (IF IsUser(kept[1]) THEN Tail(kept) ELSE kept)
=============================================================================
