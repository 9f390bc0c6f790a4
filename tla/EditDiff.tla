------------------------------ MODULE EditDiff ------------------------------
(***************************************************************************)
(* internal/editdiff: the edits of one call of the edit tool applied to a  *)
(* text, and the line diff of the two texts it reports.                    *)
(*                                                                         *)
(* A text is a sequence of characters: "nl" ends a line, " " is white      *)
(* space, "~" any character that NFKC rewrites, here into two "x", and     *)
(* every other character stays itself.  The text has LF endings and no     *)
(* BOM, as the tool hands it over (NormalizeToLF, StripBOM).               *)
(*                                                                         *)
(* A definition introduced by "Defect:" is not part of the model.  It is   *)
(* the definition that follows it with a plausible bug.                    *)
(***************************************************************************)
EXTENDS Integers, Sequences, SequencesExt, FiniteSets, FiniteSetsExt

CONSTANTS
  Contents,      \* the texts a file may have
  EditLists      \* the sequences of edits [old, new] a call may bring

VARIABLES
  content, edits,   \* the call
  applied,          \* what ApplyEditsToNormalizedContent returned
  firstChangedLine, \* what GenerateDiffString returned, 0 before it did
  editStep          \* "given", "applied", "diffed"

editVars == <<content, edits, applied, firstChangedLine, editStep>>

----------------------------------------------------------------------------
(* Lines                                                                   *)

\* strings.Split(text, "\n").
Split(text) ==
  FoldLeft(LAMBDA lines, c : IF c = "nl" THEN Append(lines, <<>>)
                             ELSE [lines EXCEPT ![Len(lines)] = Append(@, c)],
           << <<>> >>, text)

JoinLines(lines) == Tail(FlattenSeq([k \in DOMAIN lines |-> <<"nl">> \o lines[k]]))

\* splitLinesWithEndings.
LinesWithEndings(text) ==
  LET lines == Split(text)
      ended == [k \in DOMAIN lines |-> IF k < Len(lines) THEN Append(lines[k], "nl") ELSE lines[k]]
  IN IF Last(ended) = <<>> THEN Front(ended) ELSE ended

\* getLineSpans.
Spans(text) ==
  LET lines == LinesWithEndings(text)
      end == [k \in 0..Len(lines) |-> Len(FlattenSeq(SubSeq(lines, 1, k)))]
  IN [k \in DOMAIN lines |-> [start |-> end[k - 1], end |-> end[k]]]

----------------------------------------------------------------------------
(* Matching                                                                *)

Folded(c) == IF c = "~" THEN <<"x", "x">> ELSE <<c>>
TrimRight(line) == SubSeq(line, 1, Max({0} \cup {i \in DOMAIN line : line[i] # " "}))

\* NormalizeForFuzzyMatch.
Normalize(text) ==
  LET lines == Split(FlattenSeq([i \in DOMAIN text |-> Folded(text[i])]))
  IN JoinLines([k \in DOMAIN lines |-> TrimRight(lines[k])])

\* The offsets at which part occurs in text.
Occurrences(text, part) ==
  {i \in 0..(Len(text) - Len(part)) : SubSeq(text, i + 1, i + Len(part)) = part}

\* strings.Count: occurrences that do not overlap; an empty part is everywhere.
Count(text, part) ==
  LET found == Occurrences(text, part)
  IN FoldLeft(LAMBDA acc, i : IF i \in found /\ i >= acc.free
                              THEN [free |-> i + Max({1, Len(part)}), number |-> acc.number + 1]
                              ELSE acc,
              [free |-> 0, number |-> 0], [k \in 1..(Len(text) + 1) |-> k - 1]).number

NotFound == [at |-> -1, len |-> 0, fuzzy |-> FALSE]

\* FuzzyFindText.
Find(text, old) ==
  LET exact == Occurrences(text, old)
      fuzzy == Occurrences(Normalize(text), Normalize(old))
  IN IF exact # {} THEN [at |-> Min(exact), len |-> Len(old), fuzzy |-> FALSE]
     ELSE IF fuzzy # {} THEN [at |-> Min(fuzzy), len |-> Len(Normalize(old)), fuzzy |-> TRUE]
     ELSE NotFound

----------------------------------------------------------------------------
(* Applying.  A replacement is [at, len, new], at an offset of the base.   *)

\* Defect: the first replacements are spliced first.
SpliceForward(text, replacements, offset) ==
  FoldLeft(LAMBDA out, r : SubSeq(out, 1, r.at - offset) \o r.new
                             \o SubSeq(out, r.at - offset + r.len + 1, Len(out)),
           text, replacements)

\* applyReplacements: from the last to the first.
Splice(text, replacements, offset) ==
  FoldRight(LAMBDA r, out : SubSeq(out, 1, r.at - offset) \o r.new
                              \o SubSeq(out, r.at - offset + r.len + 1, Len(out)),
            replacements, text)

\* getReplacementLineRange: the lines first..last a replacement touches, if there are
\* any.
LineRange(spans, r) ==
  LET starts == {k \in DOMAIN spans : spans[k].start <= r.at /\ r.at < spans[k].end}
      ends == {k \in DOMAIN spans : \E s \in starts : k >= s /\ spans[k].end >= r.at + r.len}
  IN IF starts = {} \/ ends = {} THEN <<>> ELSE <<Min(starts), Min(ends)>>

\* Replacements that share a line form one group.
AddToGroups(groups, r, range) ==
  IF groups # <<>> /\ range[1] <= Last(groups).last
  THEN [groups EXCEPT ![Len(groups)].last = Max({@, range[2]}),
                      ![Len(groups)].replacements = Append(@, r)]
  ELSE Append(groups, [first |-> range[1], last |-> range[2], replacements |-> <<r>>])

Groups(spans, replacements) ==
  FoldLeft(LAMBDA gs, r : AddToGroups(gs, r, LineRange(spans, r)), <<>>, replacements)

Rewritten(base, spans, g) ==
  Splice(SubSeq(base, spans[g.first].start + 1, spans[g.last].end), g.replacements,
         spans[g.first].start)

\* The lines up to the last group, and where to go on.
EmitGroups(lines, base, spans, groups) ==
  FoldLeft(LAMBDA acc, g :
             [text |-> acc.text \o FlattenSeq(SubSeq(lines, acc.next, g.first - 1))
                        \o Rewritten(base, spans, g),
              next |-> g.last + 1],
           [text |-> <<>>, next |-> 1], groups)

EmitRest(emitted, lines) == emitted.text \o FlattenSeq(SubSeq(lines, emitted.next, Len(lines)))

\* ApplyReplacementsPreservingUnchangedLines: the lines no replacement touches keep
\* their original form; <<>> when the two texts have no common lines.
PreservingLines(lines, base, spans, replacements) ==
  IF \/ Len(lines) # Len(spans)
     \/ \E k \in DOMAIN replacements : LineRange(spans, replacements[k]) = <<>>
  THEN <<>>
  ELSE <<EmitRest(EmitGroups(lines, base, spans, Groups(spans, replacements)), lines)>>

PreservingUnchangedLines(original, base, replacements) ==
  PreservingLines(LinesWithEndings(original), base, Spans(base), replacements)

Refused(error) == [error |-> error, text |-> <<>>, fuzzy |-> FALSE, matched |-> <<>>]

\* In the order of the text.
Sorted(replacements) == SortSeq(replacements, LAMBDA r, s : r.at < s.at)

Overlap(matched) ==
  \E k \in 1..(Len(matched) - 1) : matched[k].at + matched[k].len > matched[k + 1].at

Applied(text, result, fuzzy, matched) ==
  CASE result = <<>>     -> Refused("lines")
    [] result = <<text>> -> Refused("no change")
    [] OTHER -> [error |-> "", text |-> result[1], fuzzy |-> fuzzy, matched |-> matched]

ApplyMatched(text, base, fuzzy, matched) ==
  IF Overlap(matched) THEN Refused("overlap")
  ELSE Applied(text, IF fuzzy THEN PreservingUnchangedLines(text, base, matched)
                     ELSE <<Splice(base, matched, 0)>>, fuzzy, matched)

\* Each edit's match in the base, which must be there and be the only one.
ApplyToBase(text, base, fuzzy, list) ==
  LET found == [i \in DOMAIN list |-> Find(base, list[i].old)]
      missing == {i \in DOMAIN list : found[i].at = -1}
      repeated == {i \in DOMAIN list : Count(Normalize(base), Normalize(list[i].old)) > 1}
  IN CASE missing # {} /\ Min(missing \cup repeated) \in missing -> Refused("not found")
       [] repeated # {} -> Refused("duplicate")
       [] OTHER -> ApplyMatched(text, base, fuzzy,
                     Sorted([i \in DOMAIN list |->
                       [at |-> found[i].at, len |-> found[i].len, new |-> list[i].new]]))

\* ApplyEditsToNormalizedContent; matched is what it found.
ApplyEdits(text, list) ==
  LET fuzzy == \E i \in DOMAIN list : Find(text, list[i].old).fuzzy
  IN IF \E i \in DOMAIN list : list[i].old = <<>> THEN Refused("empty")
     ELSE ApplyToBase(text, IF fuzzy THEN Normalize(text) ELSE text, fuzzy, list)

----------------------------------------------------------------------------
(* The line diff                                                           *)

\* diffLines: the lines of both texts in order, by a longest common subsequence.
Edit(line, change) == [line |-> line, change |-> change]

DiffLines(old, new) ==
  LET a == Split(old)
      b == Split(new)
      common[i \in 1..(Len(a) + 1), j \in 1..(Len(b) + 1)] ==
        IF i > Len(a) \/ j > Len(b) THEN 0
        ELSE IF a[i] = b[j] THEN common[i + 1, j + 1] + 1
        ELSE Max({common[i + 1, j], common[i, j + 1]})
      walk[i \in 1..(Len(a) + 1), j \in 1..(Len(b) + 1)] ==
        IF i > Len(a) THEN [k \in 1..(Len(b) - j + 1) |-> Edit(b[j + k - 1], "added")]
        ELSE IF j > Len(b) THEN [k \in 1..(Len(a) - i + 1) |-> Edit(a[i + k - 1], "removed")]
        ELSE IF a[i] = b[j] THEN <<Edit(a[i], "same")>> \o walk[i + 1, j + 1]
        ELSE IF common[i + 1, j] >= common[i, j + 1]
             THEN <<Edit(a[i], "removed")>> \o walk[i + 1, j]
             ELSE <<Edit(b[j], "added")>> \o walk[i, j + 1]
  IN walk[1, 1]

\* appendPart: adjacent lines of one change form a part.
Parts(lines) ==
  FoldLeft(LAMBDA parts, e :
             IF parts # <<>> /\ Last(parts).change = e.change
             THEN [parts EXCEPT ![Len(parts)].lines = Append(@, e.line)]
             ELSE Append(parts, [change |-> e.change, lines |-> <<e.line>>]),
           <<>>, lines)

\* The lines of a part GenerateDiffString looks at: not a last one that is empty.
Raw(part) == IF Last(part.lines) = <<>> THEN Front(part.lines) ELSE part.lines

\* GenerateDiffString numbers the lines of the parts and reports the first changed one.
FirstChangedLine(old, new) ==
  LET parts == Parts(DiffLines(old, new))
      changed == {p \in DOMAIN parts : parts[p].change # "same"}
  IN IF changed = {} THEN 0
     ELSE FoldLeft(LAMBDA n, part : n + Len(Raw(part)), 1, SubSeq(parts, 1, Min(changed) - 1))

----------------------------------------------------------------------------
EditInit ==
  /\ content \in Contents /\ edits \in EditLists
  /\ applied = Refused("") /\ firstChangedLine = 0 /\ editStep = "given"

Apply ==
  /\ editStep = "given" /\ editStep' = "applied"
  /\ applied' = ApplyEdits(content, edits)
  /\ UNCHANGED <<content, edits, firstChangedLine>>

\* The diff is made of an edit that was applied.
Diff ==
  /\ editStep = "applied" /\ applied.error = ""
  /\ editStep' = "diffed"
  /\ firstChangedLine' = FirstChangedLine(content, applied.text)
  /\ UNCHANGED <<content, edits, applied>>

EditNext == Apply \/ Diff
EditSpec == EditInit /\ [][EditNext]_editVars

----------------------------------------------------------------------------
(* Properties                                                              *)

\* The reference for one line of the base: untouched by every match it is the original
\* line, otherwise its characters outside the matches with each new text at the start
\* of its match.
ReferenceLine(k, spans, lines, base) ==
  LET ms == {applied.matched[i] : i \in DOMAIN applied.matched}
      inside(p) == \E m \in ms : m.at < p /\ p <= m.at + m.len
      touched == \E m \in ms : m.at < spans[k].end /\ m.at + m.len > spans[k].start
      inserted(p) == FlattenSeq([i \in DOMAIN applied.matched |->
                       IF applied.matched[i].at + 1 = p THEN applied.matched[i].new ELSE <<>>])
  IN IF ~touched THEN lines[k]
     ELSE FlattenSeq([p \in 1..(spans[k].end - spans[k].start) |->
            inserted(spans[k].start + p)
              \o (IF inside(spans[k].start + p) THEN <<>> ELSE <<base[spans[k].start + p]>>)])

\* An edit changes the text it names and nothing else: each edit replaces a match
\* of its old text, in whatever order the edits come, and with a fuzzy match every line
\* outside the matches keeps its bytes (applyReplacements from last to first,
\* ApplyReplacementsPreservingUnchangedLines).
EditsAreLocal ==
  editStep # "given" /\ applied.error = "" =>
    LET base == IF applied.fuzzy THEN Normalize(content) ELSE content
        lines == LinesWithEndings(content)
    IN applied.text = FlattenSeq([k \in DOMAIN lines |->
                        ReferenceLine(k, Spans(base), lines, base)])

\* What an edit replaced is nowhere else in the base, but for places that overlap the match:
\* those are not counted (countOccurrences, against the word of editdiff.go:203-205).
MatchesAreUnique ==
  editStep # "given" /\ applied.error = "" =>
    LET base == IF applied.fuzzy THEN Normalize(content) ELSE content
    IN \A k \in DOMAIN applied.matched :
         LET m == applied.matched[k]
         IN \A i \in Occurrences(base, SubSeq(base, m.at + 1, m.at + m.len)) :
              i = m.at \/ (i < m.at + m.len /\ m.at < i + m.len)

\* The diff tells both texts: without the added lines it is the old one, without the
\* removed lines the new one (diffLines).
DiffTellsBoth ==
  editStep = "diffed" =>
    LET lines == DiffLines(content, applied.text)
        side(change) == LET kept == SelectSeq(lines, LAMBDA e : e.change # change)
                        IN [k \in DOMAIN kept |-> kept[k].line]
    IN side("added") = Split(content) /\ side("removed") = Split(applied.text)

\* The number of lines with which both texts begin.
CommonLines ==
  LET old == Split(content)
      new == Split(applied.text)
  IN Max({n \in 0..Min({Len(old), Len(new)}) : SubSeq(old, 1, n) = SubSeq(new, 1, n)})

\* The line a reader is sent to is that of the first change in the new text, but one short
\* exactly when the line before the change is empty, which GenerateDiffString does not count
\* (editdiff.go:365, against the word of editdiff.go:104).
FirstLineIsExact ==
  editStep = "diffed" =>
    firstChangedLine = IF CommonLines > 0 /\ Split(content)[CommonLines] = <<>>
                       THEN CommonLines ELSE CommonLines + 1

\* All of them, for one call (applyEdit).
EditIsFaithful == EditsAreLocal /\ MatchesAreUnique /\ DiffTellsBoth /\ FirstLineIsExact
=============================================================================
