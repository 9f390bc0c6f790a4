---------------------------- MODULE AtomicFiles ----------------------------
(***************************************************************************)
(* What the write and edit tools promise of a file: every call takes       *)
(* effect at one moment, at most once, on the content the file has then.   *)
(*                                                                         *)
(* A content is a set of words; an absent file is {NoFile} and an empty    *)
(* one {}.  The text a caller brings is one word, its own name.            *)
(***************************************************************************)
CONSTANTS Files, Callers, Words, Present

NoFile == "no file"
Absent == {NoFile}
Original == Words

VARIABLES content, applied
fileVars == <<content, applied>>

Init ==
  /\ content = [f \in Files |-> IF f \in Present THEN Original ELSE Absent]
  /\ applied = {}

\* The new content of f, by a call of t that had no effect so far.
Set(t, f, text) ==
  /\ t \notin applied /\ applied' = applied \cup {t}
  /\ content' = [content EXCEPT ![f] = text]

Write(t, f) == Set(t, f, {t})

\* One word is replaced; an absent file is not edited.
Edit(t, f) ==
  /\ content[f] # Absent
  /\ \E old \in content[f] : Set(t, f, (content[f] \ {old}) \cup {t})

\* A write that fails half-way leaves the file empty.
Lose(t, f) == Set(t, f, {})

Next == \E t \in Callers, f \in Files : Write(t, f) \/ Edit(t, f) \/ Lose(t, f)

Spec == Init /\ [][Next]_fileVars
=============================================================================
