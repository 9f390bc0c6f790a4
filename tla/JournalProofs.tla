---------------------------- MODULE JournalProofs ----------------------------
(***************************************************************************)
(* What the session journal keeps, proved for any number of runs, messages *)
(* and entries of other versions, as long as no write stops between an     *)
(* entry and its newline (NoBareLine).                                     *)
(*                                                                         *)
(* The argument: a line is one fragment, and only the last one can be torn *)
(* (FileShape), because a resumed run removes a torn line before it        *)
(* writes.  So a write either adds one entry to what Load reads or adds    *)
(* nothing, and the rest is about the sequence Load reads: who its entries *)
(* point to, which of them were acknowledged, and what they replay to.     *)
(***************************************************************************)
EXTENDS Journal, NaturalRecursion, SequenceTheorems

\* A failing write stops inside the JSON of its entry or after the newline.
NoBareLine == Tears \subseteq {"part"}

Messages == [role : Roles, texts : Seq(Nat)]

Entries == [kind : Kinds, id : Nat, parent : Nat, model : Models \cup {None}, kept : Nat,
            message : Messages]

Fragments == [entry : Entries, whole : BOOLEAN]

TypeInv ==
  /\ lines \in Seq(Seq(Fragments)) /\ terminated \in BOOLEAN
  /\ pc \in {"off", "create", "model", "run", "persist"}
  /\ model \in Models \cup {None} /\ lastID \in Nat
  /\ seed \in Seq(Messages) /\ transcript \in Seq(Messages) /\ pending \in Seq(Messages)
  /\ acked \in Seq(Entries)
  /\ newID \in Nat \ {0} /\ text \in Nat /\ runs \in Nat /\ foreign \in Nat

\* Every line is one fragment, whole but possibly for the last line, and the first
\* one is the header.
Shape(ls, t) ==
  /\ \A i \in 1..Len(ls) : Len(ls[i]) = 1
  /\ \A i \in 1..(Len(ls) - 1) : ls[i][1].whole
  /\ ls # <<>> => ls[1][1].entry.kind = "session"
  /\ t <=> ls = <<>> \/ ls[Len(ls)][1].whole

FileShape == Shape(lines, terminated)

\* TornTail, Loadable and Loaded of any file.
Torn(ls) == Len(ls) > 1 /\ ~ Decodes(ls[Len(ls)])

Loads(ls) ==
  /\ ls # <<>>
  /\ Decodes(ls[1]) /\ ls[1][1].entry.kind = "session"
  /\ \A i \in 2..(Len(ls) - 1) : Decodes(ls[i])

EntriesOf(ls) ==
  LET last == IF Torn(ls) THEN Len(ls) - 1 ELSE Len(ls) IN
  [i \in 1..(last - 1) |-> ls[i + 1][1].entry]

\* A run in progress writes to a file that ends with a whole line.
FileInv ==
  /\ FileShape
  /\ pc # "off" => lines # <<>> /\ terminated
  /\ acked # <<>> \/ seed # <<>> => Loadable

\* The entries are linked, older than the next id, and the run links to the last.
ChainInv ==
  /\ \A i \in DOMAIN Loaded :
       /\ Loaded[i].id < newID
       /\ Loaded[i].parent = (IF i = 1 THEN 0 ELSE Loaded[i - 1].id)
  /\ pc # "off" => lastID = LastIDOf(Loaded)

\* The acknowledged entries are in the file, each once and in their order.
AckedInv ==
  \A i \in DOMAIN acked :
    /\ acked[i].id < newID
    /\ \E j \in DOMAIN Loaded :
         /\ Loaded[j] = acked[i]
         /\ \A k \in DOMAIN acked, l \in DOMAIN Loaded :
              Loaded[l] = acked[k] => (i < k <=> j < l)

\* What the file replays to at each point of a run.
HistoryInv ==
  LET history == Replay(Loaded) IN
  /\ pc \in {"model", "run"} => history = seed
  /\ pc = "model" => transcript = seed
  /\ pc = "persist" => history \o pending = transcript
  /\ pc \in {"run", "persist"} => ModelOf(Loaded) = model
  /\ Loadable => /\ Extends(history, seed)
                 /\ Extends(transcript, history) \/ history = seed

JournalInv == TypeInv /\ FileInv /\ ChainInv /\ AckedInv /\ HistoryInv

-----------------------------------------------------------------------------
(* The file and what Load makes of it.                                     *)

LEMMA ZeroOneMore == \A n \in Nat : n = 0 \/ n = 1 \/ n > 1
OBVIOUS

\* A fragment that fills its line decodes if it is whole.
LEMMA LinesDecode ==
  ASSUME NEW ls \in Seq(Seq(Fragments)), NEW t \in BOOLEAN, Shape(ls, t)
  PROVE  /\ \A i \in 1..Len(ls) : Decodes(ls[i]) <=> ls[i][1].whole
         /\ Torn(ls) <=> Len(ls) > 1 /\ ~ t
         /\ Loads(ls) <=> ls # <<>> /\ ls[1][1].whole
         /\ Len(ls) > 1 => Loads(ls)
         /\ ls # <<>> /\ t => Loads(ls)
<1>1. ls \in Seq(Seq(Fragments)) /\ Len(ls) \in Nat
  OBVIOUS
<1>2. \A i \in 1..Len(ls) : ls[i] \in Seq(Fragments) /\ ls[i][1] \in Fragments
  BY <1>1 DEF Shape
<1>3. \A i \in 1..Len(ls) : Decodes(ls[i]) <=> ls[i][1].whole
  BY <1>2 DEF Shape, Decodes
<1>4. ls = <<>> <=> Len(ls) = 0
  BY <1>1
<1>5. Torn(ls) <=> Len(ls) > 1 /\ ~ t
  BY <1>1, <1>3, <1>4 DEF Torn, Shape
<1>6. Loads(ls) <=> ls # <<>> /\ ls[1][1].whole
  <2>1. ls # <<>> => 1 \in 1..Len(ls)
    BY <1>1, <1>4
  <2>2. \A i \in 2..(Len(ls) - 1) : Decodes(ls[i])
    BY <1>1, <1>3 DEF Shape
  <2>3. ls # <<>> => (Decodes(ls[1]) <=> ls[1][1].whole)
    BY <1>3, <2>1
  <2> QED BY <2>2, <2>3 DEF Loads, Shape
<1>7. Len(ls) > 1 => Loads(ls)
  BY <1>1, <1>4, <1>6 DEF Shape
<1>8. ASSUME ls # <<>>, t PROVE Loads(ls)
  <2>1. ls[Len(ls)][1].whole
    BY <1>8 DEF Shape
  <2>2. Len(ls) > 1 \/ Len(ls) = 1
    BY <1>1, <1>4, <1>8, ZeroOneMore, Zenon
  <2>3. CASE Len(ls) > 1
    BY <1>7, <2>3
  <2>4. CASE Len(ls) = 1
    BY <1>6, <1>8, <2>1, <2>4
  <2> QED BY <2>2, <2>3, <2>4
<1> QED BY <1>3, <1>5, <1>6, <1>7, <1>8

\* Load returns the entries of the lines after the header, without a torn one.
LEMMA LoadedIs ==
  ASSUME NEW ls \in Seq(Seq(Fragments)), NEW t \in BOOLEAN, Shape(ls, t)
  PROVE  /\ EntriesOf(ls) \in Seq(Entries)
         /\ \A i \in DOMAIN EntriesOf(ls) : EntriesOf(ls)[i] = ls[i + 1][1].entry
         /\ ls # <<>> /\ t => Len(EntriesOf(ls)) = Len(ls) - 1
         /\ ls # <<>> /\ ~ t =>
              Len(EntriesOf(ls)) = IF Len(ls) = 1 THEN 0 ELSE Len(ls) - 2
         /\ ls = <<>> => EntriesOf(ls) = <<>>
<1> DEFINE last == IF Torn(ls) THEN Len(ls) - 1 ELSE Len(ls)
           loaded == [i \in 1..(last - 1) |-> ls[i + 1][1].entry]
<1>1. ls \in Seq(Seq(Fragments)) /\ Len(ls) \in Nat
  OBVIOUS
<1>2. Torn(ls) <=> Len(ls) > 1 /\ ~ t
  BY LinesDecode
<1>3. EntriesOf(ls) = loaded
  BY DEF EntriesOf
<1>4. \A i \in 1..Len(ls) : ls[i][1].entry \in Entries
  <2>1. \A i \in 1..Len(ls) : ls[i] \in Seq(Fragments) /\ ls[i][1] \in Fragments
    BY <1>1 DEF Shape
  <2> QED BY <2>1 DEF Fragments
<1>5. CASE ls = <<>>
  <2>1. Len(ls) = 0 /\ last = 0
    BY <1>2, <1>5
  <2>2. last - 1 < 1 /\ last - 1 \in Int
    BY <2>1
  <2>3. loaded \in Seq(Entries) /\ loaded = <<>>
    <3>1. 1..(last - 1) = 1..0
      BY <2>2
    <3>2. loaded = [i \in 1..0 |-> ls[i + 1][1].entry]
      BY <3>1
    <3>3. loaded \in Seq(Entries) /\ Len(loaded) = 0
      <4>1. 0 \in Nat /\ \A i \in 1..0 : ls[i + 1][1].entry \in Entries
        OBVIOUS
      <4>2. [i \in 1..0 |-> ls[i + 1][1].entry] \in [1..0 -> Entries]
        BY <4>1
      <4> HIDE DEF loaded
      <4>3. loaded \in [1..0 -> Entries]
        BY <3>2, <4>2, Zenon
      <4> QED BY <4>1, <4>3
    <3> HIDE DEF loaded
    <3>4. loaded = <<>>
      BY <3>3, EmptySeq
    <3> QED BY <3>3, <3>4
  <2>4. DOMAIN loaded = {}
    <3> HIDE DEF loaded
    <3> QED BY <2>3
  <2> HIDE DEF loaded
  <2> QED BY <1>3, <1>5, <2>3, <2>4
<1>6. CASE ls # <<>>
  <2>1. Len(ls) \in Nat /\ Len(ls) # 0
    BY <1>1, <1>6
  <2>2. last - 1 \in Nat /\ last <= Len(ls)
    BY <1>2, <2>1
  <2>3. \A i \in 1..(last - 1) : ls[i + 1][1].entry \in Entries
    BY <1>4, <2>1, <2>2
  <2>4. loaded \in Seq(Entries) /\ Len(loaded) = last - 1
    BY <2>2, <2>3
  <2>5. \A i \in DOMAIN loaded : loaded[i] = ls[i + 1][1].entry
    OBVIOUS
  <2>6. t => last - 1 = Len(ls) - 1
    BY <1>2, <2>1
  <2>7. ASSUME ~ t
        PROVE  last - 1 = IF Len(ls) = 1 THEN 0 ELSE Len(ls) - 2
    <3>1. CASE Len(ls) = 1
      BY <1>2, <3>1
    <3>2. CASE Len(ls) # 1
      <4>1. last = Len(ls) - 1
        <5>1. Len(ls) > 1
          BY <2>1, <3>2, ZeroOneMore, Zenon
        <5>2. Torn(ls)
          BY <1>2, <2>7, <5>1, Zenon
        <5> QED BY <5>2, Zenon
      <4>2. Len(ls) \in Nat
        BY <2>1
      <4> HIDE DEF last
      <4> QED BY <3>2, <4>1, <4>2
    <3> HIDE DEF last
    <3> QED BY <3>1, <3>2, Zenon
  <2> HIDE DEF loaded, last
  <2> QED BY <1>3, <1>6, <2>4, <2>5, <2>6, <2>7
<1> QED BY <1>5, <1>6

\* Loaded as a function of a file of known shape.
LEMMA LoadedOf ==
  ASSUME NEW ls \in Seq(Seq(Fragments)), NEW t \in BOOLEAN, Shape(ls, t),
         NEW s \in Seq(Entries), ls # <<>>,
         Len(s) = IF t THEN Len(ls) - 1
                  ELSE IF Len(ls) = 1 THEN 0 ELSE Len(ls) - 2,
         \A i \in DOMAIN s : s[i] = ls[i + 1][1].entry
  PROVE  EntriesOf(ls) = s
<1>1. EntriesOf(ls) \in Seq(Entries) /\ Len(EntriesOf(ls)) = Len(s)
  BY LoadedIs
<1>2. \A i \in 1..Len(EntriesOf(ls)) : EntriesOf(ls)[i] = s[i]
  <2>1. \A i \in DOMAIN EntriesOf(ls) : EntriesOf(ls)[i] = ls[i + 1][1].entry
    BY LoadedIs
  <2>2. DOMAIN s = 1..Len(s) /\ DOMAIN EntriesOf(ls) = 1..Len(EntriesOf(ls))
    BY <1>1
  <2> QED BY <1>1, <2>1, <2>2
<1> QED BY <1>1, <1>2, SeqEqual

\* What a line appended to a file that ends with its newline makes of it.
LEMMA PutLine ==
  ASSUME TypeInv, FileShape, terminated, NEW e \in Entries, NEW whole \in BOOLEAN
  PROVE  LET fragment == [entry |-> e, whole |-> whole] IN
         /\ Put(e, whole) = Append(lines, <<fragment>>)
         /\ fragment \in Fragments
         /\ Put(e, whole) \in Seq(Seq(Fragments))
         /\ Len(Put(e, whole)) = Len(lines) + 1
         /\ \A i \in 1..Len(lines) : Put(e, whole)[i] = lines[i]
         /\ Put(e, whole)[Len(lines) + 1] = <<fragment>>
<1> DEFINE fragment == [entry |-> e, whole |-> whole]
<1>1. fragment \in Fragments
  BY DEF Fragments
<1>2. Put(e, whole) = Append(lines, <<fragment>>)
  BY DEF Put
<1>3. <<fragment>> \in Seq(Fragments) /\ lines \in Seq(Seq(Fragments))
  BY <1>1 DEF TypeInv
<1> HIDE DEF fragment
<1>4. /\ Append(lines, <<fragment>>) \in Seq(Seq(Fragments))
      /\ Len(Append(lines, <<fragment>>)) = Len(lines) + 1
      /\ \A i \in 1..Len(lines) : Append(lines, <<fragment>>)[i] = lines[i]
      /\ Append(lines, <<fragment>>)[Len(lines) + 1] = <<fragment>>
  BY <1>3, AppendProperties
<1>5. QED BY <1>1, <1>2, <1>4 DEF fragment

\* A write to a file that ends with its newline, whatever cuts it, leaves one that Load
\* reads, with its entry if the line was finished and without it otherwise.
LEMMA WriteKeepsShape ==
  ASSUME TypeInv, FileShape, terminated, NEW e \in Entries,
         lines # <<>> \/ e.kind = "session",
         NEW cut \in {"nothing", "line", "part"}, Write(e, cut)
  PROVE  /\ lines' \in Seq(Seq(Fragments)) /\ terminated' \in BOOLEAN
         /\ FileShape'
         /\ cut # "part" => terminated'
         /\ cut # "nothing" => lines' # <<>>
         /\ lines # <<>> => lines' # <<>>
<1>1. CASE cut = "nothing"
  <2>1. lines' = lines /\ terminated' = terminated
    BY <1>1 DEF Write, fileVars
  <2> QED BY <1>1, <2>1 DEF TypeInv, FileShape, Shape
<1>2. CASE cut # "nothing"
  <2> DEFINE whole == cut # "part"
             fragment == [entry |-> e, whole |-> whole]
  <2>1. lines' = Put(e, whole) /\ (terminated' = (cut = "line"))
    BY <1>2 DEF Write
  <2>2. whole \in BOOLEAN /\ (terminated' <=> whole) /\ terminated' \in BOOLEAN
    BY <1>2, <2>1
  <2>3. fragment.whole = whole /\ fragment.entry = e
    OBVIOUS
  <2>4. /\ lines' \in Seq(Seq(Fragments))
        /\ Len(lines') = Len(lines) + 1
        /\ \A i \in 1..Len(lines) : lines'[i] = lines[i]
        /\ lines'[Len(lines) + 1] = <<fragment>>
    <3> HIDE DEF whole
    <3> QED BY <2>1, <2>2, PutLine
  <2>5. Len(lines) \in Nat /\ (lines = <<>> => Len(lines) = 0)
                          /\ (lines # <<>> => Len(lines) >= 1)
    <3>1. lines \in Seq(Seq(Fragments))
      BY DEF TypeInv
    <3> QED BY <3>1, EmptySeq
  <2>6. lines' # <<>>
    BY <2>4, <2>5, EmptySeq
  <2> HIDE DEF fragment, whole
  <2>7. lines'[Len(lines')] = <<fragment>>
    BY <2>4
  <2>8. \A i \in 1..Len(lines') : i \in 1..Len(lines) \/ i = Len(lines) + 1
    BY <2>4, <2>5
  <2>9. \A i \in 1..Len(lines') : Len(lines'[i]) = 1
    <3>1. Len(<<fragment>>) = 1
      OBVIOUS
    <3> QED BY <2>4, <2>8, <3>1 DEF FileShape, Shape
  <2>10. \A i \in 1..(Len(lines') - 1) : lines'[i][1].whole
    <3>1. \A i \in 1..(Len(lines') - 1) : i \in 1..Len(lines) /\ lines'[i] = lines[i]
      BY <2>4, <2>5
    <3>2. \A i \in 1..Len(lines) : lines[i][1].whole
      <4>1. \A i \in 1..Len(lines) : i \in 1..(Len(lines) - 1) \/ i = Len(lines)
        BY <2>5
      <4>2. lines # <<>> => lines[Len(lines)][1].whole
        BY DEF FileShape, Shape
      <4>3. \A i \in 1..Len(lines) : lines # <<>>
        BY <2>5
      <4> QED BY <4>1, <4>2, <4>3 DEF FileShape, Shape
    <3> QED BY <3>1, <3>2
  <2>11. lines'[1][1].entry.kind = "session"
    <3>1. CASE lines = <<>>
      <4>1. Len(lines) = 0 /\ lines'[1] = <<fragment>> /\ e.kind = "session"
        BY <2>4, <2>5, <3>1
      <4> QED BY <2>3, <4>1
    <3>2. CASE lines # <<>>
      <4>1. lines'[1] = lines[1]
        BY <2>4, <2>5, <3>2
      <4> QED BY <3>2, <4>1 DEF FileShape, Shape
    <3> QED BY <3>1, <3>2
  <2>12. lines'[Len(lines')][1].whole <=> terminated'
    BY <2>2, <2>3, <2>7
  <2>13. FileShape'
    BY <2>6, <2>9, <2>10, <2>11, <2>12 DEF FileShape, Shape
  <2> QED BY <2>2, <2>4, <2>6, <2>13 DEF whole
<1> QED BY <1>1, <1>2

\* What a write that is cut, or not, does to what Load reads.
LEMMA WriteAdds ==
  ASSUME TypeInv, FileShape, terminated, lines # <<>>, NEW e \in Entries,
         NEW cut \in {"nothing", "line", "part"}, Write(e, cut)
  PROVE  /\ Loaded \in Seq(Entries)
         /\ Loaded' = IF cut = "line" THEN Append(Loaded, e) ELSE Loaded
         /\ Loadable /\ Loadable'
<1>1. /\ lines \in Seq(Seq(Fragments)) /\ terminated \in BOOLEAN
      /\ Shape(lines, terminated) /\ lines # <<>>
  BY DEF TypeInv, FileShape
<1>2. /\ lines' \in Seq(Seq(Fragments)) /\ terminated' \in BOOLEAN
      /\ Shape(lines', terminated') /\ lines' # <<>>
      /\ cut # "part" => terminated'
  BY WriteKeepsShape DEF FileShape
<1>3. Loaded = EntriesOf(lines) /\ Loaded' = EntriesOf(lines')
  BY DEF Loaded, EntriesOf, TornTail, Torn
<1>4. (Loadable <=> Loads(lines)) /\ (Loadable' <=> Loads(lines'))
  BY DEF Loadable, Loads
<1>5. Loadable /\ EntriesOf(lines) \in Seq(Entries) /\ Len(EntriesOf(lines)) = Len(lines) - 1
      /\ \A i \in DOMAIN EntriesOf(lines) : EntriesOf(lines)[i] = lines[i + 1][1].entry
  BY <1>1, <1>4, LinesDecode, LoadedIs
<1>6. Len(lines) \in Nat /\ Len(lines) >= 1
  BY <1>1, EmptySeq
<1>7. CASE cut = "nothing"
  <2>1. lines' = lines
    BY <1>7 DEF Write, fileVars
  <2> QED BY <1>3, <1>4, <1>5, <1>7, <2>1
<1>8. CASE cut # "nothing"
  <2> DEFINE whole == cut # "part"
             fragment == [entry |-> e, whole |-> whole]
  <2>1. /\ lines' = Put(e, whole) /\ (terminated' = (cut = "line"))
        /\ whole \in BOOLEAN /\ fragment.entry = e
    BY <1>8 DEF Write
  <2>2. /\ Len(lines') = Len(lines) + 1
        /\ \A i \in 1..Len(lines) : lines'[i] = lines[i]
        /\ lines'[Len(lines) + 1] = <<fragment>>
    <3> HIDE DEF whole
    <3> QED BY <2>1, PutLine
  <2>3. Loadable'
    <3>1. Len(lines') > 1
      BY <1>6, <2>2
    <3> QED BY <1>2, <1>4, <3>1, LinesDecode
  <2>4. ASSUME NEW s \in Seq(Entries),
               Len(s) = IF terminated' THEN Len(lines) ELSE Len(lines) - 1,
               \A i \in DOMAIN s : s[i] = lines'[i + 1][1].entry
        PROVE  Loaded' = s
    <3>1. Len(lines') # 1
      BY <1>6, <2>2
    <3>2. Len(s) = IF terminated' THEN Len(lines') - 1
                   ELSE IF Len(lines') = 1 THEN 0 ELSE Len(lines') - 2
      BY <1>6, <2>2, <2>4, <3>1
    <3> QED BY <1>2, <1>3, <2>4, <3>2, LoadedOf
  <2>5. CASE cut = "line"
    <3> DEFINE s == Append(EntriesOf(lines), e)
    <3>1. /\ s \in Seq(Entries) /\ Len(s) = Len(lines)
          /\ \A i \in 1..(Len(lines) - 1) : s[i] = EntriesOf(lines)[i]
          /\ s[Len(lines)] = e
      <4> HIDE DEF EntriesOf
      <4> QED BY <1>5, <1>6, AppendProperties
    <3> HIDE DEF s
    <3>2. ASSUME NEW i \in 1..Len(lines) PROVE s[i] = lines'[i + 1][1].entry
      <4>1. CASE i = Len(lines)
        <5>1. lines'[i + 1][1] = fragment
          BY <2>2, <4>1
        <5> QED BY <2>1, <3>1, <4>1, <5>1
      <4>2. CASE i # Len(lines)
        <5>1. i \in 1..(Len(lines) - 1) /\ i + 1 \in 1..Len(lines)
          BY <1>6, <4>2
        <5>2. DOMAIN EntriesOf(lines) = 1..(Len(lines) - 1)
          BY <1>5, LenProperties
        <5>3. s[i] = lines[i + 1][1].entry
          BY <1>5, <3>1, <5>1, <5>2
        <5> QED BY <2>2, <5>1, <5>3
      <4> QED BY <4>1, <4>2
    <3>3. DOMAIN s = 1..Len(lines)
      BY <3>1, LenProperties
    <3>4. Loaded' = s
      BY <2>1, <2>4, <2>5, <3>1, <3>2, <3>3
    <3> QED BY <1>3, <1>5, <2>3, <2>5, <3>4 DEF s
  <2>6. CASE cut = "part"
    <3> DEFINE s == EntriesOf(lines)
    <3>1. s \in Seq(Entries) /\ Len(s) = Len(lines) - 1 /\ DOMAIN s = 1..(Len(lines) - 1)
      BY <1>5, LenProperties
    <3>2. ASSUME NEW i \in DOMAIN s PROVE s[i] = lines'[i + 1][1].entry
      <4>1. i + 1 \in 1..Len(lines)
        BY <1>6, <3>1
      <4> HIDE DEF EntriesOf
      <4> QED BY <1>5, <2>2, <4>1
    <3>3. ~ terminated'
      BY <2>1, <2>6
    <3> HIDE DEF s
    <3>4. Loaded' = s
      BY <2>4, <3>1, <3>2, <3>3
    <3> QED BY <1>3, <1>5, <2>3, <2>6, <3>4 DEF s
  <2> QED BY <1>8, <2>5, <2>6
<1> QED BY <1>7, <1>8

\* A resumed run removes a torn line, which is not one that Load reads.
LEMMA TrimKeeps ==
  ASSUME TypeInv, FileShape, Loadable, Trimmed
  PROVE  /\ lines' \in Seq(Seq(Fragments)) /\ terminated' /\ terminated' \in BOOLEAN
         /\ FileShape' /\ lines' # <<>>
         /\ Loaded \in Seq(Entries) /\ Loaded' = Loaded
         /\ Loadable'
<1>1. /\ lines \in Seq(Seq(Fragments)) /\ terminated \in BOOLEAN
      /\ Shape(lines, terminated) /\ lines # <<>>
  BY DEF TypeInv, FileShape, Loadable
<1>2. Loaded = EntriesOf(lines) /\ Loaded' = EntriesOf(lines')
  BY DEF Loaded, EntriesOf, TornTail, Torn
<1>3. (Loadable <=> Loads(lines)) /\ (Loadable' <=> Loads(lines'))
  BY DEF Loadable, Loads
<1>4. TornTail <=> Len(lines) > 1 /\ ~ terminated
  BY <1>1, LinesDecode DEF TornTail, Torn
<1>5. /\ Loaded \in Seq(Entries)
      /\ \A i \in DOMAIN Loaded : Loaded[i] = lines[i + 1][1].entry
      /\ ~ terminated => Len(Loaded) = IF Len(lines) = 1 THEN 0 ELSE Len(lines) - 2
  BY <1>1, <1>2, LoadedIs
<1>6. Len(lines) \in Nat /\ Len(lines) >= 1
  BY <1>1, EmptySeq
<1>7. CASE ~ TornTail
  <2>1. lines' = lines /\ terminated' = terminated
    BY <1>7 DEF Trimmed, fileVars
  <2>2. terminated
    <3>1. CASE Len(lines) > 1
      BY <1>1, <1>4, <1>7, <3>1
    <3>2. CASE Len(lines) = 1
      <4>1. lines[1][1].whole
        BY <1>1, <1>3, LinesDecode
      <4> QED BY <1>1, <3>2, <4>1 DEF Shape
    <3>3. Len(lines) > 1 \/ Len(lines) = 1
      <4>1. \A n \in Nat : n >= 1 => n > 1 \/ n = 1
        OBVIOUS
      <4> QED BY <1>6, <4>1, Zenon
    <3> QED BY <3>1, <3>2, <3>3
  <2> QED BY <1>1, <1>2, <1>3, <1>5, <2>1, <2>2 DEF FileShape
<1>8. CASE TornTail
  <2>1. lines' = SubSeq(lines, 1, Len(lines) - 1) /\ terminated' = TRUE
    BY <1>8 DEF Trimmed
  <2>2. Len(lines) > 1 /\ ~ terminated
    BY <1>4, <1>8
  <2>3. /\ lines' \in Seq(Seq(Fragments)) /\ Len(lines') = Len(lines) - 1
        /\ \A i \in 1..(Len(lines) - 1) : lines'[i] = lines[i]
    BY <1>1, <1>6, <2>1, <2>2, SubSeqProperties
  <2>4. lines' # <<>>
    BY <1>6, <2>2, <2>3, EmptySeq
  <2>5. Shape(lines', terminated')
    BY <1>1, <1>6, <2>1, <2>2, <2>3, <2>4 DEF Shape
  <2>6. Loadable'
    BY <1>3, <2>1, <2>3, <2>4, <2>5, LinesDecode
  <2>7. Len(Loaded) = Len(lines) - 2 /\ DOMAIN Loaded = 1..(Len(lines) - 2)
    <3>1. Len(lines) # 1
      <4>1. \A n \in Nat : n > 1 => n # 1
        OBVIOUS
      <4> QED BY <1>6, <2>2, <4>1, Zenon
    <3>2. Len(Loaded) = Len(lines) - 2
      BY <1>5, <2>2, <3>1, Zenon
    <3> QED BY <1>5, <3>2, LenProperties
  <2>8. \A i \in DOMAIN Loaded : Loaded[i] = lines'[i + 1][1].entry
    <3>1. \A i \in DOMAIN Loaded : i + 1 \in 1..(Len(lines) - 1)
      BY <1>6, <2>7
    <3> QED BY <1>5, <2>3, <3>1
  <2>9. Loaded' = Loaded
    <3>1. Len(Loaded) = IF terminated' THEN Len(lines') - 1
                        ELSE IF Len(lines') = 1 THEN 0 ELSE Len(lines') - 2
      BY <1>6, <2>1, <2>3, <2>7
    <3> QED BY <1>2, <1>5, <2>1, <2>3, <2>4, <2>5, <2>8, <3>1, LoadedOf
  <2> QED BY <1>5, <2>1, <2>3, <2>4, <2>5, <2>6, <2>9 DEF FileShape
<1> QED BY <1>7, <1>8

-----------------------------------------------------------------------------
(* What the entries of the file replay to when one is added.               *)

Kept == [id : Nat, message : Messages]

\* One entry of the loop of Replay.
Replayed(r, e) ==
  CASE e.kind = "message" -> Append(r, [id |-> e.id, message |-> e.message])
    [] e.kind = "compaction" -> applyCompaction(r, e)
    [] OTHER -> r

LEMMA CompactionIsKept ==
  ASSUME NEW r \in Seq(Kept), NEW e \in Entries
  PROVE  applyCompaction(r, e) \in Seq(Kept)
<1> DEFINE starts == {i \in DOMAIN r : r[i].id = e.kept}
           first == CHOOSE i \in starts : \A j \in starts : i <= j
           kept == IF starts = {} THEN r ELSE SubSeq(r, first, Len(r))
           summary == [id |-> 0, message |-> e.message]
<1>1. starts \subseteq 1..Len(r) /\ starts \subseteq Nat
  OBVIOUS
<1>2. kept \in Seq(Kept)
  <2>1. CASE starts = {}
    BY <2>1
  <2>2. CASE starts # {}
    <3>1. first \in starts
      <4> HIDE DEF starts
      <4>1. \E i \in starts : \A j \in starts : i <= j
        BY <1>1, <2>2, NatMin
      <4> QED BY <4>1
    <3>2. first \in 1..Len(r)
      BY <1>1, <3>1
    <3> HIDE DEF first, starts
    <3>3. SubSeq(r, first, Len(r)) \in Seq(Kept)
      BY <3>2
    <3> QED BY <2>2, <3>3
  <2> QED BY <2>1, <2>2
<1>3. e.message \in Messages /\ e.message.texts \in Seq(Nat) /\ summary \in Kept
  BY DEF Entries, Messages, Kept
<1> HIDE DEF kept, summary, first, starts
<1>4. <<summary>> \o kept \in Seq(Kept)
  BY <1>2, <1>3
<1>5. ASSUME kept # <<>>
      PROVE  [kept EXCEPT ![1].message.texts = e.message.texts \o @] \in Seq(Kept)
  <2>1. 1 \in DOMAIN kept /\ kept[1] \in Kept
    BY <1>2, <1>5, EmptySeq
  <2> DEFINE merged == [kept[1] EXCEPT !.message.texts = e.message.texts \o @]
             inner == [kept[1].message EXCEPT !.texts = e.message.texts \o @]
  <2>2. kept[1].message \in Messages
    BY <2>1 DEF Kept
  <2>3. kept[1].message.texts \in Seq(Nat)
    BY <2>2 DEF Messages
  <2>4. e.message.texts \o kept[1].message.texts \in Seq(Nat)
    BY <1>3, <2>3
  <2>5. merged = [kept[1] EXCEPT !.message = inner]
    OBVIOUS
  <2>6. merged \in Kept
    <3>1. inner = [kept[1].message EXCEPT !.texts = e.message.texts \o kept[1].message.texts]
      OBVIOUS
    <3>2. inner \in Messages
      <4> HIDE DEF inner
      <4> QED BY <2>2, <2>4, <3>1 DEF Messages
    <3> HIDE DEF merged, inner
    <3> QED BY <2>1, <2>5, <3>2 DEF Kept
  <2>7. [kept EXCEPT ![1].message.texts = e.message.texts \o @] = [kept EXCEPT ![1] = merged]
    BY DEF merged
  <2> HIDE DEF merged
  <2>8. [kept EXCEPT ![1] = merged] \in Seq(Kept)
    BY <1>2, <2>1, <2>6, ExceptSeq
  <2> QED BY <2>7, <2>8
<1>6. applyCompaction(r, e)
        = IF kept # <<>> /\ kept[1].message.role = "user"
          THEN [kept EXCEPT ![1].message.texts = e.message.texts \o @]
          ELSE <<summary>> \o kept
  BY DEF applyCompaction, kept, summary, first, starts
<1> QED BY <1>4, <1>5, <1>6

LEMMA ReplayedIsKept ==
  \A r \in Seq(Kept), e \in Entries : Replayed(r, e) \in Seq(Kept)
<1> SUFFICES ASSUME NEW r \in Seq(Kept), NEW e \in Entries
             PROVE  Replayed(r, e) \in Seq(Kept)
  OBVIOUS
<1>1. [id |-> e.id, message |-> e.message] \in Kept
  BY DEF Entries, Kept
<1>2. Append(r, [id |-> e.id, message |-> e.message]) \in Seq(Kept)
  BY <1>1
<1> QED BY <1>2, CompactionIsKept DEF Replayed

\* Replay is the last value of a recurrence over the entries.
LEMMA ReplayIs ==
  ASSUME NEW es \in Seq(Entries)
  PROVE  \E f \in [0..Len(es) -> Seq(Kept)] :
           /\ f[0] = <<>>
           /\ \A i \in 1..Len(es) : f[i] = Replayed(f[i - 1], es[i])
           /\ Replay(es) = [j \in DOMAIN f[Len(es)] |-> f[Len(es)][j].message]
<1> DEFINE n == Len(es)
           Step == [p \in (1..n) \X Seq(Kept) |-> Replayed(p[2], es[p[1]])]
           Body(F) == [i \in 0..n |-> IF i = 0 THEN <<>> ELSE Replayed(F[i - 1], es[i])]
           all == CHOOSE F : F = Body(F)
<1>1. n \in Nat /\ \A i \in 1..n : es[i] \in Entries
  OBVIOUS
<1>2. Step \in [(1..n) \X Seq(Kept) -> Seq(Kept)]
  <2>1. \A p \in (1..n) \X Seq(Kept) : Replayed(p[2], es[p[1]]) \in Seq(Kept)
    <3> HIDE DEF n
    <3> QED BY <1>1, ReplayedIsKept
  <2> QED BY <2>1
<1>3. PICK f \in [0..n -> Seq(Kept)] : Solves(f, <<>>, Step, n)
  <2>1. <<>> \in Seq(Kept)
    OBVIOUS
  <2> HIDE DEF Step, n
  <2>2. n \in Nat
    BY <1>1
  <2> QED BY <1>2, <2>1, <2>2, RecursionExists
<1>4. \A i \in 1..n : f[i] = Replayed(f[i - 1], es[i])
  <2> SUFFICES ASSUME NEW i \in 1..n PROVE f[i] = Replayed(f[i - 1], es[i])
    OBVIOUS
  <2>1. <<i, f[i - 1]>> \in (1..n) \X Seq(Kept)
    <3>1. i - 1 \in 0..n
      BY <1>1
    <3> HIDE DEF n
    <3>2. f[i - 1] \in Seq(Kept)
      BY <1>3, <3>1
    <3> QED BY <3>2
  <2> QED BY <1>3, <2>1 DEF Solves
<1> HIDE DEF Step
<1>5. f = Body(f)
  <2>1. f = [i \in 0..n |-> f[i]]
    BY <1>3
  <2>2. \A i \in 0..n : f[i] = IF i = 0 THEN <<>> ELSE Replayed(f[i - 1], es[i])
    BY <1>1, <1>3, <1>4 DEF Solves
  <2> HIDE DEF n
  <2> QED BY <2>1, <2>2, Zenon
<1>6. all = Body(all)
  <2> HIDE DEF Body
  <2> QED BY <1>5, Zenon
<1>7. Replay(es) = [j \in DOMAIN all[n] |-> all[n][j].message]
  BY DEF Replay, Replayed
<1> HIDE DEF all
<1>8. \A i \in 0..n : all[i] = f[i]
  <2>1. \A i \in 0..n : all[i] = IF i = 0 THEN <<>> ELSE Replayed(all[i - 1], es[i])
    <3> HIDE DEF n, all
    <3> QED BY <1>6
  <2>2. n \in Nat /\ all[0] = f[0]
    BY <1>1, <1>3, <2>1 DEF Solves
  <2>3. \A i \in 1..n : all[i - 1] = f[i - 1] => all[i] = f[i]
    BY <1>1, <1>4, <2>1
  <2> HIDE DEF n, all, Body
  <2>4. Alike(all, f, n)
    BY <2>2, <2>3 DEF Alike
  <2> QED BY <2>2, <2>4, SameRecurrence, Zenon
<1>9. all[n] = f[n]
  BY <1>1, <1>8
<1> QED BY <1>3, <1>4, <1>7, <1>9 DEF Solves

LEMMA ReplayAppend ==
  ASSUME NEW es \in Seq(Entries), NEW e \in Entries
  PROVE  /\ Replay(es) \in Seq(Messages)
         /\ Replay(Append(es, e)) \in Seq(Messages)
         /\ e.kind = "message" => Replay(Append(es, e)) = Append(Replay(es), e.message)
         /\ e.kind \notin {"message", "compaction"} => Replay(Append(es, e)) = Replay(es)
<1> DEFINE n == Len(es)
           more == Append(es, e)
<1>1. /\ n \in Nat /\ more \in Seq(Entries) /\ Len(more) = n + 1
      /\ \A i \in 1..n : more[i] = es[i]
      /\ more[n + 1] = e
  BY AppendProperties
<1>2. PICK f \in [0..n -> Seq(Kept)] :
        /\ f[0] = <<>>
        /\ \A i \in 1..n : f[i] = Replayed(f[i - 1], es[i])
        /\ Replay(es) = [j \in DOMAIN f[n] |-> f[n][j].message]
  BY ReplayIs
<1> HIDE DEF n, more
<1>3. PICK g \in [0..(n + 1) -> Seq(Kept)] :
        /\ g[0] = <<>>
        /\ \A i \in 1..(n + 1) : g[i] = Replayed(g[i - 1], more[i])
        /\ Replay(more) = [j \in DOMAIN g[n + 1] |-> g[n + 1][j].message]
  <2>1. more \in Seq(Entries) /\ Len(more) = n + 1
    BY <1>1
  <2>2. \E g \in [0..Len(more) -> Seq(Kept)] :
          /\ g[0] = <<>>
          /\ \A i \in 1..Len(more) : g[i] = Replayed(g[i - 1], more[i])
          /\ Replay(more) = [j \in DOMAIN g[Len(more)] |-> g[Len(more)][j].message]
    BY <2>1, ReplayIs
  <2> QED BY <2>1, <2>2
<1>4. \A i \in 0..n : g[i] = f[i]
  <2>1. \A i \in 1..n : g[i - 1] = f[i - 1] => g[i] = f[i]
    <3> SUFFICES ASSUME NEW i \in 1..n, g[i - 1] = f[i - 1] PROVE g[i] = f[i]
      OBVIOUS
    <3>1. i \in 1..(n + 1) /\ more[i] = es[i]
      BY <1>1
    <3> QED BY <1>2, <1>3, <3>1
  <2>2. n \in Nat /\ g[0] = f[0]
    BY <1>1, <1>2, <1>3
  <2>3. Alike(g, f, n)
    BY <2>1, <2>2 DEF Alike
  <2>4. n \in Nat
    BY <2>2
  <2> QED BY <2>3, <2>4, SameRecurrence
<1>5. f[n] \in Seq(Kept) /\ g[n + 1] \in Seq(Kept) /\ g[n + 1] = Replayed(f[n], e)
  <2>1. n + 1 \in 1..(n + 1) /\ n \in 0..n /\ n + 1 \in 0..(n + 1) /\ (n + 1) - 1 = n
    BY <1>1
  <2>2. g[n + 1] = Replayed(g[n], e)
    BY <1>1, <1>3, <2>1
  <2> QED BY <1>2, <1>3, <1>4, <2>1, <2>2
<1>6. \A r \in Seq(Kept) : [j \in DOMAIN r |-> r[j].message] \in Seq(Messages)
  <2> SUFFICES ASSUME NEW r \in Seq(Kept)
               PROVE  [j \in DOMAIN r |-> r[j].message] \in Seq(Messages)
    OBVIOUS
  <2>1. DOMAIN r = 1..Len(r) /\ Len(r) \in Nat /\ \A j \in 1..Len(r) : r[j].message \in Messages
    <3>1. \A j \in 1..Len(r) : r[j] \in Kept
      OBVIOUS
    <3> QED BY <3>1 DEF Kept
  <2> QED BY <2>1
<1>7. Replay(es) \in Seq(Messages) /\ Replay(more) \in Seq(Messages)
  BY <1>2, <1>3, <1>5, <1>6
<1>8. ASSUME e.kind = "message" PROVE Replay(more) = Append(Replay(es), e.message)
  <2> DEFINE last == [id |-> e.id, message |-> e.message]
  <2>1. last \in Kept /\ last.message = e.message /\ e.message \in Messages
    BY DEF Entries, Kept
  <2>2. g[n + 1] = Append(f[n], last)
    BY <1>5, <1>8 DEF Replayed
  <2> HIDE DEF last
  <2>3. /\ Len(g[n + 1]) = Len(f[n]) + 1 /\ g[n + 1][Len(f[n]) + 1] = last
        /\ \A j \in 1..Len(f[n]) : g[n + 1][j] = f[n][j]
    BY <1>5, <2>1, <2>2, AppendProperties
  <2>4. /\ Len(f[n]) \in Nat /\ DOMAIN f[n] = 1..Len(f[n])
        /\ DOMAIN g[n + 1] = 1..(Len(f[n]) + 1)
    BY <1>5, <2>3, LenProperties
  <2>5. /\ Len(Replay(es)) = Len(f[n])
        /\ Len(Replay(more)) = Len(f[n]) + 1
    BY <1>2, <1>3, <2>4
  <2>6. /\ \A j \in 1..Len(f[n]) : Replay(more)[j] = Replay(es)[j]
        /\ Replay(more)[Len(f[n]) + 1] = e.message
    BY <1>2, <1>3, <2>1, <2>3, <2>4
  <2>7. /\ Append(Replay(es), e.message) \in Seq(Messages)
        /\ Len(Append(Replay(es), e.message)) = Len(f[n]) + 1
        /\ \A j \in 1..Len(f[n]) : Append(Replay(es), e.message)[j] = Replay(es)[j]
        /\ Append(Replay(es), e.message)[Len(f[n]) + 1] = e.message
    BY <1>7, <2>1, <2>5, AppendProperties
  <2>8. \A j \in 1..(Len(f[n]) + 1) : Replay(more)[j] = Append(Replay(es), e.message)[j]
    <3>1. \A j \in 1..(Len(f[n]) + 1) : j \in 1..Len(f[n]) \/ j = Len(f[n]) + 1
      BY <2>4
    <3> QED BY <2>6, <2>7, <3>1
  <2> DEFINE s == Append(Replay(es), e.message)
             t == Replay(more)
  <2>9. /\ t \in Seq(Messages) /\ s \in Seq(Messages) /\ Len(t) = Len(s)
        /\ \A j \in 1..Len(t) : t[j] = s[j]
    BY <1>7, <2>5, <2>7, <2>8
  <2> HIDE DEF s, t
  <2>10. t = s
    BY <2>9, SeqEqual
  <2> QED BY <2>10 DEF s, t
<1>9. ASSUME e.kind \notin {"message", "compaction"} PROVE Replay(more) = Replay(es)
  <2>1. g[n + 1] = f[n]
    BY <1>5, <1>9 DEF Replayed
  <2> QED BY <1>2, <1>3, <2>1
<1> QED BY <1>7, <1>8, <1>9 DEF more

LEMMA ReplayOfNothing == Replay(<<>>) = <<>>
<1>1. <<>> \in Seq(Entries) /\ Len(<<>>) = 0
  BY EmptySeq
<1>2. PICK f \in [0..0 -> Seq(Kept)] :
        /\ f[0] = <<>>
        /\ Replay(<<>>) = [j \in DOMAIN f[0] |-> f[0][j].message]
  <2> DEFINE es == <<>>
  <2>1. es \in Seq(Entries) /\ Len(es) = 0
    BY <1>1
  <2> HIDE DEF es
  <2>2. \E f \in [0..0 -> Seq(Kept)] :
          /\ f[0] = <<>>
          /\ Replay(es) = [j \in DOMAIN f[0] |-> f[0][j].message]
    <3>1. \E f \in [0..Len(es) -> Seq(Kept)] :
            /\ f[0] = <<>>
            /\ \A i \in 1..Len(es) : f[i] = Replayed(f[i - 1], es[i])
            /\ Replay(es) = [j \in DOMAIN f[Len(es)] |-> f[Len(es)][j].message]
      BY <2>1, ReplayIs, Zenon
    <3> QED BY <2>1, <3>1, Zenon
  <2> QED BY <2>2 DEF es
<1>3. Len(Replay(<<>>)) = 0 /\ Replay(<<>>) \in Seq(Messages)
  BY <1>2
<1> QED BY <1>3, EmptySeq

\* The model of the last model_change.
LEMMA ModelOfAppend ==
  ASSUME NEW es \in Seq(Entries), NEW e \in Entries
  PROVE  ModelOf(Append(es, e)) = IF e.kind = "model_change" THEN e.model ELSE ModelOf(es)
<1> DEFINE n == Len(es)
           more == Append(es, e)
           Changes(s) == {i \in DOMAIN s : s[i].kind = "model_change"}
           Last(S) == CHOOSE i \in S : \A j \in S : j <= i
<1>1. /\ n \in Nat /\ more \in Seq(Entries) /\ Len(more) = n + 1
      /\ \A i \in 1..n : more[i] = es[i]
      /\ more[n + 1] = e
      /\ DOMAIN es = 1..n /\ DOMAIN more = 1..(n + 1)
  BY AppendProperties, LenProperties
<1>2. /\ ModelOf(es) = IF Changes(es) = {} THEN None ELSE es[Last(Changes(es))].model
      /\ ModelOf(more) = IF Changes(more) = {} THEN None ELSE more[Last(Changes(more))].model
  BY DEF ModelOf
<1> HIDE DEF more, n
<1>3. CASE e.kind = "model_change"
  <2>1. n + 1 \in Changes(more) /\ \A j \in Changes(more) : j <= n + 1
    BY <1>1, <1>3
  <2>2. Last(Changes(more)) = n + 1
    <3>1. Last(Changes(more)) \in Changes(more) /\ n + 1 <= Last(Changes(more))
      <4> HIDE DEF Changes
      <4> QED BY <2>1
    <3>2. \A i \in Changes(more) : i \in Nat
      BY <1>1
    <3> HIDE DEF Changes, Last
    <3> QED BY <1>1, <2>1, <3>1, <3>2
  <2> HIDE DEF Changes, Last
  <2> QED BY <1>1, <1>2, <1>3, <2>1, <2>2 DEF more
<1>4. CASE e.kind # "model_change"
  <2>1. Changes(more) = Changes(es)
    BY <1>1, <1>4
  <2>2. ASSUME Changes(es) # {} PROVE Last(Changes(es)) \in 1..n
    <3> DEFINE Below == {n - i : i \in Changes(es)}
    <3>1. Below \subseteq Nat /\ Below # {}
      BY <1>1, <2>2
    <3>2. PICK x \in Below : \A y \in Below : x <= y
      <4> HIDE DEF Below
      <4> QED BY <3>1, NatMin
    <3>3. PICK i \in Changes(es) : x = n - i
      BY <3>2
    <3>4. \A j \in Changes(es) : j <= i
      <4> SUFFICES ASSUME NEW j \in Changes(es) PROVE j <= i
        OBVIOUS
      <4>1. n - j \in Below /\ i \in 1..n /\ j \in 1..n
        BY <1>1, <3>3
      <4>2. x <= n - j
        BY <3>2, <4>1
      <4> HIDE DEF Below
      <4> QED BY <1>1, <3>3, <4>1, <4>2
    <3>5. Changes(es) \subseteq 1..n
      BY <1>1
    <3> HIDE DEF Changes
    <3>6. Last(Changes(es)) \in Changes(es)
      BY <3>3, <3>4
    <3> HIDE DEF Last
    <3> QED BY <3>5, <3>6
  <2> HIDE DEF Changes, Last
  <2> QED BY <1>1, <1>2, <1>4, <2>1, <2>2 DEF more
<1> QED BY <1>3, <1>4

-----------------------------------------------------------------------------
(* Prefixes.                                                               *)

LEMMA ExtendsIs ==
  \A m, p \in Seq(Messages) :
    Extends(m, p) <=> Len(p) <= Len(m) /\ \A i \in 1..Len(p) : m[i] = p[i]
<1> SUFFICES ASSUME NEW m \in Seq(Messages), NEW p \in Seq(Messages), Len(p) <= Len(m)
             PROVE  SubSeq(m, 1, Len(p)) = p <=> \A i \in 1..Len(p) : m[i] = p[i]
  BY Zenon DEF Extends
<1>1. Len(p) \in Nat /\ Len(m) \in Nat /\ \A i \in 1..Len(p) : m[i] \in Messages
  OBVIOUS
<1>2. /\ SubSeq(m, 1, Len(p)) \in Seq(Messages)
      /\ Len(SubSeq(m, 1, Len(p))) = Len(p)
      /\ \A i \in 1..Len(p) : SubSeq(m, 1, Len(p))[i] = m[i]
  BY <1>1, SubSeqProperties
<1>3. ASSUME \A i \in 1..Len(p) : m[i] = p[i] PROVE SubSeq(m, 1, Len(p)) = p
  <2>1. \A i \in 1..Len(p) : SubSeq(m, 1, Len(p))[i] = p[i]
    BY <1>2, <1>3
  <2> QED BY <1>2, <2>1, SeqEqual
<1> QED BY <1>2, <1>3

LEMMA ExtendsItself == \A m \in Seq(Messages) : Extends(m, m) /\ Extends(m, <<>>)
<1> SUFFICES ASSUME NEW m \in Seq(Messages) PROVE Extends(m, m) /\ Extends(m, <<>>)
  OBVIOUS
<1>1. <<>> \in Seq(Messages) /\ Len(<<>>) = 0 /\ Len(m) \in Nat
  BY EmptySeq
<1>2. Extends(m, m)
  BY <1>1, ExtendsIs
<1>3. 0 <= Len(m) /\ SubSeq(m, 1, 0) = <<>>
  BY <1>1, SubSeqEmpty
<1> QED BY <1>1, <1>2, <1>3 DEF Extends

\* What follows a prefix, and a message moved to the prefix.
LEMMA ExtendsConcat ==
  ASSUME NEW h \in Seq(Messages), NEW r \in Seq(Messages)
  PROVE  /\ Extends(h \o r, h)
         /\ r # <<>> => /\ Append(h, Head(r)) \o Tail(r) = h \o r
                       /\ Head(r) \in Messages /\ Tail(r) \in Seq(Messages)
                       /\ Append(h, Head(r)) \in Seq(Messages)
<1>1. /\ h \o r \in Seq(Messages) /\ Len(h \o r) = Len(h) + Len(r)
      /\ \A i \in 1..Len(h) : (h \o r)[i] = h[i]
      /\ Len(h) \in Nat /\ Len(r) \in Nat
  OBVIOUS
<1>2. Extends(h \o r, h)
  <2> DEFINE m == h \o r
  <2>1. m \in Seq(Messages) /\ Len(h) <= Len(m) /\ \A i \in 1..Len(h) : m[i] = h[i]
    BY <1>1
  <2> HIDE DEF m
  <2>2. Extends(m, h)
    BY <2>1, ExtendsIs
  <2> QED BY <2>2 DEF m
<1>3. ASSUME r # <<>> PROVE Append(h, Head(r)) \o Tail(r) = h \o r
  <2> DEFINE x == Head(r)
             t == Tail(r)
  <2>1. /\ x \in Messages /\ t \in Seq(Messages) /\ Len(t) = Len(r) - 1
        /\ x = r[1] /\ \A i \in 1..Len(t) : t[i] = r[i + 1]
    BY <1>3, HeadTailProperties
  <2> HIDE DEF x, t
  <2>2. /\ Append(h, x) \in Seq(Messages) /\ Len(Append(h, x)) = Len(h) + 1
        /\ Append(h, x)[Len(h) + 1] = x
        /\ \A i \in 1..Len(h) : Append(h, x)[i] = h[i]
    BY <2>1, AppendProperties
  <2>3. /\ Append(h, x) \o t \in Seq(Messages)
        /\ Len(Append(h, x) \o t) = Len(h) + Len(r)
    <3> DEFINE a == Append(h, x)
    <3>1. a \in Seq(Messages) /\ Len(a) = Len(h) + 1
      BY <2>2
    <3> HIDE DEF a
    <3>2. t \in Seq(Messages) /\ Len(t) = Len(r) - 1
      BY <2>1
    <3>3. a \o t \in Seq(Messages) /\ Len(a \o t) = Len(a) + Len(t)
      BY <3>1, <3>2, ConcatProperties
    <3>4. Len(a) + Len(t) = Len(h) + Len(r)
      BY <1>1, <3>1, <3>2
    <3> QED BY <3>3, <3>4 DEF a
  <2>4. ASSUME NEW i \in 1..(Len(h) + Len(r)) PROVE (Append(h, x) \o t)[i] = (h \o r)[i]
    <3>1. CASE i \in 1..Len(h)
      <4>1. (Append(h, x) \o t)[i] = Append(h, x)[i]
        BY <1>1, <2>1, <2>2, <3>1
      <4> QED BY <1>1, <2>2, <3>1, <4>1
    <3>2. CASE i = Len(h) + 1
      <4>1. (Append(h, x) \o t)[i] = Append(h, x)[i]
        BY <1>1, <2>1, <2>2, <3>2
      <4>2. (h \o r)[i] = r[1]
        BY <1>1, <2>1, <3>2
      <4> QED BY <2>1, <2>2, <3>2, <4>1, <4>2
    <3>3. CASE i > Len(h) + 1
      <4>1. i - (Len(h) + 1) \in 1..Len(t)
        BY <1>1, <2>1, <3>3
      <4>2. (Append(h, x) \o t)[i] = t[i - (Len(h) + 1)]
        BY <1>1, <2>1, <2>2, <3>3, <4>1
      <4>3. (h \o r)[i] = r[i - Len(h)]
        BY <1>1, <2>1, <3>3
      <4>4. t[i - (Len(h) + 1)] = r[i - Len(h)]
        BY <1>1, <2>1, <4>1
      <4> QED BY <4>2, <4>3, <4>4
    <3>4. i \in 1..Len(h) \/ i = Len(h) + 1 \/ i > Len(h) + 1
      BY <1>1
    <3> QED BY <3>1, <3>2, <3>3, <3>4
  <2>5. Len(h \o r) = Len(h) + Len(r)
    BY <1>1
  <2> QED BY <1>1, <2>3, <2>4, <2>5, SeqEqual DEF x, t
<1>4. ASSUME r # <<>>
      PROVE  /\ Head(r) \in Messages /\ Tail(r) \in Seq(Messages)
             /\ Append(h, Head(r)) \in Seq(Messages)
  BY <1>4, HeadTailProperties
<1> QED BY <1>2, <1>3, <1>4

\* A history that grows still begins with what it began with.
LEMMA ExtendsAppend ==
  ASSUME NEW h \in Seq(Messages), NEW p \in Seq(Messages), NEW x \in Messages, Extends(h, p)
  PROVE  Extends(Append(h, x), p)
<1>1. Len(p) <= Len(h) /\ \A i \in 1..Len(p) : h[i] = p[i]
  BY ExtendsIs
<1>2. /\ Append(h, x) \in Seq(Messages) /\ Len(Append(h, x)) = Len(h) + 1
      /\ \A i \in 1..Len(h) : Append(h, x)[i] = h[i]
      /\ Len(p) \in Nat /\ Len(h) \in Nat
  BY AppendProperties
<1>3. Len(p) <= Len(Append(h, x)) /\ \A i \in 1..Len(p) : Append(h, x)[i] = p[i]
  BY <1>1, <1>2
<1> QED BY <1>2, <1>3, ExtendsIs

\* The rest of a history after a prefix.
LEMMA ExtendsRest ==
  ASSUME NEW m \in Seq(Messages), NEW p \in Seq(Messages), Extends(m, p)
  PROVE  /\ SubSeq(m, Len(p) + 1, Len(m)) \in Seq(Messages)
         /\ p \o SubSeq(m, Len(p) + 1, Len(m)) = m
<1>1. Len(p) <= Len(m) /\ Len(p) \in Nat /\ Len(m) \in Nat /\ SubSeq(m, 1, Len(p)) = p
  BY DEF Extends
<1>2. SubSeq(m, Len(p) + 1, Len(m)) \in Seq(Messages)
  OBVIOUS
<1>3. 1 \in 1..(Len(m) + 1) /\ Len(p) \in (1 - 1)..Len(m) /\ Len(m) \in Len(p)..Len(m)
  BY <1>1
<1>4. SubSeq(m, 1, Len(p)) \o SubSeq(m, Len(p) + 1, Len(m)) = SubSeq(m, 1, Len(m))
  BY <1>3, ConcatAdjacentSubSeq
<1>5. SubSeq(m, 1, Len(m)) = m
  BY SubSeqFull
<1> QED BY <1>1, <1>2, <1>4, <1>5

-----------------------------------------------------------------------------
(* The steps.                                                              *)

LEMMA LoadedIsEntries ==
  ASSUME TypeInv, FileShape
  PROVE  Loaded \in Seq(Entries) /\ LastIDOf(Loaded) \in Nat
<1>1. /\ lines \in Seq(Seq(Fragments)) /\ terminated \in BOOLEAN
      /\ Shape(lines, terminated)
  BY DEF TypeInv, FileShape
<1>2. Loaded = EntriesOf(lines)
  BY DEF Loaded, EntriesOf, TornTail, Torn
<1>3. Loaded \in Seq(Entries)
  BY <1>1, <1>2, LoadedIs
<1>4. LastIDOf(Loaded) \in Nat
  <2> DEFINE es == Loaded
  <2>1. es \in Seq(Entries)
    BY <1>3
  <2> HIDE DEF es
  <2>2. es # <<>> => Len(es) \in 1..Len(es)
    BY <2>1, EmptySeq
  <2>3. es # <<>> => es[Len(es)] \in Entries
    BY <2>1, <2>2, ElementOfSeq
  <2>4. LastIDOf(es) \in Nat
    BY <2>3 DEF LastIDOf, Entries
  <2> QED BY <2>4 DEF es
<1> QED BY <1>3, <1>4

\* An entry is written, whole or not, after the last one that Load reads.
LEMMA EntryWritten ==
  ASSUME TypeInv, FileInv, ChainInv, AckedInv, terminated, lines # <<>>,
         NEW e \in Entries, e.id = newID, e.parent = LastIDOf(Loaded),
         NEW cut \in {"nothing", "line", "part"}, Write(e, cut), newID' = newID + 1,
         acked' = acked \/ (cut = "line" /\ acked' = Append(acked, e)),
         pc' = "off" \/ (cut = "line" /\ lastID' = e.id)
  PROVE  /\ lines' \in Seq(Seq(Fragments)) /\ terminated' \in BOOLEAN
         /\ acked' \in Seq(Entries) /\ newID' \in Nat \ {0}
         /\ FileInv' /\ ChainInv' /\ AckedInv'
         /\ Loaded \in Seq(Entries)
         /\ Loaded' = IF cut = "line" THEN Append(Loaded, e) ELSE Loaded
         /\ Loadable /\ Loadable'
<1>1. FileShape /\ acked \in Seq(Entries) /\ newID \in Nat \ {0}
  BY DEF FileInv, TypeInv
<1>2. /\ lines' \in Seq(Seq(Fragments)) /\ terminated' \in BOOLEAN
      /\ FileShape' /\ lines' # <<>> /\ (cut # "part" => terminated')
  BY <1>1, WriteKeepsShape
<1>3. /\ Loaded \in Seq(Entries) /\ Loadable /\ Loadable'
      /\ Loaded' = IF cut = "line" THEN Append(Loaded, e) ELSE Loaded
  BY <1>1, WriteAdds
<1>4. FileInv'
  <2>1. pc' # "off" => terminated'
    BY <1>2
  <2> QED BY <1>2, <1>3, <2>1 DEF FileInv
<1>5. acked' \in Seq(Entries) /\ newID' \in Nat \ {0}
  BY <1>1
<1> DEFINE es == Loaded
           n == Len(es)
<1>6. n \in Nat /\ DOMAIN es = 1..n /\ \A i \in 1..n : es[i] \in Entries
  BY <1>3
<1>7. \A i \in 1..n : /\ es[i].id < newID /\ es[i].id \in Nat
                       /\ es[i].parent = (IF i = 1 THEN 0 ELSE es[i - 1].id)
  <2>1. \A i \in 1..n : es[i].id \in Nat
    BY <1>6 DEF Entries
  <2> QED BY <1>6, <2>1 DEF ChainInv
<1>8. CASE cut # "line"
  <2>1. Loaded' = Loaded /\ acked' = acked /\ pc' = "off"
    BY <1>3, <1>8
  <2>2. ChainInv'
    BY <1>1, <1>6, <1>7, <2>1 DEF ChainInv
  <2>3. \A i \in DOMAIN acked : acked[i].id < newID'
    <3>1. \A i \in DOMAIN acked : acked[i].id < newID /\ acked[i].id \in Nat
      <4>1. \A i \in DOMAIN acked : acked[i] \in Entries
        BY <1>1
      <4> QED BY <4>1 DEF AckedInv, Entries
    <3> QED BY <1>1, <3>1
  <2>4. AckedInv'
    BY <2>1, <2>3 DEF AckedInv
  <2> QED BY <1>2, <1>3, <1>4, <1>5, <2>2, <2>4
<1>9. CASE cut = "line"
  <2> DEFINE more == Append(es, e)
  <2>1. /\ more \in Seq(Entries) /\ DOMAIN more = 1..(n + 1) /\ Len(more) = n + 1
        /\ more[n + 1] = e /\ \A i \in 1..n : more[i] = es[i]
    BY <1>3, <1>6, AppendProperties, LenProperties
  <2>2. Loaded' = more
    BY <1>3, <1>9
  <2>3. e.parent = IF n = 0 THEN 0 ELSE es[n].id
    <3>1. es = <<>> <=> n = 0
      BY <1>3, EmptySeq
    <3> QED BY <3>1 DEF LastIDOf
  <2> HIDE DEF more, es, n
  <2>4. LastIDOf(more) = e.id
    <3>1. more # <<>>
      BY <1>6, <2>1, EmptySeq
    <3> QED BY <2>1, <3>1 DEF LastIDOf
  <2>5. \A i \in 1..(n + 1) : /\ more[i].id < newID'
                               /\ more[i].parent = (IF i = 1 THEN 0 ELSE more[i - 1].id)
    <3> SUFFICES ASSUME NEW i \in 1..(n + 1)
                 PROVE  /\ more[i].id < newID'
                        /\ more[i].parent = (IF i = 1 THEN 0 ELSE more[i - 1].id)
      OBVIOUS
    <3>1. CASE i = n + 1
      <4>1. more[i] = e /\ e.id < newID'
        BY <1>1, <2>1, <3>1
      <4>2. i # 1 => more[i - 1] = es[n] /\ n # 0
        BY <1>6, <2>1, <3>1
      <4>3. i = 1 => n = 0
        BY <1>6, <3>1
      <4> QED BY <2>3, <4>1, <4>2, <4>3
    <3>2. CASE i # n + 1
      <4>1. i \in 1..n /\ (i # 1 => i - 1 \in 1..n)
        BY <1>6, <3>2
      <4>2. more[i] = es[i] /\ (i # 1 => more[i - 1] = es[i - 1])
        BY <2>1, <4>1
      <4>3. es[i].id < newID'
        BY <1>1, <1>7, <4>1
      <4> QED BY <1>7, <4>1, <4>2, <4>3
    <3> QED BY <3>1, <3>2
  <2>6. ChainInv'
    <3>1. pc' # "off" => lastID' = LastIDOf(more)
      BY <2>4
    <3> QED BY <2>1, <2>2, <2>5, <3>1 DEF ChainInv
  <2> DEFINE old == acked
             a == Len(old)
  <2>7. /\ a \in Nat /\ DOMAIN old = 1..a
        /\ \A i \in 1..a : old[i] \in Entries /\ old[i].id \in Nat /\ old[i].id < newID
    <3>1. \A i \in 1..a : old[i] \in Entries
      BY <1>1
    <3>2. a \in Nat /\ DOMAIN old = 1..a
      BY <1>1
    <3> QED BY <3>1, <3>2 DEF AckedInv, Entries
  <2>8. \A i \in 1..a : \E j \in 1..n :
          /\ es[j] = old[i]
          /\ \A k \in 1..a, l \in 1..n : es[l] = old[k] => (i < k <=> j < l)
    <3>1. DOMAIN Loaded = 1..n
      BY <1>6 DEF es
    <3> QED BY <2>7, <3>1 DEF AckedInv, es
  <2>9. \A i \in 1..n : es[i] # e
    BY <1>1, <1>7
  <2>10. \A i \in 1..a : old[i] # e
    BY <1>1, <2>7
  <2>11. ASSUME NEW now, now = old \/ now = Append(old, e), acked' = now
         PROVE  AckedInv'
    <3>1. /\ DOMAIN now = 1..a \/ (DOMAIN now = 1..(a + 1) /\ now[a + 1] = e)
          /\ \A i \in 1..a : now[i] = old[i]
      BY <1>1, <2>7, <2>11, AppendProperties, LenProperties
    <3> HIDE DEF old, a
    <3>2. ASSUME NEW i \in DOMAIN now, NEW j \in 1..(n + 1),
                 \/ i \in 1..a /\ j \in 1..n
                   /\ \A k \in 1..a, l \in 1..n : es[l] = old[k] => (i < k <=> j < l)
                 \/ i = a + 1 /\ j = n + 1,
                 NEW k \in DOMAIN now, NEW l \in 1..(n + 1), more[l] = now[k]
          PROVE  i < k <=> j < l
      <4>1. (k \in 1..a /\ l \in 1..n) \/ (k = a + 1 /\ l = n + 1)
        <5>1. k \in 1..a \/ (k = a + 1 /\ now[k] = e)
          BY <2>7, <3>1
        <5>2. l \in 1..n \/ (l = n + 1 /\ more[l] = e)
          BY <1>6, <2>1
        <5>3. k \in 1..a => more[l] # e
          BY <2>10, <3>1, <3>2
        <5>4. l \in 1..n => now[k] # e
          BY <2>1, <2>9, <3>2
        <5> QED BY <3>2, <5>1, <5>2, <5>3, <5>4
      <4>2. k \in 1..a /\ l \in 1..n => es[l] = old[k]
        BY <2>1, <3>1, <3>2
      <4> QED BY <1>6, <2>7, <3>2, <4>1, <4>2
    <3>3. ASSUME NEW i \in DOMAIN now
          PROVE  /\ now[i].id < newID'
                 /\ \E j \in 1..(n + 1) :
                      /\ more[j] = now[i]
                      /\ \A k \in DOMAIN now, l \in 1..(n + 1) :
                           more[l] = now[k] => (i < k <=> j < l)
      <4>1. CASE i \in 1..a
        <5>1. PICK j \in 1..n :
                /\ es[j] = old[i]
                /\ \A k \in 1..a, l \in 1..n : es[l] = old[k] => (i < k <=> j < l)
          BY <2>8, <4>1
        <5>2. j \in 1..(n + 1) /\ more[j] = now[i]
          BY <1>6, <2>1, <3>1, <4>1, <5>1
        <5>3. now[i].id < newID'
          BY <1>1, <2>7, <3>1, <4>1
        <5>4. \A k \in DOMAIN now, l \in 1..(n + 1) :
                more[l] = now[k] => (i < k <=> j < l)
          BY <3>2, <4>1, <5>1, <5>2
        <5> QED BY <5>2, <5>3, <5>4
      <4>2. CASE i \notin 1..a
        <5>1. i = a + 1 /\ now[i] = e
          BY <2>7, <3>1, <4>2
        <5>2. n + 1 \in 1..(n + 1) /\ more[n + 1] = now[i] /\ now[i].id < newID'
          BY <1>1, <1>6, <2>1, <5>1
        <5>3. \A k \in DOMAIN now, l \in 1..(n + 1) :
                more[l] = now[k] => (i < k <=> n + 1 < l)
          BY <3>2, <5>1, <5>2
        <5> QED BY <5>2, <5>3
      <4> QED BY <4>1, <4>2
    <3> QED BY <2>1, <2>2, <2>11, <3>3 DEF AckedInv
  <2>12. AckedInv'
    BY <2>11
  <2> QED BY <1>2, <1>3, <1>4, <1>5, <2>6, <2>12
<1> QED BY <1>8, <1>9

\* The file and what was acknowledged are left alone.
LEMMA NothingWritten ==
  ASSUME TypeInv, FileInv, ChainInv, AckedInv, lines' = lines, terminated' = terminated,
         acked' = acked, newID' = newID, pc' # "off" => pc # "off" /\ lastID' = lastID,
         seed' # <<>> => seed # <<>>
  PROVE  FileInv' /\ ChainInv' /\ AckedInv' /\ Loaded' = Loaded /\ (Loadable' <=> Loadable)
<1>1. Loaded' = Loaded /\ (Loadable' <=> Loadable) /\ (FileShape' <=> FileShape)
  BY DEF Loaded, Loadable, TornTail, FileShape, Shape
<1> QED BY <1>1 DEF FileInv, ChainInv, AckedInv

LEMMA InitJournal ==
  ASSUME Init
  PROVE  JournalInv
<1>1. TypeInv
  BY EmptySeq DEF Init, TypeInv
<1>2. FileShape
  <2>1. Len(lines) = 0
    BY EmptySeq DEF Init
  <2> QED BY <2>1 DEF Init, FileShape, Shape
<1>3. Loaded = <<>> /\ ~ Loadable /\ DOMAIN acked = {}
  <2>1. Loaded = EntriesOf(lines)
    BY DEF Loaded, EntriesOf, TornTail, Torn
  <2>2. EntriesOf(lines) = <<>>
    BY <1>1, <1>2, LoadedIs DEF Init, FileShape, TypeInv
  <2>3. ~ Loadable /\ DOMAIN acked = {}
    BY DEF Init, Loadable
  <2> QED BY <2>1, <2>2, <2>3
<1>4. FileInv
  BY <1>2 DEF FileInv, Init
<1>5. ChainInv /\ AckedInv
  <2>1. DOMAIN Loaded = {}
    BY <1>3
  <2> QED BY <1>3, <2>1 DEF ChainInv, AckedInv, Init
<1>6. HistoryInv
  BY <1>3 DEF HistoryInv, Init
<1> QED BY <1>1, <1>4, <1>5, <1>6 DEF JournalInv

LEMMA CreateSessionStep ==
  ASSUME NoBareLine, JournalInv, NEW m \in Models, CreateSession(m)
  PROVE  JournalInv'
<1> DEFINE e == [Blank EXCEPT !.kind = "session"]
<1>1. TypeInv /\ FileInv /\ ChainInv /\ AckedInv /\ FileShape
  BY DEF JournalInv, FileInv
<1>2. e \in Entries /\ e.kind = "session"
  BY EmptySeq DEF Blank, Entries, Messages, Kinds, Roles
<1>3. /\ pc = "off" /\ lines = <<>> /\ runs' = runs + 1 /\ model' = m /\ lastID' = 0
      /\ seed' = <<>> /\ transcript' = <<>> /\ pending' = pending /\ acked' = acked
      /\ newID' = newID /\ text' = text /\ foreign' = foreign
  BY DEF CreateSession
<1> HIDE DEF e
<1>4. PICK cut \in {"nothing", "line", "part"} :
        Write(e, cut) /\ (pc' = "off" \/ (pc' = "model" /\ cut = "line"))
  <2>1. {"nothing", "line"} \cup Tears \subseteq {"nothing", "line", "part"}
    BY DEF NoBareLine
  <2>2. CASE Write(e, "line") /\ pc' = "model"
    BY <2>2
  <2>3. CASE /\ \E cut \in {"nothing", "line"} \cup Tears : Write(e, cut)
             /\ pc' = "off"
    BY <2>1, <2>3
  <2> QED BY <2>2, <2>3 DEF CreateSession, e
<1>5. terminated /\ acked = <<>> /\ Loaded = <<>>
  <2>1. terminated /\ ~ Loadable
    BY <1>1, <1>3 DEF FileShape, Shape, Loadable
  <2>2. Loaded = EntriesOf(lines)
    BY DEF Loaded, EntriesOf, TornTail, Torn
  <2>3. EntriesOf(lines) = <<>>
    BY <1>1, <1>3, LoadedIs DEF FileShape, TypeInv
  <2> QED BY <1>1, <2>1, <2>2, <2>3 DEF FileInv
<1>6. /\ lines' \in Seq(Seq(Fragments)) /\ terminated' \in BOOLEAN
      /\ FileShape' /\ (cut # "part" => terminated') /\ (cut # "nothing" => lines' # <<>>)
  BY <1>1, <1>2, <1>4, <1>5, WriteKeepsShape
<1>7. Loaded' = <<>>
  <2>1. Loaded' = EntriesOf(lines')
    BY DEF Loaded, EntriesOf, TornTail, Torn
  <2>2. CASE cut = "nothing"
    <3>1. lines' = lines
      BY <1>4, <2>2 DEF Write, fileVars
    <3> QED BY <1>1, <1>3, <2>1, <3>1, LoadedIs DEF FileShape, TypeInv
  <2>3. CASE cut # "nothing"
    <3> DEFINE whole == cut # "part"
    <3>1. lines' = Put(e, whole)
      BY <1>4, <2>3 DEF Write
    <3>2. Len(lines) = 0 /\ whole \in BOOLEAN
      BY <1>3, EmptySeq
    <3> HIDE DEF whole
    <3>3. Len(lines') = 1
      <4>1. Len(Put(e, whole)) = Len(lines) + 1
        BY <1>1, <1>2, <1>5, <3>2, PutLine, Zenon
      <4> QED BY <3>1, <3>2, <4>1
    <3>4. EntriesOf(lines') \in Seq(Entries) /\ Len(EntriesOf(lines')) = 0
      BY <1>6, <2>3, <3>3, LoadedIs DEF FileShape
    <3> QED BY <2>1, <3>4, EmptySeq
  <2> QED BY <2>2, <2>3
<1>8. TypeInv'
  BY <1>1, <1>3, <1>4, <1>6, EmptySeq DEF TypeInv
<1>9. FileInv'
  BY <1>3, <1>4, <1>5, <1>6 DEF FileInv
<1>10. ChainInv' /\ AckedInv'
  <2>1. DOMAIN Loaded' = {} /\ DOMAIN acked' = {}
    BY <1>3, <1>5, <1>7
  <2>2. LastIDOf(Loaded') = 0
    BY <1>7 DEF LastIDOf
  <2> QED BY <1>3, <2>1, <2>2 DEF ChainInv, AckedInv
<1>11. HistoryInv'
  <2>1. Replay(Loaded') = <<>> /\ Replay(Loaded)' = Replay(Loaded')
    BY <1>7, ReplayOfNothing
  <2>2. Extends(<<>>, <<>>)
    BY EmptySeq, ExtendsItself
  <2>3. pc' # "run" /\ pc' # "persist"
    BY <1>4
  <2> QED BY <1>3, <2>1, <2>2, <2>3 DEF HistoryInv, Extends
<1> QED BY <1>8, <1>9, <1>10, <1>11 DEF JournalInv

LEMMA ResumeSessionStep ==
  ASSUME NoBareLine, JournalInv, NEW m \in Models, ResumeSession(m)
  PROVE  JournalInv'
<1>1. TypeInv /\ FileInv /\ ChainInv /\ AckedInv /\ FileShape
  BY DEF JournalInv, FileInv
<1>2. /\ pc = "off" /\ Loadable /\ Trimmed
      /\ runs' = runs + 1 /\ model' = m /\ lastID' = LastIDOf(Loaded)
      /\ seed' = Replay(Loaded) /\ transcript' = Replay(Loaded)
      /\ pc' = (IF ModelOf(Loaded) = m THEN "run" ELSE "model")
      /\ pending' = pending /\ acked' = acked
      /\ newID' = newID /\ text' = text /\ foreign' = foreign
  BY DEF ResumeSession
<1>3. /\ lines' \in Seq(Seq(Fragments)) /\ terminated' /\ terminated' \in BOOLEAN
      /\ FileShape' /\ lines' # <<>>
      /\ Loaded \in Seq(Entries) /\ Loaded' = Loaded
      /\ Loadable'
  BY <1>1, <1>2, TrimKeeps
<1>4. Replay(Loaded) \in Seq(Messages) /\ LastIDOf(Loaded) \in Nat
  <2>1. PICK e \in Entries : TRUE
    <3>1. Blank \in Entries
      BY EmptySeq DEF Blank, Entries, Messages, Kinds, Roles
    <3> QED BY <3>1
  <2> QED BY <1>1, <1>3, ReplayAppend, LoadedIsEntries
<1>5. TypeInv'
  BY <1>1, <1>2, <1>3, <1>4 DEF TypeInv
<1>6. FileInv'
  BY <1>3 DEF FileInv
<1>7. ChainInv' /\ AckedInv'
  BY <1>1, <1>2, <1>3 DEF ChainInv, AckedInv
<1>8. HistoryInv'
  <2>1. /\ Replay(Loaded)' = Replay(Loaded) /\ ModelOf(Loaded)' = ModelOf(Loaded)
        /\ seed' = Replay(Loaded) /\ transcript' = Replay(Loaded)
    BY <1>2, <1>3
  <2>2. Extends(Replay(Loaded), Replay(Loaded))
    BY <1>4, ExtendsItself
  <2>3. pc' # "persist" /\ (pc' = "run" => ModelOf(Loaded) = m)
    BY <1>2
  <2> QED BY <1>2, <2>1, <2>2, <2>3 DEF HistoryInv, Extends
<1> QED BY <1>5, <1>6, <1>7, <1>8 DEF JournalInv

\* A step that ends the run and writes nothing.
LEMMA OffStep ==
  ASSUME JournalInv, Off, pc # "off",
         UNCHANGED <<fileVars, acked, newID, text, runs, foreign>>
  PROVE  JournalInv'
<1>1. TypeInv /\ FileInv /\ ChainInv /\ AckedInv
  BY DEF JournalInv
<1>2. /\ lines' = lines /\ terminated' = terminated /\ acked' = acked /\ newID' = newID
      /\ text' = text /\ runs' = runs /\ foreign' = foreign
      /\ pc' = "off" /\ pending' = <<>> /\ model' = model /\ lastID' = lastID
      /\ seed' = seed /\ transcript' = transcript
  BY DEF Off, fileVars
<1>3. TypeInv'
  BY <1>1, <1>2, EmptySeq DEF TypeInv
<1>4. FileInv' /\ ChainInv' /\ AckedInv' /\ Loaded' = Loaded /\ (Loadable' <=> Loadable)
  BY <1>1, <1>2, NothingWritten
<1>5. HistoryInv'
  BY <1>2, <1>4 DEF JournalInv, HistoryInv, Extends
<1> QED BY <1>3, <1>4, <1>5 DEF JournalInv

LEMMA ConverseStep ==
  ASSUME JournalInv, Converse
  PROVE  JournalInv'
<1>1. TypeInv /\ FileInv /\ ChainInv /\ AckedInv
  BY DEF JournalInv
<1>2. /\ pc = "run" /\ transcript = seed
      /\ lines' = lines /\ terminated' = terminated /\ acked' = acked /\ newID' = newID
      /\ runs' = runs /\ foreign' = foreign
      /\ pc' = pc /\ pending' = pending /\ model' = model /\ lastID' = lastID
      /\ seed' = seed
  BY DEF Converse, fileVars
<1>3. text' \in Nat /\ transcript' \in Seq(Messages)
  <2>0. PICK n \in 1..MaxMessages : \E roles \in [1..n -> Roles] :
          LET new == [i \in 1..n |-> [role |-> roles[i], texts |-> <<text + i>>]]
              whole == seed \o new
              summary == [role |-> "user", texts |-> <<text + n + 1>>]
          IN /\ text' = text + n + 1
             /\ \/ transcript' = whole
                \/ \E first \in 2..Len(whole) :
                     transcript' = <<summary>> \o SubSeq(whole, first, Len(whole))
    BY Zenon DEF Converse
  <2>1. PICK roles \in [1..n -> Roles] :
          LET new == [i \in 1..n |-> [role |-> roles[i], texts |-> <<text + i>>]]
              whole == seed \o new
              summary == [role |-> "user", texts |-> <<text + n + 1>>]
          IN /\ text' = text + n + 1
             /\ \/ transcript' = whole
                \/ \E first \in 2..Len(whole) :
                     transcript' = <<summary>> \o SubSeq(whole, first, Len(whole))
    BY <2>0, Zenon
  <2> DEFINE new == [i \in 1..n |-> [role |-> roles[i], texts |-> <<text + i>>]]
             whole == seed \o new
             summary == [role |-> "user", texts |-> <<text + n + 1>>]
  <2>2. n \in Nat /\ text \in Nat /\ seed \in Seq(Messages)
    <3>1. MaxMessages \in Nat
      BY JournalAssumption
    <3> QED BY <1>1, <3>1 DEF TypeInv
  <2>3. summary \in Messages
    BY <2>2 DEF Messages, Roles
  <2>4. new \in Seq(Messages)
    <3>1. ASSUME NEW i \in 1..n PROVE [role |-> roles[i], texts |-> <<text + i>>] \in Messages
      <4>1. <<text + i>> \in Seq(Nat) /\ roles[i] \in Roles
        BY <2>2
      <4> QED BY <4>1 DEF Messages
    <3> QED BY <2>2, <3>1
  <2> HIDE DEF new, summary
  <2>5. whole \in Seq(Messages)
    BY <2>2, <2>4, ConcatProperties
  <2> HIDE DEF whole
  <2>6. ASSUME NEW first \in 2..Len(whole)
        PROVE  <<summary>> \o SubSeq(whole, first, Len(whole)) \in Seq(Messages)
    <3>1. SubSeq(whole, first, Len(whole)) \in Seq(Messages)
      BY <2>5
    <3>2. <<summary>> \in Seq(Messages)
      BY <2>3
    <3> QED BY <3>1, <3>2, ConcatProperties
  <2>7. text' \in Nat
    BY <2>1, <2>2
  <2>8. \/ transcript' = whole
        \/ \E first \in 2..Len(whole) :
             transcript' = <<summary>> \o SubSeq(whole, first, Len(whole))
    BY <2>1 DEF whole, new, summary
  <2> QED BY <2>5, <2>6, <2>7, <2>8
<1>4. TypeInv'
  BY <1>1, <1>2, <1>3 DEF TypeInv
<1>5. FileInv' /\ ChainInv' /\ AckedInv' /\ Loaded' = Loaded /\ (Loadable' <=> Loadable)
  BY <1>1, <1>2, NothingWritten
<1>6. HistoryInv'
  BY <1>2, <1>5 DEF JournalInv, HistoryInv, Extends
<1> QED BY <1>4, <1>5, <1>6 DEF JournalInv

LEMMA PersistStep ==
  ASSUME JournalInv, persistNewMessages
  PROVE  JournalInv'
<1>1. TypeInv /\ FileInv /\ ChainInv /\ AckedInv
  BY DEF JournalInv
<1>2. /\ pc = "run" /\ transcript # seed
      /\ lines' = lines /\ terminated' = terminated /\ acked' = acked /\ newID' = newID
      /\ text' = text /\ runs' = runs /\ foreign' = foreign
      /\ model' = model /\ lastID' = lastID /\ seed' = seed /\ transcript' = transcript
      /\ IF Extends(transcript, seed)
         THEN /\ pc' = "persist"
              /\ pending' = SubSeq(transcript, Len(seed) + 1, Len(transcript))
         ELSE pc' = "off" /\ pending' = pending
  BY DEF persistNewMessages, fileVars
<1>3. FileInv' /\ ChainInv' /\ AckedInv' /\ Loaded' = Loaded /\ (Loadable' <=> Loadable)
  BY <1>1, <1>2, NothingWritten
<1>4. seed \in Seq(Messages) /\ transcript \in Seq(Messages) /\ pending \in Seq(Messages)
  BY <1>1 DEF TypeInv
<1>5. Extends(transcript, seed) =>
        /\ SubSeq(transcript, Len(seed) + 1, Len(transcript)) \in Seq(Messages)
        /\ seed \o SubSeq(transcript, Len(seed) + 1, Len(transcript)) = transcript
  BY <1>4, ExtendsRest
<1>6. TypeInv'
  BY <1>1, <1>2, <1>4, <1>5 DEF TypeInv
<1>7. HistoryInv'
  <2>1. Replay(Loaded) = seed /\ ModelOf(Loaded) = model
    BY <1>2 DEF JournalInv, HistoryInv
  <2>2. pc' = "persist" => seed \o pending' = transcript
    BY <1>2, <1>5
  <2>3. Replay(Loaded)' = seed /\ ModelOf(Loaded)' = model
    BY <1>3, <2>1
  <2>4. Extends(seed, seed)
    BY <1>4, ExtendsItself
  <2>5. pc' # "run" /\ pc' # "model"
    BY <1>2
  <2> QED BY <1>2, <2>2, <2>3, <2>4, <2>5 DEF HistoryInv, Extends
<1> QED BY <1>3, <1>6, <1>7 DEF JournalInv

\* What a run may write: a model_change at its start, then the messages of the Agent.
Writes(e) ==
  \/ e.kind = "model_change" /\ pc = "model"
  \/ e.kind = "message" /\ pc = "persist" /\ pending # <<>> /\ e.message = Head(pending)

\* What the file replays to when the entry of a run is on its line.
LEMMA HistoryGrows ==
  ASSUME JournalInv, NEW e \in Entries, Writes(e), Loadable
  PROVE  LET more == Append(Loaded, e) IN
         /\ Replay(Loaded) \in Seq(Messages) /\ Replay(more) \in Seq(Messages)
         /\ e.kind = "model_change" => Replay(more) = seed /\ ModelOf(more) = e.model
         /\ e.kind = "message" => /\ Replay(more) \o Tail(pending) = transcript
                                  /\ Tail(pending) \in Seq(Messages)
                                  /\ ModelOf(more) = model
         /\ Extends(Replay(Loaded), seed)
         /\ Extends(Replay(more), seed)
         /\ Extends(transcript, Replay(Loaded)) \/ Replay(Loaded) = seed
         /\ Extends(transcript, Replay(more)) \/ Replay(more) = seed
<1> DEFINE es == Loaded
           more == Append(es, e)
           h == Replay(es)
<1>1. /\ es \in Seq(Entries) /\ seed \in Seq(Messages)
      /\ transcript \in Seq(Messages) /\ pending \in Seq(Messages)
  BY LoadedIsEntries DEF JournalInv, FileInv, TypeInv
<1>2. /\ pc = "model" => h = seed
      /\ pc = "persist" => h \o pending = transcript /\ ModelOf(es) = model
      /\ Extends(h, seed)
      /\ Extends(transcript, h) \/ h = seed
  BY DEF JournalInv, HistoryInv
<1> HIDE DEF es
<1>3. /\ h \in Seq(Messages) /\ Replay(more) \in Seq(Messages)
      /\ e.kind = "message" => Replay(more) = Append(h, e.message)
      /\ e.kind \notin {"message", "compaction"} => Replay(more) = h
      /\ ModelOf(more) = IF e.kind = "model_change" THEN e.model ELSE ModelOf(es)
  BY <1>1, ReplayAppend, ModelOfAppend
<1> HIDE DEF h, more
<1>4. CASE e.kind = "model_change" /\ pc = "model"
  <2>1. Extends(seed, seed)
    BY <1>1, ExtendsItself
  <2> QED BY <1>2, <1>3, <1>4, <2>1 DEF h, more, es
<1>5. CASE e.kind = "message" /\ pc = "persist" /\ pending # <<>> /\ e.message = Head(pending)
  <2>1. /\ Append(h, Head(pending)) \o Tail(pending) = h \o pending
        /\ Head(pending) \in Messages /\ Tail(pending) \in Seq(Messages)
    BY <1>1, <1>3, <1>5, ExtendsConcat
  <2>2. Replay(more) = Append(h, Head(pending)) /\ ModelOf(more) = model
    BY <1>2, <1>3, <1>5
  <2>3. Replay(more) \o Tail(pending) = transcript
    BY <1>2, <1>5, <2>1, <2>2
  <2>4. Extends(Replay(more), seed)
    BY <1>1, <1>2, <1>3, <2>1, <2>2, ExtendsAppend
  <2>5. Extends(transcript, Replay(more))
    <3>1. Extends(Replay(more) \o Tail(pending), Replay(more))
      BY <1>3, <2>1, ExtendsConcat
    <3> QED BY <2>3, <3>1
  <2> QED BY <1>2, <1>3, <1>5, <2>1, <2>2, <2>3, <2>4, <2>5 DEF h, more, es
<1> QED BY <1>4, <1>5 DEF Writes

\* The append of a run failed, or the run died in it.
LEMMA FailStep ==
  ASSUME NoBareLine, JournalInv, NEW e \in Entries, e.id = newID, e.parent = lastID,
         Writes(e), Fail(e), newID' = newID + 1, UNCHANGED <<text, runs, foreign>>
  PROVE  JournalInv'
<1>1. TypeInv /\ FileInv /\ ChainInv /\ AckedInv
  BY DEF JournalInv
<1>2. pc # "off" /\ lines # <<>> /\ terminated /\ e.parent = LastIDOf(Loaded)
  BY <1>1 DEF Writes, FileInv, ChainInv
<1>3. /\ pc' = "off" /\ pending' = <<>> /\ model' = model /\ lastID' = lastID
      /\ seed' = seed /\ transcript' = transcript /\ acked' = acked
      /\ text' = text /\ runs' = runs /\ foreign' = foreign
  BY DEF Fail, Off
<1>4. PICK cut \in {"nothing", "line", "part"} : Write(e, cut)
  <2>1. {"nothing", "line"} \cup Tears \subseteq {"nothing", "line", "part"}
    BY DEF NoBareLine
  <2> QED BY <2>1 DEF Fail
<1>5. /\ lines' \in Seq(Seq(Fragments)) /\ terminated' \in BOOLEAN
      /\ acked' \in Seq(Entries) /\ newID' \in Nat \ {0}
      /\ FileInv' /\ ChainInv' /\ AckedInv'
      /\ Loaded' = (IF cut = "line" THEN Append(Loaded, e) ELSE Loaded)
      /\ Loadable
  BY <1>1, <1>2, <1>3, <1>4, EntryWritten
<1>6. TypeInv'
  BY <1>1, <1>3, <1>5, EmptySeq DEF TypeInv
<1>7. HistoryInv'
  <2>1. Loaded' = Append(Loaded, e) \/ Loaded' = Loaded
    BY <1>5
  <2>2. /\ Extends(Replay(Loaded'), seed)
        /\ Extends(transcript, Replay(Loaded')) \/ Replay(Loaded') = seed
    BY <1>5, <2>1, HistoryGrows
  <2> QED BY <1>3, <2>2 DEF HistoryInv, Extends, Replay
<1> QED BY <1>5, <1>6, <1>7 DEF JournalInv

\* The append of a run returned nil.
LEMMA AcknowledgeStep ==
  ASSUME JournalInv, NEW e \in Entries, e.id = newID, e.parent = lastID,
         Writes(e), Acknowledge(e), newID' = newID + 1, UNCHANGED <<text, runs, foreign>>,
         UNCHANGED <<model, seed, transcript>>,
         \/ e.kind = "model_change" /\ e.model = model /\ pc' = "run" /\ pending' = pending
         \/ e.kind = "message" /\ pc' = pc /\ pending' = Tail(pending)
  PROVE  JournalInv'
<1>1. TypeInv /\ FileInv /\ ChainInv /\ AckedInv
  BY DEF JournalInv
<1>2. pc # "off" /\ lines # <<>> /\ terminated /\ e.parent = LastIDOf(Loaded)
  BY <1>1 DEF Writes, FileInv, ChainInv
<1>3. /\ model' = model /\ seed' = seed /\ transcript' = transcript /\ lastID' = e.id
      /\ acked' = Append(acked, e) /\ text' = text /\ runs' = runs /\ foreign' = foreign
      /\ Write(e, "line")
  BY DEF Acknowledge
<1>4. /\ lines' \in Seq(Seq(Fragments)) /\ terminated' \in BOOLEAN
      /\ acked' \in Seq(Entries) /\ newID' \in Nat \ {0}
      /\ FileInv' /\ ChainInv' /\ AckedInv'
      /\ Loaded' = Append(Loaded, e) /\ Loadable
  <2> DEFINE cut == "line"
  <2>1. cut \in {"nothing", "line", "part"} /\ Write(e, cut) /\ cut = "line"
    BY <1>3
  <2> HIDE DEF cut
  <2> QED BY <1>1, <1>2, <1>3, <2>1, EntryWritten
<1>5. /\ e.kind = "model_change" => Replay(Loaded') = seed /\ ModelOf(Loaded') = e.model
      /\ e.kind = "message" => /\ Replay(Loaded') \o Tail(pending) = transcript
                               /\ Tail(pending) \in Seq(Messages)
                               /\ ModelOf(Loaded') = model
      /\ Extends(Replay(Loaded'), seed)
      /\ Extends(transcript, Replay(Loaded')) \/ Replay(Loaded') = seed
  BY <1>4, HistoryGrows
<1>6. TypeInv'
  <2>1. e.id \in Nat
    BY DEF Entries
  <2>2. pc' \in {"off", "create", "model", "run", "persist"} /\ pending' \in Seq(Messages)
    BY <1>1, <1>5 DEF TypeInv
  <2> QED BY <1>1, <1>3, <1>4, <2>1, <2>2 DEF TypeInv
<1>7. HistoryInv'
  <2>1. CASE e.kind = "model_change" /\ e.model = model /\ pc' = "run"
    BY <1>3, <1>5, <2>1 DEF HistoryInv, Extends, Replay, ModelOf
  <2>2. CASE e.kind = "message" /\ pc' = "persist" /\ pending' = Tail(pending)
    BY <1>3, <1>5, <2>2 DEF HistoryInv, Extends, Replay, ModelOf
  <2>3. e.kind = "message" => pc = "persist"
    BY DEF Writes
  <2> QED BY <2>1, <2>2, <2>3
<1> QED BY <1>4, <1>6, <1>7 DEF JournalInv

LEMMA RecordModelStep ==
  ASSUME NoBareLine, JournalInv, RecordModel
  PROVE  JournalInv'
<1> DEFINE blank == [Blank EXCEPT !.kind = "model_change", !.model = model]
           e == [blank EXCEPT !.id = newID, !.parent = lastID]
<1>1. /\ e \in Entries /\ e.id = newID /\ e.parent = lastID
      /\ e.kind = "model_change" /\ e.model = model
  <2>1. model \in Models \cup {None} /\ newID \in Nat /\ lastID \in Nat
    BY DEF JournalInv, TypeInv
  <2>2. Blank \in Entries
    BY EmptySeq DEF Blank, Entries, Messages, Kinds, Roles
  <2> QED BY <2>1, <2>2 DEF Entries, Kinds
<1>2. Writes(e)
  BY <1>1 DEF RecordModel, Writes
<1>3. /\ newID' = newID + 1 /\ UNCHANGED <<text, runs, foreign>>
      /\ \/ /\ Acknowledge(e) /\ pc' = "run" /\ pending' = pending
            /\ UNCHANGED <<model, seed, transcript>>
         \/ Fail(e)
  BY DEF RecordModel, AppendEntry
<1> HIDE DEF e
<1>4. CASE Fail(e)
  BY <1>1, <1>2, <1>3, <1>4, FailStep
<1>5. CASE /\ Acknowledge(e) /\ pc' = "run" /\ pending' = pending
           /\ UNCHANGED <<model, seed, transcript>>
  BY <1>1, <1>2, <1>3, <1>5, AcknowledgeStep
<1> QED BY <1>3, <1>4, <1>5

LEMMA AppendMessageStep ==
  ASSUME NoBareLine, JournalInv, AppendMessage
  PROVE  JournalInv'
<1> DEFINE next == [Blank EXCEPT !.message = Head(pending)]
           e == [next EXCEPT !.id = newID, !.parent = lastID]
<1>1. /\ e \in Entries /\ e.id = newID /\ e.parent = lastID
      /\ e.kind = "message" /\ e.message = Head(pending)
  <2>1. pending \in Seq(Messages) /\ pending # <<>> /\ newID \in Nat /\ lastID \in Nat
    BY DEF JournalInv, TypeInv, AppendMessage
  <2>2. Head(pending) \in Messages
    BY <2>1, HeadTailProperties
  <2>3. Blank \in Entries /\ Blank.kind = "message"
    BY EmptySeq DEF Blank, Entries, Messages, Kinds, Roles
  <2> QED BY <2>1, <2>2, <2>3 DEF Entries
<1>2. Writes(e)
  BY <1>1 DEF AppendMessage, Writes
<1>3. /\ newID' = newID + 1 /\ UNCHANGED <<text, runs, foreign>>
      /\ \/ /\ Acknowledge(e) /\ pc' = pc /\ pending' = Tail(pending)
            /\ UNCHANGED <<model, seed, transcript>>
         \/ Fail(e)
  BY DEF AppendMessage, AppendEntry
<1> HIDE DEF e
<1>4. CASE Fail(e)
  BY <1>1, <1>2, <1>3, <1>4, FailStep
<1>5. CASE /\ Acknowledge(e) /\ pc' = pc /\ pending' = Tail(pending)
           /\ UNCHANGED <<model, seed, transcript>>
  BY <1>1, <1>2, <1>3, <1>5, AcknowledgeStep
<1> QED BY <1>3, <1>4, <1>5

LEMMA ForeignAppendStep ==
  ASSUME JournalInv, ForeignAppend
  PROVE  JournalInv'
<1>1. TypeInv /\ FileInv /\ ChainInv /\ AckedInv
  BY DEF JournalInv
<1>2. /\ pc = "off" /\ Loadable /\ terminated /\ lines # <<>>
      /\ pc' = pc /\ model' = model /\ lastID' = lastID /\ pending' = pending /\ runs' = runs
      /\ newID' = newID + 1 /\ text' = text + 1 /\ foreign' = foreign + 1
  BY DEF ForeignAppend, Loadable
<1>3. Loaded \in Seq(Entries) /\ LastIDOf(Loaded) \in Nat /\ newID \in Nat /\ text \in Nat
  BY <1>1, LoadedIsEntries DEF FileInv, TypeInv
<1>4. PICK kind \in {"compaction", "future"},
           kept \in {0} \cup {Loaded[i].id : i \in DOMAIN Loaded} :
        LET e == [kind |-> kind, id |-> newID, parent |-> LastIDOf(Loaded), model |-> None,
                  kept |-> kept, message |-> [role |-> "user", texts |-> <<text + 1>>]]
        IN /\ Write(e, "line")
           /\ acked' = Append(acked, e)
           /\ seed' = Replay(Append(Loaded, e)) /\ transcript' = Replay(Append(Loaded, e))
  BY Zenon DEF ForeignAppend
<1> DEFINE e == [kind |-> kind, id |-> newID, parent |-> LastIDOf(Loaded), model |-> None,
                 kept |-> kept, message |-> [role |-> "user", texts |-> <<text + 1>>]]
<1>5. e \in Entries /\ e.id = newID /\ e.parent = LastIDOf(Loaded)
  <2>1. kept \in Nat
    <3>1. \A i \in DOMAIN Loaded : Loaded[i].id \in Nat
      <4>1. \A s \in Seq(Entries) : \A i \in DOMAIN s : s[i] \in Entries
        OBVIOUS
      <4>2. \A i \in DOMAIN Loaded : Loaded[i] \in Entries
        BY <1>3, <4>1, Zenon
      <4> QED BY <4>2 DEF Entries
    <3> QED BY <1>4, <3>1
  <2>2. [role |-> "user", texts |-> <<text + 1>>] \in Messages
    BY <1>3 DEF Messages, Roles
  <2> QED BY <1>3, <2>1, <2>2 DEF Entries, Kinds
<1>6. /\ Write(e, "line") /\ acked' = Append(acked, e)
      /\ seed' = Replay(Append(Loaded, e)) /\ transcript' = Replay(Append(Loaded, e))
  BY <1>4
<1> HIDE DEF e
<1>7. /\ lines' \in Seq(Seq(Fragments)) /\ terminated' \in BOOLEAN
      /\ acked' \in Seq(Entries) /\ newID' \in Nat \ {0}
      /\ FileInv' /\ ChainInv' /\ AckedInv'
      /\ Loaded' = Append(Loaded, e)
  <2> DEFINE cut == "line"
  <2>1. cut \in {"nothing", "line", "part"} /\ Write(e, cut) /\ cut = "line"
    BY <1>6
  <2> HIDE DEF cut
  <2>2. acked' = acked \/ (cut = "line" /\ acked' = Append(acked, e))
    BY <1>6, <2>1
  <2>3. pc' = "off"
    BY <1>2
  <2> QED BY <1>1, <1>2, <1>5, <2>1, <2>2, <2>3, EntryWritten
<1>8. Replay(Append(Loaded, e)) \in Seq(Messages)
  BY <1>3, <1>5, ReplayAppend
<1>9. TypeInv'
  BY <1>1, <1>2, <1>6, <1>7, <1>8 DEF TypeInv
<1>10. HistoryInv'
  <2>1. Replay(Loaded)' = seed' /\ transcript' = seed' /\ seed' \in Seq(Messages)
    <3>1. Replay(Loaded)' = Replay(Loaded')
      BY DEF Replay
    <3> QED BY <1>6, <1>7, <1>8, <3>1
  <2>2. Extends(seed', seed')
    BY <2>1, ExtendsItself
  <2> QED BY <1>2, <2>1, <2>2 DEF HistoryInv, Extends
<1> QED BY <1>7, <1>9, <1>10 DEF JournalInv

\* One case for each step of the specification.
LEMMA JournalStep ==
  ASSUME NoBareLine, JournalInv, [Next]_vars
  PROVE  JournalInv'
<1>1. ASSUME NEW m \in Models, CreateSession(m) PROVE JournalInv'
  BY <1>1, CreateSessionStep
<1>2. ASSUME NEW m \in Models, ResumeSession(m) PROVE JournalInv'
  BY <1>2, ResumeSessionStep
<1>3. CASE RecordModel
  BY <1>3, RecordModelStep
<1>4. CASE Converse
  BY <1>4, ConverseStep
<1>5. CASE RunFails
  <2>1. pc # "off" /\ Off /\ UNCHANGED <<fileVars, acked, newID, text, runs, foreign>>
    BY <1>5 DEF RunFails
  <2> QED BY <2>1, OffStep
<1>6. CASE persistNewMessages
  BY <1>6, PersistStep
<1>7. CASE AppendMessage
  BY <1>7, AppendMessageStep
<1>8. CASE Exit
  <2>1. pc # "off" /\ Off /\ UNCHANGED <<fileVars, acked, newID, text, runs, foreign>>
    BY <1>8 DEF Exit
  <2> QED BY <2>1, OffStep
<1>9. CASE Crash
  <2>1. pc # "off" /\ Off /\ UNCHANGED <<fileVars, acked, newID, text, runs, foreign>>
    BY <1>9 DEF Crash
  <2> QED BY <2>1, OffStep
<1>10. CASE ForeignAppend
  BY <1>10, ForeignAppendStep
<1>11. CASE UNCHANGED vars
  <2>1. TypeInv /\ FileInv /\ ChainInv /\ AckedInv
    BY DEF JournalInv
  <2>2. /\ lines' = lines /\ terminated' = terminated /\ acked' = acked /\ newID' = newID
        /\ text' = text /\ runs' = runs /\ foreign' = foreign
        /\ pc' = pc /\ pending' = pending /\ model' = model /\ lastID' = lastID
        /\ seed' = seed /\ transcript' = transcript
    BY <1>11 DEF vars, fileVars, runVars
  <2>3. TypeInv'
    BY <2>1, <2>2 DEF TypeInv
  <2>4. FileInv' /\ ChainInv' /\ AckedInv' /\ Loaded' = Loaded /\ (Loadable' <=> Loadable)
    BY <2>1, <2>2, NothingWritten
  <2>5. HistoryInv'
    BY <2>2, <2>4 DEF JournalInv, HistoryInv, Extends
  <2> QED BY <2>3, <2>4, <2>5 DEF JournalInv
<1> QED BY <1>1, <1>2, <1>3, <1>4, <1>5, <1>6, <1>7, <1>8, <1>9, <1>10, <1>11 DEF Next

-----------------------------------------------------------------------------
\* The invariant of the journal: however its runs crash and its writes are torn, the
\* file is a header and whole entries, of which only the last may be a torn one, and
\* what Load makes of it is linked, holds what was acknowledged and replays to what
\* the run in progress has persisted (store.append, Load, persistNewMessages).
THEOREM JournalInvariant ==
  ASSUME NoBareLine
  PROVE  Spec => []JournalInv
<1>1. Init => JournalInv
  BY InitJournal
<1>2. JournalInv /\ [Next]_vars => JournalInv'
  BY JournalStep
<1> QED BY <1>1, <1>2, PTL DEF Spec

\* No entry that store.append acknowledged is lost, doubled or reordered by a later
\* run, a crash or a torn write, and the entries stay linked to one another.
THEOREM EntriesSurviveAlways ==
  ASSUME NoBareLine
  PROVE  Spec => []EntriesSurvive
<1>1. JournalInv => EntriesSurvive
  <2> SUFFICES ASSUME JournalInv PROVE AckedSurvive /\ ParentChain
    BY DEF EntriesSurvive
  <2>1. AckedSurvive
    BY DEF JournalInv, FileInv, AckedInv, AckedSurvive
  <2>2. ParentChain
    BY DEF JournalInv, ChainInv, ParentChain
  <2> QED BY <2>1, <2>2
<1> QED BY <1>1, JournalInvariant, PTL

\* A journal that was opened once can be resumed after any crash, and the history it
\* resumes with lies between the one its run began with and the one the Agent ended
\* with, which it reaches when persistNewMessages has appended everything.
THEOREM RoundTripAlways ==
  ASSUME NoBareLine
  PROVE  Spec => []RoundTrip
<1>1. JournalInv => RoundTrip
  <2> SUFFICES ASSUME JournalInv, pc # "off" \/ seed # <<>>
               PROVE  /\ Loadable
                      /\ LET history == Replay(Loaded) IN
                         /\ Extends(history, seed)
                         /\ Extends(transcript, history) \/ history = seed
                         /\ pc = "persist" /\ pending = <<>> =>
                              history = transcript /\ ModelOf(Loaded) = model
    BY DEF RoundTrip
  <2>1. TypeInv /\ FileInv /\ HistoryInv /\ FileShape
    BY DEF JournalInv, FileInv
  <2>2. Loadable
    <3>1. CASE seed # <<>>
      BY <2>1, <3>1 DEF FileInv
    <3>2. CASE pc # "off"
      <4>1. lines # <<>> /\ terminated
        BY <2>1, <3>2 DEF FileInv
      <4>2. Loads(lines)
        BY <2>1, <4>1, LinesDecode DEF TypeInv, FileShape
      <4> QED BY <4>2 DEF Loads, Loadable
    <3> QED BY <3>1, <3>2
  <2>3. Extends(Replay(Loaded), seed)
        /\ (Extends(transcript, Replay(Loaded)) \/ Replay(Loaded) = seed)
    BY <2>1, <2>2 DEF HistoryInv
  <2>4. ASSUME pc = "persist", pending = <<>>
        PROVE  Replay(Loaded) = transcript /\ ModelOf(Loaded) = model
    <3>1. Replay(Loaded) \o <<>> = transcript /\ ModelOf(Loaded) = model
      BY <2>1, <2>4 DEF HistoryInv
    <3>2. Replay(Loaded) \in Seq(Messages)
      <4>1. Loaded \in Seq(Entries)
        BY <2>1, LoadedIsEntries
      <4>2. PICK e \in Entries : TRUE
        <5>1. Blank \in Entries
          BY EmptySeq DEF Blank, Entries, Messages, Kinds, Roles
        <5> QED BY <5>1
      <4> QED BY <4>1, <4>2, ReplayAppend
    <3>3. Replay(Loaded) \o <<>> = Replay(Loaded)
      BY <3>2, ConcatEmptySeq
    <3> QED BY <3>1, <3>3
  <2> QED BY <2>2, <2>3, <2>4
<1> QED BY <1>1, JournalInvariant, PTL
=============================================================================
