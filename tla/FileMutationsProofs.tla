------------------------ MODULE FileMutationsProofs ------------------------
(***************************************************************************)
(* The serialisation of file mutations, proved for any number of callers,  *)
(* files and links, on the condition that the files behind the links       *)
(* exist: mutationQueueKey names a missing file by the path it is given,   *)
(* so a link to one has another key (the run file_new shows it).           *)
(*                                                                         *)
(* The argument: a call's key is its file's real path; the callers of a    *)
(* lock object are counted by refs, so the entry of a file in the table    *)
(* stays while anybody uses it, and all of them take the same mutex.       *)
(***************************************************************************)
EXTENDS FileMutations, FiniteSetTheorems, TLAPS

\* Every link leads to a file that exists when the agent starts.
LinksResolve == \A p \in Aliases : Target[p] \in Present

\* The markers are no callers and no words.
NamesDiffer == {NoFile, NoLock} \cap (Callers \cup Words) = {}

Inside == {"start", "apply", "open", "fill", "unlock"}
Using == Inside \cup {"lock", "release"}
Labels == Using \cup {"idle", "acquire", "done"}

Texts == SUBSET (Callers \cup Words)

TypeOK ==
  /\ content \in [Files -> Texts \cup {Absent}]
  /\ locks \in [Paths -> Callers \cup {NoLock}]
  /\ refs \in [Callers -> Int]
  /\ holder \in [Callers -> Callers \cup {NoLock}]
  /\ pc \in [Callers -> Labels]
  /\ call \in [Callers -> Calls \cup {NoCall}]
  /\ key \in [Callers -> Paths \cup {NoFile}]
  /\ lock \in [Callers -> Callers \cup {NoLock}]
  /\ text \in [Callers -> Texts]
  /\ seen \in [Callers -> Texts \cup {NoRead}]
  /\ result \in [Callers -> {"none", "ok", "error", "late", "lost"}]
  /\ before \in [Callers -> Texts \cup {Absent}]

\* A file behind a link never goes away: the tools write files and remove none.
LinkedPresent == \A p \in Aliases : content[Target[p]] # Absent

\* A call that has its arguments queues under the real path of its file.
KeyOf(t) ==
  pc[t] \in Using \cup {"acquire"} => call[t] \in Calls /\ key[t] = File(t)

Users(l) == {t \in Callers : pc[t] \in Using /\ lock[t] = l}

\* The lock object of a call is the one the table holds for its key, its users are
\* counted, and its mutex is held by the call that is inside.
LockOf(t) ==
  /\ pc[t] \in Using => lock[t] \in Callers /\ locks[key[t]] = lock[t]
  /\ pc[t] \in Inside => holder[lock[t]] = t
  /\ refs[t] = Cardinality(Users(t))
  /\ pc[t] \in {"idle", "acquire"} =>
       (\A p \in Paths : locks[p] # t) /\ (\A u \in Callers : lock[u] # t)

KeyInv == \A t \in Callers : KeyOf(t)
LockInv == \A t \in Callers : LockOf(t)
FileInv == TypeOK /\ LinkedPresent /\ KeyInv /\ LockInv

\* The real path of a call's path is a file.
LEMMA RealPathIsFile == \A p \in Paths : RealPath(p) \in Files
BY FileMutationsAssumption DEF RealPath, Paths

\* A text never is the mark of a missing file.
LEMMA TextIsPresent ==
  ASSUME NamesDiffer
  PROVE  \A s \in Texts : s # Absent
BY DEF NamesDiffer, Texts, Absent

LEMMA FileInvInit ==
  ASSUME NamesDiffer, LinksResolve, Init
  PROVE  FileInv
<1>1. TypeOK
  BY DEF Init, TypeOK, Texts, Labels
<1>2. LinkedPresent
  <2>1. \A p \in Aliases : Target[p] \in Files /\ content[Target[p]] = Words
    BY FileMutationsAssumption DEF Init, LinksResolve
  <2>2. Words # Absent
    BY DEF NamesDiffer, Absent
  <2> QED BY <2>1, <2>2 DEF LinkedPresent
<1>3. KeyInv
  BY DEF Init, KeyInv, KeyOf, Using, Inside
<1>4. LockInv
  <2> SUFFICES ASSUME NEW t \in Callers PROVE LockOf(t)
    BY DEF LockInv
  <2>1. Users(t) = {} /\ refs[t] = 0 /\ pc[t] = "idle"
    BY DEF Init, Users, Using, Inside
  <2>2. Cardinality(Users(t)) = 0
    BY <2>1, FS_EmptySet
  <2>3. (\A p \in Paths : locks[p] # t) /\ (\A u \in Callers : lock[u] # t)
    BY DEF Init, NamesDiffer
  <2> QED BY <2>1, <2>2, <2>3 DEF LockOf, Using, Inside
<1> QED BY <1>1, <1>2, <1>3, <1>4 DEF FileInv

\* What a step writes is of its type.
LEMMA TypesKept ==
  ASSUME NamesDiffer, FileInv, [Next]_vars
  PROVE  TypeOK'
<1> USE DEF TypeOK, Goto
<1>1. TypeOK
  BY DEF FileInv
<1>2. CASE UNCHANGED vars \/ Cancel
  BY <1>1, <1>2 DEF vars, Cancel
<1>4. ASSUME NEW t \in Callers, NEW path \in Paths, Read(t, path)
      PROVE  TypeOK'
  <2>1. content[RealPath(path)] \in Texts
    BY <1>1, <1>4, RealPathIsFile DEF Read
  <2> QED BY <1>1, <1>4, <2>1 DEF Read
<1>3. ASSUME NEW t \in Callers, Invoke(t) \/ InvokeFails(t) \/ Step(t)
      PROVE  TypeOK'
  <2>1. CASE Invoke(t)
    <3>1. PICK c \in Requests[t] :
            /\ call' = [call EXCEPT ![t] = c]
            /\ key' = [key EXCEPT ![t] = mutationQueueKey(c.path)]
            /\ text' = [text EXCEPT ![t] = IF c.tool = "write" THEN {t} ELSE {}]
      BY <2>1 DEF Invoke
    <3>2. c \in Calls /\ c.path \in Paths
      BY FileMutationsAssumption DEF Calls
    <3>3. mutationQueueKey(c.path) \in Paths
      BY <3>2, RealPathIsFile DEF mutationQueueKey, Paths
    <3>4. UNCHANGED <<content, locks, refs, holder, lock, seen, result, before>> /\ pc' = [pc EXCEPT ![t] = "acquire"]
      BY <2>1 DEF Invoke
    <3>5. (IF c.tool = "write" THEN {t} ELSE {}) \in Texts
      BY DEF Texts
    <3> QED BY <1>1, <3>1, <3>2, <3>3, <3>4, <3>5 DEF Labels
  <2>2. CASE InvokeFails(t)
    BY <1>1, <2>2 DEF InvokeFails, Labels
  <2>3. CASE acquire(t)
    <3>1. key[t] \in Paths
      BY <2>3, RealPathIsFile DEF FileInv, KeyInv, KeyOf, acquire, File, Paths, Calls
    <3> DEFINE l == IF locks[key[t]] = NoLock THEN t ELSE locks[key[t]]
    <3>2. l \in Callers
      BY <1>1, <3>1
    <3>3. /\ locks' = [locks EXCEPT ![key[t]] = l] /\ refs' = [refs EXCEPT ![l] = @ + 1]
          /\ lock' = [lock EXCEPT ![t] = l] /\ pc' = [pc EXCEPT ![t] = "lock"]
          /\ UNCHANGED <<content, holder, call, key, text, seen, result, before>>
      BY <2>3 DEF acquire
    <3> HIDE DEF l
    <3> QED BY <1>1, <3>1, <3>2, <3>3 DEF Labels, Using
  <2>4. CASE Lock(t) \/ Unlock(t)
    BY <1>1, <2>4 DEF Lock, Unlock, Labels, Using, Inside
  <2>5. CASE ReadForEdit(t)
    <3>1. File(t) \in Files
      BY <2>5, RealPathIsFile DEF FileInv, KeyInv, KeyOf, ReadForEdit, File, Using, Inside, Calls
    <3>2. content[File(t)] # Absent => content[File(t)] \in Texts
      BY <1>1, <3>1
    <3> QED BY <1>1, <2>5, <3>2 DEF ReadForEdit, Fail, Labels, Using, Inside
  <2>6. CASE Apply(t)
    <3>1. \A old \in text[t] : (text[t] \ {old}) \cup {t} \in Texts
      BY <1>1 DEF Texts
    <3> QED BY <1>1, <2>6, <3>1 DEF Apply, Fail, Labels, Using, Inside
  <2>7. CASE Open(t)
    <3>1. {} \in Texts /\ content[File(t)] \in Texts \cup {Absent}
      BY <1>1, <2>7, RealPathIsFile
         DEF FileInv, KeyInv, KeyOf, Open, File, Using, Inside, Calls, Texts
    <3>2. CASE content' = content
      BY <1>1, <2>7, <3>1, <3>2 DEF Open, Fail, Labels, Using, Inside
    <3>3. CASE content' # content
      <4>1. /\ before' = [before EXCEPT ![t] = content[File(t)]]
            /\ content' = [content EXCEPT ![File(t)] = {}] /\ pc' = [pc EXCEPT ![t] = "fill"]
            /\ UNCHANGED <<text, result, locks, refs, holder, call, key, lock, seen>>
        BY <2>7, <3>3 DEF Open, Fail
      <4> QED BY <1>1, <3>1, <4>1 DEF Labels, Using, Inside
    <3> QED BY <3>2, <3>3
  <2>8. CASE Fill(t) \/ FillFails(t)
    BY <1>1, <2>8 DEF Fill, FillFails, Labels, Using, Inside
  <2>9. CASE release(t)
    <3>1. {} \in Texts
      BY DEF Texts
    <3>2. locks' \in [Paths -> Callers \cup {NoLock}]
      BY <1>1, <2>9 DEF release
    <3>3. refs' \in [Callers -> Int]
      <4>1. lock[t] \in Callers /\ refs' = [refs EXCEPT ![lock[t]] = refs[lock[t]] - 1]
        BY <2>9 DEF FileInv, LockInv, LockOf, Using, release
      <4> QED BY <1>1, <4>1
    <3>4. /\ UNCHANGED <<content, holder>> /\ pc' = [pc EXCEPT ![t] = "done"]
          /\ call' = [call EXCEPT ![t] = NoCall] /\ key' = [key EXCEPT ![t] = NoFile]
          /\ lock' = [lock EXCEPT ![t] = NoLock] /\ text' = [text EXCEPT ![t] = {}]
          /\ seen' = [seen EXCEPT ![t] = NoRead] /\ before' = [before EXCEPT ![t] = {}]
          /\ result' = result
      BY <2>9 DEF release
    <3> QED BY <1>1, <3>1, <3>2, <3>3, <3>4 DEF Labels
  <2> QED BY <1>3, <2>1, <2>2, <2>3, <2>4, <2>5, <2>6, <2>7, <2>8, <2>9 DEF Step
<1> QED BY <1>2, <1>3, <1>4 DEF Next

\* The tools empty and fill files; they never remove one.
LEMMA PresentKept ==
  ASSUME NamesDiffer, FileInv, [Next]_vars
  PROVE  /\ LinkedPresent'
         /\ \A f \in Files : content[f] # Absent => content'[f] # Absent
<1>1. TypeOK
  BY DEF FileInv
<1>2. \A f \in Files : content[f] # Absent => content'[f] # Absent
  <2>1. CASE content' = content
    BY <2>1
  <2>2. ASSUME NEW t \in Callers, Open(t)
        PROVE  content' = content \/ \E s \in Texts : content' = [content EXCEPT ![File(t)] = s]
    <3>1. {} \in Texts
      BY DEF Texts
    <3> QED BY <2>2, <3>1 DEF Open, Fail
  <2>3. ASSUME NEW t \in Callers, Fill(t)
        PROVE  \E s \in Texts : content' = [content EXCEPT ![File(t)] = s]
    BY <1>1, <2>3 DEF Fill, TypeOK
  <2>4. ASSUME NEW g, NEW s \in Texts, content' = [content EXCEPT ![g] = s]
        PROVE  \A f \in Files : content[f] # Absent => content'[f] # Absent
    BY <1>1, <2>4, TextIsPresent DEF TypeOK
  <2>5. \/ content' = content
        \/ \E t \in Callers : Open(t) \/ Fill(t)
    BY DEF Next, vars, Cancel, Read, Invoke, InvokeFails, Step, acquire, Lock, Unlock, release,
           ReadForEdit, Apply, Fail, FillFails
  <2> QED BY <2>1, <2>2, <2>3, <2>4, <2>5
<1>3. \A p \in Aliases : Target[p] \in Files
  BY FileMutationsAssumption
<1> QED BY <1>2, <1>3 DEF FileInv, LinkedPresent

\* A step of one call leaves the locals of the others alone.
LEMMA OthersKeep ==
  ASSUME FileInv, NEW t \in Callers, Invoke(t) \/ InvokeFails(t) \/ Step(t),
         NEW u \in Callers, u # t
  PROVE  /\ pc'[u] = pc[u] /\ call'[u] = call[u] /\ key'[u] = key[u] /\ lock'[u] = lock[u]
         /\ text'[u] = text[u] /\ seen'[u] = seen[u] /\ result'[u] = result[u]
         /\ before'[u] = before[u]
<1>1. TypeOK
  BY DEF FileInv
<1> USE <1>1 DEF TypeOK, Goto
<1>2. CASE Invoke(t)
  BY <1>2 DEF Invoke
<1>3. CASE InvokeFails(t) \/ acquire(t) \/ Lock(t) \/ Unlock(t)
  BY <1>3 DEF InvokeFails, acquire, Lock, Unlock
<1>4. CASE ReadForEdit(t) \/ Apply(t)
  BY <1>4 DEF ReadForEdit, Apply, Fail
<1>5. CASE Open(t) \/ Fill(t) \/ FillFails(t)
  BY <1>5 DEF Open, Fill, FillFails, Fail
<1>6. CASE release(t)
  BY <1>6 DEF release
<1> QED BY <1>2, <1>3, <1>4, <1>5, <1>6 DEF Step

\* A call keeps its arguments until it returns, and its key stays its file's real path:
\* the file behind a link does not go away.
LEMMA KeyKept ==
  ASSUME NamesDiffer, FileInv, [Next]_vars
  PROVE  KeyInv'
<1>1. TypeOK /\ KeyInv
  BY DEF FileInv
<1>2. CASE UNCHANGED <<pc, call, key>>
  BY <1>1, <1>2 DEF KeyInv, KeyOf, File
<1>3. ASSUME NEW t \in Callers, Invoke(t) \/ InvokeFails(t) \/ Step(t)
      PROVE  KeyOf(t)'
  <2> USE DEF Goto, TypeOK
  <2>1. CASE Invoke(t)
    <3>1. PICK c \in Requests[t] :
            /\ call' = [call EXCEPT ![t] = c]
            /\ key' = [key EXCEPT ![t] = mutationQueueKey(c.path)]
      BY <2>1 DEF Invoke
    <3>2. c \in Calls /\ c.path \in Paths
      BY FileMutationsAssumption DEF Calls
    <3>3. mutationQueueKey(c.path) = RealPath(c.path)
      <4>1. CASE c.path \in Files
        BY <4>1 DEF mutationQueueKey, RealPath
      <4>2. CASE c.path \notin Files
        <5>1. content[RealPath(c.path)] # Absent
          BY <3>2, <4>2 DEF FileInv, LinkedPresent, RealPath, Paths
        <5> QED BY <5>1 DEF mutationQueueKey
      <4> QED BY <4>1, <4>2
    <3>4. call'[t] = c /\ key'[t] = RealPath(c.path)
      BY <1>1, <3>1, <3>3
    <3> QED BY <3>2, <3>4 DEF KeyOf, File
  <2>2. CASE InvokeFails(t) \/ release(t)
    <3>1. pc'[t] = "done"
      BY <1>1, <2>2 DEF InvokeFails, release
    <3> QED BY <3>1 DEF KeyOf, Using, Inside
  <2>3. CASE acquire(t) \/ Lock(t) \/ Unlock(t) \/ ReadForEdit(t) \/ Apply(t) \/ Open(t)
             \/ Fill(t) \/ FillFails(t)
    <3>1. UNCHANGED <<call, key>> /\ pc[t] \in Using \cup {"acquire"}
      BY <2>3 DEF acquire, Lock, Unlock, ReadForEdit, Apply, Open, Fill, FillFails, Fail, Using, Inside
    <3> QED BY <1>1, <3>1 DEF KeyInv, KeyOf, File
  <2> QED BY <1>3, <2>1, <2>2, <2>3 DEF Step
<1>4. ASSUME NEW t \in Callers, Invoke(t) \/ InvokeFails(t) \/ Step(t)
      PROVE  KeyInv'
  <2>1. ASSUME NEW u \in Callers, u # t
        PROVE  KeyOf(u)'
    <3>1. pc'[u] = pc[u] /\ call'[u] = call[u] /\ key'[u] = key[u]
      BY <1>4, <2>1, OthersKeep
    <3> QED BY <1>1, <3>1 DEF KeyInv, KeyOf, File
  <2> QED BY <1>3, <1>4, <2>1 DEF KeyInv
<1> QED BY <1>2, <1>4 DEF Next, vars, Cancel, Read

\* The users of a lock object can be counted.
LEMMA UsersCounted ==
  ASSUME NEW l
  PROVE  IsFiniteSet(Users(l)) /\ Cardinality(Users(l)) \in Nat
<1>1. Users(l) \in SUBSET Callers /\ IsFiniteSet(Callers)
  BY FileMutationsAssumption DEF Users
<1> QED BY <1>1, FS_Subset, FS_CardinalityType

\* acquire finds or allocates the lock object of its key and counts itself in.
LEMMA AcquireKeepsLocks ==
  ASSUME NamesDiffer, FileInv, NEW t \in Callers, acquire(t)
  PROVE  LockInv'
<1> DEFINE l == IF locks[key[t]] = NoLock THEN t ELSE locks[key[t]]
<1>1. /\ TypeOK /\ LockInv /\ pc[t] = "acquire" /\ key[t] \in Paths /\ NoLock \notin Callers
  BY RealPathIsFile DEF FileInv, KeyInv, KeyOf, acquire, File, Paths, Calls, NamesDiffer
<1>2. l \in Callers
  BY <1>1 DEF TypeOK
<1>3. /\ locks' = [locks EXCEPT ![key[t]] = l] /\ refs' = [refs EXCEPT ![l] = refs[l] + 1]
      /\ lock' = [lock EXCEPT ![t] = l] /\ pc' = [pc EXCEPT ![t] = "lock"]
      /\ UNCHANGED <<holder, key>>
  BY DEF acquire, Goto
<1>4. /\ locks[key[t]] # NoLock => l = locks[key[t]]
      /\ locks[key[t]] = NoLock => l = t
      /\ l # t => l = locks[key[t]]
  OBVIOUS
<1> HIDE DEF l
<1>5. /\ pc'[t] = "lock" /\ lock'[t] = l /\ locks'[key'[t]] = l
      /\ \A u \in Callers : u # t => pc'[u] = pc[u] /\ lock'[u] = lock[u]
  BY <1>1, <1>3 DEF TypeOK
<1> SUFFICES ASSUME NEW u \in Callers PROVE LockOf(u)'
  BY DEF LockInv
<1>6. (pc[u] \in Using => lock[u] \in Callers /\ locks[key[u]] = lock[u])'
  <2>1. CASE u = t
    BY <1>2, <1>5, <2>1
  <2>2. CASE u # t /\ pc[u] \in Using
    <3>1. lock[u] \in Callers /\ locks[key[u]] = lock[u]
      BY <1>1, <2>2 DEF LockInv, LockOf
    <3>2. key[u] = key[t] => l = lock[u]
      BY <1>1, <1>4, <3>1
    <3>3. key[u] \in Paths
      BY <2>2, RealPathIsFile DEF FileInv, KeyInv, KeyOf, File, Paths, Calls
    <3>4. locks'[key[u]] = lock[u]
      BY <1>1, <1>3, <3>1, <3>2, <3>3 DEF TypeOK
    <3> QED BY <1>3, <1>5, <2>2, <3>1, <3>4
  <2>3. CASE u # t /\ pc[u] \notin Using
    BY <1>5, <2>3
  <2> QED BY <2>1, <2>2, <2>3
<1>7. (pc[u] \in Inside => holder[lock[u]] = u)'
  <2>1. CASE u = t
    BY <1>5, <2>1 DEF Inside
  <2>2. CASE u # t
    BY <1>1, <1>3, <1>5, <2>2 DEF LockInv, LockOf
  <2> QED BY <2>1, <2>2
<1>8. (refs[u] = Cardinality(Users(u)))'
  <2>1. refs[u] = Cardinality(Users(u)) /\ t \notin Users(u)
    BY <1>1 DEF LockInv, LockOf, Users, Using, Inside
  <2>2. CASE u = l
    <3>1. Users(u)' = Users(u) \cup {t}
      BY <1>5, <2>1, <2>2 DEF Users, Using
    <3>2. Cardinality(Users(u) \cup {t}) = Cardinality(Users(u)) + 1
      BY <2>1, UsersCounted, FS_AddElement
    <3>3. refs'[u] = refs[u] + 1
      BY <1>1, <1>3, <2>2 DEF TypeOK
    <3> QED BY <2>1, <3>1, <3>2, <3>3
  <2>3. CASE u # l
    <3>1. Users(u)' = Users(u)
      BY <1>5, <2>1, <2>3 DEF Users, Using
    <3>2. refs'[u] = refs[u]
      BY <1>1, <1>2, <1>3, <2>3 DEF TypeOK
    <3> QED BY <2>1, <3>1, <3>2
  <2> QED BY <2>2, <2>3
<1>9. (pc[u] \in {"idle", "acquire"} =>
         (\A p \in Paths : locks[p] # u) /\ (\A v \in Callers : lock[v] # u))'
  <2> SUFFICES ASSUME pc'[u] \in {"idle", "acquire"}
               PROVE  (\A p \in Paths : locks'[p] # u) /\ (\A v \in Callers : lock'[v] # u)
    OBVIOUS
  <2>1. u # t /\ pc[u] \in {"idle", "acquire"}
    BY <1>5
  <2>2. (\A p \in Paths : locks[p] # u) /\ (\A v \in Callers : lock[v] # u)
    BY <1>1, <2>1 DEF LockInv, LockOf
  <2>3. l # u
    BY <1>1, <1>4, <2>1, <2>2
  <2>4. \A p \in Paths : locks'[p] # u
    BY <1>1, <1>3, <2>2, <2>3 DEF TypeOK
  <2>5. \A v \in Callers : lock'[v] # u
    BY <1>1, <1>3, <2>2, <2>3 DEF TypeOK
  <2> QED BY <2>4, <2>5
<1> QED BY <1>6, <1>7, <1>8, <1>9 DEF LockOf

\* release takes the entry out of the table only when nobody else is counted.
LEMMA ReleaseKeepsLocks ==
  ASSUME NamesDiffer, FileInv, NEW t \in Callers, release(t)
  PROVE  LockInv'
<1> DEFINE l == lock[t]
<1>1. /\ TypeOK /\ LockInv /\ pc[t] = "release" /\ key[t] \in Paths /\ NoLock \notin Callers
  BY RealPathIsFile DEF FileInv, KeyInv, KeyOf, release, File, Paths, Calls, NamesDiffer, Using
<1>2. /\ l \in Callers /\ locks[key[t]] = l
  BY <1>1 DEF LockInv, LockOf, Using
<1>3. /\ locks' = IF refs[l] = 1 /\ locks[key[t]] = l
                  THEN [locks EXCEPT ![key[t]] = NoLock] ELSE locks
      /\ refs' = [refs EXCEPT ![l] = refs[l] - 1]
      /\ lock' = [lock EXCEPT ![t] = NoLock] /\ pc' = [pc EXCEPT ![t] = "done"]
      /\ key' = [key EXCEPT ![t] = NoFile] /\ holder' = holder
  BY DEF release, Goto
<1> HIDE DEF l
<1>4. /\ pc'[t] = "done" /\ lock'[t] = NoLock
      /\ \A u \in Callers : u # t => pc'[u] = pc[u] /\ lock'[u] = lock[u] /\ key'[u] = key[u]
  BY <1>1, <1>3 DEF TypeOK
<1>5. t \in Users(l)
  BY <1>1 DEF Users, Using, l
<1> SUFFICES ASSUME NEW u \in Callers PROVE LockOf(u)'
  BY DEF LockInv
<1>6. (pc[u] \in Using => lock[u] \in Callers /\ locks[key[u]] = lock[u])'
  <2>1. CASE u # t /\ pc[u] \in Using
    <3>1. lock[u] \in Callers /\ locks[key[u]] = lock[u]
      BY <1>1, <2>1 DEF LockInv, LockOf
    <3>2. key[u] = key[t] => refs[l] # 1
      <4> SUFFICES ASSUME key[u] = key[t], refs[l] = 1 PROVE FALSE
        OBVIOUS
      <4>1. u \in Users(l)
        BY <1>2, <2>1, <3>1 DEF Users
      <4>2. Cardinality(Users(l)) = 1
        BY <1>1, <1>2 DEF LockInv, LockOf
      <4>3. PICK x : Users(l) = {x}
        BY <4>2, UsersCounted, FS_Singleton
      <4> QED BY <1>5, <2>1, <4>1, <4>3
    <3>3. key[u] \in Paths
      BY <2>1, RealPathIsFile DEF FileInv, KeyInv, KeyOf, File, Paths, Calls
    <3>4. locks'[key[u]] = lock[u]
      BY <1>1, <1>3, <3>1, <3>2, <3>3 DEF TypeOK
    <3> QED BY <1>4, <2>1, <3>1, <3>4
  <2>2. CASE u = t \/ pc[u] \notin Using
    BY <1>4, <2>2 DEF Using, Inside
  <2> QED BY <2>1, <2>2
<1>7. (pc[u] \in Inside => holder[lock[u]] = u)'
  <2>1. CASE u = t
    BY <1>4, <2>1 DEF Inside
  <2>2. CASE u # t
    BY <1>1, <1>3, <1>4, <2>2 DEF LockInv, LockOf
  <2> QED BY <2>1, <2>2
<1>8. (refs[u] = Cardinality(Users(u)))'
  <2>1. refs[u] = Cardinality(Users(u))
    BY <1>1 DEF LockInv, LockOf
  <2>2. CASE u = l
    <3>1. Users(u)' = Users(u) \ {t}
      BY <1>4, <2>2 DEF Users, Using, Inside
    <3>2. Cardinality(Users(u) \ {t}) = Cardinality(Users(u)) - 1
      BY <1>5, <2>2, UsersCounted, FS_RemoveElement
    <3>3. refs'[u] = refs[u] - 1
      BY <1>1, <1>3, <2>2 DEF TypeOK
    <3> QED BY <2>1, <3>1, <3>2, <3>3
  <2>3. CASE u # l
    <3>1. Users(u)' = Users(u)
      <4>1. t \notin Users(u) /\ t \notin Users(u)'
        BY <1>4, <2>3 DEF Users, Using, Inside, l
      <4>2. \A v \in Callers : v # t => (v \in Users(u) <=> v \in Users(u)')
        BY <1>4 DEF Users
      <4> QED BY <4>1, <4>2 DEF Users
    <3>2. refs'[u] = refs[u]
      BY <1>1, <1>2, <1>3, <2>3 DEF TypeOK
    <3> QED BY <2>1, <3>1, <3>2
  <2> QED BY <2>2, <2>3
<1>9. (pc[u] \in {"idle", "acquire"} =>
         (\A p \in Paths : locks[p] # u) /\ (\A v \in Callers : lock[v] # u))'
  <2> SUFFICES ASSUME pc'[u] \in {"idle", "acquire"}
               PROVE  (\A p \in Paths : locks'[p] # u) /\ (\A v \in Callers : lock'[v] # u)
    OBVIOUS
  <2>1. u # t /\ pc[u] \in {"idle", "acquire"}
    BY <1>4
  <2>2. (\A p \in Paths : locks[p] # u) /\ (\A v \in Callers : lock[v] # u)
    BY <1>1, <2>1 DEF LockInv, LockOf
  <2>3. \A p \in Paths : locks'[p] # u
    BY <1>1, <1>3, <2>2 DEF TypeOK
  <2>4. \A v \in Callers : lock'[v] # u
    BY <1>1, <1>3, <2>2 DEF TypeOK
  <2> QED BY <2>3, <2>4
<1> QED BY <1>6, <1>7, <1>8, <1>9 DEF LockOf

\* The steps that keep every lock object's users, and the mutex's own steps.
LEMMA LocksKept ==
  ASSUME NamesDiffer, FileInv, [Next]_vars
  PROVE  LockInv'
<1>1. TypeOK /\ LockInv /\ NoLock \notin Callers
  BY DEF FileInv, NamesDiffer
<1>2. CASE UNCHANGED <<pc, locks, refs, holder, key, lock>>
  BY <1>1, <1>2 DEF LockInv, LockOf, Users
<1>3. ASSUME NEW t \in Callers, Invoke(t) \/ InvokeFails(t) \/ Step(t)
      PROVE  LockInv'
  <2>1. CASE acquire(t)
    BY <2>1, AcquireKeepsLocks
  <2>2. CASE release(t)
    BY <2>2, ReleaseKeepsLocks
  <2>3. CASE ~acquire(t) /\ ~release(t)
    <3>1. /\ UNCHANGED <<locks, refs, lock>>
          /\ \A u \in Callers : u # t => pc'[u] = pc[u] /\ key'[u] = key[u]
      <4>1. UNCHANGED <<locks, refs, lock>>
        BY <1>3, <2>3 DEF Invoke, InvokeFails, Step, Lock, Unlock, ReadForEdit, Apply, Open, Fill,
           FillFails
      <4> QED BY <1>3, <4>1, OthersKeep DEF FileInv
    <3>2. \/ pc[t] = "idle" /\ pc'[t] \in {"acquire", "done"} /\ holder' = holder
          \/ pc[t] \in Inside /\ pc'[t] \in Inside /\ UNCHANGED <<holder, key>>
          \/ /\ pc[t] = "lock" /\ holder[lock[t]] = NoLock /\ pc'[t] \in Inside /\ key' = key
             /\ holder' = [holder EXCEPT ![lock[t]] = t]
          \/ /\ pc[t] = "unlock" /\ pc'[t] = "release" /\ key' = key
             /\ holder' = [holder EXCEPT ![lock[t]] = NoLock]
      <4> USE DEF Goto, TypeOK
      <4>1. CASE Invoke(t) \/ InvokeFails(t)
        BY <1>1, <4>1 DEF Invoke, InvokeFails
      <4>2. CASE Lock(t) \/ Unlock(t)
        BY <1>1, <4>2 DEF Lock, Unlock, Inside
      <4>3. CASE ReadForEdit(t) \/ Apply(t) \/ Open(t) \/ Fill(t) \/ FillFails(t)
        BY <1>1, <4>3 DEF ReadForEdit, Apply, Open, Fill, FillFails, Fail, Inside
      <4> QED BY <1>3, <2>3, <4>1, <4>2, <4>3 DEF Step
    <3>3. /\ pc[t] \in Using <=> pc'[t] \in Using
          /\ pc'[t] \in {"idle", "acquire"} => pc[t] \in {"idle", "acquire"}
          /\ pc[t] \in Using => key'[t] = key[t]
      BY <3>2 DEF Using, Inside
    <3> SUFFICES ASSUME NEW u \in Callers PROVE LockOf(u)'
      BY DEF LockInv
    <3>4. LockOf(u)
      BY <1>1 DEF LockInv
    <3>5. Users(u)' = Users(u)
      BY <3>1, <3>3 DEF Users
    <3>6. /\ pc'[u] \in Using => pc[u] \in Using /\ key'[u] = key[u]
          /\ pc'[u] \in {"idle", "acquire"} => pc[u] \in {"idle", "acquire"}
      BY <3>1, <3>3
    <3>7. pc'[u] \in Inside => holder'[lock[u]] = u
      <4> SUFFICES ASSUME pc'[u] \in Inside PROVE holder'[lock[u]] = u
        OBVIOUS
      <4>1. pc[u] \in Using /\ lock[u] \in Callers
        BY <3>4, <3>6 DEF LockOf, Using
      <4>2. CASE u = t
        BY <1>1, <3>2, <3>4, <4>1, <4>2 DEF TypeOK, LockOf, Inside
      <4>3. CASE u # t
        <5>1. pc[u] \in Inside /\ holder[lock[u]] = u
          BY <3>1, <3>4, <4>3 DEF LockOf
        <5>2. pc[t] = "unlock" => holder[lock[t]] = t
          BY <1>1 DEF LockInv, LockOf, Inside
        <5> QED BY <1>1, <3>2, <4>1, <4>3, <5>1, <5>2 DEF TypeOK
      <4> QED BY <4>2, <4>3
    <3> QED BY <3>1, <3>4, <3>5, <3>6, <3>7 DEF LockOf
  <2> QED BY <2>1, <2>2, <2>3
<1> QED BY <1>2, <1>3 DEF Next, vars, Cancel, Read

\* Under NamesDiffer and LinksResolve the locks' bookkeeping holds in every state.
THEOREM FileInvariant ==
  ASSUME NamesDiffer, LinksResolve
  PROVE  Spec => []FileInv
<1>1. Init => FileInv
  BY FileInvInit
<1>2. FileInv /\ [Next]_vars => FileInv'
  BY TypesKept, PresentKept, KeyKept, LocksKept DEF FileInv
<1> QED BY <1>1, <1>2, PTL DEF Spec

\* "File mutations are serialized per real path", through links and for any number of
\* calls: DoValue never lets two of them into the mutating function of one file.
LEMMA Serial == FileInv => SameFileSerial
<1> SUFFICES ASSUME FileInv, NEW t \in Callers, NEW u \in Callers, t # u, InBody(t), InBody(u),
                    File(t) = File(u)
             PROVE  FALSE
  BY DEF SameFileSerial
<1>1. pc[t] \in Inside /\ pc[u] \in Inside
  BY DEF InBody, Inside
<1>2. key[t] = key[u]
  BY <1>1 DEF FileInv, KeyInv, KeyOf, Using
<1>3. lock[t] = lock[u]
  BY <1>1, <1>2 DEF FileInv, LockInv, LockOf, Using
<1> QED BY <1>1, <1>3 DEF FileInv, LockInv, LockOf

\* No two calls are inside the mutating function of one file (FileMutationQueue.DoValue,
\* acquire and release), when the links lead to existing files.
THEOREM SameFileSerialAlways ==
  ASSUME NamesDiffer, LinksResolve
  PROVE  Spec => []SameFileSerial
BY FileInvariant, Serial, PTL

(***************************************************************************)
(* What a call is about to write, and its anchor.                          *)
(***************************************************************************)
\* The text of t is one that the content c may be given by a call of t.
Planned(t, c) ==
  \/ text[t] = {t}
  \/ c # Absent /\ \E old \in c : text[t] = (c \ {old}) \cup {t}

Waiting == {"idle", "acquire", "lock", "start", "apply", "open", "fill"}

\* What an edit has read, and the anchor it has compared, still is the content of its
\* file; a file being filled is empty, and the text replaces what it held before.
EditOf(t) ==
  /\ pc[t] \in {"acquire", "lock"} /\ call[t].tool = "write" => text[t] = {t}
  /\ pc[t] \in {"acquire", "lock"} /\ call[t].anchored => call[t].tool = "edit"
  /\ pc[t] = "apply" => text[t] = content[File(t)]
  /\ pc[t] = "open" => Planned(t, content[File(t)])
  /\ pc[t] = "open" /\ call[t].anchored => content[File(t)] = seen[t]
  /\ pc[t] = "fill" => Planned(t, before[t]) /\ content[File(t)] = {}
  /\ pc[t] \in Waiting => result[t] = "none"

EditInv == \A t \in Callers : EditOf(t)

\* A call writes to the file it holds the lock of.
LEMMA OthersFiles ==
  ASSUME FileInv, NEW t \in Callers, Invoke(t) \/ InvokeFails(t) \/ Step(t),
         NEW f \in Files, ~(InBody(t) /\ File(t) = f)
  PROVE  content'[f] = content[f]
<1>1. TypeOK
  BY DEF FileInv
<1>2. CASE Open(t) \/ Fill(t)
  <2>1. InBody(t)
    BY <1>2 DEF Open, Fill, InBody
  <2>2. content' = content \/ \E s : content' = [content EXCEPT ![File(t)] = s]
    BY <1>2 DEF Open, Fill, Fail
  <2> QED BY <1>1, <2>1, <2>2 DEF TypeOK
<1>3. CASE ~(Open(t) \/ Fill(t))
  <2>1. content' = content
    BY <1>3 DEF Invoke, InvokeFails, Step, acquire, Lock, Unlock, release, ReadForEdit, Apply,
       FillFails, Fail
  <2> QED BY <2>1
<1> QED BY <1>2, <1>3

\* A call inside the mutating function of a file sees no other call's writes.
LEMMA EditUndisturbed ==
  ASSUME FileInv, EditInv, NEW t \in Callers, Invoke(t) \/ InvokeFails(t) \/ Step(t),
         NEW u \in Callers, u # t
  PROVE  EditOf(u)'
<1>1. /\ pc'[u] = pc[u] /\ call'[u] = call[u] /\ text'[u] = text[u] /\ seen'[u] = seen[u]
      /\ result'[u] = result[u] /\ before'[u] = before[u]
  BY OthersKeep
<1>2. EditOf(u)
  BY DEF EditInv
<1>3. InBody(u) => content'[File(u)] = content[File(u)]
  <2> SUFFICES ASSUME InBody(u) PROVE content'[File(u)] = content[File(u)]
    OBVIOUS
  <2>1. File(u) \in Files
    BY RealPathIsFile DEF FileInv, KeyInv, KeyOf, File, InBody, Using, Inside, Calls
  <2>2. ~(InBody(t) /\ File(t) = File(u))
    BY Serial DEF SameFileSerial
  <2> QED BY <2>1, <2>2, OthersFiles
<1>4. File(u)' = File(u)
  BY <1>1 DEF File
<1> QED BY <1>1, <1>2, <1>3, <1>4 DEF EditOf, InBody, Planned

\* A call's own steps: its edit is made from what the file holds.
LEMMA EditOwn ==
  ASSUME NamesDiffer, FileInv, NEW t \in Callers, EditOf(t),
         Invoke(t) \/ InvokeFails(t) \/ Step(t)
  PROVE  EditOf(t)'
<1>1. TypeOK
  BY DEF FileInv
<1> USE <1>1 DEF TypeOK, Goto
<1>2. CASE Invoke(t)
  <2>1. PICK c \in Requests[t] :
          /\ c.anchored => c.tool = "edit"
          /\ call'[t] = c
          /\ text'[t] = IF c.tool = "write" THEN {t} ELSE {}
    BY <1>2 DEF Invoke
  <2>2. pc[t] = "idle" /\ pc'[t] = "acquire" /\ result' = result
    BY <1>2 DEF Invoke
  <2> QED BY <2>1, <2>2 DEF EditOf, Waiting
<1>3. CASE InvokeFails(t) \/ Unlock(t) \/ release(t)
  <2>1. pc'[t] \in {"done", "release"}
    BY <1>3 DEF InvokeFails, Unlock, release
  <2> QED BY <2>1 DEF EditOf, Waiting
<1>4. CASE acquire(t)
  <2>1. pc[t] = "acquire" /\ pc'[t] = "lock" /\ UNCHANGED <<call, text, result>>
    BY <1>4 DEF acquire
  <2> QED BY <2>1 DEF EditOf, Waiting
<1>5. CASE Lock(t)
  <2>1. /\ pc[t] = "lock" /\ UNCHANGED <<content, call, text, result, seen>>
        /\ pc'[t] = IF call[t].tool = "write" THEN "open" ELSE "start"
    BY <1>5 DEF Lock
  <2> QED BY <2>1 DEF EditOf, Waiting, Planned
<1>6. ASSUME Fail(t) /\ pc[t] \in Inside
      PROVE  EditOf(t)'
  <2>1. pc'[t] = "unlock"
    BY <1>6 DEF Fail
  <2> QED BY <2>1 DEF EditOf, Waiting
<1>7. CASE ReadForEdit(t)
  <2>1. \/ Fail(t) /\ pc[t] \in Inside
        \/ /\ pc[t] = "start" /\ pc'[t] = "apply" /\ text'[t] = content[File(t)]
           /\ UNCHANGED <<content, call, result>>
    BY <1>7 DEF ReadForEdit, Inside
  <2> QED BY <1>6, <2>1 DEF EditOf, Waiting, File
<1>8. CASE Apply(t)
  <2>1. \/ Fail(t) /\ pc[t] \in Inside
        \/ /\ pc[t] = "apply" /\ pc'[t] = "open" /\ UNCHANGED <<content, call, result, seen>>
           /\ call[t].anchored => seen[t] = text[t]
           /\ \E old \in text[t] : text'[t] = (text[t] \ {old}) \cup {t}
    BY <1>8 DEF Apply, Inside
  <2>2. text[t] # Absent
    BY TextIsPresent
  <2> QED BY <1>6, <2>1, <2>2 DEF EditOf, Waiting, File, Planned
<1>9. CASE Open(t)
  <2>1. File(t) \in Files
    BY <1>9, RealPathIsFile DEF FileInv, KeyInv, KeyOf, Open, File, Using, Inside, Calls
  <2>2. \/ Fail(t) /\ pc[t] \in Inside
        \/ /\ pc[t] = "open" /\ pc'[t] = "fill" /\ UNCHANGED <<call, result, text>>
           /\ before'[t] = content[File(t)] /\ content'[File(t)] = {}
    BY <1>9, <2>1 DEF Open, Inside
  <2> QED BY <1>6, <2>2 DEF EditOf, Waiting, File, Planned
<1>10. CASE Fill(t) \/ FillFails(t)
  <2>1. pc'[t] = "unlock"
    BY <1>10 DEF Fill, FillFails
  <2> QED BY <2>1 DEF EditOf, Waiting
<1> QED BY <1>2, <1>3, <1>4, <1>5, <1>7, <1>8, <1>9, <1>10 DEF Step

LEMMA EditInvStep ==
  ASSUME NamesDiffer, FileInv, EditInv, [Next]_vars
  PROVE  EditInv'
<1>1. CASE UNCHANGED <<pc, call, text, content, seen, result, before>>
  BY <1>1 DEF EditInv, EditOf, File, Planned
<1>2. ASSUME NEW t \in Callers, Invoke(t) \/ InvokeFails(t) \/ Step(t)
      PROVE  EditInv'
  BY <1>2, EditOwn, EditUndisturbed DEF EditInv
<1>3. ASSUME NEW t \in Callers, NEW path \in Paths, Read(t, path)
      PROVE  EditInv'
  <2>1. /\ pc[t] = "idle" /\ UNCHANGED <<pc, call, text, content, result, before>>
        /\ \A u \in Callers : u # t => seen'[u] = seen[u]
    BY <1>3 DEF Read, FileInv, TypeOK
  <2> QED BY <2>1 DEF EditInv, EditOf, File, Planned
<1> QED BY <1>1, <1>2, <1>3 DEF Next, vars, Cancel

THEOREM EditInvariant ==
  ASSUME NamesDiffer, LinksResolve
  PROVE  Spec => []EditInv
<1>1. Init => EditInv
  BY DEF Init, EditInv, EditOf
<1>2. FileInv /\ EditInv /\ [Next]_vars => EditInv'
  BY EditInvStep
<1> QED BY <1>1, <1>2, FileInvariant, PTL DEF Spec

\* An edit with an anchor writes over the content its anchor was made from and over no
\* other, whatever other calls do between the anchor's comparison and the write
\* (newEditTool).
THEOREM AnchorGuardsAlways ==
  ASSUME NamesDiffer, LinksResolve
  PROVE  Spec => AnchorGuards
<1> DEFINE Guarded == \A t \in Callers :
             pc[t] # "fill" /\ pc'[t] = "fill" /\ call[t].anchored => content[File(t)] = seen[t]
<1>1. FileInv /\ EditInv /\ [Next]_vars => [Guarded]_vars
  <2> SUFFICES ASSUME FileInv, EditInv, [Next]_vars, NEW t \in Callers,
                      pc[t] # "fill", pc'[t] = "fill", call[t].anchored
               PROVE  content[File(t)] = seen[t]
    OBVIOUS
  <2>1. PICK u \in Callers : Invoke(u) \/ InvokeFails(u) \/ Step(u)
    BY DEF Next, vars, Cancel, Read
  <2>2. u = t
    BY <2>1, OthersKeep
  <2>3. pc \in [Callers -> Labels]
    BY DEF FileInv, TypeOK
  <2>4. pc[t] = "open"
    BY <2>1, <2>2, <2>3 DEF Invoke, InvokeFails, Step, acquire, Lock, Unlock, release, ReadForEdit,
       Apply, Open, Fill, FillFails, Fail, Goto
  <2> QED BY <2>4 DEF EditInv, EditOf
<1>2. Spec => [][Guarded]_vars
  BY <1>1, FileInvariant, EditInvariant, PTL DEF Spec
<1> QED BY <1>2 DEF AnchorGuards

(***************************************************************************)
(* Every call takes effect at one moment.                                  *)
(***************************************************************************)
\* At most one call is filling a file, and until it is done the file shows what the call
\* found.
LEMMA ShownAt ==
  ASSUME FileInv, NEW f \in Files
  PROVE  /\ Writers(f) = {} => shown[f] = content[f]
         /\ \A t \in Writers(f) : shown[f] = before[t] /\ Writers(f) = {t}
<1>1. \A t, u \in Writers(f) : t = u
  BY Serial DEF SameFileSerial, Writers, InBody
<1>2. CASE Writers(f) = {}
  BY <1>2 DEF shown
<1>3. CASE Writers(f) # {}
  <2>1. (CHOOSE t \in Writers(f) : TRUE) \in Writers(f)
    BY <1>3
  <2>2. shown[f] = before[CHOOSE t \in Writers(f) : TRUE]
    BY <1>3 DEF shown
  <2> QED BY <1>1, <1>3, <2>1, <2>2
<1> QED BY <1>2, <1>3

\* A step that neither begins nor ends a writing to a file shows nothing of it.
LEMMA ShownKept ==
  ASSUME NEW f \in Files, Writers(f)' = Writers(f), content'[f] = content[f],
         \A t \in Writers(f) : before'[t] = before[t]
  PROVE  shown'[f] = shown[f]
<1> DEFINE W == Writers(f)
           chosen == CHOOSE t \in W : TRUE
<1>1. shown[f] = IF W = {} THEN content[f] ELSE before[chosen]
  BY DEF shown
<1>2. shown'[f] = IF W' = {} THEN content'[f] ELSE before'[CHOOSE t \in W' : TRUE]
  BY DEF shown
<1>3. W # {} => chosen \in W
  OBVIOUS
<1>4. shown'[f] = IF W = {} THEN content'[f] ELSE before'[chosen]
  BY <1>2
<1> HIDE DEF W, chosen
<1>5. \A t \in W : before'[t] = before[t]
  BY DEF W
<1> QED BY <1>1, <1>3, <1>4, <1>5

\* A step of one call shows nothing of the files it does not begin or end writing to.
LEMMA ShownElsewhere ==
  ASSUME FileInv, NEW t \in Callers, Invoke(t) \/ InvokeFails(t) \/ Step(t), NEW f \in Files,
         ~(InBody(t) /\ File(t) = f)
  PROVE  shown'[f] = shown[f]
<1>1. /\ content'[f] = content[f]
      /\ \A u \in Callers : u # t => pc'[u] = pc[u] /\ call'[u] = call[u] /\ before'[u] = before[u]
  BY OthersFiles, OthersKeep
<1>2. t \notin Writers(f)
  BY DEF Writers, InBody
<1>3. ~(pc'[t] = "fill" /\ File(t)' = f)
  <2> SUFFICES ASSUME pc'[t] = "fill", File(t)' = f PROVE FALSE
    OBVIOUS
  <2>1. Open(t)
    BY DEF FileInv, TypeOK, Invoke, InvokeFails, Step, acquire, Lock, Unlock, release, ReadForEdit,
       Apply, Fill, FillFails, Fail, Goto
  <2>2. call' = call /\ pc[t] = "open"
    BY <2>1 DEF Open
  <2> QED BY <2>2 DEF InBody, File
<1>4. \A u \in Callers : u # t => (u \in Writers(f) <=> u \in Writers(f)')
  BY <1>1 DEF Writers, File
<1>5. t \notin Writers(f)'
  BY <1>3 DEF Writers
<1>6. Writers(f)' = Writers(f)
  BY <1>2, <1>4, <1>5 DEF Writers
<1> QED BY <1>1, <1>2, <1>6, ShownKept DEF Writers

\* Opening and emptying a file shows nothing; filling it, or failing to, is what shows.
LEMMA WritingShows ==
  ASSUME NamesDiffer, FileInv, EditInv, NEW t \in Callers, Open(t) \/ Fill(t) \/ FillFails(t)
  PROVE  /\ File(t) \in Files
         /\ pc[t] = "open" => shown'[File(t)] = shown[File(t)]
         /\ pc[t] = "fill" => /\ shown[File(t)] = before[t]
                             /\ shown'[File(t)] = content'[File(t)]
<1>1. TypeOK /\ pc[t] \in {"open", "fill"} /\ InBody(t)
  BY DEF FileInv, Open, Fill, FillFails, InBody
<1>2. File(t) \in Files
  BY <1>1, RealPathIsFile DEF FileInv, KeyInv, KeyOf, File, Using, Inside, Calls
<1> PICK f \in Files : f = File(t)
  BY <1>2
<1>3. \A u \in Callers : u # t => u \notin Writers(f)
  BY <1>1, Serial DEF SameFileSerial, Writers, InBody
<1>4. \A u \in Callers : u # t => u \notin Writers(f)'
  <2>1. \A u \in Callers : u # t => pc'[u] = pc[u] /\ call'[u] = call[u]
    BY OthersKeep DEF Step
  <2>2. call' = call
    BY DEF Open, Fill, FillFails
  <2> QED BY <1>3, <2>1, <2>2 DEF Writers, File
<1>5. File(t)' = File(t)
  BY DEF Open, Fill, FillFails, File
<1>6. CASE pc[t] = "open"
  <2>1. shown[f] = content[f]
    <3>1. Writers(f) = {}
      BY <1>3, <1>6 DEF Writers
    <3> QED BY <1>2, <3>1, ShownAt
  <2>2. \/ pc'[t] = "unlock" /\ content' = content
        \/ pc'[t] = "fill" /\ before'[t] = content[f]
    BY <1>1, <1>6 DEF Open, Fill, FillFails, Fail, Goto, TypeOK
  <2>3. CASE pc'[t] = "unlock" /\ content' = content
    <3>1. Writers(f)' = {}
      BY <1>4, <2>3 DEF Writers
    <3> QED BY <1>2, <1>6, <2>1, <2>3, <3>1 DEF shown
  <2>4. CASE pc'[t] = "fill" /\ before'[t] = content[f]
    <3>1. Writers(f)' = {t}
      BY <1>4, <1>5, <2>4 DEF Writers
    <3>2. shown'[f] = before'[CHOOSE u \in {t} : TRUE]
      BY <1>2, <3>1 DEF shown
    <3> QED BY <1>2, <1>6, <2>1, <2>4, <3>2
  <2> QED BY <2>2, <2>3, <2>4
<1>7. CASE pc[t] = "fill"
  <2>1. t \in Writers(f)
    BY <1>7 DEF Writers
  <2>2. shown[f] = before[t]
    BY <1>2, <2>1, ShownAt
  <2>3. pc'[t] = "unlock"
    BY <1>1, <1>7 DEF Open, Fill, FillFails, Goto, TypeOK
  <2>4. Writers(f)' = {}
    BY <1>4, <2>3 DEF Writers
  <2>5. shown'[f] = content'[f]
    BY <1>2, <2>4 DEF shown
  <2> QED BY <1>2, <1>7, <2>2, <2>5
<1> QED BY <1>1, <1>2, <1>6, <1>7

\* The end of a call's writing is its one step in AtomicFiles.
LEMMA FillSets ==
  ASSUME NamesDiffer, FileInv, EditInv, NEW t \in Callers, Fill(t) \/ FillFails(t)
  PROVE  Atomic!Next
<1>1. /\ TypeOK /\ EditOf(t) /\ pc[t] = "fill" /\ result[t] = "none"
  BY DEF FileInv, EditInv, EditOf, Fill, FillFails, Waiting
<1> DEFINE f == File(t)
<1>2. /\ f \in Files /\ shown[f] = before[t] /\ shown'[f] = content'[f]
  BY <1>1, WritingShows
<1>3. \A g \in Files : g # f => shown'[g] = shown[g]
  BY ShownElsewhere DEF Step
<1>4. shown' = [shown EXCEPT ![f] = content'[f]]
  <2>1. shown = [g \in Files |-> shown[g]] /\ shown' = [g \in Files |-> shown'[g]]
    BY DEF shown
  <2> QED BY <1>2, <1>3, <2>1
<1>5. t \notin appliedCalls /\ appliedCalls' = appliedCalls \cup {t}
  <2>1. result'[t] \in {"ok", "late", "lost"} /\ \A u \in Callers : u # t => result'[u] = result[u]
    BY <1>1 DEF Fill, FillFails, TypeOK
  <2> QED BY <1>1, <2>1 DEF appliedCalls
<1>6. content'[f] = text[t] \/ content'[f] = {}
  BY <1>1, <1>2 DEF Fill, FillFails, TypeOK, EditOf
<1>7. CASE content'[f] = {}
  BY <1>2, <1>4, <1>5, <1>7 DEF Atomic!Next, Atomic!Lose, Atomic!Set
<1>8. CASE content'[f] = text[t]
  <2>1. CASE text[t] = {t}
    BY <1>2, <1>4, <1>5, <1>8, <2>1 DEF Atomic!Next, Atomic!Write, Atomic!Set
  <2>2. CASE before[t] # Absent /\ \E old \in before[t] : text[t] = (before[t] \ {old}) \cup {t}
    <3>1. Atomic!Edit(t, f)
      BY <1>2, <1>4, <1>5, <1>8, <2>2
         DEF Atomic!Edit, Atomic!Set, Absent, NoFile, Atomic!Absent, Atomic!NoFile
    <3> QED BY <1>2, <3>1 DEF Atomic!Next
  <2> QED BY <1>1, <2>1, <2>2 DEF EditOf, Planned
<1> QED BY <1>6, <1>7, <1>8

\* Every other step changes nothing the callers see of the files.
LEMMA FilesStep ==
  ASSUME NamesDiffer, FileInv, EditInv, [Next]_vars
  PROVE  [Atomic!Next]_(Atomic!fileVars)
<1>1. CASE UNCHANGED <<content, pc, call, before, result>>
  BY <1>1 DEF Atomic!fileVars, shown, appliedCalls, Writers, File
<1>2. ASSUME NEW t \in Callers, Invoke(t) \/ InvokeFails(t) \/ Step(t)
      PROVE  [Atomic!Next]_(Atomic!fileVars)
  <2>1. CASE Fill(t) \/ FillFails(t)
    BY <2>1, FillSets
  <2>2. CASE ~(Fill(t) \/ FillFails(t))
    <3>1. appliedCalls' = appliedCalls
      <4>1. EditOf(t) /\ TypeOK /\ \A u \in Callers : u # t => result'[u] = result[u]
        BY <1>2, OthersKeep DEF FileInv, EditInv
      <4>2. \/ result'[t] = result[t]
            \/ pc[t] \in Waiting /\ result'[t] = "error"
        BY <1>2, <2>2, <4>1
        DEF Invoke, InvokeFails, Step, acquire, Lock, Unlock, release, ReadForEdit, Apply, Open, Fail,
            TypeOK, Waiting
      <4> QED BY <4>1, <4>2 DEF appliedCalls, EditOf
    <3>2. \A f \in Files : shown'[f] = shown[f]
      <4> SUFFICES ASSUME NEW f \in Files PROVE shown'[f] = shown[f]
        OBVIOUS
      <4>1. CASE Open(t)
        <5>1. pc[t] = "open"
          BY <4>1 DEF Open
        <5> QED BY <1>2, <4>1, <5>1, WritingShows, ShownElsewhere
      <4>2. CASE ~Open(t)
        <5>1. content' = content /\ before'[t] \in {before[t], {}} /\ ~(pc[t] = "fill")
              /\ ~(pc'[t] = "fill")
          BY <1>2, <2>2, <4>2
          DEF FileInv, TypeOK, Invoke, InvokeFails, Step, acquire, Lock, Unlock, release, ReadForEdit,
              Apply, Fail, Goto
        <5>2. \A u \in Callers : u # t => pc'[u] = pc[u] /\ call'[u] = call[u] /\ before'[u] = before[u]
          BY <1>2, OthersKeep
        <5>3. Writers(f)' = Writers(f)
          BY <5>1, <5>2 DEF Writers, File
        <5>4. \A u \in Writers(f) : before'[u] = before[u]
          BY <5>1, <5>2 DEF Writers
        <5> QED BY <5>1, <5>3, <5>4, ShownKept
      <4> QED BY <4>1, <4>2
    <3>3. shown' = shown
      <4>1. shown = [g \in Files |-> shown[g]] /\ shown' = [g \in Files |-> shown'[g]]
        BY DEF shown
      <4> QED BY <3>2, <4>1
    <3> QED BY <3>1, <3>3 DEF Atomic!fileVars
  <2> QED BY <2>1, <2>2
<1> QED BY <1>1, <1>2 DEF Next, vars, Cancel, Read

\* The write and edit tools implement AtomicFiles: every call takes effect at one moment,
\* on the content of that moment, so no edit is lost to another (newWriteTool, newEditTool
\* under FileMutationQueue).
THEOREM AtomicFilesRefinement ==
  ASSUME NamesDiffer, LinksResolve
  PROVE  Spec => ImplementsAtomicFiles
<1>1. Init => Atomic!Init
  <2> SUFFICES ASSUME Init PROVE Atomic!Init
    OBVIOUS
  <2>1. \A f \in Files : Writers(f) = {}
    BY DEF Init, Writers
  <2>2. shown = [f \in Files |-> IF f \in Present THEN Words ELSE Absent]
    BY <2>1 DEF shown, Init
  <2>3. appliedCalls = {}
    BY DEF Init, appliedCalls
  <2> QED BY <2>2, <2>3 DEF Atomic!Init, Atomic!Original, Atomic!Absent, Atomic!NoFile, Absent, NoFile
<1>2. FileInv /\ EditInv /\ [Next]_vars => [Atomic!Next]_(Atomic!fileVars)
  BY FilesStep
<1> QED BY <1>1, <1>2, FileInvariant, EditInvariant, PTL DEF Spec, ImplementsAtomicFiles, Atomic!Spec
=============================================================================
