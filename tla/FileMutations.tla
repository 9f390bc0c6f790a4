--------------------------- MODULE FileMutations ---------------------------
(***************************************************************************)
(* FileMutationQueue (internal/toolio/toolio.go) and the tools that mutate *)
(* files under it, write and edit (internal/tools/tools.go).  Every caller *)
(* is one tool call of a parallel batch; it may have read the file before, *)
(* for the anchor of its edit.                                             *)
(*                                                                         *)
(* A file has its real path and may have aliases: paths through a symbolic *)
(* link.  os.WriteFile empties the file and then fills it, two steps.  A   *)
(* lock object is named after the caller that allocated it.  A content is  *)
(* a set of words (module AtomicFiles) and an anchor is a content: the     *)
(* SHA-256 of different contents differs.                                  *)
(*                                                                         *)
(* A definition introduced by "Defect:" is not part of the model.  It is   *)
(* the definition that follows it with a plausible bug.                    *)
(***************************************************************************)
EXTENDS Naturals, FiniteSets

CONSTANTS
  Files,        \* real paths
  Aliases,      \* paths through a symbolic link
  Target,       \* [Aliases -> Files]
  Callers, Words,
  Readers,      \* callers that may read a file before they mutate it
  Requests,     \* [Callers -> SUBSET Calls]: the calls the model asks for
  Present       \* the files that exist at the start

Paths == Files \cup Aliases
Calls == [tool : {"write", "edit"}, path : Paths, anchored : BOOLEAN]

ASSUME FileMutationsAssumption ==
  /\ Target \in [Aliases -> Files] /\ Aliases \cap Files = {}
  /\ Present \subseteq Files /\ Readers \subseteq Callers
  /\ Requests \in [Callers -> SUBSET Calls]
  /\ Callers \cap Words = {} /\ IsFiniteSet(Callers)

RealPath(path) == IF path \in Files THEN path ELSE Target[path]

NoFile == "no file"
Absent == {NoFile}
NoLock == "no lock"
NoRead == {"not read"}

VARIABLES
  content,      \* what each file holds
  locks,        \* FileMutationQueue.locks
  refs,         \* fileLock.refs of each lock object
  holder,       \* the caller inside each lock object's mutex
  pc,
  call,         \* the arguments of the call
  key, lock,    \* DoValue's locals
  text,         \* what the caller is about to write
  seen,         \* the content a caller's earlier read returned
  result,       \* ok, error, late: mutated and reported as aborted, lost: failed half-way
  before,       \* history: the content that a write in progress has emptied
  cancelled

vars == <<content, locks, refs, holder, pc, call, key, lock, text, seen, result, before,
          cancelled>>

NoCall == [tool |-> "none", path |-> NoFile, anchored |-> FALSE]
File(t) == RealPath(call[t].path)

Init ==
  /\ content = [f \in Files |-> IF f \in Present THEN Words ELSE Absent]
  /\ locks = [p \in Paths |-> NoLock]
  /\ refs = [t \in Callers |-> 0] /\ holder = [t \in Callers |-> NoLock]
  /\ pc = [t \in Callers |-> "idle"]
  /\ call = [t \in Callers |-> NoCall]
  /\ key = [t \in Callers |-> NoFile] /\ lock = [t \in Callers |-> NoLock]
  /\ text = [t \in Callers |-> {}] /\ seen = [t \in Callers |-> NoRead]
  /\ result = [t \in Callers |-> "none"] /\ before = [t \in Callers |-> {}]
  /\ cancelled = FALSE

Goto(t, label) == pc' = [pc EXCEPT ![t] = label]

\* The read tool, which takes no lock.
Read(t, path) ==
  /\ pc[t] = "idle" /\ t \in Readers /\ seen[t] = NoRead
  /\ content[RealPath(path)] # Absent
  /\ seen' = [seen EXCEPT ![t] = content[RealPath(path)]]
  /\ UNCHANGED <<content, locks, refs, holder, pc, call, key, lock, text, result, before,
                 cancelled>>

(***************************************************************************)
(* DoValue.                                                                *)
(***************************************************************************)
mutationQueueKey(path) ==
  IF content[RealPath(path)] = Absent THEN path ELSE RealPath(path)

\* A tool is called, and DoValue computes its key.
Invoke(t) ==
  /\ pc[t] = "idle"
  /\ \E c \in Requests[t] :
       /\ c.anchored => c.tool = "edit" /\ seen[t] # NoRead
       /\ call' = [call EXCEPT ![t] = c]
       /\ key' = [key EXCEPT ![t] = mutationQueueKey(c.path)]
       /\ text' = [text EXCEPT ![t] = IF c.tool = "write" THEN {t} ELSE {}]
  /\ Goto(t, "acquire")
  /\ UNCHANGED <<content, locks, refs, holder, lock, seen, result, before, cancelled>>

\* EvalSymlinks fails for another reason than a missing file.
InvokeFails(t) ==
  /\ pc[t] = "idle"
  /\ result' = [result EXCEPT ![t] = "error"]
  /\ Goto(t, "done")
  /\ UNCHANGED <<content, locks, refs, holder, call, key, lock, text, seen, before, cancelled>>

acquire(t) ==
  /\ pc[t] = "acquire"
  /\ LET l == IF locks[key[t]] = NoLock THEN t ELSE locks[key[t]] IN
     /\ locks' = [locks EXCEPT ![key[t]] = l]
     /\ refs' = [refs EXCEPT ![l] = @ + 1]
     /\ lock' = [lock EXCEPT ![t] = l]
  /\ Goto(t, "lock")
  /\ UNCHANGED <<content, holder, call, key, text, seen, result, before, cancelled>>

\* Defect: the mutex is taken for reading.
LockShared(t) ==
  /\ pc[t] = "lock"
  /\ holder' = [holder EXCEPT ![lock[t]] = t]
  /\ Goto(t, IF call[t].tool = "write" THEN "open" ELSE "start")
  /\ UNCHANGED <<content, locks, refs, call, key, lock, text, seen, result, before, cancelled>>

Lock(t) ==
  /\ pc[t] = "lock" /\ holder[lock[t]] = NoLock
  /\ holder' = [holder EXCEPT ![lock[t]] = t]
  /\ Goto(t, IF call[t].tool = "write" THEN "open" ELSE "start")
  /\ UNCHANGED <<content, locks, refs, call, key, lock, text, seen, result, before, cancelled>>

Unlock(t) ==
  /\ pc[t] = "unlock"
  /\ holder' = [holder EXCEPT ![lock[t]] = NoLock]
  /\ Goto(t, "release")
  /\ UNCHANGED <<content, locks, refs, call, key, lock, text, seen, result, before, cancelled>>

\* Defect: the entry is deleted although callers wait on it.
releaseWaiting(t) ==
  /\ pc[t] = "release"
  /\ refs' = [refs EXCEPT ![lock[t]] = @ - 1]
  /\ locks' = IF locks[key[t]] = lock[t] THEN [locks EXCEPT ![key[t]] = NoLock] ELSE locks
  /\ Goto(t, "done")
  /\ call' = [call EXCEPT ![t] = NoCall] /\ key' = [key EXCEPT ![t] = NoFile]
  /\ lock' = [lock EXCEPT ![t] = NoLock] /\ text' = [text EXCEPT ![t] = {}]
  /\ seen' = [seen EXCEPT ![t] = NoRead] /\ before' = [before EXCEPT ![t] = {}]
  /\ UNCHANGED <<content, holder, result, cancelled>>

release(t) ==
  /\ pc[t] = "release"
  /\ refs' = [refs EXCEPT ![lock[t]] = @ - 1]
  /\ locks' = IF refs[lock[t]] = 1 /\ locks[key[t]] = lock[t]
              THEN [locks EXCEPT ![key[t]] = NoLock] ELSE locks
  /\ Goto(t, "done")
  /\ call' = [call EXCEPT ![t] = NoCall] /\ key' = [key EXCEPT ![t] = NoFile]
  /\ lock' = [lock EXCEPT ![t] = NoLock] /\ text' = [text EXCEPT ![t] = {}]
  /\ seen' = [seen EXCEPT ![t] = NoRead] /\ before' = [before EXCEPT ![t] = {}]
  /\ UNCHANGED <<content, holder, result, cancelled>>

(***************************************************************************)
(* The tools, inside the lock.                                             *)
(***************************************************************************)
\* Defect: an error returns past the unlocking.
FailLocked(t) ==
  /\ result' = [result EXCEPT ![t] = "error"]
  /\ Goto(t, "release")
  /\ UNCHANGED <<content, text, before>>

\* The function returns an error before it touches the file.
Fail(t) ==
  /\ result' = [result EXCEPT ![t] = "error"]
  /\ Goto(t, "unlock")
  /\ UNCHANGED <<content, text, before>>

\* text holds what the edit has read.
ReadForEdit(t) ==
  /\ pc[t] = "start"
  /\ \/ Fail(t)                     \* cancelled, or ReadFile fails
     \/ /\ ~cancelled /\ content[File(t)] # Absent
        /\ text' = [text EXCEPT ![t] = content[File(t)]]
        /\ Goto(t, "apply")
        /\ UNCHANGED <<content, result, before>>
  /\ UNCHANGED <<locks, refs, holder, call, key, lock, seen, cancelled>>

\* Defect: the anchor is not compared.
ApplyUnanchored(t) ==
  /\ pc[t] = "apply"
  /\ \/ Fail(t)
     \/ /\ ~cancelled
        /\ \E old \in text[t] : text' = [text EXCEPT ![t] = (@ \ {old}) \cup {t}]
        /\ Goto(t, "open")
        /\ UNCHANGED <<content, result, before>>
  /\ UNCHANGED <<locks, refs, holder, call, key, lock, seen, cancelled>>

\* An edit names a word of the file it replaces, or fails.
Apply(t) ==
  /\ pc[t] = "apply"
  /\ \/ Fail(t)                     \* cancelled, or no such word
     \/ /\ ~cancelled
        /\ call[t].anchored => seen[t] = text[t]
        /\ \E old \in text[t] : text' = [text EXCEPT ![t] = (@ \ {old}) \cup {t}]
        /\ Goto(t, "open")
        /\ UNCHANGED <<content, result, before>>
  /\ UNCHANGED <<locks, refs, holder, call, key, lock, seen, cancelled>>

\* os.WriteFile opens the file and empties it.  The write tool makes the directories
\* first.
Open(t) ==
  /\ pc[t] = "open"
  /\ \/ Fail(t)                     \* cancelled, or MkdirAll or the opening fails
     \/ /\ ~cancelled
        /\ before' = [before EXCEPT ![t] = content[File(t)]]
        /\ content' = [content EXCEPT ![File(t)] = {}]
        /\ Goto(t, "fill")
        /\ UNCHANGED <<text, result>>
  /\ UNCHANGED <<locks, refs, holder, call, key, lock, seen, cancelled>>

Fill(t) ==
  /\ pc[t] = "fill"
  /\ content' = [content EXCEPT ![File(t)] = text[t]]
  /\ result' = [result EXCEPT ![t] = IF cancelled THEN "late" ELSE "ok"]
  /\ Goto(t, "unlock")
  /\ UNCHANGED <<locks, refs, holder, call, key, lock, text, seen, before, cancelled>>

\* The write fails, on a full disk for instance.
FillFails(t) ==
  /\ pc[t] = "fill"
  /\ result' = [result EXCEPT ![t] = "lost"]
  /\ Goto(t, "unlock")
  /\ UNCHANGED <<content, locks, refs, holder, call, key, lock, text, seen, before, cancelled>>

Cancel ==
  /\ ~cancelled
  /\ cancelled' = TRUE
  /\ UNCHANGED <<content, locks, refs, holder, pc, call, key, lock, text, seen, result, before>>

Step(t) ==
  \/ acquire(t) \/ Lock(t)
  \/ ReadForEdit(t) \/ Apply(t) \/ Open(t) \/ Fill(t) \/ FillFails(t)
  \/ Unlock(t) \/ release(t)

Next ==
  \/ \E t \in Callers : Invoke(t) \/ InvokeFails(t) \/ Step(t)
  \/ \E t \in Callers, path \in Paths : Read(t, path)
  \/ Cancel

Spec == Init /\ [][Next]_vars

\* A goroutine that can run does, and a mutex that is free is taken.
FairSpec == Spec /\ \A t \in Callers : WF_vars(Step(t))
-----------------------------------------------------------------------------
InBody(t) == pc[t] \in {"start", "apply", "open", "fill"}

\* "File mutations are serialized per real path" (package tools): no two callers are
\* inside the mutating function of one file.
SameFileSerial ==
  \A t, u \in Callers : t # u /\ InBody(t) /\ InBody(u) => File(t) # File(u)

\* An edit with an anchor writes over the content the anchor was made from and over
\* no other.
AnchorGuards ==
  [][\A t \in Callers :
       pc[t] # "fill" /\ pc'[t] = "fill" /\ call[t].anchored => content[File(t)] = seen[t]]_vars

\* A file as the calls see it from outside the lock: one being filled still holds what it
\* held before, and a call is applied once its writing is over.
Writers(f) == {t \in Callers : pc[t] = "fill" /\ File(t) = f}
shown == [f \in Files |->
            IF Writers(f) = {} THEN content[f] ELSE before[CHOOSE t \in Writers(f) : TRUE]]
appliedCalls == {t \in Callers : result[t] \in {"ok", "late", "lost"}}

\* Every call takes effect at one moment on the content of that moment: no edit is
\* lost to another, and a call that reports an error before writing had none.
Atomic == INSTANCE AtomicFiles WITH content <- shown, applied <- appliedCalls
ImplementsAtomicFiles == Atomic!Spec

\* Every call returns, whichever of its steps fail.
CallsReturn == \A t \in Callers : pc[t] = "acquire" ~> pc[t] = "done"
=============================================================================
