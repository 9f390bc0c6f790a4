----------------------------- MODULE EventFeed -----------------------------
(***************************************************************************)
(* What internal/engine/stream promises a consumer, without queues or      *)
(* goroutines: events are published in one order and seen in that order,   *)
(* without gaps; the feed ends once, with one outcome; and it reports its  *)
(* end only after everything published has been seen.                      *)
(***************************************************************************)
EXTENDS Naturals, Sequences

CONSTANTS Published,   \* events
          Outcomes     \* results a feed can end with, "no result" included

VARIABLES log,         \* events published so far
          seen,        \* events the consumer has seen
          outcome,     \* None until the feed ends
          closed       \* the consumer was told that nothing follows

None == "none"

feedVars == <<log, seen, outcome, closed>>

Init == log = <<>> /\ seen = <<>> /\ outcome = None /\ closed = FALSE

Publish(e) ==
  /\ outcome = None
  /\ log' = Append(log, e)
  /\ outcome' \in {None} \cup Outcomes
  /\ UNCHANGED <<seen, closed>>

End(r) ==
  /\ outcome = None
  /\ outcome' = r
  /\ UNCHANGED <<log, seen, closed>>

See ==
  /\ Len(seen) < Len(log)
  /\ seen' = Append(seen, log[Len(seen) + 1])
  /\ UNCHANGED <<log, outcome, closed>>

Close ==
  /\ outcome # None
  /\ seen = log
  /\ closed' = TRUE
  /\ UNCHANGED <<log, seen, outcome>>

Next ==
  \/ \E e \in Published : Publish(e)
  \/ \E r \in Outcomes : End(r)
  \/ See
  \/ Close

Spec == Init /\ [][Next]_feedVars
=============================================================================
