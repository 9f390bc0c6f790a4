------------------------------ MODULE Backoff ------------------------------
(***************************************************************************)
(* The local delays of internal/retry/config.go, in signed integers of     *)
(* Width bits (time.Duration: 64), and the rule that compares them with    *)
(* what a provider asks for.                                               *)
(***************************************************************************)
EXTENDS Integers

CONSTANT Width

WidthAssumption == Width \in Nat \ {0, 1}

MaxDuration == 2^(Width - 1) - 1

\* A product as a signed machine integer holds it.
Wrap(n) == ((n + 2^(Width - 1)) % 2^Width) - 2^(Width - 1)

\* delays[i] is the loop's delay when it has run i - 1 times.
nominalDelay(base, cap, ordinal) ==
  LET delays[i \in 1..ordinal] ==
        IF i = 1 THEN base
        ELSE IF delays[i - 1] >= cap THEN delays[i - 1]
        ELSE IF delays[i - 1] > cap \div 2 THEN cap
        ELSE Wrap(2 * delays[i - 1])
  IN IF delays[ordinal] > cap THEN cap ELSE delays[ordinal]

\* With the jitter of DefaultConfig, 0.75 to 1, rounded to the nearest; never
\* negative.
jitterDelays(nominal) ==
  IF nominal <= 0 THEN {0} ELSE ((3 * nominal + 2) \div 4)..nominal
=============================================================================
