-------------------------- MODULE NaturalRecursion --------------------------
(***************************************************************************)
(* What the proofs about loops and recursive functions rest on: a set of   *)
(* naturals has a least element, and a function defined by recursion on    *)
(* 0..n exists and is the only one.  The step of the recursion is itself a *)
(* function, so that the lemmas can be instantiated.                       *)
(***************************************************************************)
EXTENDS Integers, WellFoundedInduction, TLAPS

\* Every non-empty set of naturals has a least element.
LEMMA NatMin ==
  ASSUME NEW T, T \subseteq Nat, T # {}
  PROVE  \E x \in T : \A y \in T : x <= y
<1> DEFINE Less == OpToRel(<, Nat)
<1>1. \E x \in T : \A y \in T : ~ (<<y, x>> \in Less)
  BY NatLessThanWellFounded, WFMin, Zenon
<1>2. \A x, y \in Nat : <<y, x>> \in Less <=> y < x
  BY DEF OpToRel
<1> HIDE DEF Less
<1>3. PICK x \in T : \A y \in T : ~ (<<y, x>> \in Less)
  BY <1>1
<1>4. ASSUME NEW y \in T PROVE x <= y
  <2>1. x \in Nat /\ y \in Nat
    OBVIOUS
  <2>2. ~ (<<y, x>> \in Less)
    BY <1>3
  <2>3. ~ (y < x)
    BY <1>2, <2>1, <2>2, Zenon
  <2> QED BY <2>1, <2>3
<1> QED BY <1>4

\* f starts at first, and step leads from each of its values to the next.
Solves(f, first, step, n) ==
  /\ f[0] = first
  /\ \A i \in 1..n : f[i] = step[<<i, f[i - 1]>>]

\* f and g start with the same value and go on alike.
Alike(f, g, n) ==
  /\ f[0] = g[0]
  /\ \A i \in 1..n : f[i - 1] = g[i - 1] => f[i] = g[i]

\* Two functions that start with the same value and go on alike agree.
LEMMA SameRecurrence ==
  ASSUME NEW n \in Nat, NEW f, NEW g, Alike(f, g, n)
  PROVE  \A i \in 0..n : f[i] = g[i]
<1> DEFINE Wrong == {i \in 0..n : f[i] # g[i]}
<1>1. SUFFICES Wrong = {}
  OBVIOUS
<1>2. SUFFICES ASSUME Wrong # {} PROVE FALSE
  OBVIOUS
<1>3. Wrong \subseteq Nat
  OBVIOUS
<1>4. PICK k \in Wrong : \A j \in Wrong : k <= j
  <2> HIDE DEF Wrong
  <2> QED BY <1>2, <1>3, NatMin
<1>5. k \in 1..n /\ k - 1 \in 0..n /\ k - 1 \notin Wrong
  BY <1>4 DEF Alike
<1>6. f[k - 1] = g[k - 1]
  BY <1>5
<1> QED BY <1>4, <1>5, <1>6 DEF Alike

\* A recurrence has a solution.
LEMMA RecursionExists ==
  ASSUME NEW V, NEW first \in V, NEW n \in Nat, NEW step \in [(1..n) \X V -> V]
  PROVE  \E f \in [0..n -> V] : Solves(f, first, step, n)
<1> DEFINE Wrong == {k \in 0..n : \A f \in [0..k -> V] : ~ Solves(f, first, step, k)}
<1>1. SUFFICES ASSUME Wrong # {} PROVE FALSE
  OBVIOUS
<1>2. Wrong \subseteq Nat
  OBVIOUS
<1>3. PICK k \in Wrong : \A j \in Wrong : k <= j
  <2> HIDE DEF Wrong
  <2> QED BY <1>1, <1>2, NatMin
<1>4. CASE k = 0
  <2> DEFINE f == [i \in 0..0 |-> first]
  <2>1. f \in [0..0 -> V] /\ Solves(f, first, step, 0)
    BY DEF Solves
  <2> QED BY <1>3, <1>4, <2>1
<1>5. CASE k # 0
  <2>1. k \in 1..n /\ k - 1 \in 0..n /\ k - 1 \notin Wrong
    BY <1>3, <1>5
  <2>2. PICK f \in [0..(k - 1) -> V] : Solves(f, first, step, k - 1)
    BY <2>1
  <2> DEFINE g == [i \in 0..k |-> IF i = k THEN step[<<k, f[k - 1]>>] ELSE f[i]]
  <2>3. f[k - 1] \in V /\ <<k, f[k - 1]>> \in (1..n) \X V
    BY <2>1, <2>2
  <2>4. g \in [0..k -> V]
    BY <2>1, <2>2, <2>3
  <2>5. g[0] = first
    BY <2>1, <2>2 DEF Solves
  <2>6. ASSUME NEW i \in 1..k PROVE g[i] = step[<<i, g[i - 1]>>]
    <3>1. g[i - 1] = f[i - 1]
      BY <2>1
    <3>2. CASE i = k
      <4>1. g[k] = step[<<k, f[k - 1]>>]
        BY <2>1
      <4>2. g[k - 1] = f[k - 1]
        BY <3>1, <3>2
      <4> HIDE DEF g
      <4> QED BY <3>2, <4>1, <4>2
    <3>3. CASE i # k
      <4>1. i \in 1..(k - 1) /\ g[i] = f[i]
        BY <2>1, <3>3
      <4>2. f[i] = step[<<i, f[i - 1]>>]
        BY <2>2, <4>1 DEF Solves
      <4> QED BY <3>1, <4>1, <4>2
    <3> QED BY <3>2, <3>3
  <2>7. Solves(g, first, step, k)
    BY <2>5, <2>6 DEF Solves
  <2> QED BY <1>3, <2>4, <2>7
<1> QED BY <1>4, <1>5
=============================================================================
