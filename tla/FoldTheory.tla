------------------------------ MODULE FoldTheory ------------------------------
(***************************************************************************)
(* Induction over data, for the loops the models write as folds.  A module *)
(* that reasons about one instantiates this one with the step of its fold. *)
(***************************************************************************)
EXTENDS Integers, Sequences

CONSTANTS
    Step(_, _),  \* the body of a loop: the state before, the element -> the state after
    Inv(_, _)    \* what is claimed of the state, in a context

\* Induction over the natural numbers, with a set for the predicate.  The
\* theorems take it as an assumption, which NatIn of GraphUpdatesProofs proves.
Induction ==
    \A T \in SUBSET Nat : (0 \in T /\ \A n \in T : n + 1 \in T) => \A n \in Nat : n \in T

\* FoldLeft(Step, base, q) of SeqLoops.
Loop(base, q) ==
    LET after[i \in 0 .. Len(q)] ==
            IF i = 0 THEN base ELSE Step(after[i - 1], q[i])
    IN  after[Len(q)]

\* What holds before a loop and is kept by each of its steps holds after it.
THEOREM FoldInv ==
    ASSUME Induction, NEW c, NEW base, NEW S, NEW q \in Seq(S),
           Inv(c, base),
           \A acc : \A x \in S : Inv(c, acc) => Inv(c, Step(acc, x))
    PROVE  Inv(c, Loop(base, q))
<1> DEFINE n == Len(q)
           \* f is the function a fold is defined by, for the first m elements.
           Iterates(m, f) ==
               f = [i \in 0 .. m |-> IF i = 0 THEN base ELSE Step(f[i - 1], q[i])]
<1>1. \A m \in Nat : \E f : Iterates(m, f)
  <2> DEFINE All == {m \in Nat : \E f : Iterates(m, f)}
  <2>1. 0 \in All
    <3> DEFINE f == [i \in 0 .. 0 |-> base]
    <3>1. f = [i \in 0 .. 0 |-> IF i = 0 THEN base ELSE Step(f[i - 1], q[i])]
      OBVIOUS
    <3> QED BY <3>1
  <2>2. ASSUME NEW m \in All PROVE m + 1 \in All
    <3>1. m \in Nat /\ \E f : Iterates(m, f)
      OBVIOUS
    <3>2. PICK f : Iterates(m, f)
      BY <3>1
    <3>3. \A i \in 0 .. m : f[i] = IF i = 0 THEN base ELSE Step(f[i - 1], q[i])
      BY <3>2
    <3> DEFINE g == [i \in 0 .. m + 1 |-> IF i <= m THEN f[i] ELSE Step(f[m], q[m + 1])]
    <3>4. ASSUME NEW i \in 0 .. m + 1
          PROVE  g[i] = IF i = 0 THEN base ELSE Step(g[i - 1], q[i])
      <4>1. CASE i <= m
        BY <4>1, <3>1, <3>3
      <4>2. CASE i = m + 1
        <5>1. i # 0 /\ i - 1 = m /\ ~(i <= m) /\ m \in 0 .. m + 1 /\ m <= m
          BY <4>2, <3>1
        <5> QED BY <4>2, <5>1
      <4> QED BY <4>1, <4>2, <3>1
    <3>5. Iterates(m + 1, g)
      BY <3>4
    <3> HIDE DEF g, Iterates
    <3> QED BY <3>1, <3>5
  <2>3. All \in SUBSET Nat
    OBVIOUS
  <2>4. \A m \in Nat : m \in All
    <3> HIDE DEF All
    <3> QED BY <2>1, <2>2, <2>3 DEF Induction
  <2> HIDE DEF Iterates
  <2> QED BY <2>4
<1> DEFINE f == CHOOSE g : Iterates(n, g)
<1>2. n \in Nat
  OBVIOUS
<1>3. Loop(base, q) = f[n]
  BY DEF Loop
<1>4. Iterates(n, f)
  <2> HIDE DEF Iterates, n
  <2> QED BY <1>1, <1>2
<1> HIDE DEF f
<1>5. \A i \in 0 .. n : f[i] = IF i = 0 THEN base ELSE Step(f[i - 1], q[i])
  BY <1>4
<1>6. f[0] = base /\ \A i \in 1 .. n : f[i] = Step(f[i - 1], q[i])
  BY <1>2, <1>5
<1> HIDE DEF Iterates
<1> DEFINE Good == {i \in Nat : i <= n => Inv(c, f[i])}
<1>7. 0 \in Good
  BY <1>6
<1>8. ASSUME NEW i \in Good PROVE i + 1 \in Good
  <2>1. i + 1 \in Nat
    OBVIOUS
  <2>2. ASSUME i + 1 <= n PROVE Inv(c, f[i + 1])
    <3>1. i <= n /\ i + 1 \in 1 .. n /\ (i + 1) - 1 = i
      BY <1>2, <2>2
    <3>2. Inv(c, f[i]) /\ q[i + 1] \in S
      BY <3>1
    <3>3. f[i + 1] = Step(f[i], q[i + 1])
      BY <1>6, <3>1
    <3> QED BY <3>2, <3>3
  <2> QED BY <2>1, <2>2
<1>9. \A i \in Nat : i \in Good
  <2>1. Good \in SUBSET Nat
    OBVIOUS
  <2> HIDE DEF Good
  <2> QED BY <1>7, <1>8, <2>1 DEF Induction
<1>10. Inv(c, f[n])
  BY <1>2, <1>9
<1> QED BY <1>3, <1>10
==============================================================================
