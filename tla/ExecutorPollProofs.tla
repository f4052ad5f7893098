------------------------- MODULE ExecutorPollProofs -------------------------
(* What MCEndpoints states of an executor that polls, proved for every finite set of tasks
   and any number of vcores: no permit is lost, and the loop never waits for one. *)
EXTENDS MCEndpoints, FiniteSetTheorems, NaturalsInduction, TLAPS

-----------------------------------------------------------------------------
(* Sums over finite sets *)

\* A set of natural numbers has a least one.
LEMMA Least ==
    ASSUME NEW T \in SUBSET Nat, T # {}
    PROVE  \E x \in T: \A y \in T: x <= y
<1> DEFINE R == OpToRel(<, Nat)
<1>1. IsWellFoundedOn(R, Nat)
  BY NatLessThanWellFounded, Zenon
<1>2. ASSUME NEW x \in Nat, NEW y \in Nat, y < x
      PROVE  <<y, x>> \in R
  <2>1. <<y, x>> \in Nat \X Nat /\ <<y, x>>[1] < <<y, x>>[2]
    BY <1>2
  <2> QED BY <2>1 DEF OpToRel
<1> HIDE DEF R
<1>3. PICK x \in T: \A y \in T: ~ (<<y, x>> \in R)
  BY <1>1, WFMin, Zenon
<1>4. \A y \in T: x <= y
  <2> TAKE y \in T
  <2>1. x \in Nat /\ y \in Nat
    OBVIOUS
  <2>2. ~ (y < x)
    BY <1>2, <1>3, <2>1, Zenon
  <2> QED BY <2>1, <2>2
<1> QED BY <1>4

\* A set that has 0 and, with every number, the next one has them all.
LEMMA AllNat ==
    ASSUME NEW T \in SUBSET Nat, 0 \in T, \A n \in T: n + 1 \in T
    PROVE  \A n \in Nat: n \in T
<1> SUFFICES ASSUME Nat \ T # {} PROVE FALSE
  OBVIOUS
<1>1. PICK x \in Nat \ T: \A y \in Nat \ T: x <= y
  BY Least, Zenon
<1>2. x # 0 /\ x - 1 \in Nat /\ x - 1 < x
  BY <1>1
<1>3. x - 1 \in T
  BY <1>1, <1>2
<1> QED BY <1>3, <1>1, <1>2

\* A sum of positive numbers over a finite set is no less than the size of the set.
LEMMA SumOfPositive ==
    ASSUME NEW S, IsFiniteSet(S), NEW f, \A x \in S: f[x] \in Nat \ {0}
    PROVE  Poll!SumFunctionOnSet(f, S) \in Nat /\ Cardinality(S) <= Poll!SumFunctionOnSet(f, S)
<1> DEFINE one(s) == CHOOSE x \in s: TRUE
           Sum(g, s) == IF s = {} THEN 0 ELSE f[one(s)] + g[s \ {one(s)}]
           UpTo(n) == {s \in SUBSET S: Cardinality(s) <= n}
           \* g sums over the subsets of at most n elements.
           Sums(n, g) == g = [s \in UpTo(n) |-> Sum(g, s)]
<1>1. ASSUME NEW s \in SUBSET S
      PROVE  /\ Cardinality(s) \in Nat /\ (s = {} <=> Cardinality(s) = 0)
             /\ s # {} => /\ one(s) \in S /\ s \ {one(s)} \in SUBSET S
                          /\ Cardinality(s \ {one(s)}) = Cardinality(s) - 1
  <2>1. IsFiniteSet(s)
    BY FS_Subset
  <2>2. Cardinality(s) \in Nat /\ (Cardinality(s) = 0 <=> s = {})
    BY <2>1, FS_CardinalityType, FS_EmptySet
  <2>3. s # {} => one(s) \in s
    OBVIOUS
  <2> HIDE DEF one
  <2>4. s # {} => Cardinality(s \ {one(s)}) = Cardinality(s) - 1
    BY <2>1, <2>3, FS_RemoveElement, Zenon
  <2> QED BY <2>2, <2>3, <2>4
<1> HIDE DEF one
<1>2. \A n \in Nat: \E g: Sums(n, g)
  <2> DEFINE All == {n \in Nat: \E g: Sums(n, g)}
  <2>1. 0 \in All
    <3> DEFINE g == [s \in UpTo(0) |-> 0]
    <3>1. ASSUME NEW s \in UpTo(0) PROVE s = {}
      <4>1. s \in SUBSET S /\ Cardinality(s) <= 0
        OBVIOUS
      <4>2. Cardinality(s) \in Nat /\ (s = {} <=> Cardinality(s) = 0)
        BY <1>1, <4>1, Zenon
      <4> QED BY <4>1, <4>2
    <3>2. g = [s \in UpTo(0) |-> Sum(g, s)]
      BY <3>1
    <3> HIDE DEF g, UpTo, Sum
    <3> QED BY <3>2
  <2>2. ASSUME NEW n \in All PROVE n + 1 \in All
    <3>1. n \in Nat /\ \E g: Sums(n, g)
      BY Zenon
    <3>2. PICK g: Sums(n, g)
      BY <3>1, Zenon
    <3>3. \A s \in UpTo(n): g[s] = Sum(g, s)
      BY <3>2, Zenon
    <3> DEFINE h == [s \in UpTo(n + 1) |-> IF s \in UpTo(n) THEN g[s]
                                           ELSE f[one(s)] + g[s \ {one(s)}]]
    <3>4. ASSUME NEW s \in UpTo(n + 1) PROVE h[s] = Sum(h, s)
      <4>1. s \in SUBSET S /\ Cardinality(s) <= n + 1
        OBVIOUS
      <4>2. /\ Cardinality(s) \in Nat /\ (s = {} <=> Cardinality(s) = 0)
            /\ s # {} => /\ one(s) \in S /\ s \ {one(s)} \in SUBSET S
                         /\ Cardinality(s \ {one(s)}) = Cardinality(s) - 1
        BY <1>1, <4>1, Zenon
      <4>3. s = {} => s \in UpTo(n)
        BY <4>1, <4>2, <3>1, SMTT(30)
      <4>4. s # {} => s \ {one(s)} \in UpTo(n) /\ s \ {one(s)} \in UpTo(n + 1)
        BY <4>1, <4>2, <3>1, SMTT(30)
      <4>5. h[s] = Sum(g, s)
        BY <3>3, <4>3, SMTT(30)
      <4> HIDE DEF UpTo
      <4>6. s # {} => h[s \ {one(s)}] = g[s \ {one(s)}]
        BY <4>4
      <4> HIDE DEF h
      <4> QED BY <4>5, <4>6
    <3>5. Sums(n + 1, h)
      <4> HIDE DEF UpTo, Sum
      <4> QED BY <3>4, SMTT(30)
    <3> HIDE DEF h, Sums
    <3> QED BY <3>1, <3>5
  <2>3. All \in SUBSET Nat
    OBVIOUS
  <2>4. \A n \in Nat: n \in All
    <3> HIDE DEF All
    <3> QED BY <2>1, <2>2, <2>3, AllNat
  <2> HIDE DEF Sums
  <2> QED BY <2>4
<1>3. Cardinality(S) \in Nat /\ UpTo(Cardinality(S)) = SUBSET S
  <2>1. Cardinality(S) \in Nat
    BY FS_CardinalityType
  <2>2. \A s \in SUBSET S: Cardinality(s) <= Cardinality(S)
    BY FS_Subset
  <2> QED BY <2>1, <2>2
<1> DEFINE iter == CHOOSE g: g = [s \in SUBSET S |-> Sum(g, s)]
<1>4. Poll!SumFunctionOnSet(f, S) = iter[S]
  BY DEF Poll!SumFunctionOnSet, Poll!FoldFunctionOnSet, Poll!MapThenFoldSet, one
<1>5. \A s \in SUBSET S: iter[s] = Sum(iter, s)
  <2>1. \E g: Sums(Cardinality(S), g)
    <3> HIDE DEF Sums
    <3> QED BY <1>2, <1>3
  <2>2. \E g: g = [s \in SUBSET S |-> Sum(g, s)]
    <3> HIDE DEF UpTo, Sum
    <3> QED BY <1>3, <2>1
  <2>3. iter = [s \in SUBSET S |-> Sum(iter, s)]
    <3> HIDE DEF Sum
    <3> QED BY <2>2
  <2> HIDE DEF iter, Sum
  <2> QED BY <2>3
<1> HIDE DEF iter
<1> DEFINE Bounded == {n \in Nat: \A s \in SUBSET S:
                          Cardinality(s) = n => iter[s] \in Nat /\ n <= iter[s]}
<1>6. 0 \in Bounded
  <2>1. ASSUME NEW s \in SUBSET S, Cardinality(s) = 0 PROVE iter[s] \in Nat /\ 0 <= iter[s]
    <3>1. s = {}
      BY <1>1, <2>1, Zenon
    <3>2. iter[s] = Sum(iter, s)
      BY <1>5, Zenon
    <3> QED BY <3>1, <3>2
  <2> QED BY <2>1
<1>7. ASSUME NEW n \in Bounded PROVE n + 1 \in Bounded
  <2>1. n \in Nat
    OBVIOUS
  <2>2. ASSUME NEW s \in SUBSET S, Cardinality(s) = n + 1
        PROVE  iter[s] \in Nat /\ n + 1 <= iter[s]
    <3>1. /\ s = {} <=> Cardinality(s) = 0
          /\ s # {} => /\ one(s) \in S /\ s \ {one(s)} \in SUBSET S
                       /\ Cardinality(s \ {one(s)}) = Cardinality(s) - 1
      BY <1>1
    <3>2. s # {} /\ one(s) \in S /\ s \ {one(s)} \in SUBSET S /\ Cardinality(s \ {one(s)}) = n
      BY <3>1, <2>1, <2>2, SMTT(30)
    <3>3. iter[s \ {one(s)}] \in Nat /\ n <= iter[s \ {one(s)}]
      BY <3>2
    <3>4. iter[s] = Sum(iter, s)
      BY <1>5
    <3>5. iter[s] = f[one(s)] + iter[s \ {one(s)}]
      BY <3>2, <3>4, SMTT(30)
    <3>6. f[one(s)] \in Nat \ {0}
      BY <3>2, SMTT(30)
    <3> QED BY <2>1, <3>3, <3>5, <3>6, SMTT(30)
  <2> QED BY <2>1, <2>2
<1>8. \A n \in Nat: n \in Bounded
  <2>1. Bounded \in SUBSET Nat
    OBVIOUS
  <2> HIDE DEF Bounded
  <2> QED BY <1>6, <1>7, <2>1, AllNat
<1> QED BY <1>3, <1>4, <1>8, SMTT(30)

-----------------------------------------------------------------------------
(* The polling executor *)

\* The cardinality of the executor's module is the usual one.
LEMMA SameCardinality == ASSUME NEW S PROVE Poll!Cardinality(S) = Cardinality(S)
BY Zenon DEF Poll!Cardinality, Cardinality, Poll!IsFiniteSet, IsFiniteSet

\* A task that is started or reported moves from one set to another.
LEMMA TaskMoves ==
    ASSUME NEW t, NEW S \in SUBSET Tasks, t \in Tasks
    PROVE  /\ IsFiniteSet(S) /\ Poll!Cardinality(S) \in Nat
           /\ t \notin S => Poll!Cardinality(S \union {t}) = Poll!Cardinality(S) + 1
           /\ t \in S => Poll!Cardinality(S \ {t}) = Poll!Cardinality(S) - 1
<1>1. IsFiniteSet(S)
  BY FS_Subset, EndpointsAssumption
<1> QED BY <1>1, FS_CardinalityType, FS_AddElement, FS_RemoveElement, SameCardinality, SMTT(30)

\* An answer of the scheduler has no more tasks than the executor offered vcores.
LEMMA AnswerFits ==
    ASSUME Poll!PollInv, poll_loop = "calling", NEW S \in SUBSET pending,
           Poll!Partitions(S) <= offered
    PROVE  Poll!Cardinality(S) <= free_vcores
<1>1. IsFiniteSet(S)
  BY FS_Subset, EndpointsAssumption, SMTT(30) DEF Poll!PollInv, Poll!TypeOK
<1>2. offered \in Nat /\ free_vcores \in Nat /\ offered <= free_vcores
  BY EndpointsAssumption DEF Poll!PollInv, Poll!TypeOK
<1>3. \A t \in S: MCSlice[t] \in Nat \ {0}
  BY DEF MCSlice, Poll!PollInv, Poll!TypeOK
<1>4. Cardinality(S) \in Nat
  BY <1>1, FS_CardinalityType, SMTT(30)
<1> DEFINE n == Cardinality(S)
           p == Poll!SumFunctionOnSet(MCSlice, S)
<1>5. p \in Nat /\ n <= p /\ n \in Nat
  BY <1>1, <1>3, <1>4, SumOfPositive, SMTT(30)
<1>6. p <= offered
  BY Zenon DEF Poll!Partitions
<1>7. Poll!Cardinality(S) = n
  BY SameCardinality
<1> HIDE DEF n, p
<1>8. n <= free_vcores
  BY <1>2, <1>5, <1>6, SMTT(30)
<1> QED BY <1>7, <1>8, Zenon

\* The poll loop and its tasks keep the permits accounted for.
LEMMA PollNext ==
    ASSUME Poll!PollInv, Poll!Next \/ UNCHANGED poll_vars PROVE Poll!PollInv'
<1> DEFINE Known(S) == \A s \in S: s.task \in Tasks /\ s.attempt \in Nat
<1> USE DEF Poll!PollInv, Poll!TypeOK, Poll!PermitForEachTask
<1>0. /\ Vcores \in Nat /\ free_vcores \in Nat /\ offered \in Nat
      /\ \A t \in Tasks: StageAttempt[t] \in Nat /\ MCZeros[t] \in Nat
      /\ free_vcores + Poll!Cardinality(poll_running) + Poll!Cardinality(reporting) = Vcores
      /\ Known(sent) /\ Known(channel) /\ Known(applied)
  BY EndpointsAssumption DEF MCZeros
<1>1. CASE UNCHANGED poll_vars
  BY <1>1, Zenon DEF poll_vars
<1>2. CASE Poll!Wait \/ Poll!AllStarted \/ Poll!Sleep
  BY <1>2, Zenon DEF Poll!Wait, Poll!AllStarted, Poll!Sleep
<1>3. CASE Poll!SampleTasksStatus
  BY <1>3, Zenon DEF Poll!SampleTasksStatus
<1>4. CASE Poll!Poll
  BY <1>4, <1>0, SMTT(30) DEF Poll!Poll
<1>5. ASSUME NEW S \in SUBSET pending, NEW outcome \in {"answered", "refused", "answer lost"},
             Poll!PollWork(S, outcome)
      PROVE  Poll!PollInv'
  <2>1. /\ poll_loop = "calling" /\ Poll!Cardinality(S) <= free_vcores
        /\ UNCHANGED <<free_vcores, offered, poll_running, reporting, channel>>
    <3>1. poll_loop = "calling" /\ Poll!Partitions(S) <= offered
          /\ UNCHANGED <<free_vcores, offered, poll_running, reporting, channel>>
      BY <1>5, Zenon DEF Poll!PollWork
    <3>2. Poll!Cardinality(S) <= free_vcores
      BY <3>1, AnswerFits, Zenon
    <3> QED BY <3>1, <3>2, Zenon
  <2>2. CASE outcome = "answered"
    <3>1. /\ applied' = applied \union sent /\ pending' = pending \ S /\ received' = S /\ sent' = {}
          /\ poll_loop' = "starting"
      BY <1>5, <2>2, SMTT(30) DEF Poll!PollWork
    <3>2. Known(sent') /\ Known(channel') /\ Known(applied')
      BY <2>1, <3>1, <1>0, Zenon
    <3> QED BY <2>1, <3>1, <3>2, <1>0, Zenon
  <2>3. CASE outcome = "refused"
    <3>1. UNCHANGED <<applied, pending, received>> /\ sent' = {} /\ poll_loop' = "sleeping"
      BY <1>5, <2>3, SMTT(30) DEF Poll!PollWork
    <3>2. Known(sent') /\ Known(channel') /\ Known(applied')
      BY <2>1, <3>1, <1>0, Zenon
    <3> QED BY <2>1, <3>1, <3>2, <1>0, Zenon
  <2>4. CASE outcome = "answer lost"
    <3>1. /\ applied' = applied \union sent /\ pending' = pending \ S /\ sent' = {}
          /\ poll_loop' = "sleeping" /\ UNCHANGED received
      BY <1>5, <2>4, Zenon DEF Poll!PollWork
    <3>2. Known(sent') /\ Known(channel') /\ Known(applied')
      BY <2>1, <3>1, <1>0, Zenon
    <3> QED BY <2>1, <3>1, <3>2, <1>0, Zenon
  <2> QED BY <2>2, <2>3, <2>4, Zenon
<1>6. ASSUME NEW t \in Tasks, Poll!StartTask(t) PROVE Poll!PollInv'
  <2>1. /\ t \in received /\ t \notin poll_running /\ received' = received \ {t}
        /\ free_vcores' = free_vcores - 1 /\ poll_running' = poll_running \union {t}
        /\ free_vcores > 0 /\ poll_loop = "starting"
        /\ UNCHANGED <<poll_loop, offered, sent, pending, reporting, channel, applied>>
    BY <1>6, SMTT(30) DEF Poll!StartTask
  <2>2. /\ Poll!Cardinality(poll_running') = Poll!Cardinality(poll_running) + 1
        /\ Poll!Cardinality(received') = Poll!Cardinality(received) - 1
        /\ Poll!Cardinality(poll_running) \in Nat /\ Poll!Cardinality(received) \in Nat
        /\ Poll!Cardinality(reporting) \in Nat
    BY <2>1, TaskMoves, Zenon
  <2>3. Known(sent') /\ Known(channel') /\ Known(applied')
    BY <2>1, <1>0, SMTT(30)
  <2>4. /\ free_vcores' + Poll!Cardinality(poll_running') + Poll!Cardinality(reporting') = Vcores
        /\ free_vcores' \in 0 .. Vcores
    BY <2>1, <2>2, <1>0, SMTT(30)
  <2>5. Poll!PermitForEachTask'
    BY <2>1, <2>2, <1>0, SMTT(30)
  <2> HIDE DEF Poll!PermitForEachTask
  <2> QED BY <2>1, <2>3, <2>4, <2>5, <1>0, SMTT(30)
<1>7. ASSUME NEW t \in Tasks, Poll!FailTask(t) PROVE Poll!PollInv'
  <2>1. /\ t \in received /\ received' = received \ {t}
        /\ channel' = channel \union {[task |-> t, attempt |-> MCZeros[t]]}
        /\ UNCHANGED <<poll_loop, free_vcores, offered, sent, pending, poll_running, reporting, applied>>
    BY <1>7, SMTT(30) DEF Poll!FailTask, Poll!Status
  <2>2. Poll!Cardinality(received') = Poll!Cardinality(received) - 1 /\ Poll!Cardinality(received) \in Nat
    BY <2>1, TaskMoves, SMTT(30)
  <2>3. Known(sent') /\ Known(channel') /\ Known(applied')
    BY <2>1, <1>0, SMTT(30)
  <2>4. /\ free_vcores' + Poll!Cardinality(poll_running') + Poll!Cardinality(reporting') = Vcores
        /\ free_vcores' \in 0 .. Vcores
    BY <2>1, <1>0, SMTT(30)
  <2>5. Poll!PermitForEachTask'
    BY <2>1, <2>2, <1>0, SMTT(30)
  <2> HIDE DEF Poll!PermitForEachTask
  <2> QED BY <2>1, <2>3, <2>4, <2>5, <1>0, SMTT(30)
<1>8. ASSUME NEW t \in Tasks, Poll!ReportTask(t) PROVE Poll!PollInv'
  <2>1. /\ t \in poll_running /\ t \notin reporting /\ poll_running' = poll_running \ {t}
        /\ reporting' = reporting \union {t}
        /\ channel' = channel \union {[task |-> t, attempt |-> StageAttempt[t]]}
        /\ UNCHANGED <<poll_loop, free_vcores, offered, sent, received, pending, applied>>
    BY <1>8, SMTT(30) DEF Poll!ReportTask, Poll!Status
  <2>2. /\ Poll!Cardinality(poll_running') = Poll!Cardinality(poll_running) - 1
        /\ Poll!Cardinality(reporting') = Poll!Cardinality(reporting) + 1
        /\ Poll!Cardinality(poll_running) \in Nat /\ Poll!Cardinality(reporting) \in Nat
    BY <2>1, TaskMoves, Zenon
  <2>3. Known(sent') /\ Known(channel') /\ Known(applied')
    BY <2>1, <1>0, SMTT(30)
  <2>4. /\ free_vcores' + Poll!Cardinality(poll_running') + Poll!Cardinality(reporting') = Vcores
        /\ free_vcores' \in 0 .. Vcores
    BY <2>1, <2>2, <1>0, SMTT(30)
  <2>5. Poll!PermitForEachTask'
    BY <2>1, SMTT(30)
  <2> HIDE DEF Poll!PermitForEachTask
  <2> QED BY <2>1, <2>3, <2>4, <2>5, <1>0, SMTT(30)
<1>9. ASSUME NEW t \in Tasks, Poll!DropPermit(t) PROVE Poll!PollInv'
  <2>1. /\ t \in reporting /\ reporting' = reporting \ {t} /\ free_vcores' = free_vcores + 1
        /\ UNCHANGED <<poll_loop, offered, sent, received, pending, poll_running, channel, applied>>
    BY <1>9, SMTT(30) DEF Poll!DropPermit
  <2>2. /\ Poll!Cardinality(reporting') = Poll!Cardinality(reporting) - 1
        /\ Poll!Cardinality(poll_running) \in Nat /\ Poll!Cardinality(reporting) \in Nat
        /\ Poll!Cardinality(reporting') \in Nat /\ Poll!Cardinality(received) \in Nat
    BY <2>1, TaskMoves, Zenon
  <2>3. Known(sent') /\ Known(channel') /\ Known(applied')
    BY <2>1, <1>0, SMTT(30)
  <2>4. /\ free_vcores' + Poll!Cardinality(poll_running') + Poll!Cardinality(reporting') = Vcores
        /\ free_vcores' \in 0 .. Vcores
    BY <2>1, <2>2, <1>0, SMTT(30)
  <2>5. Poll!PermitForEachTask'
    BY <2>1, <2>2, <1>0, SMTT(30)
  <2> HIDE DEF Poll!PermitForEachTask
  <2> QED BY <2>1, <2>3, <2>4, <2>5, <1>0, SMTT(30)
<1> QED BY <1>1, <1>2, <1>3, <1>4, <1>5, <1>6, <1>7, <1>8, <1>9, ZenonT(30) DEF Poll!Next, Poll!LoopStep

-----------------------------------------------------------------------------
(* Every state *)

\* The permits of an executor that has not polled are free.
LEMMA PollInit == ASSUME Init PROVE Poll!PollInv
<1>1. Poll!Cardinality({}) = 0
  BY SameCardinality, FS_EmptySet
<1> QED BY <1>1, EndpointsAssumption, SMTT(30)
        DEF Init, Poll!Init, Poll!PollInv, Poll!TypeOK, Poll!PermitForEachTask

\* A polling executor accounts for every permit of available_task_slots, and the loop of
\* execution_loop.rs never waits for a permit when it starts the tasks of an answer.
THEOREM PermitsSuffice == FairSpec => []PermitForEachTask
<1>1. Init => Poll!PollInv
  BY PollInit
<1>2. ASSUME Poll!PollInv, [Next]_vars PROVE Poll!PollInv'
  <2>1. Poll!Next \/ UNCHANGED poll_vars
    BY <1>2, Zenon DEF Next, PollStep, ClientStep, HistoryStep, vars
  <2> QED BY <1>2, <2>1, PollNext, Zenon
<1>3. Poll!PollInv => PermitForEachTask
  BY Zenon DEF Poll!PollInv, PermitForEachTask
<1> QED BY <1>1, <1>2, <1>3, PTL DEF FairSpec
=============================================================================
