------------------------- MODULE GraphUpdatesProofs -------------------------
(***************************************************************************)
(* What the methods of a stage keep, for stages of any shape: the types of *)
(* its fields, its attempt number and the tasks of the attempt; and what   *)
(* the handlers of an execution graph keep, for any graph of stages, any   *)
(* numbers of partitions and executors, and batches of any size.           *)
(***************************************************************************)
EXTENDS GraphUpdates, TLAPS, WellFoundedInduction

-----------------------------------------------------------------------------
(* Induction over the natural numbers, with a set for the predicate. *)

\* A non-empty set of natural numbers has a least element.
LEMMA LeastNat ==
    ASSUME NEW T \in SUBSET Nat, T # {}
    PROVE  \E x \in T : \A y \in T : x <= y
<1> DEFINE R == OpToRel(<, Nat)
<1>1. IsWellFoundedOn(R, Nat)
  BY NatLessThanWellFounded, Zenon
<1>2. ASSUME NEW x \in Nat, NEW y \in Nat, y < x
      PROVE  <<y, x>> \in R
  <2>1. <<y, x>> \in Nat \X Nat /\ <<y, x>>[1] < <<y, x>>[2]
    BY <1>2
  <2> QED BY <2>1 DEF OpToRel
<1> HIDE DEF R
<1>3. PICK x \in T : \A y \in T : ~ (<<y, x>> \in R)
  BY <1>1, WFMin, Zenon
<1>4. \A y \in T : x <= y
  <2> TAKE y \in T
  <2>1. x \in Nat /\ y \in Nat
    OBVIOUS
  <2>2. ~ (y < x)
    BY <1>2, <1>3, <2>1, Zenon
  <2> QED BY <2>1, <2>2
<1> QED BY <1>4

\* A set that has 0 and, with every number, the next one has them all.
LEMMA NatIn ==
    ASSUME NEW S \in SUBSET Nat, 0 \in S, \A n \in S : n + 1 \in S
    PROVE  \A n \in Nat : n \in S
<1> SUFFICES ASSUME Nat \ S # {} PROVE FALSE
  OBVIOUS
<1>1. PICK x \in Nat \ S : \A y \in Nat \ S : x <= y
  BY LeastNat, Zenon
<1>2. x # 0 /\ x - 1 \in Nat /\ x - 1 < x
  BY <1>1
<1>3. x - 1 \in S
  BY <1>1, <1>2
<1> QED BY <1>3, <1>1, <1>2

-----------------------------------------------------------------------------
(* FlattenSeq is the concatenation of its sequences, one after the other. *)

SeqOver(S, q) == q \in Seq(S)

Flattening == INSTANCE FoldTheory WITH Step <- Concat, Inv <- SeqOver

\* Sequences over a set are flattened to a sequence over the set.
LEMMA FlattenSeqType ==
    ASSUME NEW S, NEW qs \in Seq(Seq(S))
    PROVE  FlattenSeq(qs) \in Seq(S)
<1>1. FlattenSeq(qs) = Flattening!Loop(<<>>, qs)
  BY DEF FlattenSeq, FoldLeft, Flattening!Loop
<1>2. Flattening!Induction
  BY NatIn, Zenon DEF Flattening!Induction
<1>3. SeqOver(S, <<>>)
  BY DEF SeqOver
<1>4. \A q : \A r \in Seq(S) : SeqOver(S, q) => SeqOver(S, Concat(q, r))
  BY DEF SeqOver, Concat
<1>5. SeqOver(S, Flattening!Loop(<<>>, qs))
  BY <1>2, <1>3, <1>4, Flattening!FoldInv
<1> QED BY <1>1, <1>5 DEF SeqOver

-----------------------------------------------------------------------------
(* How a handler of the graph may change a stage.                          *)

Unstarted == {"UnResolved", "Resolved"}

\* b is a as a handler that was given the reports in done may leave it: the
\* attempt number grows or the tasks of the attempt stay, and a task becomes
\* successful only by a report on it.
Follows(done, s, a, b) ==
    /\ a.attempt <= b.attempt
    /\ a.attempt = b.attempt =>
          /\ a.state = "Successful" => b.state = "Successful"
          /\ a.state \notin Unstarted =>
                /\ b.state \notin Unstarted
                /\ DOMAIN a.tasks \subseteq DOMAIN b.tasks
                /\ \A t \in DOMAIN a.tasks :
                      /\ b.tasks[t].exec = a.tasks[t].exec
                      /\ b.tasks[t].attempt = a.tasks[t].attempt
    /\ \A t \in DOMAIN b.tasks : b.tasks[t].st = "success" =>
          \/ /\ t \in DOMAIN a.tasks
             /\ a.tasks[t].st = "success"
             /\ a.tasks[t].attempt = b.tasks[t].attempt
          \/ \E r \in done : r.stage = s /\ r.task = t /\ r.attempt = b.tasks[t].attempt

Moves(done, s, a, b) == IsStage(s, b) /\ Follows(done, s, a, b)

\* ... that leaves the state of the stage alone.
Keeps(done, s, a, b) == Moves(done, s, a, b) /\ b.state = a.state

\* A stage follows itself.
LEMMA FollowsRefl ==
    ASSUME NEW done, NEW s \in Stages, NEW a, IsStage(s, a)
    PROVE  Follows(done, s, a, a)
BY DEF Follows, IsStage, StageType

\* Two changes of a stage make one.
LEMMA FollowsTrans ==
    ASSUME NEW done, NEW s \in Stages, NEW a, NEW b, NEW c,
           IsStage(s, a), IsStage(s, b), IsStage(s, c),
           Follows(done, s, a, b), Follows(done, s, b, c)
    PROVE  Follows(done, s, a, c)
<1>1. a.attempt \in Nat /\ b.attempt \in Nat /\ c.attempt \in Nat
  BY DEF IsStage, StageType
<1>2. a.attempt <= c.attempt
  BY <1>1 DEF Follows
<1>3. ASSUME a.attempt = c.attempt
      PROVE  /\ a.state = "Successful" => c.state = "Successful"
             /\ a.state \notin Unstarted =>
                   /\ c.state \notin Unstarted
                   /\ DOMAIN a.tasks \subseteq DOMAIN c.tasks
                   /\ \A t \in DOMAIN a.tasks :
                         /\ c.tasks[t].exec = a.tasks[t].exec
                         /\ c.tasks[t].attempt = a.tasks[t].attempt
  <2>1. a.attempt = b.attempt /\ b.attempt = c.attempt
    BY <1>1, <1>3 DEF Follows
  <2> QED BY <2>1 DEF Follows
<1>4. ASSUME NEW t \in DOMAIN c.tasks, c.tasks[t].st = "success"
      PROVE  \/ /\ t \in DOMAIN a.tasks
                /\ a.tasks[t].st = "success"
                /\ a.tasks[t].attempt = c.tasks[t].attempt
             \/ \E r \in done : r.stage = s /\ r.task = t /\ r.attempt = c.tasks[t].attempt
  BY <1>4 DEF Follows
<1> QED BY <1>2, <1>3, <1>4 DEF Follows

-----------------------------------------------------------------------------
(* The methods of a stage. *)

\* A new stage.
LEMMA NewStageType ==
    ASSUME NEW s \in Stages PROVE IsStage(s, NewStage(s))
<1>1. Inputs[s] \subseteq Stages /\ Partitions[s] \in Nat
  BY StageAssumption
<1> QED BY <1>1 DEF IsStage, StageType, NewStage, StageStates, NoOutput, PartitionIds

\* The outputs a stage may have received from its inputs.
OutputsType(s) ==
    {f \in [Inputs[s] -> [locs : SUBSET Locations, complete : BOOLEAN]] :
        \A m \in Inputs[s] : \A l \in f[m].locs : l.parts \subseteq PartitionIds(m)}

\* A change of the inputs alone.
LEMMA InputsStage ==
    ASSUME NEW done, NEW s \in Stages, NEW a, IsStage(s, a), NEW f \in OutputsType(s)
    PROVE  /\ a.inputs \in OutputsType(s)
           /\ Keeps(done, s, a, [a EXCEPT !.inputs = f])
<1> DEFINE b == [a EXCEPT !.inputs = f]
<1>1. a \in StageType(s) /\ a.inputs \in OutputsType(s)
  BY DEF IsStage, StageType, OutputsType
<1>2. /\ b \in StageType(s)
      /\ b.inputs = f /\ b.state = a.state /\ b.attempt = a.attempt /\ b.tasks = a.tasks
  BY <1>1, Zenon DEF StageType, OutputsType
<1> HIDE DEF b
<1>3. IsStage(s, b)
  BY <1>2 DEF IsStage, OutputsType
<1>4. a.attempt \in Nat
  BY <1>1 DEF StageType
<1>5. Follows(done, s, a, b)
  BY <1>2, <1>4 DEF Follows
<1> QED BY <1>1, <1>2, <1>3, <1>5 DEF b, Keeps, Moves

\* add_input_partitions of a stage.
LEMMA AddInputPartitionsStage ==
    ASSUME NEW done, NEW s \in Stages, NEW a, IsStage(s, a), NEW m \in Inputs[s],
           NEW locs \in SUBSET Locations, \A l \in locs : l.parts \subseteq PartitionIds(m)
    PROVE  Keeps(done, s, a, AddInputPartitions(a, m, locs))
<1> DEFINE f == [a.inputs EXCEPT ![m] =
                   [locs |-> @.locs \union locs, complete |-> @.complete]]
<1>1. f \in OutputsType(s)
  BY Zenon DEF IsStage, StageType, OutputsType
<1>2. AddInputPartitions(a, m, locs) = [a EXCEPT !.inputs = f]
  BY DEF AddInputPartitions, IsStage, StageType
<1> HIDE DEF f
<1> QED BY <1>1, <1>2, InputsStage

\* complete_input of a stage.
LEMMA CompleteInputStage ==
    ASSUME NEW done, NEW s \in Stages, NEW a, IsStage(s, a), NEW m \in Inputs[s]
    PROVE  Keeps(done, s, a, CompleteInput(a, m))
<1> DEFINE f == [a.inputs EXCEPT ![m] = [locs |-> @.locs, complete |-> TRUE]]
<1>1. f \in OutputsType(s)
  BY Zenon DEF IsStage, StageType, OutputsType
<1>2. CompleteInput(a, m) = [a EXCEPT !.inputs = f]
  BY DEF CompleteInput, IsStage, StageType
<1> HIDE DEF f
<1> QED BY <1>1, <1>2, InputsStage

\* remove_input_partitions of a stage.
LEMMA RemoveInputPartitionsStage ==
    ASSUME NEW done, NEW s \in Stages, NEW a, IsStage(s, a), NEW m \in Inputs[s], NEW e
    PROVE  Keeps(done, s, a, RemoveInputPartitions(a, m, e))
<1> DEFINE f == [a.inputs EXCEPT ![m] =
                   [locs |-> @.locs \ OnExecutor(@.locs, e), complete |-> FALSE]]
<1>1. f \in OutputsType(s)
  BY Zenon DEF IsStage, StageType, OutputsType
<1>2. RemoveInputPartitions(a, m, e) = [a EXCEPT !.inputs = f]
  BY DEF RemoveInputPartitions, IsStage, StageType
<1> HIDE DEF f
<1> QED BY <1>1, <1>2, InputsStage

-----------------------------------------------------------------------------
(* Methods that change the tasks of a stage. *)

TaskType(s) ==
    [parts : Seq(PartitionIds(s)) \ {<<>>}, exec : Executors, st : TaskStates,
     attempt : Nat]

\* A sequence with every element replaced.
LEMMA ReplacedSeq ==
    ASSUME NEW T, NEW U, NEW q \in Seq(T), NEW f \in [DOMAIN q -> U]
    PROVE  f \in Seq(U) /\ DOMAIN f = DOMAIN q
BY DOMAIN q = 1 .. Len(q)

\* What a change of the outcomes of tasks and of the queue has to keep.
LEMMA TasksStage ==
    ASSUME NEW done, NEW s \in Stages, NEW a, IsStage(s, a), NEW b \in StageType(s),
           b.attempt = a.attempt, b.inputs = a.inputs,
           DOMAIN b.tasks = DOMAIN a.tasks,
           \A t \in DOMAIN a.tasks :
              /\ b.tasks[t].exec = a.tasks[t].exec
              /\ b.tasks[t].attempt = a.tasks[t].attempt
              /\ b.tasks[t].st = "success" =>
                    \/ a.tasks[t].st = "success"
                    \/ \E r \in done : /\ r.stage = s /\ r.task = t
                                      /\ r.attempt = a.tasks[t].attempt,
           a.state = "Successful" => b.state = "Successful",
           a.state \notin Unstarted => b.state \notin Unstarted
    PROVE  IsStage(s, b) /\ Follows(done, s, a, b)
<1>1. a.attempt \in Nat
  BY DEF IsStage, StageType
<1>2. IsStage(s, b)
  BY DEF IsStage
<1>3. Follows(done, s, a, b)
  BY <1>1 DEF Follows
<1> QED BY <1>2, <1>3

\* The slices of tasks are partitions of the stage.
LEMMA SlicesType ==
    ASSUME NEW s \in Stages, NEW a, IsStage(s, a), NEW ids
    PROVE  SlicesOf(a, ids) \in Seq(PartitionIds(s))
<1> DEFINE ss == [t \in DOMAIN a.tasks |-> IF t \in ids THEN a.tasks[t].parts ELSE <<>>]
<1>1. a.tasks \in Seq(TaskType(s))
  BY DEF IsStage, StageType, TaskType
<1>2. ASSUME NEW t \in DOMAIN a.tasks PROVE a.tasks[t].parts \in Seq(PartitionIds(s))
  <2>1. a.tasks[t] \in TaskType(s)
    BY <1>1
  <2> QED BY <2>1 DEF TaskType
<1>3. ss \in [DOMAIN a.tasks -> Seq(PartitionIds(s))]
  BY <1>2
<1>4. ss \in Seq(Seq(PartitionIds(s)))
  BY <1>1, <1>3, ReplacedSeq, ZenonT(30)
<1> HIDE DEF ss
<1>5. FlattenSeq(ss) \in Seq(PartitionIds(s))
  BY <1>4, FlattenSeqType
<1> QED BY <1>5 DEF SlicesOf, ss

\* The outcome k is entered for the tasks in ids, or for the task t.
Marked(q, ids, k) ==
    [t \in DOMAIN q |-> IF t \in ids THEN [q[t] EXCEPT !.st = k] ELSE q[t]]

\* Marking the infos of some slots changes their status and nothing else.
LEMMA MarkedType ==
    ASSUME NEW s \in Stages, NEW q \in Seq(TaskType(s)), NEW ids, NEW k \in TaskStates
    PROVE  /\ Marked(q, ids, k) \in Seq(TaskType(s))
           /\ DOMAIN Marked(q, ids, k) = DOMAIN q
           /\ \A t \in DOMAIN q :
                 /\ Marked(q, ids, k)[t].exec = q[t].exec
                 /\ Marked(q, ids, k)[t].attempt = q[t].attempt
                 /\ Marked(q, ids, k)[t].st = IF t \in ids THEN k ELSE q[t].st
<1> DEFINE p == Marked(q, ids, k)
<1>1. ASSUME NEW t \in DOMAIN q
      PROVE  /\ p[t] \in TaskType(s)
             /\ p[t].exec = q[t].exec /\ p[t].attempt = q[t].attempt
             /\ p[t].st = IF t \in ids THEN k ELSE q[t].st
  <2>1. q[t] \in TaskType(s)
    OBVIOUS
  <2>2. p[t] = IF t \in ids THEN [q[t] EXCEPT !.st = k] ELSE q[t]
    BY DEF Marked
  <2> HIDE DEF p
  <2>3. CASE t \in ids
    BY <2>1, <2>2, <2>3, Zenon DEF TaskType
  <2>4. CASE t \notin ids
    BY <2>1, <2>2, <2>4
  <2> QED BY <2>3, <2>4
<1>2. p \in [DOMAIN q -> TaskType(s)]
  <2>1. p = [t \in DOMAIN q |-> p[t]]
    BY DEF Marked
  <2> HIDE DEF p
  <2> QED BY <2>1, <1>1
<1> HIDE DEF p
<1>3. p \in Seq(TaskType(s)) /\ DOMAIN p = DOMAIN q
  BY <1>2, ReplacedSeq
<1> QED BY <1>1, <1>3 DEF p

\* task_infos[t] = status is the marking of one slot.
LEMMA MarkedOne ==
    ASSUME NEW s \in Stages, NEW q \in Seq(TaskType(s)), NEW t \in DOMAIN q, NEW k
    PROVE  [q EXCEPT ![t].st = k] = Marked(q, {t}, k)
BY DEF Marked

\* A stage with outcomes entered, a new queue and new counts.
Entered(a, ids, k, pending, fails) ==
    [a EXCEPT !.tasks = Marked(a.tasks, ids, k), !.pending = pending, !.fails = fails]

\* A success is entered for tasks with a report.
Backed(done, s, a, ids, k) ==
    k = "success" => \A t \in ids \intersect DOMAIN a.tasks : \E r \in done :
                        /\ r.stage = s /\ r.task = t
                        /\ r.attempt = a.tasks[t].attempt

\* The body of update_task_info moves no attempt and no slot: a status is entered in the
\* slots it covers, and a success only where the context vouches for one.
LEMMA EnteredStage ==
    ASSUME NEW done, NEW s \in Stages, NEW a, IsStage(s, a), NEW ids,
           NEW k \in TaskStates,
           NEW pending \in Seq(PartitionIds(s)), NEW fails \in [PartitionIds(s) -> Nat],
           Backed(done, s, a, ids, k)
    PROVE  Keeps(done, s, a, Entered(a, ids, k, pending, fails))
<1> DEFINE b == Entered(a, ids, k, pending, fails)
           p == Marked(a.tasks, ids, k)
<1>0. a \in StageType(s) /\ a.tasks \in Seq(TaskType(s))
  BY DEF IsStage, StageType, TaskType
<1>1. /\ p \in Seq(TaskType(s)) /\ DOMAIN p = DOMAIN a.tasks
      /\ \A t \in DOMAIN a.tasks :
           /\ p[t].exec = a.tasks[t].exec /\ p[t].attempt = a.tasks[t].attempt
           /\ p[t].st = IF t \in ids THEN k ELSE a.tasks[t].st
  BY <1>0, MarkedType
<1> HIDE DEF p
<1>2. b = [a EXCEPT !.tasks = p, !.pending = pending, !.fails = fails]
  BY DEF p, Entered
<1> HIDE DEF b
<1>3. /\ b \in StageType(s)
      /\ b.tasks = p /\ b.attempt = a.attempt /\ b.inputs = a.inputs /\ b.state = a.state
  BY <1>0, <1>1, <1>2, Zenon DEF StageType, TaskType
<1>4. ASSUME NEW t \in DOMAIN a.tasks, b.tasks[t].st = "success"
      PROVE  \/ a.tasks[t].st = "success"
             \/ \E r \in done : /\ r.stage = s /\ r.task = t
                               /\ r.attempt = a.tasks[t].attempt
  BY <1>1, <1>3, <1>4, SMTT(20) DEF Backed
<1>5. \A t \in DOMAIN a.tasks :
         /\ b.tasks[t].exec = a.tasks[t].exec
         /\ b.tasks[t].attempt = a.tasks[t].attempt
         /\ b.tasks[t].st = "success" =>
               \/ a.tasks[t].st = "success"
               \/ \E r \in done : /\ r.stage = s /\ r.task = t
                                 /\ r.attempt = a.tasks[t].attempt
  BY <1>1, <1>3, <1>4
<1>6. DOMAIN b.tasks = DOMAIN a.tasks
  BY <1>1, <1>3
<1>7. /\ a.state = "Successful" => b.state = "Successful"
      /\ a.state \notin Unstarted => b.state \notin Unstarted
  BY <1>3
<1>8. IsStage(s, b) /\ Follows(done, s, a, b)
  BY <1>3, <1>5, <1>6, <1>7, TasksStage, Zenon
<1> QED BY <1>3, <1>8 DEF b, Keeps, Moves

\* update_task_info: a report on the task is entered.
LEMMA UpdateTaskInfoStage ==
    ASSUME NEW done, NEW s \in Stages, NEW a, IsStage(s, a), NEW t \in DOMAIN a.tasks,
           NEW kind \in Reported,
           \E r \in done : r.stage = s /\ r.task = t /\ r.attempt = a.tasks[t].attempt
    PROVE  Keeps(done, s, a, UpdateTaskInfo(a, t, kind))
<1> DEFINE slice == ToSet(a.tasks[t].parts)
           fails == [p \in PartitionIds(s) |->
                        CASE p \in slice /\ Retryable(kind)   -> a.fails[p] + 1
                          [] p \in slice /\ kind = "success"  -> 0
                          [] OTHER                            -> a.fails[p]]
<1>0. /\ a \in StageType(s) /\ a.tasks \in Seq(TaskType(s))
      /\ a.fails \in [PartitionIds(s) -> Nat] /\ a.pending \in Seq(PartitionIds(s))
  BY Zenon DEF IsStage, StageType, TaskType
<1>1. fails \in [PartitionIds(s) -> Nat]
  <2>1. \A p \in PartitionIds(s) : a.fails[p] \in Nat /\ a.fails[p] + 1 \in Nat
    BY <1>0
  <2> QED BY <2>1 DEF Retryable
<1>2. kind \in TaskStates
  BY DEF TaskStates
<1>3. [a.tasks EXCEPT ![t].st = kind] = Marked(a.tasks, {t}, kind)
  <2> DEFINE q == a.tasks
  <2>1. q \in Seq(TaskType(s)) /\ t \in DOMAIN q
    BY <1>0
  <2> HIDE DEF q
  <2>2. [q EXCEPT ![t].st = kind] = Marked(q, {t}, kind)
    BY <2>1, MarkedOne
  <2> QED BY <2>2 DEF q
<1> DEFINE b == UpdateTaskInfo(a, t, kind)
<1>4. b = Entered(a, {t}, kind, a.pending, fails)
  <2>1. b = [a EXCEPT !.tasks = [a.tasks EXCEPT ![t].st = kind], !.fails = fails]
    BY <1>0, Zenon DEF UpdateTaskInfo
  <2> HIDE DEF b, fails
  <2> QED BY <2>1, <1>3, <1>0, Zenon DEF StageType, Entered
<1> HIDE DEF b, fails
<1>5. Backed(done, s, a, {t}, kind)
  BY DEF Backed
<1>6. Keeps(done, s, a, b)
  BY <1>0, <1>1, <1>2, <1>4, <1>5, EnteredStage
<1> QED BY <1>6 DEF b

\* reset_task_info: the slice is queued again.
LEMMA ResetTaskInfoStage ==
    ASSUME NEW done, NEW s \in Stages, NEW a, IsStage(s, a), NEW t \in DOMAIN a.tasks
    PROVE  Keeps(done, s, a, ResetTaskInfo(a, t))
<1> DEFINE pending == a.tasks[t].parts \o a.pending
           b == ResetTaskInfo(a, t)
<1>0. /\ a \in StageType(s) /\ a.tasks \in Seq(TaskType(s))
      /\ a.fails \in [PartitionIds(s) -> Nat] /\ a.pending \in Seq(PartitionIds(s))
  BY Zenon DEF IsStage, StageType, TaskType
<1>1. pending \in Seq(PartitionIds(s))
  <2>1. a.tasks[t] \in TaskType(s)
    BY <1>0
  <2>2. a.tasks[t].parts \in Seq(PartitionIds(s))
    BY <2>1 DEF TaskType
  <2> QED BY <2>2, <1>0
<1> DEFINE k == "killed"
<1>2. k \in TaskStates /\ k # "success"
  BY DEF TaskStates, Reported
<1>3. [a.tasks EXCEPT ![t].st = k] = Marked(a.tasks, {t}, k)
  <2> DEFINE q == a.tasks
  <2>1. q \in Seq(TaskType(s)) /\ t \in DOMAIN q
    BY <1>0
  <2> HIDE DEF k, q
  <2>2. [q EXCEPT ![t].st = k] = Marked(q, {t}, k)
    BY <2>1, MarkedOne
  <2> QED BY <2>2 DEF q
<1>4. b = Entered(a, {t}, k, pending, a.fails)
  <2>1. b = [a EXCEPT !.tasks = [a.tasks EXCEPT ![t].st = "killed"], !.pending = pending]
    BY DEF ResetTaskInfo, Reschedule
  <2> HIDE DEF b, pending
  <2> QED BY <2>1, <1>3, <1>0, Zenon DEF StageType, Entered
<1> HIDE DEF k, b, pending
<1>5. Backed(done, s, a, {t}, k)
  BY <1>2 DEF Backed
<1>6. Keeps(done, s, a, b)
  BY <1>5, <1>0, <1>1, <1>2, <1>4, EnteredStage
<1> QED BY <1>6 DEF b

\* The tasks in ids are lost.
LEMMA MarkLostStage ==
    ASSUME NEW done, NEW s \in Stages, NEW a, IsStage(s, a), NEW ids
    PROVE  Keeps(done, s, a, MarkLost(a, ids))
<1>0. /\ a \in StageType(s)
      /\ a.fails \in [PartitionIds(s) -> Nat] /\ a.pending \in Seq(PartitionIds(s))
  BY DEF IsStage, StageType
<1>1. PICK k \in TaskStates : k = "lost"
  BY DEF TaskStates
<1>2. MarkLost(a, ids) = Entered(a, ids, k, a.pending, a.fails)
  <2>1. MarkLost(a, ids) = [a EXCEPT !.tasks = Marked(a.tasks, ids, k)]
    BY <1>1 DEF MarkLost, Marked
  <2> QED BY <2>1, <1>0, Zenon DEF StageType, Entered
<1>3. Backed(done, s, a, ids, k)
  BY <1>1 DEF Backed
<1> QED BY <1>0, <1>2, <1>3, EnteredStage

\* reset_task_info for a set of tasks.
LEMMA ResetTaskInfosStage ==
    ASSUME NEW done, NEW s \in Stages, NEW a, IsStage(s, a), NEW ids
    PROVE  Keeps(done, s, a, ResetTaskInfos(a, ids))
<1> DEFINE pending == SlicesOf(a, ids) \o a.pending
           b == ResetTaskInfos(a, ids)
<1>0. /\ a \in StageType(s)
      /\ a.fails \in [PartitionIds(s) -> Nat] /\ a.pending \in Seq(PartitionIds(s))
  BY DEF IsStage, StageType
<1>1. pending \in Seq(PartitionIds(s))
  <2>1. SlicesOf(a, ids) \in Seq(PartitionIds(s))
    BY SlicesType
  <2> QED BY <2>1, <1>0
<1> DEFINE k == "killed"
<1>2. k \in TaskStates /\ k # "success"
  BY DEF TaskStates, Reported
<1>4. b = Entered(a, ids, k, pending, a.fails)
  <2>1. b = [a EXCEPT !.tasks = Marked(a.tasks, ids, "killed"), !.pending = pending]
    BY DEF ResetTaskInfos, Marked, Reschedule
  <2> HIDE DEF b, pending
  <2> QED BY <2>1, <1>0, Zenon DEF StageType, Entered
<1> HIDE DEF k, b, pending
<1>5. Backed(done, s, a, ids, k)
  BY <1>2 DEF Backed
<1>6. Keeps(done, s, a, b)
  BY <1>5, <1>0, <1>1, <1>2, <1>4, EnteredStage
<1> QED BY <1>6 DEF b

\* RunningStage::reset_tasks.
LEMMA RunningResetTasksStage ==
    ASSUME NEW done, NEW s \in Stages, NEW a, IsStage(s, a), NEW e
    PROVE  Keeps(done, s, a, RunningResetTasks(a, e))
<1> DEFINE hit == TasksOn(a, e, {"running", "success"})
           pending == SlicesOf(a, hit) \o a.pending
           b == RunningResetTasks(a, e)
<1>0. /\ a \in StageType(s)
      /\ a.fails \in [PartitionIds(s) -> Nat] /\ a.pending \in Seq(PartitionIds(s))
  BY DEF IsStage, StageType
<1>1. pending \in Seq(PartitionIds(s))
  <2>1. SlicesOf(a, hit) \in Seq(PartitionIds(s))
    BY SlicesType
  <2> QED BY <2>1, <1>0
<1> DEFINE k == "lost"
<1>2. k \in TaskStates /\ k # "success"
  BY DEF TaskStates, Reported
<1>4. b = Entered(a, hit, k, pending, a.fails)
  <2>1. MarkLost(a, hit) = [a EXCEPT !.tasks = Marked(a.tasks, hit, "lost")]
    BY DEF MarkLost, Marked
  <2>2. b = [MarkLost(a, hit) EXCEPT !.pending = SlicesOf(a, hit) \o @]
    BY DEF RunningResetTasks, Reschedule
  <2> HIDE DEF b, hit
  <2> QED BY <2>1, <2>2, <1>0, Zenon DEF StageType, Entered
<1> HIDE DEF k, b, hit, pending
<1>5. Backed(done, s, a, hit, k)
  BY <1>2 DEF Backed
<1>6. Keeps(done, s, a, b)
  BY <1>5, <1>0, <1>1, <1>2, <1>4, EnteredStage
<1> QED BY <1>6 DEF b

-----------------------------------------------------------------------------
(* Methods that change the state of a stage. *)

\* A stage that has not started is given another state and an empty task list,
\* or none of its own.
LEMMA UnstartedStage ==
    ASSUME NEW done, NEW s \in Stages, NEW a, IsStage(s, a), a.state \in Unstarted,
           NEW b \in StageType(s), b.attempt = a.attempt, b.inputs = a.inputs,
           b.tasks = a.tasks \/ b.tasks = <<>>
    PROVE  Moves(done, s, a, b)
<1>1. a.attempt \in Nat
  BY DEF IsStage, StageType
<1>2. IsStage(s, b)
  BY DEF IsStage
<1>3. Follows(done, s, a, b)
  BY <1>1 DEF Follows, Unstarted
<1> QED BY <1>2, <1>3 DEF Moves

\* UnresolvedStage::to_resolved starts no attempt.
LEMMA ToResolvedStage ==
    ASSUME NEW done, NEW s \in Stages, NEW a, IsStage(s, a), a.state \in Unstarted
    PROVE  Moves(done, s, a, ToResolved(a))
<1> DEFINE b == ToResolved(a)
<1>1. /\ b \in StageType(s) /\ b.attempt = a.attempt /\ b.inputs = a.inputs
      /\ b.tasks = a.tasks
  BY Zenon DEF ToResolved, IsStage, StageType, StageStates
<1> HIDE DEF b
<1> QED BY <1>1, UnstartedStage DEF b

\* ResolvedStage::to_unresolved keeps the attempt of a stage that never ran.
LEMMA ResolvedToUnresolvedStage ==
    ASSUME NEW done, NEW s \in Stages, NEW a, IsStage(s, a), a.state \in Unstarted
    PROVE  Moves(done, s, a, ResolvedToUnresolved(a))
<1> DEFINE b == ResolvedToUnresolved(a)
<1>1. /\ b \in StageType(s) /\ b.attempt = a.attempt /\ b.inputs = a.inputs
      /\ b.tasks = a.tasks
  BY Zenon DEF ResolvedToUnresolved, IsStage, StageType, StageStates
<1> HIDE DEF b
<1> QED BY <1>1, UnstartedStage DEF b

\* ResolvedStage::to_running starts with no slot and every partition pending.
LEMMA ResolvedToRunningStage ==
    ASSUME NEW done, NEW s \in Stages, NEW a, IsStage(s, a), a.state \in Unstarted
    PROVE  Moves(done, s, a, ResolvedToRunning(a, s))
<1> DEFINE b == ResolvedToRunning(a, s)
           fails == [p \in PartitionIds(s) |-> 0]
<1>1. /\ a \in StageType(s)
      /\ NewPending(s) \in Seq(PartitionIds(s))
      /\ fails \in [PartitionIds(s) -> Nat]
  <2>1. Partitions[s] \in Nat
    BY StageAssumption
  <2> QED BY <2>1 DEF IsStage, NewPending, PartitionIds
<1>2. b = [state |-> "Running", attempt |-> a.attempt, pending |-> NewPending(s),
           tasks |-> <<>>, fails |-> fails, inputs |-> a.inputs, reasons |-> {}]
  <2> HIDE DEF fails
  <2>1. b = [a EXCEPT !.state = "Running", !.pending = NewPending(s), !.tasks = <<>>,
                      !.fails = fails, !.reasons = {}]
    BY DEF ResolvedToRunning, fails
  <2> HIDE DEF b
  <2> QED BY <1>1, <2>1, Zenon DEF StageType
<1> HIDE DEF b, fails
<1>3. /\ b \in StageType(s) /\ b.attempt = a.attempt /\ b.inputs = a.inputs
      /\ b.tasks = <<>>
  BY <1>1, <1>2 DEF StageType, StageStates
<1> QED BY <1>3, UnstartedStage DEF b

\* A running stage ends; ToFailed also kills its running tasks.
LEMMA ToSuccessfulStage ==
    ASSUME NEW done, NEW s \in Stages, NEW a, IsStage(s, a)
    PROVE  Moves(done, s, a, ToSuccessful(a))
<1> DEFINE b == ToSuccessful(a)
<1>1. /\ b \in StageType(s) /\ b.attempt = a.attempt /\ b.inputs = a.inputs
      /\ b.tasks = a.tasks /\ b.state = "Successful"
  BY Zenon DEF ToSuccessful, IsStage, StageType, StageStates
<1> HIDE DEF b
<1>2. "Successful" \notin Unstarted
  BY DEF Unstarted
<1> QED BY <1>1, <1>2, TasksStage DEF b, Moves

\* RunningStage::to_failed marks the running infos killed and finishes none.
LEMMA ToFailedStage ==
    ASSUME NEW done, NEW s \in Stages, NEW a, IsStage(s, a), a.state = "Running"
    PROVE  Moves(done, s, a, ToFailed(a))
<1> DEFINE b == ToFailed(a)
           ids == {t \in DOMAIN a.tasks : a.tasks[t].st = "running"}
           p == Marked(a.tasks, ids, "killed")
<1>0. a \in StageType(s) /\ a.tasks \in Seq(TaskType(s))
  BY DEF IsStage, StageType, TaskType
<1>1. PICK k \in TaskStates : k = "killed"
  BY DEF TaskStates, Reported
<1>2. /\ p \in Seq(TaskType(s)) /\ DOMAIN p = DOMAIN a.tasks
      /\ \A t \in DOMAIN a.tasks :
           /\ p[t].exec = a.tasks[t].exec /\ p[t].attempt = a.tasks[t].attempt
           /\ p[t].st = IF t \in ids THEN k ELSE a.tasks[t].st
  <2> HIDE DEF ids
  <2> QED BY <1>0, <1>1, MarkedType
<1>3. b = [a EXCEPT !.state = "Failed", !.tasks = p]
  BY Zenon DEF ToFailed, Marked
<1> HIDE DEF b, p, ids
<1>4. /\ b \in StageType(s)
      /\ b.tasks = p /\ b.attempt = a.attempt /\ b.inputs = a.inputs /\ b.state = "Failed"
  BY <1>0, <1>2, <1>3, Zenon DEF StageType, TaskType, StageStates
<1>5. /\ "Failed" \notin Unstarted /\ a.state # "Successful"
      /\ \A t \in DOMAIN a.tasks : p[t].st = "success" => a.tasks[t].st = "success"
  BY <1>1, <1>2 DEF Unstarted
<1> QED BY <1>2, <1>4, <1>5, TasksStage, Zenon DEF b, Moves

\* A new attempt: the tasks are forgotten or stay with their attempt numbers.
LEMMA NewAttemptStage ==
    ASSUME NEW done, NEW s \in Stages, NEW a, IsStage(s, a),
           NEW b \in StageType(s), b.attempt = a.attempt + 1, b.inputs = a.inputs,
           b.tasks = a.tasks \/ b.tasks = <<>>
    PROVE  Moves(done, s, a, b)
<1>1. a.attempt \in Nat /\ \A t \in DOMAIN a.tasks : a.tasks[t].attempt \in Nat
  <2>1. a.tasks \in Seq(TaskType(s)) /\ a.attempt \in Nat
    BY DEF IsStage, StageType, TaskType
  <2>2. \A t \in DOMAIN a.tasks : a.tasks[t] \in TaskType(s)
    BY <2>1
  <2> QED BY <2>1, <2>2 DEF TaskType
<1>2. IsStage(s, b)
  BY <1>1 DEF IsStage
<1>3. Follows(done, s, a, b)
  BY <1>1 DEF Follows
<1> QED BY <1>2, <1>3 DEF Moves

\* RunningStage::to_unresolved takes the next attempt number, so no info has to survive it.
LEMMA RunningToUnresolvedStage ==
    ASSUME NEW done, NEW s \in Stages, NEW a, IsStage(s, a), NEW reasons \in SUBSET Executors
    PROVE  Moves(done, s, a, RunningToUnresolved(a, reasons))
<1> DEFINE b == RunningToUnresolved(a, reasons)
<1>1. a \in StageType(s) /\ a.attempt + 1 \in Nat
  BY DEF IsStage, StageType
<1>2. b = [state |-> "UnResolved", attempt |-> a.attempt + 1, pending |-> <<>>,
           tasks |-> <<>>, fails |-> a.fails, inputs |-> a.inputs, reasons |-> reasons]
  <2>1. b = [a EXCEPT !.state = "UnResolved", !.attempt = a.attempt + 1,
                      !.pending = <<>>, !.tasks = <<>>, !.reasons = reasons]
    BY DEF RunningToUnresolved
  <2> HIDE DEF b
  <2> QED BY <1>1, <2>1, Zenon DEF StageType
<1> HIDE DEF b
<1>3. /\ b \in StageType(s) /\ b.attempt = a.attempt + 1 /\ b.inputs = a.inputs
      /\ b.tasks = <<>>
  BY <1>1, <1>2 DEF StageType, StageStates
<1> QED BY <1>3, NewAttemptStage DEF b

\* The partitions to run again are partitions of the stage.
LEMMA RedoType ==
    ASSUME NEW s \in Stages, NEW a PROVE Redo(a, s) \in Seq(PartitionIds(s))
<1> DEFINE ss == [p \in PartitionIds(s) |->
               IF a.tasks[LatestTask(a, p)].st = "success" THEN <<>> ELSE <<p>>]
<1>1. \A p \in PartitionIds(s) : ss[p] \in Seq(PartitionIds(s))
  OBVIOUS
<1>2. Partitions[s] \in Nat
  BY StageAssumption
<1>3. ss \in [1 .. Partitions[s] -> Seq(PartitionIds(s))]
  BY <1>1, Zenon DEF PartitionIds
<1> HIDE DEF ss
<1>4. ss \in Seq(Seq(PartitionIds(s)))
  <2> DEFINE n == Partitions[s]
             T == Seq(PartitionIds(s))
  <2>1. n \in Nat /\ ss \in [1 .. n -> T]
    BY <1>2, <1>3
  <2> HIDE DEF n, T
  <2>2. ss \in Seq(T)
    BY <2>1
  <2> QED BY <2>2 DEF T
<1>5. FlattenSeq(ss) \in Seq(PartitionIds(s))
  BY <1>4, FlattenSeqType
<1> QED BY <1>5 DEF Redo, ss

\* SuccessfulStage::to_running takes the next attempt number and keeps the infos.
LEMMA SuccessfulToRunningStage ==
    ASSUME NEW done, NEW s \in Stages, NEW a, IsStage(s, a)
    PROVE  Moves(done, s, a, SuccessfulToRunning(a, s))
<1> DEFINE b == SuccessfulToRunning(a, s)
           fails == [p \in PartitionIds(s) |-> 0]
<1>1. /\ a \in StageType(s) /\ a.attempt + 1 \in Nat
      /\ Redo(a, s) \in Seq(PartitionIds(s))
      /\ fails \in [PartitionIds(s) -> Nat]
  BY RedoType DEF IsStage, StageType
<1>2. b = [state |-> "Running", attempt |-> a.attempt + 1, pending |-> Redo(a, s),
           tasks |-> a.tasks, fails |-> fails, inputs |-> a.inputs, reasons |-> {}]
  <2> HIDE DEF fails
  <2>1. b = [a EXCEPT !.state = "Running", !.attempt = a.attempt + 1,
                      !.pending = Redo(a, s), !.fails = fails, !.reasons = {}]
    BY DEF SuccessfulToRunning, fails
  <2> HIDE DEF b
  <2> QED BY <1>1, <2>1, Zenon DEF StageType
<1> HIDE DEF b, fails
<1>3. /\ b \in StageType(s) /\ b.attempt = a.attempt + 1 /\ b.inputs = a.inputs
      /\ b.tasks = a.tasks
  BY <1>1, <1>2 DEF StageType, StageStates
<1> QED BY <1>3, NewAttemptStage DEF b

\* A change of the failure reasons alone.
LEMMA ReasonsStage ==
    ASSUME NEW done, NEW s \in Stages, NEW a, IsStage(s, a), NEW reasons \in SUBSET Executors
    PROVE  Keeps(done, s, a, [a EXCEPT !.reasons = reasons])
<1> DEFINE b == [a EXCEPT !.reasons = reasons]
<1>1. /\ b \in StageType(s) /\ b.state = a.state /\ b.attempt = a.attempt
      /\ b.inputs = a.inputs /\ b.tasks = a.tasks
  BY Zenon DEF IsStage, StageType
<1> HIDE DEF b
<1>2. IsStage(s, b) /\ Follows(done, s, a, b)
  BY <1>1, TasksStage
<1> QED BY <1>1, <1>2 DEF b, Keeps, Moves

\* bind_one: a task is added to a running stage.
LEMMA BindSliceStage ==
    ASSUME NEW done, NEW s \in Stages, NEW a, IsStage(s, a),
           NEW e \in Executors, NEW n \in 1 .. Len(a.pending)
    PROVE  LET b == BindSlice(a, e, n)
           IN  /\ Keeps(done, s, a, b)
               /\ b.attempt = a.attempt
               /\ Len(a.tasks) + 1 \in DOMAIN b.tasks
               /\ b.tasks[Len(a.tasks) + 1].exec = e
               /\ b.tasks[Len(a.tasks) + 1].attempt = a.attempt
               /\ b.tasks[Len(a.tasks) + 1].st = "running"
<1> DEFINE k == Len(a.tasks) + 1
           task == [parts |-> SubSeq(a.pending, 1, n), exec |-> e, st |-> "running",
                    attempt |-> a.attempt]
           rest == SubSeq(a.pending, n + 1, Len(a.pending))
           p == Append(a.tasks, task)
           b == BindSlice(a, e, n)
<1>0. /\ a \in StageType(s) /\ a.tasks \in Seq(TaskType(s))
      /\ a.pending \in Seq(PartitionIds(s)) /\ a.attempt \in Nat
  BY DEF IsStage, StageType, TaskType
<1>1. n \in Nat /\ Len(a.pending) \in Nat /\ n >= 1 /\ n <= Len(a.pending)
  BY <1>0
<1>2. SubSeq(a.pending, 1, n) \in Seq(PartitionIds(s)) /\ SubSeq(a.pending, 1, n) # <<>>
  <2>1. Len(SubSeq(a.pending, 1, n)) = n
    BY <1>0, <1>1
  <2>2. SubSeq(a.pending, 1, n) \in Seq(PartitionIds(s))
    BY <1>0, <1>1
  <2> QED BY <2>1, <2>2, <1>1
<1>3. rest \in Seq(PartitionIds(s))
  BY <1>0, <1>1
<1>4. task \in TaskType(s)
  BY <1>0, <1>2, Zenon DEF TaskType, TaskStates
<1>5. b = [a EXCEPT !.pending = rest, !.tasks = p]
  BY DEF BindSlice
<1>6. task.exec = e /\ task.st = "running" /\ task.attempt = a.attempt
  OBVIOUS
<1> HIDE DEF task, rest, b
<1>7. /\ p \in Seq(TaskType(s)) /\ Len(a.tasks) \in Nat
      /\ DOMAIN a.tasks = 1 .. Len(a.tasks) /\ DOMAIN p = 1 .. k
      /\ \A t \in DOMAIN a.tasks : p[t] = a.tasks[t]
      /\ p[k] = task
  BY <1>0, <1>4
<1> HIDE DEF p
<1>8. /\ b \in StageType(s) /\ b.state = a.state /\ b.attempt = a.attempt
      /\ b.inputs = a.inputs /\ b.tasks = p
  BY <1>0, <1>3, <1>5, <1>7, Zenon DEF StageType, TaskType
<1>9. /\ k \in DOMAIN p /\ DOMAIN a.tasks \subseteq DOMAIN p
      /\ \A t \in DOMAIN p : t \in DOMAIN a.tasks \/ t = k
  BY <1>7
<1>10. IsStage(s, b)
  BY <1>0, <1>6, <1>7, <1>8, <1>9, SMTT(20) DEF IsStage
<1>11. Follows(done, s, a, b)
  BY <1>0, <1>6, <1>7, <1>8, <1>9 DEF Follows
<1> QED BY <1>6, <1>7, <1>8, <1>9, <1>10, <1>11, SMTT(20) DEF b, Keeps, Moves

-----------------------------------------------------------------------------
(* The tasks on the executors. *)

\* The graph keeps track of the tasks on the executors.
LEMMA FollowsTracks ==
    ASSUME NEW done, NEW s \in Stages, NEW a, NEW b, NEW r, r.attempt \in Nat,
           IsStage(s, a), IsStage(s, b), Follows(done, s, a, b), Tracks(a, r)
    PROVE  Tracks(b, r)
<1>1. a.attempt \in Nat /\ b.attempt \in Nat
  BY DEF IsStage, StageType
<1>2. CASE a.attempt = b.attempt
  BY <1>1, <1>2 DEF Follows, Tracks, Unstarted
<1>3. CASE a.attempt # b.attempt
  BY <1>1, <1>3 DEF Follows, Tracks
<1> QED BY <1>2, <1>3

-----------------------------------------------------------------------------
(* How a handler may change a graph. *)

\* h is g as a handler that was given the reports in done may leave it, ...
Goes(done, g, h) ==
    /\ IsGraph(h)
    /\ \A s \in Stages : Moves(done, s, g.stages[s], h.stages[s])

\* ... or as a loop of a handler may, which changes the state of no stage.
Stays(done, g, h) ==
    /\ IsGraph(h)
    /\ \A s \in Stages : Keeps(done, s, g.stages[s], h.stages[s])

-----------------------------------------------------------------------------
(* What the loops of the handlers keep.  The context c holds the graph the *)
(* handler starts from, the reports it was given and the stage at hand.    *)

AccFields ==
    {"g", "current", "attempts", "locs", "resolved", "successful", "failed",
     "rollback", "resubmit", "reset", "err"}

Missing == [stage : Stages, ids : SUBSET Nat]

AccOK(c, acc) ==
    /\ DOMAIN acc = AccFields
    /\ Stays(c.done, c.g, acc.g)
    /\ acc.attempts \in [Stages -> SUBSET Nat]
    /\ acc.locs \subseteq {l \in Locations : l.parts \subseteq PartitionIds(c.stage)}
    /\ acc.resolved \subseteq Stages
    /\ acc.successful \subseteq StagesIn(c.g, "Running")
    /\ acc.rollback \in [Stages -> SUBSET Executors]
    /\ acc.resubmit \subseteq Missing
    /\ acc.reset \subseteq Missing

\* Between two groups no location waits to be published.
GroupOK(c, acc) == AccOK(c, acc) /\ acc.locs = {}

\* The passes of reset_stages_on_lost_executor.
LossOK(c, acc) ==
    /\ DOMAIN acc = {"g", "cancels"}
    /\ Goes({}, c, acc.g)
    /\ acc.cancels \subseteq TaskKeyType

-----------------------------------------------------------------------------
(* Changes of a graph. *)

\* Two changes of a stage make one:
LEMMA MovesTrans ==
    ASSUME NEW done, NEW s \in Stages, NEW a, IsStage(s, a), NEW b, NEW d,
           Moves(done, s, a, b), Moves(done, s, b, d)
    PROVE  Moves(done, s, a, d)
BY FollowsTrans DEF Moves

\* ... two that leave the state of the stage alone,
LEMMA KeepsTrans ==
    ASSUME NEW done, NEW s \in Stages, NEW a, IsStage(s, a), NEW b, NEW d,
           Keeps(done, s, a, b), Keeps(done, s, b, d)
    PROVE  Keeps(done, s, a, d)
BY MovesTrans DEF Keeps

\* ... two steps of the graph,
LEMMA GoesTrans ==
    ASSUME NEW done, NEW g, IsGraph(g), NEW h, NEW i, Goes(done, g, h), Goes(done, h, i)
    PROVE  Goes(done, g, i)
<1> SUFFICES ASSUME NEW s \in Stages PROVE Moves(done, s, g.stages[s], i.stages[s])
  BY DEF Goes
<1>1. IsStage(s, g.stages[s])
  BY DEF IsGraph
<1>2. Moves(done, s, g.stages[s], h.stages[s]) /\ Moves(done, s, h.stages[s], i.stages[s])
  BY DEF Goes
<1> QED BY <1>1, <1>2, MovesTrans

\* ... and two steps of a loop.
LEMMA StaysTrans ==
    ASSUME NEW done, NEW g, IsGraph(g), NEW h, NEW i, Stays(done, g, h), Stays(done, h, i)
    PROVE  Stays(done, g, i)
<1> SUFFICES ASSUME NEW s \in Stages PROVE Keeps(done, s, g.stages[s], i.stages[s])
  BY DEF Stays
<1>1. IsStage(s, g.stages[s])
  BY DEF IsGraph
<1>2. Keeps(done, s, g.stages[s], h.stages[s]) /\ Keeps(done, s, h.stages[s], i.stages[s])
  BY DEF Stays
<1> QED BY <1>1, <1>2, KeepsTrans

\* A graph goes to itself, and where it stays.
LEMMA GoesRefl ==
    ASSUME NEW done, NEW g, IsGraph(g)
    PROVE  Stays(done, g, g)
<1> SUFFICES ASSUME NEW s \in Stages PROVE Keeps(done, s, g.stages[s], g.stages[s])
  BY DEF Stays
<1>1. IsStage(s, g.stages[s])
  BY DEF IsGraph
<1> QED BY <1>1, FollowsRefl DEF Keeps, Moves

\* A loop step is a step.
LEMMA StaysGoes ==
    ASSUME NEW done, NEW g, NEW h, Stays(done, g, h)
    PROVE  Goes(done, g, h)
BY DEF Stays, Goes, Keeps

\* New stages for a graph.
LEMMA StagesGraph ==
    ASSUME NEW g, IsGraph(g), NEW F, F = [s \in Stages |-> F[s]],
           \A s \in Stages : IsStage(s, F[s])
    PROVE  LET h == [g EXCEPT !.stages = F]
           IN  /\ IsGraph(h) /\ h.stages = F /\ h.status = g.status
               /\ h.failed_attempts = g.failed_attempts /\ h.output = g.output
<1> DEFINE h == [g EXCEPT !.stages = F]
<1>1. /\ DOMAIN h = DOMAIN g /\ h.stages = F /\ h.status = g.status
      /\ h.failed_attempts = g.failed_attempts /\ h.output = g.output
  BY DEF IsGraph
<1> HIDE DEF h
<1>2. IsGraph(h)
  BY <1>1 DEF IsGraph
<1> QED BY <1>1, <1>2 DEF h

\* A new stage for a graph.
LEMMA SetStageGraph ==
    ASSUME NEW done, NEW g, IsGraph(g), NEW s \in Stages, NEW b,
           Keeps(done, s, g.stages[s], b)
    PROVE  LET h == SetStage(g, s, b)
           IN  /\ Stays(done, g, h) /\ h.stages[s] = b /\ h.status = g.status
               /\ h.failed_attempts = g.failed_attempts /\ h.output = g.output
<1> DEFINE F == [g.stages EXCEPT ![s] = b]
           h == [g EXCEPT !.stages = F]
<1>1. SetStage(g, s, b) = h
  BY DEF SetStage, IsGraph
<1>2. /\ F = [x \in Stages |-> IF x = s THEN b ELSE g.stages[x]]
      /\ F = [x \in Stages |-> F[x]]
  BY DEF IsGraph
<1> HIDE DEF F
<1>3. \A x \in Stages : Keeps(done, x, g.stages[x], F[x])
  BY <1>2, GoesRefl, Zenon DEF Stays
<1>4. \A x \in Stages : IsStage(x, F[x])
  BY <1>3 DEF Keeps, Moves
<1>5. /\ IsGraph(h) /\ h.stages = F /\ h.status = g.status
      /\ h.failed_attempts = g.failed_attempts /\ h.output = g.output
  BY <1>2, <1>4, StagesGraph
<1> HIDE DEF h
<1> QED BY <1>1, <1>2, <1>3, <1>5 DEF Stays

\* New stages for a graph, each a change of the one before.
LEMMA GoStages ==
    ASSUME NEW done, NEW g, IsGraph(g), NEW F, F = [s \in Stages |-> F[s]],
           \A s \in Stages : Moves(done, s, g.stages[s], F[s])
    PROVE  LET h == [g EXCEPT !.stages = F] IN Goes(done, g, h) /\ h.stages = F
<1> DEFINE h == [g EXCEPT !.stages = F]
<1>1. \A s \in Stages : IsStage(s, F[s])
  BY DEF Moves
<1>2. IsGraph(h) /\ h.stages = F
  BY <1>1, StagesGraph
<1> HIDE DEF h
<1>3. Goes(done, g, h)
  BY <1>2 DEF Goes
<1> QED BY <1>2, <1>3 DEF h

\* ... and of one that leaves the states alone.
LEMMA StayStages ==
    ASSUME NEW done, NEW g, IsGraph(g), NEW F, F = [s \in Stages |-> F[s]],
           \A s \in Stages : Keeps(done, s, g.stages[s], F[s])
    PROVE  LET h == [g EXCEPT !.stages = F] IN Stays(done, g, h) /\ h.stages = F
<1> DEFINE h == [g EXCEPT !.stages = F]
<1>1. \A s \in Stages : IsStage(s, F[s])
  BY DEF Moves, Keeps
<1>2. IsGraph(h) /\ h.stages = F
  BY <1>1, StagesGraph
<1> HIDE DEF h
<1>3. Stays(done, g, h)
  BY <1>2 DEF Stays
<1> QED BY <1>2, <1>3 DEF h

\* A change of the graph beside its stages.
LEMMA BesideStages ==
    ASSUME NEW done, NEW g, IsGraph(g), NEW h, DOMAIN h = DOMAIN g, h.stages = g.stages,
           h.status \in {"Running", "Failed", "Successful"},
           h.failed_attempts \in [Stages -> SUBSET Nat], h.output \subseteq Locations
    PROVE  Stays(done, g, h)
<1>1. IsGraph(h)
  BY DEF IsGraph
<1>2. Stays(done, g, g)
  BY GoesRefl
<1> QED BY <1>1, <1>2 DEF Stays

\* A handler that sets the status of the job touches no stage,
LEMMA StatusGraph ==
    ASSUME NEW done, NEW g, IsGraph(g), NEW status \in {"Running", "Failed", "Successful"}
    PROVE  LET h == [g EXCEPT !.status = status]
           IN  Stays(done, g, h) /\ h.stages = g.stages
<1> DEFINE h == [g EXCEPT !.status = status]
<1>1. /\ DOMAIN h = DOMAIN g /\ h.stages = g.stages /\ h.status = status
      /\ h.failed_attempts \in [Stages -> SUBSET Nat] /\ h.output \subseteq Locations
  BY DEF IsGraph
<1> HIDE DEF h
<1>2. Stays(done, g, h)
  BY <1>1, BesideStages
<1> QED BY <1>1, <1>2 DEF h

\* ... nor does one that records a failed attempt,
LEMMA AttemptsGraph ==
    ASSUME NEW done, NEW g, IsGraph(g), NEW attempts \in [Stages -> SUBSET Nat]
    PROVE  LET h == [g EXCEPT !.failed_attempts = attempts]
           IN  Stays(done, g, h) /\ h.stages = g.stages
<1> DEFINE h == [g EXCEPT !.failed_attempts = attempts]
<1>1. /\ DOMAIN h = DOMAIN g /\ h.stages = g.stages /\ h.failed_attempts = attempts
      /\ h.status \in {"Running", "Failed", "Successful"} /\ h.output \subseteq Locations
  BY DEF IsGraph
<1> HIDE DEF h
<1>2. Stays(done, g, h)
  BY <1>1, BesideStages
<1> QED BY <1>1, <1>2 DEF h

\* ... nor one that sets the output locations.
LEMMA OutputGraph ==
    ASSUME NEW done, NEW g, IsGraph(g), NEW output \in SUBSET Locations
    PROVE  LET h == [g EXCEPT !.output = output]
           IN  Stays(done, g, h) /\ h.stages = g.stages
<1> DEFINE h == [g EXCEPT !.output = output]
<1>1. /\ DOMAIN h = DOMAIN g /\ h.stages = g.stages /\ h.output = output
      /\ h.status \in {"Running", "Failed", "Successful"}
      /\ h.failed_attempts \in [Stages -> SUBSET Nat]
  BY DEF IsGraph
<1> HIDE DEF h
<1>2. Stays(done, g, h)
  BY <1>1, BesideStages
<1> QED BY <1>1, <1>2 DEF h

-----------------------------------------------------------------------------
(* The transitions of stages. *)

\* The Resolved stages of a graph start to run.
LEMMA ReviveGraph ==
    ASSUME NEW done, NEW g, IsGraph(g)
    PROVE  Goes(done, g, Revive(g))
<1> DEFINE F == [s \in Stages |-> IF s \in StagesIn(g, "Resolved")
                                  THEN ResolvedToRunning(g.stages[s], s) ELSE g.stages[s]]
<1>1. Revive(g) = [g EXCEPT !.stages = F]
  BY DEF Revive, Each
<1>2. ASSUME NEW s \in Stages PROVE Moves(done, s, g.stages[s], F[s])
  <2>1. IsStage(s, g.stages[s])
    BY DEF IsGraph
  <2>2. CASE s \in StagesIn(g, "Resolved")
    <3>1. g.stages[s].state \in Unstarted
      BY <2>2 DEF StagesIn, Unstarted
    <3> QED BY <2>1, <2>2, <3>1, ResolvedToRunningStage
  <2>3. CASE s \notin StagesIn(g, "Resolved")
    BY <2>1, <2>3, FollowsRefl DEF Moves
  <2> QED BY <2>2, <2>3
<1>3. F = [s \in Stages |-> F[s]]
  OBVIOUS
<1> HIDE DEF F
<1> QED BY <1>1, <1>2, <1>3, GoStages

\* A stage that a transition found in another state than it expects.
LEMMA RemovedStage ==
    ASSUME NEW done, NEW s \in Stages, NEW a, IsStage(s, a), a.state # "Successful"
    PROVE  Moves(done, s, a, Removed(a))
<1> DEFINE b == Removed(a)
<1>1. /\ b \in StageType(s) /\ b.attempt = a.attempt /\ b.inputs = a.inputs
      /\ b.tasks = a.tasks /\ b.state = "Removed"
  BY Zenon DEF Removed, IsStage, StageType, StageStates
<1> HIDE DEF b
<1>2. "Removed" \notin Unstarted
  BY DEF Unstarted
<1>3. a.attempt \in Nat /\ IsStage(s, b)
  BY <1>1 DEF IsStage, StageType
<1>4. Follows(done, s, a, b)
  BY <1>1, <1>2, <1>3 DEF Follows
<1> QED BY <1>3, <1>4 DEF b, Moves

\* Resubmitting marks tasks of the stages that are Successful, ...
LEMMA MarkResubmittedGraph ==
    ASSUME NEW done, NEW g, IsGraph(g), NEW missing
    PROVE  Stays(done, g, MarkResubmitted(g, missing))
<1> DEFINE S == StagesOf(missing) \intersect StagesIn(g, "Successful")
           F == [s \in Stages |-> IF s \in S
                   THEN MarkLost(g.stages[s], ValidIds(g.stages[s], TaskIdsOf(missing, s)))
                   ELSE g.stages[s]]
<1>1. MarkResubmitted(g, missing) = [g EXCEPT !.stages = F]
  BY DEF MarkResubmitted, Each
<1>2. ASSUME NEW s \in Stages PROVE Keeps(done, s, g.stages[s], F[s])
  <2>1. IsStage(s, g.stages[s]) /\ Keeps(done, s, g.stages[s], g.stages[s])
    BY GoesRefl, Zenon DEF IsGraph, Stays
  <2>2. CASE s \in S
    BY <2>1, <2>2, MarkLostStage
  <2> QED BY <2>1, <2>2
<1>3. F = [s \in Stages |-> F[s]]
  OBVIOUS
<1> HIDE DEF F
<1> QED BY <1>1, <1>2, <1>3, StayStages

\* ... resetting those of the stages that run.
LEMMA ResetRunningGraph ==
    ASSUME NEW done, NEW g, IsGraph(g), NEW missing
    PROVE  Stays(done, g, ResetRunning(g, missing))
<1> DEFINE S == StagesOf(missing) \intersect StagesIn(g, "Running")
           F == [s \in Stages |-> IF s \in S
                   THEN ResetTaskInfos(g.stages[s], ValidIds(g.stages[s], TaskIdsOf(missing, s)))
                   ELSE g.stages[s]]
<1>1. ResetRunning(g, missing) = [g EXCEPT !.stages = F]
  BY DEF ResetRunning, Each
<1>2. ASSUME NEW s \in Stages PROVE Keeps(done, s, g.stages[s], F[s])
  <2>1. IsStage(s, g.stages[s]) /\ Keeps(done, s, g.stages[s], g.stages[s])
    BY GoesRefl, Zenon DEF IsGraph, Stays
  <2>2. CASE s \in S
    BY <2>1, <2>2, ResetTaskInfosStage
  <2> QED BY <2>1, <2>2
<1>3. F = [s \in Stages |-> F[s]]
  OBVIOUS
<1> HIDE DEF F
<1> QED BY <1>1, <1>2, <1>3, StayStages

\* Tasks to cancel are named by stage, task and executor.
LEMMA TaskKeysType ==
    ASSUME NEW g, IsGraph(g), NEW S \in SUBSET Stages
    PROVE  TaskKeys(g, S) \subseteq TaskKeyType
<1> SUFFICES ASSUME NEW s \in S, NEW t \in RunningTasks(g.stages[s])
             PROVE  /\ t \in Nat \ {0}
                    /\ g.stages[s].tasks[t].exec \in Executors
  BY DEF TaskKeys, TaskKeyType
<1>1. g.stages[s].tasks \in Seq(TaskType(s)) /\ t \in DOMAIN g.stages[s].tasks
  BY DEF IsGraph, IsStage, StageType, TaskType, RunningTasks
<1>2. g.stages[s].tasks[t] \in TaskType(s) /\ t \in Nat \ {0}
  BY <1>1
<1> QED BY <1>2 DEF TaskType

-----------------------------------------------------------------------------
(* processing_stages_update *)

\* The stages whose inputs are complete are resolved; a stage that runs is not
\* among them.
LEMMA ResolvedGraph ==
    ASSUME NEW done, NEW g, IsGraph(g), NEW S
    PROVE  LET h == Each(g, S, ResolveStage)
           IN  /\ Goes(done, g, h)
               /\ \A s \in Stages : g.stages[s].state = "Running" =>
                                       h.stages[s].state = "Running"
<1> DEFINE h == Each(g, S, ResolveStage)
           F == [s \in Stages |-> IF s \in S THEN ResolveStage(g.stages[s], s)
                                  ELSE g.stages[s]]
<1>1. h = [g EXCEPT !.stages = F]
  BY DEF Each
<1>2. ASSUME NEW s \in Stages PROVE Moves(done, s, g.stages[s], F[s])
  <2>1. IsStage(s, g.stages[s])
    BY DEF IsGraph
  <2>2. CASE s \in S /\ g.stages[s].state = "UnResolved"
    <3>1. g.stages[s].state \in Unstarted
      BY <2>2 DEF Unstarted
    <3> QED BY <2>1, <2>2, <3>1, ToResolvedStage DEF ResolveStage
  <2>3. CASE ~(s \in S /\ g.stages[s].state = "UnResolved")
    BY <2>1, <2>3, FollowsRefl DEF Moves, ResolveStage
  <2> QED BY <2>2, <2>3
<1>3. F = [s \in Stages |-> F[s]]
  OBVIOUS
<1>4. \A s \in Stages : g.stages[s].state = "Running" => F[s].state = "Running"
  BY DEF ResolveStage
<1> HIDE DEF F, h
<1>5. Goes(done, g, h) /\ h.stages = F
  BY <1>1, <1>2, <1>3, GoStages
<1> QED BY <1>4, <1>5 DEF h

\* succeed_stage is called on stages that run.
LEMMA SucceededGraph ==
    ASSUME NEW done, NEW g, IsGraph(g), NEW S, S \subseteq StagesIn(g, "Running")
    PROVE  Goes(done, g, Each(g, S, SucceedStage))
<1> DEFINE F == [s \in Stages |-> IF s \in S THEN SucceedStage(g.stages[s], s)
                                  ELSE g.stages[s]]
<1>1. Each(g, S, SucceedStage) = [g EXCEPT !.stages = F]
  BY DEF Each
<1>2. ASSUME NEW s \in Stages PROVE Moves(done, s, g.stages[s], F[s])
  <2>1. IsStage(s, g.stages[s])
    BY DEF IsGraph
  <2>2. CASE s \in S
    BY <2>1, <2>2, ToSuccessfulStage DEF SucceedStage, StagesIn
  <2>3. CASE s \notin S
    BY <2>1, <2>3, FollowsRefl DEF Moves
  <2> QED BY <2>2, <2>3
<1>3. F = [s \in Stages |-> F[s]]
  OBVIOUS
<1> HIDE DEF F
<1> QED BY <1>1, <1>2, <1>3, GoStages

\* Stages are rolled back to a new attempt.
RolledBack(g, S, rollback) ==
    [g EXCEPT !.stages = [s \in Stages |->
        IF s \in S THEN RunningToUnresolved(g.stages[s], rollback[s]) ELSE g.stages[s]]]

\* rollback_running_stage on each stage of a set.
LEMMA RolledGraph ==
    ASSUME NEW done, NEW g, IsGraph(g), NEW S,
           NEW rollback \in [Stages -> SUBSET Executors]
    PROVE  Goes(done, g, RolledBack(g, S, rollback))
<1> DEFINE F == [s \in Stages |-> IF s \in S THEN RunningToUnresolved(g.stages[s], rollback[s])
                                  ELSE g.stages[s]]
<1>1. RolledBack(g, S, rollback) = [g EXCEPT !.stages = F]
  BY DEF RolledBack
<1>2. ASSUME NEW s \in Stages PROVE Moves(done, s, g.stages[s], F[s])
  <2>1. IsStage(s, g.stages[s]) /\ rollback[s] \in SUBSET Executors
    BY DEF IsGraph
  <2>2. CASE s \in S
    BY <2>1, <2>2, RunningToUnresolvedStage
  <2>3. CASE s \notin S
    BY <2>1, <2>3, FollowsRefl DEF Moves
  <2> QED BY <2>2, <2>3
<1>3. F = [s \in Stages |-> F[s]]
  OBVIOUS
<1> HIDE DEF F
<1> QED BY <1>1, <1>2, <1>3, GoStages

\* rerun_successful_stage starts a Successful stage again, with a new attempt.
LEMMA RerunGraph ==
    ASSUME NEW done, NEW g, IsGraph(g), NEW S
    PROVE  Goes(done, g, Each(g, S, RerunSuccessfulStage))
<1> DEFINE F == [s \in Stages |-> IF s \in S THEN RerunSuccessfulStage(g.stages[s], s)
                                  ELSE g.stages[s]]
<1>1. Each(g, S, RerunSuccessfulStage) = [g EXCEPT !.stages = F]
  BY DEF Each
<1>2. ASSUME NEW s \in Stages PROVE Moves(done, s, g.stages[s], F[s])
  <2>1. IsStage(s, g.stages[s])
    BY DEF IsGraph
  <2>2. CASE s \in S /\ g.stages[s].state = "Successful"
    BY <2>1, <2>2, SuccessfulToRunningStage DEF RerunSuccessfulStage
  <2>3. CASE s \in S /\ g.stages[s].state # "Successful"
    BY <2>1, <2>3, RemovedStage DEF RerunSuccessfulStage
  <2>4. CASE s \notin S
    BY <2>1, <2>4, FollowsRefl DEF Moves
  <2> QED BY <2>2, <2>3, <2>4
<1>3. F = [s \in Stages |-> F[s]]
  OBVIOUS
<1> HIDE DEF F
<1> QED BY <1>1, <1>2, <1>3, GoStages

\* Under the conditions its caller guarantees, processing_stages_update takes the
\* stages from one attempt to the next as the protocol allows.
LEMMA ProcessStagesUpdateGraph ==
    ASSUME NEW c, NEW acc, AccOK(c, acc), NEW g, IsGraph(g),
           \A s \in Stages : g.stages[s].state = c.g.stages[s].state
    PROVE  LET result == ProcessStagesUpdate(g, acc)
           IN  /\ Goes(c.done, g, result.g)
               /\ result.events \in Seq({"JobUpdated", "JobFinished", "JobRunningFailed"})
               /\ result.cancels \subseteq TaskKeyType
<1> DEFINE resolved  == Each(g, acc.resolved, ResolveStage)
           ended     == Each(resolved, acc.successful, SucceedStage)
           attempts  == [s \in Stages |->
                           IF s \in acc.successful /\ resolved.stages[s].state = "Running"
                           THEN {} ELSE ended.failed_attempts[s]]
           succeeded == [ended EXCEPT !.failed_attempts = attempts]
           back      == {s \in StagesIn(succeeded, "Running") : acc.rollback[s] # {}}
           rolled    == RolledBack(succeeded, back, acc.rollback)
           rerun     == Each(rolled, StagesOf(acc.resubmit), RerunSuccessfulStage)
           keys      == TaskKeys(succeeded, back)
           result    == ProcessStagesUpdate(g, acc)
<1>1. /\ Goes(c.done, g, resolved) /\ IsGraph(resolved)
      /\ \A s \in Stages : g.stages[s].state = "Running" => resolved.stages[s].state = "Running"
  <2> HIDE DEF resolved
  <2> QED BY ResolvedGraph, Zenon DEF resolved, Goes
<1>2. acc.successful \subseteq StagesIn(resolved, "Running")
  <2> HIDE DEF resolved
  <2> QED BY <1>1 DEF AccOK, StagesIn
<1>3. Goes(c.done, g, ended) /\ IsGraph(ended)
  <2>1. Goes(c.done, resolved, ended)
    <3> HIDE DEF resolved
    <3> QED BY <1>1, <1>2, SucceededGraph
  <2> HIDE DEF ended, resolved
  <2> QED BY <1>1, <2>1, GoesTrans, Zenon DEF Goes
<1>4. Goes(c.done, g, succeeded) /\ IsGraph(succeeded)
  <2> HIDE DEF ended, resolved
  <2>1. attempts \in [Stages -> SUBSET Nat]
    BY <1>3 DEF IsGraph
  <2> HIDE DEF attempts
  <2>2. Goes(c.done, ended, succeeded)
    BY <1>3, <2>1, AttemptsGraph, StaysGoes
  <2> HIDE DEF succeeded
  <2> QED BY <1>3, <2>2, GoesTrans DEF Goes
<1>5. back \subseteq Stages /\ keys \subseteq TaskKeyType
  <2>1. back \in SUBSET Stages
    BY DEF StagesIn
  <2> HIDE DEF back, succeeded
  <2> QED BY <1>4, <2>1, TaskKeysType
<1>6. Goes(c.done, g, rolled) /\ IsGraph(rolled)
  <2> HIDE DEF back, succeeded
  <2>1. acc.rollback \in [Stages -> SUBSET Executors]
    BY DEF AccOK
  <2>2. Goes(c.done, succeeded, rolled)
    BY <1>4, <2>1, RolledGraph, SMTT(30)
  <2> HIDE DEF rolled
  <2> QED BY <1>4, <2>2, GoesTrans DEF Goes
<1>7. Goes(c.done, g, rerun) /\ IsGraph(rerun)
  <2> HIDE DEF rolled
  <2>1. Goes(c.done, rolled, rerun)
    BY <1>6, RerunGraph
  <2> HIDE DEF rerun
  <2> QED BY <1>6, <2>1, GoesTrans DEF Goes
<1>8. \/ result = [g |-> [succeeded EXCEPT !.status = "Failed"],
                   events |-> <<"JobRunningFailed">>, cancels |-> {}]
      \/ result = [g |-> [rerun EXCEPT !.status = "Successful"],
                   events |-> <<"JobFinished">>, cancels |-> keys]
      \/ result = [g |-> rerun, events |-> <<>>, cancels |-> keys]
      \/ result = [g |-> rerun, events |-> <<"JobUpdated">>, cancels |-> keys]
  BY ZenonT(30) DEF ProcessStagesUpdate, RolledBack, Each
<1> HIDE DEF result, succeeded, rerun, keys
<1>9. ASSUME NEW h, IsGraph(h), Goes(c.done, g, h), NEW status \in {"Failed", "Successful"}
      PROVE  Goes(c.done, g, [h EXCEPT !.status = status])
  <2>1. Goes(c.done, h, [h EXCEPT !.status = status])
    BY <1>9, StatusGraph, StaysGoes, Zenon
  <2> QED BY <1>9, <2>1, GoesTrans
<1>10. /\ Goes(c.done, g, [succeeded EXCEPT !.status = "Failed"])
       /\ Goes(c.done, g, [rerun EXCEPT !.status = "Successful"])
  BY <1>4, <1>7, <1>9, Zenon
<1>11. /\ Goes(c.done, g, result.g)
       /\ result.events \in Seq({"JobUpdated", "JobFinished", "JobRunningFailed"})
       /\ result.cancels \subseteq TaskKeyType
  <2> DEFINE names == {"JobUpdated", "JobFinished", "JobRunningFailed"}
  <2>1. /\ <<>> \in Seq(names) /\ <<"JobUpdated">> \in Seq(names)
        /\ <<"JobFinished">> \in Seq(names) /\ <<"JobRunningFailed">> \in Seq(names)
    OBVIOUS
  <2> HIDE DEF names
  <2>2. /\ Goes(c.done, g, result.g) /\ result.events \in Seq(names)
        /\ result.cancels \subseteq TaskKeyType
    <3> DEFINE lost == [succeeded EXCEPT !.status = "Failed"]
               won == [rerun EXCEPT !.status = "Successful"]
    <3>1. Goes(c.done, g, lost) /\ Goes(c.done, g, won)
      BY <1>10
    <3>2. \/ result = [g |-> lost, events |-> <<"JobRunningFailed">>, cancels |-> {}]
          \/ result = [g |-> won, events |-> <<"JobFinished">>, cancels |-> keys]
          \/ result = [g |-> rerun, events |-> <<>>, cancels |-> keys]
          \/ result = [g |-> rerun, events |-> <<"JobUpdated">>, cancels |-> keys]
      BY <1>8
    <3> HIDE DEF lost, won
    <3>3. \E h, ev, ks : /\ result = [g |-> h, events |-> ev, cancels |-> ks]
                         /\ Goes(c.done, g, h) /\ ev \in Seq(names)
                         /\ ks \subseteq TaskKeyType
      <4>0. PICK none \in SUBSET TaskKeyType : none = {}
        BY Zenon
      <4>1. CASE result = [g |-> lost, events |-> <<"JobRunningFailed">>, cancels |-> {}]
        BY <2>1, <3>1, <4>0, <4>1, Zenon
      <4>2. CASE result = [g |-> won, events |-> <<"JobFinished">>, cancels |-> keys]
        BY <1>5, <2>1, <3>1, <4>2, Zenon
      <4>3. CASE result = [g |-> rerun, events |-> <<>>, cancels |-> keys]
        BY <1>5, <1>7, <2>1, <4>3, Zenon
      <4>4. CASE result = [g |-> rerun, events |-> <<"JobUpdated">>, cancels |-> keys]
        BY <1>5, <1>7, <2>1, <4>4, Zenon
      <4> QED BY <3>2, <4>1, <4>2, <4>3, <4>4, Zenon
    <3> QED BY <3>3
  <2> QED BY <2>2 DEF names
<1> QED BY <1>11 DEF result

-----------------------------------------------------------------------------
(* The loops of update_task_status. *)

\* What the handler knows of the graph it starts from and of the reports it got.
ContextOK(c) ==
    /\ IsGraph(c.g)
    /\ c.done \subseteq StatusType
    /\ \A r \in c.done : Tracks(c.g.stages[r.stage], r)
    /\ c.stage \in Stages

\* The loops of update_task_status may move the graph on,
LEMMA AccGraph ==
    ASSUME NEW c, ContextOK(c), NEW acc, AccOK(c, acc), NEW h, Stays(c.done, acc.g, h)
    PROVE  LET new == [acc EXCEPT !.g = h] IN AccOK(c, new) /\ new.g = h
<1>1. Stays(c.done, c.g, h)
  BY StaysTrans DEF ContextOK, AccOK
<1> QED BY <1>1 DEF AccOK, AccFields

\* ... set the flag that fails the job,
LEMMA AccFailed ==
    ASSUME NEW c, NEW acc, AccOK(c, acc), NEW failed
    PROVE  LET new == [acc EXCEPT !.failed = failed] IN AccOK(c, new) /\ new.g = acc.g
BY DEF AccOK, AccFields

\* ... collect a location of the stage,
LEMMA AccLocs ==
    ASSUME NEW c, NEW acc, AccOK(c, acc), NEW l \in Locations,
           l.parts \subseteq PartitionIds(c.stage)
    PROVE  AccOK(c, [acc EXCEPT !.locs = @ \union {l}])
BY DEF AccOK, AccFields

\* ... and record a failed attempt of a stage.
LEMMA AccAttempts ==
    ASSUME NEW c, NEW acc, AccOK(c, acc), NEW s \in Stages, NEW n \in Nat
    PROVE  LET new == [acc EXCEPT !.attempts[s] = @ \union {n}]
           IN  AccOK(c, new) /\ new.g = acc.g
BY DEF AccOK, AccFields

\* The ids of tasks whose output is gone.
LEMMA RemovedTaskIdsType ==
    ASSUME NEW s \in Stages, NEW a, IsStage(s, a), NEW m \in Inputs[s], NEW e
    PROVE  RemovedTaskIds(a, m, e) \subseteq Nat
<1>1. a.inputs[m].locs \subseteq Locations
  BY DEF IsStage, StageType
<1> QED BY <1>1 DEF RemovedTaskIds, OnExecutor, Locations

\* The location of the output of a task.
LEMMA PartitionToLocationType ==
    ASSUME NEW s \in Stages, NEW a, IsStage(s, a), NEW r \in StatusType,
           r.task \in DOMAIN a.tasks
    PROVE  LET l == PartitionToLocation(a, r)
           IN  l \in Locations /\ l.parts \subseteq PartitionIds(s)
<1>1. a.tasks \in Seq(TaskType(s))
  BY DEF IsStage, StageType, TaskType
<1>2. a.tasks[r.task] \in TaskType(s)
  BY <1>1
<1>3. a.tasks[r.task].parts \in Seq(PartitionIds(s))
  BY <1>2 DEF TaskType
<1>4. ToSet(a.tasks[r.task].parts) \subseteq PartitionIds(s)
  BY <1>3 DEF ToSet
<1>5. PartitionIds(s) \subseteq Nat \ {0}
  BY DEF PartitionIds
<1> QED BY <1>4, <1>5 DEF PartitionToLocation, Locations, StatusType

\* The tasks of a stage stay the same when an outcome is entered.
LEMMA UpdateTaskInfoTasks ==
    ASSUME NEW s \in Stages, NEW a, IsStage(s, a), NEW t \in DOMAIN a.tasks, NEW kind
    PROVE  DOMAIN UpdateTaskInfo(a, t, kind).tasks = DOMAIN a.tasks
BY DEF UpdateTaskInfo, IsStage, StageType

\* A FetchPartitionError of a running stage.
LEMMA FetchFailureAcc ==
    ASSUME NEW c, ContextOK(c), NEW acc, AccOK(c, acc), NEW r \in c.done, r.kind = "fetch"
    PROVE  AccOK(c, FetchFailure(acc, r.stage, r))
<1> DEFINE s == r.stage
           a == acc.g.stages[s]
           counted == [acc EXCEPT !.attempts[s] = @ \union {r.attempt}]
           b == RemoveInputPartitions(a, r.map, r.from)
           h == SetStage(acc.g, s, b)
           x == [stage |-> r.map, ids |-> RemovedTaskIds(a, r.map, r.from)]
           back == [counted EXCEPT !.g = h, !.rollback[s] = @ \union {r.from},
                                   !.resubmit = @ \union {x}]
<1>1. /\ s \in Stages /\ r.attempt \in Nat /\ r.map \in Inputs[s] /\ r.from \in Executors
      /\ IsStage(s, a) /\ IsGraph(acc.g) /\ r.map \in Stages
  BY StageAssumption DEF ContextOK, StatusType, AccOK, Stays, IsGraph
<1>2. AccOK(c, counted) /\ counted.g = acc.g
  BY <1>1, AccAttempts
<1>3. AccOK(c, [counted EXCEPT !.failed = @ \union {s}])
  BY <1>2, AccFailed, Zenon
<1>4. Stays(c.done, counted.g, h)
  BY <1>1, <1>2, RemoveInputPartitionsStage, SetStageGraph
<1>5. x \in Missing
  BY <1>1, RemovedTaskIdsType DEF Missing
<1>6. AccOK(c, back)
  <2> DEFINE new == [counted EXCEPT !.g = h]
  <2>1. AccOK(c, new)
    BY <1>2, <1>4, AccGraph, Zenon
  <2>2. back = [new EXCEPT !.rollback[s] = @ \union {r.from}, !.resubmit = @ \union {x}]
    BY <1>2 DEF AccOK, AccFields
  <2> HIDE DEF new, x, back
  <2> QED BY <1>1, <1>5, <2>1, <2>2 DEF AccOK, AccFields
<1>7. FetchFailure(acc, s, r) \in {counted, [counted EXCEPT !.failed = @ \union {s}], back}
  BY <1>2 DEF FetchFailure
<1> HIDE DEF counted, back
<1> QED BY <1>2, <1>3, <1>6, <1>7, SMTT(30) DEF s

\* A task that failed for a reason of its executor.
LEMMA FailOrRetryAcc ==
    ASSUME NEW c, ContextOK(c), NEW acc, AccOK(c, acc), NEW s \in Stages, NEW r,
           r.task \in DOMAIN acc.g.stages[s].tasks
    PROVE  AccOK(c, FailOrRetry(acc, s, r))
<1> DEFINE a == acc.g.stages[s]
           h == SetStage(acc.g, s, ResetTaskInfo(a, r.task))
<1>1. IsStage(s, a) /\ IsGraph(acc.g)
  BY DEF AccOK, Stays, IsGraph
<1>2. AccOK(c, [acc EXCEPT !.failed = @ \union {s}])
  BY AccFailed
<1>3. Stays(c.done, acc.g, h)
  BY <1>1, ResetTaskInfoStage, SetStageGraph
<1>4. AccOK(c, [acc EXCEPT !.g = h])
  BY <1>3, AccGraph
<1> QED BY <1>2, <1>4 DEF FailOrRetry

\* A status of a running stage is entered for the task it is about: tasks and
\* attempts are matched, the loop keeps its invariant.
LEMMA StatusOfRunningAcc ==
    ASSUME NEW c, ContextOK(c), NEW acc, AccOK(c, acc), NEW r \in c.done, r.stage = c.stage
    PROVE  AccOK(c, StatusOfRunning(acc, r))
<1> DEFINE s == r.stage
           a == acc.g.stages[s]
           b == UpdateTaskInfo(a, r.task, r.kind)
           next == [acc EXCEPT !.g = SetStage(acc.g, s, b)]
           l == PartitionToLocation(a, r)
<1>1. /\ s \in Stages /\ r \in StatusType /\ r.attempt \in Nat /\ r.kind \in Reported
      /\ IsStage(s, a) /\ IsGraph(acc.g)
  BY DEF ContextOK, StatusType, AccOK, Stays, IsGraph
<1>2. Tracks(a, r)
  <2>1. Tracks(c.g.stages[s], r) /\ IsStage(s, c.g.stages[s])
    BY <1>1, SMTT(30) DEF ContextOK, IsGraph
  <2>2. Follows(c.done, s, c.g.stages[s], a)
    BY <1>1 DEF AccOK, Stays, Keeps, Moves
  <2> QED BY <1>1, <2>1, <2>2, FollowsTracks, SMTT(30)
<1> SUFFICES ASSUME ~(r.attempt < a.attempt) PROVE AccOK(c, ApplyStatus(acc, r))
  BY DEF StatusOfRunning
<1>3. r.task \in DOMAIN a.tasks /\ a.tasks[r.task].attempt = r.attempt
  <2>1. a.attempt \in Nat
    BY <1>1, Zenon DEF IsStage, StageType
  <2> HIDE DEF a
  <2>2. r.attempt = a.attempt
    BY <1>1, <1>2, <2>1, SMTT(30) DEF Tracks
  <2> QED BY <1>2, <2>2, Zenon DEF Tracks
<1>4. Keeps(c.done, s, a, b)
  BY <1>1, <1>3, UpdateTaskInfoStage, SMTT(30)
<1>5. Stays(c.done, acc.g, SetStage(acc.g, s, b)) /\ SetStage(acc.g, s, b).stages[s] = b
  <2> HIDE DEF b
  <2> QED BY <1>1, <1>4, SetStageGraph
<1>6. AccOK(c, next) /\ next.g.stages[s] = b
  <2> DEFINE h == SetStage(acc.g, s, b)
  <2> HIDE DEF b, h
  <2>1. Stays(c.done, acc.g, h) /\ h.stages[s] = b
    BY <1>5 DEF h
  <2>2. AccOK(c, [acc EXCEPT !.g = h]) /\ [acc EXCEPT !.g = h].g = h
    BY <2>1, AccGraph, ZenonT(30)
  <2>3. next = [acc EXCEPT !.g = h]
    BY DEF h
  <2> HIDE DEF next
  <2> QED BY <2>1, <2>2, <2>3, SMTT(30)
<1>7. r.task \in DOMAIN next.g.stages[s].tasks
  BY <1>1, <1>3, <1>6, UpdateTaskInfoTasks
<1> DEFINE located == [next EXCEPT !.locs = @ \union {l}]
           stopped == [next EXCEPT !.failed = @ \union {s}]
<1>12. ApplyStatus(acc, r) = CASE r.kind = "success" -> located
                               [] r.kind = "fetch" -> FetchFailure(next, s, r)
                               [] r.kind = "exec" -> stopped
                               [] Retryable(r.kind) -> FailOrRetry(next, s, r)
  BY Zenon DEF ApplyStatus
<1> HIDE DEF next, located, stopped
<1>8. CASE r.kind = "success"
  <2>1. l \in Locations /\ l.parts \subseteq PartitionIds(c.stage)
    <3> HIDE DEF a
    <3> QED BY <1>1, <1>3, PartitionToLocationType, Zenon
  <2>2. AccOK(c, located)
    <3> HIDE DEF l
    <3> QED BY <1>6, <2>1, AccLocs DEF located
  <2> QED BY <1>8, <1>12, <2>2 DEF Retryable
<1>9. CASE r.kind = "fetch"
  <2>1. AccOK(c, FetchFailure(next, s, r))
    BY <1>6, <1>9, FetchFailureAcc
  <2> QED BY <1>9, <1>12, <2>1, SMTT(30) DEF Retryable
<1>10. CASE r.kind = "exec"
  <2>1. AccOK(c, stopped)
    BY <1>6, AccFailed DEF stopped
  <2> QED BY <1>10, <1>12, <2>1 DEF Retryable
<1>11. CASE Retryable(r.kind)
  <2>1. AccOK(c, FailOrRetry(next, s, r))
    BY <1>1, <1>6, <1>7, FailOrRetryAcc, SMTT(30)
  <2> QED BY <1>11, <1>12, <2>1, SMTT(30) DEF Retryable
<1> QED BY <1>1, <1>8, <1>9, <1>10, <1>11, SMTT(30) DEF Reported, Retryable

\* A late status of an attempt that was rolled back.
LEMMA StatusOfUnResolvedAcc ==
    ASSUME NEW c, ContextOK(c), NEW acc, GroupOK(c, acc), NEW r \in c.done
    PROVE  GroupOK(c, StatusOfUnResolved(acc, r))
<1> DEFINE s == r.stage
           a == acc.g.stages[s]
           b == RemoveInputPartitions(a, r.map, r.from)
           d == [b EXCEPT !.reasons = @ \union {r.from}]
           h == SetStage(acc.g, s, d)
           x == [stage |-> r.map, ids |-> RemovedTaskIds(a, r.map, r.from)]
           reset == [acc EXCEPT !.g = h, !.reset = @ \union {x},
                                !.successful = @ \ {r.map}, !.resolved = @ \ {s}]
           stopped == [acc EXCEPT !.failed = @ \union {s}]
<1>1. /\ s \in Stages /\ IsStage(s, a) /\ IsGraph(acc.g) /\ AccOK(c, acc) /\ acc.locs = {}
      /\ r.kind = "fetch" => r.map \in Inputs[s] /\ r.from \in Executors /\ r.map \in Stages
  BY StageAssumption DEF ContextOK, StatusType, AccOK, GroupOK, Stays, IsGraph
<1>2. GroupOK(c, stopped)
  <2>1. AccOK(c, stopped)
    BY <1>1, AccFailed
  <2>2. stopped.locs = {}
    BY <1>1 DEF AccOK, AccFields
  <2> QED BY <2>1, <2>2 DEF GroupOK
<1>3. ASSUME r.kind = "fetch" PROVE GroupOK(c, reset)
  <2>1. Keeps(c.done, s, a, b)
    BY <1>1, <1>3, RemoveInputPartitionsStage
  <2>2. IsStage(s, b) /\ b.reasons \union {r.from} \in SUBSET Executors
    BY <1>1, <1>3, <2>1, Zenon DEF Keeps, Moves, IsStage, StageType
  <2> HIDE DEF b
  <2>3. Keeps(c.done, s, b, d)
    BY <1>1, <2>2, ReasonsStage, Zenon
  <2> HIDE DEF d
  <2>4. Keeps(c.done, s, a, d)
    BY <1>1, <2>1, <2>3, KeepsTrans, SMTT(30)
  <2>5. Stays(c.done, acc.g, h)
    BY <1>1, <2>4, SetStageGraph, SMTT(30)
  <2>6. x \in Missing
    BY <1>1, <1>3, RemovedTaskIdsType DEF Missing
  <2> DEFINE new == [acc EXCEPT !.g = h]
  <2>7. AccOK(c, new) /\ new.locs = {}
    BY <1>1, <2>5, AccGraph DEF AccOK, AccFields
  <2>8. reset = [new EXCEPT !.reset = @ \union {x}, !.successful = @ \ {r.map},
                            !.resolved = @ \ {s}]
    BY <1>1, SMTT(30) DEF AccOK, AccFields
  <2> HIDE DEF new, x, reset
  <2> QED BY <2>6, <2>7, <2>8, SMTT(30) DEF AccOK, AccFields, GroupOK
<1>4. \/ StatusOfUnResolved(acc, r) \in {acc, stopped}
      \/ r.kind = "fetch" /\ StatusOfUnResolved(acc, r) = reset
  BY DEF StatusOfUnResolved
<1> HIDE DEF stopped, reset
<1> QED BY <1>2, <1>3, <1>4, SMTT(30)

\* update_stage_output_links: what the tasks of a running stage produced goes to
\* the stages that read it or to the output of the job.
LEMMA PublishOutputAcc ==
    ASSUME NEW c, ContextOK(c), NEW acc, AccOK(c, acc),
           c.g.stages[c.stage].state = "Running"
    PROVE  GroupOK(c, PublishOutput(acc, c.stage))
<1> DEFINE s == c.stage
           final == IsSuccessful(acc.g.stages[s], s) /\ s \notin StagesOf(acc.reset)
           marked == IF final THEN [acc EXCEPT !.successful = @ \union {s}] ELSE acc
           done == [marked EXCEPT !.locs = {}]
           links == OutputLinks(s)
           Linked(p) == LET added == AddInputPartitions(acc.g.stages[p], s, acc.locs)
                        IN  IF final THEN CompleteInput(added, s) ELSE added
           F == [p \in Stages |-> IF p \in links THEN Linked(p) ELSE acc.g.stages[p]]
           output == acc.g.output \union acc.locs
           waiting == acc.resolved \union {p \in links : Resolvable(Linked(p))}
           end == [done EXCEPT !.g.output = output]
           error == [done EXCEPT !.err = TRUE]
           linked == [done EXCEPT !.g.stages = F, !.resolved = waiting]
<1>1. /\ s \in Stages /\ IsGraph(acc.g) /\ acc.locs \subseteq Locations
      /\ \A l \in acc.locs : l.parts \subseteq PartitionIds(s)
  BY DEF ContextOK, AccOK, Stays
<1>2. AccOK(c, marked) /\ marked.g = acc.g /\ marked.resolved = acc.resolved
  BY <1>1 DEF AccOK, AccFields, StagesIn
<1>3. GroupOK(c, done) /\ done.g = acc.g /\ done.resolved = acc.resolved
  <2> HIDE DEF marked
  <2> QED BY <1>2 DEF AccOK, AccFields, GroupOK
<1>4. GroupOK(c, error)
  <2> HIDE DEF done
  <2> QED BY <1>3 DEF AccOK, AccFields, GroupOK
<1>5. ASSUME NEW h, Stays(c.done, acc.g, h) PROVE GroupOK(c, [done EXCEPT !.g = h])
  <2> HIDE DEF done
  <2>1. AccOK(c, [done EXCEPT !.g = h])
    BY <1>3, <1>5, AccGraph DEF GroupOK
  <2> QED BY <1>3, <2>1 DEF AccOK, AccFields, GroupOK
<1>6. GroupOK(c, end)
  <2> DEFINE h == [acc.g EXCEPT !.output = output]
  <2>1. output \in SUBSET Locations
    BY <1>1 DEF IsGraph
  <2>2. Stays(c.done, acc.g, h)
    <3> HIDE DEF output
    <3> QED BY <1>1, <2>1, OutputGraph, SMTT(30)
  <2>3. end = [done EXCEPT !.g = h]
    <3> HIDE DEF done
    <3> QED BY <1>3 DEF GroupOK, AccOK, AccFields
  <2> HIDE DEF h
  <2> QED BY <1>5, <2>2, <2>3, Zenon
<1>7. GroupOK(c, linked)
  <2> DEFINE h == [acc.g EXCEPT !.stages = F]
             new == [done EXCEPT !.g = h]
  <2>1. ASSUME NEW p \in Stages PROVE Keeps(c.done, p, acc.g.stages[p], F[p])
    <3>1. IsStage(p, acc.g.stages[p]) /\ Keeps(c.done, p, acc.g.stages[p], acc.g.stages[p])
      BY <1>1, GoesRefl, Zenon DEF IsGraph, Stays
    <3>2. CASE p \in links
      <4> DEFINE added == AddInputPartitions(acc.g.stages[p], s, acc.locs)
      <4>1. s \in Inputs[p]
        BY <3>2 DEF OutputLinks
      <4>2. Keeps(c.done, p, acc.g.stages[p], added) /\ IsStage(p, added)
        <5>1. Keeps(c.done, p, acc.g.stages[p], added)
          <6> DEFINE b == acc.g.stages[p]
                     l == acc.locs
          <6> HIDE DEF b, l
          <6>1. Keeps(c.done, p, b, AddInputPartitions(b, s, l))
            BY <1>1, <3>1, <4>1, AddInputPartitionsStage, SMTT(30) DEF b, l
          <6> QED BY <6>1, Zenon DEF b, l
        <5> QED BY <5>1, Zenon DEF Keeps, Moves
      <4>3. Keeps(c.done, p, added, CompleteInput(added, s))
        <5> HIDE DEF added
        <5> QED BY <4>1, <4>2, CompleteInputStage, SMTT(30)
      <4>4. F[p] \in {added, CompleteInput(added, s)}
        BY <3>2, SMTT(30)
      <4> HIDE DEF added, F
      <4> QED BY <3>1, <4>2, <4>3, <4>4, KeepsTrans, SMTT(30)
    <3>3. CASE p \notin links
      BY <3>1, <3>3, SMTT(30)
    <3> QED BY <3>2, <3>3
  <2>2. F = [p \in Stages |-> F[p]]
    OBVIOUS
  <2>3. linked = [new EXCEPT !.resolved = waiting]
    <3> HIDE DEF done, F, waiting
    <3> QED BY <1>3, SMTT(30) DEF GroupOK, AccOK, AccFields
  <2>4. waiting \subseteq Stages
    BY DEF AccOK, OutputLinks
  <2> HIDE DEF F
  <2>5. Stays(c.done, acc.g, h)
    BY <1>1, <2>1, <2>2, StayStages
  <2>6. GroupOK(c, new)
    BY <1>5, <2>5, Zenon
  <2> HIDE DEF new, waiting
  <2>7. GroupOK(c, [new EXCEPT !.resolved = waiting])
    BY <2>4, <2>6 DEF GroupOK, AccOK, AccFields
  <2> QED BY <2>3, <2>7
<1>8. PublishOutput(acc, s) \in {end, error, linked}
  BY <1>3 DEF PublishOutput
<1> HIDE DEF end, error, linked
<1> QED BY <1>4, <1>6, <1>7, <1>8, SMTT(30) DEF s

-----------------------------------------------------------------------------
(* The folds. *)

RunningLoop == INSTANCE FoldTheory WITH Step <- StatusOfRunning, Inv <- AccOK
LateLoop    == INSTANCE FoldTheory WITH Step <- StatusOfUnResolved, Inv <- GroupOK
GroupLoop   == INSTANCE FoldTheory WITH Step <- ApplyGroup, Inv <- GroupOK
LossLoop    == INSTANCE FoldTheory WITH Step <- ResetStagesInternal, Inv <- LossOK

\* The statuses of one stage.
GroupType(done) ==
    {group \in [stage : Stages, statuses : Seq(done)] :
        \A i \in DOMAIN group.statuses : group.statuses[i].stage = group.stage}

\* The statuses of a running stage, one after the other, ...
LEMMA RunningLoopAcc ==
    ASSUME NEW c, ContextOK(c), NEW acc, AccOK(c, acc),
           NEW q \in Seq({r \in c.done : r.stage = c.stage})
    PROVE  AccOK(c, FoldLeft(StatusOfRunning, acc, q))
<1>1. RunningLoop!Induction
  BY NatIn DEF RunningLoop!Induction
<1>2. \A x : \A r \in {r \in c.done : r.stage = c.stage} :
         AccOK(c, x) => AccOK(c, StatusOfRunning(x, r))
  BY StatusOfRunningAcc
<1>3. FoldLeft(StatusOfRunning, acc, q) = RunningLoop!Loop(acc, q)
  BY DEF FoldLeft, RunningLoop!Loop
<1> QED BY <1>1, <1>2, <1>3, RunningLoop!FoldInv, SMTT(30)

\* ... and those of one that was rolled back.
LEMMA LateLoopAcc ==
    ASSUME NEW c, ContextOK(c), NEW acc, GroupOK(c, acc), NEW q \in Seq(c.done)
    PROVE  GroupOK(c, FoldLeft(StatusOfUnResolved, acc, q))
<1>1. LateLoop!Induction
  BY NatIn DEF LateLoop!Induction
<1>2. \A x : \A r \in c.done : GroupOK(c, x) => GroupOK(c, StatusOfUnResolved(x, r))
  BY StatusOfUnResolvedAcc
<1>3. FoldLeft(StatusOfUnResolved, acc, q) = LateLoop!Loop(acc, q)
  BY SMTT(30) DEF FoldLeft, LateLoop!Loop
<1> QED BY <1>1, <1>2, <1>3, LateLoop!FoldInv, SMTT(30)

\* Between two groups the context may change the stage.
LEMMA GroupContext ==
    ASSUME NEW c, ContextOK(c), NEW s \in Stages
    PROVE  LET d == [g |-> c.g, done |-> c.done, stage |-> s]
           IN  ContextOK(d) /\ \A acc : GroupOK(c, acc) <=> GroupOK(d, acc)
BY DEF ContextOK, GroupOK, AccOK

\* The statuses of one stage keep the invariant, whatever state the stage is in.
LEMMA ApplyGroupAcc ==
    ASSUME NEW c, ContextOK(c), NEW acc, GroupOK(c, acc), NEW group \in GroupType(c.done)
    PROVE  GroupOK(c, ApplyGroup(acc, group))
<1> DEFINE s == group.stage
           q == group.statuses
           d == [g |-> c.g, done |-> c.done, stage |-> s]
           end == PublishOutput(FoldLeft(StatusOfRunning, acc, q), s)
           late == FoldLeft(StatusOfUnResolved, acc, q)
           error == [acc EXCEPT !.err = TRUE]
<1>1. s \in Stages /\ q \in Seq(c.done) /\ \A i \in DOMAIN q : q[i].stage = s
  BY DEF GroupType
<1>2. /\ ContextOK(d) /\ d.g = c.g /\ d.done = c.done /\ d.stage = s
      /\ \A x : GroupOK(c, x) <=> GroupOK(d, x)
  BY <1>1, GroupContext, SMTT(30)
<1>3. acc.g.stages[s].state = c.g.stages[s].state
  BY <1>1, SMTT(30) DEF GroupOK, AccOK, Stays, Keeps
<1> HIDE DEF d
<1>4. ASSUME acc.g.stages[s].state = "Running" PROVE GroupOK(c, end)
  <2>1. q \in Seq({r \in c.done : r.stage = s})
    BY <1>1, SMTT(30)
  <2>2. AccOK(d, FoldLeft(StatusOfRunning, acc, q))
    <3> HIDE DEF q, s
    <3> QED BY <1>2, <2>1, RunningLoopAcc, SMTT(30) DEF GroupOK
  <2>3. GroupOK(d, end)
    <3> HIDE DEF q, s
    <3> QED BY <1>2, <1>3, <1>4, <2>2, PublishOutputAcc, ZenonT(30)
  <2> QED BY <1>2, <2>3, SMTT(30)
<1>5. GroupOK(c, late)
  <2> HIDE DEF q
  <2> QED BY <1>1, LateLoopAcc
<1>6. GroupOK(c, error)
  BY SMTT(30) DEF AccOK, AccFields, GroupOK
<1>7. \/ ApplyGroup(acc, group) \in {acc, late, error}
      \/ acc.g.stages[s].state = "Running" /\ ApplyGroup(acc, group) = end
  BY DEF ApplyGroup
<1> HIDE DEF end, late, error
<1> QED BY <1>4, <1>5, <1>6, <1>7, SMTT(30)

\* The groups of a batch, one after the other.
LEMMA GroupLoopAcc ==
    ASSUME NEW c, ContextOK(c), NEW acc, GroupOK(c, acc), NEW q \in Seq(GroupType(c.done))
    PROVE  GroupOK(c, FoldLeft(ApplyGroup, acc, q))
<1>1. GroupLoop!Induction
  BY NatIn DEF GroupLoop!Induction
<1>2. \A x : \A group \in GroupType(c.done) : GroupOK(c, x) => GroupOK(c, ApplyGroup(x, group))
  BY ApplyGroupAcc, SMTT(30)
<1>3. FoldLeft(ApplyGroup, acc, q) = GroupLoop!Loop(acc, q)
  BY DEF FoldLeft, GroupLoop!Loop
<1> QED BY <1>1, <1>2, <1>3, GroupLoop!FoldInv, SMTT(30)

\* The handler starts with nothing to update.
LEMMA NoUpdatesAcc ==
    ASSUME NEW c, ContextOK(c)
    PROVE  GroupOK(c, NoUpdates(c.g))
<1>1. IsGraph(c.g) /\ Stays(c.done, c.g, c.g)
  BY GoesRefl DEF ContextOK
<1>2. c.g.failed_attempts \in [Stages -> SUBSET Nat]
  BY <1>1, SMTT(30) DEF IsGraph
<1> QED BY <1>1, <1>2, Zenon DEF GroupOK, AccOK, AccFields, NoUpdates

\* update_task_status takes the stages from one attempt to the next as the protocol
\* allows: a task becomes successful only by a report of the batch.
LEMMA UpdateTaskStatusGraph ==
    ASSUME NEW c, ContextOK(c), NEW g, c.g = Revive(g), NEW groups \in Seq(GroupType(c.done))
    PROVE  LET result == UpdateTaskStatus(g, groups)
           IN  /\ Goes(c.done, c.g, result.g)
               /\ result.events \in Seq({"JobUpdated", "JobFinished", "JobRunningFailed"})
               /\ result.cancels \subseteq TaskKeyType
<1> DEFINE acc == FoldLeft(ApplyGroup, NoUpdates(Revive(g)), groups)
           saved == [acc.g EXCEPT !.failed_attempts = acc.attempts]
           marked == MarkResubmitted(saved, acc.resubmit)
           restarted == ResetRunning(marked, acc.reset)
           names == {"JobUpdated", "JobFinished", "JobRunningFailed"}
           result == UpdateTaskStatus(g, groups)
<1>1. IsGraph(c.g)
  BY DEF ContextOK
<1>2. AccOK(c, acc)
  BY NoUpdatesAcc, GroupLoopAcc, ZenonT(30) DEF GroupOK
<1> HIDE DEF acc
<1>3. Stays(c.done, c.g, acc.g) /\ IsGraph(acc.g)
  BY <1>2 DEF AccOK, Stays
<1>4. Stays(c.done, c.g, saved) /\ IsGraph(saved)
  <2>1. acc.attempts \in [Stages -> SUBSET Nat]
    BY <1>2 DEF AccOK
  <2>2. Stays(c.done, acc.g, saved)
    BY <1>3, <2>1, AttemptsGraph, SMTT(30)
  <2> HIDE DEF saved
  <2> QED BY <1>1, <1>3, <2>2, StaysTrans, ZenonT(30) DEF Stays
<1> HIDE DEF saved
<1>5. Stays(c.done, c.g, marked) /\ IsGraph(marked)
  <2>1. Stays(c.done, saved, marked)
    BY <1>4, MarkResubmittedGraph, SMTT(30)
  <2> HIDE DEF marked
  <2> QED BY <1>1, <1>4, <2>1, StaysTrans, Zenon DEF Stays
<1> HIDE DEF marked
<1>6. Stays(c.done, c.g, restarted) /\ IsGraph(restarted)
  <2>1. Stays(c.done, marked, restarted)
    BY <1>5, ResetRunningGraph, SMTT(30)
  <2> HIDE DEF restarted
  <2> QED BY <1>1, <1>5, <2>1, StaysTrans, Zenon DEF Stays
<1> HIDE DEF restarted
<1>7. \/ \E h \in {acc.g, marked, restarted} :
           result = [g |-> h, events |-> <<>>, cancels |-> {}]
      \/ result = ProcessStagesUpdate(restarted, acc)
  BY DEF UpdateTaskStatus, acc, saved, marked, restarted
<1> HIDE DEF result
<1>8. CASE \E h \in {acc.g, marked, restarted} :
              result = [g |-> h, events |-> <<>>, cancels |-> {}]
  <2>1. PICK h \in {acc.g, marked, restarted} :
              result = [g |-> h, events |-> <<>>, cancels |-> {}]
    BY <1>8, Zenon
  <2>2. Goes(c.done, c.g, h)
    BY <1>3, <1>5, <1>6, StaysGoes, SMTT(30)
  <2> QED BY <2>1, <2>2 DEF result
<1>9. CASE result = ProcessStagesUpdate(restarted, acc)
  <2>1. \A s \in Stages : restarted.stages[s].state = c.g.stages[s].state
    BY <1>6, SMTT(30) DEF Stays, Keeps
  <2>2. /\ Goes(c.done, restarted, result.g) /\ result.events \in Seq(names)
        /\ result.cancels \subseteq TaskKeyType
    BY <1>2, <1>6, <1>9, <2>1, ProcessStagesUpdateGraph, SMTT(30)
  <2>3. Goes(c.done, c.g, restarted)
    BY <1>6, StaysGoes, SMTT(30)
  <2>4. Goes(c.done, c.g, result.g)
    BY <1>1, <2>2, <2>3, GoesTrans
  <2> QED BY <2>2, <2>4, SMTT(30) DEF result
<1> QED BY <1>7, <1>8, <1>9, SMTT(30)

-----------------------------------------------------------------------------
(* reset_stages_on_lost_executor and abort_running *)

\* A stage that is not done, with its tasks and its inputs on the executor reset.
PurgedStage(a, s, e, hit) ==
    LET stage == IF a.state = "Running" THEN RunningResetTasks(a, e) ELSE a
    IN  [stage EXCEPT !.inputs = [m \in Inputs[s] |->
            IF m \in hit THEN RemoveInputPartitions(stage, m, e).inputs[m] ELSE @[m]]]

\* It stays in its state and attempt.
LEMMA PurgedStageKeeps ==
    ASSUME NEW done, NEW s \in Stages, NEW a, IsStage(s, a), NEW e, NEW hit
    PROVE  Keeps(done, s, a, PurgedStage(a, s, e, hit))
<1> DEFINE stage == IF a.state = "Running" THEN RunningResetTasks(a, e) ELSE a
           f == [m \in Inputs[s] |->
                   IF m \in hit THEN RemoveInputPartitions(stage, m, e).inputs[m]
                   ELSE stage.inputs[m]]
<1>1. Keeps(done, s, a, stage)
  <2>1. Keeps(done, s, a, a)
    BY FollowsRefl DEF Keeps, Moves
  <2>2. Keeps(done, s, a, RunningResetTasks(a, e))
    BY RunningResetTasksStage
  <2> QED BY <2>1, <2>2
<1> HIDE DEF stage
<1>2. IsStage(s, stage)
  BY <1>1, SMTT(30) DEF Keeps, Moves
<1>3. stage.inputs \in OutputsType(s)
  BY <1>2, SMTT(30) DEF IsStage, StageType, OutputsType
<1>4. ASSUME NEW m \in Inputs[s]
      PROVE  RemoveInputPartitions(stage, m, e).inputs \in OutputsType(s)
  <2>1. IsStage(s, RemoveInputPartitions(stage, m, e))
    BY <1>2, RemoveInputPartitionsStage, SMTT(30) DEF Keeps, Moves
  <2> QED BY <2>1, SMTT(30) DEF IsStage, StageType, OutputsType
<1>5. f \in OutputsType(s)
  BY <1>3, <1>4 DEF OutputsType
<1> HIDE DEF f
<1>6. Keeps(done, s, stage, [stage EXCEPT !.inputs = f])
  BY <1>2, <1>5, InputsStage
<1>7. PurgedStage(a, s, e, hit) = [stage EXCEPT !.inputs = f]
  BY DEF PurgedStage, f, stage
<1> QED BY <1>1, <1>6, <1>7, KeepsTrans, SMTT(30)

\* One pass of reset_stages_internal.
LEMMA ResetStagesInternalLoss ==
    ASSUME NEW c, IsGraph(c), NEW acc, LossOK(c, acc), NEW e \in Executors
    PROVE  LossOK(c, ResetStagesInternal(acc, e))
<1> DEFINE g == acc.g
           Active(s) == g.stages[s].state \in {"UnResolved", "Resolved", "Running"}
           Hit(s) == {m \in Inputs[s] : OnExecutor(g.stages[s].inputs[m].locs, e) # {}}
           Purged(s) == PurgedStage(g.stages[s], s, e, Hit(s))
           resubmit == UNION {Hit(s) : s \in {p \in Stages : Active(p)}}
           After(s) ==
               CASE Active(s) /\ Hit(s) # {} /\ g.stages[s].state = "Resolved" ->
                       ResolvedToUnresolved(Purged(s))
                 [] Active(s) /\ Hit(s) # {} /\ g.stages[s].state = "Running" ->
                       RunningToUnresolved(Purged(s), {e})
                 [] /\ g.stages[s].state = "Successful" /\ s \in resubmit
                    /\ TasksOn(g.stages[s], e, {"success"}) # {} ->
                       SuccessfulToRunning(SuccessfulResetTasks(g.stages[s], e), s)
                 [] OTHER -> IF Active(s) THEN Purged(s) ELSE g.stages[s]
           F == [s \in Stages |-> After(s)]
           P == [s \in Stages |-> IF Active(s) THEN Purged(s) ELSE g.stages[s]]
           purged == [g EXCEPT !.stages = P]
           back == {s \in StagesIn(g, "Running") : Hit(s) # {}}
<1>0. IsGraph(g)
  BY DEF LossOK, Goes
<1>1. ResetStagesInternal(acc, e) =
         [g |-> [g EXCEPT !.stages = F],
          cancels |-> acc.cancels \union TaskKeys(purged, back)]
  BY DEF ResetStagesInternal, PurgedStage
<1>2. ASSUME NEW s \in Stages
      PROVE  /\ IsStage(s, g.stages[s])
             /\ Keeps({}, s, g.stages[s], g.stages[s])
             /\ Keeps({}, s, g.stages[s], Purged(s))
  <2>1. IsStage(s, g.stages[s])
    BY <1>0 DEF IsGraph
  <2>2. Keeps({}, s, g.stages[s], g.stages[s])
    BY <2>1, FollowsRefl DEF Keeps, Moves
  <2> HIDE DEF Hit, g
  <2> QED BY <2>1, <2>2, PurgedStageKeeps, SMTT(30)
<1> HIDE DEF g, Hit, Purged
<1>3. ASSUME NEW s \in Stages PROVE Moves({}, s, g.stages[s], After(s))
  <2> DEFINE a == g.stages[s]
             lost == SuccessfulResetTasks(a, e)
             undone == ResolvedToUnresolved(Purged(s))
             back1 == RunningToUnresolved(Purged(s), {e})
             again == SuccessfulToRunning(lost, s)
  <2>0. IsStage(s, a) /\ Keeps({}, s, a, a) /\ Keeps({}, s, a, Purged(s))
    BY <1>2, <1>3, Zenon
  <2>1. \/ After(s) = undone /\ a.state = "Resolved"
        \/ After(s) = back1
        \/ After(s) = again
        \/ After(s) = Purged(s)
        \/ After(s) = a
    <3> HIDE DEF undone, back1, again, a, resubmit
    <3> QED BY Zenon DEF After, undone, back1, again, a, lost
  <2> HIDE DEF After
  <2>2. Moves({}, s, a, Purged(s)) /\ Moves({}, s, a, a) /\ IsStage(s, Purged(s))
    BY <2>0 DEF Keeps, Moves
  <2>3. ASSUME a.state = "Resolved" PROVE Moves({}, s, a, undone)
    <3>1. Purged(s).state \in Unstarted
      BY <2>0, <2>3 DEF Keeps, Unstarted
    <3>2. Moves({}, s, Purged(s), undone)
      BY <2>2, <3>1, ResolvedToUnresolvedStage, SMTT(30)
    <3> HIDE DEF undone, a
    <3> QED BY <2>0, <2>2, <3>2, MovesTrans, SMTT(30)
  <2>4. Moves({}, s, a, back1)
    <3>1. {e} \in SUBSET Executors
      OBVIOUS
    <3>2. Moves({}, s, Purged(s), back1)
      BY <2>2, <3>1, RunningToUnresolvedStage
    <3> HIDE DEF back1, a
    <3> QED BY <2>0, <2>2, <3>2, MovesTrans
  <2>5. Moves({}, s, a, again)
    <3> HIDE DEF a
    <3>1. Moves({}, s, a, lost)
      BY <2>0, MarkLostStage DEF SuccessfulResetTasks, Keeps
    <3> HIDE DEF lost
    <3>2. Moves({}, s, lost, again)
      BY <3>1, SuccessfulToRunningStage, SMTT(30) DEF Moves
    <3> HIDE DEF again
    <3> QED BY <2>0, <3>1, <3>2, MovesTrans, SMTT(30)
  <2> HIDE DEF undone, back1, again, a
  <2>6. Moves({}, s, a, After(s))
    BY <2>1, <2>2, <2>3, <2>4, <2>5, SMTT(30)
  <2> QED BY <2>6 DEF a
<1>4. ASSUME NEW s \in Stages PROVE Moves({}, s, g.stages[s], P[s])
  BY <1>2, <1>4 DEF Keeps
<1>5. F = [s \in Stages |-> F[s]] /\ P = [s \in Stages |-> P[s]] /\ back \in SUBSET Stages
  BY DEF StagesIn
<1>6. \A s \in Stages : Moves({}, s, g.stages[s], F[s])
  BY <1>3, Zenon
<1> HIDE DEF F, P, back
<1>7. Goes({}, g, [g EXCEPT !.stages = F])
  BY <1>0, <1>5, <1>6, GoStages, SMTT(30)
<1>8. IsGraph(purged)
  BY <1>0, <1>4, <1>5, GoStages, SMTT(30) DEF Goes
<1> HIDE DEF purged
<1>9. TaskKeys(purged, back) \subseteq TaskKeyType
  BY <1>5, <1>8, TaskKeysType
<1> DEFINE h == [g EXCEPT !.stages = F]
<1> HIDE DEF h
<1>10. Goes({}, c, h)
  <2>1. Goes({}, c, g)
    BY DEF LossOK, g
  <2>2. Goes({}, g, h)
    BY <1>7 DEF h
  <2> QED BY <2>1, <2>2, GoesTrans, SMTT(30)
<1>11. ResetStagesInternal(acc, e) =
          [g |-> h, cancels |-> acc.cancels \union TaskKeys(purged, back)]
  BY <1>1 DEF h, g, purged
<1> QED BY <1>9, <1>10, <1>11 DEF LossOK

\* reset_stages_on_lost_executor: no report is taken, so no task becomes successful.
LEMMA ResetStagesOnLostExecutorGraph ==
    ASSUME NEW g, IsGraph(g), NEW e \in Executors, Cardinality(Stages) \in Nat
    PROVE  LET result == ResetStagesOnLostExecutor(g, e)
           IN  Goes({}, g, result.g) /\ result.cancels \subseteq TaskKeyType
<1> DEFINE base == [g |-> g, cancels |-> {}]
           n == Cardinality(Stages) + 1
           q == [i \in 1 .. n |-> e]
           result == ResetStagesOnLostExecutor(g, e)
<1>1. LossLoop!Induction
  BY NatIn DEF LossLoop!Induction
<1>2. LossOK(g, base)
  <2>1. Goes({}, g, g)
    BY GoesRefl, StaysGoes
  <2> QED BY <2>1 DEF LossOK
<1>3. n \in Nat
  OBVIOUS
<1> HIDE DEF n
<1>4. q \in Seq(Executors)
  BY <1>3
<1>5. \A acc : \A x \in Executors : LossOK(g, acc) => LossOK(g, ResetStagesInternal(acc, x))
  BY ResetStagesInternalLoss
<1>6. result = LossLoop!Loop(base, q)
  BY DEF ResetStagesOnLostExecutor, FoldLeft, LossLoop!Loop, n
<1> HIDE DEF base, q, result
<1>7. LossOK(g, result)
  BY <1>1, <1>2, <1>4, <1>5, <1>6, LossLoop!FoldInv, SMTT(30)
<1> QED BY <1>7 DEF LossOK, result

\* abort_running fails the stages that run.
LEMMA AbortRunningGraph ==
    ASSUME NEW g, IsGraph(g)
    PROVE  /\ Goes({}, g, AbortRunning(g).g)
           /\ AbortRunning(g).cancels \subseteq TaskKeyType
<1> DEFINE k == "Failed"
           h == [g EXCEPT !.status = k]
           S == StagesIn(g, "Running")
           F == [s \in Stages |-> IF s \in S THEN FailStage(h.stages[s], s) ELSE h.stages[s]]
<1>1. Goes({}, g, h) /\ h.stages = g.stages /\ IsGraph(h)
  <2>1. k \in {"Running", "Failed", "Successful"}
    OBVIOUS
  <2> HIDE DEF k
  <2> QED BY <2>1, StatusGraph, StaysGoes, Zenon DEF Goes
<1> HIDE DEF h
<1>2. AbortRunning(g).g = [h EXCEPT !.stages = F]
  BY DEF AbortRunning, Each, h
<1>3. ASSUME NEW s \in Stages PROVE Moves({}, s, h.stages[s], F[s])
  <2>1. IsStage(s, h.stages[s])
    BY <1>1, SMTT(30) DEF IsGraph
  <2>2. CASE s \in S
    BY <1>1, <2>1, <2>2, ToFailedStage, SMTT(30) DEF FailStage, StagesIn
  <2>3. CASE s \notin S
    BY <2>1, <2>3, FollowsRefl, SMTT(30) DEF Moves
  <2> QED BY <2>2, <2>3, SMTT(30)
<1>4. F = [s \in Stages |-> F[s]] /\ S \in SUBSET Stages
  BY DEF StagesIn
<1> HIDE DEF F
<1>5. Goes({}, h, [h EXCEPT !.stages = F])
  BY <1>1, <1>3, <1>4, GoStages
<1>6. Goes({}, g, AbortRunning(g).g)
  BY <1>1, <1>2, <1>5, GoesTrans, SMTT(30)
<1>7. AbortRunning(g).cancels = TaskKeys(g, S)
  BY DEF AbortRunning
<1> HIDE DEF S
<1> QED BY <1>4, <1>6, <1>7, TaskKeysType, SMTT(30)
=============================================================================
