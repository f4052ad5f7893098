--------------------------- MODULE ExecutionStage ---------------------------
(***************************************************************************)
(* The stage of an execution graph and the methods that change it          *)
(* (scheduler/src/state/execution_stage.rs), as operators on records.      *)
(*                                                                         *)
(* A stage is one record whatever its state; the fields a state of the     *)
(* source does not have hold the value they are rebuilt with:              *)
(*   state    UnResolved, Resolved, Running, Successful or Failed, and     *)
(*            Removed once HashMap::remove took the stage out of the graph *)
(*   attempt  stage_attempt_num                                            *)
(*   pending  the queue of PendingPartitions, front first                  *)
(*   tasks    task_infos: append-only, a task's id is its index            *)
(*   fails    task_failure_numbers, per partition                          *)
(*   inputs   per input stage the StageOutput received from it             *)
(*   reasons  last_attempt_failure_reasons, a set of executors             *)
(* Partitions and task ids count from 1.  A task is represented in a       *)
(* StageOutput by one location instead of one per shuffle partition: the   *)
(* locations of a task are added and removed together.  "attempt" and      *)
(* "parts" identify the file; the code's location has only task and exec.  *)
(***************************************************************************)
EXTENDS SeqLoops

CONSTANTS
    Stages,      \* stage ids of the job
    Inputs,      \* [Stages -> SUBSET Stages], the child stages of a stage
    Partitions,  \* [Stages -> Nat], plan input partitions of a stage
    Executors    \* executor ids

ASSUME StageAssumption ==
    /\ Cardinality(Stages) \in Nat
    /\ Inputs \in [Stages -> SUBSET Stages]
    /\ Partitions \in [Stages -> Nat \ {0}]

\* The outcomes an executor reports (FailedReason, or Successful).
Reported == {"success", "fetch", "exec", "io", "killed"}
\* ... and what a TaskInfo may hold: Running, or reset by an executor loss.
TaskStates == Reported \union {"running", "lost"}

StageStates ==
    {"UnResolved", "Resolved", "Running", "Successful", "Failed", "Removed"}

PartitionIds(s) == 1 .. Partitions[s]

NoOutput == [locs |-> {}, complete |-> FALSE]

-----------------------------------------------------------------------------
(* PendingPartitions *)

NewPending(s) == [i \in 1 .. Partitions[s] |-> i]

Reschedule(pending, parts) == parts \o pending

-----------------------------------------------------------------------------
(* Building a stage.  A stage without children starts Resolved. *)

NewStage(s) ==
    [state   |-> IF Inputs[s] = {} THEN "Resolved" ELSE "UnResolved",
     attempt |-> 0,
     pending |-> <<>>,
     tasks   |-> <<>>,
     fails   |-> [p \in PartitionIds(s) |-> 0],
     inputs  |-> [m \in Inputs[s] |-> NoOutput],
     reasons |-> {}]

-----------------------------------------------------------------------------
(* UnresolvedStage *)

AddInputPartitions(stage, m, locs) ==
    [stage EXCEPT !.inputs[m] =
        [locs |-> @.locs \union locs, complete |-> @.complete]]

CompleteInput(stage, m) ==
    [stage EXCEPT !.inputs[m] = [locs |-> @.locs, complete |-> TRUE]]

Resolvable(stage) == \A m \in DOMAIN stage.inputs : stage.inputs[m].complete

ToResolved(stage) == [stage EXCEPT !.state = "Resolved"]

OnExecutor(locs, e) == {l \in locs : l.exec = e}

\* Mutants: the locations stay; the input stays complete.
KeepLocations(stage, m, e) == [stage EXCEPT !.inputs[m].complete = FALSE]

KeepComplete(stage, m, e) ==
    [stage EXCEPT !.inputs[m].locs = @ \ OnExecutor(@, e)]

\* remove_input_partitions of UnresolvedStage and of RunningStage: drops every
\* location of the input on the executor; the task ids are its result.
RemoveInputPartitions(stage, m, e) ==
    [stage EXCEPT !.inputs[m] =
        [locs |-> @.locs \ OnExecutor(@.locs, e), complete |-> FALSE]]

RemovedTaskIds(stage, m, e) ==
    {l.task : l \in OnExecutor(stage.inputs[m].locs, e)}

-----------------------------------------------------------------------------
(* ResolvedStage *)

ResolvedToRunning(stage, s) ==
    [stage EXCEPT !.state   = "Running",
                  !.pending = NewPending(s),
                  !.tasks   = <<>>,
                  !.fails   = [p \in PartitionIds(s) |-> 0],
                  !.reasons = {}]

ResolvedToUnresolved(stage) == [stage EXCEPT !.state = "UnResolved"]

-----------------------------------------------------------------------------
(* RunningStage *)

\* bind_one: the slice at the front of pending becomes a new task.
BindSlice(stage, e, n) ==
    [stage EXCEPT
        !.pending = SubSeq(@, n + 1, Len(@)),
        !.tasks   = Append(@, [parts   |-> SubSeq(stage.pending, 1, n),
                               exec    |-> e,
                               st      |-> "running",
                               attempt |-> stage.attempt])]

RunningTasks(stage) ==
    {t \in DOMAIN stage.tasks : stage.tasks[t].st = "running"}

AvailableTasks(stage) == Len(stage.pending)

\* Mutant: an empty queue is taken for completion.
NothingPending(stage, s) == stage.pending = <<>>

IsSuccessful(stage, s) ==
    /\ stage.pending = <<>>
    /\ \A p \in PartitionIds(s) : \E t \in DOMAIN stage.tasks :
          /\ stage.tasks[t].st = "success"
          /\ p \in ToSet(stage.tasks[t].parts)

\* A task that was reset takes no further status.
WasReset(task) == task.st \in {"killed", "lost"}

Retryable(kind) == kind \in {"io", "killed"}

\* update_task_info for a task that was not reset.
UpdateTaskInfo(stage, t, kind) ==
    LET slice == ToSet(stage.tasks[t].parts)
    IN  [stage EXCEPT
           !.tasks[t].st = kind,
           !.fails = [p \in DOMAIN @ |->
                        CASE p \in slice /\ Retryable(kind)   -> @[p] + 1
                          [] p \in slice /\ kind = "success"  -> 0
                          [] OTHER                            -> @[p]]]

\* task_failure_number: the worst count in the slice reaches the limit.
FailuresExhausted(stage, t, max) ==
    \E p \in ToSet(stage.tasks[t].parts) : stage.fails[p] >= max

\* Mutant: the slice is not rescheduled.
KillOnly(stage, t) == [stage EXCEPT !.tasks[t].st = "killed"]

ResetTaskInfo(stage, t) ==
    [stage EXCEPT !.tasks[t].st = "killed",
                  !.pending = Reschedule(@, stage.tasks[t].parts)]

TasksOn(stage, e, states) ==
    {t \in DOMAIN stage.tasks : /\ stage.tasks[t].exec = e
                                /\ stage.tasks[t].st \in states}

MarkLost(stage, ids) ==
    [stage EXCEPT !.tasks = [t \in DOMAIN @ |->
        IF t \in ids THEN [@[t] EXCEPT !.st = "lost"] ELSE @[t]]]

\* The slices of the given tasks one after the other, in task order.
SlicesOf(stage, ids) ==
    FlattenSeq([t \in DOMAIN stage.tasks |->
        IF t \in ids THEN stage.tasks[t].parts ELSE <<>>])

\* Mutants: the slices are not rescheduled; running tasks are left alone.
LoseOnly(stage, e) == MarkLost(stage, TasksOn(stage, e, {"running", "success"}))

ResetFinishedOnly(stage, e) ==
    LET hit == TasksOn(stage, e, {"success"})
    IN  [MarkLost(stage, hit) EXCEPT
            !.pending = Reschedule(@, SlicesOf(stage, hit))]

\* reset_task_info for each of the tasks.
ResetTaskInfos(stage, ids) ==
    [stage EXCEPT !.tasks = [t \in DOMAIN @ |->
                     IF t \in ids THEN [@[t] EXCEPT !.st = "killed"] ELSE @[t]],
                  !.pending = Reschedule(@, SlicesOf(stage, ids))]

\* RunningStage::reset_tasks: running and completed work on a lost executor.
RunningResetTasks(stage, e) ==
    LET hit == TasksOn(stage, e, {"running", "success"})
    IN  [MarkLost(stage, hit) EXCEPT
            !.pending = Reschedule(@, SlicesOf(stage, hit))]

ToSuccessful(stage) == [stage EXCEPT !.state = "Successful"]

ToFailed(stage) ==
    [stage EXCEPT !.state = "Failed",
                  !.tasks = [t \in DOMAIN @ |->
        IF @[t].st = "running" THEN [@[t] EXCEPT !.st = "killed"] ELSE @[t]]]

\* Mutant: the attempt number is kept.
RollbackSameAttempt(stage, reasons) ==
    [stage EXCEPT !.state = "UnResolved", !.pending = <<>>, !.tasks = <<>>,
                  !.reasons = reasons]

\* The tasks of the abandoned attempt are forgotten, the inputs are kept.
RunningToUnresolved(stage, reasons) ==
    [stage EXCEPT !.state   = "UnResolved",
                  !.attempt = @ + 1,
                  !.pending = <<>>,
                  !.tasks   = <<>>,
                  !.reasons = reasons]

-----------------------------------------------------------------------------
(* SuccessfulStage *)

SuccessfulResetTasks(stage, e) ==
    MarkLost(stage, TasksOn(stage, e, {"success"}))

\* A partition is done when the latest task that holds it is Successful.
LatestTask(stage, p) ==
    LET holding == {t \in DOMAIN stage.tasks : p \in ToSet(stage.tasks[t].parts)}
    IN  CHOOSE t \in holding : \A u \in holding : u <= t

\* The partitions to run again, in order.
Redo(stage, s) ==
    FlattenSeq([p \in PartitionIds(s) |->
        IF stage.tasks[LatestTask(stage, p)].st = "success" THEN <<>> ELSE <<p>>])

\* Mutant: the attempt number is kept.
RerunSameAttempt(stage, s) ==
    [stage EXCEPT !.state   = "Running",
                  !.pending = Redo(stage, s),
                  !.fails   = [p \in PartitionIds(s) |-> 0],
                  !.reasons = {}]

SuccessfulToRunning(stage, s) ==
    [stage EXCEPT !.state   = "Running",
                  !.attempt = @ + 1,
                  !.pending = Redo(stage, s),
                  !.fails   = [p \in PartitionIds(s) |-> 0],
                  !.reasons = {}]

-----------------------------------------------------------------------------
(* The shape of a stage. *)

Locations ==
    [task : Nat \ {0}, exec : Executors, attempt : Nat, parts : SUBSET (Nat \ {0})]

StageType(s) ==
    [state   : StageStates,
     attempt : Nat,
     pending : Seq(PartitionIds(s)),
     tasks   : Seq([parts : Seq(PartitionIds(s)) \ {<<>>}, exec : Executors,
                    st : TaskStates, attempt : Nat]),
     fails   : [PartitionIds(s) -> Nat],
     inputs  : [Inputs[s] -> [locs : SUBSET Locations, complete : BOOLEAN]],
     reasons : SUBSET Executors]

IsStage(s, stage) ==
    /\ stage \in StageType(s)
    /\ \A t \in DOMAIN stage.tasks : stage.tasks[t].attempt <= stage.attempt
    /\ \A m \in Inputs[s] : \A l \in stage.inputs[m].locs : l.parts \subseteq PartitionIds(m)
=============================================================================
