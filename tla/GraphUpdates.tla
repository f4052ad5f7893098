---------------------------- MODULE GraphUpdates ----------------------------
(***************************************************************************)
(* The handlers of an execution graph that several stages take part in     *)
(* (scheduler/src/state/execution_graph.rs, StaticExecutionGraph), as      *)
(* operators from a graph to a graph.  Each runs under the graph's write   *)
(* lock.  The loops of update_task_status are folds over the batch.        *)
(*                                                                         *)
(* A graph is a record of its stages, its status, failed_stage_attempts    *)
(* and the locations of its output.                                        *)
(***************************************************************************)
EXTENDS ExecutionStage

CONSTANTS
    MaxTaskFailures,   \* task_max_failures
    MaxStageFailures   \* stage_max_failures

ASSUME LimitsAssumption ==
    /\ MaxTaskFailures \in Nat \ {0}
    /\ MaxStageFailures \in Nat \ {0}

OutputLinks(s) == {p \in Stages : s \in Inputs[p]}

StagesIn(g, state) == {s \in Stages : g.stages[s].state = state}

SetStage(g, s, stage) == [g EXCEPT !.stages[s] = stage]

\* A change of every stage of a set, each by itself.
Each(g, S, Change(_, _)) ==
    [g EXCEPT !.stages = [s \in Stages |->
        IF s \in S THEN Change(g.stages[s], s) ELSE g.stages[s]]]

\* The running tasks of the stages, as (stage, task, executor) keys.
TaskKeys(g, S) ==
    UNION {{[stage |-> s, task |-> t, exec |-> g.stages[s].tasks[t].exec] :
               t \in RunningTasks(g.stages[s])} : s \in S}

-----------------------------------------------------------------------------
(* State transitions of the stages of a graph.  Three of them take the     *)
(* stage out of the map before looking at its state, so a stage found in   *)
(* another state is lost.                                                  *)

Revive(g) == Each(g, StagesIn(g, "Resolved"), ResolvedToRunning)

ResolveStage(stage, s) ==
    IF stage.state = "UnResolved" THEN ToResolved(stage) ELSE stage

Removed(stage) == [stage EXCEPT !.state = "Removed"]

SucceedStage(stage, s) ==
    IF stage.state = "Running" THEN ToSuccessful(stage) ELSE Removed(stage)

FailStage(stage, s) ==
    IF stage.state = "Running" THEN ToFailed(stage) ELSE Removed(stage)

RerunSuccessfulStage(stage, s) ==
    IF stage.state = "Successful" THEN SuccessfulToRunning(stage, s) ELSE Removed(stage)

GraphSuccessful(g) ==
    \A s \in Stages : g.stages[s].state \in {"Successful", "Removed"}

-----------------------------------------------------------------------------
(* update_task_status.  acc is the handler's local state: the graph being  *)
(* changed, the copy of failed_stage_attempts, the sets of UpdatedStages,  *)
(* the locations the current stage's statuses produced, and err once a     *)
(* "?" has returned.                                                       *)

NoUpdates(g) ==
    [g          |-> g,
     current    |-> StagesIn(g, "Running"),
     attempts   |-> g.failed_attempts,
     locs       |-> {},
     resolved   |-> {},
     successful |-> {},
     failed     |-> {},
     rollback   |-> [s \in Stages |-> {}],
     resubmit   |-> {},
     reset      |-> {},
     err        |-> FALSE]

StagesOf(missing) == {x.stage : x \in missing}
TaskIdsOf(missing, s) == UNION {x.ids : x \in {y \in missing : y.stage = s}}

\* partition_to_location: where the output of a finished task is.
PartitionToLocation(stage, r) ==
    [task |-> r.task, exec |-> r.exec, attempt |-> r.attempt,
     parts |-> ToSet(stage.tasks[r.task].parts)]

\* A FetchPartitionError of a running stage: the attempt counts as failed;
\* below the limit the inputs on the executor go, the stage rolls back and
\* the input stage is resubmitted.
FetchFailure(acc, s, r) ==
    LET stage   == acc.g.stages[s]
        counted == [acc EXCEPT !.attempts[s] = @ \union {r.attempt}]
    IN  IF Cardinality(counted.attempts[s]) >= MaxStageFailures
        THEN [counted EXCEPT !.failed = @ \union {s}]
        ELSE IF acc.failed # {} THEN counted
        ELSE [counted EXCEPT
                !.g        = SetStage(@, s,
                               RemoveInputPartitions(stage, r.map, r.from)),
                !.rollback[s] = @ \union {r.from},
                !.resubmit = @ \union {[stage |-> r.map,
                               ids |-> RemovedTaskIds(stage, r.map, r.from)]}]

FailOrRetry(acc, s, r) ==
    LET stage == acc.g.stages[s]
    IN  IF r.kind = "io" /\ FailuresExhausted(stage, r.task, MaxTaskFailures)
        THEN [acc EXCEPT !.failed = @ \union {s}]
        ELSE [acc EXCEPT !.g = SetStage(@, s, ResetTaskInfo(stage, r.task))]

\* One status of a Running stage; those of an earlier attempt and of a task that
\* was reset are ignored.
ApplyStatus(acc, r) ==
    LET s     == r.stage
        stage == acc.g.stages[s]
        next  == [acc EXCEPT !.g =
                    SetStage(@, s, UpdateTaskInfo(stage, r.task, r.kind))]
    IN  CASE r.kind = "success" ->
                [next EXCEPT !.locs = @ \union {PartitionToLocation(stage, r)}]
          [] r.kind = "fetch"  -> FetchFailure(next, s, r)
          [] r.kind = "exec"   -> [next EXCEPT !.failed = @ \union {s}]
          [] Retryable(r.kind) -> FailOrRetry(next, s, r)

\* Mutant: a status of an earlier stage attempt is applied.
StatusOfAnyAttempt(acc, r) ==
    LET tasks == acc.g.stages[r.stage].tasks
    IN  IF r.task \notin DOMAIN tasks \/ WasReset(tasks[r.task])
        THEN acc ELSE ApplyStatus(acc, r)

StatusOfRunning(acc, r) ==
    LET stage == acc.g.stages[r.stage]
    IN  IF r.attempt < stage.attempt \/ WasReset(stage.tasks[r.task])
        THEN acc ELSE ApplyStatus(acc, r)

\* update_stage_output_links, once the statuses of a Running stage are applied.
PublishOutput(acc, s) ==
    LET stage  == acc.g.stages[s]
        final  == IsSuccessful(stage, s) /\ s \notin StagesOf(acc.reset)
        marked == IF final THEN [acc EXCEPT !.successful = @ \union {s}] ELSE acc
        Linked(p) ==
            LET added == AddInputPartitions(acc.g.stages[p], s, acc.locs)
            IN  IF final THEN CompleteInput(added, s) ELSE added
        links  == OutputLinks(s)
        done   == [marked EXCEPT !.locs = {}]
    IN  IF links = {} THEN [done EXCEPT !.g.output = @ \union acc.locs]
        ELSE IF \E p \in links : acc.g.stages[p].state # "UnResolved"
        THEN [done EXCEPT !.err = TRUE]
        ELSE [done EXCEPT
                !.g.stages = [p \in Stages |->
                                IF p \in links THEN Linked(p) ELSE @[p]],
                !.resolved = @ \union {p \in links : Resolvable(Linked(p))}]

\* Mutant: a late fetch failure resubmits its running map stage.
ResubmitRunning(acc, r) ==
    LET stage == acc.g.stages[r.stage]
    IN  IF /\ stage.attempt = r.attempt + 1 /\ r.kind = "fetch"
           /\ r.map \in acc.current
        THEN [acc EXCEPT !.resubmit = @ \union {[stage |-> r.map,
                 ids |-> RemovedTaskIds(stage, r.map, r.from)]}]
        ELSE acc

\* A late status of the attempt that was rolled back.
StatusOfUnResolved(acc, r) ==
    LET s     == r.stage
        stage == acc.g.stages[s]
        late  == stage.attempt = r.attempt + 1
    IN  CASE late /\ r.kind = "exec" -> [acc EXCEPT !.failed = @ \union {s}]
          [] /\ late /\ r.kind = "fetch" /\ acc.failed = {}
             /\ r.map \in acc.current /\ r.from \notin stage.reasons ->
                [acc EXCEPT
                   !.g = SetStage(@, s,
                      [RemoveInputPartitions(stage, r.map, r.from) EXCEPT
                          !.reasons = @ \union {r.from}]),
                   !.reset = @ \union {[stage |-> r.map,
                      ids |-> RemovedTaskIds(stage, r.map, r.from)]},
                   !.successful = @ \ {r.map},
                   !.resolved = @ \ {s}]
          [] OTHER -> acc

\* The statuses of one stage.
ApplyGroup(acc, group) ==
    LET s == group.stage
        state == acc.g.stages[s].state
    IN  CASE acc.err                -> acc
          [] ~acc.err /\ state = "Running" ->
                PublishOutput(FoldLeft(StatusOfRunning, acc, group.statuses), s)
          [] ~acc.err /\ state = "UnResolved" ->
                FoldLeft(StatusOfUnResolved, acc, group.statuses)
          [] ~acc.err /\ state = "Removed" -> [acc EXCEPT !.err = TRUE]
          [] OTHER                  -> acc

\* Resubmitting marks the tasks of a Successful stage, resetting restarts the
\* tasks of a Running one; a stage in another state only logs.  An id past the
\* end of task_infos returns an error after the valid ids were applied.
ValidIds(stage, ids) == ids \intersect DOMAIN stage.tasks

HasInvalid(g, missing, state) ==
    \E x \in missing :
       \/ g.stages[x.stage].state = "Removed"
       \/ /\ g.stages[x.stage].state = state
          /\ \E t \in x.ids : t \notin DOMAIN g.stages[x.stage].tasks

MarkResubmitted(g, missing) ==
    Each(g, StagesOf(missing) \intersect StagesIn(g, "Successful"), LAMBDA stage, s :
        MarkLost(stage, ValidIds(stage, TaskIdsOf(missing, s))))

ResetRunning(g, missing) ==
    Each(g, StagesOf(missing) \intersect StagesIn(g, "Running"), LAMBDA stage, s :
        ResetTaskInfos(stage, ValidIds(stage, TaskIdsOf(missing, s))))

\* processing_stages_update: the graph, the job events and the tasks to cancel.
ProcessStagesUpdate(g, acc) ==
    LET resolved  == Each(g, acc.resolved, ResolveStage)
        succeeded == [Each(resolved, acc.successful, SucceedStage) EXCEPT
                         !.failed_attempts = [s \in Stages |->
                            IF s \in acc.successful /\ resolved.stages[s].state = "Running"
                            THEN {} ELSE @[s]]]
        back      == {s \in StagesIn(succeeded, "Running") : acc.rollback[s] # {}}
        rolled    == Each(succeeded, back, LAMBDA stage, s :
                        RunningToUnresolved(stage, acc.rollback[s]))
        rerun     == Each(rolled, StagesOf(acc.resubmit), RerunSuccessfulStage)
    IN  CASE acc.failed # {} ->
                [g |-> [succeeded EXCEPT !.status = "Failed"],
                 events |-> <<"JobRunningFailed">>, cancels |-> {}]
          [] acc.failed = {} /\ GraphSuccessful(rerun) ->
                [g |-> [rerun EXCEPT !.status = "Successful"],
                 events |-> <<"JobFinished">>,
                 cancels |-> TaskKeys(succeeded, back)]
          [] OTHER ->
                [g |-> rerun,
                 events |-> IF acc.resolved = {} THEN <<>> ELSE <<"JobUpdated">>,
                 cancels |-> TaskKeys(succeeded, back)]

UpdateTaskStatus(g, groups) ==
    LET acc      == FoldLeft(ApplyGroup, NoUpdates(Revive(g)), groups)
        saved    == [acc.g EXCEPT !.failed_attempts = acc.attempts]
        marked   == MarkResubmitted(saved, acc.resubmit)
        restarted == ResetRunning(marked, acc.reset)
        Failing(h) == [g |-> h, events |-> <<>>, cancels |-> {}]
    IN  CASE acc.err -> Failing(acc.g)
          [] ~acc.err /\ HasInvalid(saved, acc.resubmit, "Successful") ->
                Failing(marked)
          [] /\ ~acc.err /\ ~HasInvalid(saved, acc.resubmit, "Successful")
             /\ HasInvalid(marked, acc.reset, "Running") -> Failing(restarted)
          [] OTHER -> ProcessStagesUpdate(restarted, acc)

-----------------------------------------------------------------------------
(* reset_stages_on_lost_executor: reset_stages_internal until nothing is   *)
(* reset.  A pass without effect changes nothing, so the model runs the    *)
(* most passes the depth of the graph can need.                            *)

ResetStagesInternal(acc, e) ==
    LET g      == acc.g
        Active(s) == g.stages[s].state \in {"UnResolved", "Resolved", "Running"}
        Hit(s) == {m \in Inputs[s] : OnExecutor(g.stages[s].inputs[m].locs, e) # {}}
        Purged(s) ==
            LET stage == IF g.stages[s].state = "Running"
                         THEN RunningResetTasks(g.stages[s], e) ELSE g.stages[s]
            IN  [stage EXCEPT !.inputs = [m \in Inputs[s] |->
                    IF m \in Hit(s)
                    THEN RemoveInputPartitions(stage, m, e).inputs[m] ELSE @[m]]]
        resubmit == UNION {Hit(s) : s \in {p \in Stages : Active(p)}}
        After(s) ==
            CASE Active(s) /\ Hit(s) # {} /\ g.stages[s].state = "Resolved" ->
                    ResolvedToUnresolved(Purged(s))
              [] Active(s) /\ Hit(s) # {} /\ g.stages[s].state = "Running" ->
                    RunningToUnresolved(Purged(s), {e})
              [] /\ g.stages[s].state = "Successful" /\ s \in resubmit
                 /\ TasksOn(g.stages[s], e, {"success"}) # {} ->
                    SuccessfulToRunning(SuccessfulResetTasks(g.stages[s], e), s)
              [] OTHER -> IF Active(s) THEN Purged(s) ELSE g.stages[s]
        purged == [g EXCEPT !.stages =
                      [s \in Stages |-> IF Active(s) THEN Purged(s) ELSE @[s]]]
        back   == {s \in StagesIn(g, "Running") : Hit(s) # {}}
    IN  [g |-> [g EXCEPT !.stages = [s \in Stages |-> After(s)]],
         cancels |-> acc.cancels \union TaskKeys(purged, back)]

ResetStagesOnLostExecutor(g, e) ==
    FoldLeft(ResetStagesInternal, [g |-> g, cancels |-> {}],
             [i \in 1 .. Cardinality(Stages) + 1 |-> e])

\* abort_running: every running stage fails, its tasks are to be cancelled.
AbortRunning(g) ==
    [g |-> Each([g EXCEPT !.status = "Failed"], StagesIn(g, "Running"), FailStage),
     cancels |-> TaskKeys(g, StagesIn(g, "Running"))]

-----------------------------------------------------------------------------
(* The shape of a graph and of what it is told. *)

IsGraph(g) ==
    /\ DOMAIN g = {"stages", "status", "failed_attempts", "output"}
    /\ g.stages = [s \in Stages |-> g.stages[s]]
    /\ \A s \in Stages : IsStage(s, g.stages[s])
    /\ g.status \in {"Running", "Failed", "Successful"}
    /\ g.failed_attempts \in [Stages -> SUBSET Nat]
    /\ g.output \subseteq Locations

TaskKeyType == [stage : Stages, task : Nat \ {0}, exec : Executors]

\* What an executor reports: a fetch failure names an input of the stage.
StatusType ==
    {r \in [stage : Stages, attempt : Nat, task : Nat \ {0}, exec : Executors,
            kind : Reported, map : Stages \union {"none"},
            from : Executors \union {"none"}] :
        r.kind = "fetch" => r.map \in Inputs[r.stage] /\ r.from \in Executors}

\* The graph knows of every task that executes or has reported: its stage is at
\* the attempt of the task or at a later one, and at the same attempt the task is
\* in task_infos as it was launched.
Tracks(stage, r) ==
    /\ r.attempt <= stage.attempt
    /\ r.attempt = stage.attempt =>
          /\ stage.state \notin {"UnResolved", "Resolved"}
          /\ r.task \in DOMAIN stage.tasks
          /\ stage.tasks[r.task].attempt = r.attempt
          /\ stage.tasks[r.task].exec = r.exec
=============================================================================
