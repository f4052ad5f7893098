---------------------------- MODULE AdaptiveGraph ----------------------------
(***************************************************************************)
(* AdaptiveExecutionGraph (state/aqe/mod.rs): the stages of one job whose  *)
(* plan AdaptivePlanner revises while they run.  A stage reads what was in *)
(* the plan when it was created, and goes on running when a later plan has *)
(* no place for it any more.                                               *)
(*                                                                         *)
(* A task is one partition of its stage.  Slices of several partitions,    *)
(* and statuses that arrive after their task was reset, are the subject of *)
(* ExecutionGraph, whose stages these are.                                 *)
(***************************************************************************)
EXTENDS AdaptivePlanner

CONSTANTS
    Executors,
    Scenarios,          \* [plan, tables, executors, faults] records, see Init
    MaxBatch,           \* statuses in one update
    MaxTaskFailures,
    MaxStageFailures

FaultKinds == {"retry", "fatal", "fetch", "loss"}

VARIABLES
    query,              \* the query and the content of its tables, never changed
    graph,              \* the AdaptiveExecutionGraph
    alive,              \* executors not lost
    faults              \* faults still to come, once each

vars == <<query, graph, alive, faults>>

Idle == [on |-> "none", state |-> "idle"]

-----------------------------------------------------------------------------
(* What a stage computes.  Rows of a scan lie off the partition they hash  *)
(* to, so that only an exchange brings equal keys together.                *)

JoinRows(jt, l, r) ==
    [k \in Keys |->
        CASE jt = "Inner" -> l[k] * r[k]
          [] jt = "Left" -> IF r[k] = 0 THEN l[k] ELSE l[k] * r[k]
          [] jt = "Right" -> IF l[k] = 0 THEN r[k] ELSE l[k] * r[k]
          [] jt = "Full" -> IF l[k] = 0 \/ r[k] = 0 THEN l[k] + r[k] ELSE l[k] * r[k]
          [] jt = "LeftSemi" -> IF r[k] = 0 THEN 0 ELSE l[k]
          [] jt = "RightSemi" -> IF l[k] = 0 THEN 0 ELSE r[k]
          [] jt = "LeftAnti" -> IF r[k] = 0 THEN l[k] ELSE 0
          [] OTHER -> IF l[k] = 0 THEN r[k] ELSE 0]

GroupRows(rows) == [k \in Keys |-> IF rows[k] = 0 THEN 0 ELSE 1]

\* Partition p of an operator's output in one task.
RECURSIVE Rows(_, _, _)
Rows(n, slots, p) ==
    CASE n.op = "scan" -> OfPartition(query.tables[n.table], (p + 1) % target_partitions)
      [] n.op = "empty" -> NoRows
      [] n.op = "exchange" -> Read(n, slots, p)
      [] n.op = "coalesce" ->
            AllRows([q \in 0..(Count(n.in) - 1) |-> Rows(n.in, slots, q)])
      [] n.op = "aggregate" -> GroupRows(Rows(n.in, slots, p))
      [] n.op = "join" ->
            JoinRows(n.jt,
                     Rows(n.left, slots, IF n.mode = "CollectLeft" THEN 0 ELSE p),
                     Rows(n.right, slots, p))
      [] OTHER -> Rows(n.in, slots, p)

\* What the query means.
RECURSIVE Answer(_)
Answer(n) ==
    CASE n.op = "scan" -> query.tables[n.table]
      [] n.op \in Binary -> JoinRows(n.jt, Answer(n.left), Answer(n.right))
      [] OTHER -> GroupRows(Answer(n.in))

-----------------------------------------------------------------------------
(* Stages.                                                                 *)

\* The exchanges a stage's operators read, and all its operators.
RECURSIVE Readers(_)
Readers(n) ==
    CASE n.op = "exchange" -> {n}
      [] n.op \in Leaf -> {}
      [] n.op \in Binary -> Readers(n.left) \union Readers(n.right)
      [] OTHER -> Readers(n.in)

RECURSIVE Operators(_)
Operators(n) ==
    {n.op} \union
    CASE n.op \in Leaf \union {"exchange"} -> {}
      [] n.op \in Binary -> Operators(n.left) \union Operators(n.right)
      [] OTHER -> Operators(n.in)

Tasks(stage) == DOMAIN stage.tasks
Available(stage) == {p \in Tasks(stage) : stage.tasks[p].state = "idle"}
AllDone(stage) == \A p \in Tasks(stage) : stage.tasks[p].state = "ok"

\* adapt_to_ballista: readers for the exchanges, with their locations.
create_resolved_stage(pl, n) ==
    LET partitions == 0..(Count(n.in) - 1)
        readers    == Readers(n.in)
    IN  [state   |-> "Resolved",
         attempt |-> 0,
         rows    |-> [p \in partitions |-> Rows(n.in, pl.slots, p)],
         inputs  |-> [id \in {pl.slots[x.slot].stage : x \in readers} |->
                        DOMAIN pl.slots[SlotOf(pl, id)].shuffle],
         tasks   |-> [p \in partitions |-> Idle],
         failures |-> [p \in partitions |-> 0]]

\* actionable_stages, and the stages inserted for what it returns.
NextStages(g) ==
    LET pl       == identify_runnable_stages(g.planner)
        runnable == RunnableStages(pl)
        ids      == {pl.slots[runnable[i].slot].stage : i \in DOMAIN runnable}
        node(id) == CHOOSE n \in Range(runnable) : pl.slots[n.slot].stage = id
    IN  [g EXCEPT !.planner = cancel_stages(pl, ids),
                  !.stages  = @ @@ [id \in ids \ DOMAIN @ |->
                                        create_resolved_stage(pl, node(id))]]

try_new(plan) ==
    NextStages([planner |-> NewPlanner(plan), stages |-> <<>>, status |-> "running",
                output_locations |-> <<>>, failed_stage_attempts |-> {}])

Init ==
    \E s \in Scenarios :
        /\ query = [plan |-> s.plan, tables |-> s.tables]
        /\ graph = try_new(s.plan)
        /\ alive = s.executors
        /\ faults = s.faults

revive(g) ==
    [g EXCEPT !.stages = [id \in DOMAIN @ |->
        IF @[id].state = "Resolved" THEN [@[id] EXCEPT !.state = "Running"] ELSE @[id]]]

Schedulable(g) ==
    {id \in DOMAIN g.stages : g.stages[id].state = "Running" /\ Available(g.stages[id]) # {}}

\* fetch_running_stage, and the binding of one of its tasks.
LaunchTask(x) ==
    LET g == IF Schedulable(graph) = {} THEN revive(graph) ELSE graph
    IN  /\ graph.status = "running" /\ x \in alive
        /\ \E id \in Schedulable(g) : \E p \in Available(g.stages[id]) :
              graph' = [g EXCEPT !.stages[id].tasks[p] = [on |-> x, state |-> "running"]]
        /\ UNCHANGED <<query, alive, faults>>

-----------------------------------------------------------------------------
(* update_task_status                                                      *)

\* What the handler holds while it goes through the stages of its statuses.
Work(g) == [g |-> revive(g), attempts |-> g.failed_stage_attempts, successful |-> {},
            failed |-> {}, rollback |-> {}, resubmit |-> {}, err |-> FALSE]

\* update_stage_progress: once the root is resolved no stage is left to run.
Proceed(g, pl, output) ==
    IF RunnableStages(pl) = <<>>
    THEN [g EXCEPT !.planner = cancel_stages(pl, {}), !.output_locations = output]
    ELSE NextStages([g EXCEPT !.planner = pl])

update_stage_progress(g, id, completed, locations) ==
    LET updated == update_exchange_locations(g.planner, id, locations)
    IN  IF ~completed \/ ~is_stage_active(updated, id) THEN [g EXCEPT !.planner = updated]
        ELSE Proceed(g, finalise_stage(updated, id), updated.runnable_stage_output[id])

\* Mutant: a task that may run again is not put back.
UpdateWithoutReset(stage, p, outcome) ==
    CASE outcome = "ok" -> [stage EXCEPT !.tasks[p].state = "ok"]
      [] outcome = "retry" -> [stage EXCEPT !.tasks[p].state = "failed", !.failures[p] = @ + 1]
      [] OTHER -> [stage EXCEPT !.tasks[p].state = "failed"]

\* update_task_info, with reset_task_info for a task that is to run again.
update_task_info(stage, p, outcome) ==
    CASE outcome = "ok" -> [stage EXCEPT !.tasks[p].state = "ok"]
      [] outcome = "retry" -> [stage EXCEPT !.tasks[p] = Idle, !.failures[p] = @ + 1]
      [] OTHER -> [stage EXCEPT !.tasks[p].state = "failed"]

\* The locations of a stage's input that a fetch failure on executor x takes.
OnExecutor(locations, x) == {l \in locations : l[2] = x}

\* The statuses of one stage: outcomes of some of its partitions, which ran
\* on executor x.  A fetch failure blames map stage m and executor y.
UpdateStage(w, id, x, outcomes, m, y) ==
    LET stage    == w.g.stages[id]
        of(o)    == {p \in DOMAIN outcomes : outcomes[p] = o}
        updated  == FoldSet(LAMBDA p, s : update_task_info(s, p, outcomes[p]),
                            stage, DOMAIN outcomes)
        attempts == IF of("fetch") = {} THEN w.attempts
                    ELSE w.attempts \union {<<id, stage.attempt>>}
        refetch  == /\ of("fetch") # {}
                    /\ Cardinality({a \in attempts : a[1] = id}) < MaxStageFailures
        lost     == {l[1] : l \in OnExecutor(stage.inputs[m], y)}
        fails    == \/ of("fatal") # {}
                    \/ \E p \in of("retry") : updated.failures[p] >= MaxTaskFailures
                    \/ of("fetch") # {} /\ ~refetch
        fetched  == IF refetch
                    THEN [updated EXCEPT !.inputs[m] = @ \ OnExecutor(@, y)]
                    ELSE updated
        done     == AllDone(updated)
        g        == [w.g EXCEPT !.stages[id] = fetched]
        next     == [w EXCEPT !.attempts = attempts,
                              !.successful = IF done THEN @ \union {id} ELSE @,
                              !.failed = IF fails THEN @ \union {id} ELSE @,
                              !.rollback = IF refetch THEN @ \union {id} ELSE @,
                              !.resubmit = IF refetch THEN @ \union {<<m, p>> : p \in lost}
                                           ELSE @]
        locations == [l \in of("ok") \X {x} |-> stage.rows[l[1]]]
    IN  CASE w.err \/ stage.state # "Running" -> w
          [] id \notin DOMAIN g.planner.runnable_stage_output ->
                [next EXCEPT !.g = g, !.err = TRUE]
          [] OTHER -> [next EXCEPT !.g = update_stage_progress(g, id, done, locations)]

\* rollback_running_stage, rerun_successful_stage and succeed_stage
Rollback(stage) ==
    [stage EXCEPT !.state = "UnResolved",
                  !.attempt = IF stage.state = "Running" THEN @ + 1 ELSE @,
                  !.tasks = [p \in DOMAIN @ |-> Idle]]

Rerun(stage, lost) ==
    [stage EXCEPT !.state = "Running", !.attempt = @ + 1,
                  !.tasks = [p \in DOMAIN @ |-> IF p \in lost THEN Idle ELSE @[p]],
                  !.failures = [p \in DOMAIN @ |-> 0]]

succeed_stages(g, ids) ==
    [g EXCEPT !.stages = [id \in DOMAIN @ |->
                            IF id \in ids THEN [@[id] EXCEPT !.state = "Successful"] ELSE @[id]],
              !.failed_stage_attempts = {a \in @ : a[1] \notin ids}]

is_successful(g) == \A id \in DOMAIN g.stages : g.stages[id].state = "Successful"

\* processing_stages_update
processing_stages_update(w) ==
    LET done  == succeed_stages([w.g EXCEPT !.failed_stage_attempts = w.attempts], w.successful)
        lost(id) == {p \in Tasks(done.stages[id]) : <<id, p>> \in w.resubmit}
        moved == [done EXCEPT !.stages = [id \in DOMAIN @ |->
                    CASE id \in w.rollback -> Rollback(@[id])
                      [] lost(id) # {} /\ @[id].state = "Successful" -> Rerun(@[id], lost(id))
                      [] OTHER -> @[id]]]
    IN  CASE w.failed # {} -> [done EXCEPT !.status = "failed"]
          [] is_successful(moved) -> [moved EXCEPT !.status = "successful"]
          [] OTHER -> moved

\* The statuses of a batch as a function from stages to outcomes of their
\* partitions, and the stages in the order of the handler's hash map.
Updated(w) == IF w.err THEN w.g ELSE processing_stages_update(w)

update_task_status(g, x, statuses, order, m, y) ==
    LET update(w, id) == UpdateStage(w, id, x, statuses[id], m, y)
    IN  Updated(FoldLeft(update, Work(g), order))

RunningOn(x) ==
    {<<id, p>> \in UNION {{id} \X Tasks(graph.stages[id]) : id \in DOMAIN graph.stages} :
        /\ graph.stages[id].state = "Running"
        /\ graph.stages[id].tasks[p] = [on |-> x, state |-> "running"]}

\* A batch S of finished tasks of executor x, one of which may have failed.
Report(x, S, outcome, m, y) ==
    LET ids == {t[1] : t \in S}
        statuses == [id \in ids |-> [p \in {t[2] : t \in {u \in S : u[1] = id}} |->
                                        outcome[<<id, p>>]]]
    IN  \E order \in SetToSeqs(ids) :
            graph' = update_task_status(graph, x, statuses, order, m, y)

TasksSucceed(x) ==
    /\ graph.status = "running"
    /\ \E n \in 1..MaxBatch : \E S \in kSubset(n, RunningOn(x)) :
          Report(x, S, [t \in S |-> "ok"], 0, x)
    /\ UNCHANGED <<query, alive, faults>>

TaskFails(x, fault) ==
    /\ graph.status = "running" /\ fault \in faults
    /\ \E n \in 1..MaxBatch : \E S \in kSubset(n, RunningOn(x)) : \E t \in S :
          Report(x, S, [u \in S |-> IF u = t THEN fault ELSE "ok"], 0, x)
    /\ faults' = faults \ {fault}
    /\ UNCHANGED <<query, alive>>

\* A task could not read what map stage m left on executor y.
FetchFails(x) ==
    /\ graph.status = "running" /\ "fetch" \in faults
    /\ \E n \in 1..MaxBatch : \E S \in kSubset(n, RunningOn(x)) : \E t \in S :
       \E m \in DOMAIN graph.stages[t[1]].inputs : \E l \in graph.stages[t[1]].inputs[m] :
          Report(x, S, [u \in S |-> IF u = t THEN "fetch" ELSE "ok"], m, l[2])
    /\ faults' = faults \ {"fetch"}
    /\ UNCHANGED <<query, alive>>

-----------------------------------------------------------------------------
(* reset_stages_on_lost_executor                                           *)

reset_stages_internal(g, x) ==
    LET stage(id) == g.stages[id]
        open      == {id \in DOMAIN g.stages : stage(id).state # "Successful"}
        hits(id)  == {m \in DOMAIN stage(id).inputs : OnExecutor(stage(id).inputs[m], x) # {}}
        resubmit  == UNION {hits(id) : id \in open}
        lost(id)  == {p \in Tasks(stage(id)) : /\ stage(id).tasks[p].on = x
                                               /\ stage(id).tasks[p].state \in {"running", "ok"}}
        reset     == {id \in open : stage(id).state = "Running" /\ lost(id) # {}}
        kept(id)  == [stage(id) EXCEPT
                        !.inputs = [m \in DOMAIN @ |-> @[m] \ OnExecutor(@[m], x)],
                        !.tasks  = [p \in DOMAIN @ |-> IF p \in lost(id) THEN Idle ELSE @[p]]]
        forget(pl, id) == remove_exchange_locations(pl, id, x)
    IN  [g EXCEPT
            !.planner = FoldSet(LAMBDA id, pl : forget(pl, id), @, reset),
            !.stages  = [id \in DOMAIN @ |->
                CASE id \in open /\ hits(id) # {} -> Rollback(kept(id))
                  [] id \in open -> kept(id)
                  [] id \in resubmit /\ lost(id) # {} -> Rerun(@[id], lost(id))
                  [] OTHER -> @[id]]]

RECURSIVE reset_stages_on_lost_executor(_, _)
reset_stages_on_lost_executor(g, x) ==
    LET next == reset_stages_internal(g, x)
    IN  IF next = g THEN g ELSE reset_stages_on_lost_executor(next, x)

ExecutorLost(x) ==
    /\ graph.status = "running" /\ "loss" \in faults /\ alive # {x} /\ x \in alive
    /\ graph' = reset_stages_on_lost_executor(graph, x)
    /\ alive' = alive \ {x}
    /\ faults' = faults \ {"loss"}
    /\ UNCHANGED query

Ended == graph.status # "running" /\ UNCHANGED vars

Next ==
    \/ \E x \in Executors : LaunchTask(x)
    \/ \E x \in Executors : TasksSucceed(x)
    \/ \E x \in Executors, fault \in {"retry", "fatal"} : TaskFails(x, fault)
    \/ \E x \in Executors : FetchFails(x)
    \/ \E x \in Executors : ExecutorLost(x)
    \/ Ended

Spec == Init /\ [][Next]_vars

-----------------------------------------------------------------------------
(* Properties.                                                             *)

StageStates == {"UnResolved", "Resolved", "Running", "Successful"}

\* Stages are what create_resolved_stage makes, in a state of their own, and
\* the planner knows the stages it collects locations for.
TypeOK ==
    /\ alive \subseteq Executors /\ faults \subseteq FaultKinds
    /\ graph.status \in {"running", "failed", "successful"}
    /\ \A id \in DOMAIN graph.stages :
          /\ graph.stages[id].state \in StageStates
          /\ \A p \in Tasks(graph.stages[id]) :
                graph.stages[id].tasks[p] \in
                    {Idle} \union [on : Executors, state : {"running", "ok", "failed"}]
    /\ graph.planner.runnable_stage_cache \subseteq DOMAIN graph.planner.runnable_stage_output
    /\ DOMAIN graph.planner.runnable_stage_output \subseteq DOMAIN graph.stages

\* A job that succeeds has the rows of its query: none is lost or counted
\* twice, whatever plan the adaptive rules chose along the way, however the
\* stages were superseded, and whatever tasks ran again.
AnswerCorrect ==
    graph.status = "successful" => AllRows(graph.output_locations) = Answer(query.plan)

\* Every stage the plan waits for exists, and the planner accepts its end:
\* is_stage_active is false of superseded stages only.
RunnableIsActive ==
    LET runnable == Range(RunnableStages(graph.planner))
        waits    == {graph.planner.slots[n.slot].stage : n \in runnable}
    IN  graph.status = "running" => waits \subseteq graph.planner.runnable_stage_cache

\* A stage that may run has no join left to decide and no repartition inside,
\* which would see one task's rows only.
StagesExecutable ==
    \A n \in Range(RunnableStages(graph.planner)) :
        Operators(n.in) \intersect {"dynamic", "repartition"} = {}

\* A completed stage ran again, or a stage lost its inputs: adaptive graphs
\* do not recover from either (docs/source/contributors-guide/architecture.md).
Recovering ==
    \E id \in DOMAIN graph.stages :
        graph.stages[id].state = "UnResolved" \/ graph.stages[id].attempt > 0

\* A job that runs has a task to launch or to wait for, unless it would have
\* to recover a lost shuffle output.  A stage is created once and each of its
\* tasks ends once, or uses up a fault: what never stops short ends.
NeverStuck ==
    graph.status = "running" /\ ~Recovering =>
        \E id \in DOMAIN graph.stages :
            \/ graph.stages[id].state = "Resolved"
            \/ /\ graph.stages[id].state = "Running"
               /\ \E p \in Tasks(graph.stages[id]) :
                     graph.stages[id].tasks[p].state \in {"idle", "running"}
=============================================================================
