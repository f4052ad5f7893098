--------------------------- MODULE ExecutionGraph ---------------------------
(***************************************************************************)
(* The execution graph of one job (scheduler/src/state/execution_graph.rs, *)
(* StaticExecutionGraph) together with what surrounds it: the binding of   *)
(* task slices to executors, the executors that run them and report, task  *)
(* cancellation, executor loss, and the events that end the job.           *)
(*                                                                         *)
(* Every handler of the graph runs under the graph's write lock, so each   *)
(* is one action; GraphUpdates says what it does to the graph.             *)
(***************************************************************************)
EXTENDS GraphUpdates

CONSTANTS
    MaxSlice,          \* most partitions one bind hands to a task
    MaxBatch,          \* most statuses one TaskUpdating event carries
    Faults             \* a set of [fault -> Nat]: how often each fault may happen

FaultKinds == {"fetch", "io", "exec", "crash", "expiry"}

ASSUME GraphAssumption ==
    /\ MaxSlice \in Nat \ {0}
    /\ MaxBatch \in Nat \ {0}
    /\ Faults \subseteq [FaultKinds -> Nat]

VARIABLES
    graph,     \* [stages, status, failed_attempts, output]
    events,    \* job events posted and not handled yet, oldest first
    evicted,   \* the job has left active_job_cache
    running,   \* tasks the executors are executing
    reports,   \* statuses that have not reached the graph
    cancels,   \* cancel_tasks calls on their way to an executor
    exec,      \* [Executors -> up, crashed or gone (removed)]
    faults     \* faults left of each kind

vars == <<graph, events, evicted, running, reports, cancels, exec, faults>>

-----------------------------------------------------------------------------
(* The system. *)

Init ==
    /\ graph = [stages |-> [s \in Stages |-> NewStage(s)],
                status |-> "Running",
                failed_attempts |-> [s \in Stages |-> {}],
                output |-> {}]
    /\ events = <<>>
    /\ evicted = FALSE
    /\ running = {}
    /\ reports = {}
    /\ cancels = {}
    /\ exec = [e \in Executors |-> "up"]
    /\ faults \in Faults

Fault(kind) ==
    /\ faults[kind] > 0
    /\ faults' = [faults EXCEPT ![kind] = @ - 1]

\* fetch_running_stage: nothing on a failed job; resolved stages are revived
\* only when no running stage has a partition to hand out.
WithWork(g) == {s \in StagesIn(g, "Running") : AvailableTasks(g.stages[s]) > 0}

FetchRunningStage(g) ==
    IF WithWork(g) = {} THEN Revive(g) ELSE g

\* bind_one for one executor; the slice is what its free vcores allow.  The
\* scheduler may still bind to an executor that has crashed.
Bind(s, e, n) ==
    LET g     == FetchRunningStage(graph)
        stage == g.stages[s]
        task  == [stage |-> s, attempt |-> stage.attempt, exec |-> e,
                  task  |-> Len(stage.tasks) + 1,
                  reads |-> UNION {{[map |-> m, from |-> l.exec] :
                               l \in stage.inputs[m].locs} : m \in Inputs[s]}]
    IN  /\ ~evicted
        /\ graph.status # "Failed"
        /\ exec[e] # "gone"
        /\ s \in WithWork(g)
        /\ n \in 1 .. Len(stage.pending)
        /\ graph' = SetStage(g, s, BindSlice(stage, e, n))
        /\ running' = IF exec[e] = "up" THEN running \union {task} ELSE running
        /\ UNCHANGED <<events, evicted, reports, cancels, exec, faults>>

Status(r, kind, m, e) ==
    [stage |-> r.stage, attempt |-> r.attempt, task |-> r.task, exec |-> r.exec,
     kind |-> kind, map |-> m, from |-> e]

NoFetch == [map |-> "none", from |-> "none"]

\* An executor finishes a task; the error decides the reported reason.
FinishTask(r, kind, read) ==
    /\ ~evicted
    /\ running' = running \ {r}
    /\ reports' = reports \union {Status(r, kind, read.map, read.from)}
    /\ CASE kind = "success" -> read = NoFetch /\ UNCHANGED faults
         [] kind = "fetch"   -> read \in r.reads /\ Fault("fetch")
         [] OTHER            -> read = NoFetch /\ Fault(kind)
    /\ UNCHANGED <<graph, events, evicted, cancels, exec>>

\* cancel_task: the handle is found by (job, stage, task), without the stage
\* attempt.  The call is best effort.
CancelTask(c) ==
    /\ ~evicted
    /\ cancels' = cancels \ {c}
    /\ \/ \E r \in running :
            /\ [stage |-> r.stage, task |-> r.task, exec |-> r.exec] = c
            /\ running' = running \ {r}
            /\ reports' = reports \union {Status(r, "killed", "none", "none")}
       \/ UNCHANGED <<running, reports>>
    /\ UNCHANGED <<graph, events, evicted, exec, faults>>

\* The TaskUpdating event of one executor's batch.
Receive(groups) ==
    LET batch == UNION {ToSet(groups[i].statuses) : i \in DOMAIN groups}
    IN  /\ ~evicted
        /\ \A r \in batch : exec[r.exec] # "gone"
        /\ reports' = reports \ batch

UpdateStatuses(groups) ==
    LET result == UpdateTaskStatus(graph, groups)
    IN  /\ Receive(groups)
        /\ graph' = result.g
        /\ events' = events \o result.events
        /\ cancels' = cancels \union result.cancels
        /\ UNCHANGED <<evicted, running, exec, faults>>

\* Statuses of a removed executor are refused.
RefuseStatus(r) ==
    /\ ~evicted
    /\ exec[r.exec] = "gone"
    /\ reports' = reports \ {r}
    /\ UNCHANGED <<graph, events, evicted, running, cancels, exec, faults>>

Crash(e) ==
    /\ ~evicted
    /\ exec[e] = "up"
    /\ exec' = [exec EXCEPT ![e] = "crashed"]
    /\ running' = {r \in running : r.exec # e}
    /\ Fault("crash")
    /\ UNCHANGED <<graph, events, evicted, reports, cancels>>

\* The ExecutorLost event.  A crashed executor is gone for good; one whose
\* heartbeats were late is registered again by its next heartbeat, and what it
\* reported in between may have been refused.
RemoveExecutor(e) ==
    /\ ~evicted
    /\ exec[e] = "crashed"
    /\ exec' = [exec EXCEPT ![e] = "gone"]

ExecutorLost(e) ==
    LET result == ResetStagesOnLostExecutor(graph, e)
    IN  /\ \/ RemoveExecutor(e) /\ UNCHANGED <<reports, faults>>
           \/ /\ ~evicted
              /\ exec[e] = "up"
              /\ Fault("expiry")
              /\ reports' \in {reports, {r \in reports : r.exec # e}}
              /\ UNCHANGED exec
        /\ graph' = result.g
        /\ cancels' = cancels \union result.cancels
        /\ UNCHANGED <<events, evicted, running>>

\* The grace timer of ExecutorLost: no executor is alive, the job fails.
NoExecutors ==
    /\ ~evicted
    /\ \A e \in Executors : exec[e] = "gone"
    /\ "JobRunningFailed" \notin ToSet(events)
    /\ events' = Append(events, "JobRunningFailed")
    /\ UNCHANGED <<graph, evicted, running, reports, cancels, exec, faults>>

\* The event loop takes the job's next event.
TakeEvent ==
    /\ ~evicted
    /\ events # <<>>
    /\ events' = Tail(events)

UpdateJob ==
    /\ TakeEvent
    /\ Head(events) = "JobUpdated"
    /\ graph' = Revive(graph)
    /\ UNCHANGED <<evicted, running, reports, cancels, exec, faults>>

\* JobFinished and JobRunningFailed: the job leaves the cache.
SucceedJob ==
    /\ TakeEvent
    /\ Head(events) = "JobFinished"
    /\ evicted' = TRUE
    /\ UNCHANGED <<graph, running, reports, cancels, exec, faults>>

AbortJob ==
    /\ TakeEvent
    /\ Head(events) = "JobRunningFailed"
    /\ graph' = AbortRunning(graph).g
    /\ cancels' = cancels \union AbortRunning(graph).cancels
    /\ evicted' = TRUE
    /\ UNCHANGED <<running, reports, exec, faults>>

\* Nothing more happens to an evicted job.
Ended == evicted /\ UNCHANGED vars

\* A batch has at most MaxBatch statuses, so at most as many stages: the sequences
\* that hold each element of a set once.
Orders(S) ==
    {q \in UNION {[1 .. n -> S] : n \in 1 .. MaxBatch} :
        ToSet(q) = S /\ Len(q) = Cardinality(S)}

\* The statuses of a batch grouped by stage, the stages in the arbitrary order of
\* the handler's HashMap.
Groupings(batch) ==
    LET stages == {r.stage : r \in batch}
        Of(s)  == Orders({r \in batch : r.stage = s})
        Lists  == {f \in [stages -> UNION {Of(s) : s \in stages}] :
                      \A s \in stages : f[s] \in Of(s)}
        Grouped(order, lists) ==
            [i \in DOMAIN order |-> [stage |-> order[i], statuses |-> lists[order[i]]]]
    IN  UNION {{Grouped(order, lists) : lists \in Lists} : order \in Orders(stages)}

\* The batches one executor may send.
Batches ==
    UNION {Groupings(batch) : batch \in {b \in SUBSET reports :
        /\ b # {} /\ Cardinality(b) <= MaxBatch
        /\ \A r1, r2 \in b : r1.exec = r2.exec}}

Next ==
    \/ \E s \in Stages, e \in Executors, n \in 1 .. MaxSlice : Bind(s, e, n)
    \/ \E r \in running, kind \in Reported \ {"killed"},
          read \in UNION {x.reads : x \in running} \union {NoFetch} :
          FinishTask(r, kind, read)
    \/ \E c \in cancels : CancelTask(c)
    \/ \E groups \in Batches : UpdateStatuses(groups)
    \/ \E r \in reports : RefuseStatus(r)
    \/ \E e \in Executors : Crash(e) \/ ExecutorLost(e)
    \/ NoExecutors
    \/ UpdateJob
    \/ SucceedJob
    \/ AbortJob
    \/ Ended

Spec == Init /\ [][Next]_vars

\* The event loop handles its events, idle executors are offered work, tasks
\* end, statuses arrive, a crashed executor's heartbeat expires.  Receive,
\* RemoveExecutor and TakeEvent are the parts of UpdateStatuses, ExecutorLost and
\* the job's handlers that decide whether these are enabled.
Fairness ==
    /\ WF_vars(\E s \in Stages, e \in Executors, n \in 1 .. MaxSlice :
                  Bind(s, e, n))
    /\ WF_vars(\E r \in running : FinishTask(r, "success", NoFetch))
    /\ WF_reports(\E groups \in Batches : Receive(groups))
    /\ \A e \in Executors : WF_exec(RemoveExecutor(e))
    /\ WF_vars(NoExecutors)
    /\ WF_events(TakeEvent)

FairSpec == Spec /\ Fairness

-----------------------------------------------------------------------------
(* Properties. *)

\* Tasks on the executors, with the shuffle output they read.
LaunchType ==
    [stage : Stages, attempt : Nat, exec : Executors, task : Nat \ {0},
     reads : SUBSET [map : Stages, from : Executors]]

\* Every variable holds a value of the shape the source's types give it.
TypeOK ==
    /\ IsGraph(graph)
    /\ events \in Seq({"JobUpdated", "JobFinished", "JobRunningFailed"})
    /\ evicted \in BOOLEAN
    /\ running \subseteq LaunchType
    /\ \A r \in running : \A x \in r.reads : x.map \in Inputs[r.stage]
    /\ reports \subseteq StatusType
    /\ cancels \subseteq TaskKeyType
    /\ exec \in [Executors -> {"up", "crashed", "gone"}]
    /\ faults \in [FaultKinds -> Nat]

\* succeed_stage, fail_stage and rerun_successful_stage take the stage out of
\* the map before they look at its state: none of them is ever called on a
\* stage in another state, so no stage drops out of the graph.
NoStageRemoved == StagesIn(graph, "Removed") = {}

\* A stage is resolved or runs only while every stage it reads is Successful,
\* whatever fetch failures, late statuses and executor losses happened.
InputsSuccessful ==
    \A s \in StagesIn(graph, "Resolved") \union StagesIn(graph, "Running") :
       \A m \in Inputs[s] : graph.stages[m].state = "Successful"

\* A stage that is resolved or runs reads every partition of its inputs: for
\* each there is a location of a task the input stage still holds Successful
\* on that executor.
InputsComplete ==
    \A s \in StagesIn(graph, "Resolved") \union StagesIn(graph, "Running") :
       \A m \in Inputs[s] : \A p \in PartitionIds(m) :
          \E l \in graph.stages[s].inputs[m].locs :
             /\ p \in l.parts
             /\ l.task \in DOMAIN graph.stages[m].tasks
             /\ LET t == graph.stages[m].tasks[l.task]
                IN  t.st = "success" /\ t.exec = l.exec /\ t.attempt = l.attempt

\* A stage that is resolved or runs reads each partition of its inputs once: two
\* locations that cover one partition would feed its rows to the stage twice.
InputsOnce ==
    \A s \in StagesIn(graph, "Resolved") \union StagesIn(graph, "Running") :
       \A m \in Inputs[s] : \A l1, l2 \in graph.stages[s].inputs[m].locs :
          l1 # l2 => l1.parts \intersect l2.parts = {}

\* Owners of a partition of a running stage: its places in the queue and the
\* tasks that run or have finished it.
Owners(stage, p) ==
    {<<"pending", i>> : i \in {j \in DOMAIN stage.pending : stage.pending[j] = p}}
    \union {<<"task", t>> : t \in {u \in DOMAIN stage.tasks :
                /\ stage.tasks[u].st \in {"running", "success"}
                /\ p \in ToSet(stage.tasks[u].parts)}}

\* While the job runs, every partition of a running stage has exactly one
\* owner: none is stranded by a reset or retry and none is run twice at once.
OneOwner ==
    graph.status = "Running" =>
       \A s \in StagesIn(graph, "Running") : \A p \in PartitionIds(s) :
          Cardinality(Owners(graph.stages[s], p)) = 1

\* While the job runs, a running stage has a partition to hand out or a task
\* whose status will arrive: otherwise nothing would ever move it again.
NoIdleStage ==
    graph.status = "Running" =>
       \A s \in StagesIn(graph, "Running") :
          \/ graph.stages[s].pending # <<>>
          \/ RunningTasks(graph.stages[s]) # {}

\* While the job runs, an unresolved stage waits for an input stage that is
\* not finished: otherwise nothing would ever resolve it.
UnResolvedWaits ==
    graph.status = "Running" =>
       \A s \in StagesIn(graph, "UnResolved") :
          \E m \in Inputs[s] : graph.stages[m].state # "Successful"

\* A task the graph counts as running is executing, or its status is on the
\* way, or its executor is lost (and ExecutorLost will reset it).
RunningTasksReport ==
    ~evicted => \A s \in StagesIn(graph, "Running") :
       \A t \in RunningTasks(graph.stages[s]) :
          LET task == graph.stages[s].tasks[t] IN
          \/ \E r \in running \union reports :
                /\ r.stage = s /\ r.task = t
                /\ r.exec = task.exec /\ r.attempt = task.attempt
          \/ exec[task.exec] = "crashed"

\* A status is only ever applied to the task it reports on: a task the graph
\* counts as finished is not still executing on its executor.
NoPhantomSuccess ==
    \A s \in Stages : \A t \in DOMAIN graph.stages[s].tasks :
       graph.stages[s].tasks[t].st = "success" =>
          ~ \E r \in running :
               /\ r.stage = s /\ r.task = t
               /\ r.attempt = graph.stages[s].tasks[t].attempt

\* A successful job has an output location for every partition of its final
\* stage.
OutputComplete ==
    graph.status = "Successful" =>
       \A s \in {x \in Stages : OutputLinks(x) = {}} : \A p \in PartitionIds(s) :
          \E l \in graph.output : p \in l.parts

\* What is read is complete: a stage that is resolved or runs has a location of
\* every partition of its inputs, all of stages that are Successful and of tasks
\* they hold so, and a successful job has its whole output, whatever fetch
\* failures, late statuses and executor losses happened.
ReadsComplete == InputsSuccessful /\ InputsComplete /\ OutputComplete

\* Nothing stalls: the graph keeps all its stages, a running stage has a
\* partition to hand out or a task whose status will arrive, and an unresolved
\* one waits for an input that is not finished.
NothingStalls == NoStageRemoved /\ NoIdleStage /\ UnResolvedWaits

\* A successful job has one output location of a partition, of a task that is
\* still Successful: a client that reads it sees every row of the result once.
OutputOnce ==
    graph.status = "Successful" =>
       \A s \in {x \in Stages : OutputLinks(x) = {}} : \A p \in PartitionIds(s) :
          Cardinality({l \in graph.output : p \in l.parts}) = 1

\* The executors tell tasks apart by stage attempt and task id: no two launches
\* share them, so a late status can be recognised.
LaunchesDistinct ==
    \A r1, r2 \in running \union reports :
       (r1.stage = r2.stage /\ r1.task = r2.task /\ r1.attempt = r2.attempt)
          => r1 = r2

\* A failed job is never turned into a successful one by statuses that arrive
\* between the failure and the JobRunningFailed event.
FailedIsFinal == [][graph.status = "Failed" => graph'.status = "Failed"]_vars

\* A stage attempt number never decreases, and a stage that gives up its tasks
\* or is run again gets a new one.
NewAttemptOnRestart ==
    [][\A s \in Stages :
         LET old == graph.stages[s]
             new == graph'.stages[s]
         IN  /\ new.attempt >= old.attempt
             /\ (\/ old.state = "Running" /\ new.state = "UnResolved"
                 \/ old.state = "Successful" /\ new.state # "Successful")
                  => new.attempt > old.attempt]_vars

\* The inductive invariant behind LaunchesDistinct and NoPhantomSuccess.
GraphInv ==
    /\ TypeOK
    /\ \A r \in running \union reports : Tracks(graph.stages[r.stage], r)
    /\ LaunchesDistinct
    /\ NoPhantomSuccess

\* With finitely many faults the job ends.
JobEnds == <>evicted
=============================================================================
