---------------------------- MODULE ClusterVcores ----------------------------
(***************************************************************************)
(* The vcore budgets of push-based scheduling.  bind_schedulable_tasks     *)
(* takes vcores from an executor's entry of available_vcores; four places  *)
(* give them back through unbind_tasks: the TaskUpdating handler, abort_job*)
(* the launch of a bound batch (state/mod.rs) and, by a fresh entry,       *)
(* registration.  The amount is kept in the graph's TaskInfo, not in the   *)
(* budget, so the two have to agree.                                       *)
(*                                                                         *)
(* A job is one stage of Parts[j] partitions: what a graph does to its     *)
(* other stages is the subject of ExecutionGraph.  Registration is atomic  *)
(* here; how it really interleaves is the subject of ExecutorRegistry.     *)
(***************************************************************************)
EXTENDS Naturals, Sequences, FiniteSets, FiniteSetsExt, SequencesExt

CONSTANTS
    Executors, Jobs,
    Vcores,      \* [Executors -> Nat], vcores an executor advertises
    Parts,       \* [Jobs -> Nat], partitions of the job's stage
    Collapse,    \* SUBSET Jobs, the stage collapses its inputs to one
    MaxSlice,    \* max_partitions_per_task
    Policies,    \* task_distribution values considered
    FaultSets    \* sets of faults that may happen in one behaviour

FaultKinds == {"retry", "cancel", "expiry", "crash", "rpc", "reject", "rollback"}

VARIABLES
    distribution,      \* task_distribution of the configuration
    registered,        \* executors with metadata, heartbeat and budget
    available_vcores,  \* [Executors -> Nat], 0 while not registered
    jobs,              \* [Jobs -> graph], see NewJob
    launches,          \* rounds of bound tasks being launched, see NewLaunch
    running,           \* tasks the executors are executing
    reports,           \* statuses accepted and not handled yet
    failing,           \* jobs with a JobRunningFailed event waiting
    lost,              \* executors with an ExecutorLost event waiting
    process,           \* [Executors -> up or down]
    faults             \* kinds of fault that happened

vars == <<distribution, registered, available_vcores, jobs, launches, running,
          reports, failing, lost, process, faults>>

NewJob(j) ==
    [cached  |-> TRUE,       \* in active_job_cache
     running |-> TRUE,       \* the stage is Running, else UnResolved
     attempt |-> 0,
     pending |-> Parts[j],
     tasks   |-> <<>>]       \* task_infos

Init ==
    /\ distribution \in Policies
    /\ registered = Executors
    /\ available_vcores = Vcores
    /\ jobs = [j \in Jobs |-> NewJob(j)]
    /\ launches = {}
    /\ running = {}
    /\ reports = {}
    /\ failing = {}
    /\ lost = {}
    /\ process = [e \in Executors |-> "up"]
    /\ faults = {}

Fault(kind) ==
    /\ kind \notin faults
    /\ \E set \in FaultSets : faults \union {kind} \subseteq set
    /\ faults' = faults \union {kind}

\* unbind_tasks: slots of an executor that is not registered are dropped.
Unbind(slots) ==
    [e \in Executors |-> IF e \in registered THEN available_vcores[e] + slots[e]
                         ELSE available_vcores[e]]

NoSlots == [e \in Executors |-> 0]

-----------------------------------------------------------------------------
(* Binding.  A round holds the lock of available_vcores.  round is its     *)
(* local state: the budgets, the graphs and the tasks bound so far.        *)

Least(a, b) == IF a <= b THEN a ELSE b

\* The partitions and the vcores of the next task of a job on an executor.
SliceOf(round, j, e) ==
    IF j \in Collapse THEN round.jobs[j].pending
    ELSE Least(round.jobs[j].pending, Least(round.free[e], MaxSlice))

Cost(j, slice) == IF j \in Collapse THEN 1 ELSE slice

BindOne(round, j, e) ==
    LET slice == SliceOf(round, j, e)
        graph == round.jobs[j]
        task  == [job |-> j, attempt |-> graph.attempt, exec |-> e,
                  task |-> Len(graph.tasks) + 1]
    IN  [free  |-> [round.free EXCEPT ![e] = @ - Cost(j, slice)],
         jobs  |-> [round.jobs EXCEPT ![j] =
                      [@ EXCEPT !.pending = @ - slice,
                                !.tasks = Append(@, [exec |-> e,
                                    vcores |-> Cost(j, slice), parts |-> slice,
                                    st |-> "running"])]],
         bound |-> round.bound \union {task}]

Bindable(round, j) ==
    round.jobs[j].cached /\ round.jobs[j].running /\ round.jobs[j].pending > 0

\* The first position from idx, going round, of an executor with free vcores.
NextIdx(round, order, idx) ==
    LET at(k)  == ((idx - 1 + k) % Len(order)) + 1
        k      == Min({i \in 0 .. Len(order) - 1 : round.free[order[at(i)]] > 0})
    IN  at(k)

\* bind_task_bias drains the executors in order (idx only passes empty ones);
\* bind_task_round_robin moves on after every task.  Both take the jobs one
\* after the other and stop when no vcore is left.
RECURSIVE BindRound(_, _, _, _)
BindRound(round, queue, order, idx) ==
    IF queue = <<>> \/ \A i \in DOMAIN order : round.free[order[i]] = 0 THEN round
    ELSE IF ~Bindable(round, Head(queue))
         THEN BindRound(round, Tail(queue), order, idx)
    ELSE LET at == NextIdx(round, order, idx)
         IN  BindRound(BindOne(round, Head(queue), order[at]), queue, order,
                       IF distribution = "Bias" THEN at
                       ELSE (at % Len(order)) + 1)

\* The executors by free vcores, the largest first, ties in any order.
Orders ==
    {order \in SetToSeqs({e \in registered : available_vcores[e] > 0}) :
        \A i, k \in DOMAIN order : i < k =>
           available_vcores[order[i]] >= available_vcores[order[k]]}

\* launch_tasks: per executor the tasks still to send, the slots to return and
\* the jobs to fail once every executor has answered.
NewLaunch(bound) ==
    [todo   |-> [e \in Executors |-> {t \in bound : t.exec = e}],
     slots  |-> NoSlots,
     failed |-> {}]

ReviveOffers ==
    \E order \in Orders, queue \in SetToSeqs({j \in Jobs : jobs[j].cached}) :
       LET none  == [free |-> available_vcores, jobs |-> jobs, bound |-> {}]
           round == BindRound(none, queue, order, 1)
       IN  /\ round.bound # {}
           /\ available_vcores' = round.free
           /\ jobs' = round.jobs
           /\ launches' = launches \union {NewLaunch(round.bound)}
           /\ UNCHANGED <<distribution, registered, running, reports, failing,
                          lost, process, faults>>

-----------------------------------------------------------------------------
(* Launching. *)

Answer(l, e, slots, failed) ==
    (launches \ {l}) \union
    {[todo   |-> [l.todo EXCEPT ![e] = {}],
      slots  |-> [l.slots EXCEPT ![e] = @ + slots],
      failed |-> l.failed \union failed]}

\* The executor takes the tasks it can decode and rejects the jobs it cannot.
LaunchOk(l, e, rejected) ==
    LET refused == {t \in l.todo[e] : t.job \in rejected}
    IN  /\ l.todo[e] # {}
        /\ e \in registered
        /\ process[e] = "up"
        /\ IF rejected = {} THEN UNCHANGED faults
           ELSE refused # {} /\ Fault("reject")
        /\ running' = running \union (l.todo[e] \ refused)
        /\ launches' = Answer(l, e, Cardinality(refused),
                              {t.job : t \in refused})
        /\ UNCHANGED <<distribution, registered, available_vcores, jobs,
                       reports, failing, lost, process>>

\* The RPC fails: the executor is removed, one slot per task is returned.
LaunchFails(l, e) ==
    /\ l.todo[e] # {}
    /\ e \in registered
    /\ IF process[e] = "up" THEN Fault("rpc") ELSE UNCHANGED faults
    /\ registered' = registered \ {e}
    /\ available_vcores' = [available_vcores EXCEPT ![e] = 0]
    /\ lost' = lost \union {e}
    /\ launches' = Answer(l, e, Cardinality(l.todo[e]), {})
    /\ UNCHANGED <<distribution, jobs, running, reports, failing, process>>

\* The executor was removed since the tasks were bound to it.
LaunchUnknown(l, e) ==
    /\ l.todo[e] # {}
    /\ e \notin registered
    /\ launches' = Answer(l, e, Cardinality(l.todo[e]), {})
    /\ UNCHANGED <<distribution, registered, available_vcores, jobs, running,
                   reports, failing, lost, process, faults>>

FinishLaunch(l) ==
    /\ \A e \in Executors : l.todo[e] = {}
    /\ launches' = launches \ {l}
    /\ available_vcores' = Unbind(l.slots)
    /\ failing' = failing \union l.failed
    /\ UNCHANGED <<distribution, registered, jobs, running, reports, lost,
                   process, faults>>

-----------------------------------------------------------------------------
(* Statuses. *)

\* A task ends, by itself or cancelled; update_task_status ignores a status
\* from an executor without heartbeat.
EndTask(t) ==
    /\ running' = running \ {t}
    /\ reports' = IF t.exec \in registered THEN reports \union {t} ELSE reports
    /\ UNCHANGED <<distribution, registered, available_vcores, jobs, launches,
                   failing, lost, process, faults>>

\* task_vcores, looked up by task id without the stage attempt.
TaskVcores(t) ==
    LET graph == jobs[t.job]
    IN  IF graph.cached /\ graph.running /\ t.task \in DOMAIN graph.tasks
        THEN graph.tasks[t.task].vcores ELSE 0

\* update_task_info for a task of the current attempt that was not reset.
Updates(t) ==
    /\ jobs[t.job].cached /\ jobs[t.job].running
    /\ jobs[t.job].attempt = t.attempt
    /\ jobs[t.job].tasks[t.task].st = "running"

\* Mutant: one vcore per status is refunded.
RefundOne(t) ==
    available_vcores' = Unbind([NoSlots EXCEPT ![t.exec] = 1])

Refund(t) ==
    available_vcores' = Unbind([NoSlots EXCEPT ![t.exec] = TaskVcores(t)])

\* TaskUpdating: the refund, then the graph; an executor that is not
\* registered any more makes the second part fail.
UpdateTask(t, st) ==
    LET graph == jobs[t.job]
    IN  /\ reports' = reports \ {t}
        /\ Refund(t)
        /\ IF Updates(t) /\ t.exec \in registered
           THEN /\ jobs' = [jobs EXCEPT ![t.job] =
                     [@ EXCEPT !.tasks[t.task].st = st,
                               !.pending = IF st = "success" THEN @
                                           ELSE @ + graph.tasks[t.task].parts]]
                /\ IF st = "success" THEN UNCHANGED faults ELSE Fault("retry")
           ELSE /\ st = "success"
                /\ UNCHANGED <<jobs, faults>>
        /\ UNCHANGED <<distribution, registered, launches, running, failing,
                       lost, process>>

\* JobFinished: every partition is done.
FinishJob(j) ==
    /\ jobs[j].cached /\ jobs[j].running
    /\ jobs[j].pending = 0
    /\ \A t \in DOMAIN jobs[j].tasks : jobs[j].tasks[t].st # "running"
    /\ jobs' = [jobs EXCEPT ![j].cached = FALSE]
    /\ UNCHANGED <<distribution, registered, available_vcores, launches,
                   running, reports, failing, lost, process, faults>>

-----------------------------------------------------------------------------
(* Aborting a job: JobRunningFailed and JobCancel. *)

RunningOn(graph, e) ==
    {t \in DOMAIN graph.tasks :
        graph.tasks[t].exec = e /\ graph.tasks[t].st = "running"}

VcoresHeld(graph, e) ==
    IF graph.cached /\ graph.running
    THEN MapThenSumSet(LAMBDA t : graph.tasks[t].vcores, RunningOn(graph, e))
    ELSE 0

\* The running tasks' vcores come back before the tasks have stopped, the
\* job leaves the cache and the executors are asked to cancel.
Abort(j) ==
    /\ jobs[j].cached
    /\ jobs' = [jobs EXCEPT ![j].cached = FALSE]
    /\ available_vcores' = Unbind([e \in Executors |-> VcoresHeld(jobs[j], e)])

CancelJob(j) ==
    /\ Abort(j)
    /\ Fault("cancel")
    /\ UNCHANGED <<distribution, registered, launches, running, reports,
                   failing, lost, process>>

JobRunningFailed(j) ==
    /\ j \in failing
    /\ failing' = failing \ {j}
    /\ \/ Abort(j)
       \/ ~jobs[j].cached /\ UNCHANGED <<jobs, available_vcores>>
    /\ UNCHANGED <<distribution, registered, launches, running, reports, lost,
                   process, faults>>

-----------------------------------------------------------------------------
(* Executors that go and come back; a stage that is rolled back. *)

Crash(e) ==
    /\ process[e] = "up"
    /\ Fault("crash")
    /\ process' = [process EXCEPT ![e] = "down"]
    /\ running' = {t \in running : t.exec # e}
    /\ UNCHANGED <<distribution, registered, available_vcores, jobs, launches,
                   reports, failing, lost>>

\* The heartbeat expired: that of a live executor only when it is late.
Expire(e) ==
    /\ e \in registered
    /\ IF process[e] = "up" THEN Fault("expiry") ELSE UNCHANGED faults
    /\ registered' = registered \ {e}
    /\ available_vcores' = [available_vcores EXCEPT ![e] = 0]
    /\ lost' = lost \union {e}
    /\ UNCHANGED <<distribution, jobs, launches, running, reports, failing,
                   process>>

\* Mutant: only finished tasks are reset.
OutputsOn(graph, e) ==
    {t \in DOMAIN graph.tasks :
        graph.tasks[t].exec = e /\ graph.tasks[t].st = "success"}

\* reset_tasks: the running and the finished tasks of a lost executor.
TasksOn(graph, e) ==
    {t \in DOMAIN graph.tasks :
        graph.tasks[t].exec = e /\ graph.tasks[t].st \in {"running", "success"}}

ResetTasks(graph, e) ==
    LET hit == TasksOn(graph, e)
    IN  [graph EXCEPT
           !.tasks = [t \in DOMAIN @ |->
               IF t \in hit THEN [@[t] EXCEPT !.st = "lost"] ELSE @[t]],
           !.pending = @ + MapThenSumSet(LAMBDA t : graph.tasks[t].parts, hit)]

ExecutorLost(e) ==
    /\ e \in lost
    /\ lost' = lost \ {e}
    /\ jobs' = [j \in Jobs |->
                  IF jobs[j].cached /\ jobs[j].running
                  THEN ResetTasks(jobs[j], e) ELSE jobs[j]]
    /\ UNCHANGED <<distribution, registered, available_vcores, launches,
                   running, reports, failing, process, faults>>

\* The next heartbeat of a live executor registers it, with all vcores free.
Reregister(e) ==
    /\ e \notin registered
    /\ process[e] = "up"
    /\ registered' = registered \union {e}
    /\ available_vcores' = [available_vcores EXCEPT ![e] = Vcores[e]]
    /\ UNCHANGED <<distribution, jobs, launches, running, reports, failing,
                   lost, process, faults>>

\* A fetch failure or a lost input: the attempt's tasks are forgotten and
\* cancelled, and the stage runs again once its input is complete.
Rollback(j) ==
    /\ jobs[j].cached /\ jobs[j].running
    /\ Fault("rollback")
    /\ jobs' = [jobs EXCEPT ![j] =
         [@ EXCEPT !.running = FALSE, !.attempt = @ + 1, !.pending = 0,
                   !.tasks = <<>>]]
    /\ UNCHANGED <<distribution, registered, available_vcores, launches,
                   running, reports, failing, lost, process>>

Resolve(j) ==
    /\ jobs[j].cached /\ ~jobs[j].running
    /\ jobs' = [jobs EXCEPT ![j] = [@ EXCEPT !.running = TRUE,
                                             !.pending = Parts[j]]]
    /\ UNCHANGED <<distribution, registered, available_vcores, launches,
                   running, reports, failing, lost, process, faults>>

-----------------------------------------------------------------------------
Launching(l, e) ==
    \/ \E rejected \in SUBSET Jobs : LaunchOk(l, e, rejected)
    \/ LaunchFails(l, e)
    \/ LaunchUnknown(l, e)

Next ==
    \/ ReviveOffers
    \/ \E l \in launches :
          FinishLaunch(l) \/ (\E e \in Executors : Launching(l, e))
    \/ \E t \in running : EndTask(t)
    \/ \E t \in reports, st \in {"success", "killed"} : UpdateTask(t, st)
    \/ \E j \in Jobs :
          \/ FinishJob(j) \/ CancelJob(j) \/ JobRunningFailed(j)
          \/ Rollback(j) \/ Resolve(j)
    \/ \E e \in Executors :
          Crash(e) \/ Expire(e) \/ ExecutorLost(e) \/ Reregister(e)

Spec == Init /\ [][Next]_vars

-----------------------------------------------------------------------------
(* Properties. *)

\* Budgets never go below zero and no partition is offered twice.
TypeOK ==
    /\ registered \subseteq Executors
    /\ available_vcores \in [Executors -> Nat]
    /\ \A j \in Jobs :
         /\ jobs[j].cached \in BOOLEAN /\ jobs[j].running \in BOOLEAN
         /\ jobs[j].pending \in 0 .. Parts[j]
         /\ \A t \in DOMAIN jobs[j].tasks :
              /\ jobs[j].tasks[t].exec \in Executors
              /\ jobs[j].tasks[t].st \in {"running", "success", "killed", "lost"}
    /\ failing \subseteq Jobs
    /\ lost \subseteq Executors
    /\ process \in [Executors -> {"up", "down"}]
    /\ faults \subseteq FaultKinds

\* The faults after which budgets and graphs disagree: a live executor that is
\* removed and comes back with all vcores free, a rejected task (refunded as
\* one slot and again by the abort), a rollback (the attempt's TaskInfos, and
\* with them the amounts to refund, are gone).
Miscounted == {"expiry", "rpc", "reject", "rollback"}

Held(e) == MapThenSumSet(LAMBDA j : VcoresHeld(jobs[j], e), Jobs)

\* The vcores missing from an executor's budget are those of the tasks the
\* graphs count as running on it, after every bind, refund and abort: nothing is
\* refunded twice and nothing leaks, whatever fails, is cancelled or crashes.  It
\* takes one of Miscounted to break this, see IdleHasAllVcores.
VcoresAccounted ==
    faults \intersect Miscounted = {} =>
       \A e \in registered : available_vcores[e] + Held(e) = Vcores[e]

\* The partitions a task drives at once.
Load(t) ==
    IF t.job \in Collapse THEN 1 ELSE jobs[t.job].tasks[t.task].parts

\* An executor never drives more partitions at once, for jobs that are alive,
\* than it has vcores: only tasks that were cancelled may be in excess.
LoadBounded ==
    faults \intersect Miscounted = {} => \A e \in Executors :
       MapThenSumSet(Load,
          {t \in running : /\ t.exec = e /\ jobs[t.job].cached
                           /\ t.attempt = jobs[t.job].attempt}) <= Vcores[e]

\* An executor on which no task is bound, running or reporting has all the
\* vcores it advertises.
IdleHasAllVcores ==
    \A e \in registered :
       (/\ launches = {}
        /\ Held(e) = 0
        /\ \A t \in running \union reports : t.exec # e
        /\ failing = {})
          => available_vcores[e] = Vcores[e]

\* A task a graph counts as running is on its way: being launched, executing,
\* reported, about to fail with its job, or on an executor whose loss is still to
\* be handled.  Were there another one, its partitions would never be offered
\* again and its vcores never come back.
RunningTaskInFlight ==
    \A j \in Jobs, e \in Executors :
       jobs[j].cached /\ jobs[j].running => \A t \in RunningOn(jobs[j], e) :
          LET task == [job |-> j, attempt |-> jobs[j].attempt, exec |-> e,
                       task |-> t]
          IN  \/ \E l \in launches : task \in l.todo[e] \/ j \in l.failed
              \/ task \in running \union reports
              \/ j \in failing
              \/ e \in lost
              \/ e \in registered /\ process[e] = "down"
=============================================================================
