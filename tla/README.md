# TLA+ models of the Ballista scheduler

Ballista runs DataFusion queries on a cluster.  A *scheduler* plans a query into
stages separated by shuffles, hands the partitions of each stage to *executors* as
tasks, follows the tasks' statuses, and recovers from failed tasks, failed fetches
and lost executors.  This directory models the scheduler's control of a job: the
state machine of the stages, and the life of a job around it.

Source paths are relative to the repository; `scheduler/…`, `core/…` and
`executor/…` stand for `ballista/scheduler/src/…`, and so on.  `PROJECT.json` maps
every definition to the lines it models.

## 1. Inventory

| Part | State it keeps | Operations | Modelled in |
|---|---|---|---|
| Stage (`scheduler/state/execution_stage.rs`) | state, attempt number, queue of pending partitions, append-only task list, failure counts, inputs received | bind a slice, apply a status, reset tasks, roll back, re-run, resolve, succeed, fail | `ExecutionStage` |
| Execution graph (`scheduler/state/execution_graph.rs`) | stages, job status, failed attempts of each stage, output locations | `update_task_status`, `processing_stages_update`, `reset_stages_on_lost_executor`, `revive`, `fetch_running_stage`, `abort_running` | `ExecutionGraph` |
| Binding (`scheduler/cluster/mod.rs`) | free vcores of the executors | bias and round-robin policies over `bind_one` | `Bind` of `ExecutionGraph` (slice sizes free) |
| Query stage scheduler (`scheduler/scheduler_server/query_stage_scheduler.rs`), event loop (`core/event_loop.rs`) | a FIFO channel of events, one consumer | one handler per event; handlers, planners and timers post events | `JobLifecycle` |
| Task manager (`scheduler/state/task_manager.rs`) | cache of active graphs | submit, update, succeed and abort a job, executor loss | `JobLifecycle`, `ExecutionGraph` |
| Job state backend (`scheduler/cluster/memory.rs`) | queued, running and completed jobs; subscribers | accept, submit, save, fail, remove | `JobLifecycle`; its promise in `JobStatus` |
| Executors (`executor/…`) | running tasks and their abort handles | execute, report, cancel; crash, late heartbeats | `ExecutionGraph` |
| Cluster state (`scheduler/cluster/memory.rs`), registration and heartbeats | vcores, heartbeats | bind, unbind, register, expire | planned |
| Pull mode (`executor/execution_loop.rs`, `poll_work`) | permits, statuses to send | poll, run, report | planned |
| Adaptive graph (`scheduler/state/aqe`) | stages created while the job runs | as the static graph, and re-planning | planned |
| Cached DataFrames (`scheduler/state/cache_registry.rs`) | cache entries and their leases | reserve, complete, evict | planned |
| Planner, optimizer rules, shuffle files, serde, REST, CLI, Python | plans, files, messages | | not modelled |

What is hard here: statuses of an abandoned stage attempt arrive late and in
batches with others; one fetch failure touches three stages; an executor may be
lost while its statuses are on the way, or only seem lost; the handlers of one job's
events interleave with its planner, its timers and the requests of clients.  The
correctness properties follow from that: every partition has exactly one owner, a
stage runs only on complete inputs and reads each partition once, nothing waits for
ever, an outcome once recorded stays, and the client is told once.

## 2. Modules

* `ExecutionStage` — a stage as a record and the methods of the five stage structs
  as operators.  The structs share their fields, so one record serves all; a field a
  state does not have holds the value the next state starts with.
* `ExecutionGraph` — the graph of one job with its surroundings.  Variables: `graph`
  (stages, status, failed attempts, output), `events` (the job's events in the
  channel), `evicted` (removed from the cache), `running` (tasks on executors),
  `reports` and `cancels` (messages under way), `exec` and `faults`.  The handler
  `update_task_status` is the operator `UpdateTaskStatus`: a fold of `ApplyStatus`
  over the statuses of each stage, then the four loops at the end of the handler in
  the code's order.  Its accumulator has the handler's local sets as fields, and a
  flag for the places where `?` returns early with the graph half changed.
* `JobLifecycle` — the jobs of one scheduler: one action per event handler, the
  spawned planner in four steps (fails or submits, caches the graph, posts
  `JobSubmitted`), the requests of clients, the timers.  A graph is its status.
* `JobStatus` — what the `JobState` trait promises about a recorded status.
  `JobLifecycle` implements it under `status <- RecordedStatus`.
* `JobLifecycleProofs` — the theorems about `JobLifecycle`.
* `MCExecutionGraph`, `MCJobLifecycle` — the instances TLC checks.

The composition between the two machines is by abstraction: `OnTaskUpdating` of
`JobLifecycle` allows exactly the effects on the status of a graph, and the events,
that `UpdateTaskStatus` of `ExecutionGraph` can have.

### Abstractions

* A location stands for all files of a task; the code adds and removes them
  together.  It carries the attempt and the partitions, which identify the file.
* Slices handed to a task have any size up to `MaxSlice`; which one depends in the
  code on free vcores.
* A batch has at most two statuses of one executor.  The order of the stages within
  a batch is that of a `HashMap`, so it is arbitrary.
* An executor whose heartbeats are late (`expiry`) is removed and registers again at
  once; statuses under way may be refused.  A crashed one never returns.
* A task that fails to be sent to its executor is not modelled.
* The channel of the event loop is unbounded in the models.
* `resolved` of an event in `JobLifecycle` is history: it records what a report
  could know.  A report that completes the job is about a task of the last stage and
  is posted after that stage was resolved.

## 3. Runs

| Run | Shows | Bounds |
|---|---|---|
| `graph_task_faults` | one owner per partition, complete inputs read once, failed stays failed | 2 stages, 2 scan partitions, 2 executors; 2 fetch failures, 2 I/O errors, 1 fatal error; limits of 2 |
| `graph_executor_loss` | nothing is stuck, late statuses never count, complete output, new attempt numbers | as above; 1 crash, 1 expiry |
| `graph_join` | no stage drops out of the graph, two inputs with roll-backs and late failures | 2 scans and a join; 2 fetch failures, 1 expiry |
| `graph_job_ends` | the job ends | both executors may crash, 1 fetch failure |
| `job_records` | backend maps agree, refinement of `JobStatus`, one notification, the inductive invariant | 1 job, 2 reports under way, 1 resolved stage, 2 requests, 1 abort |
| `job_concludes` | every job ends and its subscriber hears of it | 2 jobs |

Two executors are the least for which data can be lost while work goes on; two
partitions the least for which a stage is partly done; a retry limit of two has a
failure that is retried and one that is not.  One job suffices in `job_records`
because jobs interact only through the order of the channel, and every property is
about one job; `job_concludes` has two.

The remaining runs find disagreements between the code and what its documents,
comments or messages say; each is a finding in `PROJECT.json`:

| Run | What happens |
|---|---|
| `graph_chain_inputs_once` | in a chain of three stages, a middle stage is rolled back after some of its tasks published their output; the new attempt publishes those partitions again and the last stage reads them twice |
| `graph_chain_waits` | such a left-over location lies on an executor that is lost later: the last stage falls back to unresolved while its input stage is successful, and waits for ever |
| `graph_output_once` | the same in the output of the final stage after an executor loss |
| `graph_idle_map_stage` | a late fetch failure with nothing left to reset, in the batch that completes the map stage, keeps that stage running with no task |
| `job_output_kept` | a cancellation handled after the job succeeded removes its output at once |
| `job_cancelled` | a cancellation handled while the job is queued or planned has no effect |

### Fairness

`ExecutionGraph!Fairness`: the event loop takes the next event, free executors are
offered work (`ReviveOffers` is posted after every update), a running task ends,
statuses arrive, a crashed executor's heartbeat expires.  Nothing is assumed about
faults, cancellations or statuses being refused.  `JobLifecycle!Fairness`: handlers
and planners run, executors keep reporting on a cached job, and a job that is
reported on again and again completes (strong fairness of the completing update;
that the graph gets there is what `graph_job_ends` checks).

## 4. Proofs

`JobLifecycleProofs` proves, for every set of jobs and all bounds,

* `Types`: `Spec => []TypeOK`;
* `Consistent`: `Spec => []JobInv`;
* `OneMapPerJob`, `SubscriberToldOnce`: `Spec => []OnePlace`, `Spec => []ToldOnce`;
* `Refinement`: `Spec => KeepsPromise`, that is, `JobLifecycle` implements
  `JobStatus`.

No assumption on the constants is used.  `OnePlace` and `ToldOnce` are not inductive: whether a
handler breaks them depends on the events still in the channel.  `JobInv` adds what
an event under way says about its job (`Announces`) and what the order of two events
says (`Ordered`).  The one argument that is not local concerns `JobUpdated`: it saves
whatever status the graph has when it is handled, so if the graph could be
successful by then, `update_job` would record success while the job is still cached,
and a later abort would replace the outcome.  It cannot: the report that completes
the graph was made after the last stage was resolved, hence after the `JobUpdated`
of that stage was posted, and the channel is FIFO.

The channel lemmas (`AfterNone`, `AfterPost`, `AfterPop`, `AfterReplace`) reduce the
invariant on the channel to one event or one pair, so that each action has three
small obligations: the job's place, the events that stay, the event it posts.

Only model-checked: everything about `ExecutionGraph` (its operators are folds over
batches, beyond induction in the prover), and all liveness.

## 5. Not modelled, and the plan

1. `ClusterVcores`: vcores bound, refunded and lost across failed launches, expired
   and re-registered executors (`cluster/memory.rs`, `state/mod.rs`,
   `task_manager.rs`); invariant: free plus used equals total; then a theorem.
2. `ExecutorPoll`: pull mode, permits, early failures, lost statuses.
3. The bounded event channel and handlers that post to it.
4. Registration, heartbeats and shutdown of executors.
5. The adaptive graph over `ExecutionStage`; `cache_registry`.
6. Theorems: invariants of the stage operators, `OnePlace`-style invariants of the
   modules above, and the abstraction from `ExecutionGraph` to the graph status of
   `JobLifecycle`.

The distributed planner, the optimizer rules, shuffle file formats, serde and the
user interfaces are functions of plans or pure I/O and stay out.
