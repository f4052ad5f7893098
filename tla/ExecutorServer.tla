--------------------------- MODULE ExecutorServer ---------------------------
(***************************************************************************)
(* An executor under push scheduling (executor/src/executor_server.rs,     *)
(* executor.rs) and the shutdown of its process (executor_process.rs,      *)
(* shutdown.rs): the launch RPC and the two bounded channels, the task     *)
(* runner with its dedicated runtime, the status reporter, the heartbeater,*)
(* and the main future that waits for a reason to stop and then drains.    *)
(*                                                                         *)
(* at[t] is the place of task t: every channel and every loop holds the    *)
(* tasks that are at it.                                                   *)
(***************************************************************************)
EXTENDS Integers, FiniteSets

CONSTANTS
    Tasks,      \* launches the scheduler may make
    Keys,       \* values of TaskKey
    KeyOf,      \* [Tasks -> Keys], the TaskKey of a launch (no attempt in it)
    BufSize,    \* capacity of tx_task and tx_task_status
    HEARTBEAT_FAILURE_TERMINATION_THRESHOLD,
    Patience,   \* subset of BOOLEAN: is graceful_shutdown_timeout_seconds > 0?
    FaultSets   \* the sets of faults that may happen together

VARIABLES
    at,             \* [Tasks -> Places]
    abort_handles,  \* [Keys -> Tasks \union {NoTask}]
    waker,          \* tasks_drained_waker: "none", "registered", "woken"
    consecutive_failures,
    shutdown,       \* notify_shutdown has been sent
    heartbeater, reporter, runner,  \* the three loops
    grpc, flight,   \* the two services
    reading,        \* a do_get stream of the Flight service is open
    main,           \* where the main future is
    bounded,        \* this process has a shutdown timeout
    faults          \* kinds of faults that have happened

vars == <<at, abort_handles, waker, consecutive_failures, shutdown, heartbeater,
          reporter, runner, grpc, flight, reading, main, bounded, faults>>

NoTask == "none"

Places == {"scheduler",       \* not launched yet
           "rejected",        \* its job could not be decoded
           "calling",         \* waits in launch_multi_task for room in tx_task
           "tx_task",
           "spawned",         \* handed to the dedicated runtime
           "executing",       \* execute_query_stage has inserted its handle
           "unwinding",       \* its handle is removed, the waker not called yet
           "finished",        \* waits for room in tx_task_status
           "tx_task_status",
           "batch",           \* in the reporter's update_task_status call
           "reported",
           "lost"}

In(place) == {t \in Tasks : at[t] = place}

Move(t, place) == at' = [at EXCEPT ![t] = place]

Fault(kind) ==
    /\ \E F \in FaultSets : faults \union {kind} \subseteq F
    /\ faults' = faults \union {kind}

tasks == <<at, abort_handles, waker>>
loops == <<consecutive_failures, heartbeater, reporter, runner>>
process == <<grpc, flight, reading, main, bounded>>

\* The process has not returned.
Up == main \notin {"cleaned", "timed_out"}

Init ==
    /\ at = [t \in Tasks |-> "scheduler"]
    /\ abort_handles = [k \in Keys |-> NoTask]
    /\ waker = "none"
    /\ consecutive_failures = 0
    /\ shutdown = FALSE
    /\ heartbeater = "running"
    /\ reporter = "running"
    /\ runner = "running"
    /\ grpc = "up"
    /\ flight = "up"
    /\ reading = FALSE
    /\ main = "serving"
    /\ bounded \in Patience
    /\ faults = {}

-----------------------------------------------------------------------------
(* The gRPC handlers. *)

\* launch_multi_task: the tasks of a job that cannot be decoded are reported
\* back in the answer, the others wait for room in the channel.
LaunchMultiTask(t, decoded) ==
    /\ Up
    /\ grpc = "up"
    /\ at[t] = "scheduler"
    /\ IF decoded THEN UNCHANGED faults ELSE Fault("decode")
    /\ Move(t, IF decoded THEN "calling" ELSE "rejected")
    /\ UNCHANGED <<abort_handles, waker, shutdown, loops, process>>

\* send().await: waits while the channel is full, panics when the runner has
\* dropped its end.
SendTask(t) ==
    /\ Up
    /\ at[t] = "calling"
    /\ \/ runner = "stopped" /\ Move(t, "lost")
       \/ runner = "running" /\ Cardinality(In("tx_task")) < BufSize /\ Move(t, "tx_task")
    /\ UNCHANGED <<abort_handles, waker, shutdown, loops, process, faults>>

-----------------------------------------------------------------------------
(* The task runner and the tasks on its dedicated runtime. *)

RunnerReceive(t) ==
    /\ Up
    /\ runner = "running"
    /\ at[t] = "tx_task"
    /\ Move(t, "spawned")
    /\ UNCHANGED <<abort_handles, waker, shutdown, loops, process, faults>>

\* The select takes the shutdown branch: the receiver and the dedicated
\* executor are dropped, and with them whatever is still in the channel.
RunnerStop ==
    /\ Up
    /\ runner = "running"
    /\ shutdown
    /\ runner' = "stopped"
    /\ at' = [t \in Tasks |-> IF at[t] = "tx_task" THEN "lost" ELSE at[t]]
    /\ UNCHANGED <<abort_handles, waker, shutdown, consecutive_failures,
                   heartbeater, reporter, process, faults>>

\* Dropping the dedicated executor ends its runtime, which drops the futures
\* that have not finished; nothing removes their abort handles.
DropTask(t) ==
    /\ Up
    /\ runner = "stopped"
    /\ at[t] \in {"spawned", "executing", "unwinding", "finished"}
    /\ Move(t, "lost")
    /\ UNCHANGED <<abort_handles, waker, shutdown, loops, process, faults>>

\* Mutant: a task that cannot be set up ends without a status.
RunTaskSilently(t) ==
    /\ Up
    /\ at[t] = "spawned"
    /\ \/ /\ Move(t, "executing")
          /\ abort_handles' = [abort_handles EXCEPT ![KeyOf[t]] = t]
          /\ UNCHANGED faults
       \/ /\ Fault("setup")
          /\ Move(t, "lost")
          /\ UNCHANGED abort_handles
    /\ UNCHANGED <<waker, shutdown, loops, process>>

\* run_task: a plan or runtime that cannot be built becomes a failed status.
RunTask(t) ==
    /\ Up
    /\ at[t] = "spawned"
    /\ \/ /\ Move(t, "executing")
          /\ abort_handles' = [abort_handles EXCEPT ![KeyOf[t]] = t]
          /\ UNCHANGED faults
       \/ /\ Fault("setup")
          /\ Move(t, "finished")
          /\ UNCHANGED abort_handles
    /\ UNCHANGED <<waker, shutdown, loops, process>>

\* The end of execute_query_stage, by a result, an abort or a panic: the handle
\* is removed by its key ...
RemoveHandle(t) ==
    /\ Up
    /\ at[t] = "executing"
    /\ Move(t, "unwinding")
    /\ abort_handles' = [abort_handles EXCEPT ![KeyOf[t]] = NoTask]
    /\ UNCHANGED <<waker, shutdown, loops, process, faults>>

\* ... and then the main future is woken if no handle is left.
NoHandles == \A k \in Keys : abort_handles[k] = NoTask

WakeTasksDrained(t) ==
    /\ Up
    /\ at[t] = "unwinding"
    /\ Move(t, "finished")
    /\ waker' = IF NoHandles /\ waker = "registered" THEN "woken" ELSE waker
    /\ UNCHANGED <<abort_handles, shutdown, loops, process, faults>>

\* The status is sent; without a reporter the send fails and is ignored.
SendStatus(t) ==
    /\ Up
    /\ at[t] = "finished"
    /\ \/ reporter = "stopped" /\ Move(t, "lost")
       \/ /\ reporter # "stopped"
          /\ Cardinality(In("tx_task_status")) < BufSize
          /\ Move(t, "tx_task_status")
    /\ UNCHANGED <<abort_handles, waker, shutdown, loops, process, faults>>

-----------------------------------------------------------------------------
(* The status reporter: the first status is awaited, the others are taken   *)
(* until the channel is empty; a batch whose call fails is dropped.         *)

ReporterFetch ==
    /\ Up
    /\ reporter = "running"
    /\ In("tx_task_status") # {}
    /\ reporter' = "calling"
    /\ at' = [t \in Tasks |-> IF at[t] = "tx_task_status" THEN "batch" ELSE at[t]]
    /\ UNCHANGED <<abort_handles, waker, shutdown, consecutive_failures,
                   heartbeater, runner, process, faults>>

ReporterSend(ok) ==
    /\ Up
    /\ reporter = "calling"
    /\ reporter' = "running"
    /\ IF ok THEN UNCHANGED faults ELSE Fault("rpc")
    /\ at' = [t \in Tasks |-> IF at[t] # "batch" THEN at[t]
                              ELSE IF ok THEN "reported" ELSE "lost"]
    /\ UNCHANGED <<abort_handles, waker, shutdown, consecutive_failures,
                   heartbeater, runner, process>>

ReporterStop ==
    /\ Up
    /\ reporter = "running"
    /\ shutdown
    /\ reporter' = "stopped"
    /\ at' = [t \in Tasks |-> IF at[t] = "tx_task_status" THEN "lost" ELSE at[t]]
    /\ UNCHANGED <<abort_handles, waker, shutdown, consecutive_failures,
                   heartbeater, runner, process, faults>>

-----------------------------------------------------------------------------
(* The heartbeater. *)

Heartbeat(ok) ==
    /\ Up
    /\ heartbeater = "running"
    /\ IF ok THEN UNCHANGED faults ELSE Fault("heartbeat")
    /\ consecutive_failures' = IF ok THEN 0 ELSE consecutive_failures + 1
    /\ LET stop == consecutive_failures' >= HEARTBEAT_FAILURE_TERMINATION_THRESHOLD
       IN  /\ shutdown' = (shutdown \/ stop)
           /\ heartbeater' = IF stop THEN "stopped" ELSE "running"
    /\ UNCHANGED <<tasks, reporter, runner, process>>

HeartbeaterStop ==
    /\ Up
    /\ heartbeater = "running"
    /\ shutdown
    /\ heartbeater' = "stopped"
    /\ UNCHANGED <<tasks, shutdown, consecutive_failures, reporter, runner, process, faults>>

-----------------------------------------------------------------------------
(* The services end on the broadcast once their calls have returned.        *)

GrpcStop ==
    /\ Up
    /\ grpc = "up"
    /\ shutdown
    /\ In("calling") = {}
    /\ grpc' = "down"
    /\ UNCHANGED <<tasks, shutdown, loops, flight, reading, main, bounded, faults>>

\* A do_get stream of another executor or of a client.
Read ==
    /\ Up
    /\ reading \/ flight = "up"
    /\ reading' = ~reading
    /\ UNCHANGED <<tasks, shutdown, loops, grpc, flight, main, bounded, faults>>

\* Mutant: the service is cut off without waiting for its streams.
FlightCut ==
    /\ Up
    /\ flight = "up"
    /\ shutdown
    /\ flight' = "down"
    /\ UNCHANGED <<tasks, shutdown, loops, grpc, reading, main, bounded, faults>>

FlightStop ==
    /\ Up
    /\ flight = "up"
    /\ shutdown
    /\ ~reading
    /\ flight' = "down"
    /\ UNCHANGED <<tasks, shutdown, loops, grpc, reading, main, bounded, faults>>

-----------------------------------------------------------------------------
(* The main future.  It stops serving when check_services returns, on a     *)
(* signal, or on the stop_executor call; only the first two tell the        *)
(* scheduler and wait for the tasks.                                        *)

Goto(phase) ==
    /\ main' = phase
    /\ UNCHANGED <<at, abort_handles, loops, grpc, flight, reading, bounded>>

ServicesStopped ==
    /\ main = "serving"
    /\ grpc = "down"
    /\ flight = "down"
    /\ Goto("notifying")
    /\ UNCHANGED <<waker, shutdown, faults>>

Signal ==
    /\ main = "serving"
    /\ Fault("signal")
    /\ Goto("notifying")
    /\ UNCHANGED <<waker, shutdown>>

StopExecutor ==
    /\ main = "serving"
    /\ grpc = "up"
    /\ Fault("stop")
    /\ Goto("drained")
    /\ UNCHANGED <<waker, shutdown>>

\* The Terminating heartbeat and executor_stopped, whatever they answer.
NotifyScheduler ==
    /\ main = "notifying"
    /\ Goto("poll")
    /\ UNCHANGED <<waker, shutdown, faults>>

\* Mutant: the handles are looked at before the waker is registered.
PollCheckFirst ==
    /\ \/ /\ main = "poll" \/ (main = "pending" /\ waker = "woken")
          /\ Goto(IF NoHandles THEN "drained" ELSE "registered")
          /\ UNCHANGED waker
       \/ /\ main = "registered"
          /\ waker' = "registered"
          /\ Goto("pending")
    /\ UNCHANGED <<shutdown, faults>>

\* TasksDrainedFuture::poll registers the waker before it looks at the handles;
\* a pending poll is repeated when the waker is called.
PollTasksDrained ==
    /\ \/ /\ main = "poll" \/ (main = "pending" /\ waker = "woken")
          /\ waker' = "registered"
          /\ Goto("registered")
       \/ /\ main = "registered"
          /\ Goto(IF NoHandles THEN "drained" ELSE "pending")
          /\ UNCHANGED waker
    /\ UNCHANGED <<shutdown, faults>>

NotifyShutdown ==
    /\ main = "drained"
    /\ shutdown' = TRUE
    /\ Goto("completing")
    /\ UNCHANGED <<waker, faults>>

\* Every loop has dropped its shutdown_complete_tx.
ShutdownComplete ==
    /\ main = "completing"
    /\ heartbeater = "stopped"
    /\ reporter = "stopped"
    /\ runner = "stopped"
    /\ Goto("services")
    /\ UNCHANGED <<waker, shutdown, faults>>

CleanShuffleData ==
    /\ main = "services"
    /\ grpc = "down"
    /\ flight = "down"
    /\ Goto("cleaned")
    /\ UNCHANGED <<waker, shutdown, faults>>

\* The timeout around the graceful shutdown: the broadcast may not have been
\* sent yet, the services are aborted and the process returns an error.
TimedOut ==
    /\ Up
    /\ bounded
    /\ main # "serving"
    /\ main' = "timed_out"
    /\ shutdown' = TRUE
    /\ grpc' = "down"
    /\ flight' = "down"
    /\ reading' = FALSE
    /\ at' = [t \in Tasks |-> IF at[t] = "calling" THEN "lost" ELSE at[t]]
    /\ UNCHANGED <<abort_handles, waker, loops, bounded, faults>>

-----------------------------------------------------------------------------
\* A launched task moves on: its call, the runner, its own future, or the end
\* of the runtime it runs on.
TaskProgress(t) ==
    \/ SendTask(t)
    \/ RunnerReceive(t)
    \/ RunTask(t)
    \/ RemoveHandle(t)
    \/ WakeTasksDrained(t)
    \/ SendStatus(t)
    \/ DropTask(t)

ReporterStep ==
    \/ ReporterFetch
    \/ \E ok \in BOOLEAN : ReporterSend(ok)

MainProgress ==
    \/ ServicesStopped
    \/ NotifyScheduler
    \/ PollTasksDrained
    \/ NotifyShutdown
    \/ ShutdownComplete
    \/ CleanShuffleData
    \/ TimedOut

\* The process has returned.
Exited == ~Up /\ UNCHANGED vars

Next ==
    \/ \E t \in Tasks, decoded \in BOOLEAN : LaunchMultiTask(t, decoded)
    \/ \E t \in Tasks : TaskProgress(t)
    \/ RunnerStop
    \/ ReporterStep
    \/ ReporterStop
    \/ \E ok \in BOOLEAN : Heartbeat(ok)
    \/ HeartbeaterStop
    \/ GrpcStop
    \/ Read
    \/ FlightStop
    \/ Signal
    \/ StopExecutor
    \/ MainProgress
    \/ Exited

Spec == Init /\ [][Next]_vars

\* The futures are scheduled: tasks end, streams end, the loops go on, and the
\* broadcast is seen by a loop that keeps returning to its select.
Fairness ==
    /\ \A t \in Tasks : WF_vars(TaskProgress(t))
    /\ WF_vars(ReporterStep)
    /\ SF_vars(RunnerStop \/ ReporterStop \/ HeartbeaterStop)
    /\ SF_vars(GrpcStop \/ FlightStop)
    /\ WF_vars(reading /\ Read)
    /\ WF_vars(MainProgress)

FairSpec == Spec /\ Fairness

-----------------------------------------------------------------------------
(* Properties. *)

\* Every variable holds a value of its type; neither channel ever holds more
\* than its capacity.
TypeOK ==
    /\ at \in [Tasks -> Places]
    /\ Cardinality(In("tx_task")) <= BufSize
    /\ Cardinality(In("tx_task_status")) <= BufSize
    /\ abort_handles \in [Keys -> Tasks \union {NoTask}]
    /\ waker \in {"none", "registered", "woken"}
    /\ consecutive_failures \in 0 .. HEARTBEAT_FAILURE_TERMINATION_THRESHOLD
    /\ {shutdown, reading, bounded} \subseteq BOOLEAN
    /\ {heartbeater, runner} \subseteq {"running", "stopped"}
    /\ reporter \in {"running", "calling", "stopped"}
    /\ {grpc, flight} \subseteq {"up", "down"}
    /\ main \in {"serving", "notifying", "poll", "registered", "pending", "drained",
                 "completing", "services", "cleaned", "timed_out"}

\* The wait for the tasks (TasksDrainedFuture) is over only when no task
\* executes: tasks with different keys never hide one another's handle.
DrainedMeansIdle ==
    [][main = "registered" /\ main' = "drained" => In("executing") = {}]_vars

\* clean_all_shuffle_data never deletes files under an open do_get stream, on
\* whichever path the process stops.
NoReadAfterClean == main = "cleaned" => ~reading

\* A task that was put into the channel is reported, through two channels that
\* may fill up and whatever fails in setting it up or running it, unless a
\* status call fails or the process shuts down.
TaskReported ==
    \A t \in Tasks :
       at[t] = "tx_task" ~> (at[t] = "reported" \/ "rpc" \in faults \/ shutdown)

\* A process that begins to stop exits, and does not give up its tasks before.
\* The waker is never lost between the end of the last task and the poll that
\* waits for it.  (Only without a
\* timeout, and after the heartbeater has given up, may it wait for a task
\* that was dropped: see StopsWhenIdle.)
ShutdownEnds ==
    /\ DrainedMeansIdle
    /\ main # "serving" ~> (~Up \/ (~bounded /\ "heartbeat" \in faults))

\* TasksDrainedFuture resolves once every active task has completed: a process
\* that waits for its tasks and has none left goes on.
StopsWhenIdle ==
    (main = "pending" /\ \A t \in Tasks : at[t] \notin {"tx_task", "spawned", "executing"})
        ~> main # "pending"
=============================================================================
