-------------------------- MODULE ExecutorRegistry --------------------------
(***************************************************************************)
(* The scheduler's picture of its executors: the three maps of             *)
(* InMemoryClusterState (cluster/memory.rs), the RPC handlers that fill    *)
(* them (scheduler_server/grpc.rs), the removals that empty them           *)
(* (scheduler_server/mod.rs, state/mod.rs) and the ExecutorLost event with *)
(* its timer for an empty cluster (query_stage_scheduler.rs).              *)
(*                                                                         *)
(* No lock covers two maps, so registration, heartbeat and removal are     *)
(* sequences of steps and any two of them interleave.  A handler or a      *)
(* removal is a process with a program counter; the step named by "pc" is  *)
(* the next one.  How many vcores an entry of available_vcores holds is    *)
(* the subject of ClusterVcores; here only the entry's presence matters.   *)
(***************************************************************************)
EXTENDS Naturals, FiniteSets

CONSTANTS
    Executors,   \* executor ids
    Handlers,    \* slots for concurrent executor RPCs
    Removers,    \* slots for concurrent removals
    Modes,       \* SUBSET BOOLEAN, values of is_push_staged_scheduling
    MaxFaults    \* how many faults (late heartbeats, failed launches, signals,
                 \* crashes, restarts) may happen

ASSUME RegistryAssumption ==
    /\ Modes \subseteq BOOLEAN
    /\ MaxFaults \in Nat

VARIABLES
    push,              \* is_push_staged_scheduling, never changes
    executors,         \* ids with metadata
    available_vcores,  \* ids with a vcore budget
    heartbeats,        \* last heartbeat of each executor, or NoHeartbeat
    rpc,               \* [Handlers -> the RPC in the slot]
    removal,           \* [Removers -> the removal in the slot]
    process,           \* [Executors -> what the executor process does]
    lost,              \* ExecutorLost events posted and not handled
    binding,           \* the event loop is inside bind_schedulable_tasks
    alive_executors,   \* its result of get_alive_executors
    holding,           \* executors to which some graph's running task is bound
    timer,             \* the task that fails the jobs of an empty cluster
    no_executor_check_pending,
    job,               \* the state of a job
    before_loss,       \* its started_at is not after the timer's lost_at
    faults             \* faults left

registry == <<push, executors, available_vcores, heartbeats>>
scheduler == <<lost, binding, alive_executors, holding, timer,
               no_executor_check_pending, job, before_loss>>
vars == <<registry, rpc, removal, process, scheduler, faults>>

NoHeartbeat == [status |-> "absent", age |-> "fresh"]
Heartbeat(status) == [status |-> status, age |-> "fresh"]
HeartbeatType ==
    [status : {"absent", "Active", "Terminating", "none"},
     age : {"fresh", "grace", "expired"}]

IdleRpc == [pc |-> "idle", kind |-> "none", exec |-> "none", status |-> "none"]
IdleRemoval == [pc |-> "idle", exec |-> "none"]

RpcSteps == {"register", "saveHeartbeat", "insertVcores", "heartbeat", "offer"}
RemovalSteps == {"dropVcores", "dropExecutor", "dropHeartbeat", "postLost"}

RpcType ==
    {IdleRpc} \union
    [pc : RpcSteps, kind : {"register", "heartbeat", "poll"}, exec : Executors,
     status : {"Active", "Terminating", "none"}]
RemovalType == {IdleRemoval} \union [pc : RemovalSteps, exec : Executors]

-----------------------------------------------------------------------------
(* get_alive_executors, get_expired_executors *)

AliveStatus(status) == status = "Active" \/ (status = "none" /\ ~push)

Alive(e) ==
    /\ AliveStatus(heartbeats[e].status)
    /\ heartbeats[e].age # "expired"

Expired(e) ==
    \/ heartbeats[e].status = "Terminating" /\ heartbeats[e].age # "fresh"
    \/ heartbeats[e].status # "absent" /\ heartbeats[e].age = "expired"

-----------------------------------------------------------------------------
(* The cluster starts with every executor registered and a job running. *)

Init ==
    /\ push \in Modes
    /\ executors = Executors
    /\ available_vcores = IF push THEN Executors ELSE {}
    /\ heartbeats = [e \in Executors |->
                        Heartbeat(IF push THEN "Active" ELSE "none")]
    /\ rpc = [h \in Handlers |-> IdleRpc]
    /\ removal = [r \in Removers |-> IdleRemoval]
    /\ process = [e \in Executors |-> "up"]
    /\ lost = {}
    /\ binding = FALSE
    /\ alive_executors = {}
    /\ holding = {}
    /\ timer = "idle"
    /\ no_executor_check_pending = FALSE
    /\ job = "submitted"
    /\ before_loss = FALSE
    /\ faults = MaxFaults

Fault ==
    /\ faults > 0
    /\ faults' = faults - 1

-----------------------------------------------------------------------------
(* Executor RPCs.  A call is made by a live executor process. *)

At(h, pc) == rpc[h].pc = pc

Goto(h, pc) == rpc' = [rpc EXCEPT ![h].pc = pc]

Return(h) == rpc' = [rpc EXCEPT ![h] = IdleRpc]

\* A poll saves no status; TERMINATING selects that of a heartbeat.
StatusOf(kind, e) ==
    IF kind = "poll" THEN "none"
    ELSE IF process[e] = "terminating" THEN "Terminating" ELSE "Active"

Call(h, kind, e, pc) ==
    /\ At(h, "idle")
    /\ rpc' = [rpc EXCEPT ![h] = [pc |-> pc, kind |-> kind, exec |-> e,
                                  status |-> StatusOf(kind, e)]]

\* Mutant: the heartbeat of an unknown executor is saved and no more.
HeartbeatWithoutRegistering(h, e) ==
    /\ push
    /\ process[e] \in {"up", "terminating"}
    /\ Call(h, "heartbeat", e, "heartbeat")
    /\ UNCHANGED <<registry, removal, process, scheduler, faults>>

\* heart_beat_from_executor reads the metadata before anything else.
CallHeartbeat(h, e) ==
    /\ push
    /\ process[e] \in {"up", "terminating"}
    /\ Call(h, "heartbeat", e,
            IF e \in executors THEN "heartbeat" ELSE "register")
    /\ UNCHANGED <<registry, removal, process, scheduler, faults>>

\* startup: the first call of an executor process, before it heartbeats.
CallRegister(h, e) ==
    /\ push
    /\ process[e] = "starting"
    /\ Call(h, "register", e, "register")
    /\ process' = [process EXCEPT ![e] = "registering"]
    /\ UNCHANGED <<registry, removal, scheduler, faults>>

\* What the result of the registration does to the process that made the call.
Registered(h, ok) ==
    LET e == rpc[h].exec
    IN  process' = IF rpc[h].kind = "register" /\ process[e] = "registering"
                   THEN [process EXCEPT ![e] = IF ok THEN "up" ELSE "down"]
                   ELSE process

\* poll_work: save_executor_metadata inserts the executor if it is not there.
CallPollWork(h, e) ==
    /\ ~push
    /\ process[e] \notin {"down", "registering"}
    /\ Call(h, "poll", e, "heartbeat")
    /\ executors' = executors \union {e}
    /\ process' = IF process[e] = "starting" THEN [process EXCEPT ![e] = "up"]
                  ELSE process
    /\ UNCHANGED <<push, available_vcores, heartbeats, removal, scheduler,
                   faults>>

\* register_executor: the entry is inserted only if it is vacant, else the call
\* fails with "already registered".
RegisterMetadata(h) ==
    /\ At(h, "register")
    /\ IF rpc[h].exec \in executors
       THEN Return(h) /\ Registered(h, FALSE) /\ UNCHANGED executors
       ELSE /\ executors' = executors \union {rpc[h].exec}
            /\ Goto(h, "saveHeartbeat")
            /\ UNCHANGED process
    /\ UNCHANGED <<push, available_vcores, heartbeats, removal, scheduler,
                   faults>>

SaveRegistrationHeartbeat(h) ==
    /\ At(h, "saveHeartbeat")
    /\ heartbeats' = [heartbeats EXCEPT ![rpc[h].exec] = Heartbeat("Active")]
    /\ Goto(h, "insertVcores")
    /\ UNCHANGED <<push, executors, available_vcores, removal, process,
                   scheduler, faults>>

\* ... and ReviveOffers is posted; a heartbeat goes on to save itself.
InsertVcores(h) ==
    /\ At(h, "insertVcores")
    /\ available_vcores' = available_vcores \union {rpc[h].exec}
    /\ IF rpc[h].kind = "heartbeat" THEN Goto(h, "heartbeat") ELSE Return(h)
    /\ Registered(h, TRUE)
    /\ UNCHANGED <<push, executors, heartbeats, removal, scheduler, faults>>

\* save_executor_heartbeat with the status the executor sent.
SaveHeartbeat(h) ==
    /\ At(h, "heartbeat")
    /\ heartbeats' = [heartbeats EXCEPT ![rpc[h].exec] =
                         Heartbeat(rpc[h].status)]
    /\ IF rpc[h].kind = "poll" THEN Goto(h, "offer") ELSE Return(h)
    /\ UNCHANGED <<push, executors, available_vcores, removal, process,
                   scheduler, faults>>

\* poll_work binds tasks to the executor that polls.
OfferToPoller(h) ==
    /\ At(h, "offer")
    /\ holding' = IF job = "running" THEN holding \union {rpc[h].exec}
                  ELSE holding
    /\ Return(h)
    /\ UNCHANGED <<registry, removal, process, lost, binding, alive_executors,
                   timer, no_executor_check_pending, job, before_loss, faults>>

-----------------------------------------------------------------------------
(* Removal: SchedulerState::remove_executor, spawned in the background. *)

Removing(r, pc) == removal[r].pc = pc

StartRemoval(r, e) ==
    /\ Removing(r, "idle")
    /\ removal' = [removal EXCEPT ![r] = [pc |-> "dropVcores", exec |-> e]]

\* executor_stopped: the removal waits for the termination grace period.
ExecutorStopped(r, e) ==
    /\ process[e] = "terminating"
    /\ StartRemoval(r, e)
    /\ UNCHANGED <<registry, rpc, process, scheduler, faults>>

\* expire_dead_executors: an executor that is not terminating is also told to
\* stop, a call that may not reach it.
ExpireExecutor(r, e) ==
    /\ Expired(e)
    /\ StartRemoval(r, e)
    /\ process' \in {process} \union
         (IF heartbeats[e].status = "Terminating" THEN {}
          ELSE {[process EXCEPT ![e] = "down"]})
    /\ UNCHANGED <<registry, rpc, scheduler, faults>>

\* launch_tasks: the launch RPC failed.
LaunchFailed(r, e) ==
    /\ push
    /\ e \in executors
    /\ e \in holding
    /\ StartRemoval(r, e)
    /\ Fault
    /\ UNCHANGED <<registry, rpc, process, scheduler>>

DropVcores(r) ==
    /\ Removing(r, "dropVcores")
    /\ available_vcores' = available_vcores \ {removal[r].exec}
    /\ removal' = [removal EXCEPT ![r].pc = "dropExecutor"]
    /\ UNCHANGED <<push, executors, heartbeats, rpc, process, scheduler,
                   faults>>

\* Mutant: the metadata stays.
KeepExecutor(r) ==
    /\ Removing(r, "dropExecutor")
    /\ removal' = [removal EXCEPT ![r].pc = "dropHeartbeat"]
    /\ UNCHANGED <<registry, rpc, process, scheduler, faults>>

DropExecutor(r) ==
    /\ Removing(r, "dropExecutor")
    /\ executors' = executors \ {removal[r].exec}
    /\ removal' = [removal EXCEPT ![r].pc = "dropHeartbeat"]
    /\ UNCHANGED <<push, available_vcores, heartbeats, rpc, process, scheduler,
                   faults>>

\* Mutant: a removal that does not go through remove_executor posts no event.
DropSilently(r) ==
    /\ Removing(r, "dropHeartbeat")
    /\ heartbeats' = [heartbeats EXCEPT ![removal[r].exec] = NoHeartbeat]
    /\ removal' = [removal EXCEPT ![r] = IdleRemoval]
    /\ UNCHANGED <<push, executors, available_vcores, rpc, process, scheduler,
                   faults>>

DropHeartbeat(r) ==
    /\ Removing(r, "dropHeartbeat")
    /\ heartbeats' = [heartbeats EXCEPT ![removal[r].exec] = NoHeartbeat]
    /\ removal' = [removal EXCEPT ![r].pc = "postLost"]
    /\ UNCHANGED <<push, executors, available_vcores, rpc, process, scheduler,
                   faults>>

PostExecutorLost(r) ==
    /\ Removing(r, "postLost")
    /\ lost' = lost \union {removal[r].exec}
    /\ removal' = [removal EXCEPT ![r] = IdleRemoval]
    /\ UNCHANGED <<registry, rpc, process, binding, alive_executors, holding,
                   timer, no_executor_check_pending, job, before_loss, faults>>

-----------------------------------------------------------------------------
(* The event loop: ReviveOffers and ExecutorLost.  It handles one event at *)
(* a time, the other tasks run on.                                         *)

\* A round in which only executors that hold tasks already are alive changes
\* nothing that is modelled here.
ReviveOffers ==
    /\ push
    /\ job = "running"
    /\ ~binding
    /\ \E e \in Executors : Alive(e) /\ e \notin holding
    /\ binding' = TRUE
    /\ alive_executors' = {e \in Executors : Alive(e)}
    /\ UNCHANGED <<registry, rpc, removal, process, lost, holding, timer,
                   no_executor_check_pending, job, before_loss, faults>>

\* Once it has the lock, tasks go to executors with a budget among those.
BindTasks ==
    /\ binding
    /\ binding' = FALSE
    /\ alive_executors' = {}
    /\ holding' = holding \union (alive_executors \intersect available_vcores)
    /\ UNCHANGED <<registry, rpc, removal, process, lost, timer,
                   no_executor_check_pending, job, before_loss, faults>>

StartJob ==
    /\ job = "submitted"
    /\ job' = "running"
    /\ UNCHANGED <<registry, rpc, removal, process, lost, binding,
                   alive_executors, holding, timer, no_executor_check_pending,
                   before_loss, faults>>

\* The graphs reset the tasks of the executor; when no executor is alive and no
\* timer is pending, one is armed.
ExecutorLost(e) ==
    /\ ~binding
    /\ e \in lost
    /\ lost' = lost \ {e}
    /\ holding' = holding \ {e}
    /\ IF (\A x \in Executors : ~Alive(x)) /\ ~no_executor_check_pending
       THEN /\ timer' = "sleeping"
            /\ no_executor_check_pending' = TRUE
            /\ before_loss' = (job = "running")
       ELSE UNCHANGED <<timer, no_executor_check_pending, before_loss>>
    /\ UNCHANGED <<registry, rpc, removal, process, binding, alive_executors,
                   job, faults>>

\* The timer fails the jobs that were running when it was armed if still no
\* executor is alive ...
CheckEmptyCluster ==
    /\ timer = "sleeping"
    /\ timer' = "checked"
    /\ job' = IF before_loss /\ \A e \in Executors : ~Alive(e) THEN "failed"
              ELSE job
    /\ UNCHANGED <<registry, rpc, removal, process, lost, binding,
                   alive_executors, holding, no_executor_check_pending,
                   before_loss, faults>>

\* ... and last of all lets the next one be armed.
ClearPending ==
    /\ timer = "checked"
    /\ timer' = "idle"
    /\ no_executor_check_pending' = FALSE
    /\ before_loss' = FALSE
    /\ UNCHANGED <<registry, rpc, removal, process, lost, binding,
                   alive_executors, holding, job, faults>>

-----------------------------------------------------------------------------
(* The executor process and time. *)

\* A signal: the executor drains its tasks and sends Terminating heartbeats.
Terminate(e) ==
    /\ process[e] = "up"
    /\ process' = [process EXCEPT ![e] = "terminating"]
    /\ Fault
    /\ UNCHANGED <<registry, rpc, removal, scheduler>>

Drained(e) ==
    /\ process[e] = "terminating"
    /\ process' = [process EXCEPT ![e] = "down"]
    /\ UNCHANGED <<registry, rpc, removal, scheduler, faults>>

Crash(e) ==
    /\ process[e] # "down"
    /\ process' = [process EXCEPT ![e] = "down"]
    /\ Fault
    /\ UNCHANGED <<registry, rpc, removal, scheduler>>

\* The operator starts the executor again under its configured id.
Restart(e) ==
    /\ process[e] = "down"
    /\ process' = [process EXCEPT ![e] = "starting"]
    /\ Fault
    /\ UNCHANGED <<registry, rpc, removal, scheduler>>

\* A heartbeat grows old; that of a live process only when it is delayed.
Age(e) ==
    /\ heartbeats[e].status # "absent"
    /\ heartbeats[e].age # "expired"
    /\ \E age \in {"grace", "expired"} \ {heartbeats[e].age} :
          heartbeats' = [heartbeats EXCEPT ![e].age = age]
    /\ IF process[e] = "down" THEN UNCHANGED faults ELSE Fault
    /\ UNCHANGED <<push, executors, available_vcores, rpc, removal, process,
                   scheduler>>

-----------------------------------------------------------------------------
RpcStep(h) ==
    \/ RegisterMetadata(h) \/ SaveRegistrationHeartbeat(h) \/ InsertVcores(h)
    \/ SaveHeartbeat(h) \/ OfferToPoller(h)

RemovalStep(r) ==
    \/ DropVcores(r) \/ DropExecutor(r) \/ DropHeartbeat(r)
    \/ PostExecutorLost(r)

StartRpc(h, e) ==
    CallHeartbeat(h, e) \/ CallRegister(h, e) \/ CallPollWork(h, e)

StartRemove(r, e) ==
    ExecutorStopped(r, e) \/ ExpireExecutor(r, e) \/ LaunchFailed(r, e)

Next ==
    \/ \E h \in Handlers : RpcStep(h) \/ (\E e \in Executors : StartRpc(h, e))
    \/ \E r \in Removers :
          RemovalStep(r) \/ (\E e \in Executors : StartRemove(r, e))
    \/ \E e \in Executors :
          \/ ExecutorLost(e) \/ Terminate(e) \/ Drained(e) \/ Crash(e)
          \/ Restart(e) \/ Age(e)
    \/ StartJob
    \/ ReviveOffers
    \/ BindTasks
    \/ CheckEmptyCluster
    \/ ClearPending

Spec == Init /\ [][Next]_vars

\* RPC handlers, removals, the event loop and the timer run; a live executor
\* keeps sending heartbeats (or polls); the expiry loop wakes up; time passes.
\* The channel is first in, first out: offers cannot starve an ExecutorLost.
Fairness ==
    /\ \A h \in Handlers : WF_vars(RpcStep(h))
    /\ \A r \in Removers : WF_vars(RemovalStep(r))
    /\ \A e \in Executors :
         /\ WF_vars(\E h \in Handlers : StartRpc(h, e))
         /\ WF_vars(\E r \in Removers : ExpireExecutor(r, e))
         /\ SF_vars(ExecutorLost(e))
         /\ WF_vars(process[e] = "down" /\ Age(e))
    /\ WF_vars(StartJob)
    /\ WF_vars(BindTasks)
    /\ WF_vars(CheckEmptyCluster)
    /\ WF_vars(ClearPending)

FairSpec == Spec /\ Fairness

-----------------------------------------------------------------------------
(* Properties. *)

\* Every map, event, handler and removal is about executors that exist, and a
\* heartbeat holds a status the scheduler knows.
TypeOK ==
    /\ push \in BOOLEAN
    /\ executors \subseteq Executors
    /\ available_vcores \subseteq Executors
    /\ heartbeats \in [Executors -> HeartbeatType]
    /\ rpc \in [Handlers -> RpcType]
    /\ removal \in [Removers -> RemovalType]
    /\ process \in [Executors ->
                     {"starting", "registering", "up", "terminating", "down"}]
    /\ lost \subseteq Executors
    /\ binding \in BOOLEAN
    /\ alive_executors \subseteq Executors
    /\ holding \subseteq Executors
    /\ timer \in {"idle", "sleeping", "checked"}
    /\ no_executor_check_pending \in BOOLEAN
    /\ job \in {"submitted", "running", "failed"}
    /\ before_loss \in BOOLEAN
    /\ faults \in 0 .. MaxFaults

Registering(e) ==
    \E h \in Handlers :
       rpc[h].exec = e /\ rpc[h].pc \in {"saveHeartbeat", "insertVcores"}

BeingRemoved(e) ==
    \E r \in Removers : removal[r].exec = e /\ removal[r].pc = "dropExecutor"

\* A registered executor has a vcore budget, unless its registration is still
\* on the way or a removal is about to take the registration away too.  An
\* executor without budget gets no task, and since its heartbeats find it
\* registered nothing would ever give it one.
RegisteredHasVcores ==
    push => \A e \in executors :
       e \in available_vcores \/ Registering(e) \/ BeingRemoved(e)

Announced(e) ==
    \/ e \in lost
    \/ \E r \in Removers : removal[r].exec = e /\ removal[r].pc = "postLost"

\* When the heartbeat of an executor is gone, so that the expiry loop cannot
\* see it any more, every task bound to it will be reset: the removal is about
\* to post ExecutorLost or the event is waiting.
LossAnnounced ==
    push => \A e \in holding :
       heartbeats[e].status = "absent" => Announced(e)

\* However registrations, heartbeats and removals interleave, an executor that
\* stays up is in the end registered and offered work for good.
HealthyRejoins ==
    \A e \in Executors :
       <>[](process[e] = "up" =>
               /\ e \in executors
               /\ Alive(e)
               /\ push => e \in available_vcores)

\* A job left on a cluster whose executors are all gone is failed.
EmptyClusterFails ==
    (\A e \in Executors : <>[](process[e] = "down")) => <>(job = "failed")
=============================================================================
