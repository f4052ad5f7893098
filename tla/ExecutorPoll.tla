---------------------------- MODULE ExecutorPoll ----------------------------
(***************************************************************************)
(* An executor under pull scheduling (executor/src/execution_loop.rs): the  *)
(* poll loop with its semaphore of vcores, the tasks it starts, and the     *)
(* channel of statuses it reports with its next poll.  The scheduler's      *)
(* poll_work handler applies the statuses and binds task slices whose       *)
(* vcores fit what the executor says is free.                               *)
(***************************************************************************)
EXTENDS Integers, FiniteSets, Functions

CONSTANTS
    Tasks,         \* tasks the scheduler will bind
    Vcores,        \* permits of the semaphore
    Slice,         \* [Tasks -> Nat], partitions of the task
    StageAttempt,  \* [Tasks -> Nat], the attempt of the stage it belongs to
    TaskAttempt,   \* [Tasks -> Nat], its own attempt number
    Endless,       \* tasks that may run for ever
    FaultSets      \* the sets of faults that may happen together

VARIABLES
    loop,         \* where the poll loop is
    free_vcores,  \* free permits
    offered,      \* num_free_vcores of the call in flight
    sent,         \* statuses of the call in flight
    received,     \* tasks of the answer that are not started yet
    active_job,   \* the answer held tasks
    pending,      \* tasks the scheduler has not bound
    running,      \* tasks on the dedicated runtime
    reporting,    \* tasks that sent their status and still hold their permit
    channel,      \* statuses waiting to be sampled
    applied,      \* statuses the scheduler has applied
    faults

vars == <<loop, free_vcores, offered, sent, received, active_job, pending,
          running, reporting, channel, applied, faults>>

Fault(kind) ==
    /\ \E F \in FaultSets : faults \union {kind} \subseteq F
    /\ faults' = faults \union {kind}

Status(t, attempt) == [task |-> t, attempt |-> attempt]

Partitions(S) == SumFunctionOnSet(Slice, S)

Init ==
    /\ loop = "waiting"
    /\ free_vcores = Vcores
    /\ offered = 0
    /\ sent = {}
    /\ received = {}
    /\ active_job = FALSE
    /\ pending = Tasks
    /\ running = {}
    /\ reporting = {}
    /\ channel = {}
    /\ applied = {}
    /\ faults = {}

-----------------------------------------------------------------------------
(* The loop. *)

\* A free permit is taken and given back; after HEARTBEAT_POLL_INTERVAL without
\* one the loop goes on all the same.
Wait ==
    /\ loop = "waiting"
    /\ loop' = "sampling"
    /\ UNCHANGED <<free_vcores, offered, sent, received, active_job, pending,
                   running, reporting, channel, applied, faults>>

\* sample_tasks_status empties the channel.
SampleTasksStatus ==
    /\ loop = "sampling"
    /\ loop' = "polling"
    /\ sent' = channel
    /\ channel' = {}
    /\ active_job' = FALSE
    /\ UNCHANGED <<free_vcores, offered, received, pending, running, reporting,
                   applied, faults>>

\* Mutant: the call offers every vcore of the executor.
PollAllVcores ==
    /\ loop = "polling"
    /\ loop' = "calling"
    /\ offered' = Vcores
    /\ UNCHANGED <<free_vcores, sent, received, active_job, pending, running,
                   reporting, channel, applied, faults>>

\* The free permits are counted when the call is built, after the sampling.
Poll ==
    /\ loop = "polling"
    /\ loop' = "calling"
    /\ offered' = free_vcores
    /\ UNCHANGED <<free_vcores, sent, received, active_job, pending, running,
                   reporting, channel, applied, faults>>

\* poll_work: the scheduler applies the statuses and binds tasks that fit the
\* offer.  The call may fail before or after it; the loop forgets the statuses
\* it has sent either way.
PollWork(S, outcome) ==
    /\ loop = "calling"
    /\ Partitions(S) <= offered
    /\ sent' = {}
    /\ CASE outcome = "answered" ->
              /\ applied' = applied \union sent
              /\ pending' = pending \ S
              /\ received' = S
              /\ active_job' = (S # {})
              /\ loop' = "starting"
              /\ UNCHANGED faults
         [] outcome = "refused" ->
              /\ S = {}
              /\ Fault("rpc")
              /\ loop' = "sleeping"
              /\ UNCHANGED <<applied, pending, received, active_job>>
         [] outcome = "answer lost" ->
              /\ Fault("rpc")
              /\ applied' = applied \union sent
              /\ pending' = pending \ S
              /\ loop' = "sleeping"
              /\ UNCHANGED <<received, active_job>>
    /\ UNCHANGED <<free_vcores, offered, running, reporting, channel>>

\* Each task takes one permit, whatever its slice; the loop waits for it.
StartTask(t) ==
    /\ loop = "starting"
    /\ t \in received
    /\ free_vcores > 0
    /\ received' = received \ {t}
    /\ free_vcores' = free_vcores - 1
    /\ running' = running \union {t}
    /\ UNCHANGED <<loop, offered, sent, active_job, pending, reporting, channel,
                   applied, faults>>

\* run_received_task fails before the task is spawned: the permit is dropped
\* and the failure is reported with the task's attempt for the stage's.
FailTask(t) ==
    /\ loop = "starting"
    /\ t \in received
    /\ free_vcores > 0
    /\ Fault("setup")
    /\ received' = received \ {t}
    /\ channel' = channel \union {Status(t, TaskAttempt[t])}
    /\ UNCHANGED <<loop, free_vcores, offered, sent, active_job, pending, running,
                   reporting, applied>>

AllStarted ==
    /\ loop = "starting"
    /\ received = {}
    /\ loop' = IF active_job THEN "waiting" ELSE "sleeping"
    /\ UNCHANGED <<free_vcores, offered, sent, received, active_job, pending,
                   running, reporting, channel, applied, faults>>

\* The idle interval, or the poll_now notification that cuts it short.
Sleep ==
    /\ loop = "sleeping"
    /\ loop' = "waiting"
    /\ UNCHANGED <<free_vcores, offered, sent, received, active_job, pending,
                   running, reporting, channel, applied, faults>>

-----------------------------------------------------------------------------
(* The spawned future: it reports with its stage's attempt, then gives its  *)
(* permit back.                                                             *)

ReportTask(t) ==
    /\ t \in running
    /\ running' = running \ {t}
    /\ reporting' = reporting \union {t}
    /\ channel' = channel \union {Status(t, StageAttempt[t])}
    /\ UNCHANGED <<loop, free_vcores, offered, sent, received, active_job, pending,
                   applied, faults>>

DropPermit(t) ==
    /\ t \in reporting
    /\ reporting' = reporting \ {t}
    /\ free_vcores' = free_vcores + 1
    /\ UNCHANGED <<loop, offered, sent, received, active_job, pending, running,
                   channel, applied, faults>>

LoopStep ==
    \/ Wait
    \/ SampleTasksStatus
    \/ Poll
    \/ \E S \in SUBSET pending, outcome \in {"answered", "refused", "answer lost"} :
          PollWork(S, outcome)
    \/ \E t \in Tasks : StartTask(t) \/ FailTask(t)
    \/ AllStarted
    \/ Sleep

Next ==
    \/ LoopStep
    \/ \E t \in Tasks : ReportTask(t) \/ DropPermit(t)

Spec == Init /\ [][Next]_vars

\* The loop runs; of the tasks only those outside Endless must end.
Fairness ==
    /\ WF_vars(LoopStep)
    /\ \A t \in Tasks \ Endless : WF_vars(ReportTask(t) \/ DropPermit(t))

FairSpec == Spec /\ Fairness

-----------------------------------------------------------------------------
(* Properties. *)

\* Every variable holds a value of its type.  Every permit is free or held by
\* a task.
TypeOK ==
    /\ loop \in {"waiting", "sampling", "polling", "calling", "starting", "sleeping"}
    /\ free_vcores + Cardinality(running) + Cardinality(reporting) = Vcores
    /\ free_vcores \in 0 .. Vcores
    /\ offered \in 0 .. Vcores
    /\ received \subseteq Tasks
    /\ pending \subseteq Tasks
    /\ \A s \in sent \union channel \union applied :
          s.task \in Tasks /\ s.attempt \in Nat

\* The loop never waits for a permit it may not get: the tasks of an answer do
\* not outnumber the free permits, so polling, the executor's only heartbeat,
\* does not depend on the end of a task.
PermitForEachTask == loop = "starting" => Cardinality(received) <= free_vcores

\* Why the loop never waits: it is the only one to take permits, the call offers those that
\* are free, and a task has at least one partition.
PollInv ==
    /\ TypeOK /\ PermitForEachTask
    /\ running \subseteq Tasks /\ reporting \subseteq Tasks
    /\ running \intersect reporting = {} /\ received \intersect (running \union reporting) = {}
    /\ pending \intersect (received \union running \union reporting) = {}
    /\ loop = "calling" => offered <= free_vcores

\* ... and an executor whose vcores are all busy with tasks that do not end
\* keeps polling.
KeepsPolling == []<>(loop = "calling")

\* The status of a task counts for the scheduler unless a newer attempt of its
\* stage runs.
Concluded(t) ==
    \E s \in applied : s.task = t /\ s.attempt >= StageAttempt[t]

\* A task that the scheduler has bound is concluded by a status, also when it
\* cannot be started, unless a poll fails.
TaskConcluded ==
    \A t \in Tasks \ Endless : t \notin pending ~> (Concluded(t) \/ "rpc" \in faults)

\* The executor runs at most as many partitions at once as it has vcores.
PartitionsWithinVcores == Partitions(running \union reporting) <= Vcores
=============================================================================
