---------------------------- MODULE JobLifecycle ----------------------------
(***************************************************************************)
(* The life of the jobs of one scheduler: submission, planning in a        *)
(* spawned task, the events of the query stage scheduler's loop, the       *)
(* in-memory JobState backend, the cache of active graphs, cancellation    *)
(* and the clean-up of finished jobs.                                      *)
(*                                                                         *)
(* The event loop takes one event at a time from a FIFO channel, so a      *)
(* handler is one action.  A planner, the grace timer of ExecutorLost and  *)
(* the clean-up timers are tasks of their own and interleave with it.  An  *)
(* execution graph is reduced to its JobStatus; module ExecutionGraph      *)
(* models its inside.                                                      *)
(***************************************************************************)
EXTENDS Naturals, Sequences, FiniteSets

CONSTANTS
    Jobs,        \* job ids
    MaxReports,  \* TaskUpdating events about a job in the channel
    MaxResolved, \* status updates of a job that resolve a stage
    MaxRequests, \* CancelJob and CleanJobData requests about a job
    MaxAborts    \* times a timer or a poll finds a job it will fail

ASSUME JobAssumption ==
    /\ MaxReports \in Nat /\ MaxResolved \in Nat
    /\ MaxRequests \in Nat /\ MaxAborts \in Nat

VARIABLES
    submitted,  \* jobs a client has submitted
    channel,    \* the event loop's channel
    planning,   \* [Jobs -> where the spawned planner of the job is]
    queued,     \* InMemoryJobState.queued_jobs
    running,    \* InMemoryJobState.running_jobs
    completed,  \* InMemoryJobState.completed_jobs
    cache,      \* active_job_cache: the status of the job's graph
    resolved,   \* [Jobs -> how often an update resolved a stage of the job]
    failing,    \* jobs a timer or a poll has decided to fail
    output,     \* [Jobs -> the final stage's files on the executors]
    cleanups,   \* spawned clean-up tasks
    told,       \* [Jobs -> terminal statuses sent to the job's subscriber]
    requests,   \* [Jobs -> requests about the job so far]
    aborts      \* [Jobs -> decisions to fail the job so far]

vars == <<submitted, channel, planning, queued, running, completed, cache,
          resolved, failing, output, cleanups, told, requests, aborts>>

bounds == <<requests, aborts>>

EventTypes == {"JobQueued", "JobSubmitted", "JobPlanningFailed", "TaskUpdating",
               "JobUpdated", "JobFinished", "JobRunningFailed", "JobCancel",
               "JobDataClean"}
Terminal == {"Successful", "Failed"}
CleanUps == {"data_now", "data_asked", "data_delayed", "state"}

\* An event; resolved is the job's count when the event was posted.
Event(type, j) == [type |-> type, job |-> j, resolved |-> resolved[j]]

Post(e) == channel' = Append(channel, e)

\* The loop takes the event at the head; what its handler posts goes to the end.
Received(type, j) ==
    channel # <<>> /\ Head(channel).type = type /\ Head(channel).job = j

Posts(events) == channel' = Tail(channel) \o events

-----------------------------------------------------------------------------
Init ==
    /\ submitted = {}
    /\ channel = <<>>
    /\ planning = [j \in Jobs |-> "none"]
    /\ queued = {}
    /\ running = {}
    /\ completed = [j \in Jobs |-> "absent"]
    /\ cache = [j \in Jobs |-> "absent"]
    /\ resolved = [j \in Jobs |-> 0]
    /\ failing = {}
    /\ output = [j \in Jobs |-> "none"]
    /\ cleanups = {}
    /\ told = [j \in Jobs |-> 0]
    /\ requests = [j \in Jobs |-> 0]
    /\ aborts = [j \in Jobs |-> 0]

-----------------------------------------------------------------------------
(* Requests of clients. *)

SubmitPlan(j) ==
    /\ j \notin submitted
    /\ submitted' = submitted \union {j}
    /\ Post(Event("JobQueued", j))
    /\ UNCHANGED <<planning, queued, running, completed, cache, resolved, failing,
                   output, cleanups, told, bounds>>

\* cancel_job and clean_job_data ask for nothing but the job's id.
Request(type, j) ==
    /\ j \in submitted
    /\ requests[j] < MaxRequests
    /\ requests' = [requests EXCEPT ![j] = @ + 1]
    /\ Post(Event(type, j))
    /\ UNCHANGED <<submitted, planning, queued, running, completed, cache, resolved,
                   failing, output, cleanups, told, aborts>>

CancelJob(j) == Request("JobCancel", j)
CleanJobData(j) == Request("JobDataClean", j)

-----------------------------------------------------------------------------
(* The planner spawned by JobQueued. *)

OnJobQueued(j) ==
    /\ Received("JobQueued", j)
    /\ Posts(<<>>)
    /\ queued' = queued \union {j}
    /\ planning' = [planning EXCEPT ![j] = "planning"]
    /\ UNCHANGED <<submitted, running, completed, cache, resolved, failing, output,
                   cleanups, told, bounds>>

\* Planning fails, or the job is not in queued_jobs; the subscriber is told here.
PlanFails(j) ==
    /\ planning[j] = "planning"
    /\ planning' = [planning EXCEPT ![j] = "none"]
    /\ told' = [told EXCEPT ![j] = @ + 1]
    /\ Post(Event("JobPlanningFailed", j))
    /\ UNCHANGED <<submitted, queued, running, completed, cache, resolved, failing,
                   output, cleanups, bounds>>

\* Mutant: the job stays in queued_jobs.
SubmitKeepsQueued(j) ==
    /\ planning[j] = "planning"
    /\ j \in queued
    /\ planning' = [planning EXCEPT ![j] = "submitted"]
    /\ running' = running \union {j}
    /\ UNCHANGED <<submitted, channel, queued, completed, cache, resolved, failing,
                   output, cleanups, told, bounds>>

\* InMemoryJobState::submit_job.
PlanSubmits(j) ==
    /\ planning[j] = "planning"
    /\ j \in queued
    /\ planning' = [planning EXCEPT ![j] = "submitted"]
    /\ running' = running \union {j}
    /\ queued' = queued \ {j}
    /\ UNCHANGED <<submitted, channel, completed, cache, resolved, failing, output,
                   cleanups, told, bounds>>

\* The graph is revived and cached: executors may be given its tasks from here.
PlanCaches(j) ==
    /\ planning[j] = "submitted"
    /\ planning' = [planning EXCEPT ![j] = "cached"]
    /\ cache' = [cache EXCEPT ![j] = "Running"]
    /\ UNCHANGED <<submitted, channel, queued, running, completed, resolved, failing,
                   output, cleanups, told, bounds>>

PlanPosts(j) ==
    /\ planning[j] = "cached"
    /\ planning' = [planning EXCEPT ![j] = "none"]
    /\ Post(Event("JobSubmitted", j))
    /\ UNCHANGED <<submitted, queued, running, completed, cache, resolved, failing,
                   output, cleanups, told, bounds>>

OnJobSubmitted(j) ==
    /\ Received("JobSubmitted", j)
    /\ Posts(<<>>)
    /\ UNCHANGED <<submitted, planning, queued, running, completed, cache, resolved,
                   failing, output, cleanups, told, bounds>>

\* fail_unscheduled_job; an error when the job is not queued is only logged.
OnJobPlanningFailed(j) ==
    /\ Received("JobPlanningFailed", j)
    /\ Posts(<<>>)
    /\ queued' = queued \ {j}
    /\ completed' = [completed EXCEPT ![j] = IF j \in queued THEN "Failed" ELSE @]
    /\ UNCHANGED <<submitted, planning, running, cache, resolved, failing, output,
                   cleanups, told, bounds>>

-----------------------------------------------------------------------------
(* Running jobs. *)

Pending(type, j) ==
    {i \in DOMAIN channel : channel[i].type = type /\ channel[i].job = j}

\* An executor reports on tasks of a cached job.
Report(j) ==
    /\ cache[j] # "absent"
    /\ Cardinality(Pending("TaskUpdating", j)) < MaxReports
    /\ Post(Event("TaskUpdating", j))
    /\ UNCHANGED <<submitted, planning, queued, running, completed, cache, resolved,
                   failing, output, cleanups, told, bounds>>

\* What update_task_status does to the status of the graph, by what it posts.
\* The status that completes the graph is of a task launched after the last
\* stage was resolved; a graph that is successful finishes again with every
\* further update, a failed one may fail again.
OnTaskUpdating(j, posted) ==
    LET finishes == posted = "JobFinished" /\ cache[j] = "Running"
        stays    == IF posted = "JobRunningFailed" THEN "Failed" ELSE cache[j]
    IN  /\ Received("TaskUpdating", j)
        /\ CASE cache[j] = "absent"     -> posted = "nothing"
             [] cache[j] = "Successful" -> posted = "JobFinished"
             [] cache[j] = "Failed"     -> posted # "JobFinished"
             [] cache[j] = "Running"    ->
                   posted = "JobFinished" => Head(channel).resolved = resolved[j]
        /\ posted = "JobUpdated" => resolved[j] < MaxResolved
        /\ resolved' = [resolved EXCEPT ![j] = IF posted = "JobUpdated" THEN @ + 1
                                               ELSE @]
        /\ cache' = [cache EXCEPT ![j] = IF finishes THEN "Successful" ELSE stays]
        /\ output' = [output EXCEPT ![j] = IF finishes THEN "kept" ELSE @]
        /\ Posts(IF posted = "nothing" THEN <<>> ELSE <<Event(posted, j)>>)
        /\ UNCHANGED <<submitted, planning, queued, running, completed, failing,
                       cleanups, told, bounds>>

\* Mutants: every save tells the subscriber; none does.
SaveTellsAlways(j, status) ==
    /\ completed' = [completed EXCEPT ![j] = status]
    /\ running' = running \ {j}
    /\ told' = [told EXCEPT ![j] = @ + 1]

SaveTellsNobody(j, status) ==
    /\ completed' = [completed EXCEPT ![j] = status]
    /\ running' = running \ {j}
    /\ UNCHANGED told

\* InMemoryJobState::save_job of a terminal status.
SaveTerminal(j, status) ==
    /\ completed' = [completed EXCEPT ![j] = status]
    /\ running' = running \ {j}
    /\ told' = [told EXCEPT ![j] = IF j \in running THEN @ + 1 ELSE @]

NothingSaved == UNCHANGED <<completed, running, told>>

\* update_job: saves the status the graph has by now.
OnJobUpdated(j) ==
    /\ Received("JobUpdated", j)
    /\ Posts(<<>>)
    /\ IF cache[j] \in Terminal THEN SaveTerminal(j, cache[j]) ELSE NothingSaved
    /\ UNCHANGED <<submitted, planning, queued, cache, resolved, failing, output,
                   cleanups, bounds>>

\* succeed_job and clean_up_successful_job.
OnJobFinished(j) ==
    /\ Received("JobFinished", j)
    /\ Posts(<<>>)
    /\ IF cache[j] = "Successful"
       THEN /\ SaveTerminal(j, "Successful")
            /\ cache' = [cache EXCEPT ![j] = "absent"]
       ELSE NothingSaved /\ UNCHANGED cache
    /\ cleanups' = cleanups \union {<<j, "data_delayed">>, <<j, "state">>}
    /\ UNCHANGED <<submitted, planning, queued, resolved, failing, output, bounds>>

\* Mutant: a job that is not cached is recorded as failed.
AbortUncached(j) ==
    /\ Posts(<<>>)
    /\ SaveTerminal(j, "Failed")
    /\ cache' = [cache EXCEPT ![j] = "absent"]
    /\ cleanups' = cleanups \union {<<j, "data_now">>, <<j, "state">>}
    /\ UNCHANGED <<submitted, planning, queued, resolved, failing, output, bounds>>

\* abort_job, whatever the status of the graph, and clean_up_failed_job.
Abort(j) ==
    /\ Posts(<<>>)
    /\ IF cache[j] # "absent"
       THEN /\ SaveTerminal(j, "Failed")
            /\ cache' = [cache EXCEPT ![j] = "absent"]
       ELSE NothingSaved /\ UNCHANGED cache
    /\ cleanups' = cleanups \union {<<j, "data_now">>, <<j, "state">>}
    /\ UNCHANGED <<submitted, planning, queued, resolved, failing, output, bounds>>

OnJobRunningFailed(j) == Received("JobRunningFailed", j) /\ Abort(j)
OnJobCancel(j) == Received("JobCancel", j) /\ Abort(j)

\* The grace timer of ExecutorLost, or a poll whose task cannot be prepared,
\* finds the job running and decides to fail it; the event is posted later.
DecideToFail(j) ==
    /\ cache[j] = "Running"
    /\ aborts[j] < MaxAborts
    /\ aborts' = [aborts EXCEPT ![j] = @ + 1]
    /\ failing' = failing \union {j}
    /\ UNCHANGED <<submitted, channel, planning, queued, running, completed, cache,
                   resolved, output, cleanups, told, requests>>

PostFailure(j) ==
    /\ j \in failing
    /\ failing' = failing \ {j}
    /\ Post(Event("JobRunningFailed", j))
    /\ UNCHANGED <<submitted, planning, queued, running, completed, cache, resolved,
                   output, cleanups, told, bounds>>

-----------------------------------------------------------------------------
(* Clean-up of job data on the executors and of the saved state. *)

OnJobDataClean(j) ==
    /\ Received("JobDataClean", j)
    /\ Posts(<<>>)
    /\ cleanups' = cleanups \union {<<j, "data_asked">>}
    /\ UNCHANGED <<submitted, planning, queued, running, completed, cache, resolved,
                   failing, output, told, bounds>>

CleanUpData(j, kind) ==
    /\ <<j, kind>> \in cleanups
    /\ cleanups' = cleanups \ {<<j, kind>>}
    /\ output' = [output EXCEPT ![j] = CASE @ = "none" -> @
                                         [] @ # "none" /\ kind = "data_now" -> "dropped"
                                         [] OTHER -> "cleaned"]
    /\ UNCHANGED <<submitted, channel, planning, queued, running, completed, cache,
                   resolved, failing, told, bounds>>

CleanUpState(j) ==
    /\ <<j, "state">> \in cleanups
    /\ cleanups' = cleanups \ {<<j, "state">>}
    /\ completed' = [completed EXCEPT ![j] = IF @ \in Terminal THEN "removed" ELSE @]
    /\ UNCHANGED <<submitted, channel, planning, queued, running, cache, resolved,
                   failing, output, told, bounds>>

\* The loop waits for an event.
Idle == channel = <<>> /\ UNCHANGED vars

Handle(j) ==
    \/ OnJobQueued(j) \/ OnJobSubmitted(j) \/ OnJobPlanningFailed(j)
    \/ \E posted \in {"nothing", "JobUpdated", "JobFinished", "JobRunningFailed"} :
          OnTaskUpdating(j, posted)
    \/ OnJobUpdated(j) \/ OnJobFinished(j) \/ OnJobRunningFailed(j)
    \/ OnJobCancel(j) \/ OnJobDataClean(j)

Plan(j) == PlanFails(j) \/ PlanSubmits(j) \/ PlanCaches(j) \/ PlanPosts(j)

Next ==
    \/ \E j \in Jobs :
          \/ SubmitPlan(j) \/ CancelJob(j) \/ CleanJobData(j)
          \/ Plan(j) \/ Handle(j) \/ Report(j)
          \/ DecideToFail(j) \/ PostFailure(j)
          \/ CleanUpState(j)
          \/ \E kind \in {"data_now", "data_asked", "data_delayed"} :
                CleanUpData(j, kind)
    \/ Idle

Spec == Init /\ [][Next]_vars

\* The loop, the planners and the executors go on, and a graph that is reported
\* on again and again ends (what module ExecutionGraph checks as JobEnds).
Fairness ==
    \A j \in Jobs :
       /\ WF_vars(Handle(j))
       /\ WF_vars(Plan(j))
       /\ WF_vars(Report(j))
       /\ SF_vars(OnTaskUpdating(j, "JobFinished"))

FairSpec == Spec /\ Fairness

-----------------------------------------------------------------------------
(* Properties. *)

Events == [type : EventTypes, job : Jobs, resolved : Nat]

\* Every variable holds a value of the shape the source's types give it.
TypeOK ==
    /\ submitted \subseteq Jobs
    /\ channel \in Seq(Events)
    /\ planning \in [Jobs -> {"none", "planning", "submitted", "cached"}]
    /\ queued \subseteq Jobs
    /\ running \subseteq Jobs
    /\ completed \in [Jobs -> {"absent", "removed"} \union Terminal]
    /\ cache \in [Jobs -> {"absent", "Running"} \union Terminal]
    /\ resolved \in [Jobs -> Nat]
    /\ failing \subseteq Jobs
    /\ output \in [Jobs -> {"none", "kept", "cleaned", "dropped"}]
    /\ cleanups \subseteq Jobs \X CleanUps
    /\ told \in [Jobs -> Nat]
    /\ requests \in [Jobs -> Nat]
    /\ aborts \in [Jobs -> Nat]

\* The status of a job in the JobState backend: the first map that has it.
Recorded(j) ==
    CASE j \in queued -> "Queued"
      [] j \notin queued /\ j \in running -> "Running"
      [] OTHER -> IF completed[j] = "absent" THEN "None"
                  ELSE IF completed[j] = "removed" THEN "Removed" ELSE completed[j]

RecordedStatus == [j \in Jobs |-> Recorded(j)]

\* The maps of the backend never hold two statuses of one job, and a cached job
\* that runs is one the backend has as running: update_job can save it.
OnePlace ==
    \A j \in Jobs :
       /\ ~(j \in queued /\ j \in running)
       /\ completed[j] # "absent" => j \notin queued \union running
       /\ cache[j] = "Running" => j \in running

\* The recorded status of every job follows the promise of JobState: one outcome,
\* which no late JobFinished, JobUpdated, JobRunningFailed or JobCancel changes.
Promise == INSTANCE JobStatus WITH status <- RecordedStatus
KeepsPromise == Promise!Spec

\* A subscriber is sent one terminal status, by the planner or by the save that
\* ends the job, and it has been sent it once the outcome is recorded.
ToldOnce ==
    \A j \in Jobs :
       /\ told[j] <= 1
       /\ completed[j] # "absent" => told[j] = 1

\* Nothing has happened to the job since it was submitted.
Fresh(j) ==
    /\ planning[j] = "none" /\ cache[j] = "absent" /\ completed[j] = "absent"
    /\ j \notin queued \union running \union failing
    /\ told[j] = 0

\* What the maps, the cache and the planner of a job say of each other.
Placed(j) ==
    /\ j \notin submitted => Fresh(j)
    /\ planning[j] = "planning" => j \in queued
    /\ planning[j] = "submitted" => j \in running /\ cache[j] = "absent"
    /\ planning[j] = "cached" => j \notin queued
    /\ j \in queued =>
          /\ j \notin running /\ completed[j] = "absent" /\ cache[j] = "absent"
          /\ planning[j] \in {"none", "planning"}
          /\ told[j] = IF planning[j] = "none" THEN 1 ELSE 0
    /\ j \in running => completed[j] = "absent"
    /\ cache[j] \in {"Running", "Successful"} => j \in running
    /\ cache[j] = "Failed" => j \in running \/ completed[j] \in {"Failed", "removed"}
    /\ completed[j] # "absent" => told[j] = 1
    /\ j \notin queued /\ completed[j] = "absent" => told[j] = 0

\* What an event in the channel says of its job.
Announces(e) ==
    /\ e.job \in submitted
    /\ e.resolved <= resolved[e.job]
    /\ e.type = "JobQueued" => Fresh(e.job)
    /\ e.type = "JobPlanningFailed" =>
          planning[e.job] = "none" /\ told[e.job] = 1
    /\ e.type = "JobUpdated" => cache[e.job] # "Successful"

\* What the order of two events of a job says: it is queued once, and a status
\* report ahead of a JobUpdated was made before that stage was resolved.
Ordered(e, f) ==
    e.job = f.job =>
       /\ ~(e.type = "JobQueued" /\ f.type = "JobQueued")
       /\ e.type = "TaskUpdating" /\ f.type = "JobUpdated"
             => e.resolved < resolved[e.job]

EventsAgree ==
    /\ \A i \in DOMAIN channel : Announces(channel[i])
    /\ \A i, k \in DOMAIN channel : i < k => Ordered(channel[i], channel[k])

\* The inductive invariant behind OnePlace, ToldOnce and KeepsPromise: the maps,
\* the cache, the planner and the events under way tell one story of every job.
JobInv == (\A j \in Jobs : Placed(j)) /\ EventsAgree

\* The output of a job recorded as successful stays on the executors until a
\* client asks for its removal or the delayed clean-up comes.
OutputKept ==
    \A j \in Jobs : completed[j] = "Successful" => output[j] # "dropped"

\* Handling JobCancel fails a job that is queued or running.
CancelFailsJob ==
    [][\A j \in Jobs : OnJobCancel(j) /\ Recorded(j) \in {"Queued", "Running"}
          => Recorded(j)' = "Failed"]_vars

\* Every submitted job ends and its subscriber hears of it.
JobConcludes == \A j \in Jobs : j \in submitted ~> told[j] = 1
=============================================================================
