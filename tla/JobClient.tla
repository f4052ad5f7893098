------------------------------ MODULE JobClient ------------------------------
(***************************************************************************)
(* A client that waits for its job.  It polls get_job_status (pull), or     *)
(* reads the statuses the scheduler pushes into a bounded channel that it   *)
(* never waits for (push, and the Flight SQL frontend).  The job itself is  *)
(* what module JobStatus promises: it is accepted, planned, updated, and    *)
(* has one outcome, here with the steps in which the records change hands.  *)
(***************************************************************************)
EXTENDS Integers, Sequences

CONSTANTS Modes,          \* "pull", "push"
          STATUS_BUFFER,  \* capacity of the subscriber's channel
          MaxUpdates      \* times save_job stores a status that is not the last

VARIABLES mode, cache, queued, running, completed, subscriber, sender, updates, outcomes,
          lookup, client

job == <<cache, queued, running, completed, outcomes>>
channel == <<subscriber, sender>>
vars == <<mode, job, channel, updates, lookup, client>>

Terminal == {"Successful", "Failed"}

Init ==
    /\ mode \in Modes
    /\ cache = "absent"        \* active_job_cache: the status of the graph
    /\ queued = "absent"       \* InMemoryJobState's three maps
    /\ running = "absent"
    /\ completed = "absent"
    /\ subscriber = <<>>       \* the channel, and whether a sender of it is left
    /\ sender = TRUE
    /\ updates = 0
    /\ outcomes = {}           \* what the job has ended as
    /\ lookup = "cache"        \* where the poll looks next
    /\ client = "new"

\* try_send: a full channel loses the status.
Send(status) ==
    subscriber' = IF mode = "push" /\ sender /\ Len(subscriber) < STATUS_BUFFER
                  THEN Append(subscriber, status) ELSE subscriber

-----------------------------------------------------------------------------
(* The scheduler *)

\* submit_plan: accept_job, then the answer.
SubmitPlan ==
    /\ client = "new"
    /\ queued' = "Queued"
    /\ client' = "waiting"
    /\ UNCHANGED <<mode, cache, running, completed, outcomes, channel, updates, lookup>>

Planning == queued # "absent" /\ running = "absent" /\ outcomes = {}

\* Planning fails in the spawned task, which holds the subscriber.
FailPlanning ==
    /\ Planning
    /\ outcomes' = {"Failed"}
    /\ Send("Failed") /\ sender' = FALSE
    /\ UNCHANGED <<mode, cache, queued, running, completed, updates, lookup, client>>

FailUnscheduledJob ==
    /\ queued # "absent" /\ outcomes = {"Failed"}
    /\ queued' = "absent" /\ completed' = "Failed"
    /\ UNCHANGED <<mode, cache, running, outcomes, channel, updates, lookup, client>>

SubmitJob ==
    /\ Planning
    /\ running' = "Running"
    /\ UNCHANGED <<mode, cache, queued, completed, outcomes, channel, updates, lookup, client>>

DropQueued ==
    /\ queued # "absent" /\ running = "Running"
    /\ queued' = "absent"
    /\ UNCHANGED <<mode, cache, running, completed, outcomes, channel, updates, lookup, client>>

CacheJob ==
    /\ queued = "absent" /\ running = "Running" /\ cache = "absent" /\ outcomes = {}
    /\ cache' = "Running"
    /\ UNCHANGED <<mode, queued, running, completed, outcomes, channel, updates, lookup, client>>

\* update_job: save_job of a job that goes on.
UpdateJob ==
    /\ cache = "Running" /\ updates < MaxUpdates
    /\ updates' = updates + 1
    /\ Send("Running")
    /\ UNCHANGED <<mode, job, sender, lookup, client>>

\* The graph succeeds or fails, and a job that succeeded may still be cancelled or be failed
\* by a timer, until the event that says so is handled.
EndJob(outcome) ==
    /\ \/ cache = "Running"
       \/ cache = "Successful" /\ outcome = "Failed"
    /\ cache' = outcome
    /\ outcomes' = outcomes \union {outcome}
    /\ UNCHANGED <<mode, queued, running, completed, channel, updates, lookup, client>>

\* save_job of an outcome: the running record goes first and takes the subscriber with it.
RemoveRunning ==
    /\ cache \in Terminal /\ running = "Running"
    /\ running' = "absent"
    /\ Send(cache) /\ sender' = FALSE
    /\ UNCHANGED <<mode, cache, queued, completed, outcomes, updates, lookup, client>>

InsertCompleted ==
    /\ cache \in Terminal /\ running = "absent" /\ completed # cache
    /\ completed' = cache
    /\ UNCHANGED <<mode, cache, queued, running, outcomes, channel, updates, lookup, client>>

\* remove_active_execution_graph, after save_job.
EvictJob ==
    /\ cache \in Terminal /\ completed = cache
    /\ cache' = "absent"
    /\ UNCHANGED <<mode, queued, running, completed, outcomes, channel, updates, lookup, client>>

\* The clean-up timer runs for minutes; a client that polls every 50 ms has seen the outcome.
RemoveJob ==
    /\ completed # "absent" /\ cache = "absent" /\ client # "waiting"
    /\ completed' = "absent"
    /\ UNCHANGED <<mode, cache, queued, running, outcomes, channel, updates, lookup, client>>

-----------------------------------------------------------------------------
(* The client *)

\* The next map of get_job_status, which takes them one after the other.
After == [cache |-> "queued", queued |-> "running", running |-> "completed", completed |-> "cache"]

Record == [cache |-> cache, queued |-> queued, running |-> running, completed |-> completed]

Outcome(status) ==
    CASE status = "Successful" -> "ok" [] status = "Failed" -> "failed" [] OTHER -> "waiting"

\* Mutant: a job that is in no map has failed.
LookAbsentFailed ==
    /\ mode = "pull" /\ client = "waiting"
    /\ LET status == Record[lookup]
       IN  /\ client' = IF status = "absent" /\ lookup = "completed" THEN "failed" ELSE Outcome(status)
           /\ lookup' = IF status = "absent" THEN After[lookup] ELSE "cache"
    /\ UNCHANGED <<mode, job, channel, updates>>

\* One lookup of get_job_status; a job that is found, or is in none of the maps, ends the
\* poll, and the client polls again unless it was told an outcome.
Look ==
    /\ mode = "pull" /\ client = "waiting"
    /\ LET status == Record[lookup]
       IN  /\ client' = Outcome(status)
           /\ lookup' = IF status = "absent" THEN After[lookup] ELSE "cache"
    /\ UNCHANGED <<mode, job, channel, updates>>

\* execute_query_push and QueryBackend::execute: the next status, or the end of the stream.
Receive ==
    /\ mode = "push" /\ client = "waiting"
    /\ \/ /\ subscriber # <<>>
          /\ client' = Outcome(Head(subscriber))
          /\ subscriber' = Tail(subscriber)
       \/ /\ subscriber = <<>> /\ ~sender
          /\ client' = "cut_off"
          /\ UNCHANGED subscriber
    /\ UNCHANGED <<mode, job, sender, updates, lookup>>

Scheduler ==
    \/ SubmitPlan \/ FailPlanning \/ FailUnscheduledJob \/ SubmitJob \/ DropQueued \/ CacheJob
    \/ EndJob("Successful") \/ EndJob("Failed") \/ RemoveRunning \/ InsertCompleted \/ EvictJob

Client == Look \/ Receive

Next ==
    \/ SubmitPlan
    \/ FailPlanning
    \/ FailUnscheduledJob
    \/ SubmitJob
    \/ DropQueued
    \/ CacheJob
    \/ UpdateJob
    \/ \E outcome \in Terminal: EndJob(outcome)
    \/ RemoveRunning
    \/ InsertCompleted
    \/ EvictJob
    \/ RemoveJob
    \/ Look
    \/ Receive

Spec == Init /\ [][Next]_vars
Fairness == WF_vars(Scheduler) /\ WF_vars(Client)
FairSpec == Spec /\ Fairness

-----------------------------------------------------------------------------
(* Properties *)

\* The client returns what became of the job: a poll that looks into one map after the other
\* while the job moves between them, or finds it in none, is never taken for an outcome, and
\* what it calls a failure stays one.
ClientAgrees ==
    /\ client = "ok" => "Successful" \in outcomes
    /\ client = "failed" => "Failed" \in outcomes

\* The subscriber of a job with fewer updates than its channel has room for is never cut off
\* without an outcome: also when planning fails, and however slowly it reads.
NeverCutOff == MaxUpdates < STATUS_BUFFER => client # "cut_off"

\* Why these two hold: what a map or the channel says of an outcome is one of the job's, and
\* while a sender is left the channel holds no more than was sent of updates, so that the
\* last status, the outcome, finds room and stays in it until it is read.
ClientInv ==
    /\ cache \in {"absent", "Running"} \cup outcomes
    /\ queued \in {"absent", "Queued"} /\ running \in {"absent", "Running"}
    /\ completed \in {"absent"} \cup outcomes
    /\ outcomes \subseteq Terminal
    /\ subscriber \in Seq({"Running"} \cup outcomes)
    /\ updates \in 0 .. MaxUpdates
    /\ lookup \in DOMAIN After
    /\ ClientAgrees
    /\ MaxUpdates < STATUS_BUFFER /\ mode = "push" =>
           IF sender THEN Len(subscriber) <= updates
           ELSE client \in {"ok", "failed"} \/ (subscriber # <<>> /\ subscriber[Len(subscriber)] \in Terminal)
    /\ NeverCutOff

\* Every client returns.
ClientReturns == <>(client \notin {"new", "waiting"})
===============================================================================
