------------------------------ MODULE JobHistory ------------------------------
(***************************************************************************)
(* The event log of jobs and the history server that lists it.  The query   *)
(* stage scheduler tees its events into a bounded channel before it handles *)
(* them; a writer task appends them to <job>.eventlog.running and renames   *)
(* the file when the job ends; another process rescans the directory.       *)
(*                                                                          *)
(* The loop's handlers are the ones of module JobLifecycle, reduced to what *)
(* they do to the job's graph and its record.  A log is the sequence of its *)
(* JobEnd records; other records only open the file.                        *)
(***************************************************************************)
EXTENDS Integers, Sequences

CONSTANTS Jobs,
          LogBuffer,     \* capacity of the writer's channel
          MaxReports,    \* TaskUpdating events about a job
          MaxRequests    \* decisions to cancel or fail a job from outside its graph

VARIABLES graph,         \* [Jobs -> the status in the job's graph, where one is found]
          active,        \* jobs in active_job_cache
          recorded,      \* [Jobs -> the outcome saved to the job state]
          events,        \* the event loop's channel
          loop,          \* where the loop is with the event it took
          log,           \* the writer's channel
          handles,       \* jobs whose log the writer has open
          running_log,   \* [Jobs -> <job>.eventlog.running]
          final_log,     \* [Jobs -> <job>.eventlog]
          scan,          \* the history server's pass over the directory
          seen, index,   \* its Index
          deleted,       \* jobs whose log was removed from the directory
          reports, requests

vars == <<graph, active, recorded, events, loop, log, handles, running_log, final_log,
          scan, seen, index, deleted, reports, requests>>

scheduler == <<graph, active, recorded, events, loop, handles, running_log, log>>
server == <<scan, seen, index, deleted>>
bounds == <<reports, requests>>

NoFile == <<[kind |-> "none"]>>
Idle == [at |-> "idle"]
Down == [at |-> "down"]
Unlisted == "unlisted"

Post(event) == events' = Append(events, event)
Event(type, j) == [type |-> type, job |-> j]

Init ==
    /\ graph = [j \in Jobs |-> "absent"] /\ active = {}
    /\ recorded = [j \in Jobs |-> "none"]
    /\ events = <<>> /\ loop = Idle
    /\ log = <<>> /\ handles = {}
    /\ running_log = [j \in Jobs |-> NoFile] /\ final_log = [j \in Jobs |-> NoFile]
    /\ scan = Idle /\ seen = {} /\ index = [j \in Jobs |-> Unlisted]
    /\ deleted = {}
    /\ reports = [j \in Jobs |-> 0] /\ requests = [j \in Jobs |-> 0]

-----------------------------------------------------------------------------
(* What reaches the loop *)

\* The planner caches the graph, then posts.
Submit(j) ==
    /\ graph[j] = "absent" /\ loop # Down
    /\ graph' = [graph EXCEPT ![j] = "Running"] /\ active' = active \cup {j}
    /\ Post(Event("JobSubmitted", j))
    /\ UNCHANGED <<recorded, loop, handles, running_log, log, final_log, server, bounds>>

\* A status of a task, of a job that runs or has ended.
Report(j) ==
    /\ graph[j] # "absent" /\ reports[j] < MaxReports /\ loop # Down
    /\ reports' = [reports EXCEPT ![j] = @ + 1]
    /\ Post(Event("TaskUpdating", j))
    /\ UNCHANGED <<graph, active, recorded, loop, handles, running_log, log, final_log, server,
                   requests>>

\* A client cancels the job, or the grace timer of a lost cluster fails it.
Request(type, j) ==
    /\ graph[j] # "absent" /\ requests[j] < MaxRequests /\ loop # Down
    /\ requests' = [requests EXCEPT ![j] = @ + 1]
    /\ Post(Event(type, j))
    /\ UNCHANGED <<graph, active, recorded, loop, handles, running_log, log, final_log, server,
                   reports>>

Cancel(j) == Request("JobCancel", j)
FailJob(j) == Request("JobRunningFailed", j)

-----------------------------------------------------------------------------
(* The loop: the tee of on_receive, then the handler *)

Room == Len(log) < LogBuffer
Ends == {"JobFinished", "JobRunningFailed", "JobCancel"}
Received(types) == loop = Idle /\ events # <<>> /\ Head(events).type \in types

\* append: the event is dropped when the channel is full.
append(j) == log' = IF Room THEN Append(log, [kind |-> "event", job |-> j]) ELSE log

OnJobSubmitted ==
    /\ Received({"JobSubmitted"})
    /\ append(Head(events).job)
    /\ events' = Tail(events)
    /\ UNCHANGED <<graph, active, recorded, loop, handles, running_log, final_log, server, bounds>>

\* The statuses may end the job in its graph, which posts what to do about it.
OnTaskUpdating(outcome) ==
    /\ Received({"TaskUpdating"})
    /\ LET j == Head(events).job IN
          /\ append(j)
          /\ outcome # "Running" => j \in active /\ graph[j] = "Running"
          /\ graph' = IF outcome = "Running" THEN graph ELSE [graph EXCEPT ![j] = outcome]
          /\ events' = Tail(events) \o
                 CASE outcome = "Successful" -> <<Event("JobFinished", j)>>
                   [] outcome = "Failed" -> <<Event("JobRunningFailed", j)>>
                   [] OTHER -> <<>>
    /\ UNCHANGED <<active, recorded, loop, handles, running_log, final_log, server, bounds>>

\* What the JobEnd of an event says, and the status its summary shows: the graph's, before
\* the handler has changed it, except for a cancellation.
JobEnd(event) ==
    [kind |-> "end", job |-> event.job,
     outcome |-> CASE event.type = "JobFinished" -> "Successful"
                   [] event.type = "JobRunningFailed" -> "Failed"
                   [] event.type = "JobCancel" -> "Cancelled",
     shown |-> IF event.type = "JobCancel" THEN "Cancelled" ELSE graph[event.job]]

TakeEnd ==
    /\ Received(Ends)
    /\ events' = Tail(events)
    /\ loop' = [at |-> "append_final", event |-> Head(events), record |-> JobEnd(Head(events))]
    /\ UNCHANGED <<graph, active, recorded, handles, running_log, log, final_log, server, bounds>>

At(where) == loop.at = where

\* Mutant: the terminal record is dropped like any other.
AppendFinalDrops ==
    /\ At("append_final")
    /\ log' = IF Room THEN Append(log, loop.record) ELSE log
    /\ loop' = [loop EXCEPT !.at = "finish_job"]
    /\ UNCHANGED <<graph, active, recorded, events, handles, running_log, final_log, server, bounds>>

append_final ==
    /\ At("append_final") /\ Room
    /\ log' = Append(log, loop.record)
    /\ loop' = [loop EXCEPT !.at = "finish_job"]
    /\ UNCHANGED <<graph, active, recorded, events, handles, running_log, final_log, server, bounds>>

finish_job ==
    /\ At("finish_job") /\ Room
    /\ log' = Append(log, [kind |-> "finish", job |-> loop.event.job])
    /\ loop' = [loop EXCEPT !.at = "wait"]
    /\ UNCHANGED <<graph, active, recorded, events, handles, running_log, final_log, server, bounds>>

\* Mutant: a job that has succeeded may still be failed.
HandleAnyEnd ==
    /\ At("handle")
    /\ loop' = Idle
    /\ LET j == loop.event.job
           outcome == IF loop.event.type = "JobFinished" THEN "Successful" ELSE "Failed"
       IN  /\ active' = active \ {j}
           /\ graph' = [graph EXCEPT ![j] = outcome]
           /\ recorded' = [recorded EXCEPT ![j] = outcome]
    /\ UNCHANGED <<events, handles, running_log, log, final_log, server, bounds>>

\* succeed_job and abort_job: nothing happens to a job that has left the cache, and only a
\* successful graph succeeds.
HandleEnd ==
    /\ At("handle")
    /\ loop' = Idle
    /\ LET j == loop.event.job
           succeeds == loop.event.type = "JobFinished"
           outcome == IF succeeds THEN "Successful" ELSE "Failed"
       IN  IF j \in active /\ (succeeds => graph[j] = "Successful")
           THEN /\ active' = active \ {j}
                /\ graph' = [graph EXCEPT ![j] = outcome]
                /\ recorded' = [recorded EXCEPT ![j] = outcome]
           ELSE UNCHANGED <<active, graph, recorded>>
    /\ UNCHANGED <<events, handles, running_log, log, final_log, server, bounds>>

-----------------------------------------------------------------------------
(* The writer task *)

\* open_for: a log that has been renamed is not opened again.
CanOpen(j) == j \in handles \/ final_log[j] = NoFile

Records(file) == IF file = NoFile THEN <<>> ELSE file

WriteEvent ==
    /\ log # <<>> /\ Head(log).kind \in {"event", "end"} /\ loop # Down
    /\ log' = Tail(log)
    /\ LET m == Head(log) IN
          IF CanOpen(m.job)
          THEN /\ handles' = handles \cup {m.job}
               /\ running_log' = [running_log EXCEPT ![m.job] =
                      IF m.kind = "end" THEN Append(Records(@), m) ELSE Records(@)]
          ELSE UNCHANGED <<handles, running_log>>
    /\ UNCHANGED <<graph, active, recorded, events, loop, final_log, server, bounds>>

\* Flush, close, rename; the loop waits for it.
FinishLog ==
    /\ log # <<>> /\ Head(log).kind = "finish" /\ loop # Down
    /\ log' = Tail(log)
    /\ LET j == Head(log).job IN
          IF j \in handles
          THEN /\ handles' = handles \ {j}
               /\ final_log' = [final_log EXCEPT ![j] = running_log[j]]
               /\ running_log' = [running_log EXCEPT ![j] = NoFile]
          ELSE UNCHANGED <<handles, final_log, running_log>>
    /\ loop' = [loop EXCEPT !.at = "handle"]
    /\ UNCHANGED <<graph, active, recorded, events, server, bounds>>

\* The scheduler dies; its running logs stay.
Crash ==
    /\ loop # Down
    /\ loop' = Down /\ log' = <<>> /\ events' = <<>> /\ handles' = {}
    /\ UNCHANGED <<graph, active, recorded, running_log, final_log, server, bounds>>

-----------------------------------------------------------------------------
(* The history server *)

\* FileStamp: a log written anew after a deletion is told from the one before.
Found == {<<j, j \in deleted>>: j \in {k \in Jobs: final_log[k] # NoFile}}

scan_dir ==
    /\ scan = Idle
    /\ scan' = [at |-> "read", found |-> Found]
    /\ UNCHANGED <<scheduler, final_log, seen, index, deleted, bounds>>

\* read_job_index of the logs not seen before: the first JobEnd, if there is one.
Summary(j) ==
    LET records == Records(final_log[j]) IN
    IF records = <<>> THEN Unlisted ELSE Head(records).shown

ReadLogs ==
    /\ scan.at = "read"
    /\ scan' = [at |-> "fold", found |-> scan.found,
                read |-> [f \in scan.found \ seen |-> Summary(f[1])]]
    /\ UNCHANGED <<scheduler, final_log, seen, index, deleted, bounds>>

FoldIndex ==
    /\ scan.at = "fold"
    /\ scan' = Idle
    /\ seen' = scan.found
    /\ index' = [j \in Jobs |-> IF \E f \in DOMAIN scan.read: f[1] = j
                                THEN scan.read[CHOOSE f \in DOMAIN scan.read: f[1] = j]
                                ELSE IF \E f \in scan.found: f[1] = j THEN index[j] ELSE Unlisted]
    /\ UNCHANGED <<scheduler, final_log, deleted, bounds>>

\* A log is removed from the directory; the directory keeps nothing of it.
DeleteLog(j) ==
    /\ final_log[j] # NoFile /\ j \notin deleted
    /\ deleted' = deleted \cup {j}
    /\ final_log' = [final_log EXCEPT ![j] = NoFile]
    /\ UNCHANGED <<scheduler, scan, seen, index, bounds>>

Writer == WriteEvent \/ FinishLog
Refresh == scan_dir \/ ReadLogs \/ FoldIndex

Loop ==
    \/ OnJobSubmitted \/ TakeEnd \/ append_final \/ finish_job \/ HandleEnd
    \/ \E outcome \in {"Running", "Successful", "Failed"}: OnTaskUpdating(outcome)

Next ==
    \/ \E j \in Jobs: Submit(j)
    \/ \E j \in Jobs: Report(j)
    \/ \E j \in Jobs: Cancel(j)
    \/ \E j \in Jobs: FailJob(j)
    \/ OnJobSubmitted
    \/ \E outcome \in {"Running", "Successful", "Failed"}: OnTaskUpdating(outcome)
    \/ TakeEnd
    \/ append_final
    \/ finish_job
    \/ HandleEnd
    \/ WriteEvent
    \/ FinishLog
    \/ Crash
    \/ scan_dir
    \/ ReadLogs
    \/ FoldIndex
    \/ \E j \in Jobs: DeleteLog(j)

Spec == Init /\ [][Next]_vars

\* Tasks of a running runtime are polled, and the server's timer ticks.
Fairness == WF_vars(Loop) /\ WF_vars(Writer) /\ WF_vars(Refresh)
FairSpec == Spec /\ Fairness

-----------------------------------------------------------------------------
(* Properties *)

\* Whatever is cancelled, failed from outside or reported late, the outcome a finished log
\* gives for a job is the one the scheduler recorded.
LogMatchesRecord ==
    \A j \in Jobs: LET records == Records(final_log[j]) IN
        records # <<>> /\ recorded[j] # "none" /\ j \notin deleted =>
            (records[1].outcome = "Successful") = (recorded[j] = "Successful")

\* A job whose outcome is recorded leaves no .running file, which reads as a crashed job, and
\* no open handle: also when the status of one of its tasks arrives later.
NoOrphanLog ==
    \A j \in Jobs: recorded[j] # "none" /\ j \notin deleted
                       => running_log[j] = NoFile /\ j \notin handles

\* Why these two hold: the writer's channel is FIFO, and while the loop ends a job nothing
\* follows the JobEnd but the request to rename.  So the log of a job that is not recorded
\* is open, ended by the record of the event at hand, or renamed with it, according to
\* where the loop is; and an event that says the job succeeded finds its graph successful.
Statuses == {"absent", "Running", "Successful", "Failed"}
Events == [type: {"JobSubmitted", "TaskUpdating"} \cup Ends, job: Jobs]
JobEnds == [kind: {"end"}, job: Jobs, outcome: {"Successful", "Failed", "Cancelled"},
            shown: Statuses \cup {"Cancelled"}]
Messages == [kind: {"event", "finish"}, job: Jobs] \cup JobEnds
Files == {NoFile} \cup Seq(JobEnds)
Ending == [at: {"append_final", "finish_job", "wait", "handle"}, event: Events, record: JobEnds]

TypeOK ==
    /\ graph \in [Jobs -> Statuses] /\ active \subseteq Jobs
    /\ recorded \in [Jobs -> {"none", "Successful", "Failed"}]
    /\ events \in Seq(Events) /\ loop \in {Idle, Down} \cup Ending
    /\ log \in Seq(Messages) /\ handles \subseteq Jobs
    /\ running_log \in [Jobs -> Files] /\ final_log \in [Jobs -> Files]

EventHolds(event) ==
    /\ graph[event.job] # "absent"
    /\ event.type = "JobFinished" /\ event.job \in active => graph[event.job] = "Successful"

EventsHold ==
    /\ \A j \in Jobs: /\ j \in active <=> graph[j] # "absent" /\ recorded[j] = "none"
                      /\ graph[j] = "absent" => recorded[j] = "none"
    /\ \A i \in 1 .. Len(events): EventHolds(events[i])
    /\ loop \in Ending =>
           /\ EventHolds(loop.event)
           /\ loop.record.job = loop.event.job
           /\ (loop.record.outcome = "Successful") = (loop.event.type = "JobFinished")

\* All but the last n messages of the channel are events that were teed.
TeedBefore(n) == \A i \in 1 .. Len(log) - n: log[i].kind = "event"

ChannelHolds ==
    /\ loop.at \in {"idle", "append_final", "handle"} => TeedBefore(0)
    /\ loop.at = "finish_job" =>
           TeedBefore(1) /\ (log # <<>> => log[Len(log)] = loop.record)
    /\ loop.at = "wait" =>
           /\ TeedBefore(2)
           /\ log # <<>> /\ log[Len(log)] = [kind |-> "finish", job |-> loop.event.job]
           /\ Len(log) > 1 => log[Len(log) - 1] = loop.record

\* No JobEnd of the job has been written; the one at hand has been; it has been renamed.
Unended(j) == final_log[j] = NoFile /\ running_log[j] \in {NoFile, <<>>}
Written(j) == final_log[j] = NoFile /\ running_log[j] = <<loop.record>> /\ j \in handles
Renamed(j) == final_log[j] = <<loop.record>> /\ running_log[j] = NoFile /\ j \notin handles

OpenFile(j) ==
    /\ loop = Idle \/ loop.at = "append_final" \/ (loop \in Ending /\ loop.event.job # j)
           => Unended(j)
    /\ loop \in Ending /\ loop.event.job = j =>
           /\ loop.at = "finish_job" => IF log # <<>> THEN Unended(j) ELSE Written(j)
           /\ loop.at = "wait" => IF Len(log) > 1 THEN Unended(j) ELSE Written(j)
           /\ loop.at = "handle" => Renamed(j)

ClosedFile(j) ==
    /\ final_log[j] = <<final_log[j][1]>> /\ final_log[j] # NoFile
    /\ (final_log[j][1].outcome = "Successful") = (recorded[j] = "Successful")
    /\ running_log[j] = NoFile /\ j \notin handles

FilesHold ==
    \A j \in Jobs \ deleted: IF recorded[j] = "none" THEN OpenFile(j) ELSE ClosedFile(j)

LogInv == TypeOK /\ EventsHold /\ ChannelHolds /\ FilesHold

\* A job that ends is listed, however full the writer's channel was: the JobEnd is not dropped.
EventuallyListed ==
    \A j \in Jobs: recorded[j] # "none" ~> index[j] # Unlisted \/ j \in deleted

\* A job whose log is removed leaves the list, also when that happens in the middle of a pass.
DeletedUnlisted ==
    \A j \in Jobs: j \in deleted ~> index[j] = Unlisted \/ final_log[j] # NoFile

\* The list shows a job that has ended with how it ended, not as running.
ListShowsOutcome == \A j \in Jobs: index[j] # "Running"
===============================================================================
