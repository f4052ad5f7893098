----------------------------- MODULE MCEndpoints -----------------------------
(****************************************************************************)
(* What waits at the ends of the scheduler, for TLC: the loop of an         *)
(* executor that polls for tasks, the client that waits for a job, and the  *)
(* history server that lists it.  The three meet only through the           *)
(* scheduler, which each models in as far as it matters there, so a         *)
(* behaviour is one of `part`, and the others stay where they start.        *)
(****************************************************************************)
EXTENDS Integers, Sequences, FiniteSets, TLC

CONSTANTS Parts,
          Tasks, Vcores, Endless, FaultSets, StageAttempt,
          Modes, STATUS_BUFFER, MaxUpdates,
          Jobs, LogBuffer, MaxReports, MaxRequests

VARIABLES part,
          poll_loop, free_vcores, offered, sent, received, active_job, pending,
          poll_running, reporting, channel, applied, faults,
          mode, cache, queued, running, completed, subscriber, sender, updates,
          outcomes, lookup, client,
          graph, active, recorded, events, loop, log, handles, running_log,
          final_log, scan, seen, index, deleted, reports, requests

\* The tasks and the capacities are those of a running system.
ASSUME EndpointsAssumption ==
    /\ IsFiniteSet(Tasks) /\ Vcores \in Nat /\ StageAttempt \in [Tasks -> Nat]
    /\ STATUS_BUFFER \in Nat /\ MaxUpdates \in Nat

poll_vars == <<poll_loop, free_vcores, offered, sent, received, active_job, pending,
               poll_running, reporting, channel, applied, faults>>
client_vars == <<mode, cache, queued, running, completed, subscriber, sender, updates,
                 outcomes, lookup, client>>
history_vars == <<graph, active, recorded, events, loop, log, handles, running_log,
                  final_log, scan, seen, index, deleted, reports, requests>>
vars == <<part, poll_vars, client_vars, history_vars>>

\* One task of two partitions, the others of one.
MCSlice == [t \in Tasks |-> IF ToString(t) = "t1" THEN 2 ELSE 1]
MCZeros == [t \in Tasks |-> 0]
MCOnes == [t \in Tasks |-> 1]

Poll == INSTANCE ExecutorPoll WITH loop <- poll_loop, running <- poll_running,
            Slice <- MCSlice, TaskAttempt <- MCZeros
Client == INSTANCE JobClient
History == INSTANCE JobHistory

Init ==
    /\ part \in Parts
    /\ Poll!Init /\ Client!Init /\ History!Init
    /\ part # "client" => mode = "pull"

PollStep(A) == part = "poll" /\ A /\ UNCHANGED <<part, client_vars, history_vars>>
ClientStep(A) == part = "client" /\ A /\ UNCHANGED <<part, poll_vars, history_vars>>
HistoryStep(A) == part = "history" /\ A /\ UNCHANGED <<part, poll_vars, client_vars>>

Next == PollStep(Poll!Next) \/ ClientStep(Client!Next) \/ HistoryStep(History!Next)

\* The fairness of the three, each about the steps of its own part.
Fairness ==
    /\ WF_vars(\/ PollStep(Poll!LoopStep)
               \/ ClientStep(Client!Scheduler)
               \/ HistoryStep(History!Loop))
    /\ WF_vars(\/ PollStep(\E t \in Tasks \ Endless : Poll!ReportTask(t) \/ Poll!DropPermit(t))
               \/ ClientStep(Client!Client)
               \/ HistoryStep(History!Writer))
    /\ WF_vars(HistoryStep(History!Refresh))

FairSpec == Init /\ [][Next]_vars /\ Fairness

------------------------------------------------------------------------------
(* The properties of each part. *)

\* Every permit of the executor is free or held by a task, and the poll loop never waits
\* for a permit it may not get.
PermitForEachTask == Poll!TypeOK /\ Poll!PermitForEachTask

\* An executor that polls runs at most as many partitions at once as it has vcores.
PartitionsWithinVcores == Poll!PartitionsWithinVcores

\* A task the scheduler bound to a polling executor is concluded by a status.
TaskConcluded == Poll!TaskConcluded

\* A client returns what became of its job, and the subscriber of a job is never cut off
\* without an outcome.
ClientAgrees == Client!ClientAgrees /\ Client!NeverCutOff

\* The outcome a finished log gives for a job is the one the scheduler recorded, and a job
\* whose outcome is recorded leaves no .running file and no open handle.
LogMatchesRecord == History!LogMatchesRecord /\ History!NoOrphanLog

\* Nobody at the ends waits for ever.  An executor never stops polling, whatever its tasks
\* do, and a task bound to it is concluded by a status; every client returns; a job that
\* ends is listed by the history server, and leaves the list when its log is removed.
EndpointsProgress ==
    /\ part = "poll" => Poll!KeepsPolling
    /\ Poll!TaskConcluded
    /\ part = "client" => Client!ClientReturns
    /\ History!EventuallyListed
    /\ History!DeletedUnlisted

\* The list shows a job that has ended with how it ended, not as running.
ListShowsOutcome == History!ListShowsOutcome
==============================================================================
