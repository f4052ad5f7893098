--------------------------- MODULE EndpointsProofs ---------------------------
(* What MCEndpoints states of the client of a job and of the job history, proved for every
   set of jobs, channel size and number of updates.  The parts share no variable, so each
   has its own inductive invariant (ClientInv, LogInv, stated beside the properties they
   imply), and a step of one part leaves the others alone. *)
EXTENDS MCEndpoints, TLAPS

-----------------------------------------------------------------------------
(* Sequences *)

\* The head and the rest of a channel.
LEMMA Taken ==
    ASSUME NEW S, NEW q \in Seq(S), q # <<>>
    PROVE  /\ Len(q) \in Nat /\ Len(q) > 0
           /\ Head(q) = q[1] /\ Head(q) \in S
           /\ Tail(q) \in Seq(S) /\ Len(Tail(q)) = Len(q) - 1
           /\ \A i \in 1 .. Len(q) - 1: Tail(q)[i] = q[i + 1]
OBVIOUS

\* A message behind the others.
LEMMA Joined ==
    ASSUME NEW S, NEW q \in Seq(S), NEW x \in S
    PROVE  /\ Append(q, x) \in Seq(S) /\ Len(Append(q, x)) = Len(q) + 1 /\ Len(q) \in Nat
           /\ \A i \in 1 .. Len(q): Append(q, x)[i] = q[i]
           /\ Append(q, x)[Len(q) + 1] = x
OBVIOUS

\* A sequence over a set is one over a larger set.
LEMMA SeqMono ==
    ASSUME NEW S, NEW T, S \subseteq T, NEW q \in Seq(S)
    PROVE  q \in Seq(T)
OBVIOUS

-----------------------------------------------------------------------------
(* The history server *)

\* Where the loop is tells whether it holds the end of a job.
LEMMA LoopPlaces ==
    ASSUME History!TypeOK
    PROVE  /\ loop \in History!Ending <=>
                  loop.at \in {"append_final", "finish_job", "wait", "handle"}
           /\ loop = History!Idle <=> loop.at = "idle"
           /\ loop = History!Down <=> loop.at = "down"
           /\ loop.at \in {"idle", "down", "append_final", "finish_job", "wait", "handle"}
           /\ loop \in History!Ending =>
                  /\ loop.event \in History!Events /\ loop.record \in History!JobEnds
                  /\ loop.event.job \in Jobs
BY DEF History!TypeOK, History!Ending, History!Idle, History!Down, History!Events

\* The loop goes on with the event it holds.
LEMMA LoopMoves ==
    ASSUME NEW l \in History!Ending, NEW k,
           NEW p \in {"append_final", "finish_job", "wait", "handle"}, k = [l EXCEPT !.at = p]
    PROVE  k \in History!Ending /\ k.at = p /\ k.event = l.event /\ k.record = l.record
BY DEF History!Ending

\* Steps of the history server change nothing the invariant is about.
LEMMA HistorySame ==
    ASSUME History!LogInv,
           UNCHANGED <<graph, active, recorded, events, loop, log, handles, running_log, final_log,
                       deleted>>
    PROVE  History!LogInv'
<1>1. History!TypeOK' /\ History!EventsHold'
  BY Zenon DEF History!LogInv, History!TypeOK, History!EventsHold, History!EventHolds
<1>2. History!ChannelHolds' /\ History!FilesHold'
  BY Zenon DEF History!LogInv, History!ChannelHolds, History!FilesHold, History!TeedBefore,
     History!OpenFile,
     History!ClosedFile, History!Unended, History!Written, History!Renamed
<1> QED BY <1>1, <1>2 DEF History!LogInv

\* Posting an event that holds changes nothing else.
LEMMA HistoryPost ==
    ASSUME History!LogInv, NEW e \in History!Events, History!EventHolds(e),
           events' = Append(events, e),
           UNCHANGED <<graph, active, recorded, loop, log, handles, running_log, final_log, deleted>>
    PROVE  History!LogInv'
<1>1. History!TypeOK'
  BY DEF History!LogInv, History!TypeOK
<1>2. History!EventsHold'
  BY DEF History!LogInv, History!TypeOK, History!EventsHold, History!EventHolds
<1>3. History!ChannelHolds' /\ History!FilesHold'
  BY Zenon DEF History!LogInv, History!ChannelHolds, History!FilesHold, History!TeedBefore,
     History!OpenFile,
     History!ClosedFile, History!Unended, History!Written, History!Renamed
<1> QED BY <1>1, <1>2, <1>3 DEF History!LogInv

\* The planner's submission.
LEMMA HistorySubmit ==
    ASSUME History!LogInv, NEW j \in Jobs, History!Submit(j) PROVE History!LogInv'
<1> USE DEF History!Submit, History!Post, History!Event, History!server, History!bounds
<1>1. History!TypeOK'
  BY DEF History!LogInv, History!TypeOK, History!Events, History!Statuses
<1>2. History!EventsHold'
  BY DEF History!LogInv, History!TypeOK, History!EventsHold, History!EventHolds, History!Events,
     History!Ending
<1>3. History!ChannelHolds' /\ History!FilesHold'
  BY Zenon DEF History!LogInv, History!ChannelHolds, History!FilesHold, History!TeedBefore,
     History!OpenFile,
     History!ClosedFile, History!Unended, History!Written, History!Renamed
<1> QED BY <1>1, <1>2, <1>3 DEF History!LogInv

\* The tee of an event, kept or dropped.
LEMMA Teed ==
    ASSUME History!LogInv, loop = History!Idle, NEW j \in Jobs, History!append(j)
    PROVE  log' \in Seq(History!Messages) /\ History!TeedBefore(0)'
<1> DEFINE m == [kind |-> "event", job |-> j]
<1>1. m \in History!Messages /\ m.kind = "event"
  BY DEF History!Messages
<1>2. log \in Seq(History!Messages) /\ \A i \in 1 .. Len(log): log[i].kind = "event"
  BY DEF History!LogInv, History!TypeOK, History!ChannelHolds, History!TeedBefore, History!Idle
<1> HIDE DEF m
<1>3. log' = Append(log, m) \/ log' = log
  BY DEF History!append, m
<1> QED BY <1>1, <1>2, <1>3, Joined DEF History!TeedBefore

\* The tee of JobSubmitted.
LEMMA HistoryOnJobSubmitted ==
    ASSUME History!LogInv, History!OnJobSubmitted PROVE History!LogInv'
<1> USE DEF History!LogInv, History!OnJobSubmitted, History!Received, History!server
<1>1. /\ loop = History!Idle /\ loop.at = "idle" /\ loop' = loop
      /\ events # <<>> /\ events \in Seq(History!Events) /\ Head(events).job \in Jobs
  <2>1. loop = History!Idle /\ loop' = loop /\ events # <<>> /\ events \in Seq(History!Events)
    BY DEF History!TypeOK
  <2>2. Head(events) \in History!Events
    BY <2>1, Taken, Zenon
  <2> QED BY <2>1, <2>2 DEF History!Events, History!Idle
<1>2. log' \in Seq(History!Messages) /\ History!TeedBefore(0)'
  BY <1>1, Teed
<1>3. Tail(events) \in Seq(History!Events)
  BY <1>1, Taken
<1>4. History!TypeOK'
  BY <1>2, <1>3 DEF History!TypeOK
<1>5. History!EventsHold'
  BY <1>1, Taken, SMTT(30) DEF History!EventsHold, History!EventHolds
<1>6. History!ChannelHolds'
  BY <1>1, <1>2, Zenon DEF History!ChannelHolds
<1>7. History!FilesHold'
  BY <1>1 DEF History!FilesHold, History!OpenFile, History!ClosedFile, History!Unended,
     History!Written, History!Renamed, History!Ending, History!Idle
<1> QED BY <1>4, <1>5, <1>6, <1>7

\* The tee of TaskUpdating, and the event its handler may post.
LEMMA HistoryOnTaskUpdating ==
    ASSUME History!LogInv, NEW outcome \in {"Running", "Successful", "Failed"},
           History!OnTaskUpdating(outcome)
    PROVE  History!LogInv'
<1> DEFINE j == Head(events).job
           e == IF outcome = "Successful" THEN History!Event("JobFinished", j)
                                          ELSE History!Event("JobRunningFailed", j)
<1>1. /\ loop = History!Idle /\ loop.at = "idle" /\ loop' = loop
      /\ events # <<>> /\ events \in Seq(History!Events) /\ j \in Jobs
  <2>1. loop = History!Idle /\ loop' = loop /\ events # <<>> /\ events \in Seq(History!Events)
    BY DEF History!TypeOK, History!LogInv, History!OnTaskUpdating, History!Received, History!server
  <2>2. Head(events) \in History!Events
    BY <2>1, Taken, Zenon
  <2> QED BY <2>1, <2>2 DEF History!Events, History!Idle
<1>2. log' \in Seq(History!Messages) /\ History!TeedBefore(0)'
  BY <1>1, Teed DEF History!OnTaskUpdating
<1>3. Tail(events) \in Seq(History!Events)
  BY <1>1, Taken
<1>4. e \in History!Events /\ e.job = j /\ (e.type = "JobFinished" <=> outcome = "Successful")
  BY <1>1 DEF History!Event, History!Events, History!Ends
<1>5. events' = IF outcome = "Running" THEN Tail(events) ELSE Append(Tail(events), e)
  BY <1>3, <1>4 DEF History!OnTaskUpdating
<1>6. /\ outcome = "Running" => graph' = graph
      /\ outcome # "Running" => j \in active /\ graph[j] = "Running"
                                /\ graph' = [graph EXCEPT ![j] = outcome]
  BY Zenon DEF History!OnTaskUpdating
<1> HIDE DEF e, j
<1>7. events' \in Seq(History!Events)
  BY <1>3, <1>4, <1>5, Joined, SMTT(30)
<1>8. History!TypeOK'
  BY <1>1, <1>2, <1>6, <1>7 DEF History!TypeOK, History!Statuses, History!LogInv,
     History!OnTaskUpdating, History!Received, History!server
<1>9. History!EventsHold'
  <2> DEFINE Holds(f) ==
          /\ graph'[f.job] # "absent"
          /\ f.type = "JobFinished" /\ f.job \in active' => graph'[f.job] = "Successful"
  <2>1. graph \in [Jobs -> History!Statuses] /\ active' = active /\ recorded' = recorded
    BY Zenon DEF History!TypeOK, History!LogInv, History!OnTaskUpdating, History!Received,
       History!server
  <2>2. \A i \in Jobs: /\ i \in active' <=> graph'[i] # "absent" /\ recorded'[i] = "none"
                       /\ graph'[i] = "absent" => recorded'[i] = "none"
    <3>1. \A i \in Jobs: /\ i \in active <=> graph[i] # "absent" /\ recorded[i] = "none"
                         /\ graph[i] = "absent" => recorded[i] = "none"
      BY DEF History!EventsHold, History!LogInv
    <3> QED BY <1>1, <1>6, <2>1, <3>1
  <2>3. ASSUME NEW f \in History!Events, History!EventHolds(f) PROVE Holds(f)
    BY <1>1, <1>6, <2>1, <2>3 DEF History!EventHolds, History!Events
  <2>4. outcome # "Running" => Holds(e)
    BY <1>1, <1>4, <1>6, <2>1
  <2>5. \A i \in 1 .. Len(Tail(events)):
            Tail(events)[i] \in History!Events /\ History!EventHolds(Tail(events)[i])
    BY <1>1, <1>3, Taken DEF History!EventsHold, History!LogInv
  <2> HIDE DEF Holds
  <2>6. \A i \in 1 .. Len(events'): Holds(events'[i])
    <3>1. CASE outcome = "Running"
      BY <3>1, <1>5, <2>3, <2>5
    <3>2. CASE outcome # "Running"
      <4> SUFFICES ASSUME NEW i \in 1 .. Len(events') PROVE Holds(events'[i])
        OBVIOUS
      <4>1. \/ i \in 1 .. Len(Tail(events)) /\ events'[i] = Tail(events)[i]
            \/ events'[i] = e
        BY <3>2, <1>3, <1>4, <1>5, Joined
      <4> QED BY <4>1, <2>3, <2>4, <2>5, <3>2, Zenon
    <3> QED BY <3>1, <3>2
  <2>7. loop' \notin History!Ending
    BY <1>1 DEF History!Idle, History!Ending
  <2> QED BY <2>2, <2>6, <2>7 DEF History!EventsHold, History!EventHolds, Holds
<1>10. History!ChannelHolds'
  BY <1>1, <1>2, Zenon DEF History!ChannelHolds
<1>11. History!FilesHold'
  BY <1>1 DEF History!LogInv, History!OnTaskUpdating, History!Received, History!server,
     History!FilesHold, History!OpenFile, History!ClosedFile, History!Unended,
     History!Written, History!Renamed, History!Ending, History!Idle
<1> QED BY <1>8, <1>9, <1>10, <1>11 DEF History!LogInv

\* The end of a job is taken from the channel: nothing of it is in the log yet.
LEMMA HistoryTakeEnd ==
    ASSUME History!LogInv, History!TakeEnd PROVE History!LogInv'
<1> DEFINE e == Head(events)
<1>1. /\ loop = History!Idle /\ loop.at = "idle" /\ e \in History!Events
      /\ e.type \in History!Ends /\ e.job \in Jobs /\ History!EventHolds(e)
  <2>1. loop = History!Idle /\ events # <<>> /\ events \in Seq(History!Events) /\ e.type \in History!Ends
    BY DEF History!LogInv, History!TakeEnd, History!Received, History!TypeOK
  <2>2. e \in History!Events /\ e = events[1] /\ 1 \in 1 .. Len(events)
    BY <2>1, Taken
  <2>3. History!EventHolds(e)
    BY <2>2, SMTT(30) DEF History!LogInv, History!EventsHold
  <2> QED BY <2>1, <2>2, <2>3 DEF History!Events, History!Idle
<1>2. loop' = [at |-> "append_final", event |-> e, record |-> History!JobEnd(e)]
  BY DEF History!TakeEnd
<1>3. /\ History!JobEnd(e) \in History!JobEnds /\ History!JobEnd(e).job = e.job
      /\ (History!JobEnd(e).outcome = "Successful") = (e.type = "JobFinished")
  <2>1. graph[e.job] \in History!Statuses
    BY <1>1 DEF History!LogInv, History!TypeOK
  <2> QED BY <1>1, <2>1 DEF History!JobEnd, History!JobEnds, History!Ends
<1>4. loop' \in History!Ending
  BY <1>1, <1>2, <1>3, SMTT(30) DEF History!Ending
<1>5. events' \in Seq(History!Events) /\ \A i \in 1 .. Len(events'): History!EventHolds(events'[i])
  BY Taken DEF History!LogInv, History!TakeEnd, History!Received, History!TypeOK, History!EventsHold
<1>6. UNCHANGED <<graph, active, recorded, log, handles, running_log, final_log, deleted>>
  BY DEF History!TakeEnd, History!server
<1>7. History!TypeOK'
  BY <1>4, <1>5, <1>6 DEF History!LogInv, History!TypeOK
<1>8. loop'.at = "append_final" /\ loop'.event = e /\ loop'.record = History!JobEnd(e)
  BY <1>2, SMTT(30)
<1> HIDE DEF e
<1>9. History!EventsHold'
  BY <1>1, <1>3, <1>5, <1>6, <1>8, SMTT(30) DEF History!LogInv, History!EventsHold,
     History!EventHolds
<1>10. History!ChannelHolds'
  BY <1>1, <1>6, <1>8, SMTT(30) DEF History!LogInv, History!ChannelHolds, History!TeedBefore
<1>11. History!FilesHold'
  BY <1>1, <1>6, <1>8 DEF History!LogInv, History!FilesHold, History!OpenFile,
     History!ClosedFile, History!Unended,
     History!Written, History!Renamed
<1> QED BY <1>7, <1>9, <1>10, <1>11 DEF History!LogInv

\* The terminal record goes behind the events that were teed.
LEMMA HistoryAppendFinal ==
    ASSUME History!LogInv, History!append_final PROVE History!LogInv'
<1>1. History!TypeOK /\ loop.at = "append_final" /\ loop \in History!Ending
  BY LoopPlaces DEF History!LogInv, History!append_final, History!At
<1>2. loop' \in History!Ending /\ loop'.at = "finish_job" /\ loop'.event = loop.event /\ loop'.record = loop.record
  BY <1>1, LoopMoves DEF History!append_final
<1>3. UNCHANGED <<graph, active, recorded, events, handles, running_log, final_log, deleted>>
  BY DEF History!append_final, History!server
<1>4. log \in Seq(History!Messages) /\ loop.record \in History!Messages /\ log' = Append(log, loop.record)
  BY <1>1, LoopPlaces DEF History!append_final, History!TypeOK, History!Messages
<1>5. /\ log' \in Seq(History!Messages) /\ Len(log') = Len(log) + 1 /\ Len(log) \in Nat
      /\ \A i \in 1 .. Len(log): log'[i] = log[i]
      /\ log'[Len(log')] = loop.record
  BY <1>4, Joined
<1>6. log' # <<>>
  BY <1>5
<1>7. History!TypeOK'
  BY <1>1, <1>2, <1>3, <1>5 DEF History!TypeOK
<1>8. History!EventsHold'
  BY <1>1, <1>2, <1>3, Zenon DEF History!LogInv, History!EventsHold, History!EventHolds
<1>9. History!ChannelHolds'
  BY <1>1, <1>2, <1>5, <1>6, SMTT(30) DEF History!LogInv, History!ChannelHolds, History!TeedBefore
<1>10. History!FilesHold'
  BY <1>1, <1>2, <1>3, <1>6, SMTT(30) DEF History!LogInv, History!FilesHold, History!OpenFile,
     History!ClosedFile, History!Unended,
     History!Written, History!Renamed, History!Idle
<1> QED BY <1>7, <1>8, <1>9, <1>10 DEF History!LogInv

\* The request to rename goes behind the terminal record.
LEMMA HistoryFinishJob ==
    ASSUME History!LogInv, History!finish_job PROVE History!LogInv'
<1> DEFINE m == [kind |-> "finish", job |-> loop.event.job]
<1>1. History!TypeOK /\ loop.at = "finish_job" /\ loop \in History!Ending
  BY LoopPlaces DEF History!LogInv, History!finish_job, History!At
<1>2. loop' \in History!Ending /\ loop'.at = "wait" /\ loop'.event = loop.event /\ loop'.record = loop.record
  BY <1>1, LoopMoves DEF History!finish_job
<1>3. UNCHANGED <<graph, active, recorded, events, handles, running_log, final_log, deleted>>
  BY DEF History!finish_job, History!server
<1>4. log \in Seq(History!Messages) /\ m \in History!Messages /\ log' = Append(log, m)
  BY <1>1, LoopPlaces, SMTT(30) DEF History!finish_job, History!TypeOK, History!Messages
<1> HIDE DEF m
<1>5. /\ log' \in Seq(History!Messages) /\ Len(log') = Len(log) + 1 /\ Len(log) \in Nat
      /\ \A i \in 1 .. Len(log): log'[i] = log[i]
      /\ log'[Len(log')] = m
  BY <1>4, Joined
<1>6. log' # <<>> /\ (log # <<>> <=> Len(log) > 0)
  BY <1>4, <1>5, SMTT(30)
<1>7. History!TypeOK'
  BY <1>1, <1>2, <1>3, <1>5 DEF History!TypeOK
<1>8. History!EventsHold'
  BY <1>1, <1>2, <1>3, Zenon DEF History!LogInv, History!EventsHold, History!EventHolds
<1>9. History!ChannelHolds'
  BY <1>1, <1>2, <1>5, <1>6, SMTT(30) DEF History!LogInv, History!ChannelHolds,
     History!TeedBefore, m
<1>10. History!FilesHold'
  BY <1>1, <1>2, <1>3, <1>5, <1>6, SMTT(30) DEF History!LogInv, History!FilesHold,
     History!OpenFile, History!ClosedFile, History!Unended,
     History!Written, History!Renamed, History!Idle
<1> QED BY <1>7, <1>8, <1>9, <1>10 DEF History!LogInv

\* succeed_job and abort_job: a job that is recorded has its log renamed, with the outcome.
LEMMA HistoryHandleEnd ==
    ASSUME History!LogInv, History!HandleEnd PROVE History!LogInv'
<1> DEFINE j == loop.event.job
           outcome == IF loop.event.type = "JobFinished" THEN "Successful" ELSE "Failed"
<1>1. History!TypeOK /\ loop.at = "handle" /\ loop \in History!Ending /\ j \in Jobs
  BY LoopPlaces DEF History!LogInv, History!HandleEnd, History!At
<1>2. loop' = History!Idle /\ loop' \notin History!Ending /\ loop'.at = "idle"
  BY SMTT(30) DEF History!HandleEnd, History!Idle, History!Ending
<1>3. UNCHANGED <<events, handles, running_log, log, final_log, deleted>>
  BY DEF History!HandleEnd, History!server
<1>4. History!EventHolds(loop.event) /\ (j \in active <=> recorded[j] = "none")
  BY <1>1 DEF History!LogInv, History!EventsHold, History!EventHolds
<1>5. \/ /\ j \in active /\ recorded[j] = "none" /\ active' = active \ {j}
         /\ graph' = [graph EXCEPT ![j] = outcome] /\ recorded' = [recorded EXCEPT ![j] = outcome]
      \/ recorded[j] # "none" /\ UNCHANGED <<active, graph, recorded>>
  <2>1. j \in active => (loop.event.type = "JobFinished" => graph[j] = "Successful")
    BY <1>4 DEF History!EventHolds
  <2> QED BY <1>4, <2>1, Zenon DEF History!HandleEnd
<1>6. outcome \in {"Successful", "Failed"} /\ (outcome = "Successful" <=> loop.event.type = "JobFinished")
  BY SMTT(30)
<1> HIDE DEF outcome, j
<1>7. History!TypeOK'
  BY <1>1, <1>2, <1>3, <1>5, <1>6, SMTT(30) DEF History!TypeOK, History!Statuses
<1>8. History!EventsHold'
  <2>1. ASSUME NEW i \in Jobs
        PROVE  /\ i \in active' <=> graph'[i] # "absent" /\ recorded'[i] = "none"
               /\ graph'[i] = "absent" => recorded'[i] = "none"
    BY <1>1, <1>5, <1>6, SMTT(30) DEF History!LogInv, History!EventsHold, History!TypeOK
  <2>2. \A i \in 1 .. Len(events): events[i] \in History!Events /\ History!EventHolds(events[i])
    BY DEF History!LogInv, History!EventsHold, History!TypeOK
  <2> DEFINE Holds(f) ==
          /\ graph'[f.job] # "absent"
          /\ f.type = "JobFinished" /\ f.job \in active' => graph'[f.job] = "Successful"
  <2>3. ASSUME NEW f \in History!Events, History!EventHolds(f) PROVE Holds(f)
    BY <1>1, <1>5, <1>6, <2>3 DEF History!EventHolds, History!Events, History!TypeOK
  <2> HIDE DEF Holds
  <2>4. \A i \in 1 .. Len(events'): Holds(events'[i])
    BY <1>3, <2>2, <2>3, Zenon
  <2> QED BY <1>2, <2>1, <2>4, SMTT(30) DEF History!EventsHold, History!EventHolds, Holds
<1>9. History!ChannelHolds'
  BY <1>1, <1>2, <1>3, SMTT(30) DEF History!LogInv, History!ChannelHolds, History!TeedBefore
<1>10. History!FilesHold'
  <2> SUFFICES ASSUME NEW i \in Jobs \ deleted
               PROVE  (IF recorded[i] = "none" THEN History!OpenFile(i) ELSE History!ClosedFile(i))'
    BY <1>3, Zenon DEF History!FilesHold
  <2>1. IF recorded[i] = "none" THEN History!OpenFile(i) ELSE History!ClosedFile(i)
    BY DEF History!LogInv, History!FilesHold
  <2>2. CASE recorded[i] # "none"
    <3>1. recorded'[i] = recorded[i]
      BY <2>2, <1>1, <1>5, SMTT(30) DEF History!TypeOK
    <3> QED BY <2>1, <2>2, <3>1, <1>3, Zenon DEF History!ClosedFile
  <2>3. CASE recorded[i] = "none" /\ i # j
    <3>1. recorded'[i] = "none"
      BY <2>3, <1>1, <1>5, SMTT(30) DEF History!TypeOK
    <3>2. History!Unended(i)
      BY <2>1, <2>3, <1>1 DEF History!OpenFile, j
    <3> QED BY <3>1, <3>2, <1>2, <1>3, SMTT(30) DEF History!OpenFile, History!Unended
  <2>4. CASE recorded[i] = "none" /\ i = j
    <3>1. recorded'[i] = outcome /\ outcome # "none"
      BY <2>4, <1>1, <1>5, <1>6, SMTT(30) DEF History!TypeOK
    <3>2. History!Renamed(i)
      BY <2>1, <2>4, <1>1, SMTT(30) DEF History!OpenFile, j
    <3>3. loop.record.kind = "end" /\ (loop.record.outcome = "Successful" <=> outcome = "Successful")
      BY <1>1, <1>6, LoopPlaces, SMTT(30) DEF History!LogInv, History!EventsHold, History!JobEnds
    <3>4. final_log[i][1] = loop.record /\ final_log[i] # History!NoFile
      BY <3>2, <3>3 DEF History!Renamed, History!NoFile
    <3> QED BY <3>1, <3>2, <3>3, <3>4, <1>3, Zenon DEF History!ClosedFile, History!Renamed
  <2> QED BY <2>2, <2>3, <2>4
<1> QED BY <1>7, <1>8, <1>9, <1>10 DEF History!LogInv

\* A crash leaves the files, and no handle.
LEMMA HistoryCrash ==
    ASSUME History!LogInv, History!Crash PROVE History!LogInv'
<1>1. loop' = History!Down /\ loop' \notin History!Ending /\ loop'.at = "down" /\ loop' # History!Idle
  BY DEF History!Crash, History!Down, History!Ending, History!Idle
<1>2. log' = <<>> /\ events' = <<>> /\ handles' = {}
      /\ UNCHANGED <<graph, active, recorded, running_log, final_log, deleted>>
  BY DEF History!Crash, History!server
<1>3. History!TypeOK'
  BY <1>1, <1>2, SMTT(30) DEF History!LogInv, History!TypeOK
<1>4. History!EventsHold' /\ History!ChannelHolds'
  BY <1>1, <1>2, SMTT(30) DEF History!LogInv, History!EventsHold, History!ChannelHolds
<1>5. History!FilesHold'
  BY <1>1, <1>2 DEF History!LogInv, History!FilesHold, History!OpenFile, History!ClosedFile
<1> QED BY <1>3, <1>4, <1>5 DEF History!LogInv

\* Nothing is claimed of a log that was removed.
LEMMA HistoryDelete ==
    ASSUME History!LogInv, NEW j \in Jobs, History!DeleteLog(j) PROVE History!LogInv'
<1>1. /\ deleted' = deleted \cup {j} /\ final_log' = [final_log EXCEPT ![j] = History!NoFile]
      /\ UNCHANGED <<graph, active, recorded, events, loop, handles, running_log, log>>
  BY DEF History!DeleteLog, History!scheduler
<1>2. History!TypeOK'
  BY <1>1 DEF History!LogInv, History!TypeOK, History!Files
<1>3. History!EventsHold'
  BY <1>1, Zenon DEF History!LogInv, History!EventsHold, History!EventHolds
<1>31. History!ChannelHolds'
  BY <1>1 DEF History!LogInv, History!ChannelHolds, History!TeedBefore
<1>4. \A i \in Jobs \ deleted': i \in Jobs \ deleted /\ final_log'[i] = final_log[i]
  BY <1>1 DEF History!LogInv, History!TypeOK
<1>5. History!FilesHold'
  <2> SUFFICES ASSUME NEW i \in Jobs \ deleted'
               PROVE  (IF recorded[i] = "none" THEN History!OpenFile(i) ELSE History!ClosedFile(i))'
    BY Zenon DEF History!FilesHold
  <2>1. IF recorded[i] = "none" THEN History!OpenFile(i) ELSE History!ClosedFile(i)
    BY <1>4, Zenon DEF History!LogInv, History!FilesHold
  <2>2. final_log'[i] = final_log[i]
    BY <1>4, SMTT(30)
  <2> QED BY <1>1, <2>1, <2>2, Zenon
             DEF History!OpenFile, History!ClosedFile, History!Unended, History!Written,
             History!Renamed
<1> QED BY <1>2, <1>3, <1>31, <1>5 DEF History!LogInv

\* The writer takes an event or the terminal record of a job; the record is the one the loop
\* holds, and nothing but the request to rename is behind it.
LEMMA HistoryWriteEvent ==
    ASSUME History!LogInv, History!WriteEvent PROVE History!LogInv'
<1> DEFINE m == Head(log)
<1>1. /\ History!TypeOK /\ loop # History!Down /\ log \in Seq(History!Messages) /\ log # <<>>
      /\ m.kind \in {"event", "end"} /\ log' = Tail(log)
      /\ UNCHANGED <<graph, active, recorded, events, loop, final_log, deleted>>
  BY DEF History!LogInv, History!WriteEvent, History!TypeOK, History!server
<1>2. /\ m = log[1] /\ m \in History!Messages /\ Len(log) \in Nat /\ Len(log) > 0
      /\ log' \in Seq(History!Messages) /\ Len(log') = Len(log) - 1
      /\ \A i \in 1 .. Len(log'): log'[i] = log[i + 1]
  BY <1>1, Taken
<1>21. log' # <<>> <=> Len(log) > 1
  BY <1>2
<1>3. m.job \in Jobs /\ (m.kind = "end" => m \in History!JobEnds)
  BY <1>2 DEF History!Messages, History!JobEnds
<1>4. \/ /\ History!CanOpen(m.job) /\ handles' = handles \cup {m.job}
         /\ running_log' = [running_log EXCEPT ![m.job] =
                IF m.kind = "end" THEN Append(History!Records(@), m) ELSE History!Records(@)]
      \/ ~History!CanOpen(m.job) /\ UNCHANGED <<handles, running_log>>
  BY Zenon DEF History!WriteEvent
<1>5. loop \in History!Ending => loop.record.kind = "end" /\ loop.record.job = loop.event.job
  BY <1>1, LoopPlaces, SMTT(30) DEF History!LogInv, History!EventsHold, History!JobEnds
<1> HIDE DEF m
<1>6. m.kind = "end" =>
          /\ m = loop.record /\ loop \in History!Ending
          /\ (loop.at = "finish_job" /\ Len(log) = 1) \/ (loop.at = "wait" /\ Len(log) = 2)
  BY <1>1, <1>2, LoopPlaces, SMTT(30) DEF History!LogInv, History!ChannelHolds, History!TeedBefore
<1>7. m.kind = "event" => (loop.at = "finish_job" => Len(log) > 1) /\ (loop.at = "wait" => Len(log) > 2)
  BY <1>1, <1>2, <1>5, LoopPlaces, SMTT(30) DEF History!LogInv, History!ChannelHolds
<1>8. History!TypeOK'
  <2> DEFINE file == IF m.kind = "end" THEN Append(History!Records(running_log[m.job]), m)
                                      ELSE History!Records(running_log[m.job])
  <2>1. History!Records(running_log[m.job]) \in Seq(History!JobEnds)
    BY <1>1, <1>3 DEF History!TypeOK, History!Files, History!Records
  <2>2. file \in History!Files
    BY <1>3, <2>1 DEF History!Files
  <2>3. running_log' = [running_log EXCEPT ![m.job] = file] \/ running_log' = running_log
    BY <1>4, Zenon
  <2> HIDE DEF file
  <2>4. handles' \in SUBSET Jobs /\ running_log' \in [Jobs -> History!Files]
    <3>1. handles \in SUBSET Jobs /\ running_log \in [Jobs -> History!Files] /\ m.job \in Jobs
      BY <1>1, <1>3 DEF History!TypeOK
    <3>2. handles' = handles \/ handles' = handles \union {m.job}
      BY <1>4, Zenon
    <3>3. running_log' \in [Jobs -> History!Files]
      BY <2>2, <2>3, <3>1
    <3> QED BY <3>1, <3>2, <3>3
  <2> QED BY <1>1, <1>2, <2>4 DEF History!TypeOK
<1>9. History!EventsHold'
  BY <1>1, Zenon DEF History!LogInv, History!EventsHold, History!EventHolds
<1>10. History!ChannelHolds'
  <2>1. loop.at \in {"idle", "append_final", "handle"} => History!TeedBefore(0)'
    BY <1>1, <1>2, SMTT(30) DEF History!LogInv, History!ChannelHolds, History!TeedBefore
  <2>2. loop.at = "finish_job" => History!TeedBefore(1)' /\ (log' # <<>> => log'[Len(log')] = loop.record)
    BY <1>1, <1>2, SMTT(30) DEF History!LogInv, History!ChannelHolds, History!TeedBefore
  <2>3. loop.at = "wait" => Len(log) > 1
    BY <1>1, <1>6, <1>7, SMTT(30)
  <2>4. ASSUME loop.at = "wait"
        PROVE  /\ History!TeedBefore(2)'
               /\ log' # <<>> /\ log'[Len(log')] = [kind |-> "finish", job |-> loop.event.job]
               /\ Len(log') > 1 => log'[Len(log') - 1] = loop.record
    <3>1. /\ \A i \in 1 .. Len(log) - 2: log[i].kind = "event"
          /\ log[Len(log)] = [kind |-> "finish", job |-> loop.event.job]
          /\ log[Len(log) - 1] = loop.record /\ Len(log) > 1
      BY <2>3, <2>4, SMTT(30) DEF History!LogInv, History!ChannelHolds, History!TeedBefore
    <3>2. \A i \in 1 .. Len(log') - 2: log'[i].kind = "event"
      BY <3>1, <1>2, SMTT(30)
    <3>3. log'[Len(log')] = log[Len(log)] /\ (Len(log') > 1 => log'[Len(log') - 1] = log[Len(log) - 1])
      BY <3>1, <1>2, SMTT(30)
    <3> QED BY <3>1, <3>2, <3>3, <1>21, SMTT(30) DEF History!TeedBefore
  <2> QED BY <1>1, <2>1, <2>2, <2>4, Zenon DEF History!ChannelHolds
<1>11. History!FilesHold'
  <2> SUFFICES ASSUME NEW i \in Jobs \ deleted
               PROVE  (IF recorded[i] = "none" THEN History!OpenFile(i) ELSE History!ClosedFile(i))'
    BY <1>1, Zenon DEF History!FilesHold
  <2>1. IF recorded[i] = "none" THEN History!OpenFile(i) ELSE History!ClosedFile(i)
    BY DEF History!LogInv, History!FilesHold
  <2>2. i # m.job => running_log'[i] = running_log[i] /\ (i \in handles' <=> i \in handles)
    BY <1>1, <1>4, SMTT(30) DEF History!TypeOK
  <2>3. i = m.job /\ i \notin handles /\ final_log[i] # History!NoFile =>
            running_log'[i] = running_log[i] /\ i \notin handles'
    BY <1>4, SMTT(30) DEF History!CanOpen
  <2>4. i = m.job /\ History!Unended(i) =>
            /\ i \in handles'
            /\ m.kind = "end" => running_log'[i] = <<m>>
            /\ m.kind = "event" => running_log'[i] = <<>>
    <3> SUFFICES ASSUME i = m.job, History!Unended(i)
                 PROVE  /\ i \in handles'
                        /\ m.kind = "end" => running_log'[i] = <<m>>
                        /\ m.kind = "event" => running_log'[i] = <<>>
      BY SMTT(30)
    <3>1. History!Records(running_log[i]) = <<>>
      BY DEF History!Unended, History!Records
    <3>2. /\ handles' = handles \cup {i}
          /\ running_log' = [running_log EXCEPT ![i] =
                IF m.kind = "end" THEN Append(History!Records(running_log[i]), m)
                                  ELSE History!Records(running_log[i])]
      BY <1>4, Zenon DEF History!CanOpen, History!Unended
    <3>3. Append(<<>>, m) = <<m>>
      OBVIOUS
    <3> QED BY <3>1, <3>2, <3>3, <1>1, <1>3, SMTT(30) DEF History!TypeOK
  <2>5. CASE recorded[i] # "none"
    <3>1. i \notin handles /\ final_log[i] # History!NoFile
      BY <2>1, <2>5 DEF History!ClosedFile
    <3>2. running_log'[i] = running_log[i] /\ i \notin handles'
      BY <2>2, <2>3, <3>1, Zenon
    <3> QED BY <2>1, <2>5, <3>2, <1>1, ZenonT(30) DEF History!ClosedFile
  <2>6. CASE recorded[i] = "none" /\ i # m.job
    <3>1. loop \in History!Ending /\ loop.event.job = i => m.kind = "event"
      BY <2>6, <1>1, <1>5, <1>6, SMTT(30)
    <3>2. log # <<>> /\ (loop \in History!Ending /\ loop.event.job = i =>
              /\ loop.at = "finish_job" => log' # <<>>
              /\ loop.at = "wait" => Len(log) > 1 /\ Len(log') > 1)
      BY <3>1, <1>1, <1>2, <1>21, <1>7, SMTT(30)
    <3> QED BY <2>1, <2>2, <2>6, <3>2, <1>1, ZenonT(30)
               DEF History!OpenFile, History!Unended, History!Written, History!Renamed
  <2>7. CASE recorded[i] = "none" /\ i = m.job
    <3>1. CASE loop \in History!Ending /\ loop.event.job = i /\ loop.at = "handle"
      <4>1. History!Renamed(i)
        BY <2>1, <2>7, <3>1, SMTT(30) DEF History!OpenFile
      <4>2. final_log[i] # History!NoFile
        BY <4>1, <3>1, <1>5, SMTT(30) DEF History!Renamed, History!NoFile
      <4>3. History!Renamed(i)'
        BY <4>1, <4>2, <2>3, <2>7, <1>1, SMTT(30) DEF History!Renamed
      <4> QED BY <4>3, <3>1, <2>7, <1>1, LoopPlaces, SMTT(30) DEF History!OpenFile
    <3>2. CASE ~(loop \in History!Ending /\ loop.event.job = i /\ loop.at = "handle")
      <4>1. History!Unended(i)
        <5>1. \/ loop = History!Idle \/ loop.at = "append_final"
              \/ loop \in History!Ending /\ loop.event.job # i
              \/ loop \in History!Ending /\ loop.event.job = i /\ loop.at = "finish_job"
              \/ loop \in History!Ending /\ loop.event.job = i /\ loop.at = "wait" /\ Len(log) > 1
          BY <3>2, <1>1, <1>6, <1>7, <1>2, LoopPlaces, SMTT(30)
        <5> QED BY <5>1, <2>1, <2>7, <1>1, ZenonT(30) DEF History!OpenFile
      <4>2. CASE m.kind = "event"
        <5>1. History!Unended(i)'
          BY <4>1, <4>2, <2>4, <2>7, <1>1, SMTT(30) DEF History!Unended
        <5>2. (loop.at = "finish_job" => log' # <<>>) /\ (loop.at = "wait" => Len(log') > 1)
          BY <4>2, <1>2, <1>21, <1>7, SMTT(30)
        <5> QED BY <5>1, <5>2, <3>2, <2>7, <1>1, ZenonT(30) DEF History!OpenFile
      <4>3. CASE m.kind = "end"
        <5>1. /\ loop \in History!Ending /\ loop.event.job = i /\ m = loop.record
              /\ (loop.at = "finish_job" /\ log' = <<>>) \/ (loop.at = "wait" /\ ~(Len(log') > 1))
          BY <4>3, <2>7, <1>2, <1>21, <1>5, <1>6, SMTT(30)
        <5>2. History!Written(i)'
          BY <4>1, <4>3, <2>4, <2>7, <5>1, <1>1, SMTT(30) DEF History!Unended, History!Written
        <5> QED BY <5>1, <5>2, <2>7, <1>1, LoopPlaces, SMTT(30) DEF History!OpenFile
      <4> QED BY <4>2, <4>3, <1>1
    <3> QED BY <3>1, <3>2, SMTT(30)
  <2> QED BY <2>5, <2>6, <2>7
<1> QED BY <1>8, <1>9, <1>10, <1>11 DEF History!LogInv

\* The writer renames the log: it holds the terminal record, which went before the request.
LEMMA HistoryFinishLog ==
    ASSUME History!LogInv, History!FinishLog PROVE History!LogInv'
<1> DEFINE j == Head(log).job
<1>1. /\ History!TypeOK /\ loop # History!Down /\ log \in Seq(History!Messages) /\ log # <<>>
      /\ Head(log).kind = "finish" /\ log' = Tail(log) /\ loop' = [loop EXCEPT !.at = "handle"]
  BY DEF History!LogInv, History!FinishLog, History!TypeOK
<1>11. UNCHANGED <<graph, active, recorded, events, deleted>>
  BY DEF History!FinishLog, History!server
<1>2. /\ Head(log) = log[1] /\ Len(log) \in Nat /\ Len(log) > 0
      /\ log' \in Seq(History!Messages) /\ Len(log') = Len(log) - 1
  BY <1>1, Taken
<1>3. loop \in History!Ending => loop.record.kind = "end"
  BY <1>1, LoopPlaces DEF History!JobEnds
<1>4. loop.at = "wait" /\ Len(log) = 1 /\ loop \in History!Ending
  <2>1. loop.at = "wait"
    BY <1>1, <1>2, <1>3, LoopPlaces, SMTT(30) DEF History!LogInv, History!ChannelHolds,
       History!TeedBefore
  <2>2. /\ \A i \in 1 .. Len(log) - 2: log[i].kind = "event"
        /\ Len(log) > 1 => log[Len(log) - 1] = loop.record
    BY <2>1 DEF History!LogInv, History!ChannelHolds, History!TeedBefore
  <2>3. loop \in History!Ending
    BY <2>1, <1>1, LoopPlaces
  <2> QED BY <2>1, <2>2, <2>3, <1>1, <1>2, <1>3, SMTT(30)
<1>5. j = loop.event.job /\ j \in Jobs
  <2>1. log[1] = [kind |-> "finish", job |-> loop.event.job]
    BY <1>4 DEF History!LogInv, History!ChannelHolds
  <2> QED BY <2>1, <1>1, <1>2, <1>4, LoopPlaces, SMTT(30)
<1>6. \/ /\ j \in handles /\ handles' = handles \ {j}
         /\ final_log' = [final_log EXCEPT ![j] = running_log[j]]
         /\ running_log' = [running_log EXCEPT ![j] = History!NoFile]
      \/ j \notin handles /\ UNCHANGED <<handles, final_log, running_log>>
  BY Zenon DEF History!FinishLog
<1>7. /\ loop' \in History!Ending /\ loop'.at = "handle"
      /\ loop'.event = loop.event /\ loop'.record = loop.record
  BY <1>1, <1>4, LoopMoves
<1> HIDE DEF j
<1>8. History!TypeOK'
  BY <1>1, <1>11, <1>2, <1>5, <1>6, <1>7 DEF History!TypeOK, History!Files
<1>9. History!EventsHold'
  BY <1>11, <1>4, <1>7, ZenonT(30) DEF History!LogInv, History!EventsHold, History!EventHolds
<1>10. History!ChannelHolds'
  BY <1>2, <1>4, <1>7, SMTT(30) DEF History!ChannelHolds, History!TeedBefore
<1>12. History!FilesHold'
  <2> SUFFICES ASSUME NEW i \in Jobs \ deleted
               PROVE  (IF recorded[i] = "none" THEN History!OpenFile(i) ELSE History!ClosedFile(i))'
    BY <1>1, <1>11, Zenon DEF History!FilesHold
  <2>1. IF recorded[i] = "none" THEN History!OpenFile(i) ELSE History!ClosedFile(i)
    BY DEF History!LogInv, History!FilesHold
  <2>2. i # j \/ i \notin handles =>
            /\ running_log'[i] = running_log[i] /\ final_log'[i] = final_log[i]
            /\ i \in handles' <=> i \in handles
    BY <1>1, <1>11, <1>5, <1>6 DEF History!TypeOK
  <2>3. CASE recorded[i] # "none"
    BY <2>1, <2>2, <2>3, <1>1, <1>11, Zenon DEF History!ClosedFile
  <2>4. CASE recorded[i] = "none" /\ i # j
    <3>1. History!Unended(i)
      BY <2>1, <2>4, <1>4, <1>5 DEF History!OpenFile
    <3>2. History!Unended(i)'
      BY <2>2, <2>4, <3>1, Zenon DEF History!Unended
    <3> QED BY <3>2, <2>4, <1>1, <1>11, <1>5, <1>7, ZenonT(30) DEF History!OpenFile
  <2>5. CASE recorded[i] = "none" /\ i = j
    <3>1. History!Written(i)
      BY <2>1, <2>5, <1>4, <1>5, SMTT(30) DEF History!OpenFile
    <3>2. History!Renamed(i)'
      BY <2>5, <3>1, <1>1, <1>11, <1>5, <1>6, <1>7, SMTT(30) DEF History!Written,
         History!Renamed, History!TypeOK
    <3> QED BY <3>2, <2>5, <1>1, <1>11, <1>5, <1>7, SMTT(30) DEF History!OpenFile, History!Idle
  <2> QED BY <2>3, <2>4, <2>5
<1> QED BY <1>8, <1>9, <1>10, <1>12 DEF History!LogInv

\* Every step of the history keeps its invariant.
LEMMA HistoryNext ==
    ASSUME History!LogInv, History!Next \/ UNCHANGED history_vars PROVE History!LogInv'
<1>1. CASE UNCHANGED history_vars
  <2>1. UNCHANGED <<graph, active, recorded, events, loop, log, handles, running_log, final_log, deleted>>
    BY <1>1 DEF history_vars
  <2> QED BY <2>1, HistorySame, SMTT(30)
<1>2. ASSUME NEW j \in Jobs, History!Submit(j) PROVE History!LogInv'
  BY <1>2, HistorySubmit
<1>3. ASSUME NEW j \in Jobs, History!Report(j) PROVE History!LogInv'
  <2>1. /\ History!Event("TaskUpdating", j) \in History!Events
        /\ History!EventHolds(History!Event("TaskUpdating", j))
    BY <1>3 DEF History!Event, History!Events, History!EventHolds, History!Report
  <2>2. /\ events' = Append(events, History!Event("TaskUpdating", j))
        /\ UNCHANGED <<graph, active, recorded, loop, log, handles, running_log, final_log, deleted>>
    BY <1>3, Zenon DEF History!Report, History!Post, History!server
  <2> QED BY <2>1, <2>2, HistoryPost, SMTT(30)
<1>4. ASSUME NEW j \in Jobs, NEW type \in {"JobCancel", "JobRunningFailed"}, History!Request(type, j)
      PROVE  History!LogInv'
  <2>1. /\ History!Event(type, j) \in History!Events
        /\ History!EventHolds(History!Event(type, j))
    BY <1>4 DEF History!Event, History!Events, History!EventHolds, History!Request, History!Ends
  <2>2. /\ events' = Append(events, History!Event(type, j))
        /\ UNCHANGED <<graph, active, recorded, loop, log, handles, running_log, final_log, deleted>>
    BY <1>4, Zenon DEF History!Request, History!Post, History!server
  <2> QED BY <2>1, <2>2, HistoryPost, SMTT(30)
<1>5. ASSUME NEW outcome \in {"Running", "Successful", "Failed"}, History!OnTaskUpdating(outcome)
      PROVE  History!LogInv'
  BY <1>5, HistoryOnTaskUpdating
<1>6. ASSUME NEW j \in Jobs, History!DeleteLog(j) PROVE History!LogInv'
  BY <1>6, HistoryDelete
<1>7. ASSUME History!scan_dir \/ History!ReadLogs \/ History!FoldIndex PROVE History!LogInv'
  <2>1. UNCHANGED <<graph, active, recorded, events, loop, log, handles, running_log, final_log, deleted>>
    BY <1>7, Zenon DEF History!scan_dir, History!ReadLogs, History!FoldIndex, History!scheduler
  <2> QED BY <2>1, HistorySame
<1> QED BY <1>1, <1>2, <1>3, <1>4, <1>5, <1>6, <1>7, HistoryOnJobSubmitted, HistoryTakeEnd,
           HistoryAppendFinal, HistoryFinishJob, HistoryHandleEnd, HistoryWriteEvent,
           HistoryFinishLog, HistoryCrash, ZenonT(30)
        DEF History!Next, History!Cancel, History!FailJob

-----------------------------------------------------------------------------
(* The client *)

\* Steps that neither send nor read.
LEMMA ClientQuiet ==
    ASSUME Client!ClientInv, UNCHANGED <<mode, subscriber, sender, updates, lookup>>,
           client' = client \/ (client = "new" /\ client' = "waiting"),
           outcomes \subseteq outcomes', outcomes' \subseteq Client!Terminal,
           cache' \in {"absent", "Running"} \cup outcomes',
           queued' \in {"absent", "Queued"}, running' \in {"absent", "Running"},
           completed' \in {"absent"} \cup outcomes'
    PROVE  Client!ClientInv'
<1> USE DEF Client!ClientInv
<1>1. subscriber' \in Seq({"Running"} \cup outcomes')
  BY SeqMono
<1>2. Client!ClientAgrees' /\ Client!NeverCutOff'
  BY SMTT(30) DEF Client!ClientAgrees, Client!NeverCutOff
<1>3. lookup' \in DOMAIN Client!After'
  BY SMTT(30) DEF Client!After
<1> QED BY <1>1, <1>2, <1>3, SMTT(30)

\* A status that is sent goes behind the others; the last one finds room.
LEMMA ClientSends ==
    ASSUME Client!ClientInv, NEW status, Client!Send(status),
           UNCHANGED <<mode, lookup, client>>,
           outcomes \subseteq outcomes', outcomes' \subseteq Client!Terminal,
           cache' \in {"absent", "Running"} \cup outcomes',
           queued' \in {"absent", "Queued"}, running' \in {"absent", "Running"},
           completed' \in {"absent"} \cup outcomes',
           status \in {"Running"} \cup outcomes',
           \/ sender' = sender /\ updates < MaxUpdates /\ updates' = updates + 1
           \/ sender' = FALSE /\ updates' = updates /\ status \in Client!Terminal
    PROVE  Client!ClientInv'
<1> USE DEF Client!ClientInv
<1> DEFINE S == {"Running"} \cup outcomes'
<1>1. subscriber \in Seq(S)
  BY SeqMono, SMTT(30)
<1>2. Append(subscriber, status) \in Seq(S)
  BY <1>1, Joined
<1>3. subscriber' = Append(subscriber, status) \/ subscriber' = subscriber
  BY Zenon DEF Client!Send
<1>4. subscriber' \in Seq(S)
  BY <1>1, <1>2, <1>3, SMTT(30)
<1>5. updates' \in 0 .. MaxUpdates
  BY EndpointsAssumption
<1>6. Client!ClientAgrees' /\ Client!NeverCutOff'
  BY Zenon DEF Client!ClientAgrees, Client!NeverCutOff
<1>7. lookup' \in DOMAIN Client!After'
  BY Zenon DEF Client!After
<1>8. Len(subscriber) \in Nat /\ Len(Append(subscriber, status)) = Len(subscriber) + 1
      /\ Append(subscriber, status)[Len(subscriber) + 1] = status
  BY <1>1, Joined, SMTT(30)
<1>9. ASSUME MaxUpdates < STATUS_BUFFER, mode = "push"
      PROVE  IF sender' THEN Len(subscriber') <= updates'
             ELSE client' \in {"ok", "failed"}
                  \/ (subscriber' # <<>> /\ subscriber'[Len(subscriber')] \in Client!Terminal)
  <2>1. CASE ~sender
    <3>1. subscriber' = subscriber
      BY <2>1, Zenon DEF Client!Send
    <3>2. ~sender'
      BY <2>1, SMTT(30)
    <3> QED BY <1>9, <2>1, <3>1, <3>2
  <2>2. CASE sender
    <3>1. Len(subscriber) <= updates
      BY <1>9, <2>2, SMTT(30)
    <3>2. Len(subscriber) < STATUS_BUFFER
      BY <3>1, <1>8, <1>9, EndpointsAssumption
    <3>3. subscriber' = Append(subscriber, status)
      BY <1>9, <2>2, <3>2, Zenon DEF Client!Send
    <3>4. CASE sender'
      <4>1. updates' = updates + 1
        BY <3>4, SMTT(30)
      <4> QED BY <3>1, <3>3, <3>4, <4>1, <1>8, SMTT(30)
    <3>5. CASE ~sender'
      <4>1. status \in Client!Terminal
        BY <2>2, <3>5, Zenon
      <4>2. subscriber' # <<>> /\ subscriber'[Len(subscriber')] = status
        BY <3>3, <1>4, <1>8, SMTT(30)
      <4> QED BY <3>5, <4>1, <4>2, SMTT(30)
    <3> QED BY <3>4, <3>5, SMTT(30)
  <2> QED BY <2>1, <2>2, SMTT(30)
<1> QED BY <1>4, <1>5, <1>6, <1>7, <1>9, SMTT(30)

\* A lookup: an outcome that is found is one of the job's.
LEMMA ClientLook ==
    ASSUME Client!ClientInv, Client!Look PROVE Client!ClientInv'
<1>1. /\ UNCHANGED <<mode, cache, queued, running, completed, outcomes, subscriber, sender, updates>>
      /\ client = "waiting" /\ mode = "pull"
  BY SMTT(30) DEF Client!Look, Client!job, Client!channel
<1>2. client' = Client!Outcome(Client!Record[lookup])
      /\ lookup' = IF Client!Record[lookup] = "absent" THEN Client!After[lookup] ELSE "cache"
  BY SMTT(30) DEF Client!Look
<1>3. lookup \in {"cache", "queued", "running", "completed"}
  BY SMTT(30) DEF Client!ClientInv, Client!After
<1>4. Client!Record[lookup] \in {"absent", "Running", "Queued"} \cup outcomes
  BY <1>3 DEF Client!Record, Client!ClientInv
<1>5. /\ client' = "ok" => "Successful" \in outcomes
      /\ client' = "failed" => "Failed" \in outcomes
      /\ client' # "cut_off"
  BY <1>2, <1>4, SMTT(30) DEF Client!Outcome, Client!ClientInv, Client!Terminal
<1>6. lookup' \in DOMAIN Client!After
  BY <1>2, <1>3 DEF Client!After
<1> QED BY <1>1, <1>5, <1>6, SMTT(30) DEF Client!ClientInv, Client!ClientAgrees,
     Client!NeverCutOff, Client!After

\* A status that is received is an outcome of the job, or another one follows.
LEMMA ClientReceive ==
    ASSUME Client!ClientInv, Client!Receive PROVE Client!ClientInv'
<1> DEFINE S == {"Running"} \cup outcomes
<1>1. /\ UNCHANGED <<mode, cache, queued, running, completed, outcomes, sender, updates, lookup>>
      /\ client = "waiting" /\ mode = "push"
  BY DEF Client!Receive, Client!job
<1>2. subscriber \in Seq(S) /\ outcomes \subseteq Client!Terminal
  BY SMTT(30) DEF Client!ClientInv
<1>3. CASE subscriber # <<>> /\ client' = Client!Outcome(Head(subscriber)) /\ subscriber' = Tail(subscriber)
  <2>1. /\ Head(subscriber) \in S /\ subscriber' \in Seq(S) /\ Head(subscriber) = subscriber[1]
        /\ Len(subscriber) \in Nat /\ Len(subscriber) > 0 /\ Len(subscriber') = Len(subscriber) - 1
        /\ \A i \in 1 .. Len(subscriber) - 1: subscriber'[i] = subscriber[i + 1]
    BY <1>2, <1>3, Taken
  <2>2. /\ client' = "ok" => "Successful" \in outcomes
        /\ client' = "failed" => "Failed" \in outcomes
        /\ client' # "cut_off"
        /\ Head(subscriber) \in Client!Terminal => client' \in {"ok", "failed"}
    BY <1>2, <1>3, <2>1 DEF Client!Outcome, Client!Terminal
  <2>3. ASSUME MaxUpdates < STATUS_BUFFER
        PROVE  IF sender THEN Len(subscriber') <= updates
               ELSE client' \in {"ok", "failed"}
                    \/ (subscriber' # <<>> /\ subscriber'[Len(subscriber')] \in Client!Terminal)
    <3>1. CASE sender
      <4>1. Len(subscriber) <= updates /\ updates \in Int
        BY <1>1, <2>3, <3>1, EndpointsAssumption, SMTT(30) DEF Client!ClientInv
      <4> QED BY <3>1, <4>1, <2>1, SMTT(30)
    <3>2. CASE ~sender
      <4>1. subscriber[Len(subscriber)] \in Client!Terminal
        BY <1>1, <1>3, <2>3, <3>2, SMTT(30) DEF Client!ClientInv
      <4>2. CASE Len(subscriber) = 1
        BY <3>2, <4>1, <4>2, <2>1, <2>2, SMTT(30)
      <4>3. CASE Len(subscriber) # 1
        <5>1. subscriber' # <<>> /\ subscriber'[Len(subscriber')] = subscriber[Len(subscriber)]
          BY <4>3, <2>1, SMTT(30)
        <5> QED BY <3>2, <4>1, <5>1
      <4> QED BY <4>2, <4>3, SMTT(30)
    <3> QED BY <3>1, <3>2
  <2> QED BY <1>1, <2>1, <2>2, <2>3, SMTT(30) DEF Client!ClientInv, Client!ClientAgrees,
       Client!NeverCutOff, Client!After
<1>4. CASE subscriber = <<>> /\ ~sender /\ client' = "cut_off" /\ UNCHANGED subscriber
  <2>1. ~(MaxUpdates < STATUS_BUFFER)
    BY <1>1, <1>4 DEF Client!ClientInv
  <2> QED BY <1>1, <1>4, <2>1, SMTT(30) DEF Client!ClientInv, Client!ClientAgrees,
       Client!NeverCutOff, Client!After
<1> QED BY <1>3, <1>4, Zenon DEF Client!Receive

\* Every step of the client and of the scheduler it waits for keeps the invariant.
LEMMA ClientNext ==
    ASSUME Client!ClientInv, Client!Next \/ UNCHANGED client_vars PROVE Client!ClientInv'
<1> USE DEF Client!ClientInv, Client!job, Client!channel
<1>1. CASE UNCHANGED client_vars
  BY <1>1, ClientQuiet, SMTT(30) DEF client_vars
<1>2. CASE Client!SubmitPlan
  BY <1>2, ClientQuiet, SMTT(30) DEF Client!SubmitPlan
<1>3. CASE Client!FailPlanning
  BY <1>3, ClientSends, Zenon DEF Client!FailPlanning, Client!Planning, Client!Terminal
<1>4. CASE Client!FailUnscheduledJob
  BY <1>4, ClientQuiet, SMTT(30) DEF Client!FailUnscheduledJob
<1>5. CASE Client!SubmitJob
  BY <1>5, ClientQuiet, SMTT(30) DEF Client!SubmitJob
<1>6. CASE Client!DropQueued
  BY <1>6, ClientQuiet, SMTT(30) DEF Client!DropQueued
<1>7. CASE Client!CacheJob
  BY <1>7, ClientQuiet, SMTT(30) DEF Client!CacheJob
<1>8. CASE Client!UpdateJob
  BY <1>8, ClientSends, Zenon DEF Client!UpdateJob
<1>9. ASSUME NEW outcome \in Client!Terminal, Client!EndJob(outcome) PROVE Client!ClientInv'
  BY <1>9, ClientQuiet DEF Client!EndJob
<1>10. CASE Client!RemoveRunning
  BY <1>10, ClientSends, Zenon DEF Client!RemoveRunning, Client!Terminal
<1>11. CASE Client!InsertCompleted
  BY <1>11, ClientQuiet, SMTT(30) DEF Client!InsertCompleted, Client!Terminal
<1>12. CASE Client!EvictJob
  BY <1>12, ClientQuiet, SMTT(30) DEF Client!EvictJob
<1>13. CASE Client!RemoveJob
  BY <1>13, ClientQuiet DEF Client!RemoveJob
<1> QED BY <1>1, <1>2, <1>3, <1>4, <1>5, <1>6, <1>7, <1>8, <1>9, <1>10, <1>11, <1>12, <1>13,
           ClientLook, ClientReceive, ZenonT(30)
        DEF Client!Next

-----------------------------------------------------------------------------
(* The parts together *)

\* The invariants of the two parts.
EndpointsInv == Client!ClientInv /\ History!LogInv

\* A client that has not submitted, an empty event log.
LEMMA EndpointsInit == ASSUME Init PROVE EndpointsInv
<1> USE DEF Init
<1>1. Client!ClientInv
  BY EndpointsAssumption DEF Client!Init, Client!ClientInv, Client!ClientAgrees, Client!NeverCutOff,
     Client!After, Client!Terminal
<1>2. History!LogInv
  <2>1. /\ graph = [j \in Jobs |-> "absent"] /\ active = {} /\ recorded = [j \in Jobs |-> "none"]
        /\ events = <<>> /\ log = <<>> /\ loop = History!Idle /\ handles = {}
        /\ running_log = [j \in Jobs |-> History!NoFile]
        /\ final_log = [j \in Jobs |-> History!NoFile]
    BY Zenon DEF History!Init
  <2>2. History!TypeOK
    <3>1. graph \in [Jobs -> History!Statuses] /\ recorded \in [Jobs -> {"none", "Successful", "Failed"}]
      BY <2>1 DEF History!Statuses
    <3>2. running_log \in [Jobs -> History!Files] /\ final_log \in [Jobs -> History!Files]
      BY <2>1 DEF History!Files
    <3>3. events \in Seq(History!Events) /\ log \in Seq(History!Messages)
      BY <2>1, SMTT(30)
    <3> QED BY <2>1, <3>1, <3>2, <3>3, SMTT(30) DEF History!TypeOK
  <2>3. History!EventsHold /\ History!ChannelHolds
    <3>1. /\ Len(events) = 0 /\ Len(log) = 0
          /\ loop.at = "idle" /\ loop \notin History!Ending
      BY <2>1, <2>2, LoopPlaces
    <3>2. \A j \in Jobs: graph[j] = "absent" /\ recorded[j] = "none" /\ j \notin active
      BY <2>1
    <3>3. History!EventsHold
      BY <3>1, <3>2 DEF History!EventsHold
    <3>4. History!TeedBefore(0)
      BY <3>1 DEF History!TeedBefore
    <3>5. History!ChannelHolds
      BY <3>1, <3>4 DEF History!ChannelHolds
    <3> QED BY <3>3, <3>5
  <2>4. History!FilesHold
    BY <2>1, <2>2, LoopPlaces, SMTT(30) DEF History!FilesHold, History!OpenFile, History!Unended
  <2> QED BY <2>2, <2>3, <2>4, Zenon DEF History!LogInv
<1> QED BY <1>1, <1>2, Zenon DEF EndpointsInv

\* A step of one part keeps its invariant and leaves the others alone.
LEMMA EndpointsNext == ASSUME EndpointsInv, [Next]_vars PROVE EndpointsInv'
<1>1. Client!Next \/ UNCHANGED client_vars
  BY Zenon DEF Next, PollStep, ClientStep, HistoryStep, vars
<1>2. History!Next \/ UNCHANGED history_vars
  BY Zenon DEF Next, PollStep, ClientStep, HistoryStep, vars
<1>3. Client!ClientInv'
  BY <1>1, ClientNext, Zenon DEF EndpointsInv
<1>4. History!LogInv'
  BY <1>2, HistoryNext, Zenon DEF EndpointsInv
<1> QED BY <1>3, <1>4, Zenon DEF EndpointsInv

\* What the client's channel and the event log hold in every state.
THEOREM EndpointsInvariant == FairSpec => []EndpointsInv
<1>1. Init => EndpointsInv
  BY EndpointsInit
<1>2. EndpointsInv /\ [Next]_vars => EndpointsInv'
  BY EndpointsNext
<1> QED BY <1>1, <1>2, PTL DEF FairSpec

\* What a client returns is what became of its job, and with room for its updates the channel
\* of a subscriber is never cut off before the outcome.
THEOREM ClientIsTold == FairSpec => []ClientAgrees
<1>1. EndpointsInv => ClientAgrees
  BY Zenon DEF EndpointsInv, Client!ClientInv, ClientAgrees
<1> QED BY <1>1, EndpointsInvariant, PTL

\* The log the history server reads gives a job the outcome that the scheduler recorded, and a
\* recorded job leaves neither a .running file nor an open handle.
THEOREM HistoryIsTrue == FairSpec => []LogMatchesRecord
<1>1. ASSUME History!LogInv PROVE History!LogMatchesRecord
  <2>1. ASSUME NEW j \in Jobs, recorded[j] # "none", j \notin deleted
        PROVE  (History!Records(final_log[j])[1].outcome = "Successful") = (recorded[j] = "Successful")
    <3>1. History!ClosedFile(j)
      BY <1>1, <2>1, Zenon DEF History!LogInv, History!FilesHold
    <3> QED BY <3>1 DEF History!ClosedFile, History!Records
  <2> QED BY <2>1, Zenon DEF History!LogMatchesRecord
<1>2. ASSUME History!LogInv PROVE History!NoOrphanLog
  BY <1>2, Zenon DEF History!LogInv, History!FilesHold, History!ClosedFile, History!NoOrphanLog
<1>3. EndpointsInv => LogMatchesRecord
  BY <1>1, <1>2, Zenon DEF EndpointsInv, LogMatchesRecord
<1> QED BY <1>3, EndpointsInvariant, PTL
==============================================================================
