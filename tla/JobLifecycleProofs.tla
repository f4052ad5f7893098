------------------------- MODULE JobLifecycleProofs -------------------------
(***************************************************************************)
(* Theorems about JobLifecycle for every set of jobs and every bound: type *)
(* correctness, the inductive invariant JobInv, the invariants OnePlace    *)
(* and ToldOnce that follow from it, and that the recorded status of the   *)
(* jobs implements JobStatus.                                              *)
(***************************************************************************)
EXTENDS JobLifecycle, TLAPS

(***************************************************************************)
(* Sequences as the event loop's channel uses them: what post_event        *)
(* appends, what taking the head leaves, and both in one step.             *)
(***************************************************************************)

\* post_event keeps every event at its place and puts the new one last.
LEMMA PostChannel ==
    ASSUME NEW S, NEW c \in Seq(S), NEW e \in S
    PROVE  /\ Append(c, e) \in Seq(S)
           /\ DOMAIN Append(c, e) = 1 .. Len(c) + 1
           /\ \A i \in DOMAIN c : Append(c, e)[i] = c[i]
           /\ Append(c, e)[Len(c) + 1] = e
  OBVIOUS

\* Taking the head moves every other event one place forward.
LEMMA PopChannel ==
    ASSUME NEW S, NEW c \in Seq(S), c # <<>>
    PROVE  /\ Tail(c) \o <<>> \in Seq(S)
           /\ Head(c) = c[1] /\ Head(c) \in S
           /\ DOMAIN (Tail(c) \o <<>>) = 1 .. Len(c) - 1
           /\ \A i \in 1 .. Len(c) - 1 :
                 i + 1 \in DOMAIN c /\ (Tail(c) \o <<>>)[i] = c[i + 1]
  OBVIOUS

\* Taking the head while the handler posts one event, as TaskUpdating does.
LEMMA ReplaceChannel ==
    ASSUME NEW S, NEW c \in Seq(S), c # <<>>, NEW e \in S
    PROVE  /\ Tail(c) \o <<e>> \in Seq(S)
           /\ Head(c) = c[1] /\ Head(c) \in S
           /\ DOMAIN (Tail(c) \o <<e>>) = 1 .. Len(c)
           /\ \A i \in 1 .. Len(c) - 1 :
                 i + 1 \in DOMAIN c /\ (Tail(c) \o <<e>>)[i] = c[i + 1]
           /\ (Tail(c) \o <<e>>)[Len(c)] = e
  OBVIOUS

(***************************************************************************)
(* Type correctness, one step per action.                                  *)
(***************************************************************************)

\* save_job leaves the maps it changes well typed.
LEMMA SaveTypes ==
    ASSUME TypeOK, NEW j \in Jobs, NEW status \in Terminal,
           SaveTerminal(j, status) \/ NothingSaved
    PROVE  /\ completed' \in [Jobs -> {"absent", "removed"} \union Terminal]
           /\ running' \subseteq Jobs
           /\ told' \in [Jobs -> Nat]
<1>1. CASE SaveTerminal(j, status)
  BY SMTT(60), <1>1 DEF TypeOK, SaveTerminal
<1>2. CASE NothingSaved
  BY <1>2 DEF TypeOK, NothingSaved
<1> QED
  BY <1>1, <1>2

\* Every handler, planner step, request and timer keeps the variables in their
\* types.
LEMMA TypeInductive == TypeOK /\ [Next]_vars => TypeOK'
<1> SUFFICES ASSUME TypeOK, [Next]_vars PROVE TypeOK'
  OBVIOUS
<1> USE DEF EventTypes, CleanUps, Terminal, bounds
<1>1. ASSUME NEW j \in Jobs, NEW type \in EventTypes
      PROVE  Event(type, j) \in Events
  BY DEF TypeOK, Event, Events
<1>2. ASSUME NEW j \in Jobs, NEW type \in EventTypes, Post(Event(type, j))
      PROVE  channel' \in Seq(Events)
  <2>1. channel \in Seq(Events)
    BY DEF TypeOK
  <2> QED
    BY <1>1, <1>2, <2>1, PostChannel DEF Post
<1>3. ASSUME channel # <<>>, Posts(<<>>)
      PROVE  channel' \in Seq(Events)
  BY <1>3, PopChannel DEF TypeOK, Posts
<1>4. ASSUME NEW j \in Jobs, SubmitPlan(j)
      PROVE  TypeOK'
  <2>1. channel' \in Seq(Events)
    BY <1>2, <1>4 DEF SubmitPlan
  <2> QED
    BY SMTT(60), <1>4, <2>1 DEF TypeOK, SubmitPlan
<1>5. ASSUME NEW j \in Jobs, CancelJob(j)
      PROVE  TypeOK'
  <2>1. channel' \in Seq(Events)
    BY <1>2, <1>5 DEF CancelJob, Request
  <2> QED
    BY <1>5, <2>1 DEF TypeOK, CancelJob, Request
<1>6. ASSUME NEW j \in Jobs, CleanJobData(j)
      PROVE  TypeOK'
  <2>1. channel' \in Seq(Events)
    BY <1>2, <1>6 DEF CleanJobData, Request
  <2> QED
    BY SMTT(60), <1>6, <2>1 DEF TypeOK, CleanJobData, Request
<1>7. ASSUME NEW j \in Jobs, PlanFails(j)
      PROVE  TypeOK'
  <2>1. channel' \in Seq(Events)
    BY <1>2, <1>7 DEF PlanFails
  <2> QED
    BY SMTT(60), <1>7, <2>1 DEF TypeOK, PlanFails
<1>8. ASSUME NEW j \in Jobs, PlanSubmits(j)
      PROVE  TypeOK'
  BY SMTT(60), <1>8 DEF TypeOK, PlanSubmits
<1>9. ASSUME NEW j \in Jobs, PlanCaches(j)
      PROVE  TypeOK'
  BY SMTT(60), <1>9 DEF TypeOK, PlanCaches
<1>10. ASSUME NEW j \in Jobs, PlanPosts(j)
      PROVE  TypeOK'
  <2>1. channel' \in Seq(Events)
    BY <1>2, <1>10 DEF PlanPosts
  <2> QED
    BY SMTT(60), <1>10, <2>1 DEF TypeOK, PlanPosts
<1>11. ASSUME NEW j \in Jobs, Report(j)
      PROVE  TypeOK'
  <2>1. channel' \in Seq(Events)
    BY <1>2, <1>11 DEF Report
  <2> QED
    BY SMTT(60), <1>11, <2>1 DEF TypeOK, Report
<1>12. ASSUME NEW j \in Jobs, DecideToFail(j)
      PROVE  TypeOK'
  BY SMTT(60), <1>12 DEF TypeOK, DecideToFail
<1>13. ASSUME NEW j \in Jobs, PostFailure(j)
      PROVE  TypeOK'
  <2>1. channel' \in Seq(Events)
    BY <1>2, <1>13 DEF PostFailure
  <2> QED
    BY SMTT(60), <1>13, <2>1 DEF TypeOK, PostFailure
<1>14. ASSUME NEW j \in Jobs, CleanUpState(j)
      PROVE  TypeOK'
  BY SMTT(60), <1>14 DEF TypeOK, CleanUpState
<1>15. ASSUME NEW j \in Jobs, NEW kind, CleanUpData(j, kind)
      PROVE  TypeOK'
  BY SMTT(60), <1>15 DEF TypeOK, CleanUpData
<1>16. ASSUME NEW j \in Jobs, OnJobQueued(j)
      PROVE  TypeOK'
  <2>1. channel' \in Seq(Events)
    BY <1>3, <1>16 DEF OnJobQueued, Received
  <2> QED
    BY SMTT(60), <1>16, <2>1 DEF TypeOK, OnJobQueued
<1>17. ASSUME NEW j \in Jobs, OnJobSubmitted(j)
      PROVE  TypeOK'
  <2>1. channel' \in Seq(Events)
    BY <1>3, <1>17 DEF OnJobSubmitted, Received
  <2> QED
    BY SMTT(60), <1>17, <2>1 DEF TypeOK, OnJobSubmitted
<1>18. ASSUME NEW j \in Jobs, OnJobPlanningFailed(j)
      PROVE  TypeOK'
  <2>1. channel' \in Seq(Events)
    BY <1>3, <1>18 DEF OnJobPlanningFailed, Received
  <2> QED
    BY Zenon, <1>18, <2>1 DEF TypeOK, OnJobPlanningFailed
<1>19. ASSUME NEW j \in Jobs, OnJobUpdated(j)
      PROVE  TypeOK'
  <2>1. channel' \in Seq(Events)
    BY <1>3, <1>19 DEF OnJobUpdated, Received
  <2>2. \E status \in Terminal : SaveTerminal(j, status) \/ NothingSaved
    BY <1>19 DEF OnJobUpdated
  <2>3. /\ completed' \in [Jobs -> {"absent", "removed"} \union Terminal]
        /\ running' \subseteq Jobs
        /\ told' \in [Jobs -> Nat]
    BY <2>2, SaveTypes
  <2> QED
    BY Zenon, <1>19, <2>1, <2>3 DEF TypeOK, OnJobUpdated
<1>20. ASSUME NEW j \in Jobs, OnJobFinished(j)
      PROVE  TypeOK'
  <2>1. channel' \in Seq(Events)
    BY <1>3, <1>20 DEF OnJobFinished, Received
  <2>2. SaveTerminal(j, "Successful") \/ NothingSaved
    BY <1>20 DEF OnJobFinished
  <2>3. /\ completed' \in [Jobs -> {"absent", "removed"} \union Terminal]
        /\ running' \subseteq Jobs
        /\ told' \in [Jobs -> Nat]
    BY <2>2, SaveTypes
  <2> QED
    BY SMTT(60), <1>20, <2>1, <2>3 DEF TypeOK, OnJobFinished
<1>21. ASSUME NEW j \in Jobs, OnJobRunningFailed(j)
      PROVE  TypeOK'
  <2>1. channel' \in Seq(Events)
    BY <1>3, <1>21 DEF OnJobRunningFailed, Abort, Received
  <2>2. SaveTerminal(j, "Failed") \/ NothingSaved
    BY <1>21 DEF OnJobRunningFailed, Abort
  <2>3. /\ completed' \in [Jobs -> {"absent", "removed"} \union Terminal]
        /\ running' \subseteq Jobs
        /\ told' \in [Jobs -> Nat]
    BY <2>2, SaveTypes
  <2> QED
    BY SMTT(60), <1>21, <2>1, <2>3 DEF TypeOK, OnJobRunningFailed, Abort
<1>22. ASSUME NEW j \in Jobs, OnJobCancel(j)
      PROVE  TypeOK'
  <2>1. channel' \in Seq(Events)
    BY <1>3, <1>22 DEF OnJobCancel, Abort, Received
  <2>2. SaveTerminal(j, "Failed") \/ NothingSaved
    BY <1>22 DEF OnJobCancel, Abort
  <2>3. /\ completed' \in [Jobs -> {"absent", "removed"} \union Terminal]
        /\ running' \subseteq Jobs
        /\ told' \in [Jobs -> Nat]
    BY <2>2, SaveTypes
  <2> QED
    BY SMTT(60), <1>22, <2>1, <2>3 DEF TypeOK, OnJobCancel, Abort
<1>23. ASSUME NEW j \in Jobs, OnJobDataClean(j)
      PROVE  TypeOK'
  <2>1. channel' \in Seq(Events)
    BY <1>3, <1>23 DEF OnJobDataClean, Received
  <2> QED
    BY SMTT(60), <1>23, <2>1 DEF TypeOK, OnJobDataClean
<1>24. ASSUME NEW j \in Jobs,
             NEW posted \in {"nothing", "JobUpdated", "JobFinished",
                             "JobRunningFailed"},
             OnTaskUpdating(j, posted)
      PROVE  TypeOK'
  <2>1. channel' \in Seq(Events)
    <3>1. channel # <<>> /\ channel \in Seq(Events)
      BY <1>24 DEF TypeOK, OnTaskUpdating, Received
    <3>2. CASE posted = "nothing"
      BY <1>3, <1>24, <3>1, <3>2 DEF OnTaskUpdating
    <3>3. CASE posted # "nothing"
      <4>1. Event(posted, j) \in Events
        BY <1>1, <3>3
      <4>2. channel' = Tail(channel) \o <<Event(posted, j)>>
        BY <1>24, <3>3 DEF OnTaskUpdating, Posts
      <4> QED
        BY <3>1, <4>1, <4>2, ReplaceChannel
    <3> QED
      BY <3>2, <3>3
  <2> QED
    BY SMTT(60), <1>24, <2>1 DEF TypeOK, OnTaskUpdating
<1>25. CASE UNCHANGED vars
  BY <1>25 DEF TypeOK, vars
<1> QED
  BY <1>4, <1>5, <1>6, <1>7, <1>8, <1>9, <1>10, <1>11, <1>12, <1>13, <1>14,
     <1>15, <1>16, <1>17, <1>18, <1>19, <1>20, <1>21, <1>22, <1>23, <1>24, <1>25
     DEF Next, Plan, Handle, Idle

\* The state of the job life cycle is well typed in every reachable state, for
\* any set of jobs and any bounds.
THEOREM Types == Spec => []TypeOK
<1>1. Init => TypeOK
  BY DEF Init, TypeOK, Terminal, CleanUps
<1> QED
  BY <1>1, TypeInductive, PTL DEF Spec

(***************************************************************************)
(* The part of JobInv about the channel.  One lemma for each way a step    *)
(* changes the channel reduces it to single events: those that stay must   *)
(* still announce the truth, and a new one must be in order with them.     *)
(***************************************************************************)

\* A step that leaves the channel alone (planner and timer steps).
LEMMA AfterNone ==
    ASSUME TypeOK, EventsAgree, UNCHANGED <<channel, resolved>>,
           \A f \in Events : Announces(f) => Announces(f)'
    PROVE  EventsAgree'
<1>1. \A i \in DOMAIN channel : channel[i] \in Events
  BY DEF TypeOK
<1>2. ASSUME NEW i \in DOMAIN channel'
      PROVE  Announces(channel[i])'
  <2>1. PICK f \in Events : f = channel'[i] /\ f = channel[i]
    BY <1>1
  <2>2. Announces(f)'
    BY <2>1 DEF EventsAgree
  <2> QED
    BY <2>1, <2>2 DEF Announces, Fresh
<1>3. ASSUME NEW i \in DOMAIN channel', NEW k \in DOMAIN channel', i < k
      PROVE  Ordered(channel[i], channel[k])'
  BY <1>3 DEF EventsAgree, Ordered
<1> QED
  BY <1>2, <1>3 DEF EventsAgree

\* A step that posts one event (requests, planner results, executor reports).
LEMMA AfterPost ==
    ASSUME TypeOK, EventsAgree, UNCHANGED resolved,
           NEW e \in Events, Post(e), Announces(e)',
           \A f \in Events : Announces(f) => Announces(f)' /\ Ordered(f, e)'
    PROVE  EventsAgree'
<1>1. channel \in Seq(Events)
  BY DEF TypeOK
<1>2. /\ DOMAIN channel = 1 .. Len(channel) /\ Len(channel) \in Nat
      /\ \A i \in DOMAIN channel : channel[i] \in Events
      /\ DOMAIN channel' = 1 .. Len(channel) + 1
      /\ \A i \in DOMAIN channel : channel'[i] = channel[i]
      /\ channel'[Len(channel) + 1] = e
  BY <1>1, PostChannel DEF Post
<1>3. \A i \in DOMAIN channel' : i \in DOMAIN channel \/ i = Len(channel) + 1
  BY <1>2
<1>4. ASSUME NEW i \in DOMAIN channel'
      PROVE  Announces(channel[i])'
  <2>1. CASE i \in DOMAIN channel
    <3>1. PICK f \in Events : f = channel'[i] /\ f = channel[i]
      BY <1>2, <2>1
    <3>2. Announces(f)'
      BY <2>1, <3>1 DEF EventsAgree
    <3> QED
      BY <3>1, <3>2 DEF Announces, Fresh
  <2>2. CASE i = Len(channel) + 1
    BY <1>2, <2>2 DEF Announces, Fresh
  <2> QED
    BY <1>3, <2>1, <2>2
<1>5. ASSUME NEW i \in DOMAIN channel', NEW k \in DOMAIN channel', i < k
      PROVE  Ordered(channel[i], channel[k])'
  <2>1. i \in DOMAIN channel
    BY <1>2, <1>5
  <2>2. CASE k \in DOMAIN channel
    BY <1>2, <1>5, <2>1, <2>2 DEF EventsAgree, Ordered
  <2>3. CASE k = Len(channel) + 1
    <3>1. PICK f \in Events : f = channel'[i] /\ f = channel[i]
      BY <1>2, <2>1
    <3>2. Ordered(f, e)'
      BY <2>1, <3>1 DEF EventsAgree
    <3> QED
      BY <1>2, <2>3, <3>1, <3>2 DEF Ordered
  <2> QED
    BY <1>3, <2>2, <2>3
<1> QED
  BY <1>4, <1>5 DEF EventsAgree

\* A handler that posts nothing.  What stays is ordered after the head.
LEMMA AfterPop ==
    ASSUME TypeOK, EventsAgree, UNCHANGED resolved,
           channel # <<>>, Posts(<<>>),
           \A f \in Events : Announces(f) /\ Ordered(Head(channel), f)
                             => Announces(f)'
    PROVE  EventsAgree'
<1>1. channel \in Seq(Events)
  BY DEF TypeOK
<1>2. /\ DOMAIN channel = 1 .. Len(channel) /\ Len(channel) \in Nat \ {0}
      /\ \A i \in DOMAIN channel : channel[i] \in Events
      /\ Head(channel) = channel[1]
      /\ DOMAIN channel' = 1 .. Len(channel) - 1
      /\ \A i \in DOMAIN channel' :
            i + 1 \in DOMAIN channel /\ channel'[i] = channel[i + 1]
  BY <1>1, PopChannel DEF Posts
<1>3. ASSUME NEW i \in DOMAIN channel'
      PROVE  Announces(channel[i])'
  <2>1. PICK f \in Events : f = channel'[i] /\ f = channel[i + 1]
    BY <1>2
  <2>2. Announces(f) /\ Ordered(Head(channel), f)
    BY <1>2, <2>1 DEF EventsAgree
  <2>3. Announces(f)'
    BY <2>2
  <2> QED
    BY <2>1, <2>3 DEF Announces, Fresh
<1>4. ASSUME NEW i \in DOMAIN channel', NEW k \in DOMAIN channel', i < k
      PROVE  Ordered(channel[i], channel[k])'
  <2>1. i + 1 < k + 1 /\ i + 1 \in DOMAIN channel /\ k + 1 \in DOMAIN channel
    BY <1>2, <1>4
  <2> QED
    BY <1>2, <2>1 DEF EventsAgree, Ordered
<1> QED
  BY <1>3, <1>4 DEF EventsAgree

\* A handler that posts one event: TaskUpdating.  A resolved stage only adds to
\* the count the order of reports and JobUpdated events is stated with.
LEMMA AfterReplace ==
    ASSUME TypeOK, EventsAgree, resolved' \in [Jobs -> Nat],
           \A k \in Jobs : resolved[k] <= resolved'[k],
           channel # <<>>, NEW e \in Events, Posts(<<e>>), Announces(e)',
           \A f \in Events : Announces(f) /\ Ordered(Head(channel), f)
                             => Announces(f)' /\ Ordered(f, e)'
    PROVE  EventsAgree'
<1>1. channel \in Seq(Events)
  BY DEF TypeOK
<1>2. /\ DOMAIN channel = 1 .. Len(channel) /\ Len(channel) \in Nat \ {0}
      /\ \A i \in DOMAIN channel : channel[i] \in Events
      /\ Head(channel) = channel[1]
      /\ DOMAIN channel' = 1 .. Len(channel)
      /\ \A i \in 1 .. Len(channel) - 1 :
            i + 1 \in DOMAIN channel /\ channel'[i] = channel[i + 1]
      /\ channel'[Len(channel)] = e
  BY <1>1, ReplaceChannel DEF Posts
<1>3. \A i \in DOMAIN channel' : i \in 1 .. Len(channel) - 1 \/ i = Len(channel)
  BY <1>2
<1>4. ASSUME NEW i \in 1 .. Len(channel) - 1
      PROVE  \E f \in Events : /\ f = channel'[i] /\ f = channel[i + 1]
                               /\ Announces(f) /\ Ordered(Head(channel), f)
  BY <1>2 DEF EventsAgree
<1>5. ASSUME NEW i \in DOMAIN channel'
      PROVE  Announces(channel[i])'
  <2>1. CASE i \in 1 .. Len(channel) - 1
    <3>1. PICK f \in Events : f = channel'[i] /\ Announces(f)
                               /\ Ordered(Head(channel), f)
      BY <1>4, <2>1
    <3>2. Announces(f)'
      BY <3>1
    <3> QED
      BY <3>1, <3>2 DEF Announces, Fresh
  <2>2. CASE i = Len(channel)
    BY <1>2, <2>2 DEF Announces, Fresh
  <2> QED
    BY SMTT(60), <1>3, <2>1, <2>2
<1>6. ASSUME NEW i \in DOMAIN channel', NEW k \in DOMAIN channel', i < k
      PROVE  Ordered(channel[i], channel[k])'
  <2>1. i \in 1 .. Len(channel) - 1
    BY <1>2, <1>6
  <2>2. CASE k \in 1 .. Len(channel) - 1
    <3>1. PICK f \in Events, g \in Events : /\ f = channel[i + 1] /\ g = channel[k + 1]
                                           /\ f = channel'[i] /\ g = channel'[k]
      BY <1>4, <2>1, <2>2
    <3>2. i + 1 \in DOMAIN channel /\ k + 1 \in DOMAIN channel /\ i + 1 < k + 1
      BY <1>2, <1>6, <2>1, <2>2
    <3>3. Ordered(f, g)
      BY Zenon, <3>1, <3>2 DEF EventsAgree
    <3>4. f.job \in Jobs /\ f.resolved \in Nat /\ resolved[f.job] \in Nat
          /\ resolved'[f.job] \in Nat /\ resolved[f.job] <= resolved'[f.job]
      BY SMTT(60) DEF Events, TypeOK
    <3> QED
      BY <3>1, <3>3, <3>4 DEF Ordered
  <2>3. CASE k = Len(channel)
    <3>1. PICK f \in Events : f = channel'[i] /\ Announces(f)
                               /\ Ordered(Head(channel), f)
      BY <1>4, <2>1
    <3>2. Ordered(f, e)'
      BY <3>1
    <3> QED
      BY <1>2, <2>3, <3>1, <3>2 DEF Ordered
  <2> QED
    BY <1>3, <2>2, <2>3
<1> QED
  BY <1>5, <1>6 DEF EventsAgree

-----------------------------------------------------------------------------
\* JobInv is inductive.  The steps that matter: a JobQueued at the head is the
\* only one of its job; JobPlanningFailed finds its job queued and already told;
\* TaskUpdating completes a graph only with a report made after the last stage
\* was resolved, so no JobUpdated is behind it and update_job never saves success
\* before JobFinished does.
LEMMA JobInvInductive == TypeOK /\ JobInv /\ [Next]_vars => JobInv'
<1> SUFFICES ASSUME TypeOK, JobInv, [Next]_vars PROVE JobInv'
  OBVIOUS
<1> USE DEF bounds, Terminal
<1>1. /\ \A j \in Jobs : Placed(j)
      /\ EventsAgree
  BY DEF JobInv
<1>2. ASSUME NEW j \in Jobs, NEW type \in EventTypes
      PROVE  \E e \in Events : e = Event(type, j) /\ e.type = type /\ e.job = j
                               /\ e.resolved = resolved[j]
  <2>1. resolved[j] \in Nat
    BY DEF TypeOK
  <2>2. Event(type, j) \in Events
    BY <2>1 DEF Event, Events
  <2> QED
    BY <2>2 DEF Event
<1>3. ASSUME channel # <<>>
      PROVE  \E h \in Events : h = Head(channel) /\ Announces(h)
  <2>1. channel \in Seq(Events) /\ EventsAgree
    BY <1>1 DEF TypeOK
  <2>2. Head(channel) = channel[1] /\ 1 \in DOMAIN channel /\ Head(channel) \in Events
    BY <1>3, <2>1
  <2> QED
    BY <2>1, <2>2 DEF EventsAgree
<1>4. ASSUME NEW j \in Jobs, SubmitPlan(j)
      PROVE  JobInv'
  <2>1. PICK e \in Events : /\ e = Event("JobQueued", j) /\ e.type = "JobQueued"
                            /\ e.job = j /\ e.resolved = resolved[j]
    BY <1>2 DEF EventTypes
  <2>2. ASSUME NEW k \in Jobs PROVE Placed(k)'
    <3>1. Placed(k)
      BY <1>1
    <3> QED
      BY <1>4, <3>1 DEF TypeOK, Placed, Fresh, SubmitPlan
  <2>3. Announces(e)'
    BY <1>1, <1>4, <2>1 DEF TypeOK, Announces, Placed, Fresh, SubmitPlan
  <2>4. ASSUME NEW f \in Events, Announces(f)
        PROVE  Announces(f)' /\ Ordered(f, e)'
    BY SMTT(60), <1>1, <1>4, <2>1, <2>4
       DEF TypeOK, Events, Announces, Ordered, Placed, Fresh, SubmitPlan
  <2>5. UNCHANGED resolved /\ Post(e)
    BY <1>4, <2>1 DEF SubmitPlan
  <2>6. EventsAgree'
    BY <1>1, <2>3, <2>4, <2>5, AfterPost
  <2> QED
    BY <2>2, <2>6 DEF JobInv
<1>5. ASSUME NEW j \in Jobs, CancelJob(j)
      PROVE  JobInv'
  <2>1. PICK e \in Events : /\ e = Event("JobCancel", j) /\ e.type = "JobCancel"
                            /\ e.job = j /\ e.resolved = resolved[j]
    BY <1>2 DEF EventTypes
  <2>2. ASSUME NEW k \in Jobs PROVE Placed(k)'
    <3>1. Placed(k)
      BY <1>1
    <3> QED
      BY <1>5, <3>1 DEF TypeOK, Placed, Fresh, CancelJob, Request
  <2>3. Announces(e)'
    BY <1>1, <1>5, <2>1 DEF TypeOK, Announces, Placed, Fresh, CancelJob, Request
  <2>4. ASSUME NEW f \in Events, Announces(f)
        PROVE  Announces(f)' /\ Ordered(f, e)'
    BY SMTT(60), <1>1, <1>5, <2>1, <2>4
       DEF TypeOK, Events, Announces, Ordered, Placed, Fresh, CancelJob, Request
  <2>5. UNCHANGED resolved /\ Post(e)
    BY <1>5, <2>1 DEF CancelJob, Request
  <2>6. EventsAgree'
    BY <1>1, <2>3, <2>4, <2>5, AfterPost
  <2> QED
    BY <2>2, <2>6 DEF JobInv
<1>6. ASSUME NEW j \in Jobs, CleanJobData(j)
      PROVE  JobInv'
  <2>1. PICK e \in Events : /\ e = Event("JobDataClean", j)
                            /\ e.type = "JobDataClean"
                            /\ e.job = j /\ e.resolved = resolved[j]
    BY <1>2 DEF EventTypes
  <2>2. ASSUME NEW k \in Jobs PROVE Placed(k)'
    <3>1. Placed(k)
      BY <1>1
    <3> QED
      BY <1>6, <3>1 DEF TypeOK, Placed, Fresh, CleanJobData, Request
  <2>3. Announces(e)'
    BY SMTT(60), <1>1, <1>6, <2>1
       DEF TypeOK, Announces, Placed, Fresh, CleanJobData, Request
  <2>4. ASSUME NEW f \in Events, Announces(f)
        PROVE  Announces(f)' /\ Ordered(f, e)'
    BY SMTT(60), <1>1, <1>6, <2>1, <2>4
       DEF TypeOK, Events, Announces, Ordered, Placed, Fresh, CleanJobData,
           Request
  <2>5. UNCHANGED resolved /\ Post(e)
    BY <1>6, <2>1 DEF CleanJobData, Request
  <2>6. EventsAgree'
    BY <1>1, <2>3, <2>4, <2>5, AfterPost
  <2> QED
    BY <2>2, <2>6 DEF JobInv
<1>7. ASSUME NEW j \in Jobs, PlanFails(j)
      PROVE  JobInv'
  <2>1. PICK e \in Events : /\ e = Event("JobPlanningFailed", j)
                            /\ e.type = "JobPlanningFailed"
                            /\ e.job = j /\ e.resolved = resolved[j]
    BY <1>2 DEF EventTypes
  <2>2. ASSUME NEW k \in Jobs PROVE Placed(k)'
    <3>1. Placed(k)
      BY <1>1
    <3> QED
      BY <1>7, <3>1 DEF TypeOK, Placed, Fresh, PlanFails
  <2>3. Announces(e)'
    <3>1. planning[j] = "planning" /\ j \in submitted /\ told[j] = 0
      BY <1>1, <1>7 DEF Placed, Fresh, PlanFails
    <3>2. planning'[j] = "none" /\ told'[j] = 1
      BY <1>7, <3>1 DEF TypeOK, PlanFails
    <3> QED
      BY <1>7, <2>1, <3>1, <3>2 DEF TypeOK, Announces, PlanFails
  <2>4. ASSUME NEW f \in Events, Announces(f)
        PROVE  Announces(f)' /\ Ordered(f, e)'
    BY SMTT(60), <1>1, <1>7, <2>1, <2>4
       DEF TypeOK, Events, Announces, Ordered, Placed, Fresh, PlanFails
  <2>5. UNCHANGED resolved /\ Post(e)
    BY <1>7, <2>1 DEF PlanFails
  <2>6. EventsAgree'
    BY <1>1, <2>3, <2>4, <2>5, AfterPost
  <2> QED
    BY <2>2, <2>6 DEF JobInv
<1>8. ASSUME NEW j \in Jobs, PlanSubmits(j)
      PROVE  JobInv'
  <2>1. ASSUME NEW k \in Jobs PROVE Placed(k)'
    <3>1. Placed(k)
      BY <1>1
    <3> QED
      BY <1>8, <3>1 DEF TypeOK, Placed, Fresh, PlanSubmits
  <2>2. ASSUME NEW f \in Events, Announces(f)
        PROVE  Announces(f)'
    BY <1>1, <1>8, <2>2
       DEF TypeOK, Events, Announces, Placed, Fresh, PlanSubmits
  <2>3. UNCHANGED <<channel, resolved>>
    BY <1>8 DEF PlanSubmits
  <2>4. EventsAgree'
    BY SMTT(60), <1>1, <2>2, <2>3, AfterNone
  <2> QED
    BY <2>1, <2>4 DEF JobInv
<1>9. ASSUME NEW j \in Jobs, PlanCaches(j)
      PROVE  JobInv'
  <2>1. ASSUME NEW k \in Jobs PROVE Placed(k)'
    <3>1. Placed(k)
      BY <1>1
    <3> QED
      BY SMTT(60), <1>9, <3>1 DEF TypeOK, Placed, Fresh, PlanCaches
  <2>2. ASSUME NEW f \in Events, Announces(f)
        PROVE  Announces(f)'
    BY <1>1, <1>9, <2>2 DEF TypeOK, Events, Announces, Placed, Fresh, PlanCaches
  <2>3. UNCHANGED <<channel, resolved>>
    BY <1>9 DEF PlanCaches
  <2>4. EventsAgree'
    BY <1>1, <2>2, <2>3, AfterNone
  <2> QED
    BY <2>1, <2>4 DEF JobInv
<1>10. ASSUME NEW j \in Jobs, PlanPosts(j)
      PROVE  JobInv'
  <2>1. PICK e \in Events : /\ e = Event("JobSubmitted", j)
                            /\ e.type = "JobSubmitted"
                            /\ e.job = j /\ e.resolved = resolved[j]
    BY <1>2 DEF EventTypes
  <2>2. ASSUME NEW k \in Jobs PROVE Placed(k)'
    <3>1. Placed(k)
      BY <1>1
    <3> QED
      BY <1>10, <3>1 DEF TypeOK, Placed, Fresh, PlanPosts
  <2>3. Announces(e)'
    BY SMTT(60), <1>1, <1>10, <2>1
       DEF TypeOK, Announces, Placed, Fresh, PlanPosts
  <2>4. ASSUME NEW f \in Events, Announces(f)
        PROVE  Announces(f)' /\ Ordered(f, e)'
    BY SMTT(60), <1>1, <1>10, <2>1, <2>4
       DEF TypeOK, Events, Announces, Ordered, Placed, Fresh, PlanPosts
  <2>5. UNCHANGED resolved /\ Post(e)
    BY <1>10, <2>1 DEF PlanPosts
  <2>6. EventsAgree'
    BY <1>1, <2>3, <2>4, <2>5, AfterPost
  <2> QED
    BY <2>2, <2>6 DEF JobInv
<1>11. ASSUME NEW j \in Jobs, Report(j)
      PROVE  JobInv'
  <2>1. PICK e \in Events : /\ e = Event("TaskUpdating", j)
                            /\ e.type = "TaskUpdating"
                            /\ e.job = j /\ e.resolved = resolved[j]
    BY <1>2 DEF EventTypes
  <2>2. ASSUME NEW k \in Jobs PROVE Placed(k)'
    <3>1. Placed(k)
      BY <1>1
    <3> QED
      BY <1>11, <3>1 DEF TypeOK, Placed, Fresh, Report
  <2>3. Announces(e)'
    BY <1>1, <1>11, <2>1 DEF TypeOK, Announces, Placed, Fresh, Report
  <2>4. ASSUME NEW f \in Events, Announces(f)
        PROVE  Announces(f)' /\ Ordered(f, e)'
    BY SMTT(60), <1>1, <1>11, <2>1, <2>4
       DEF TypeOK, Events, Announces, Ordered, Placed, Fresh, Report
  <2>5. UNCHANGED resolved /\ Post(e)
    BY <1>11, <2>1 DEF Report
  <2>6. EventsAgree'
    BY <1>1, <2>3, <2>4, <2>5, AfterPost
  <2> QED
    BY <2>2, <2>6 DEF JobInv
<1>12. ASSUME NEW j \in Jobs, DecideToFail(j)
      PROVE  JobInv'
  <2>1. ASSUME NEW k \in Jobs PROVE Placed(k)'
    <3>1. Placed(k)
      BY <1>1
    <3> QED
      BY <1>12, <3>1 DEF TypeOK, Placed, Fresh, DecideToFail
  <2>2. ASSUME NEW f \in Events, Announces(f)
        PROVE  Announces(f)'
    BY SMTT(60), <1>1, <1>12, <2>2
       DEF TypeOK, Events, Announces, Placed, Fresh, DecideToFail
  <2>3. UNCHANGED <<channel, resolved>>
    BY <1>12 DEF DecideToFail
  <2>4. EventsAgree'
    BY <1>1, <2>2, <2>3, AfterNone
  <2> QED
    BY <2>1, <2>4 DEF JobInv
<1>13. ASSUME NEW j \in Jobs, PostFailure(j)
      PROVE  JobInv'
  <2>1. PICK e \in Events : /\ e = Event("JobRunningFailed", j)
                            /\ e.type = "JobRunningFailed"
                            /\ e.job = j /\ e.resolved = resolved[j]
    BY <1>2 DEF EventTypes
  <2>2. ASSUME NEW k \in Jobs PROVE Placed(k)'
    <3>1. Placed(k)
      BY <1>1
    <3> QED
      BY SMTT(60), <1>13, <3>1 DEF TypeOK, Placed, Fresh, PostFailure
  <2>3. Announces(e)'
    BY SMTT(60), <1>1, <1>13, <2>1
       DEF TypeOK, Announces, Placed, Fresh, PostFailure
  <2>4. ASSUME NEW f \in Events, Announces(f)
        PROVE  Announces(f)' /\ Ordered(f, e)'
    BY SMTT(60), <1>1, <1>13, <2>1, <2>4
       DEF TypeOK, Events, Announces, Ordered, Placed, Fresh, PostFailure
  <2>5. UNCHANGED resolved /\ Post(e)
    BY SMTT(60), <1>13, <2>1 DEF PostFailure
  <2>6. EventsAgree'
    BY <1>1, <2>3, <2>4, <2>5, AfterPost
  <2> QED
    BY <2>2, <2>6 DEF JobInv
<1>14. ASSUME NEW j \in Jobs, CleanUpState(j)
      PROVE  JobInv'
  <2>1. ASSUME NEW k \in Jobs PROVE Placed(k)'
    <3>1. Placed(k)
      BY <1>1
    <3> QED
      BY SMTT(60), <1>14, <3>1 DEF TypeOK, Placed, Fresh, CleanUpState
  <2>2. ASSUME NEW f \in Events, Announces(f)
        PROVE  Announces(f)'
    BY <1>1, <1>14, <2>2
       DEF TypeOK, Events, Announces, Placed, Fresh, CleanUpState
  <2>3. UNCHANGED <<channel, resolved>>
    BY <1>14 DEF CleanUpState
  <2>4. EventsAgree'
    BY <1>1, <2>2, <2>3, AfterNone
  <2> QED
    BY <2>1, <2>4 DEF JobInv
<1>15. ASSUME NEW j \in Jobs, NEW kind, CleanUpData(j, kind)
      PROVE  JobInv'
  <2>1. ASSUME NEW k \in Jobs PROVE Placed(k)'
    <3>1. Placed(k)
      BY <1>1
    <3> QED
      BY <1>15, <3>1 DEF TypeOK, Placed, Fresh, CleanUpData
  <2>2. ASSUME NEW f \in Events, Announces(f)
        PROVE  Announces(f)'
    BY <1>1, <1>15, <2>2
       DEF TypeOK, Events, Announces, Placed, Fresh, CleanUpData
  <2>3. UNCHANGED <<channel, resolved>>
    BY <1>15 DEF CleanUpData
  <2>4. EventsAgree'
    BY <1>1, <2>2, <2>3, AfterNone
  <2> QED
    BY <2>1, <2>4 DEF JobInv
<1>16. ASSUME NEW j \in Jobs, OnJobQueued(j)
      PROVE  JobInv'
  <2>1. channel # <<>> /\ Posts(<<>>) /\ UNCHANGED resolved
    BY Zenon, <1>16 DEF Received, OnJobQueued
  <2>2. PICK h \in Events : h = Head(channel) /\ Announces(h)
    BY SMTT(60), <1>3, <2>1
  <2>3. ASSUME NEW k \in Jobs PROVE Placed(k)'
    <3>1. Placed(k)
      BY <1>1
    <3> QED
      BY SMTT(60), <1>16, <2>2, <3>1
         DEF TypeOK, Placed, Fresh, Announces, Received, OnJobQueued
  <2>4. ASSUME NEW f \in Events, Announces(f), Ordered(h, f)
        PROVE  Announces(f)'
    <3>1. f.job \in Jobs /\ Placed(f.job) /\ f.resolved \in Nat
      BY <1>1 DEF Events
    <3>2. CASE f.job = j
      BY SMTT(60), <1>16, <2>2, <2>4, <3>1, <3>2
         DEF TypeOK, Announces, Ordered, Placed, Fresh, Received, OnJobQueued
    <3>3. CASE f.job # j
      BY <1>16, <2>4, <3>1, <3>3 DEF TypeOK, Announces, Fresh, OnJobQueued
    <3> QED
      BY <3>2, <3>3
  <2>5. EventsAgree'
    BY <1>1, <2>1, <2>2, <2>4, AfterPop
  <2> QED
    BY <2>3, <2>5 DEF JobInv
<1>17. ASSUME NEW j \in Jobs, OnJobSubmitted(j)
      PROVE  JobInv'
  <2>1. channel # <<>> /\ Posts(<<>>) /\ UNCHANGED resolved
    BY Zenon, <1>17 DEF Received, OnJobSubmitted
  <2>2. PICK h \in Events : h = Head(channel) /\ Announces(h)
    BY <1>3, <2>1
  <2>3. ASSUME NEW k \in Jobs PROVE Placed(k)'
    <3>1. Placed(k)
      BY <1>1
    <3> QED
      BY SMTT(60), <1>17, <2>2, <3>1
         DEF TypeOK, Placed, Fresh, Announces, Received, OnJobSubmitted
  <2>4. ASSUME NEW f \in Events, Announces(f), Ordered(h, f)
        PROVE  Announces(f)'
    BY <1>1, <1>17, <2>2, <2>4
       DEF TypeOK, Events, Announces, Ordered, Placed, Fresh, Received,
           OnJobSubmitted
  <2>5. EventsAgree'
    BY <1>1, <2>1, <2>2, <2>4, AfterPop
  <2> QED
    BY <2>3, <2>5 DEF JobInv
<1>18. ASSUME NEW j \in Jobs, OnJobPlanningFailed(j)
      PROVE  JobInv'
  <2>1. channel # <<>> /\ Posts(<<>>) /\ UNCHANGED resolved
    BY Zenon, <1>18 DEF Received, OnJobPlanningFailed
  <2>2. PICK h \in Events : h = Head(channel) /\ Announces(h)
    BY <1>3, <2>1
  <2>3. ASSUME NEW k \in Jobs PROVE Placed(k)'
    <3>1. Placed(k)
      BY <1>1
    <3> QED
      BY SMTT(60), <1>18, <2>2, <3>1
         DEF TypeOK, Placed, Fresh, Announces, Received, OnJobPlanningFailed
  <2>4. ASSUME NEW f \in Events, Announces(f), Ordered(h, f)
        PROVE  Announces(f)'
    BY SMTT(60), <1>1, <1>18, <2>2, <2>4
       DEF TypeOK, Events, Announces, Ordered, Placed, Fresh, Received,
           OnJobPlanningFailed
  <2>5. EventsAgree'
    BY <1>1, <2>1, <2>2, <2>4, AfterPop
  <2> QED
    BY <2>3, <2>5 DEF JobInv
<1>19. ASSUME NEW j \in Jobs, OnJobUpdated(j)
      PROVE  JobInv'
  <2>1. channel # <<>> /\ Posts(<<>>) /\ UNCHANGED resolved
    BY Zenon, <1>19 DEF Received, OnJobUpdated
  <2>2. PICK h \in Events : h = Head(channel) /\ Announces(h)
    BY <1>3, <2>1
  <2>3. ASSUME NEW k \in Jobs PROVE Placed(k)'
    <3>1. Placed(k)
      BY <1>1
    <3> QED
      BY SMTT(60), <1>19, <2>2, <3>1
         DEF TypeOK, Placed, Fresh, Announces, Received, OnJobUpdated,
             SaveTerminal, NothingSaved
  <2>4. ASSUME NEW f \in Events, Announces(f), Ordered(h, f)
        PROVE  Announces(f)'
    <3>1. f.job \in Jobs /\ Placed(f.job) /\ f.resolved \in Nat
      BY <1>1 DEF Events
    <3>2. CASE f.job = j
      BY SMTT(60), <1>19, <2>2, <2>4, <3>1, <3>2
         DEF TypeOK, Announces, Ordered, Placed, Fresh, Received, OnJobUpdated,
             SaveTerminal, NothingSaved
    <3>3. CASE f.job # j
      BY SMTT(60), <1>19, <2>4, <3>1, <3>3
         DEF TypeOK, Announces, Fresh, OnJobUpdated, SaveTerminal, NothingSaved
    <3> QED
      BY <3>2, <3>3
  <2>5. EventsAgree'
    BY <1>1, <2>1, <2>2, <2>4, AfterPop
  <2> QED
    BY <2>3, <2>5 DEF JobInv
<1>20. ASSUME NEW j \in Jobs, OnJobFinished(j)
      PROVE  JobInv'
  <2>1. channel # <<>> /\ Posts(<<>>) /\ UNCHANGED resolved
    BY Zenon, <1>20 DEF Received, OnJobFinished
  <2>2. PICK h \in Events : h = Head(channel) /\ Announces(h)
    BY <1>3, <2>1
  <2>3. ASSUME NEW k \in Jobs PROVE Placed(k)'
    <3>1. Placed(k)
      BY <1>1
    <3> QED
      BY SMTT(60), <1>20, <2>2, <3>1
         DEF TypeOK, Placed, Fresh, Announces, Received, OnJobFinished,
             SaveTerminal, NothingSaved
  <2>4. ASSUME NEW f \in Events, Announces(f), Ordered(h, f)
        PROVE  Announces(f)'
    <3>1. f.job \in Jobs /\ Placed(f.job) /\ f.resolved \in Nat
      BY <1>1 DEF Events
    <3>2. CASE f.job = j
      BY SMTT(60), <1>20, <2>2, <2>4, <3>1, <3>2
         DEF TypeOK, Announces, Ordered, Placed, Fresh, Received, OnJobFinished,
             SaveTerminal, NothingSaved
    <3>3. CASE f.job # j
      BY SMTT(60), <1>20, <2>4, <3>1, <3>3
         DEF TypeOK, Announces, Fresh, OnJobFinished, SaveTerminal, NothingSaved
    <3> QED
      BY <3>2, <3>3
  <2>5. EventsAgree'
    BY <1>1, <2>1, <2>2, <2>4, AfterPop
  <2> QED
    BY <2>3, <2>5 DEF JobInv
<1>21. ASSUME NEW j \in Jobs, OnJobRunningFailed(j)
      PROVE  JobInv'
  <2>1. channel # <<>> /\ Posts(<<>>) /\ UNCHANGED resolved
    BY Zenon, <1>21 DEF Received, OnJobRunningFailed, Abort
  <2>2. PICK h \in Events : h = Head(channel) /\ Announces(h)
    BY <1>3, <2>1
  <2>3. ASSUME NEW k \in Jobs PROVE Placed(k)'
    <3>1. Placed(k)
      BY <1>1
    <3> QED
      BY SMTT(60), <1>21, <2>2, <3>1
         DEF TypeOK, Placed, Fresh, Announces, Received, OnJobRunningFailed,
             Abort, SaveTerminal, NothingSaved
  <2>4. ASSUME NEW f \in Events, Announces(f), Ordered(h, f)
        PROVE  Announces(f)'
    <3>1. f.job \in Jobs /\ Placed(f.job) /\ f.resolved \in Nat
      BY <1>1 DEF Events
    <3>2. CASE f.job = j
      BY SMTT(60), <1>21, <2>2, <2>4, <3>1, <3>2
         DEF TypeOK, Announces, Ordered, Placed, Fresh, Received,
             OnJobRunningFailed, Abort, SaveTerminal, NothingSaved
    <3>3. CASE f.job # j
      BY SMTT(60), <1>21, <2>4, <3>1, <3>3
         DEF TypeOK, Announces, Fresh, OnJobRunningFailed, Abort, SaveTerminal,
             NothingSaved
    <3> QED
      BY <3>2, <3>3
  <2>5. EventsAgree'
    BY <1>1, <2>1, <2>2, <2>4, AfterPop
  <2> QED
    BY <2>3, <2>5 DEF JobInv
<1>22. ASSUME NEW j \in Jobs, OnJobCancel(j)
      PROVE  JobInv'
  <2>1. channel # <<>> /\ Posts(<<>>) /\ UNCHANGED resolved
    BY Zenon, <1>22 DEF Received, OnJobCancel, Abort
  <2>2. PICK h \in Events : h = Head(channel) /\ Announces(h)
    BY <1>3, <2>1
  <2>3. ASSUME NEW k \in Jobs PROVE Placed(k)'
    <3>1. Placed(k)
      BY <1>1
    <3> QED
      BY SMTT(60), <1>22, <2>2, <3>1
         DEF TypeOK, Placed, Fresh, Announces, Received, OnJobCancel, Abort,
             SaveTerminal, NothingSaved
  <2>4. ASSUME NEW f \in Events, Announces(f), Ordered(h, f)
        PROVE  Announces(f)'
    <3>1. f.job \in Jobs /\ Placed(f.job) /\ f.resolved \in Nat
      BY <1>1 DEF Events
    <3>2. CASE f.job = j
      BY SMTT(60), <1>22, <2>2, <2>4, <3>1, <3>2
         DEF TypeOK, Announces, Ordered, Placed, Fresh, Received, OnJobCancel,
             Abort, SaveTerminal, NothingSaved
    <3>3. CASE f.job # j
      BY SMTT(60), <1>22, <2>4, <3>1, <3>3
         DEF TypeOK, Announces, Fresh, OnJobCancel, Abort, SaveTerminal,
             NothingSaved
    <3> QED
      BY <3>2, <3>3
  <2>5. EventsAgree'
    BY <1>1, <2>1, <2>2, <2>4, AfterPop
  <2> QED
    BY <2>3, <2>5 DEF JobInv
<1>23. ASSUME NEW j \in Jobs, OnJobDataClean(j)
      PROVE  JobInv'
  <2>1. channel # <<>> /\ Posts(<<>>) /\ UNCHANGED resolved
    BY Zenon, <1>23 DEF Received, OnJobDataClean
  <2>2. PICK h \in Events : h = Head(channel) /\ Announces(h)
    BY <1>3, <2>1
  <2>3. ASSUME NEW k \in Jobs PROVE Placed(k)'
    <3>1. Placed(k)
      BY <1>1
    <3> QED
      BY SMTT(60), <1>23, <2>2, <3>1
         DEF TypeOK, Placed, Fresh, Announces, Received, OnJobDataClean
  <2>4. ASSUME NEW f \in Events, Announces(f), Ordered(h, f)
        PROVE  Announces(f)'
    BY <1>1, <1>23, <2>2, <2>4
       DEF TypeOK, Events, Announces, Ordered, Placed, Fresh, Received,
           OnJobDataClean
  <2>5. EventsAgree'
    BY <1>1, <2>1, <2>2, <2>4, AfterPop
  <2> QED
    BY <2>3, <2>5 DEF JobInv
<1>24. ASSUME NEW j \in Jobs,
             NEW posted \in {"nothing", "JobUpdated", "JobFinished",
                             "JobRunningFailed"},
             OnTaskUpdating(j, posted)
      PROVE  JobInv'
  <2>1. PICK h \in Events : /\ h = Head(channel) /\ Announces(h) /\ channel # <<>>
                            /\ h.type = "TaskUpdating" /\ h.job = j
    BY <1>3, <1>24 DEF OnTaskUpdating, Received
  <2>2. ASSUME NEW k \in Jobs PROVE Placed(k)'
    <3>1. Placed(k)
      BY <1>1
    <3> QED
      BY ZenonT(60), <1>24, <2>1, <3>1
         DEF TypeOK, Placed, Fresh, Announces, OnTaskUpdating
  <2>3. /\ cache[j] = "absent" => posted = "nothing"
        /\ cache[j] = "Successful" => posted = "JobFinished"
        /\ posted = "JobFinished" /\ cache[j] # "Successful"
              => h.resolved = resolved[j]
        /\ cache'[j] = "Successful" =>
              cache[j] = "Successful" \/ posted = "JobFinished"
        /\ cache[j] = "absent" => cache'[j] = "absent"
    BY Zenon, <1>24, <2>1 DEF TypeOK, OnTaskUpdating
  <2>4. /\ resolved[j] \in Nat /\ resolved'[j] \in Nat
        /\ resolved[j] <= resolved'[j]
        /\ posted = "JobUpdated" => resolved[j] < resolved'[j]
    BY <1>24 DEF TypeOK, OnTaskUpdating
  <2>5. ASSUME NEW f \in Events, Announces(f), Ordered(h, f)
        PROVE  Announces(f)'
    <3>1. f.job \in Jobs /\ f.resolved \in Nat
      BY DEF Events
    <3>2. CASE f.job = j
      <4>1. ASSUME f.type = "JobUpdated", cache'[j] = "Successful"
            PROVE  FALSE
        <5>1. cache[j] # "Successful"
          BY <2>5, <3>2, <4>1 DEF Announces
        <5>2. h.resolved = resolved[j]
          BY <2>3, <4>1, <5>1
        <5>3. h.resolved < resolved[j]
          BY <2>1, <2>5, <3>2, <4>1 DEF Ordered
        <5> QED
          BY <2>4, <5>2, <5>3
      <4>2. f.resolved <= resolved'[j]
        BY <2>4, <2>5, <3>1, <3>2 DEF Announces
      <4> QED
        BY SMTT(60), <1>24, <2>3, <2>5, <3>2, <4>1, <4>2
           DEF Announces, Fresh, OnTaskUpdating
    <3>3. CASE f.job # j
      BY <1>24, <2>5, <3>1, <3>3 DEF TypeOK, Announces, Fresh, OnTaskUpdating
    <3> QED
      BY <3>2, <3>3
  <2>6. CASE posted = "nothing"
    <3>1. Posts(<<>>) /\ UNCHANGED resolved
      BY <1>24, <2>6 DEF TypeOK, OnTaskUpdating
    <3>2. EventsAgree'
      BY <1>1, <2>1, <2>5, <3>1, AfterPop
    <3> QED
      BY <2>2, <3>2 DEF JobInv
  <2>7. CASE posted # "nothing"
    <3>1. PICK e \in Events : /\ e = Event(posted, j) /\ e.type = posted
                              /\ e.job = j /\ e.resolved = resolved[j]
      BY <1>2, <2>7 DEF EventTypes
    <3>2. /\ Posts(<<e>>)
          /\ resolved' \in [Jobs -> Nat]
          /\ \A k \in Jobs : resolved[k] <= resolved'[k]
      BY SMTT(60), <1>24, <2>7, <3>1 DEF TypeOK, OnTaskUpdating
    <3>3. Announces(e)'
      BY <1>24, <2>1, <2>3, <2>4, <2>7, <3>1 DEF Announces, OnTaskUpdating
    <3>4. ASSUME NEW f \in Events, Announces(f)
          PROVE  Ordered(f, e)'
      <4>1. e.type # "JobQueued"
        BY <2>7, <3>1
      <4>2. ASSUME f.job = j, e.type = "JobUpdated"
            PROVE  f.resolved < resolved'[j]
        <5>1. f.resolved \in Nat /\ f.resolved <= resolved[j]
          BY <3>4, <4>2 DEF Events, Announces
        <5>2. resolved[j] < resolved'[j]
          BY <2>4, <3>1, <4>2
        <5> QED
          BY <2>4, <5>1, <5>2
      <4> QED
        BY <3>1, <4>1, <4>2 DEF Ordered
    <3>5. EventsAgree'
      BY ZenonT(60), <1>1, <2>1, <2>5, <3>2, <3>3, <3>4, AfterReplace
    <3> QED
      BY SMTT(60), <2>2, <3>5 DEF JobInv
  <2> QED
    BY <2>6, <2>7
<1>25. CASE UNCHANGED vars
  <2>1. ASSUME NEW k \in Jobs PROVE Placed(k)'
    BY Zenon, <1>1, <1>25 DEF Placed, Fresh, vars
  <2>2. ASSUME NEW f \in Events, Announces(f) PROVE Announces(f)'
    BY <1>25, <2>2 DEF Announces, Fresh, vars
  <2>3. UNCHANGED <<channel, resolved>>
    BY <1>25 DEF vars
  <2>4. EventsAgree'
    BY <1>1, <2>2, <2>3, AfterNone
  <2> QED
    BY SMTT(60), <2>1, <2>4 DEF JobInv
<1> QED
  BY <1>4, <1>5, <1>6, <1>7, <1>8, <1>9, <1>10, <1>11, <1>12, <1>13, <1>14,
     <1>15, <1>16, <1>17, <1>18, <1>19, <1>20, <1>21, <1>22, <1>23, <1>24, <1>25
     DEF Next, Plan, Handle, Idle

\* The maps of the backend, the graph cache, the planner and the events in the
\* channel agree about every job in every reachable state.
THEOREM Consistent == Spec => []JobInv
<1>1. Init => TypeOK /\ JobInv
  BY DEF Init, TypeOK, JobInv, EventsAgree, Placed, Fresh, Terminal, CleanUps
<1> QED
  BY <1>1, TypeInductive, JobInvInductive, PTL DEF Spec

\* queued_jobs, running_jobs and completed_jobs never hold one job twice, and a
\* running job in the cache is one save_job finds in running_jobs.
THEOREM OneMapPerJob == Spec => []OnePlace
<1>1. TypeOK /\ JobInv => OnePlace
  BY SMTT(60) DEF TypeOK, JobInv, Placed, OnePlace
<1> QED
  BY <1>1, Types, Consistent, PTL

\* The planner's failure path and save_job together tell a subscriber exactly
\* once.
THEOREM SubscriberToldOnce == Spec => []ToldOnce
<1>1. TypeOK /\ JobInv => ToldOnce
  <2> SUFFICES ASSUME TypeOK, JobInv, NEW j \in Jobs
               PROVE  told[j] <= 1 /\ (completed[j] # "absent" => told[j] = 1)
    BY DEF ToldOnce
  <2>1. Placed(j)
    BY DEF JobInv
  <2>2. told[j] = 0 \/ told[j] = 1
    BY <2>1 DEF Placed
  <2>3. told[j] <= 1
    BY <2>2
  <2>4. completed[j] # "absent" => told[j] = 1
    BY <2>1 DEF Placed
  <2> QED
    BY ZenonT(60), <2>3, <2>4
<1> QED
  BY <1>1, Types, Consistent, PTL

(***************************************************************************)
(* The job life cycle implements JobStatus.                                *)
(***************************************************************************)

\* A step that moves the recorded status of one job along an edge of JobStatus.
LEMMA StatusStep ==
    ASSUME NEW j \in Jobs,
           \A k \in Jobs : k # j => Recorded(k)' = Recorded(k),
           \/ Recorded(j)' = Recorded(j)
           \/ Recorded(j) = "None" /\ Recorded(j)' = "Queued"
           \/ Recorded(j) = "Queued" /\ Recorded(j)' \in {"Running", "Failed"}
           \/ Recorded(j) = "Running" /\ Recorded(j)' \in {"Successful", "Failed"}
           \/ Recorded(j) \in {"Successful", "Failed"} /\ Recorded(j)' = "Removed"
           \/ Recorded(j) = "Removed" /\ Recorded(j)' = "Failed"
    PROVE  [Promise!Next]_RecordedStatus
<1>1. RecordedStatus' = [RecordedStatus EXCEPT ![j] = Recorded(j)']
  BY Zenon DEF RecordedStatus
<1>2. RecordedStatus[j] = Recorded(j)
  BY DEF RecordedStatus
<1>3. CASE Recorded(j)' = Recorded(j)
  BY <1>3 DEF RecordedStatus
<1>4. CASE Recorded(j)' # Recorded(j)
  <2>1. \/ Promise!AcceptJob(j) \/ Promise!SubmitJob(j)
        \/ Promise!FailUnscheduledJob(j) \/ Promise!SaveSuccess(j)
        \/ Promise!SaveFailure(j) \/ Promise!SaveFailureAgain(j)
        \/ Promise!RemoveJob(j)
    BY Zenon, <1>1, <1>2, <1>4
       DEF Promise!AcceptJob, Promise!SubmitJob, Promise!FailUnscheduledJob,
           Promise!SaveSuccess, Promise!SaveFailure, Promise!SaveFailureAgain,
           Promise!RemoveJob, Promise!Move
  <2> QED
    BY <2>1 DEF Promise!Next
<1> QED
  BY <1>3, <1>4

\* A step that leaves the three maps alone stutters in JobStatus.
LEMMA StatusKept ==
    ASSUME UNCHANGED <<queued, running, completed>>
    PROVE  [Promise!Next]_RecordedStatus
<1>1. \A k \in Jobs : Recorded(k)' = Recorded(k)
  BY DEF Recorded
<1> QED
  BY <1>1 DEF RecordedStatus

\* Every step moves the recorded status of at most one job, along an edge of
\* JobStatus.  Whatever saves a terminal status finds the job running, or a graph
\* that failed and whose failure was recorded before.
LEMMA StepKeepsPromise ==
    TypeOK /\ JobInv /\ [Next]_vars => [Promise!Next]_RecordedStatus
<1> SUFFICES ASSUME TypeOK, JobInv, [Next]_vars
             PROVE  [Promise!Next]_RecordedStatus
  OBVIOUS
<1> USE DEF bounds, Terminal
<1>1. \A j \in Jobs : Placed(j)
  BY DEF JobInv
<1>2. ASSUME channel # <<>>
      PROVE  Announces(Head(channel)) /\ Head(channel) \in Events
  <2>1. channel \in Seq(Events) /\ EventsAgree
    BY SMTT(60) DEF TypeOK, JobInv
  <2>2. Head(channel) = channel[1] /\ 1 \in DOMAIN channel /\ Head(channel) \in Events
    BY <1>2, <2>1
  <2> QED
    BY <2>1, <2>2 DEF EventsAgree
<1>3. ASSUME NEW j \in Jobs,
             \/ SubmitPlan(j) \/ CancelJob(j) \/ CleanJobData(j) \/ Report(j)
             \/ PlanFails(j) \/ PlanCaches(j) \/ PlanPosts(j)
             \/ DecideToFail(j) \/ PostFailure(j)
             \/ OnJobSubmitted(j) \/ OnJobDataClean(j)
             \/ \E kind : CleanUpData(j, kind)
             \/ \E posted : OnTaskUpdating(j, posted)
      PROVE  [Promise!Next]_RecordedStatus
  BY Zenon, <1>3, StatusKept
     DEF SubmitPlan, CancelJob, CleanJobData, Request, Report, PlanFails,
         PlanCaches,
         PlanPosts, DecideToFail, PostFailure, OnJobSubmitted, OnJobDataClean,
         CleanUpData, OnTaskUpdating
<1>4. ASSUME NEW j \in Jobs, OnJobQueued(j)
      PROVE  [Promise!Next]_RecordedStatus
  <2>1. Fresh(j)
    BY <1>2, <1>4 DEF OnJobQueued, Received, Announces
  <2>2. Recorded(j) = "None" /\ Recorded(j)' = "Queued"
    BY <1>4, <2>1 DEF OnJobQueued, Fresh, Recorded
  <2>3. \A k \in Jobs : k # j => Recorded(k)' = Recorded(k)
    BY <1>4 DEF OnJobQueued, Recorded
  <2> QED
    BY <2>2, <2>3, StatusStep
<1>5. ASSUME NEW j \in Jobs, PlanSubmits(j)
      PROVE  [Promise!Next]_RecordedStatus
  <2>1. Recorded(j) = "Queued" /\ Recorded(j)' = "Running"
    BY <1>5 DEF PlanSubmits, Recorded
  <2>2. \A k \in Jobs : k # j => Recorded(k)' = Recorded(k)
    BY <1>5 DEF PlanSubmits, Recorded
  <2> QED
    BY <2>1, <2>2, StatusStep
<1>6. ASSUME NEW j \in Jobs, OnJobPlanningFailed(j)
      PROVE  [Promise!Next]_RecordedStatus
  <2>1. CASE j \in queued
    <3>1. Recorded(j) = "Queued" /\ Recorded(j)' = "Failed"
      BY <1>1, <1>6, <2>1 DEF TypeOK, OnJobPlanningFailed, Placed, Recorded
    <3>2. \A k \in Jobs : k # j => Recorded(k)' = Recorded(k)
      BY <1>6 DEF TypeOK, OnJobPlanningFailed, Recorded
    <3> QED
      BY <3>1, <3>2, StatusStep
  <2>2. CASE j \notin queued
    BY <1>6, <2>2, StatusKept DEF TypeOK, OnJobPlanningFailed
  <2> QED
    BY <2>1, <2>2
<1>7. ASSUME NEW j \in Jobs, NEW status \in Terminal, SaveTerminal(j, status),
             UNCHANGED queued, cache[j] # "absent",
             status = "Successful" => cache[j] # "Failed"
      PROVE  [Promise!Next]_RecordedStatus
  <2>1. Placed(j)
    BY <1>1
  <2>2. j \notin queued /\ (j \in running \/ cache[j] = "Failed")
    BY <1>7, <2>1 DEF TypeOK, Placed
  <2>3. completed' = [completed EXCEPT ![j] = status] /\ running' = running \ {j}
    BY <1>7 DEF SaveTerminal
  <2>4. Recorded(j)' = status
    BY <1>7, <2>2, <2>3 DEF TypeOK, Recorded
  <2>5. \/ Recorded(j) = "Running"
        \/ status = "Failed" /\ Recorded(j) \in {"Failed", "Removed"}
    BY <1>7, <2>1, <2>2 DEF Placed, Recorded
  <2>6. \A k \in Jobs : k # j => Recorded(k)' = Recorded(k)
    BY <1>7, <2>3 DEF TypeOK, Recorded
  <2> QED
    BY <1>7, <2>4, <2>5, <2>6, StatusStep
<1>8. ASSUME NEW j \in Jobs, OnJobUpdated(j)
      PROVE  [Promise!Next]_RecordedStatus
  <2>1. CASE cache[j] \in Terminal
    BY <1>7, <1>8, <2>1 DEF OnJobUpdated
  <2>2. CASE cache[j] \notin Terminal
    BY <1>8, <2>2, StatusKept DEF OnJobUpdated, NothingSaved
  <2> QED
    BY <2>1, <2>2
<1>9. ASSUME NEW j \in Jobs, OnJobFinished(j)
      PROVE  [Promise!Next]_RecordedStatus
  <2>1. CASE cache[j] = "Successful"
    BY <1>7, <1>9, <2>1 DEF OnJobFinished
  <2>2. CASE cache[j] # "Successful"
    BY <1>9, <2>2, StatusKept DEF OnJobFinished, NothingSaved
  <2> QED
    BY <2>1, <2>2
<1>10. ASSUME NEW j \in Jobs, OnJobRunningFailed(j) \/ OnJobCancel(j)
       PROVE  [Promise!Next]_RecordedStatus
  <2>1. CASE cache[j] # "absent"
    BY <1>7, <1>10, <2>1 DEF OnJobRunningFailed, OnJobCancel, Abort
  <2>2. CASE cache[j] = "absent"
    BY <1>10, <2>2, StatusKept
       DEF OnJobRunningFailed, OnJobCancel, Abort, NothingSaved
  <2> QED
    BY <2>1, <2>2
<1>11. ASSUME NEW j \in Jobs, CleanUpState(j)
       PROVE  [Promise!Next]_RecordedStatus
  <2>1. CASE completed[j] \in Terminal
    <3>1. j \notin queued /\ j \notin running
      BY <1>1, <2>1 DEF Placed
    <3>2. Recorded(j) \in Terminal /\ Recorded(j)' = "Removed"
      BY <1>11, <2>1, <3>1 DEF TypeOK, CleanUpState, Recorded
    <3>3. \A k \in Jobs : k # j => Recorded(k)' = Recorded(k)
      BY <1>11 DEF TypeOK, CleanUpState, Recorded
    <3> QED
      BY <3>2, <3>3, StatusStep
  <2>2. CASE completed[j] \notin Terminal
    BY <1>11, <2>2, StatusKept DEF TypeOK, CleanUpState
  <2> QED
    BY <2>1, <2>2
<1>12. CASE UNCHANGED vars
  BY <1>12, StatusKept DEF vars
<1> QED
  BY <1>3, <1>4, <1>5, <1>6, <1>8, <1>9, <1>10, <1>11, <1>12
     DEF Next, Plan, Handle, Idle

\* The recorded status of every job follows the promise of the JobState trait: no
\* order of late events, cancellations and timers changes an outcome.
THEOREM Refinement == Spec => KeepsPromise
<1>1. Init => Promise!Init
  BY DEF Init, Promise!Init, RecordedStatus, Recorded
<1> QED
  BY <1>1, Types, Consistent, StepKeepsPromise, PTL
     DEF Spec, KeepsPromise, Promise!Spec

=============================================================================
