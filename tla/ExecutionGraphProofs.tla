------------------------ MODULE ExecutionGraphProofs ------------------------
(***************************************************************************)
(* GraphInv is an inductive invariant of ExecutionGraph, for any graph of  *)
(* stages, any numbers of partitions and executors, batches of any size    *)
(* and any number of faults.                                               *)
(***************************************************************************)
EXTENDS ExecutionGraph, GraphUpdatesProofs

EventType == {"JobUpdated", "JobFinished", "JobRunningFailed"}

\* A step changes the graph as a handler may.
Continues == \E done : Goes(done, graph, graph')

-----------------------------------------------------------------------------
(* What the steps of the system have in common. *)

\* A task that executes is not a report.
LEMMA LaunchIsNoStatus ==
    ASSUME NEW x \in LaunchType, NEW y \in StatusType
    PROVE  x # y
<1>1. DOMAIN x = {"stage", "attempt", "exec", "task", "reads"}
  BY DEF LaunchType
<1>2. DOMAIN y = {"stage", "attempt", "task", "exec", "kind", "map", "from"}
  BY DEF StatusType
<1>3. "reads" \in DOMAIN x /\ "reads" \notin DOMAIN y
  BY <1>1, <1>2
<1> QED BY <1>3

\* What a handler of the graph leaves of the tasks on the executors: the graph
\* goes on tracking them, and a task that becomes successful has reported, so that
\* it does not execute.
LEMMA HandlerKeeps ==
    ASSUME GraphInv, NEW done \in SUBSET reports, NEW h, Goes(done, graph, h)
    PROVE  /\ IsGraph(h)
           /\ \A r \in running \union reports : Tracks(h.stages[r.stage], r)
           /\ \A s \in Stages : \A t \in DOMAIN h.stages[s].tasks :
                 h.stages[s].tasks[t].st = "success" =>
                    ~ \E r \in running : /\ r.stage = s /\ r.task = t
                                         /\ r.attempt = h.stages[s].tasks[t].attempt
<1>1. /\ IsGraph(graph) /\ IsGraph(h)
      /\ running \subseteq LaunchType /\ reports \subseteq StatusType
  BY DEF GraphInv, TypeOK, Goes
<1>2. ASSUME NEW r \in running \union reports PROVE Tracks(h.stages[r.stage], r)
  <2>1. r.stage \in Stages /\ r.attempt \in Nat
    BY <1>1, <1>2 DEF LaunchType, StatusType
  <2> DEFINE s == r.stage
  <2> HIDE DEF s
  <2>2. /\ IsStage(s, graph.stages[s]) /\ IsStage(s, h.stages[s])
        /\ Follows(done, s, graph.stages[s], h.stages[s])
    BY <1>1, <2>1 DEF IsGraph, Goes, Moves, s
  <2>3. Tracks(graph.stages[s], r)
    BY <1>2 DEF GraphInv, s
  <2>4. Tracks(h.stages[s], r)
    BY <2>1, <2>2, <2>3, FollowsTracks, SMTT(30) DEF s
  <2> QED BY <2>4 DEF s
<1>3. ASSUME NEW s \in Stages, NEW t \in DOMAIN h.stages[s].tasks,
             h.stages[s].tasks[t].st = "success",
             NEW r \in running, r.stage = s, r.task = t,
             r.attempt = h.stages[s].tasks[t].attempt
      PROVE  FALSE
  <2>1. Follows(done, s, graph.stages[s], h.stages[s])
    BY ZenonT(30) DEF Goes, Moves
  <2>2. \/ /\ t \in DOMAIN graph.stages[s].tasks
           /\ graph.stages[s].tasks[t].st = "success"
           /\ graph.stages[s].tasks[t].attempt = h.stages[s].tasks[t].attempt
        \/ \E x \in done : /\ x.stage = s /\ x.task = t
                           /\ x.attempt = h.stages[s].tasks[t].attempt
    BY <1>3, <2>1, SMTT(30) DEF Follows
  <2>3. CASE /\ t \in DOMAIN graph.stages[s].tasks
             /\ graph.stages[s].tasks[t].st = "success"
             /\ graph.stages[s].tasks[t].attempt = h.stages[s].tasks[t].attempt
    BY <1>3, <2>3 DEF GraphInv, NoPhantomSuccess
  <2>4. CASE \E x \in done : /\ x.stage = s /\ x.task = t
                             /\ x.attempt = h.stages[s].tasks[t].attempt
    <3>1. PICK x \in done : /\ x.stage = s /\ x.task = t
                            /\ x.attempt = h.stages[s].tasks[t].attempt
      BY <2>4
    <3>2. x = r
      BY <1>3, <3>1 DEF GraphInv, LaunchesDistinct
    <3>3. r \in LaunchType /\ x \in StatusType
      BY <1>1, <3>1
    <3> QED BY <3>2, <3>3, LaunchIsNoStatus, SMTT(30)
  <2> QED BY <2>2, <2>3, <2>4
<1> QED BY <1>1, <1>2, <1>3

\* ... and so does the step that the handler makes, whatever tasks and reports
\* are lost meanwhile.
LEMMA HandlerStep ==
    ASSUME GraphInv, NEW done \in SUBSET reports, Goes(done, graph, graph'),
           running' \subseteq running, reports' \subseteq reports
    PROVE  /\ IsGraph(graph')
           /\ \A r \in (running \union reports)' : Tracks(graph'.stages[r.stage], r)
           /\ LaunchesDistinct'
           /\ NoPhantomSuccess'
           /\ running' \subseteq LaunchType
           /\ \A r \in running' : \A x \in r.reads : x.map \in Inputs[r.stage]
           /\ reports' \subseteq StatusType
<1> DEFINE h == graph'
<1>1. Goes(done, graph, h)
  OBVIOUS
<1> HIDE DEF h
<1>2. /\ IsGraph(h)
      /\ \A r \in running \union reports : Tracks(h.stages[r.stage], r)
      /\ \A s \in Stages : \A t \in DOMAIN h.stages[s].tasks :
            h.stages[s].tasks[t].st = "success" =>
               ~ \E r \in running : /\ r.stage = s /\ r.task = t
                                    /\ r.attempt = h.stages[s].tasks[t].attempt
  BY <1>1, HandlerKeeps, ZenonT(30)
<1>3. NoPhantomSuccess'
  BY <1>2 DEF NoPhantomSuccess, h
<1>4. LaunchesDistinct'
  BY DEF GraphInv, LaunchesDistinct
<1>5. /\ running \subseteq LaunchType /\ reports \subseteq StatusType
      /\ \A r \in running : \A x \in r.reads : x.map \in Inputs[r.stage]
  BY DEF GraphInv, TypeOK
<1> QED BY <1>2, <1>3, <1>4, <1>5, SMTT(30) DEF h

\* A task that ends gives way to a report that has its ids.
LEMMA ReportStep ==
    ASSUME GraphInv, NEW r \in running, NEW x \in StatusType, UNCHANGED graph,
           x.stage = r.stage, x.attempt = r.attempt, x.task = r.task, x.exec = r.exec,
           running' = running \ {r}, reports' = reports \union {x}
    PROVE  /\ running' \subseteq LaunchType
           /\ \A y \in running' : \A z \in y.reads : z.map \in Inputs[y.stage]
           /\ reports' \subseteq StatusType
           /\ \A y \in (running \union reports)' : Tracks(graph'.stages[y.stage], y)
           /\ LaunchesDistinct'
           /\ NoPhantomSuccess'
<1>1. /\ running \subseteq LaunchType /\ reports \subseteq StatusType
      /\ \A y \in running : \A z \in y.reads : z.map \in Inputs[y.stage]
  BY SMTT(30) DEF GraphInv, TypeOK
<1>2. \A y \in running \union reports : Tracks(graph.stages[y.stage], y)
  BY Zenon DEF GraphInv
<1>3. \A y \in (running \union reports)' : Tracks(graph'.stages[y.stage], y)
  <2>1. Tracks(graph.stages[r.stage], r)
    BY <1>2
  <2>2. Tracks(graph.stages[x.stage], x)
    BY <2>1, SMTT(30) DEF Tracks
  <2>3. \A y \in (running \union reports)' : y = x \/ y \in running \union reports
    OBVIOUS
  <2> QED BY <1>2, <2>2, <2>3, SMTT(30)
<1>4. LaunchesDistinct'
  <2> SUFFICES ASSUME NEW y \in (running \union reports)', NEW z \in (running \union reports)',
                      y.stage = z.stage, y.task = z.task, y.attempt = z.attempt
               PROVE  y = z
    BY DEF LaunchesDistinct
  <2>1. ASSUME NEW u \in (running \union reports)', u # x,
               u.stage = r.stage, u.task = r.task, u.attempt = r.attempt
        PROVE  FALSE
    <3>1. u \in running \union reports /\ (u # r \/ u \in reports)
      BY <2>1
    <3>2. u = r
      BY <2>1, <3>1 DEF GraphInv, LaunchesDistinct
    <3>3. r \in LaunchType /\ u \in StatusType
      BY <1>1, <3>1, <3>2
    <3> QED BY <3>2, <3>3, LaunchIsNoStatus
  <2>2. CASE y = x \/ z = x
    BY <2>1, <2>2
  <2>3. CASE y # x /\ z # x
    BY <2>3 DEF GraphInv, LaunchesDistinct
  <2> QED BY <2>2, <2>3
<1>5. NoPhantomSuccess'
  BY DEF GraphInv, NoPhantomSuccess
<1> QED BY <1>1, <1>3, <1>4, <1>5, SMTT(30)

-----------------------------------------------------------------------------
(* One lemma for each action. *)

\* The types that the other lemmas use.
LEMMA TypeFacts ==
    ASSUME GraphInv
    PROVE  /\ IsGraph(graph) /\ Goes({}, graph, graph)
           /\ events \in Seq(EventType) /\ evicted \in BOOLEAN /\ cancels \subseteq TaskKeyType
           /\ exec \in [Executors -> {"up", "crashed", "gone"}]
           /\ faults \in [FaultKinds -> Nat]
<1>1. IsGraph(graph)
  BY DEF GraphInv, TypeOK
<1>2. Goes({}, graph, graph)
  BY <1>1, GoesRefl, StaysGoes
<1> QED BY <1>1, <1>2, Zenon DEF GraphInv, TypeOK, EventType

\* The first states.
LEMMA InitGraphInv == Init => GraphInv
<1> SUFFICES ASSUME Init PROVE GraphInv
  OBVIOUS
<1>1. IsGraph(graph)
  <2>1. \A s \in Stages : IsStage(s, NewStage(s))
    BY NewStageType
  <2> QED BY <2>1 DEF Init, IsGraph
<1>2. \A s \in Stages : graph.stages[s].tasks = <<>>
  BY DEF Init, NewStage
<1>3. faults \in [FaultKinds -> Nat]
  BY GraphAssumption DEF Init
<1>4. TypeOK
  <2>2. events \in Seq(EventType) /\ evicted \in BOOLEAN
    <3>1. events \in Seq(EventType)
      BY DEF Init
    <3>2. evicted \in BOOLEAN
      BY Zenon DEF Init
    <3> QED BY <3>1, <3>2
  <2>3. exec \in [Executors -> {"up", "crashed", "gone"}]
    BY DEF Init
  <2>4. /\ running \subseteq LaunchType
        /\ reports \subseteq StatusType
        /\ cancels \subseteq TaskKeyType
    BY DEF Init
  <2>5. \A r \in running : \A x \in r.reads : x.map \in Inputs[r.stage]
    BY DEF Init
  <2> QED BY <1>1, <1>3, <2>2, <2>3, <2>4, <2>5, ZenonT(30) DEF TypeOK, EventType
<1> QED BY <1>2, <1>4 DEF Init, GraphInv, LaunchesDistinct, NoPhantomSuccess

\* fetch_running_stage
LEMMA FetchRunningStageGraph ==
    ASSUME NEW g, IsGraph(g)
    PROVE  Goes({}, g, FetchRunningStage(g))
BY ReviveGraph, GoesRefl, StaysGoes, SMTT(30) DEF FetchRunningStage

\* A task is bound: it gets an id that no launch of the attempt has.
LEMMA BindInv ==
    ASSUME GraphInv, NEW s \in Stages, NEW e \in Executors, NEW n \in 1 .. MaxSlice, Bind(s, e, n)
    PROVE  GraphInv' /\ Continues
<1> DEFINE g == FetchRunningStage(graph)
           a == g.stages[s]
           b == BindSlice(a, e, n)
           k == Len(a.tasks) + 1
           reads == UNION {{[map |-> m, from |-> l.exec] : l \in a.inputs[m].locs} :
                              m \in Inputs[s]}
           task == [stage |-> s, attempt |-> a.attempt, exec |-> e, task |-> k,
                    reads |-> reads]
<1>1. /\ n \in 1 .. Len(a.pending) /\ a.state = "Running"
      /\ graph' = SetStage(g, s, b)
      /\ running' = running \/ running' = running \union {task}
      /\ UNCHANGED <<events, evicted, reports, cancels, exec, faults>>
  BY DEF Bind, WithWork, StagesIn
<1>2. IsGraph(graph) /\ Goes({}, graph, g) /\ IsGraph(g)
  <2>1. IsGraph(graph)
    BY DEF GraphInv, TypeOK
  <2> QED BY <2>1, FetchRunningStageGraph DEF Goes
<1> HIDE DEF g
<1>3. IsStage(s, a)
  BY <1>2, SMTT(30) DEF IsGraph
<1>4. /\ Keeps({}, s, a, b) /\ b.attempt = a.attempt
      /\ k \in DOMAIN b.tasks /\ b.tasks[k].exec = e
      /\ b.tasks[k].attempt = a.attempt /\ b.tasks[k].st = "running"
  <2> HIDE DEF a
  <2> QED BY <1>1, <1>3, BindSliceStage, SMTT(30)
<1> HIDE DEF b
<1>5. Stays({}, g, graph') /\ graph'.stages[s] = b
  BY <1>1, <1>2, <1>4, SetStageGraph, SMTT(30)
<1>6. Goes({}, graph, graph')
  BY <1>2, <1>5, StaysGoes, GoesTrans, SMTT(30)
<1>7. /\ a.attempt \in Nat /\ Len(a.tasks) \in Nat /\ k \in Nat \ {0}
      /\ DOMAIN a.tasks = 1 .. Len(a.tasks)
      /\ \A m \in Inputs[s] : a.inputs[m].locs \subseteq Locations
  <2>1. /\ a.attempt \in Nat /\ a.tasks \in Seq(TaskType(s))
        /\ \A m \in Inputs[s] : a.inputs[m].locs \subseteq Locations
    BY <1>3 DEF IsStage, StageType, TaskType
  <2> QED BY <2>1, SMTT(30)
<1>8. /\ task \in LaunchType
      /\ \A z \in reads : z.map \in Inputs[s]
  <2>1. Inputs[s] \subseteq Stages
    BY StageAssumption
  <2>2. reads \subseteq [map : Inputs[s], from : Executors]
    BY <1>7 DEF Locations
  <2> HIDE DEF reads
  <2> QED BY <1>7, <2>1, <2>2 DEF LaunchType
<1>9. task.stage = s /\ task.task = k /\ task.attempt = a.attempt /\ task.exec = e
      /\ task.reads = reads
  OBVIOUS
<1>10. /\ IsGraph(graph')
       /\ \A r \in running \union reports : Tracks(graph'.stages[r.stage], r)
       /\ \A u \in Stages : \A t \in DOMAIN graph'.stages[u].tasks :
            graph'.stages[u].tasks[t].st = "success" =>
               ~ \E r \in running : /\ r.stage = u /\ r.task = t
                                    /\ r.attempt = graph'.stages[u].tasks[t].attempt
  <2> DEFINE h == graph'
  <2>0. PICK none \in SUBSET reports : none = {}
    BY Zenon
  <2>1. Goes(none, graph, h)
    BY <1>6, <2>0, SMTT(30)
  <2> HIDE DEF h
  <2>2. /\ IsGraph(h)
        /\ \A r \in running \union reports : Tracks(h.stages[r.stage], r)
        /\ \A u \in Stages : \A t \in DOMAIN h.stages[u].tasks :
             h.stages[u].tasks[t].st = "success" =>
                ~ \E r \in running : /\ r.stage = u /\ r.task = t
                                     /\ r.attempt = h.stages[u].tasks[t].attempt
    BY <2>1, HandlerKeeps, Zenon
  <2> QED BY <2>2 DEF h
<1>11. \A r \in running \union reports :
          ~ (r.stage = s /\ r.task = k /\ r.attempt = a.attempt)
  <2>1. \A r \in running \union reports : Tracks(g.stages[r.stage], r)
    BY <1>2, HandlerKeeps
  <2>2. k \notin DOMAIN a.tasks
    <3> HIDE DEF a
    <3> QED BY <1>7
  <2> QED BY <2>1, <2>2 DEF Tracks
<1>12. Tracks(graph'.stages[s], task)
  <2>1. b.state = "Running"
    BY <1>1, <1>4, SMTT(30) DEF Keeps
  <2> HIDE DEF a, task
  <2> QED BY <1>4, <1>5, <1>7, <1>9, <2>1, SMTT(30) DEF Tracks
<1> HIDE DEF task, reads, a, k
<1>13. \A r \in (running \union reports)' : Tracks(graph'.stages[r.stage], r)
  BY <1>1, <1>9, <1>10, <1>12, SMTT(30)
<1>14. LaunchesDistinct'
  <2> SUFFICES ASSUME NEW y \in (running \union reports)', NEW z \in (running \union reports)',
                      y.stage = z.stage, y.task = z.task, y.attempt = z.attempt
               PROVE  y = z
    BY DEF LaunchesDistinct
  <2>1. /\ y \in running \union reports \/ y = task
        /\ z \in running \union reports \/ z = task
    BY <1>1
  <2>2. CASE y = task \/ z = task
    BY <1>9, <1>11, <2>1, <2>2, SMTT(30)
  <2>3. CASE y \in running \union reports /\ z \in running \union reports
    BY <2>3 DEF GraphInv, LaunchesDistinct
  <2> QED BY <2>1, <2>2, <2>3, SMTT(30)
<1>15. NoPhantomSuccess'
  <2> SUFFICES ASSUME NEW u \in Stages, NEW t \in DOMAIN graph'.stages[u].tasks,
                      graph'.stages[u].tasks[t].st = "success",
                      NEW r \in running', r.stage = u, r.task = t,
                      r.attempt = graph'.stages[u].tasks[t].attempt
               PROVE  FALSE
    BY DEF NoPhantomSuccess
  <2>1. r \in running \/ r = task
    BY <1>1, SMTT(30)
  <2>2. CASE r \in running
    BY <1>10, <2>2, SMTT(30)
  <2>3. CASE r = task
    BY <1>4, <1>5, <1>9, <2>3, SMTT(30)
  <2> QED BY <2>1, <2>2, <2>3, SMTT(30)
<1>16. TypeOK'
  <2>1. /\ TypeOK
        /\ running \subseteq LaunchType
        /\ \A r \in running : \A x \in r.reads : x.map \in Inputs[r.stage]
    BY DEF GraphInv, TypeOK
  <2>2. /\ running' \subseteq LaunchType
        /\ \A r \in running' : \A x \in r.reads : x.map \in Inputs[r.stage]
    BY <1>1, <1>8, <1>9, <2>1, SMTT(30)
  <2> QED BY <1>1, <1>10, <2>1, <2>2, SMTT(30) DEF TypeOK
<1> QED BY <1>6, <1>13, <1>14, <1>15, <1>16, SMTT(30) DEF GraphInv, Continues

\* One fault less.
LEMMA FaultStep ==
    ASSUME faults \in [FaultKinds -> Nat], NEW kind \in FaultKinds, Fault(kind)
    PROVE  faults' \in [FaultKinds -> Nat]
BY DEF Fault

\* A task ends.
LEMMA FinishTaskInv ==
    ASSUME GraphInv, NEW r \in running, NEW kind \in Reported \ {"killed"}, NEW read,
           FinishTask(r, kind, read)
    PROVE  GraphInv' /\ Continues
<1> DEFINE x == Status(r, kind, read.map, read.from)
<1>1. /\ running' = running \ {r} /\ reports' = reports \union {x}
      /\ UNCHANGED <<graph, events, evicted, cancels, exec>>
  BY DEF FinishTask
<1>2. /\ kind = "fetch" => read \in r.reads
      /\ kind # "fetch" => read = NoFetch
      /\ faults' = faults \/ \E k \in FaultKinds : Fault(k)
  <2>1. kind \in {"success", "fetch", "exec", "io"}
    BY DEF Reported
  <2> QED BY <2>1 DEF FinishTask, FaultKinds
<1>3. TypeOK /\ r \in LaunchType /\ \A z \in r.reads : z.map \in Inputs[r.stage]
  BY DEF GraphInv, TypeOK
<1>4. r.stage \in Stages /\ Inputs[r.stage] \subseteq Stages
  BY <1>3, StageAssumption DEF LaunchType
<1>5. x \in StatusType
  <2>1. CASE kind = "fetch"
    <3>1. read.map \in Inputs[r.stage] /\ read.from \in Executors
      BY <1>2, <1>3, <2>1, SMTT(30) DEF LaunchType
    <3> QED BY <1>3, <1>4, <2>1, <3>1, SMTT(30) DEF StatusType, Status, LaunchType, Reported
  <2>2. CASE kind # "fetch"
    <3>1. read.map = "none" /\ read.from = "none"
      BY <1>2, <2>2 DEF NoFetch
    <3> QED BY <1>3, <2>2, <3>1, SMTT(30) DEF StatusType, Status, LaunchType
  <2> QED BY <2>1, <2>2
<1>6. x.stage = r.stage /\ x.attempt = r.attempt /\ x.task = r.task /\ x.exec = r.exec
  BY DEF Status
<1> HIDE DEF x
<1>7. /\ running' \subseteq LaunchType
      /\ \A y \in running' : \A z \in y.reads : z.map \in Inputs[y.stage]
      /\ reports' \subseteq StatusType
      /\ \A y \in (running \union reports)' : Tracks(graph'.stages[y.stage], y)
      /\ LaunchesDistinct' /\ NoPhantomSuccess'
  BY <1>1, <1>5, <1>6, ReportStep, SMTT(30)
<1>8. faults' \in [FaultKinds -> Nat]
  BY <1>2, <1>3, FaultStep, SMTT(30) DEF TypeOK
<1>9. TypeOK'
  BY <1>1, <1>3, <1>7, <1>8, SMTT(30) DEF TypeOK
<1> QED BY <1>1, <1>7, <1>9, TypeFacts, SMTT(30) DEF GraphInv, Continues

\* A task is cancelled, or the call comes too late.
LEMMA CancelTaskInv ==
    ASSUME GraphInv, NEW c \in cancels, CancelTask(c)
    PROVE  GraphInv' /\ Continues
<1>1. /\ cancels' = cancels \ {c}
      /\ UNCHANGED <<graph, events, evicted, exec, faults>>
  BY DEF CancelTask
<1>2. TypeOK /\ running \subseteq LaunchType
  BY ZenonT(30) DEF GraphInv, TypeOK
<1>3. CASE UNCHANGED <<running, reports>>
  <2>1. TypeOK'
    BY <1>1, <1>2, <1>3, SMTT(30) DEF TypeOK
  <2> QED BY <1>1, <1>3, <2>1, TypeFacts, SMTT(30)
          DEF GraphInv, LaunchesDistinct, NoPhantomSuccess, Continues
<1>4. CASE \E r \in running :
              /\ running' = running \ {r}
              /\ reports' = reports \union {Status(r, "killed", "none", "none")}
  <2>1. PICK r \in running :
              /\ running' = running \ {r}
              /\ reports' = reports \union {Status(r, "killed", "none", "none")}
    BY <1>4
  <2> DEFINE x == Status(r, "killed", "none", "none")
  <2>2. x \in StatusType
    BY <1>2 DEF StatusType, Status, LaunchType, Reported
  <2>3. x.stage = r.stage /\ x.attempt = r.attempt /\ x.task = r.task /\ x.exec = r.exec
    BY DEF Status
  <2>4. reports' = reports \union {x}
    BY <2>1
  <2> HIDE DEF x
  <2>5. /\ running' \subseteq LaunchType
        /\ \A y \in running' : \A z \in y.reads : z.map \in Inputs[y.stage]
        /\ reports' \subseteq StatusType
        /\ \A y \in (running \union reports)' : Tracks(graph'.stages[y.stage], y)
        /\ LaunchesDistinct' /\ NoPhantomSuccess'
    BY <1>1, <2>1, <2>2, <2>3, <2>4, ReportStep, SMTT(30)
  <2>6. TypeOK'
    BY <1>1, <1>2, <2>5, SMTT(30) DEF TypeOK
  <2> QED BY <1>1, <2>5, <2>6, TypeFacts DEF GraphInv, Continues
<1> QED BY <1>3, <1>4 DEF CancelTask

\* The orders of a set are sequences over it.
LEMMA OrdersType ==
    ASSUME NEW S, NEW q \in Orders(S)
    PROVE  q \in Seq(S)
<1>1. PICK n \in 1 .. MaxBatch : q \in [1 .. n -> S]
  BY DEF Orders
<1>2. n \in Nat
  BY GraphAssumption
<1> QED BY <1>1, <1>2

\* A batch comes in groups of one stage each.
LEMMA BatchGroups ==
    ASSUME TypeOK, NEW groups \in Batches
    PROVE  \E batch \in SUBSET reports : batch # {} /\ groups \in Seq(GroupType(batch))
<1>1. PICK batch \in SUBSET reports : batch # {} /\ groups \in Groupings(batch)
  BY DEF Batches
<1> DEFINE stages == {r.stage : r \in batch}
           Of(s) == Orders({r \in batch : r.stage = s})
<1>2. batch \subseteq StatusType
  BY DEF TypeOK
<1>3. stages \in SUBSET Stages
  BY <1>2 DEF StatusType
<1> DEFINE LS == {f \in [stages -> UNION {Of(s) : s \in stages}] :
                     \A s \in stages : f[s] \in Of(s)}
           Grouped(order, lists) ==
               [i \in DOMAIN order |-> [stage |-> order[i], statuses |-> lists[order[i]]]]
<1>4. PICK order \in Orders(stages), lists \in LS : groups = Grouped(order, lists)
  <2>1. Groupings(batch) =
           UNION {{Grouped(order, lists) : lists \in LS} : order \in Orders(stages)}
    BY Zenon DEF Groupings
  <2> HIDE DEF LS, Grouped
  <2> QED BY <1>1, <2>1, Zenon
<1> HIDE DEF stages
<1>5. order \in Seq(stages)
  BY <1>4, OrdersType
<1>6. ASSUME NEW s \in stages
      PROVE  lists[s] \in Seq({r \in batch : r.stage = s})
  <2>1. lists[s] \in Orders({r \in batch : r.stage = s})
    BY <1>4, <1>6, SMTT(30)
  <2> QED BY <2>1, OrdersType
<1>7. ASSUME NEW s \in stages
      PROVE  [stage |-> s, statuses |-> lists[s]] \in GroupType(batch)
  <2>1. s \in Stages /\ lists[s] \in Seq({r \in batch : r.stage = s})
    BY <1>3, <1>6, <1>7, SMTT(30)
  <2>2. lists[s] \in Seq(batch) /\ \A i \in DOMAIN lists[s] : lists[s][i].stage = s
    BY <2>1
  <2> QED BY <2>1, <2>2 DEF GroupType
<1>8. groups \in Seq(GroupType(batch))
  <2>1. \A i \in DOMAIN order : order[i] \in stages
    BY <1>5
  <2>2. groups \in [DOMAIN order -> GroupType(batch)]
    BY <1>4, <1>7, <2>1, SMTT(30)
  <2> QED BY <1>5, <2>2, ReplacedSeq, SMTT(30)
<1> QED BY <1>1, <1>8

\* A batch of statuses is applied.
LEMMA UpdateStatusesInv ==
    ASSUME GraphInv, NEW groups \in Batches, UpdateStatuses(groups)
    PROVE  GraphInv' /\ Continues
<1> DEFINE h == Revive(graph)
           result == UpdateTaskStatus(graph, groups)
<1>1. TypeOK /\ IsGraph(graph) /\ reports \subseteq StatusType
  BY DEF GraphInv, TypeOK
<1>2. PICK batch \in SUBSET reports : batch # {} /\ groups \in Seq(GroupType(batch))
  BY <1>1, BatchGroups
<1>3. PICK s \in Stages : TRUE
  BY <1>1, <1>2 DEF StatusType
<1> DEFINE c == [g |-> h, done |-> batch, stage |-> s]
<1>4. Goes(batch, graph, h)
  BY <1>1, ReviveGraph, SMTT(30)
<1>5. ContextOK(c)
  <2> HIDE DEF h
  <2>1. IsGraph(h) /\ \A r \in running \union reports : Tracks(h.stages[r.stage], r)
    BY <1>4, HandlerKeeps, Zenon
  <2> QED BY <1>1, <2>1, SMTT(30) DEF ContextOK
<1>6. c.g = h /\ c.done = batch
  OBVIOUS
<1> HIDE DEF c
<1>7. /\ Goes(batch, h, result.g) /\ result.events \in Seq(EventType)
      /\ result.cancels \subseteq TaskKeyType
  BY <1>2, <1>5, <1>6, UpdateTaskStatusGraph DEF EventType
<1> HIDE DEF h, result
<1>8. /\ graph' = result.g /\ events' = events \o result.events
      /\ cancels' = cancels \union result.cancels /\ reports' \subseteq reports
      /\ UNCHANGED <<evicted, running, exec, faults>>
  BY DEF UpdateStatuses, Receive, result
<1>9. Goes(batch, graph, graph')
  BY <1>1, <1>4, <1>7, <1>8, GoesTrans, SMTT(30)
<1>10. /\ IsGraph(graph')
       /\ \A r \in (running \union reports)' : Tracks(graph'.stages[r.stage], r)
       /\ LaunchesDistinct' /\ NoPhantomSuccess'
       /\ running' \subseteq LaunchType
       /\ \A r \in running' : \A x \in r.reads : x.map \in Inputs[r.stage]
       /\ reports' \subseteq StatusType
  BY <1>8, <1>9, HandlerStep, SMTT(30)
<1>11. events' \in Seq(EventType) /\ cancels' \subseteq TaskKeyType
  BY <1>1, <1>7, <1>8, SMTT(30) DEF TypeOK, EventType
<1>12. TypeOK'
  BY <1>1, <1>8, <1>10, <1>11, SMTT(30) DEF TypeOK, EventType
<1> QED BY <1>9, <1>10, <1>12, SMTT(30) DEF GraphInv, Continues

\* The steps that change the graph without a report.
LEMMA QuietStep ==
    ASSUME GraphInv, Goes({}, graph, graph'), running' \subseteq running,
           reports' \subseteq reports, events' \in Seq(EventType), evicted' \in BOOLEAN,
           cancels' \subseteq TaskKeyType, exec' \in [Executors -> {"up", "crashed", "gone"}],
           faults' \in [FaultKinds -> Nat]
    PROVE  GraphInv' /\ Continues
<1>1. PICK none \in SUBSET reports : none = {}
  BY Zenon
<1>2. /\ IsGraph(graph')
      /\ \A r \in (running \union reports)' : Tracks(graph'.stages[r.stage], r)
      /\ LaunchesDistinct' /\ NoPhantomSuccess'
      /\ running' \subseteq LaunchType
      /\ \A r \in running' : \A x \in r.reads : x.map \in Inputs[r.stage]
      /\ reports' \subseteq StatusType
  BY <1>1, HandlerStep
<1>3. TypeOK'
  BY <1>2, Zenon DEF TypeOK, EventType
<1> QED BY <1>2, <1>3 DEF GraphInv, Continues

\* A status is refused.
LEMMA RefuseStatusInv ==
    ASSUME GraphInv, NEW r \in reports, RefuseStatus(r)
    PROVE  GraphInv' /\ Continues
<1>1. /\ reports' = reports \ {r}
      /\ UNCHANGED <<graph, events, evicted, running, cancels, exec, faults>>
  BY DEF RefuseStatus
<1> QED BY <1>1, TypeFacts, QuietStep, SMTT(30)

\* An executor crashes.
LEMMA CrashInv ==
    ASSUME GraphInv, NEW e \in Executors, Crash(e)
    PROVE  GraphInv' /\ Continues
<1>1. /\ running' \subseteq running
      /\ UNCHANGED <<graph, events, evicted, reports, cancels>>
  BY DEF Crash
<1>2. exec' \in [Executors -> {"up", "crashed", "gone"}]
  BY TypeFacts DEF Crash
<1>3. faults' \in [FaultKinds -> Nat]
  <2>1. PICK k \in FaultKinds : Fault(k)
    BY DEF Crash, FaultKinds
  <2> QED BY <2>1, TypeFacts, FaultStep, SMTT(30)
<1> QED BY <1>1, <1>2, <1>3, TypeFacts, QuietStep, SMTT(30)

\* An executor is lost.
LEMMA ExecutorLostInv ==
    ASSUME GraphInv, NEW e \in Executors, ExecutorLost(e)
    PROVE  GraphInv' /\ Continues
<1> DEFINE result == ResetStagesOnLostExecutor(graph, e)
<1>1. /\ graph' = result.g /\ cancels' = cancels \union result.cancels
      /\ UNCHANGED <<events, evicted, running>>
  BY DEF ExecutorLost
<1>2. /\ reports' \subseteq reports
      /\ exec' = exec \/ exec' = [exec EXCEPT ![e] = "gone"]
      /\ faults' = faults \/ \E k \in FaultKinds : Fault(k)
  BY DEF ExecutorLost, RemoveExecutor, FaultKinds
<1>3. Goes({}, graph, result.g) /\ result.cancels \subseteq TaskKeyType
  <2>1. Cardinality(Stages) \in Nat
    BY StageAssumption
  <2> QED BY <2>1, TypeFacts, ResetStagesOnLostExecutorGraph, SMTT(30)
<1> HIDE DEF result
<1>4. exec' \in [Executors -> {"up", "crashed", "gone"}]
  BY <1>2, TypeFacts
<1>5. faults' \in [FaultKinds -> Nat]
  BY <1>2, TypeFacts, FaultStep, SMTT(30)
<1>6. cancels' \subseteq TaskKeyType
  BY <1>1, <1>3, TypeFacts, SMTT(30)
<1> QED BY <1>1, <1>2, <1>3, <1>4, <1>5, <1>6, TypeFacts, QuietStep, SMTT(30)

\* No executor is left.
LEMMA NoExecutorsInv ==
    ASSUME GraphInv, NoExecutors
    PROVE  GraphInv' /\ Continues
<1>1. /\ events' = Append(events, "JobRunningFailed")
      /\ UNCHANGED <<graph, evicted, running, reports, cancels, exec, faults>>
  BY DEF NoExecutors
<1>2. events' \in Seq(EventType)
  BY <1>1, TypeFacts DEF EventType
<1> QED BY <1>1, <1>2, TypeFacts, QuietStep, SMTT(30)

\* The event loop takes an event.
LEMMA TakeEventType ==
    ASSUME GraphInv, TakeEvent
    PROVE  events' \in Seq(EventType)
<1>1. events \in Seq(EventType) /\ events # <<>> /\ events' = Tail(events)
  BY TypeFacts DEF TakeEvent
<1> QED BY <1>1

\* The job goes on or ends.
LEMMA JobEventInv ==
    ASSUME GraphInv, UpdateJob \/ SucceedJob \/ AbortJob
    PROVE  GraphInv' /\ Continues
<1>1. events' \in Seq(EventType)
  BY TakeEventType, SMTT(30) DEF UpdateJob, SucceedJob, AbortJob
<1>2. CASE UpdateJob
  <2>1. graph' = Revive(graph) /\ UNCHANGED <<evicted, running, reports, cancels, exec, faults>>
    BY <1>2 DEF UpdateJob
  <2>2. Goes({}, graph, graph')
    BY <2>1, TypeFacts, ReviveGraph, SMTT(30)
  <2> QED BY <1>1, <2>1, <2>2, TypeFacts, QuietStep, SMTT(30)
<1>3. CASE SucceedJob
  <2>1. evicted' = TRUE /\ UNCHANGED <<graph, running, reports, cancels, exec, faults>>
    BY <1>3 DEF SucceedJob
  <2>2. evicted' \in BOOLEAN
    BY <2>1, ZenonT(30)
  <2> QED BY <1>1, <2>1, <2>2, TypeFacts, QuietStep, SMTT(30)
<1>4. CASE AbortJob
  <2>1. /\ evicted' = TRUE /\ graph' = AbortRunning(graph).g
        /\ cancels' = cancels \union AbortRunning(graph).cancels
        /\ UNCHANGED <<running, reports, exec, faults>>
    BY <1>4 DEF AbortJob
  <2>2. evicted' \in BOOLEAN
    BY <2>1, ZenonT(30)
  <2>3. Goes({}, graph, graph') /\ cancels' \subseteq TaskKeyType
    BY <2>1, TypeFacts, AbortRunningGraph, SMTT(30)
  <2> QED BY <1>1, <2>1, <2>2, <2>3, TypeFacts, QuietStep, SMTT(30)
<1> QED BY <1>2, <1>3, <1>4, SMTT(30)

\* A step that changes nothing.
LEMMA StutterInv ==
    ASSUME GraphInv, UNCHANGED vars
    PROVE  GraphInv' /\ Continues
<1>1. UNCHANGED <<graph, events, evicted, running, reports, cancels, exec, faults>>
  BY DEF vars
<1> QED BY <1>1, TypeFacts, QuietStep, SMTT(30)

\* Every step keeps GraphInv and goes on with the graph.
LEMMA NextGraphInv == GraphInv /\ [Next]_vars => GraphInv' /\ Continues
<1> SUFFICES ASSUME GraphInv, [Next]_vars PROVE GraphInv' /\ Continues
  OBVIOUS
<1>1. CASE \E s \in Stages, e \in Executors, n \in 1 .. MaxSlice : Bind(s, e, n)
  BY <1>1, BindInv, SMTT(30)
<1>2. CASE \E r \in running, kind \in Reported \ {"killed"},
              read \in UNION {x.reads : x \in running} \union {NoFetch} :
              FinishTask(r, kind, read)
  BY <1>2, FinishTaskInv
<1>3. CASE \E c \in cancels : CancelTask(c)
  BY <1>3, CancelTaskInv
<1>4. CASE \E groups \in Batches : UpdateStatuses(groups)
  BY <1>4, UpdateStatusesInv, SMTT(30)
<1>5. CASE \E r \in reports : RefuseStatus(r)
  BY <1>5, RefuseStatusInv
<1>6. CASE \E e \in Executors : Crash(e) \/ ExecutorLost(e)
  BY <1>6, CrashInv, ExecutorLostInv, SMTT(30)
<1>7. CASE NoExecutors
  BY <1>7, NoExecutorsInv, SMTT(30)
<1>8. CASE UpdateJob \/ SucceedJob \/ AbortJob
  BY <1>8, JobEventInv
<1>9. CASE Ended \/ UNCHANGED vars
  BY <1>9, StutterInv DEF Ended
<1> QED BY <1>1, <1>2, <1>3, <1>4, <1>5, <1>6, <1>7, <1>8, <1>9, SMTT(30) DEF Next

-----------------------------------------------------------------------------
(* The theorems. *)

\* The graph, the reports and the tasks on the executors stay in GraphInv.
THEOREM GraphInvariant == Spec => []GraphInv
<1>1. Init => GraphInv
  BY InitGraphInv
<1>2. GraphInv /\ [Next]_vars => GraphInv'
  BY NextGraphInv
<1> QED BY <1>1, <1>2, PTL DEF Spec

\* Every variable keeps its shape.
THEOREM GraphTypes == Spec => []TypeOK
<1>1. GraphInv => TypeOK
  BY SMTT(30) DEF GraphInv
<1> QED BY <1>1, GraphInvariant, PTL

\* bind_one and the stage attempt numbers keep the launches of a job apart.
THEOREM LaunchesStayDistinct == Spec => []LaunchesDistinct
<1>1. GraphInv => LaunchesDistinct
  BY SMTT(30) DEF GraphInv
<1> QED BY <1>1, GraphInvariant, PTL

\* update_task_status takes a status for the task it reports on only.
THEOREM NoSuccessIsPhantom == Spec => []NoPhantomSuccess
<1>1. GraphInv => NoPhantomSuccess
  BY DEF GraphInv
<1> QED BY <1>1, GraphInvariant, PTL

\* No handler takes a stage back without a new attempt number.
THEOREM AttemptsOnRestart == Spec => NewAttemptOnRestart
<1> DEFINE Kept(s) ==
        LET old == graph.stages[s]
            new == graph'.stages[s]
        IN  /\ new.attempt >= old.attempt
            /\ (\/ old.state = "Running" /\ new.state = "UnResolved"
                \/ old.state = "Successful" /\ new.state # "Successful")
                 => new.attempt > old.attempt
<1>1. GraphInv /\ [Next]_vars => \A s \in Stages : Kept(s)
  <2> SUFFICES ASSUME GraphInv, [Next]_vars, NEW s \in Stages PROVE Kept(s)
    OBVIOUS
  <2>1. PICK done : Goes(done, graph, graph')
    BY NextGraphInv DEF Continues
  <2> DEFINE a == graph.stages[s]
             b == graph'.stages[s]
  <2>2. IsGraph(graph) /\ Moves(done, s, a, b)
    BY <2>1, TypeFacts, SMTT(30) DEF Goes
  <2> HIDE DEF b
  <2>3. IsStage(s, a) /\ IsStage(s, b) /\ Follows(done, s, a, b)
    BY <2>2, SMTT(30) DEF Moves, IsGraph
  <2> USE DEF b
  <2>4. a.attempt \in Nat /\ b.attempt \in Nat
    BY <2>3, Zenon DEF IsStage, StageType
  <2> QED BY <2>3, <2>4, SMTT(30) DEF Follows, Unstarted
<1>2. GraphInv /\ [Next]_vars => [\A s \in Stages : Kept(s)]_vars
  BY <1>1
<1> QED BY <1>2, GraphInvariant, PTL DEF Spec, NewAttemptOnRestart
=============================================================================
