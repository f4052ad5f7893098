----------------------- MODULE ExecutorRegistryProofs -----------------------
(***************************************************************************)
(* Proofs about ExecutorRegistry for any number of executors, concurrent   *)
(* RPCs and concurrent removals, and any number of faults.                 *)
(***************************************************************************)
EXTENDS ExecutorRegistry, TLAPS

\* What a bind round in progress relies on: an executor it saw alive whose
\* heartbeat is gone by now has its loss announced.
OffersAnnounced ==
    binding => \A e \in alive_executors :
       heartbeats[e].status = "absent" => Announced(e)

\* Under push scheduling no executor polls, so tasks are bound by the event
\* loop alone.
PushHasNoPolls ==
    /\ push => \A h \in Handlers : rpc[h].kind # "poll" /\ rpc[h].pc # "offer"
    /\ binding => push

IInv == 
    /\ TypeOK
    /\ PushHasNoPolls
    /\ RegisteredHasVcores
    /\ LossAnnounced
    /\ OffersAnnounced

\* Every step keeps the types.
LEMMA TypeInductive ==
    TypeOK /\ [Next]_vars => TypeOK'
<1> SUFFICES ASSUME TypeOK, [Next]_vars
             PROVE  TypeOK'
  OBVIOUS
<1>1. ASSUME NEW h \in Handlers, RegisterMetadata(h)
      PROVE  TypeOK'
  <2>1. /\ rpc' \in [Handlers -> RpcType]
        /\ rpc[h].exec \in Executors
    <3>1. rpc[h] \in RpcType /\ rpc[h].pc = "register"
      BY <1>1, SMTT(60) DEF TypeOK, RegisterMetadata, At
    <3>2. /\ rpc[h] \in [pc : RpcSteps, exec : Executors,
                         kind : {"register", "heartbeat", "poll"},
                         status : {"Active", "Terminating", "none"}]
      BY <3>1, SMTT(60) DEF RpcType, IdleRpc
    <3>3. CASE rpc[h].exec \in executors
      BY <1>1, <3>2, <3>3, SMTT(60)
         DEF TypeOK, RegisterMetadata, Return, RpcType
    <3>4. CASE rpc[h].exec \notin executors
      <4>1. [rpc[h] EXCEPT !.pc = "saveHeartbeat"] \in RpcType
        BY <3>2, SMTT(60) DEF RpcType, RpcSteps
      <4>2. rpc' = [rpc EXCEPT ![h] = [rpc[h] EXCEPT !.pc = "saveHeartbeat"]]
        BY <1>1, <3>4, SMTT(60) DEF TypeOK, RegisterMetadata, Goto
      <4>3. QED
        BY <3>2, <4>1, <4>2, SMTT(60) DEF TypeOK
    <3>5. QED
      BY <3>3, <3>4
  <2>2. process' \in [Executors -> {"starting", "registering", "up",
                                    "terminating", "down"}]
    <3>1. \/ process' = process
          \/ process' = [process EXCEPT ![rpc[h].exec] = "down"]
      BY <1>1, Zenon DEF RegisterMetadata, Registered
    <3>2. QED
      BY <3>1, <2>1, SMTT(60) DEF TypeOK
  <2>3. executors' \subseteq Executors
    <3>1. executors' = executors \/ executors' = executors \union {rpc[h].exec}
      BY <1>1, Zenon DEF RegisterMetadata
    <3>2. QED
      BY <3>1, <2>1, SMTT(60) DEF TypeOK
  <2>4. UNCHANGED <<push, available_vcores, heartbeats, removal, scheduler,
                    faults>>
    BY <1>1, Zenon DEF RegisterMetadata
  <2>5. QED
    BY <2>1, <2>2, <2>3, <2>4, SMTT(60) DEF TypeOK, scheduler
<1>2. ASSUME NEW h \in Handlers, SaveRegistrationHeartbeat(h)
      PROVE  TypeOK'
  BY <1>2, SMTT(60)
     DEF TypeOK, SaveRegistrationHeartbeat, At, Goto, Return, Registered,
         Heartbeat, registry, scheduler, RpcType, RemovalType, IdleRpc,
         IdleRemoval, RpcSteps, RemovalSteps, HeartbeatType
<1>3. ASSUME NEW h \in Handlers, InsertVcores(h)
      PROVE  TypeOK'
  BY <1>3, SMTT(60)
     DEF TypeOK, InsertVcores, At, Goto, Return, Registered, Heartbeat,
         registry, scheduler, RpcType, RemovalType, IdleRpc, IdleRemoval,
         RpcSteps, RemovalSteps, HeartbeatType
<1>4. ASSUME NEW h \in Handlers, SaveHeartbeat(h)
      PROVE  TypeOK'
  BY <1>4, SMTT(60)
     DEF TypeOK, SaveHeartbeat, At, Goto, Return, Registered, Heartbeat,
         registry, scheduler, RpcType, RemovalType, IdleRpc, IdleRemoval,
         RpcSteps, RemovalSteps, HeartbeatType
<1>5. ASSUME NEW h \in Handlers, OfferToPoller(h)
      PROVE  TypeOK'
  BY <1>5, SMTT(60)
     DEF TypeOK, OfferToPoller, At, Goto, Return, Registered, Heartbeat,
         registry, scheduler, RpcType, RemovalType, IdleRpc, IdleRemoval,
         RpcSteps, RemovalSteps, HeartbeatType
<1>6. ASSUME NEW h \in Handlers, NEW e \in Executors, CallHeartbeat(h, e)
      PROVE  TypeOK'
  BY <1>6, SMTT(60)
     DEF TypeOK, CallHeartbeat, Call, At, StatusOf, registry, scheduler,
         RpcType, RemovalType, IdleRpc, IdleRemoval, RpcSteps, RemovalSteps,
         HeartbeatType
<1>7. ASSUME NEW h \in Handlers, NEW e \in Executors, CallRegister(h, e)
      PROVE  TypeOK'
  BY <1>7, SMTT(60)
     DEF TypeOK, CallRegister, Call, At, StatusOf, registry, scheduler,
         RpcType, RemovalType, IdleRpc, IdleRemoval, RpcSteps, RemovalSteps,
         HeartbeatType
<1>8. ASSUME NEW h \in Handlers, NEW e \in Executors, CallPollWork(h, e)
      PROVE  TypeOK'
  BY <1>8, SMTT(60)
     DEF TypeOK, CallPollWork, Call, At, StatusOf, registry, scheduler,
         RpcType, RemovalType, IdleRpc, IdleRemoval, RpcSteps, RemovalSteps,
         HeartbeatType
<1>9. ASSUME NEW r \in Removers, DropVcores(r)
      PROVE  TypeOK'
  BY <1>9, SMTT(60)
     DEF TypeOK, DropVcores, Removing, NoHeartbeat, registry, scheduler,
         RpcType, RemovalType, IdleRpc, IdleRemoval, RpcSteps, RemovalSteps,
         HeartbeatType
<1>10. ASSUME NEW r \in Removers, DropExecutor(r)
      PROVE  TypeOK'
  BY <1>10, SMTT(60)
     DEF TypeOK, DropExecutor, Removing, NoHeartbeat, registry, scheduler,
         RpcType, RemovalType, IdleRpc, IdleRemoval, RpcSteps, RemovalSteps,
         HeartbeatType
<1>11. ASSUME NEW r \in Removers, DropHeartbeat(r)
      PROVE  TypeOK'
  BY <1>11, SMTT(60)
     DEF TypeOK, DropHeartbeat, Removing, NoHeartbeat, registry, scheduler,
         RpcType, RemovalType, IdleRpc, IdleRemoval, RpcSteps, RemovalSteps,
         HeartbeatType
<1>12. ASSUME NEW r \in Removers, PostExecutorLost(r)
      PROVE  TypeOK'
  BY <1>12, SMTT(60)
     DEF TypeOK, PostExecutorLost, Removing, NoHeartbeat, registry,
         scheduler, RpcType, RemovalType, IdleRpc, IdleRemoval, RpcSteps,
         RemovalSteps, HeartbeatType
<1>13. ASSUME NEW r \in Removers, NEW e \in Executors, ExecutorStopped(r, e)
      PROVE  TypeOK'
  BY <1>13, RegistryAssumption, SMTT(60)
     DEF TypeOK, ExecutorStopped, StartRemoval, Removing, Fault, registry,
         scheduler, RpcType, RemovalType, IdleRpc, IdleRemoval, RpcSteps,
         RemovalSteps, HeartbeatType
<1>14. ASSUME NEW r \in Removers, NEW e \in Executors, ExpireExecutor(r, e)
      PROVE  TypeOK'
  BY <1>14, RegistryAssumption, SMTT(60)
     DEF TypeOK, ExpireExecutor, StartRemoval, Removing, Fault, registry,
         scheduler, RpcType, RemovalType, IdleRpc, IdleRemoval, RpcSteps,
         RemovalSteps, HeartbeatType
<1>15. ASSUME NEW r \in Removers, NEW e \in Executors, LaunchFailed(r, e)
      PROVE  TypeOK'
  BY <1>15, RegistryAssumption, SMTT(60)
     DEF TypeOK, LaunchFailed, StartRemoval, Removing, Fault, registry,
         scheduler, RpcType, RemovalType, IdleRpc, IdleRemoval, RpcSteps,
         RemovalSteps, HeartbeatType
<1>16. ASSUME NEW e \in Executors, ExecutorLost(e)
      PROVE  TypeOK'
  <2>1. /\ timer' \in {"idle", "sleeping", "checked"}
        /\ no_executor_check_pending' \in BOOLEAN
        /\ before_loss' \in BOOLEAN
    BY <1>16, Zenon DEF TypeOK, ExecutorLost
  <2>2. QED
    BY <2>1, <1>16, SMTT(60) DEF TypeOK, ExecutorLost, registry
<1>17. ASSUME NEW e \in Executors, Terminate(e)
      PROVE  TypeOK'
  BY <1>17, RegistryAssumption, SMTT(60)
     DEF TypeOK, Terminate, Fault, registry, scheduler
<1>18. ASSUME NEW e \in Executors, Drained(e)
      PROVE  TypeOK'
  BY <1>18, RegistryAssumption, SMTT(60)
     DEF TypeOK, Drained, Fault, registry, scheduler
<1>19. ASSUME NEW e \in Executors, Crash(e)
      PROVE  TypeOK'
  BY <1>19, RegistryAssumption, SMTT(60)
     DEF TypeOK, Crash, Fault, registry, scheduler
<1>20. ASSUME NEW e \in Executors, Restart(e)
      PROVE  TypeOK'
  BY <1>20, RegistryAssumption, SMTT(60)
     DEF TypeOK, Restart, Fault, registry, scheduler
<1>21. ASSUME NEW e \in Executors, Age(e)
      PROVE  TypeOK'
  BY <1>21, RegistryAssumption, SMTT(60)
     DEF TypeOK, Age, Fault, registry, scheduler, HeartbeatType
<1>22. CASE StartJob
  BY <1>22, RegistryAssumption, SMTT(60)
     DEF TypeOK, StartJob, Fault, registry, scheduler
<1>23. CASE ReviveOffers
  BY <1>23, RegistryAssumption, SMTT(60)
     DEF TypeOK, ReviveOffers, Fault, registry, scheduler
<1>24. CASE BindTasks
  <2>1. binding' \in BOOLEAN
    BY <1>24, Zenon DEF BindTasks
  <2>2. QED
    BY <2>1, <1>24, SMTT(60) DEF TypeOK, BindTasks, registry
<1>25. CASE CheckEmptyCluster
  BY <1>25, RegistryAssumption, SMTT(60)
     DEF TypeOK, CheckEmptyCluster, Fault, registry, scheduler
<1>26. CASE ClearPending
  <2>1. no_executor_check_pending' \in BOOLEAN /\ before_loss' \in BOOLEAN
    BY <1>26, Zenon DEF ClearPending
  <2>2. QED
    BY <2>1, <1>26, SMTT(60) DEF TypeOK, ClearPending, registry
<1>27. CASE UNCHANGED vars
  BY <1>27, SMTT(60) DEF TypeOK, vars, registry, scheduler
<1>q. QED
  BY <1>1, <1>2, <1>3, <1>4, <1>5, <1>6, <1>7, <1>8, <1>9, <1>10, <1>11,
      <1>12, <1>13, <1>14, <1>15, <1>16, <1>17, <1>18, <1>19, <1>20, <1>21,
      <1>22, <1>23, <1>24, <1>25, <1>26, <1>27
     DEF Next, RpcStep, RemovalStep, StartRpc, StartRemove

\* Only poll_work puts a handler where it binds tasks, and only without push
\* scheduling.
LEMMA PushHasNoPollsInductive ==
    TypeOK /\ PushHasNoPolls /\ [Next]_vars => PushHasNoPolls'
<1> SUFFICES ASSUME TypeOK, PushHasNoPolls, [Next]_vars
             PROVE  PushHasNoPolls'
  OBVIOUS
<1>1. ASSUME NEW h \in Handlers, RegisterMetadata(h)
      PROVE  PushHasNoPolls'
  <2>1. CASE rpc[h].exec \in executors
    BY <1>1, <2>1, SMTT(60)
       DEF TypeOK, PushHasNoPolls, RegisterMetadata, Return, IdleRpc,
           scheduler
  <2>2. CASE rpc[h].exec \notin executors
    BY <1>1, <2>2, SMTT(60)
       DEF TypeOK, PushHasNoPolls, RegisterMetadata, Goto, RpcType, IdleRpc,
           scheduler
  <2>3. QED
    BY <2>1, <2>2
<1>2. ASSUME NEW h \in Handlers, SaveRegistrationHeartbeat(h)
      PROVE  PushHasNoPolls'
  BY <1>2, SMTT(60)
     DEF TypeOK, PushHasNoPolls, SaveRegistrationHeartbeat, At, Goto, Return,
         IdleRpc, scheduler, registry
<1>3. ASSUME NEW h \in Handlers, InsertVcores(h)
      PROVE  PushHasNoPolls'
  <2>1. CASE rpc[h].kind = "heartbeat"
    BY <1>3, <2>1, SMTT(60)
       DEF TypeOK, PushHasNoPolls, InsertVcores, Goto, RpcType, IdleRpc,
           scheduler
  <2>2. CASE rpc[h].kind # "heartbeat"
    BY <1>3, <2>2, SMTT(60)
       DEF TypeOK, PushHasNoPolls, InsertVcores, Return, IdleRpc, scheduler
  <2>3. QED
    BY <2>1, <2>2
<1>4. ASSUME NEW h \in Handlers, SaveHeartbeat(h)
      PROVE  PushHasNoPolls'
  BY <1>4, SMTT(60)
     DEF TypeOK, PushHasNoPolls, SaveHeartbeat, At, Goto, Return, IdleRpc,
         scheduler, registry
<1>5. ASSUME NEW h \in Handlers, OfferToPoller(h)
      PROVE  PushHasNoPolls'
  BY <1>5, SMTT(60)
     DEF TypeOK, PushHasNoPolls, OfferToPoller, At, Goto, Return, IdleRpc,
         scheduler, registry
<1>6. ASSUME NEW h \in Handlers, NEW e \in Executors, CallHeartbeat(h, e)
      PROVE  PushHasNoPolls'
  BY <1>6, SMTT(60)
     DEF TypeOK, PushHasNoPolls, CallHeartbeat, Call, At, scheduler, registry
<1>7. ASSUME NEW h \in Handlers, NEW e \in Executors, CallRegister(h, e)
      PROVE  PushHasNoPolls'
  BY <1>7, SMTT(60)
     DEF TypeOK, PushHasNoPolls, CallRegister, Call, At, scheduler, registry
<1>8. ASSUME NEW h \in Handlers, NEW e \in Executors, CallPollWork(h, e)
      PROVE  PushHasNoPolls'
  BY <1>8, SMTT(60)
     DEF TypeOK, PushHasNoPolls, CallPollWork, Call, At, scheduler, registry
<1>9. ASSUME NEW r \in Removers, DropVcores(r)
      PROVE  PushHasNoPolls'
  BY <1>9, SMTT(60) DEF PushHasNoPolls, DropVcores, registry, scheduler
<1>10. ASSUME NEW r \in Removers, DropExecutor(r)
      PROVE  PushHasNoPolls'
  BY <1>10, SMTT(60) DEF PushHasNoPolls, DropExecutor, registry, scheduler
<1>11. ASSUME NEW r \in Removers, DropHeartbeat(r)
      PROVE  PushHasNoPolls'
  BY <1>11, SMTT(60) DEF PushHasNoPolls, DropHeartbeat, registry, scheduler
<1>12. ASSUME NEW r \in Removers, PostExecutorLost(r)
      PROVE  PushHasNoPolls'
  BY <1>12, SMTT(60) DEF PushHasNoPolls, PostExecutorLost, registry, scheduler
<1>13. ASSUME NEW r \in Removers, NEW e \in Executors, ExecutorStopped(r, e)
      PROVE  PushHasNoPolls'
  BY <1>13, SMTT(60) DEF PushHasNoPolls, ExecutorStopped, registry, scheduler
<1>14. ASSUME NEW r \in Removers, NEW e \in Executors, ExpireExecutor(r, e)
      PROVE  PushHasNoPolls'
  BY <1>14, SMTT(60) DEF PushHasNoPolls, ExpireExecutor, registry, scheduler
<1>15. ASSUME NEW r \in Removers, NEW e \in Executors, LaunchFailed(r, e)
      PROVE  PushHasNoPolls'
  BY <1>15, SMTT(60) DEF PushHasNoPolls, LaunchFailed, registry, scheduler
<1>16. ASSUME NEW e \in Executors, ExecutorLost(e)
      PROVE  PushHasNoPolls'
  BY <1>16, SMTT(60) DEF PushHasNoPolls, ExecutorLost, registry, scheduler
<1>17. ASSUME NEW e \in Executors, Terminate(e)
      PROVE  PushHasNoPolls'
  BY <1>17, SMTT(60) DEF PushHasNoPolls, Terminate, registry, scheduler
<1>18. ASSUME NEW e \in Executors, Drained(e)
      PROVE  PushHasNoPolls'
  BY <1>18, SMTT(60) DEF PushHasNoPolls, Drained, registry, scheduler
<1>19. ASSUME NEW e \in Executors, Crash(e)
      PROVE  PushHasNoPolls'
  BY <1>19, SMTT(60) DEF PushHasNoPolls, Crash, registry, scheduler
<1>20. ASSUME NEW e \in Executors, Restart(e)
      PROVE  PushHasNoPolls'
  BY <1>20, SMTT(60) DEF PushHasNoPolls, Restart, registry, scheduler
<1>21. ASSUME NEW e \in Executors, Age(e)
      PROVE  PushHasNoPolls'
  BY <1>21, SMTT(60) DEF PushHasNoPolls, Age, registry, scheduler
<1>22. CASE StartJob
  BY <1>22, SMTT(60) DEF PushHasNoPolls, StartJob, registry, scheduler
<1>23. CASE ReviveOffers
  BY <1>23, SMTT(60) DEF PushHasNoPolls, ReviveOffers, registry, scheduler
<1>24. CASE BindTasks
  BY <1>24, SMTT(60) DEF PushHasNoPolls, BindTasks, registry, scheduler
<1>25. CASE CheckEmptyCluster
  BY <1>25, SMTT(60)
     DEF PushHasNoPolls, CheckEmptyCluster, registry, scheduler
<1>26. CASE ClearPending
  BY <1>26, SMTT(60) DEF PushHasNoPolls, ClearPending, registry, scheduler
<1>27. CASE UNCHANGED vars
  BY <1>27, SMTT(60) DEF PushHasNoPolls, vars, registry, scheduler
<1>q. QED
  BY <1>1, <1>2, <1>3, <1>4, <1>5, <1>6, <1>7, <1>8, <1>9, <1>10, <1>11,
      <1>12, <1>13, <1>14, <1>15, <1>16, <1>17, <1>18, <1>19, <1>20, <1>21,
      <1>22, <1>23, <1>24, <1>25, <1>26, <1>27
     DEF Next, RpcStep, RemovalStep, StartRpc, StartRemove

\* A registration keeps its handler until the budget is there, a removal takes
\* the budget first and is then on its way to the metadata.
LEMMA RegisteredInductive ==
    TypeOK /\ RegisteredHasVcores /\ [Next]_vars => RegisteredHasVcores'
<1> SUFFICES ASSUME TypeOK, RegisteredHasVcores, [Next]_vars
             PROVE  RegisteredHasVcores'
  OBVIOUS
<1>1. ASSUME NEW h \in Handlers, RegisterMetadata(h)
      PROVE  RegisteredHasVcores'
  <2>1. CASE rpc[h].exec \in executors
    BY <1>1, <2>1, SMTT(60)
       DEF TypeOK, RegisteredHasVcores, Registering, BeingRemoved,
           RegisterMetadata, At, Return
  <2>2. CASE rpc[h].exec \notin executors
    BY <1>1, <2>2, SMTT(60)
       DEF TypeOK, RegisteredHasVcores, Registering, BeingRemoved,
           RegisterMetadata, At, Goto, RpcType, IdleRpc
  <2>3. QED
    BY <2>1, <2>2
<1>2. ASSUME NEW h \in Handlers, SaveRegistrationHeartbeat(h)
      PROVE  RegisteredHasVcores'
  BY <1>2, SMTT(60)
     DEF TypeOK, RegisteredHasVcores, Registering, BeingRemoved,
         SaveRegistrationHeartbeat, At, Goto, Return, IdleRpc, registry
<1>3. ASSUME NEW h \in Handlers, InsertVcores(h)
      PROVE  RegisteredHasVcores'
  BY <1>3, SMTT(60)
     DEF TypeOK, RegisteredHasVcores, Registering, BeingRemoved,
         InsertVcores, At, Goto, Return, IdleRpc, registry
<1>4. ASSUME NEW h \in Handlers, SaveHeartbeat(h)
      PROVE  RegisteredHasVcores'
  BY <1>4, SMTT(60)
     DEF TypeOK, RegisteredHasVcores, Registering, BeingRemoved,
         SaveHeartbeat, At, Goto, Return, IdleRpc, registry
<1>5. ASSUME NEW h \in Handlers, OfferToPoller(h)
      PROVE  RegisteredHasVcores'
  BY <1>5, SMTT(60)
     DEF TypeOK, RegisteredHasVcores, Registering, BeingRemoved,
         OfferToPoller, At, Goto, Return, IdleRpc, registry
<1>6. ASSUME NEW h \in Handlers, NEW e \in Executors, CallHeartbeat(h, e)
      PROVE  RegisteredHasVcores'
  BY <1>6, SMTT(60)
     DEF TypeOK, RegisteredHasVcores, Registering, BeingRemoved,
         CallHeartbeat, Call, At, registry
<1>7. ASSUME NEW h \in Handlers, NEW e \in Executors, CallRegister(h, e)
      PROVE  RegisteredHasVcores'
  BY <1>7, SMTT(60)
     DEF TypeOK, RegisteredHasVcores, Registering, BeingRemoved,
         CallRegister, Call, At, registry
<1>8. ASSUME NEW h \in Handlers, NEW e \in Executors, CallPollWork(h, e)
      PROVE  RegisteredHasVcores'
  BY <1>8, SMTT(60)
     DEF TypeOK, RegisteredHasVcores, Registering, BeingRemoved,
         CallPollWork, Call, At, registry
<1>9. ASSUME NEW r \in Removers, DropVcores(r)
      PROVE  RegisteredHasVcores'
  BY <1>9, SMTT(60)
     DEF TypeOK, RegisteredHasVcores, Registering, BeingRemoved, DropVcores,
         Removing, IdleRemoval, registry
<1>10. ASSUME NEW r \in Removers, DropExecutor(r)
      PROVE  RegisteredHasVcores'
  BY <1>10, SMTT(60)
     DEF TypeOK, RegisteredHasVcores, Registering, BeingRemoved,
         DropExecutor, Removing, IdleRemoval, registry
<1>11. ASSUME NEW r \in Removers, DropHeartbeat(r)
      PROVE  RegisteredHasVcores'
  BY <1>11, SMTT(60)
     DEF TypeOK, RegisteredHasVcores, Registering, BeingRemoved,
         DropHeartbeat, Removing, IdleRemoval, registry
<1>12. ASSUME NEW r \in Removers, PostExecutorLost(r)
      PROVE  RegisteredHasVcores'
  BY <1>12, SMTT(60)
     DEF TypeOK, RegisteredHasVcores, Registering, BeingRemoved,
         PostExecutorLost, Removing, IdleRemoval, registry
<1>13. ASSUME NEW r \in Removers, NEW e \in Executors, ExecutorStopped(r, e)
      PROVE  RegisteredHasVcores'
  BY <1>13, SMTT(60)
     DEF TypeOK, RegisteredHasVcores, Registering, BeingRemoved,
         ExecutorStopped, StartRemoval, Removing, registry
<1>14. ASSUME NEW r \in Removers, NEW e \in Executors, ExpireExecutor(r, e)
      PROVE  RegisteredHasVcores'
  BY <1>14, SMTT(60)
     DEF TypeOK, RegisteredHasVcores, Registering, BeingRemoved,
         ExpireExecutor, StartRemoval, Removing, registry
<1>15. ASSUME NEW r \in Removers, NEW e \in Executors, LaunchFailed(r, e)
      PROVE  RegisteredHasVcores'
  BY <1>15, SMTT(60)
     DEF TypeOK, RegisteredHasVcores, Registering, BeingRemoved,
         LaunchFailed, StartRemoval, Removing, registry
<1>16. ASSUME NEW e \in Executors, ExecutorLost(e)
      PROVE  RegisteredHasVcores'
  BY <1>16, SMTT(60)
     DEF RegisteredHasVcores, Registering, BeingRemoved, ExecutorLost,
         registry
<1>17. ASSUME NEW e \in Executors, Terminate(e)
      PROVE  RegisteredHasVcores'
  BY <1>17, SMTT(60)
     DEF RegisteredHasVcores, Registering, BeingRemoved, Terminate, registry
<1>18. ASSUME NEW e \in Executors, Drained(e)
      PROVE  RegisteredHasVcores'
  BY <1>18, SMTT(60)
     DEF RegisteredHasVcores, Registering, BeingRemoved, Drained, registry
<1>19. ASSUME NEW e \in Executors, Crash(e)
      PROVE  RegisteredHasVcores'
  BY <1>19, SMTT(60)
     DEF RegisteredHasVcores, Registering, BeingRemoved, Crash, registry
<1>20. ASSUME NEW e \in Executors, Restart(e)
      PROVE  RegisteredHasVcores'
  BY <1>20, SMTT(60)
     DEF RegisteredHasVcores, Registering, BeingRemoved, Restart, registry
<1>21. ASSUME NEW e \in Executors, Age(e)
      PROVE  RegisteredHasVcores'
  BY <1>21, SMTT(60)
     DEF RegisteredHasVcores, Registering, BeingRemoved, Age, registry
<1>22. CASE StartJob
  BY <1>22, SMTT(60)
     DEF RegisteredHasVcores, Registering, BeingRemoved, StartJob, registry
<1>23. CASE ReviveOffers
  BY <1>23, SMTT(60)
     DEF RegisteredHasVcores, Registering, BeingRemoved, ReviveOffers,
         registry
<1>24. CASE BindTasks
  BY <1>24, SMTT(60)
     DEF RegisteredHasVcores, Registering, BeingRemoved, BindTasks, registry
<1>25. CASE CheckEmptyCluster
  BY <1>25, SMTT(60)
     DEF RegisteredHasVcores, Registering, BeingRemoved, CheckEmptyCluster,
         registry
<1>26. CASE ClearPending
  BY <1>26, SMTT(60)
     DEF RegisteredHasVcores, Registering, BeingRemoved, ClearPending,
         registry
<1>27. CASE UNCHANGED vars
  BY <1>27, SMTT(60)
     DEF RegisteredHasVcores, Registering, BeingRemoved, vars, registry
<1>q. QED
  BY <1>1, <1>2, <1>3, <1>4, <1>5, <1>6, <1>7, <1>8, <1>9, <1>10, <1>11,
      <1>12, <1>13, <1>14, <1>15, <1>16, <1>17, <1>18, <1>19, <1>20, <1>21,
      <1>22, <1>23, <1>24, <1>25, <1>26, <1>27
     DEF Next, RpcStep, RemovalStep, StartRpc, StartRemove

\* The heartbeat goes in the step after which the removal posts ExecutorLost,
\* and the event is handled only between bind rounds.
LEMMA LossInductive ==
    TypeOK /\ PushHasNoPolls /\ LossAnnounced /\ OffersAnnounced
    /\ [Next]_vars => (LossAnnounced' /\ OffersAnnounced')
<1> SUFFICES ASSUME TypeOK, PushHasNoPolls, LossAnnounced, OffersAnnounced,
                    [Next]_vars
             PROVE  LossAnnounced' /\ OffersAnnounced'
  OBVIOUS
<1>1. ASSUME NEW h \in Handlers, RegisterMetadata(h)
      PROVE  LossAnnounced' /\ OffersAnnounced'
  BY <1>1, SMTT(60)
     DEF LossAnnounced, OffersAnnounced, Announced, RegisterMetadata,
         scheduler
<1>2. ASSUME NEW h \in Handlers, SaveRegistrationHeartbeat(h)
      PROVE  LossAnnounced' /\ OffersAnnounced'
  BY <1>2, SMTT(60)
     DEF TypeOK, LossAnnounced, OffersAnnounced, Announced,
         SaveRegistrationHeartbeat, Heartbeat, scheduler
<1>3. ASSUME NEW h \in Handlers, InsertVcores(h)
      PROVE  LossAnnounced' /\ OffersAnnounced'
  BY <1>3, SMTT(60)
     DEF LossAnnounced, OffersAnnounced, Announced, InsertVcores, scheduler
<1>4. ASSUME NEW h \in Handlers, SaveHeartbeat(h)
      PROVE  LossAnnounced' /\ OffersAnnounced'
  <2>1. rpc[h].status # "absent"
    BY <1>4, SMTT(60) DEF TypeOK, SaveHeartbeat, At, RpcType, IdleRpc
  <2>2. QED
    BY <2>1, <1>4, SMTT(60)
       DEF TypeOK, LossAnnounced, OffersAnnounced, Announced, SaveHeartbeat,
           Heartbeat,
                              scheduler
<1>5. ASSUME NEW h \in Handlers, OfferToPoller(h)
      PROVE  LossAnnounced' /\ OffersAnnounced'
  BY <1>5, SMTT(60)
     DEF LossAnnounced, OffersAnnounced, Announced, PushHasNoPolls,
         OfferToPoller, At, registry
<1>6. ASSUME NEW h \in Handlers, NEW e \in Executors, CallHeartbeat(h, e)
      PROVE  LossAnnounced' /\ OffersAnnounced'
  BY <1>6, SMTT(60)
     DEF LossAnnounced, OffersAnnounced, Announced, CallHeartbeat, registry,
         scheduler
<1>7. ASSUME NEW h \in Handlers, NEW e \in Executors, CallRegister(h, e)
      PROVE  LossAnnounced' /\ OffersAnnounced'
  BY <1>7, SMTT(60)
     DEF LossAnnounced, OffersAnnounced, Announced, CallRegister, registry,
         scheduler
<1>8. ASSUME NEW h \in Handlers, NEW e \in Executors, CallPollWork(h, e)
      PROVE  LossAnnounced' /\ OffersAnnounced'
  BY <1>8, SMTT(60)
     DEF LossAnnounced, OffersAnnounced, Announced, CallPollWork, registry,
         scheduler
<1>9. ASSUME NEW r \in Removers, DropVcores(r)
      PROVE  LossAnnounced' /\ OffersAnnounced'
  BY <1>9, SMTT(60)
     DEF TypeOK, LossAnnounced, OffersAnnounced, Announced, DropVcores,
         Removing, IdleRemoval, registry, scheduler, HeartbeatType,
         NoHeartbeat
<1>10. ASSUME NEW r \in Removers, DropExecutor(r)
      PROVE  LossAnnounced' /\ OffersAnnounced'
  BY <1>10, SMTT(60)
     DEF TypeOK, LossAnnounced, OffersAnnounced, Announced, DropExecutor,
         Removing, IdleRemoval, registry, scheduler, HeartbeatType,
         NoHeartbeat
<1>11. ASSUME NEW r \in Removers, DropHeartbeat(r)
      PROVE  LossAnnounced' /\ OffersAnnounced'
  BY <1>11, SMTT(60)
     DEF TypeOK, LossAnnounced, OffersAnnounced, Announced, DropHeartbeat,
         Removing, IdleRemoval, registry, scheduler, HeartbeatType,
         NoHeartbeat
<1>12. ASSUME NEW r \in Removers, PostExecutorLost(r)
      PROVE  LossAnnounced' /\ OffersAnnounced'
  BY <1>12, SMTT(60)
     DEF TypeOK, LossAnnounced, OffersAnnounced, Announced, PostExecutorLost,
         Removing, IdleRemoval, registry, scheduler, HeartbeatType,
         NoHeartbeat
<1>13. ASSUME NEW r \in Removers, NEW e \in Executors, ExecutorStopped(r, e)
      PROVE  LossAnnounced' /\ OffersAnnounced'
  BY <1>13, SMTT(60)
     DEF TypeOK, LossAnnounced, OffersAnnounced, Announced, ExecutorStopped,
         StartRemoval, Removing, registry, scheduler
<1>14. ASSUME NEW r \in Removers, NEW e \in Executors, ExpireExecutor(r, e)
      PROVE  LossAnnounced' /\ OffersAnnounced'
  BY <1>14, SMTT(60)
     DEF TypeOK, LossAnnounced, OffersAnnounced, Announced, ExpireExecutor,
         StartRemoval, Removing, registry, scheduler
<1>15. ASSUME NEW r \in Removers, NEW e \in Executors, LaunchFailed(r, e)
      PROVE  LossAnnounced' /\ OffersAnnounced'
  BY <1>15, SMTT(60)
     DEF TypeOK, LossAnnounced, OffersAnnounced, Announced, LaunchFailed,
         StartRemoval, Removing, registry, scheduler
<1>16. ASSUME NEW e \in Executors, ExecutorLost(e)
      PROVE  LossAnnounced' /\ OffersAnnounced'
  BY <1>16, SMTT(60)
     DEF LossAnnounced, OffersAnnounced, Announced, ExecutorLost, registry,
         scheduler
<1>17. ASSUME NEW e \in Executors, Terminate(e)
      PROVE  LossAnnounced' /\ OffersAnnounced'
  BY <1>17, SMTT(60)
     DEF LossAnnounced, OffersAnnounced, Announced, Terminate, registry,
         scheduler
<1>18. ASSUME NEW e \in Executors, Drained(e)
      PROVE  LossAnnounced' /\ OffersAnnounced'
  BY <1>18, SMTT(60)
     DEF LossAnnounced, OffersAnnounced, Announced, Drained, registry,
         scheduler
<1>19. ASSUME NEW e \in Executors, Crash(e)
      PROVE  LossAnnounced' /\ OffersAnnounced'
  BY <1>19, SMTT(60)
     DEF LossAnnounced, OffersAnnounced, Announced, Crash, registry,
         scheduler
<1>20. ASSUME NEW e \in Executors, Restart(e)
      PROVE  LossAnnounced' /\ OffersAnnounced'
  BY <1>20, SMTT(60)
     DEF LossAnnounced, OffersAnnounced, Announced, Restart, registry,
         scheduler
<1>21. ASSUME NEW e \in Executors, Age(e)
      PROVE  LossAnnounced' /\ OffersAnnounced'
  BY <1>21, SMTT(60)
     DEF TypeOK, LossAnnounced, OffersAnnounced, Announced, Age,
         HeartbeatType, scheduler
<1>22. CASE StartJob
  BY <1>22, SMTT(60)
     DEF LossAnnounced, OffersAnnounced, Announced, StartJob, registry,
         scheduler
<1>23. CASE ReviveOffers
  BY <1>23, SMTT(60)
     DEF TypeOK, LossAnnounced, OffersAnnounced, Announced, ReviveOffers,
         Alive, AliveStatus, registry
<1>24. CASE BindTasks
  BY <1>24, SMTT(60)
     DEF LossAnnounced, OffersAnnounced, Announced, BindTasks, registry,
         scheduler
<1>25. CASE CheckEmptyCluster
  BY <1>25, SMTT(60)
     DEF LossAnnounced, OffersAnnounced, Announced, CheckEmptyCluster,
         registry, scheduler
<1>26. CASE ClearPending
  BY <1>26, SMTT(60)
     DEF LossAnnounced, OffersAnnounced, Announced, ClearPending, registry,
         scheduler
<1>27. CASE UNCHANGED vars
  BY <1>27, SMTT(60)
     DEF LossAnnounced, OffersAnnounced, Announced, vars, registry, scheduler
<1>q. QED
  BY <1>1, <1>2, <1>3, <1>4, <1>5, <1>6, <1>7, <1>8, <1>9, <1>10, <1>11,
      <1>12, <1>13, <1>14, <1>15, <1>16, <1>17, <1>18, <1>19, <1>20, <1>21,
      <1>22, <1>23, <1>24, <1>25, <1>26, <1>27
     DEF Next, RpcStep, RemovalStep, StartRpc, StartRemove

\* The inductive invariant holds in the initial cluster.
LEMMA IInvInit == Init => IInv
<1> SUFFICES ASSUME Init PROVE IInv
  OBVIOUS
<1>1. TypeOK
  <2>1. push \in BOOLEAN
    BY RegistryAssumption, Zenon DEF Init
  <2>2. heartbeats \in [Executors -> HeartbeatType]
    BY SMTT(60) DEF Init, Heartbeat, HeartbeatType
  <2>3. /\ rpc \in [Handlers -> RpcType]
        /\ removal \in [Removers -> RemovalType]
    BY SMTT(60) DEF Init, RpcType, RemovalType
  <2>4. faults \in 0 .. MaxFaults
    BY RegistryAssumption, SMTT(60) DEF Init
  <2>5. /\ no_executor_check_pending \in BOOLEAN
        /\ binding \in BOOLEAN
        /\ before_loss \in BOOLEAN
    BY Zenon DEF Init
  <2>6. QED
    BY <2>1, <2>2, <2>3, <2>4, <2>5, SMTT(60) DEF Init, TypeOK
<1>2. PushHasNoPolls
  BY SMTT(60) DEF Init, PushHasNoPolls, IdleRpc
<1>3. RegisteredHasVcores
  BY SMTT(60) DEF Init, RegisteredHasVcores
<1>4. LossAnnounced /\ OffersAnnounced
  BY SMTT(60) DEF Init, LossAnnounced, OffersAnnounced
<1>5. QED
  BY <1>1, <1>2, <1>3, <1>4 DEF IInv

\* IInv is an invariant.
LEMMA IInvInvariant == Spec => []IInv
<1>1. IInv /\ [Next]_vars => IInv'
  BY TypeInductive, PushHasNoPollsInductive, RegisteredInductive, LossInductive
     DEF IInv
<1>2. QED
  BY <1>1, IInvInit, PTL DEF Spec

\* The maps, events, handlers and removals hold what they are declared to.
THEOREM TypeCorrect == Spec => []TypeOK
<1>1. IInv => TypeOK
  BY DEF IInv
<1>2. QED
  BY <1>1, IInvInvariant, PTL

\* However many registrations, heartbeats and removals of however many executors
\* interleave, no registered executor is left without a vcore budget.
THEOREM RegisteredKeepsVcores == Spec => []RegisteredHasVcores
<1>1. IInv => RegisteredHasVcores
  BY DEF IInv
<1>2. QED
  BY <1>1, IInvInvariant, PTL

\* No task stays bound to an executor whose heartbeat was removed unless the
\* ExecutorLost event that resets it is posted or about to be.
THEOREM LossIsAnnounced == Spec => []LossAnnounced
<1>1. IInv => LossAnnounced
  BY DEF IInv
<1>2. QED
  BY <1>1, IInvInvariant, PTL
=============================================================================
