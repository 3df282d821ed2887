---------------------------- MODULE FlameProofs ----------------------------
(***************************************************************************)
(* Proofs about Flame, for any number of executors, clients, tasks, lost   *)
(* calls and faults.                                                       *)
(***************************************************************************)
EXTENDS Flame, FiniteSetTheorems, TLAPS

---------------------------------------------------------------------------
(* Types.                                                                  *)

\* A handler that has popped a task has one.
PoppedTask == \A e \in Executors : worker[e].pc = "popped" => worker[e].task # 0

\* A state change goes from and to a state that is not Closed.
Alive == SessionState \ {"Closed"}
FlipsAlive ==
  \A th \in Threads :
    /\ call[th].pc \in {"admitted", "flipped", "refused"} => call[th].to \in Alive
    /\ call[th].pc \in {"flipped", "refused"} => call[th].prev \in Alive

TypeInv == TypeOK /\ PoppedTask /\ FlipsAlive

\* Initially every variable has its type and nothing is popped.
LEMMA TypeInit == Init => TypeInv
  BY StorageAssumption, FlameAssumption, SMTT(30)
     DEF Init, StorageInit, SessionsInit, WorkersInit, NodesInit, SchedulerInit, TypeInv,
         TypeOK, PoppedTask, FlipsAlive, StorageOK, SessionsOK, WorkersOK, NodeType, SchedType,
         SessionState, Task, NoTask, Executor, NoExecutor, Worker, WorkerPc, At, NoCall,
         CallPc, CallState, NodeState, Nothing, NoCycle, TaskIds

\* The row a task update returns is a task.
LEMMA EngineTaskType ==
  ASSUME StorageOK, NEW t \in TaskIds, NEW s \in TaskState
  PROVE  EngineTask(t, s) \in Task
  BY DEF StorageOK, EngineTask, Task

\* A lock section that updates a task keeps the types of tasks and index.
LEMMA UpdateTaskType ==
  ASSUME StorageOK, NEW t, NEW new \in Task, UpdateTask(t, new)
  PROVE  /\ tasks' \in [TaskIds -> Task]
         /\ index' \in [TaskIds -> TaskState \cup {"None"}]
  BY DEF StorageOK, UpdateTask, Task

\* Saving an executor keeps the types of the record and of the row.
LEMMA UpdateExecutorType ==
  ASSUME StorageOK, NEW e \in Executors, NEW new \in Executor, UpdateExecutor(e, new)
  PROVE  exe' \in [Executors -> Executor] /\ dbExe' \in [Executors -> Executor]
  BY DEF StorageOK, UpdateExecutor, Executor

\* Bounds that the types below are made of.
LEMMA Bounds == MaxTask \in Nat /\ 0 \in 0..MaxTask /\ TaskIds = (0..MaxTask) \ {0}
  BY StorageAssumption DEF TaskIds

\* The changes handlers make to an executor keep it one.
LEMMA RecordType ==
  ASSUME NEW r \in Executor, NEW s \in ExecutorState
  PROVE  /\ [r EXCEPT !.state = s] \in Executor
         /\ [r EXCEPT !.ssn_id = "none", !.task_id = 0] \in Executor
         /\ [r EXCEPT !.state = s, !.ssn_id = "none", !.task_id = 0] \in Executor
  BY Bounds DEF Executor

\* Deleting an executor keeps the types of the row and of the map.
LEMMA DeleteExecutorType ==
  ASSUME StorageOK, NEW e \in Executors, DeleteExecutor(e)
  PROVE  dbExe' \in [Executors -> Executor] /\ execs' \subseteq Executors
<1>1. NoExecutor \in Executor
  BY Bounds DEF NoExecutor, Executor
<1> QED BY <1>1 DEF StorageOK, DeleteExecutor

\* A worker that moves on is a worker.
LEMMA BecomeType ==
  ASSUME WorkersOK, NEW e \in Executors, NEW pc \in WorkerPc, Become(e, pc), pc # "popped",
         PoppedTask
  PROVE  WorkersOK' /\ PoppedTask'
  BY StorageAssumption DEF WorkersOK, Worker, At, Become, PoppedTask, Task, NoTask

\* So is one whose answer may be lost.
LEMMA ReplyType ==
  ASSUME WorkersOK, NEW e \in Executors, NEW pc \in WorkerPc, NEW retry \in WorkerPc,
         Reply(e, pc, retry), pc # "popped", retry # "popped", PoppedTask
  PROVE  WorkersOK' /\ PoppedTask'
<1>1. CASE Become(e, pc)
  BY <1>1, BecomeType
<1>2. CASE lost > 0 /\ lost' = lost - 1 /\ worker' = [worker EXCEPT ![e] = At(retry)]
  <2>1. lost' \in Nat
    BY <1>2 DEF WorkersOK
  <2>2. At(retry) \in Worker
    BY StorageAssumption DEF At, Worker, Task, NoTask
  <2>3. worker' \in [Executors -> Worker]
    BY <1>2, <2>2 DEF WorkersOK
  <2>4. PoppedTask'
    BY <1>2 DEF WorkersOK, PoppedTask, At
  <2> QED BY <2>1, <2>3, <2>4 DEF WorkersOK
<1> QED BY <1>1, <1>2 DEF Reply

\* A handler that goes on keeps its worker's type.
LEMMA StepType ==
  ASSUME WorkersOK, NEW e \in Executors, NEW pc \in WorkerPc, Step(e, pc), pc # "popped",
         PoppedTask
  PROVE  WorkersOK' /\ PoppedTask'
  BY DEF WorkersOK, Worker, Step, PoppedTask

\* So is one that holds the row an engine transaction returned.
LEMMA WriteTaskType ==
  ASSUME StorageOK, WorkersOK, PoppedTask, NEW e \in Executors, NEW t \in TaskIds,
         NEW s \in TaskState, NEW to \in WorkerPc, to # "popped", WriteTask(e, t, s, to)
  PROVE  StorageOK' /\ WorkersOK' /\ PoppedTask'
<1>1. EngineTask(t, s) \in Task
  BY EngineTaskType
<1>2. StorageOK'
  BY <1>1 DEF StorageOK, WriteTask, EngineWriteTask, cache
<1>3. WorkersOK'
  BY <1>1, StorageAssumption DEF WorkersOK, WriteTask, Worker, TaskIds
<1>4. PoppedTask'
  BY DEF PoppedTask, WorkersOK, WriteTask
<1> QED BY <1>2, <1>3, <1>4

\* The lock section that publishes a worker's row keeps the types.
LEMMA PublishTaskType ==
  ASSUME StorageOK, WorkersOK, PoppedTask, NEW e \in Executors, NEW from, NEW to \in WorkerPc,
         NEW retry \in WorkerPc, to # "popped", retry # "popped",
         PublishTask(e, from, to, retry)
  PROVE  StorageOK' /\ WorkersOK' /\ PoppedTask'
<1>0. worker[e].new \in Task
  BY DEF WorkersOK, Worker
<1>1. CASE ssn = "Closed"
  BY <1>1, BecomeType DEF PublishTask, StorageOK
<1>2. CASE ssn # "Closed"
  <2>1. UpdateTask(worker[e].task, worker[e].new) /\ Step(e, to)
    BY <1>2 DEF PublishTask
  <2>2. WorkersOK' /\ PoppedTask'
    BY <2>1, StepType
  <2>3. tasks' \in [TaskIds -> Task] /\ index' \in [TaskIds -> TaskState \cup {"None"}]
    BY <1>0, <2>1, UpdateTaskType
  <2> QED BY <2>2, <2>3 DEF PublishTask, StorageOK
<1> QED BY <1>1, <1>2

\* The lock section and the save of an executor's shared record keep them.
LEMMA SaveSharedType ==
  ASSUME StorageOK, WorkersOK, PoppedTask, NEW e \in Executors, NEW new \in Executor,
         NEW to \in WorkerPc, to # "popped", SaveShared(e, new, to)
  PROVE  StorageOK' /\ WorkersOK' /\ PoppedTask'
<1>1. "bound" \in WorkerPc
  BY DEF WorkerPc
<1>2. exe' \in [Executors -> Executor]
  BY DEF SaveShared, StorageOK
<1>3. dbExe' \in [Executors -> Executor]
  BY DEF SaveShared, StorageOK, Executor
<1>4. StorageOK'
  BY <1>2, <1>3 DEF SaveShared, StorageOK, cache
<1>5. Reply(e, to, "bound") \/ Become(e, "bound")
  BY DEF SaveShared
<1>6. WorkersOK' /\ PoppedTask'
  BY <1>1, <1>5, ReplyType, BecomeType
<1> QED BY <1>4, <1>6

\* A step of a worker keeps the types.
LEMMA WorkerType ==
  ASSUME TypeInv, NEW e \in Executors, WorkerStep(e)
  PROVE  StorageOK' /\ WorkersOK' /\ PoppedTask'
<1> USE DEF TypeInv, TypeOK
<1>0. exe[e] \in Executor /\ worker[e] \in Worker
  BY DEF StorageOK, WorkersOK
<1>1. CASE RegisterExecutor(e)
  <2>1. [exe[e] EXCEPT !.state = "Idle"] \in Executor
    BY <1>0, RecordType DEF ExecutorState
  <2>2. exe' \in [Executors -> Executor] /\ dbExe' \in [Executors -> Executor]
    BY <1>1, <2>1, UpdateExecutorType DEF RegisterExecutor
  <2>3. WorkersOK' /\ PoppedTask'
    BY <1>1, ReplyType DEF RegisterExecutor, WorkerPc
  <2> QED BY <1>1, <2>2, <2>3 DEF RegisterExecutor, StorageOK, cache
<1>2. CASE WaitForSession(e)
  <2>1. Become(e, "release") \/ Become(e, "enter")
    BY <1>2 DEF WaitForSession
  <2> QED BY <1>2, <2>1, BecomeType DEF WaitForSession, WorkerPc, StorageOK, store, cache
<1>3. CASE BindCompleted(e)
  <2>1. [exe[e] EXCEPT !.state = "Bound"] \in Executor
    BY <1>0, RecordType DEF ExecutorState
  <2>2. exe' \in [Executors -> Executor] /\ dbExe' \in [Executors -> Executor]
    BY <1>3, <2>1, UpdateExecutorType DEF BindCompleted
  <2>3. WorkersOK' /\ PoppedTask'
    BY <1>3, ReplyType DEF BindCompleted, WorkerPc
  <2> QED BY <1>3, <2>2, <2>3 DEF BindCompleted, StorageOK, cache
<1>4. CASE BindFailed(e)
  <2>1. [exe[e] EXCEPT !.state = "Unbinding", !.ssn_id = "none", !.task_id = 0] \in Executor
    BY <1>0, RecordType DEF ExecutorState
  <2>2. exe' \in [Executors -> Executor] /\ dbExe' \in [Executors -> Executor]
    BY <1>4, <2>1, UpdateExecutorType DEF BindFailed
  <2>3. WorkersOK' /\ PoppedTask'
    BY <1>4, ReplyType DEF BindFailed, WorkerPc
  <2>4. retries' \in 0..RetryLimit
    BY <1>4, StorageAssumption DEF BindFailed, StorageOK
  <2> QED BY <1>4, <2>2, <2>3, <2>4 DEF BindFailed, StorageOK
<1>5. CASE BindRefused(e)
  BY <1>5, BecomeType DEF BindRefused, WorkerPc, StorageOK, store, cache
<1>6. CASE StartupCleanupFailed(e)
  <2>1. Reply(e, "release", "release")
    BY <1>6 DEF StartupCleanupFailed, Reply
  <2> QED BY <1>6, <2>1, ReplyType DEF StartupCleanupFailed, WorkerPc, StorageOK, store, cache
<1>7. CASE RelaunchTask(e)
  <2>1. Become(e, "unbind") \/ Become(e, "run")
    BY <1>7 DEF RelaunchTask
  <2> QED BY <1>7, <2>1, BecomeType DEF RelaunchTask, WorkerPc, StorageOK, store, cache
<1>8. CASE LaunchTask(e)
  BY <1>8, StepType DEF LaunchTask, WorkerPc, StorageOK
<1>9. CASE LaunchNoTask(e)
  BY <1>9, BecomeType DEF LaunchNoTask, WorkerPc, StorageOK
<1>10. CASE WaitForTask(e)
  <2>1. PICK t \in TaskIds :
          PopPendingTask(t) /\ worker' = [worker EXCEPT ![e].pc = "popped", ![e].task = t]
    BY <1>10 DEF WaitForTask
  <2>2. t \in 0..MaxTask /\ t # 0
    BY StorageAssumption DEF TaskIds
  <2>3. worker' \in [Executors -> Worker]
    BY <2>1, <2>2 DEF WorkersOK, Worker, WorkerPc
  <2>4. PoppedTask'
    BY <2>1, <2>2 DEF WorkersOK, PoppedTask
  <2>5. index' \in [TaskIds -> TaskState \cup {"None"}]
    BY <2>1 DEF PopPendingTask, StorageOK
  <2> QED BY <1>10, <2>3, <2>4, <2>5 DEF WaitForTask, WorkersOK, StorageOK
<1>11. CASE LaunchWrite(e)
  <2>1. worker[e].task \in TaskIds
    BY <1>11, <1>0, StorageAssumption DEF LaunchWrite, PoppedTask, Worker, TaskIds
  <2> QED BY <1>11, <2>1, WriteTaskType DEF LaunchWrite, WorkerPc, TaskState
<1>12. CASE LaunchRefused(e)
  <2>1. Become(e, "unbind") \/ Become(e, "bound")
    BY <1>12 DEF LaunchRefused
  <2> QED BY <1>12, <2>1, BecomeType DEF LaunchRefused, WorkerPc, StorageOK, store, cache
<1>13. CASE LaunchPublish(e)
  BY <1>13, PublishTaskType DEF LaunchPublish, WorkerPc
<1>14. CASE LaunchAssign(e)
  <2>1. [exe[e] EXCEPT !.task_id = worker[e].task, !.ssn_id = "s"] \in Executor
    BY <1>0 DEF Executor, Worker
  <2> QED BY <1>14, <2>1, SaveSharedType DEF LaunchAssign, WorkerPc
<1>15. CASE CompleteTask(e)
  <2>1. exe[e].task_id \in TaskIds
    BY <1>15, <1>0, StorageAssumption DEF CompleteTask, Completable, Executor, TaskIds
  <2> QED BY <1>15, <2>1, WriteTaskType DEF CompleteTask, WorkerPc, TaskState
<1>16. CASE CompleteRefused(e)
  BY <1>16, BecomeType DEF CompleteRefused, WorkerPc, StorageOK, store, cache
<1>17. CASE CompletePublish(e)
  BY <1>17, PublishTaskType DEF CompletePublish, WorkerPc
<1>18. CASE CompleteClear(e)
  <2>1. [exe[e] EXCEPT !.task_id = 0,
           !.ssn_id = IF exe[e].state = "Unbinding" THEN "none" ELSE @] \in Executor
    BY <1>0, Bounds DEF Executor
  <2> QED BY <1>18, <2>1, SaveSharedType DEF CompleteClear, WorkerPc
<1>19. CASE UnbindExecutor(e)
  <2>1. /\ [exe[e] EXCEPT !.state = "Unbinding"] \in Executor
        /\ [exe[e] EXCEPT !.ssn_id = "none", !.task_id = 0] \in Executor
    BY <1>0, RecordType DEF ExecutorState
  <2>2. exe' \in [Executors -> Executor] /\ dbExe' \in [Executors -> Executor]
    BY <1>19, <2>1, UpdateExecutorType DEF UnbindExecutor
  <2>3. WorkersOK' /\ PoppedTask'
    BY <1>19, ReplyType DEF UnbindExecutor, WorkerPc
  <2> QED BY <1>19, <2>2, <2>3 DEF UnbindExecutor, StorageOK, cache
<1>20. CASE UnbindExecutorCompleted(e)
  <2>1. [exe[e] EXCEPT !.state = "Idle", !.ssn_id = "none", !.task_id = 0] \in Executor
    BY <1>0, RecordType DEF ExecutorState
  <2>2. exe' \in [Executors -> Executor] /\ dbExe' \in [Executors -> Executor]
    BY <1>20, <2>1, UpdateExecutorType DEF UnbindExecutorCompleted
  <2>3. WorkersOK' /\ PoppedTask'
    BY <1>20, ReplyType DEF UnbindExecutorCompleted, WorkerPc
  <2> QED BY <1>20, <2>2, <2>3 DEF UnbindExecutorCompleted, StorageOK, cache
<1>21. CASE UnbindRefused(e)
  BY <1>21, BecomeType DEF UnbindRefused, WorkerPc, StorageOK, store, cache
<1>22. CASE UnregisterExecutor(e)
  BY <1>22, BecomeType, StepType DEF UnregisterExecutor, WorkerPc, StorageOK, store, cache
<1>23. CASE FailTask(e)
  <2>1. exe[e].task_id \in TaskIds
    BY <1>23, <1>0, StorageAssumption DEF FailTask, HasTask, Executor, TaskIds
  <2> QED BY <1>23, <2>1, WriteTaskType DEF FailTask, WorkerPc, TaskState
<1>24. CASE FailPublish(e)
  BY <1>24, PublishTaskType DEF FailPublish, WorkerPc
<1>25. CASE UnregisterDelete(e)
  <2>1. WorkersOK' /\ PoppedTask'
    BY <1>25, ReplyType, BecomeType DEF UnregisterDelete, WorkerPc
  <2>2. exe' \in [Executors -> Executor]
    BY <1>25, <1>0, Bounds DEF UnregisterDelete, StorageOK, Executor, ExecutorState
  <2>3. dbExe' \in [Executors -> Executor] /\ execs' \subseteq Executors
    BY <1>25, DeleteExecutorType DEF UnregisterDelete, StorageOK
  <2> QED BY <1>25, <2>1, <2>2, <2>3 DEF UnregisterDelete, StorageOK, cache
<1>26. CASE DropCall(e)
  <2>1. Reply(e, RetryPc(worker[e].pc), RetryPc(worker[e].pc))
    BY <1>26 DEF DropCall, Reply
  <2>2. RetryPc(worker[e].pc) \in WorkerPc /\ RetryPc(worker[e].pc) # "popped"
    BY <1>0 DEF RetryPc, Worker, WorkerPc
  <2>3. WorkersOK' /\ PoppedTask'
    BY <2>1, <2>2, ReplyType
  <2> QED BY <1>26, <2>3 DEF DropCall, StorageOK
<1> QED
  BY <1>1, <1>2, <1>3, <1>4, <1>5, <1>6, <1>7, <1>8, <1>9, <1>10, <1>11, <1>12, <1>13,
     <1>14, <1>15, <1>16, <1>17, <1>18, <1>19, <1>20, <1>21, <1>22, <1>23, <1>24, <1>25,
     <1>26, WorkerStep(e)
     DEF WorkerStep, Work

\* The steps of update_session_state keep the types.
LEMMA UpdateSessionStateType ==
  ASSUME StorageOK, SessionsOK, FlipsAlive, NEW th \in Threads, UpdateSessionState(th)
  PROVE  StorageOK' /\ SessionsOK' /\ FlipsAlive'
<1> USE DEF SessionsOK, FlipsAlive
<1>1. CASE FlipState(th)
  BY <1>1, Bounds DEF FlipState, StorageOK, Return, NoCall, CallPc, CallState, Alive
<1>2. CASE FlipStateEngine(th)
  BY <1>2, Bounds
     DEF FlipStateEngine, StorageOK, Return, Goto, NoCall, CallPc, CallState, cache, Alive
<1>3. CASE FlipStateUndo(th)
  BY <1>3, Bounds DEF FlipStateUndo, StorageOK, Return, NoCall, CallPc, CallState, Alive
<1> QED BY <1>1, <1>2, <1>3 DEF UpdateSessionState

\* Admission to update_session_state keeps the types.
LEMMA AdmitType ==
  ASSUME StorageOK, SessionsOK, FlipsAlive, NEW th \in Threads, NEW from, NEW to \in Alive,
         Admit(th, from, to)
  PROVE  StorageOK' /\ SessionsOK' /\ FlipsAlive'
  BY DEF Admit, StorageOK, SessionsOK, FlipsAlive, CallPc, CallState, Alive, store, cache

\* A step of a client keeps the types.
LEMMA ClientType ==
  ASSUME StorageOK, SessionsOK, FlipsAlive, NEW c \in Clients, ClientStep(c)
  PROVE  StorageOK' /\ SessionsOK' /\ FlipsAlive'
<1>0. c \in Threads
  BY DEF Threads
<1>1. CASE CreateTask(c)
  <2>1. PICK t \in TaskIds :
          EngineCreateTask(t) /\ call' = [call EXCEPT ![c].pc = "created", ![c].task = t]
    BY <1>1 DEF CreateTask
  <2>2. dbTasks' \in [TaskIds -> Task]
    BY <2>1 DEF EngineCreateTask, StorageOK, Task, TaskState
  <2>3. SessionsOK' /\ FlipsAlive'
    BY <1>0, <2>1, Bounds DEF SessionsOK, FlipsAlive, CallPc
  <2> QED BY <1>1, <2>2, <2>3 DEF CreateTask, StorageOK, cache
<1>2. CASE CreateTaskPublish(c)
  <2>1. tasks' \in [TaskIds -> Task] /\ index' \in [TaskIds -> TaskState \cup {"None"}]
    <3>1. [state |-> "Pending", version |-> 1] \in Task
      BY DEF Task, TaskState
    <3> QED BY <1>2, <3>1, UpdateTaskType DEF CreateTaskPublish, StorageOK
  <2>2. SessionsOK' /\ FlipsAlive'
    BY <1>0, <1>2, Bounds
       DEF CreateTaskPublish, SessionsOK, FlipsAlive, Return, NoCall, CallPc, CallState
  <2> QED BY <1>2, <2>1, <2>2 DEF CreateTaskPublish, StorageOK
<1>3. CASE CloseSession(c)
  BY <1>0, <1>3 DEF CloseSession, Goto, SessionsOK, FlipsAlive, CallPc, StorageOK, store, cache
<1>4. CASE CloseSessionEngine(c)
  <2>1. dbTasks' \in [TaskIds -> Task] /\ dbSsn' \in SessionState
    BY <1>4 DEF CloseSessionEngine, EngineCloseSession, StorageOK, Task, TaskState, SessionState
  <2>2. SessionsOK' /\ FlipsAlive'
    BY <1>0, <1>4, Bounds
       DEF CloseSessionEngine, Goto, Return, NoCall, SessionsOK, FlipsAlive, CallPc, CallState
  <2> QED BY <1>4, <2>1, <2>2 DEF CloseSessionEngine, StorageOK, cache
<1>5. CASE CloseSessionPublish(c)
  <2>1. tasks' \in [TaskIds -> Task] /\ index' \in [TaskIds -> TaskState \cup {"None"}]
    BY <1>5 DEF CloseSessionPublish, StorageOK, Task, TaskState
  <2>2. SessionsOK' /\ FlipsAlive'
    BY <1>0, <1>5 DEF CloseSessionPublish, Goto, SessionsOK, FlipsAlive, CallPc
  <2> QED BY <1>5, <2>1, <2>2 DEF CloseSessionPublish, StorageOK, SessionState
<1>6. CASE NotifierRemove(c)
  BY <1>0, <1>6, Bounds
     DEF NotifierRemove, Return, NoCall, SessionsOK, FlipsAlive, CallPc, CallState, StorageOK
<1>7. CASE SignalSession(c) \/ ResumeSession(c)
  BY <1>0, <1>7, AdmitType DEF SignalSession, ResumeSession, Alive, SessionState
<1>8. CASE UpdateSessionState(c)
  BY <1>0, <1>8, UpdateSessionStateType
<1> QED
  BY <1>1, <1>2, <1>3, <1>4, <1>5, <1>6, <1>7, <1>8 DEF ClientStep, Continue

\* A step of a registration or of a cleanup keeps the types.
LEMMA NodeStepType ==
  ASSUME StorageOK, WorkersOK, PoppedTask, node \in NodeType, NodeStep
  PROVE  StorageOK' /\ WorkersOK' /\ PoppedTask' /\ node' \in NodeType
<1>0. /\ NoExecutor \in Executor /\ NoTask \in Task
      /\ Nothing \in [Executors -> Executor] /\ node.listed \in [Executors -> Executor]
      /\ \A e \in Executors : Handled(e) \in [Executors -> Executor]
  BY Bounds DEF NoExecutor, Executor, NoTask, Task, Nothing, NodeType, Handled
<1>1. CASE RegisterNode
  <2>1. [e \in Executors |-> IF e \in execs \ Reported THEN exe[e] ELSE NoExecutor]
          \in [Executors -> Executor]
    BY <1>0 DEF StorageOK
  <2>2. node' \in NodeType
    BY <1>1, <2>1 DEF RegisterNode, NodeType, NodeState
  <2> QED BY <1>1, <2>2 DEF RegisterNode, StorageOK, WorkersOK, PoppedTask, store, cache
<1>2. CASE RegisterEnd
  BY <1>0, <1>2 DEF RegisterEnd, NodeType, StorageOK, WorkersOK, PoppedTask, store, cache
<1>3. CASE ShutdownNode
  <2>1. [e \in Executors |-> IF e \in execs THEN exe[e] ELSE NoExecutor]
          \in [Executors -> Executor]
    BY <1>0 DEF StorageOK
  <2>2. node' \in NodeType
    BY <1>3, <2>1 DEF ShutdownNode, NodeType, NodeState
  <2> QED BY <1>3, <2>2 DEF ShutdownNode, StorageOK, WorkersOK, PoppedTask, store, cache
<1>4. CASE ShutdownEnd
  BY <1>4 DEF ShutdownEnd, NodeType, StorageOK, WorkersOK, PoppedTask, store, cache
<1>5. ASSUME NEW e \in Executors, StartWorker(e)
      PROVE  StorageOK' /\ WorkersOK' /\ PoppedTask' /\ node' \in NodeType
  BY <1>5, BecomeType DEF StartWorker, WorkerPc, StorageOK, store, cache
<1>6. ASSUME NEW e \in Executors, RegisterRelease(e)
      PROVE  StorageOK' /\ WorkersOK' /\ PoppedTask' /\ node' \in NodeType
  <2>1. [node.listed[e] EXCEPT !.state = "Releasing"] \in Executor
    BY <1>0, RecordType DEF ExecutorState
  <2>2. exe' \in [Executors -> Executor] /\ dbExe' \in [Executors -> Executor]
    BY <1>6, <2>1, UpdateExecutorType DEF RegisterRelease
  <2>3. WorkersOK' /\ PoppedTask'
    BY <1>6, BecomeType DEF RegisterRelease, WorkerPc
  <2>4. node' \in NodeType
    BY <1>0, <1>6 DEF RegisterRelease, NodeType
  <2> QED BY <1>6, <2>2, <2>3, <2>4 DEF RegisterRelease, StorageOK, cache
<1>7. ASSUME NEW e \in Executors, ShutdownRetry(e)
      PROVE  StorageOK' /\ WorkersOK' /\ PoppedTask' /\ node' \in NodeType
  <2> DEFINE t == node.listed[e].task_id
  <2>0. node.listed[e] \in Executor
    BY <1>0
  <2>1. CASE t # 0 /\ node.listed[e].ssn_id = "s"
    <3>1. t \in TaskIds
      BY <2>0, <2>1, Bounds DEF Executor
    <3>2. EngineTask(t, "Pending") \in Task
      BY <3>1, EngineTaskType DEF TaskState
    <3>3. dbTasks' \in [TaskIds -> Task]
      BY <1>7, <2>1, <3>2 DEF ShutdownRetry, EngineWriteTask, StorageOK
    <3>4. node' = [node EXCEPT !.pc = "publish", !.on = {e}, !.new = EngineTask(t, "Pending")]
      BY <1>7, <2>1 DEF ShutdownRetry
    <3>5. node' \in NodeType
      BY <3>2, <3>4 DEF NodeType
    <3> QED BY <1>7, <3>3, <3>5 DEF ShutdownRetry, StorageOK, WorkersOK, PoppedTask, cache
  <2>2. CASE ~(t # 0 /\ node.listed[e].ssn_id = "s")
    <3>1. node' = [node EXCEPT !.pc = "delete", !.on = {e}] /\ UNCHANGED dbTasks
      BY <1>7, <2>2 DEF ShutdownRetry
    <3>2. node' \in NodeType
      BY <3>1 DEF NodeType
    <3> QED BY <1>7, <3>1, <3>2 DEF ShutdownRetry, StorageOK, WorkersOK, PoppedTask, cache
  <2> QED BY <2>1, <2>2
<1>8. ASSUME NEW e \in Executors, ShutdownPublish(e)
      PROVE  StorageOK' /\ WorkersOK' /\ PoppedTask' /\ node' \in NodeType
  <2>1. node.new \in Task
    BY DEF NodeType
  <2>2. tasks' \in [TaskIds -> Task] /\ index' \in [TaskIds -> TaskState \cup {"None"}]
    BY <1>8, <2>1, UpdateTaskType DEF ShutdownPublish
  <2>3. node' \in NodeType
    BY <1>8 DEF ShutdownPublish, NodeType
  <2> QED BY <1>8, <2>2, <2>3 DEF ShutdownPublish, StorageOK, WorkersOK, PoppedTask
<1>9. ASSUME NEW e \in Executors, ShutdownDelete(e)
      PROVE  StorageOK' /\ WorkersOK' /\ PoppedTask' /\ node' \in NodeType
  <2>1. dbExe' \in [Executors -> Executor] /\ execs' \subseteq Executors
    BY <1>9, DeleteExecutorType DEF ShutdownDelete
  <2>2. node' \in NodeType
    BY <1>0, <1>9 DEF ShutdownDelete, NodeType
  <2> QED BY <1>9, <2>1, <2>2 DEF ShutdownDelete, StorageOK, WorkersOK, PoppedTask, cache
<1> QED BY <1>1, <1>2, <1>3, <1>4, <1>5, <1>6, <1>7, <1>8, <1>9 DEF NodeStep

\* What the scheduler counts is finite.
LEMMA CountType ==
  ASSUME StorageOK
  PROVE  /\ ComputeDemand \in Nat
         /\ \A S \in SUBSET execs : Cardinality(S) \in Nat
         /\ \A m, n \in Nat : Excess(m, n) \in Nat
<1>1. IsFiniteSet(TaskIds) /\ IsFiniteSet(Executors)
  BY StorageAssumption, FS_Interval DEF TaskIds
<1>2. InIndex("Pending") \cup InIndex("Running") \subseteq TaskIds
  BY DEF InIndex
<1>3. Cardinality(InIndex("Pending") \cup InIndex("Running")) \in Nat
  BY <1>1, <1>2, FS_Subset, FS_CardinalityType
<1>4. ASSUME NEW S \in SUBSET execs PROVE Cardinality(S) \in Nat
  BY <1>1, FS_Subset, FS_CardinalityType DEF StorageOK
<1>5. \A m, n \in Nat : Excess(m, n) \in Nat
  BY DEF Excess
<1> QED BY <1>3, <1>4, <1>5 DEF ComputeDemand

\* The changes that scheduling makes to a cycle keep it one.
LEMMA CycleType ==
  ASSUME NEW r \in SchedType, NEW n \in Nat, NEW S \in SUBSET Executors,
         NEW T \in SUBSET Executors
  PROVE  /\ [r EXCEPT !.need = n, !.free = S, !.idle = T] \in SchedType
         /\ [r EXCEPT !.surplus = n, !.bound = S] \in SchedType
         /\ [r EXCEPT !.idle = S, !.need = 0] \in SchedType
  BY DEF SchedType

\* A step of the scheduling loop keeps the types.
LEMMA ScheduleType ==
  ASSUME TypeInv, Schedule
  PROVE  StorageOK' /\ SessionsOK' /\ FlipsAlive' /\ sched' \in SchedType
<1> USE DEF TypeInv, TypeOK
<1>0. NoCycle \in SchedType /\ "scheduler" \in Threads
  BY DEF NoCycle, SchedType, Threads
<1>a. \A e \in Executors : exe[e] \in Executor
  BY DEF StorageOK
<1>b. /\ sched.need > 0 => sched.need - 1 \in Nat
      /\ sched.surplus > 0 => sched.surplus - 1 \in Nat
  BY DEF SchedType
<1>c. \A e : /\ sched.free \ {e} \in SUBSET Executors
            /\ sched.bound \ {e} \in SUBSET Executors
            /\ sched.idle \ {e} \in SUBSET Executors
  BY DEF SchedType
<1>1. CASE SnapshotSessions
  <2>1. sched' \in SchedType
    BY <1>1, CountType DEF SnapshotSessions, SchedType, StorageOK, SessionState
  <2> QED BY <1>1, <2>1 DEF SnapshotSessions, StorageOK, SessionsOK, FlipsAlive, store, cache
<1>2. CASE SnapshotExecutors
  <2>1. Serving \in SUBSET execs /\ Serving \ Interrupted \in SUBSET execs
    BY DEF Serving
  <2>2. \A i, j \in {Serving, Serving \ Interrupted} : Cardinality(i) \in Nat
    BY <2>1, CountType
  <2>3. sched.demand \in Nat
    BY DEF SchedType
  <2>4. /\ In("Idle") \ Interrupted \in SUBSET Executors /\ In("Idle") \in SUBSET Executors
        /\ In("Bound") \ Interrupted \in SUBSET Executors
    BY DEF In, StorageOK
  <2>5. /\ Excess(sched.demand, Cardinality(Serving)) \in Nat
        /\ Excess(Cardinality(Serving \ Interrupted), sched.demand) \in Nat
    BY <2>2, <2>3, CountType
  <2>6. sched' \in SchedType
    BY <1>0, <1>2, <2>4, <2>5 DEF SnapshotExecutors, EndCycle, SchedType, YesNo
  <2> QED BY <1>2, <2>6 DEF SnapshotExecutors, StorageOK, SessionsOK, FlipsAlive, store, cache
<1>3. CASE SuspendSession
  <2>1. sched' \in SchedType
    BY <1>3 DEF SuspendSession, SchedType
  <2>2. StorageOK' /\ SessionsOK' /\ FlipsAlive'
    BY <1>0, <1>3, AdmitType
       DEF SuspendSession, Alive, SessionState, StorageOK, SessionsOK, FlipsAlive, store, cache
  <2> QED BY <2>1, <2>2
<1>4. CASE CycleDone
  BY <1>0, <1>4 DEF CycleDone, EndCycle, StorageOK, SessionsOK, FlipsAlive, store, cache
<1>5. CASE UpdateSessionState("scheduler") /\ UNCHANGED <<sched, others>>
  BY <1>0, <1>5, UpdateSessionStateType
<1>6. ASSUME NEW e \in Executors, BindSession(e)
      PROVE  StorageOK' /\ SessionsOK' /\ FlipsAlive' /\ sched' \in SchedType
  <2>1. [exe[e] EXCEPT !.state = "Binding", !.ssn_id = "s"] \in Executor
    BY <1>a DEF Executor, ExecutorState
  <2>2. exe' \in [Executors -> Executor] /\ dbExe' \in [Executors -> Executor]
    BY <1>6, <2>1, UpdateExecutorType DEF BindSession, StorageOK
  <2>3. sched' \in SchedType
    <3>1. sched.need - 1 \in Nat
      BY <1>b, <1>6 DEF BindSession, Dispatching
    <3>2. [sched EXCEPT !.need = @ - 1, !.free = @ \ {e}, !.idle = @ \ {e}] \in SchedType
      BY <1>c, <3>1, CycleType
    <3> QED BY <1>0, <1>6, <3>2 DEF BindSession, EndCycle
  <2> QED BY <1>6, <2>2, <2>3 DEF BindSession, StorageOK, SessionsOK, FlipsAlive, cache
<1>7. ASSUME NEW e \in Executors, AllocateExecutor(e)
      PROVE  StorageOK' /\ SessionsOK' /\ FlipsAlive' /\ sched' \in SchedType
  <2>1. [NoExecutor EXCEPT !.state = "Void"] \in Executor
    BY Bounds DEF NoExecutor, Executor, ExecutorState
  <2>2. /\ exe' \in [Executors -> Executor] /\ dbExe' \in [Executors -> Executor]
        /\ execs' \subseteq Executors
    BY <1>7, <2>1 DEF AllocateExecutor, CreateExecutor, StorageOK
  <2>3. sched' \in SchedType
    BY <1>7 DEF AllocateExecutor, SchedType
  <2> QED BY <1>7, <2>2, <2>3 DEF AllocateExecutor, StorageOK, SessionsOK, FlipsAlive, cache
<1>8. ASSUME NEW e \in Executors, InterruptExecutor(e)
      PROVE  StorageOK' /\ SessionsOK' /\ FlipsAlive' /\ sched' \in SchedType
  <2>1. exe' \in [Executors -> Executor]
    <3>1. [exe[e] EXCEPT !.signal = "Interrupt"] \in Executor
      BY <1>a DEF Executor
    <3> QED BY <1>8, <3>1 DEF InterruptExecutor, StorageOK
  <2>2. sched' \in SchedType
    <3>1. sched.surplus - 1 \in Nat
      BY <1>b, <1>8 DEF InterruptExecutor, Reclaiming
    <3>2. [sched EXCEPT !.surplus = @ - 1, !.bound = @ \ {e}] \in SchedType
      BY <1>c, <3>1, CycleType
    <3> QED BY <1>0, <1>8, <3>2 DEF InterruptExecutor, EndCycle
  <2> QED BY <1>8, <2>1, <2>2 DEF InterruptExecutor, StorageOK, SessionsOK, FlipsAlive, cache
<1>9. ASSUME NEW e \in Executors, ReleaseExecutor(e)
      PROVE  StorageOK' /\ SessionsOK' /\ FlipsAlive' /\ sched' \in SchedType
  <2>1. [exe[e] EXCEPT !.state = "Releasing"] \in Executor
    BY RecordType DEF StorageOK, ExecutorState
  <2>2. exe' \in [Executors -> Executor] /\ dbExe' \in [Executors -> Executor]
    BY <1>9, <2>1, UpdateExecutorType DEF ReleaseExecutor, StorageOK
  <2>3. sched' \in SchedType
    BY <1>0, <1>c, <1>9, CycleType DEF ReleaseExecutor, EndCycle
  <2> QED BY <1>9, <2>2, <2>3 DEF ReleaseExecutor, StorageOK, SessionsOK, FlipsAlive, cache
<1> QED BY <1>1, <1>2, <1>3, <1>4, <1>5, <1>6, <1>7, <1>8, <1>9 DEF Schedule

\* So does a crash.
LEMMA CrashType ==
  ASSUME TypeInv, Crash
  PROVE  TypeInv'
<1> USE DEF TypeInv, TypeOK
<1>0. /\ \A pc \in WorkerPc : RetryPc(pc) \in WorkerPc /\ RetryPc(pc) # "popped"
      /\ \A pc \in WorkerPc : At(pc) \in Worker
  BY Bounds DEF RetryPc, WorkerPc, At, Worker, Task, NoTask
<1>a. ASSUME NEW kind, Fault(kind) PROVE faults' \in Nat
  BY <1>a DEF Fault
<1>1. CASE Fault("stream") /\ DrainNode /\ UNCHANGED <<call, sched>>
  <2>1. node' \in NodeType
    BY <1>1 DEF DrainNode, NodeType, NodeState
  <2> QED BY <1>1, <1>a, <2>1
    DEF DrainNode, StorageOK, SessionsOK, WorkersOK, PoppedTask, FlipsAlive, store, cache
<1>2. CASE Fault("fem") /\ FemRestart /\ UNCHANGED <<call, sched>>
  <2>1. node' \in NodeType
    BY <1>2 DEF FemRestart, NodeType, NodeState
  <2>2. WorkersOK' /\ PoppedTask'
    BY <1>0, <1>2 DEF FemRestart, WorkersOK, PoppedTask, At, WorkerPc
  <2> QED BY <1>2, <1>a, <2>1, <2>2 DEF FemRestart, StorageOK, SessionsOK, FlipsAlive
<1>3. CASE Fault("sm") /\ SmRestart
  <2>1. \A t \in TaskIds : RetriedTask(t) \in Task
    BY EngineTaskType DEF RetriedTask, StorageOK, TaskState
  <2>2. \A e \in Executors : ResetExecutor(e) \in Executor
    BY DEF ResetExecutor, StorageOK, Executor, ExecutorState
  <2>3. StorageOK'
    BY <1>3, <2>1, <2>2, StorageAssumption DEF SmRestart, LoadData, StorageOK, Task
  <2>4. SessionsOK' /\ FlipsAlive'
    BY <1>3, Bounds DEF SmRestart, SessionsOK, FlipsAlive, NoCall, CallPc, CallState
  <2>5. WorkersOK' /\ PoppedTask'
    <3>1. \A e \in Executors : worker[e].pc \in WorkerPc
      BY DEF WorkersOK, Worker
    <3> QED BY <1>0, <1>3, <3>1 DEF SmRestart, WorkersOK, PoppedTask, At
  <2>6. node' \in NodeType
    <3>1. Nothing \in [Executors -> Executor] /\ NoTask \in Task
      BY Bounds DEF Nothing, NoExecutor, Executor, NoTask, Task
    <3> QED BY <1>3, <3>1 DEF SmRestart, NodeType
  <2>7. sched' \in SchedType
    BY <1>3 DEF SmRestart, NoCycle, SchedType
  <2> QED BY <1>3, <1>a, <2>3, <2>4, <2>5, <2>6, <2>7
<1> QED BY <1>1, <1>2, <1>3 DEF Crash

\* Every step keeps the types.
LEMMA TypeNext == TypeInv /\ [Next]_vars => TypeInv'
<1> SUFFICES ASSUME TypeInv, [Next]_vars PROVE TypeInv'
  OBVIOUS
<1> USE DEF TypeInv, TypeOK
<1>1. ASSUME NEW c \in Clients, Client(c), UNCHANGED faults PROVE TypeInv'
  BY <1>1, ClientType DEF Client, WorkersOK, PoppedTask
<1>2. ASSUME NEW c \in Clients, Abandon(c), UNCHANGED faults PROVE TypeInv'
  <2>1. SessionsOK' /\ FlipsAlive'
    BY <1>2, Bounds DEF Abandon, Return, NoCall, SessionsOK, FlipsAlive, CallPc, CallState
  <2>2. lost' \in Nat
    BY <1>2 DEF Abandon, WorkersOK
  <2> QED BY <1>2, <2>1, <2>2 DEF Abandon, StorageOK, WorkersOK, PoppedTask, store, cache
<1>3. ASSUME NEW e \in Executors, Run(e), UNCHANGED faults PROVE TypeInv'
  BY <1>3, WorkerType DEF Run, SessionsOK, FlipsAlive
<1>4. CASE Reconcile /\ UNCHANGED faults
  BY <1>4, NodeStepType DEF Reconcile, SessionsOK, FlipsAlive
<1>5. CASE Schedule /\ UNCHANGED faults
  <2>1. UNCHANGED others
    BY <1>5 DEF Schedule, SnapshotSessions, SnapshotExecutors, SuspendSession, CycleDone,
                BindSession, AllocateExecutor, InterruptExecutor, ReleaseExecutor
  <2> QED BY <1>5, <2>1, ScheduleType DEF others, WorkersOK, PoppedTask
<1>6. CASE Crash
  BY <1>6, CrashType
<1>7. CASE UNCHANGED vars
  BY <1>7 DEF vars, store, cache, StorageOK, SessionsOK, WorkersOK, PoppedTask, FlipsAlive
<1> QED BY <1>1, <1>2, <1>3, <1>4, <1>5, <1>6, <1>7 DEF Next, Step0

\* Every variable of the composed system always holds a value of its type.
THEOREM TypeCorrect == Spec => []TypeOK
<1>1. Init => TypeInv
  BY TypeInit
<1>2. TypeInv /\ [Next]_vars => TypeInv'
  BY TypeNext
<1>3. TypeInv => TypeOK
  BY DEF TypeInv
<1> QED BY <1>1, <1>2, <1>3, PTL DEF Spec

---------------------------------------------------------------------------
(* Frames.                                                                 *)

\* Workers do not touch the session's state.
LEMMA WorkerFrame ==
  ASSUME NEW e \in Executors, WorkerStep(e)
  PROVE  UNCHANGED <<ssn, dbSsn>>
  BY DEF WorkerStep, Work, RegisterExecutor, WaitForSession, BindCompleted, BindFailed,
         BindRefused, StartupCleanupFailed, RelaunchTask, LaunchTask, LaunchNoTask,
         WaitForTask, LaunchWrite, WriteTask, LaunchRefused, LaunchPublish, PublishTask,
         LaunchAssign, SaveShared, CompleteTask, CompleteRefused, CompletePublish,
         CompleteClear, UnbindExecutor, UnbindExecutorCompleted, UnbindRefused,
         UnregisterExecutor, FailTask, FailPublish, UnregisterDelete, DropCall, store, cache

\* Nor do registrations and cleanups.
LEMMA NodeFrame ==
  ASSUME NodeStep
  PROVE  UNCHANGED <<ssn, dbSsn>>
  BY DEF NodeStep, RegisterNode, RegisterEnd, ShutdownNode, ShutdownEnd, StartWorker,
         RegisterRelease, ShutdownRetry, ShutdownPublish, ShutdownDelete, store, cache
============================================================================
