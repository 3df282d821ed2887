--------------------------- MODULE SuspendProofs ---------------------------
(***************************************************************************)
(* A suspended session has no executor: the proof, for any number of       *)
(* executors, clients, tasks, lost calls, outages and restarts of the      *)
(* Executor Manager.  Only a restart of the Session Manager is left out:   *)
(* it takes back a resume that was acted on but not yet stored.            *)
(***************************************************************************)
EXTENDS FlameProofs

\* A handler that has popped a task works for an executor of the session.
Launching == {"popped", "lpublish", "lassign"}
LaunchServes ==
  \A e \in execs : worker[e].pc \in Launching => exe[e].ssn_id = "s"

\* An executor that a registration is about to release has no worker, and the
\* clone that will be written back names no session the record does not name.
ListedIdle ==
  node.pc = "register" =>
    \A e \in Listed : /\ worker[e].pc = "off"
                      /\ node.listed[e].ssn_id = "s" /\ e \in execs => exe[e].ssn_id = "s"

\* Only the scheduling loop suspends, and a refused flip met a closed row.
ClientsSignal == \A c \in Clients : call[c].to # "Suspended"
RefusedClosed == \A th \in Threads : call[th].pc = "refused" => dbSsn = "Closed"

\* A cycle that completes a suspend has seen nothing serve the session and
\* binds nothing.
CycleQuiet ==
  /\ sched.suspend = "yes" => Unserved /\ sched.need = 0
  /\ sched.pc = "suspending" => sched.need = 0
  /\ call["scheduler"].pc # "idle" => sched.pc = "suspending" /\ Unserved

QuietInv ==
  /\ TypeInv /\ SuspendQuiescent /\ LaunchServes /\ ListedIdle
  /\ ClientsSignal /\ RefusedClosed /\ CycleQuiet

---------------------------------------------------------------------------
\* What a worker's step may change: its own record, which comes to name the
\* session in no step, and its own position.
LocalStep(e) ==
  /\ worker[e].pc # "off"
  /\ \A f \in Executors \ {e} : exe'[f] = exe[f] /\ worker'[f] = worker[f]
  /\ execs' \subseteq execs
  /\ e \in execs' /\ exe'[e].ssn_id = "s" => exe[e].ssn_id = "s"
  /\ e \in execs' /\ worker'[e].pc \in Launching => exe'[e].ssn_id = "s"

\* Saving a record that keeps or clears the session is such a change.
LEMMA UpdateLocal ==
  ASSUME StorageOK, WorkersOK, NEW e \in Executors, NEW new \in Executor, UpdateExecutor(e, new),
         new.ssn_id = "s" => exe[e].ssn_id = "s", execs' = execs,
         worker[e].pc # "off", NEW pc \in WorkerPc \ Launching, NEW retry \in WorkerPc \ Launching,
         Reply(e, pc, retry)
  PROVE  LocalStep(e)
<1>1. exe'[e].ssn_id = "s" => exe[e].ssn_id = "s"
  BY DEF UpdateExecutor, StorageOK, Executor
<1>2. \A f \in Executors \ {e} : exe'[f] = exe[f]
  BY DEF UpdateExecutor, StorageOK
<1>3. worker'[e].pc \notin Launching /\ \A f \in Executors \ {e} : worker'[f] = worker[f]
  BY DEF Reply, Become, At, WorkersOK
<1> QED BY <1>1, <1>2, <1>3 DEF LocalStep

\* Saving the shared record after a task is one.
LEMMA SharedLocal ==
  ASSUME StorageOK, WorkersOK, NEW e \in Executors, NEW new \in Executor,
         NEW to \in WorkerPc \ Launching, SaveShared(e, new, to), worker[e].pc # "off",
         e \in execs => (new.ssn_id = "s" => exe[e].ssn_id = "s")
  PROVE  LocalStep(e)
<1>1. exe' = [exe EXCEPT ![e] = new] /\ execs' = execs
  BY DEF SaveShared
<1>2. worker'[e].pc \notin Launching /\ \A f \in Executors \ {e} : worker'[f] = worker[f]
  BY DEF SaveShared, Reply, Become, At, WorkersOK, Launching
<1> QED BY <1>1, <1>2 DEF LocalStep, StorageOK

\* A worker's step is local.
LEMMA WorkerLocal ==
  ASSUME TypeInv, LaunchServes, NEW e \in Executors, WorkerStep(e)
  PROVE  LocalStep(e)
<1> USE DEF TypeInv, TypeOK
<1>0. exe[e] \in Executor /\ worker[e] \in Worker
  BY DEF StorageOK, WorkersOK
<1>1. CASE WaitForSession(e) \/ BindRefused(e) \/ StartupCleanupFailed(e) \/ RelaunchTask(e)
  <2>1. /\ worker[e].pc # "off" /\ UNCHANGED store
        /\ \E pc \in {"release", "enter", "idle", "unbind", "run"} :
             worker' = [worker EXCEPT ![e] = At(pc)]
    BY <1>1 DEF WaitForSession, BindRefused, StartupCleanupFailed, RelaunchTask, InMap, Become
  <2> QED BY <2>1 DEF At, WorkersOK, LocalStep, Launching, store
<1>2. CASE LaunchTask(e) \/ LaunchNoTask(e) \/ LaunchRefused(e) \/ CompleteRefused(e)
  BY <1>2 DEF LaunchTask, LaunchNoTask, LaunchRefused, CompleteRefused, InMap, Become, Step,
              At, WorkersOK, LocalStep, Launching, store
<1>3. CASE UnbindRefused(e) \/ UnregisterExecutor(e)
  BY <1>3 DEF UnbindRefused, UnregisterExecutor, InMap, Become, Step, At, WorkersOK, Worker,
              LocalStep, Launching, store
<1>4. CASE WaitForTask(e)
  BY <1>4 DEF WaitForTask, Stopped, IsUnbinding, WorkersOK, Worker, LocalStep
<1>5. CASE LaunchWrite(e)
  BY <1>5 DEF LaunchWrite, WriteTask, LaunchServes, WorkersOK, LocalStep, Launching
<1>6. CASE LaunchPublish(e)
  BY <1>6 DEF LaunchPublish, PublishTask, Become, Step, At, LaunchServes, WorkersOK, Worker,
              LocalStep, Launching
<1>7. CASE CompleteTask(e) \/ FailTask(e)
  BY <1>7 DEF CompleteTask, FailTask, InMap, WriteTask, WorkersOK, LocalStep, Launching
<1>8. CASE CompletePublish(e) \/ FailPublish(e)
  BY <1>8 DEF CompletePublish, FailPublish, PublishTask, Become, Step, At, WorkersOK, Worker,
              LocalStep, Launching
<1>9. CASE LaunchAssign(e)
  <2>1. [exe[e] EXCEPT !.task_id = worker[e].task, !.ssn_id = "s"] \in Executor
    BY <1>0 DEF Executor, Worker
  <2> QED BY <1>9, <2>1, SharedLocal DEF LaunchAssign, LaunchServes, WorkerPc, Launching
<1>10. CASE CompleteClear(e)
  <2> DEFINE new == [exe[e] EXCEPT !.task_id = 0,
                       !.ssn_id = IF exe[e].state = "Unbinding" THEN "none" ELSE @]
  <2>1. new \in Executor /\ (new.ssn_id = "s" => exe[e].ssn_id = "s")
    BY <1>0, Bounds DEF Executor
  <2>2. PICK to \in {"bound", "unbind"} : SaveShared(e, new, to)
    BY <1>10 DEF CompleteClear
  <2>3. to \in WorkerPc \ Launching /\ worker[e].pc # "off"
    BY <1>10 DEF CompleteClear, WorkerPc, Launching
  <2> HIDE DEF new
  <2> QED BY <2>1, <2>2, <2>3, SharedLocal
<1>11. CASE RegisterExecutor(e)
  <2>1. [exe[e] EXCEPT !.state = "Idle"] \in Executor
    BY <1>0, RecordType DEF ExecutorState
  <2> QED BY <1>11, <1>0, <2>1, UpdateLocal DEF RegisterExecutor, InMap, Executor, WorkerPc, Launching
<1>12. CASE BindCompleted(e)
  <2>1. [exe[e] EXCEPT !.state = "Bound"] \in Executor
    BY <1>0, RecordType DEF ExecutorState
  <2> QED BY <1>12, <1>0, <2>1, UpdateLocal DEF BindCompleted, InMap, Executor, WorkerPc, Launching
<1>13. CASE BindFailed(e)
  <2>1. [exe[e] EXCEPT !.state = "Unbinding", !.ssn_id = "none", !.task_id = 0] \in Executor
    BY <1>0, RecordType DEF ExecutorState
  <2> QED BY <1>13, <1>0, <2>1, UpdateLocal DEF BindFailed, InMap, Executor, WorkerPc, Launching
<1>14. CASE UnbindExecutorCompleted(e)
  <2>1. [exe[e] EXCEPT !.state = "Idle", !.ssn_id = "none", !.task_id = 0] \in Executor
    BY <1>0, RecordType DEF ExecutorState
  <2> QED BY <1>14, <1>0, <2>1, UpdateLocal DEF UnbindExecutorCompleted, InMap, Executor, WorkerPc, Launching
<1>15. CASE UnbindExecutor(e)
  <2>1. /\ [exe[e] EXCEPT !.state = "Unbinding"] \in Executor
        /\ [exe[e] EXCEPT !.ssn_id = "none", !.task_id = 0] \in Executor
    BY <1>0, RecordType DEF ExecutorState
  <2> QED BY <1>15, <1>0, <2>1, UpdateLocal DEF UnbindExecutor, InMap, Executor, WorkerPc, Launching
<1>16. CASE UnregisterDelete(e)
  BY <1>16, <1>0
     DEF UnregisterDelete, DeleteExecutor, Reply, Become, At, StorageOK, Executor, WorkersOK,
         LocalStep, Launching
<1>17. CASE DropCall(e)
  <2>1. RetryPc(worker[e].pc) \notin Launching /\ worker[e].pc # "off"
    BY <1>17, <1>0 DEF DropCall, RetryPc, Launching, Worker, WorkerPc
  <2> QED BY <1>17, <2>1 DEF DropCall, At, WorkersOK, LocalStep
<1> QED
  BY <1>1, <1>2, <1>3, <1>4, <1>5, <1>6, <1>7, <1>8, <1>9, <1>10, <1>11, <1>12, <1>13,
     <1>14, <1>15, <1>16, <1>17 DEF WorkerStep, Work

---------------------------------------------------------------------------
QuietStep ==
  /\ SuspendQuiescent' /\ LaunchServes' /\ ListedIdle'
  /\ ClientsSignal' /\ RefusedClosed' /\ CycleQuiet'

\* A step after which no more executors serve leaves the session's part alone.
LEMMA ServingFrame ==
  ASSUME QuietInv, Serving' \subseteq Serving, UNCHANGED <<ssn, dbSsn, call, sched>>
  PROVE  SuspendQuiescent' /\ ClientsSignal' /\ RefusedClosed' /\ CycleQuiet'
<1>1. Unserved => Unserved'
  BY DEF Unserved
<1> QED
  BY <1>1 DEF QuietInv, SuspendQuiescent, ClientsSignal, RefusedClosed, CycleQuiet, Unserved

\* A step that leaves executors, workers and the node alone keeps their part.
LEMMA ExecutorFrame ==
  ASSUME QuietInv, UNCHANGED <<execs, exe, worker, node>>
  PROVE  LaunchServes' /\ ListedIdle' /\ Serving' = Serving /\ (Unserved <=> Unserved')
  BY DEF QuietInv, LaunchServes, ListedIdle, Listed, Serving, Unserved

\* Workers.
LEMMA WorkerQuiet ==
  ASSUME QuietInv, NEW e \in Executors, Run(e)
  PROVE  QuietStep
<1>1. LocalStep(e) /\ UNCHANGED <<ssn, dbSsn, call, node, sched>>
  BY WorkerLocal, WorkerFrame DEF QuietInv, Run
<1>2. execs \subseteq Executors /\ Listed \subseteq Executors
  BY DEF QuietInv, TypeInv, TypeOK, StorageOK, Listed
<1>3. Serving' \subseteq Serving
  BY <1>1, <1>2 DEF LocalStep, Serving
<1>4. LaunchServes'
  BY <1>1, <1>2 DEF QuietInv, LaunchServes, LocalStep
<1>5. ListedIdle'
  <2>1. Listed' = Listed
    BY <1>1 DEF Listed
  <2> QED BY <1>1, <1>2, <2>1 DEF QuietInv, ListedIdle, LocalStep
<1> QED BY <1>1, <1>3, <1>4, <1>5, ServingFrame DEF QuietStep

\* Registrations and cleanups.
LEMMA NodeQuiet ==
  ASSUME QuietInv, Reconcile
  PROVE  QuietStep
<1> USE DEF QuietInv, TypeInv, TypeOK
<1>0. /\ UNCHANGED <<ssn, dbSsn, call, sched>>
      /\ execs \subseteq Executors /\ Listed \subseteq Executors
      /\ node \in NodeType /\ node.listed \in [Executors -> Executor]
  BY NodeFrame DEF Reconcile, StorageOK, Listed, NodeType
<1>1. CASE RegisterNode
  <2>1. UNCHANGED <<execs, exe, worker>>
    BY <1>1 DEF RegisterNode, store
  <2>2. ListedIdle'
    BY <1>0, <1>1, <2>1 DEF RegisterNode, ListedIdle, Listed, Reported, NodeType, NoExecutor
  <2> QED BY <1>0, <2>1, <2>2, ServingFrame DEF QuietStep, LaunchServes, Serving
<1>2. CASE RegisterEnd \/ ShutdownNode \/ ShutdownEnd
  <2>1. UNCHANGED <<execs, exe, worker>> /\ node'.pc # "register"
    BY <1>0, <1>2 DEF RegisterEnd, ShutdownNode, ShutdownEnd, NodeType, store
  <2> QED BY <1>0, <2>1, ServingFrame DEF QuietStep, LaunchServes, ListedIdle, Serving
<1>3. ASSUME NEW e \in Executors, StartWorker(e) PROVE QuietStep
  <2>1. UNCHANGED <<execs, exe, node>> /\ node.pc # "register"
    BY <1>3 DEF StartWorker, store
  <2>2. LaunchServes'
    BY <1>0, <1>3, <2>1
       DEF StartWorker, Become, At, WorkersOK, LaunchServes, Launching
  <2> QED BY <1>0, <2>1, <2>2, ServingFrame DEF QuietStep, ListedIdle, Serving
<1>4. ASSUME NEW e \in Executors, RegisterRelease(e) PROVE QuietStep
  <2>1. /\ execs' = execs /\ node.pc = "register" /\ e \in Listed
        /\ worker' = [worker EXCEPT ![e] = At("release")]
        /\ node' = [node EXCEPT !.listed = Handled(e)]
    BY <1>4 DEF RegisterRelease, Become
  <2>2. exe' = exe \/ (e \in execs /\ exe'[e].ssn_id = node.listed[e].ssn_id)
    BY <1>0, <1>4 DEF RegisterRelease, UpdateExecutor, StorageOK, Executor
  <2>3. \A f \in Executors \ {e} : exe'[f] = exe[f] /\ worker'[f] = worker[f]
    BY <1>4, <2>1 DEF RegisterRelease, UpdateExecutor, StorageOK, WorkersOK
  <2>4. node.listed[e].ssn_id \in {"none", "s"}
    BY <1>0 DEF Executor
  <2>5. Serving' \subseteq Serving
    BY <1>0, <2>1, <2>2, <2>3 DEF Serving, ListedIdle
  <2>6. LaunchServes'
    BY <1>0, <2>1, <2>3 DEF LaunchServes, Launching, At, WorkersOK
  <2>7. Listed' = Listed \ {e} /\ \A f \in Listed' : node'.listed[f] = node.listed[f]
    BY <1>0, <2>1 DEF Listed, Handled, NodeType, NoExecutor
  <2>8. ListedIdle'
    BY <1>0, <2>1, <2>3, <2>7 DEF ListedIdle
  <2> QED BY <1>0, <2>5, <2>6, <2>8, ServingFrame DEF QuietStep
<1>5. ASSUME NEW e \in Executors, ShutdownRetry(e) \/ ShutdownPublish(e) \/ ShutdownDelete(e)
      PROVE  QuietStep
  <2>1. UNCHANGED <<exe, worker>> /\ execs' \subseteq execs
    BY <1>5 DEF ShutdownRetry, ShutdownPublish, ShutdownDelete, DeleteExecutor
  <2>2. node'.pc # "register"
    BY <1>0, <1>5 DEF ShutdownRetry, ShutdownPublish, ShutdownDelete, NodeType
  <2> QED BY <1>0, <2>1, <2>2, ServingFrame DEF QuietStep, LaunchServes, ListedIdle, Serving
<1> QED BY <1>1, <1>2, <1>3, <1>4, <1>5 DEF Reconcile, NodeStep

\* Outages and restarts of the Executor Manager.
LEMMA CrashQuiet ==
  ASSUME QuietInv, "sm" \notin FaultKinds, Crash
  PROVE  QuietStep
<1> USE DEF QuietInv, TypeInv, TypeOK
<1>1. UNCHANGED <<ssn, dbSsn, call, sched, execs, exe>>
  BY DEF Crash, Fault, DrainNode, FemRestart, store, cache
<1>2. node'.listed = node.listed /\ node'.pc = node.pc
  BY DEF Crash, Fault, DrainNode, FemRestart, NodeType
<1>3. worker' = worker \/ worker' = [e \in Executors |-> At("off")]
  BY DEF Crash, Fault, DrainNode, FemRestart
<1>4. Serving' = Serving /\ Listed' = Listed
  BY <1>1, <1>2 DEF Serving, Listed
<1>5. execs \subseteq Executors /\ Listed \subseteq Executors
  BY DEF StorageOK, Listed
<1>6. LaunchServes' /\ ListedIdle'
  BY <1>1, <1>2, <1>3, <1>4, <1>5 DEF LaunchServes, ListedIdle, Launching, At
<1> QED BY <1>1, <1>4, <1>6, ServingFrame DEF QuietStep

---------------------------------------------------------------------------
\* What every step of a session call keeps: the other threads' calls, a
\* closed row, and the reason of a refusal.  It shows Suspended only when
\* that is what the call asks for, or when the row is closed.
CallFrame(th) ==
  /\ \A o \in Threads \ {th} : call'[o] = call[o]
  /\ dbSsn = "Closed" => dbSsn' = "Closed"
  /\ RefusedClosed'
  /\ ssn' = "Suspended" /\ dbSsn' # "Closed" => ssn = "Suspended" \/ call[th].to = "Suspended"

LEMMA FlipFrame ==
  ASSUME QuietInv, NEW th \in Threads, UpdateSessionState(th)
  PROVE  /\ CallFrame(th) /\ UNCHANGED <<execs, exe>>
         /\ call[th].pc # "idle" /\ call'[th].to \in {call[th].to, "None"}
<1> USE DEF QuietInv, TypeInv, TypeOK, SessionsOK
<1>1. CASE FlipState(th)
  BY <1>1 DEF FlipState, Return, NoCall, CallFrame, RefusedClosed
<1>2. CASE FlipStateEngine(th)
  BY <1>2 DEF FlipStateEngine, Goto, Return, NoCall, CallFrame, RefusedClosed, cache
<1>3. CASE FlipStateUndo(th)
  BY <1>3 DEF FlipStateUndo, Return, NoCall, CallFrame, RefusedClosed
<1> QED BY <1>1, <1>2, <1>3 DEF UpdateSessionState

\* Clients.
LEMMA ClientFrame ==
  ASSUME QuietInv, NEW c \in Clients, ClientStep(c)
  PROVE  /\ CallFrame(c) /\ UNCHANGED <<execs, exe>>
         /\ call'[c].to # "Suspended"
<1> USE DEF QuietInv, TypeInv, TypeOK, SessionsOK
<1>0. c \in Threads /\ call[c].to # "Suspended"
  BY DEF Threads, ClientsSignal
<1>1. CASE CreateTask(c) \/ CreateTaskPublish(c)
  BY <1>0, <1>1 DEF CreateTask, CreateTaskPublish, Return, NoCall, CallFrame, RefusedClosed, cache
<1>2. CASE CloseSession(c) \/ CloseSessionEngine(c)
  BY <1>0, <1>2 DEF CloseSession, CloseSessionEngine, EngineCloseSession, Goto, Return, NoCall,
                    CallFrame, RefusedClosed, cache, store
<1>3. CASE CloseSessionPublish(c) \/ NotifierRemove(c)
  BY <1>0, <1>3 DEF CloseSessionPublish, NotifierRemove, Goto, Return, NoCall, CallFrame,
                    RefusedClosed
<1>4. CASE SignalSession(c) \/ ResumeSession(c)
  BY <1>0, <1>4 DEF SignalSession, ResumeSession, Admit, CallFrame, RefusedClosed, store, cache
<1>5. CASE UpdateSessionState(c)
  BY <1>0, <1>5, FlipFrame
<1> QED BY <1>1, <1>2, <1>3, <1>4, <1>5 DEF ClientStep, Continue

LEMMA ClientQuiet ==
  ASSUME QuietInv, NEW c \in Clients, Client(c) \/ Abandon(c)
  PROVE  QuietStep
<1>0. c \in Threads /\ c # "scheduler"
  BY SessionsAssumption DEF Threads
<1>1. CallFrame(c) /\ UNCHANGED <<execs, exe, worker, node, sched>> /\ call'[c].to # "Suspended"
  <2>1. CASE Client(c)
    BY <2>1, ClientFrame DEF Client
  <2>2. CASE Abandon(c)
    BY <1>0, <2>2 DEF Abandon, Return, NoCall, CallFrame, RefusedClosed, store, cache, QuietInv,
                      TypeInv, TypeOK, SessionsOK
  <2> QED BY <2>1, <2>2
<1>2. LaunchServes' /\ ListedIdle' /\ Serving' = Serving /\ (Unserved <=> Unserved')
  BY <1>1, ExecutorFrame
<1>3. SuspendQuiescent'
  BY <1>0, <1>1, <1>2 DEF CallFrame, SuspendQuiescent, QuietInv, ClientsSignal
<1>4. ClientsSignal' /\ RefusedClosed'
  BY <1>0, <1>1 DEF CallFrame, ClientsSignal, QuietInv, Threads
<1>5. CycleQuiet'
  <2>1. call'["scheduler"] = call["scheduler"]
    BY <1>0, <1>1 DEF CallFrame, Threads
  <2> QED BY <1>1, <1>2, <2>1 DEF CycleQuiet, QuietInv
<1> QED BY <1>2, <1>3, <1>4, <1>5 DEF QuietStep

---------------------------------------------------------------------------
\* The scheduling loop.
LEMMA ScheduleQuiet ==
  ASSUME QuietInv, Schedule
  PROVE  QuietStep
<1> USE DEF QuietInv, TypeInv, TypeOK
<1>0. /\ "scheduler" \in Threads /\ sched \in SchedType
      /\ execs \subseteq Executors /\ exe \in [Executors -> Executor]
      /\ Listed \subseteq Executors
  BY DEF Threads, StorageOK, Listed
<1>1. CASE SnapshotSessions \/ CycleDone
  <2>1. UNCHANGED <<ssn, dbSsn, call, execs, exe, worker, node>>
    BY <1>1 DEF SnapshotSessions, CycleDone, store, cache, others
  <2>2. CASE SnapshotSessions
    <3>1. sched'.suspend = sched.suspend /\ sched'.need = sched.need /\ sched'.pc = "executors"
          /\ sched.pc = "wait"
      BY <1>0, <2>2 DEF SnapshotSessions, SchedType
    <3> QED BY <2>1, <3>1, ExecutorFrame
            DEF QuietStep, SuspendQuiescent, ClientsSignal, RefusedClosed, CycleQuiet
  <2>3. CASE CycleDone
    <3>1. sched' = NoCycle /\ call["scheduler"].pc = "idle"
      BY <1>0, <2>3 DEF CycleDone, EndCycle, Releasing, Shuffling, CycleQuiet
    <3> QED BY <2>1, <3>1, ExecutorFrame
            DEF QuietStep, SuspendQuiescent, ClientsSignal, RefusedClosed, CycleQuiet, NoCycle
  <2> QED BY <1>1, <2>2, <2>3
<1>2. CASE SnapshotExecutors
  <2>1. UNCHANGED <<ssn, dbSsn, call, execs, exe, worker, node>>
    BY <1>2 DEF SnapshotExecutors, store, cache, others
  <2>2. call["scheduler"].pc = "idle"
    BY <1>2 DEF SnapshotExecutors, CycleQuiet
  <2>3. /\ sched'.suspend = "yes" => Unserved /\ sched'.need = 0
        /\ sched'.pc # "suspending"
    BY <1>2 DEF SnapshotExecutors, EndCycle, NoCycle, YesNo
  <2> QED BY <2>1, <2>2, <2>3, ExecutorFrame
          DEF QuietStep, SuspendQuiescent, ClientsSignal, RefusedClosed, CycleQuiet
<1>3. CASE SuspendSession
  <2>1. UNCHANGED <<ssn, dbSsn, execs, exe, worker, node>>
    BY <1>3 DEF SuspendSession, Admit, store, cache, others
  <2>2. /\ sched' = [sched EXCEPT !.pc = "suspending", !.suspend = "no"]
        /\ sched.suspend = "yes" /\ Unserved /\ sched.need = 0
    BY <1>3 DEF SuspendSession, CycleQuiet
  <2>3. sched'.need = 0 /\ sched'.suspend = "no" /\ sched'.pc = "suspending"
    BY <1>0, <2>2 DEF SchedType
  <2>4. ClientsSignal' /\ RefusedClosed'
    BY <1>0, <1>3, <2>1, SessionsAssumption
       DEF SuspendSession, Admit, ClientsSignal, RefusedClosed, SessionsOK, Threads, store, cache
  <2> QED BY <2>1, <2>2, <2>3, <2>4, ExecutorFrame
          DEF QuietStep, SuspendQuiescent, CycleQuiet
<1>4. CASE UpdateSessionState("scheduler") /\ UNCHANGED <<sched, others>>
  <2>1. /\ CallFrame("scheduler") /\ UNCHANGED <<execs, exe, worker, node, sched>>
        /\ call["scheduler"].pc # "idle"
    BY <1>0, <1>4, FlipFrame DEF others
  <2>2. LaunchServes' /\ ListedIdle' /\ Serving' = Serving /\ (Unserved <=> Unserved')
    BY <2>1, ExecutorFrame
  <2>3. Unserved /\ sched.pc = "suspending" /\ sched.need = 0
    BY <2>1 DEF CycleQuiet
  <2>4. SuspendQuiescent'
    BY <2>2, <2>3 DEF SuspendQuiescent, Unserved
  <2>5. ClientsSignal'
    BY <2>1, SessionsAssumption DEF CallFrame, ClientsSignal, Threads
  <2>6. CycleQuiet'
    BY <2>1, <2>2, <2>3 DEF CycleQuiet
  <2> QED BY <2>1, <2>2, <2>4, <2>5, <2>6 DEF QuietStep, CallFrame
<1>5. ASSUME NEW e \in Executors,
             BindSession(e) \/ AllocateExecutor(e) \/ InterruptExecutor(e) \/ ReleaseExecutor(e)
      PROVE  QuietStep
  <2>1. UNCHANGED <<ssn, dbSsn, call, worker, node>>
    BY <1>5 DEF BindSession, AllocateExecutor, InterruptExecutor, ReleaseExecutor, store, cache,
                others
  <2>2. call["scheduler"].pc = "idle"
    BY <1>5 DEF BindSession, AllocateExecutor, InterruptExecutor, ReleaseExecutor, CycleQuiet,
                Dispatching, Allocating, Reclaiming, Releasing, Shuffling
  <2>3. ClientsSignal' /\ RefusedClosed'
    BY <2>1 DEF ClientsSignal, RefusedClosed
  <2>4. CASE BindSession(e) /\ sched' # NoCycle
    <3>1. /\ ssn = "Open" /\ e \in execs /\ sched.pc = "cycle" /\ sched.need > 0
          /\ UpdateExecutor(e, [exe[e] EXCEPT !.state = "Binding", !.ssn_id = "s"])
          /\ sched' = [sched EXCEPT !.need = @ - 1, !.free = @ \ {e}, !.idle = @ \ {e}]
          /\ execs' = execs
      BY <2>4 DEF BindSession, EndCycle, Dispatching
    <3>2. sched'.pc = "cycle" /\ sched'.suspend = sched.suspend
      BY <1>0, <3>1 DEF SchedType
    <3>3. sched.suspend # "yes"
      BY <1>0, <3>1 DEF CycleQuiet
    <3>4. /\ exe'[e].ssn_id = "s"
          /\ \A f \in Executors \ {e} : exe'[f] = exe[f]
      BY <1>0, <3>1 DEF UpdateExecutor, Executor
    <3>5. LaunchServes' /\ ListedIdle'
      BY <1>0, <2>1, <3>1, <3>4 DEF LaunchServes, ListedIdle, Listed
    <3> QED BY <2>1, <2>2, <2>3, <3>1, <3>2, <3>3, <3>5
            DEF QuietStep, CycleQuiet, SuspendQuiescent
  <2>5. CASE BindSession(e) /\ sched' = NoCycle
    <3>1. exe' = exe /\ execs' = execs
      BY <1>0, <2>4, <2>5 DEF BindSession, EndCycle, Dispatching, NoCycle, SchedType
    <3> QED BY <2>1, <2>2, <2>3, <2>5, <3>1, ExecutorFrame
            DEF QuietStep, CycleQuiet, SuspendQuiescent, NoCycle
  <2>6. CASE AllocateExecutor(e)
    <3>1. /\ execs' = execs \cup {e} /\ exe'[e].ssn_id = "none" /\ worker[e].pc = "off"
          /\ \A f \in Executors \ {e} : exe'[f] = exe[f]
          /\ e \notin execs /\ e \notin Listed
      BY <1>0, <2>6 DEF AllocateExecutor, CreateExecutor, NoExecutor, Fresh
    <3>2. /\ sched'.need = 0 /\ sched'.pc = sched.pc /\ sched'.suspend = sched.suspend
      BY <1>0, <2>6 DEF AllocateExecutor, SchedType
    <3>3. Serving' = Serving /\ Listed' = Listed
      BY <1>0, <2>1, <3>1 DEF Serving, Listed
    <3>4. LaunchServes' /\ ListedIdle'
      BY <1>0, <2>1, <3>1, <3>3 DEF LaunchServes, ListedIdle, Launching
    <3> QED BY <2>1, <2>2, <2>3, <3>2, <3>3, <3>4
            DEF QuietStep, CycleQuiet, SuspendQuiescent, Unserved
  <2>7. CASE InterruptExecutor(e) \/ ReleaseExecutor(e)
    <3>1. execs' = execs /\ \A f \in Executors : exe'[f].ssn_id = exe[f].ssn_id
      <4>1. CASE InterruptExecutor(e)
        BY <1>0, <4>1 DEF InterruptExecutor, Executor
      <4>2. CASE ReleaseExecutor(e)
        <5>1. exe[e] \in Executor /\ execs' = execs
          BY <1>0, <4>2 DEF ReleaseExecutor
        <5>2. CASE UpdateExecutor(e, [exe[e] EXCEPT !.state = "Releasing"])
          <6>1. \A f \in Executors \ {e} : exe'[f] = exe[f]
            BY <1>0, <5>2 DEF UpdateExecutor
          <6>2. exe'[e].ssn_id = exe[e].ssn_id
            BY <1>0, <5>1, <5>2 DEF UpdateExecutor, Executor
          <6> QED BY <5>1, <6>1, <6>2
        <5> QED BY <4>2, <5>1, <5>2 DEF ReleaseExecutor
      <4> QED BY <2>7, <4>1, <4>2
    <3>2. \/ sched' = NoCycle
          \/ /\ sched'.need \in {0, sched.need} /\ sched'.pc = sched.pc
             /\ sched'.suspend = sched.suspend
      BY <1>0, <2>7 DEF InterruptExecutor, ReleaseExecutor, EndCycle, SchedType
    <3>3. Serving' = Serving /\ Listed' = Listed
      BY <1>0, <2>1, <3>1 DEF Serving, Listed
    <3>4. LaunchServes' /\ ListedIdle'
      BY <1>0, <2>1, <3>1, <3>3 DEF LaunchServes, ListedIdle
    <3> QED BY <2>1, <2>2, <2>3, <3>2, <3>3, <3>4
            DEF QuietStep, CycleQuiet, SuspendQuiescent, Unserved, NoCycle
  <2> QED BY <1>5, <2>4, <2>5, <2>6, <2>7
<1> QED BY <1>1, <1>2, <1>3, <1>4, <1>5 DEF Schedule

---------------------------------------------------------------------------
LEMMA QuietNext ==
  ASSUME QuietInv, "sm" \notin FaultKinds, [Next]_vars
  PROVE  QuietInv'
<1>1. TypeInv'
  BY TypeNext DEF QuietInv
<1>2. CASE Next
  BY <1>1, <1>2, WorkerQuiet, NodeQuiet, CrashQuiet, ClientQuiet, ScheduleQuiet
     DEF Next, Step0, QuietStep, QuietInv
<1>3. CASE UNCHANGED vars
  <2>1. UNCHANGED <<ssn, dbSsn, call, sched, execs, exe, worker, node>>
    BY <1>3 DEF vars, store, cache
  <2> QED BY <1>1, <2>1, ServingFrame, ExecutorFrame DEF QuietInv
<1> QED BY <1>2, <1>3

\* Unless the Session Manager restarts, a session that shows Suspended and is
\* not closed has no executor: shuffle's "the snapshot cannot miss one".
THEOREM SuspendIsQuiescent ==
  ASSUME "sm" \notin FaultKinds
  PROVE  Spec => []SuspendQuiescent
<1>1. Init => QuietInv
  <2> SUFFICES ASSUME Init PROVE QuietInv
    OBVIOUS
  <2>1. TypeInv
    BY TypeInit
  <2> QED
    BY <2>1 DEF Init, StorageInit, SessionsInit, WorkersInit, NodesInit, SchedulerInit,
                NoCycle, NoCall, QuietInv, SuspendQuiescent, LaunchServes, ListedIdle,
                ClientsSignal, RefusedClosed, CycleQuiet, Serving, Unserved, Threads
<1>2. QuietInv /\ [Next]_vars => QuietInv'
  BY QuietNext
<1>3. QuietInv => SuspendQuiescent
  BY DEF QuietInv
<1> QED BY <1>1, <1>2, <1>3, PTL DEF Spec
============================================================================
