------------------------------ MODULE Storage ------------------------------
(***************************************************************************)
(* The Session Manager's storage for one session: the cached records that  *)
(* the controller and the scheduler read, and the rows the engine keeps    *)
(* across a restart.  Every cached record has its own mutex; the engine is *)
(* awaited with no mutex held.  The operators below are therefore the two  *)
(* kinds of atomic step the handlers are made of: one engine transaction,  *)
(* or one lock section.  Sessions share no task state, so one is enough.   *)
(***************************************************************************)
EXTENDS Naturals, FiniteSets

CONSTANTS Executors,     \* executor ids
          MaxTask,       \* bound on the tasks created in the session
          RetryLimit     \* recovery.session.retry_limits

ASSUME StorageAssumption ==
  IsFiniteSet(Executors) /\ MaxTask \in Nat /\ RetryLimit \in Nat

VARIABLES
  ssn,       \* cached SessionState
  retries,   \* cached retry_count, counted up to RetryLimit
  tasks,     \* cached tasks of the session
  index,     \* tasks_index: the state whose index holds the task, "None" if none does
  subs,      \* executors whose launch_task is subscribed to the session's tasks
  execs,     \* ids in the executor map
  exe,       \* what the executor pointers hold, also after their removal from the map
  dbSsn, dbTasks, dbExe   \* the engine's rows

cache == <<ssn, retries, tasks, index, subs>>
store == <<cache, execs, exe, dbSsn, dbTasks, dbExe>>

SessionState == {"Open", "Suspending", "Suspended", "Closed"}
TaskState == {"Pending", "Running", "Succeed", "Failed", "Cancelled"}
ExecutorState ==
  {"Void", "Idle", "Binding", "Bound", "Unbinding", "Releasing", "Released"}

TaskIds == 1..MaxTask
NoTask == [state |-> "None", version |-> 0]
Task == [state : TaskState \cup {"None"}, version : Nat]

\* ssn_id is "s" for the session, task_id 0 for none.
Executor == [state : ExecutorState \cup {"None"}, ssn_id : {"none", "s"},
             task_id : 0..MaxTask, signal : {"none", "Interrupt"}]
NoExecutor ==
  [state |-> "None", ssn_id |-> "none", task_id |-> 0, signal |-> "none"]

StorageInit ==
  /\ ssn = "Open" /\ dbSsn = "Open"
  /\ retries = 0
  /\ tasks = [t \in TaskIds |-> NoTask] /\ dbTasks = tasks
  /\ index = [t \in TaskIds |-> "None"]
  /\ subs = {} /\ execs = {}
  /\ exe = [e \in Executors |-> NoExecutor] /\ dbExe = exe

StorageOK ==
  /\ ssn \in SessionState /\ dbSsn \in SessionState
  /\ retries \in 0..RetryLimit
  /\ tasks \in [TaskIds -> Task] /\ dbTasks \in [TaskIds -> Task]
  /\ index \in [TaskIds -> TaskState \cup {"None"}]
  /\ subs \subseteq Executors /\ execs \subseteq Executors
  /\ exe \in [Executors -> Executor] /\ dbExe \in [Executors -> Executor]

---------------------------------------------------------------------------
(* Lock sections of the cached session.                                    *)

InIndex(s) == {t \in TaskIds : index[t] = s}

\* Mutant: an older row that arrives late replaces a newer one.
UpdateTaskUnversioned(t, new) ==
  /\ tasks' = [tasks EXCEPT ![t] = new]
  /\ index' = [index EXCEPT ![t] = new.state]

\* Session::update_task: an update that is not newer is ignored.
UpdateTask(t, new) ==
  IF tasks[t].version >= new.version
  THEN UNCHANGED <<tasks, index>>
  ELSE /\ tasks' = [tasks EXCEPT ![t] = new]
       /\ index' = [index EXCEPT ![t] = new.state]

\* Mutant: the task stays in the index.
PopPendingTaskKept(t) ==
  /\ t \in InIndex("Pending")
  /\ \A u \in InIndex("Pending") : t <= u
  /\ UNCHANGED index

\* Session::pop_pending_task: the oldest task leaves the index, not the session.
PopPendingTask(t) ==
  /\ t \in InIndex("Pending")
  /\ \A u \in InIndex("Pending") : t <= u
  /\ index' = [index EXCEPT ![t] = "None"]

---------------------------------------------------------------------------
(* Transactions of the SQLite engine.                                      *)

FreeIds == {t \in TaskIds : dbTasks[t].state = "None"}

\* create_task: the next id, unless the session row is Closed.
EngineCreateTask(t) ==
  /\ dbSsn # "Closed"
  /\ t \in FreeIds /\ \A u \in FreeIds : t <= u
  /\ dbTasks' = [dbTasks EXCEPT ![t] = [state |-> "Pending", version |-> 1]]

\* The row that update_task_state, update_task_result and retry_task return;
\* none of them looks at the state it overwrites or at the session.
EngineTask(t, s) == [state |-> s, version |-> dbTasks[t].version + 1]
EngineWriteTask(t, s) == dbTasks' = [dbTasks EXCEPT ![t] = EngineTask(t, s)]

\* close_session: refused while a task row is Running; Pending rows are
\* cancelled and keep their version.
EngineRunning == \E t \in TaskIds : dbTasks[t].state = "Running"
EngineCloseSession ==
  /\ dbTasks' = [t \in TaskIds |->
                   IF dbTasks[t].state = "Pending"
                   THEN [dbTasks[t] EXCEPT !.state = "Cancelled"] ELSE dbTasks[t]]
  /\ dbSsn' = "Closed"

---------------------------------------------------------------------------
(* Executors: Storage::create_executor, update_executor, delete_executor.  *)

CreateExecutor(e) ==
  LET new == [NoExecutor EXCEPT !.state = "Void"]
  IN  /\ execs' = execs \cup {e}
      /\ exe' = [exe EXCEPT ![e] = new]
      /\ dbExe' = [dbExe EXCEPT ![e] = new]

\* The engine saves the row, then the cached record takes state, task and
\* session from it.  A volatile signal survives, except in Idle (set_state).
UpdateExecutor(e, new) ==
  LET kept == IF new.state = "Idle" THEN "none" ELSE exe[e].signal
  IN  /\ dbExe[e].state # "None"
      /\ dbExe' = [dbExe EXCEPT ![e] = [new EXCEPT !.signal = "none"]]
      /\ exe' = IF e \in execs
                THEN [exe EXCEPT ![e] = [new EXCEPT !.signal = kept]] ELSE exe

\* Mutant: the row is deleted, the map keeps the record.
DeleteExecutorRow(e) ==
  /\ dbExe' = [dbExe EXCEPT ![e] = NoExecutor]
  /\ UNCHANGED execs

DeleteExecutor(e) ==
  /\ dbExe' = [dbExe EXCEPT ![e] = NoExecutor]
  /\ execs' = execs \ {e}

---------------------------------------------------------------------------
(* Storage::load_data, before a restarted Session Manager serves: running  *)
(* tasks of an open session are retried, executors caught in Binding go    *)
(* back to Idle and keep their task_id.                                    *)

RetriedTask(t) ==
  IF dbTasks[t].state = "Running" /\ dbSsn = "Open"
  THEN EngineTask(t, "Pending") ELSE dbTasks[t]
\* Mutant: the session id survives the reset.
ResetExecutorState(e) ==
  IF dbExe[e].state = "Binding" THEN [dbExe[e] EXCEPT !.state = "Idle"] ELSE dbExe[e]

ResetExecutor(e) ==
  IF dbExe[e].state = "Binding"
  THEN [dbExe[e] EXCEPT !.state = "Idle", !.ssn_id = "none"] ELSE dbExe[e]

\* Mutant: every session is loaded as Open.
LoadDataOpen ==
  /\ ssn' = "Open"
  /\ retries' = 0 /\ subs' = {}
  /\ tasks' = dbTasks
  /\ index' = [t \in TaskIds |-> dbTasks[t].state]
  /\ exe' = dbExe
  /\ execs' = {e \in Executors : dbExe[e].state # "None"}
  /\ UNCHANGED <<dbSsn, dbTasks, dbExe>>

LoadData ==
  /\ ssn' = dbSsn
  /\ retries' = 0 /\ subs' = {}
  /\ dbTasks' = [t \in TaskIds |-> RetriedTask(t)]
  /\ tasks' = [t \in TaskIds |-> RetriedTask(t)]
  /\ index' = [t \in TaskIds |-> RetriedTask(t).state]
  /\ dbExe' = [e \in Executors |-> ResetExecutor(e)]
  /\ exe' = [e \in Executors |-> ResetExecutor(e)]
  /\ execs' = {e \in Executors : dbExe[e].state # "None"}
  /\ UNCHANGED dbSsn
============================================================================
