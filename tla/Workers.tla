------------------------------ MODULE Workers ------------------------------
(***************************************************************************)
(* One worker of the Executor Manager per executor, and the Session        *)
(* Manager handlers its calls run.  A worker is sequential: it makes one   *)
(* call, waits for the answer and, on an error, makes the call of its      *)
(* local state again.  launch_task, complete_task and unregister_executor  *)
(* await the engine between lock sections, so each is several steps; the   *)
(* other handlers change only the executor's own record, in one step.      *)
(***************************************************************************)
EXTENDS Storage

VARIABLES
  worker,    \* where each worker, or the handler it waits for, is
  lost       \* how many more calls may be lost and cleanups fail

\* "off" .. "release" are the worker's local states; the others are points
\* inside a handler: wait to lassign of launch_task, c* of complete_task,
\* fpublish and delete of unregister_executor.  A check and the engine
\* transaction that follows it are one step: what others do between the two
\* touches other state than the transaction and could as well come after it.
WorkerPc == {"off", "void", "idle", "enter", "bound", "run", "unbind", "leave", "release",
             "wait", "popped", "lpublish", "lassign", "cpublish", "cclear",
             "fpublish", "delete"}
Worker == [pc : WorkerPc, task : 0..MaxTask, new : Task]
At(pc) == [pc |-> pc, task |-> 0, new |-> NoTask]

WorkersInit == worker = [e \in Executors |-> At("off")]
WorkersOK == worker \in [Executors -> Worker] /\ lost \in Nat

Step(e, pc) == worker' = [worker EXCEPT ![e].pc = pc] /\ UNCHANGED lost
Become(e, pc) == worker' = [worker EXCEPT ![e] = At(pc)] /\ UNCHANGED lost

\* The handler is done.  The worker moves on, or its answer is lost and the
\* worker is back where it makes the same call.
Reply(e, pc, retry) ==
  \/ Become(e, pc)
  \/ /\ lost > 0
     /\ lost' = lost - 1
     /\ worker' = [worker EXCEPT ![e] = At(retry)]

InMap(e, pc) == worker[e].pc = pc /\ e \in execs

---------------------------------------------------------------------------
(* Registration and binding.                                               *)

RegisterExecutor(e) ==
  /\ InMap(e, "void")
  /\ exe[e].state = "Void"
  /\ UpdateExecutor(e, [exe[e] EXCEPT !.state = "Idle"])
  /\ Reply(e, "idle", "void")
  /\ UNCHANGED <<cache, execs, dbSsn, dbTasks>>

\* Controller::wait_for_session; a worker without a session waits.
WaitForSession(e) ==
  /\ InMap(e, "idle")
  /\ LET leaving == exe[e].state \in {"Releasing", "Released"}
     IN  \/ leaving /\ Become(e, "release")
         \/ /\ ~leaving /\ exe[e].ssn_id = "s"
            /\ Become(e, IF ssn = "Open" THEN "enter" ELSE "release")
  /\ UNCHANGED store

\* The session was entered: bind_session_success.
BindCompleted(e) ==
  /\ InMap(e, "enter")
  /\ exe[e].state = "Binding" /\ exe[e].ssn_id = "s"
  /\ UpdateExecutor(e, [exe[e] EXCEPT !.state = "Bound"])
  /\ Reply(e, "bound", "idle")
  /\ UNCHANGED <<cache, execs, dbSsn, dbTasks>>

\* The instance or on_session_enter failed: bind_session_failed.
BindFailed(e) ==
  /\ InMap(e, "enter")
  /\ exe[e].state = "Binding" /\ exe[e].ssn_id = "s"
  /\ retries' = IF retries < RetryLimit THEN retries + 1 ELSE retries
  /\ UpdateExecutor(e, [exe[e] EXCEPT !.state = "Unbinding", !.ssn_id = "none",
                                      !.task_id = 0])
  /\ Reply(e, "unbind", "idle")
  /\ UNCHANGED <<ssn, tasks, index, subs, execs, dbSsn, dbTasks>>

\* Any other executor state, or a missing record, refuses the completion.
BindRefused(e) ==
  /\ worker[e].pc = "enter"
  /\ e \notin execs \/ exe[e].state # "Binding" \/ exe[e].ssn_id # "s"
  /\ Become(e, "idle")
  /\ UNCHANGED store

\* The instance failed to start and to clean up (IdleState::create_instance).
StartupCleanupFailed(e) ==
  /\ worker[e].pc = "enter"
  /\ lost > 0
  /\ lost' = lost - 1
  /\ worker' = [worker EXCEPT ![e] = At("release")]
  /\ UNCHANGED store

---------------------------------------------------------------------------
(* Tasks.                                                                  *)

IsUnbinding(e) ==
  exe[e].state \in {"Unbinding", "Releasing", "Released"} \/ exe[e].ssn_id # "s"
IsInterrupted(e) == exe[e].signal = "Interrupt"

\* launch_task answers at once, with the task the executor already has, or
\* with none to an executor without a session, which unbinds ...
RelaunchTask(e) ==
  /\ InMap(e, "bound")
  /\ exe[e].ssn_id = "s" => exe[e].task_id # 0 /\ tasks[exe[e].task_id].state # "None"
  /\ Become(e, IF exe[e].ssn_id = "none" THEN "unbind" ELSE "run")
  /\ UNCHANGED store

\* ... or waits; the handler keeps the pointers it has got.
LaunchTask(e) ==
  /\ InMap(e, "bound")
  /\ exe[e].ssn_id = "s" /\ exe[e].task_id = 0
  /\ Step(e, "wait")
  /\ subs' = subs \cup {e}
  /\ UNCHANGED <<ssn, retries, tasks, index, execs, exe, dbSsn, dbTasks, dbExe>>

Stopped(e) == ssn # "Open" \/ IsUnbinding(e) \/ IsInterrupted(e)

\* It gives up when it must stop, or when its task channel was closed.
LaunchNoTask(e) ==
  /\ worker[e].pc = "wait"
  /\ Stopped(e) \/ e \notin subs
  /\ Become(e, "unbind")
  /\ subs' = subs \ {e}
  /\ UNCHANGED <<ssn, retries, tasks, index, execs, exe, dbSsn, dbTasks, dbExe>>

\* It takes the oldest pending task.
WaitForTask(e) ==
  /\ worker[e].pc = "wait"
  /\ ~Stopped(e)
  /\ \E t \in TaskIds :
       /\ PopPendingTask(t)
       /\ worker' = [worker EXCEPT ![e].pc = "popped", ![e].task = t]
  /\ subs' = subs \ {e}
  /\ UNCHANGED <<lost, ssn, retries, tasks, execs, exe, dbSsn, dbTasks, dbExe>>

\* The engine transaction of a handler that sets the state of task t.
WriteTask(e, t, s, to) ==
  /\ EngineWriteTask(t, s)
  /\ worker' = [worker EXCEPT ![e] = [pc |-> to, task |-> t, new |-> EngineTask(t, s)]]
  /\ UNCHANGED <<lost, cache, execs, exe, dbSsn, dbExe>>

\* The executor's state is read again.  A session that is closed by now, or
\* an executor that is leaving, costs the handler the task it has popped.
LaunchWrite(e) ==
  /\ worker[e].pc = "popped"
  /\ exe[e].state = "Bound" /\ ssn # "Closed"
  /\ WriteTask(e, worker[e].task, "Running", "lpublish")

\* Mutant: a suspending session refuses the popped task too.
LaunchRefusedSuspending(e) ==
  /\ worker[e].pc = "popped"
  /\ exe[e].state # "Bound" \/ ssn # "Open"
  /\ Become(e, "bound")
  /\ UNCHANGED store

LaunchRefused(e) ==
  /\ worker[e].pc = "popped"
  /\ exe[e].state # "Bound" \/ ssn = "Closed"
  /\ Become(e, IF exe[e].state = "Unbinding" THEN "unbind" ELSE "bound")
  /\ UNCHANGED store

\* Its second lock section: refused by a close published meanwhile.
PublishTask(e, from, to, retry) ==
  /\ worker[e].pc = from
  /\ IF ssn = "Closed"
     THEN Become(e, retry) /\ UNCHANGED <<tasks, index>>
     ELSE UpdateTask(worker[e].task, worker[e].new) /\ Step(e, to)
  /\ UNCHANGED <<ssn, retries, subs, execs, exe, dbSsn, dbTasks, dbExe>>

LaunchPublish(e) == PublishTask(e, "lpublish", "lassign", "bound")

\* A handler that changed the shared record saves it; the row is gone if
\* the executor was deleted meanwhile.
SaveShared(e, new, to) ==
  /\ exe' = [exe EXCEPT ![e] = new]
  /\ IF dbExe[e].state # "None"
     THEN /\ dbExe' = [dbExe EXCEPT ![e] = [new EXCEPT !.signal = "none"]]
          /\ Reply(e, to, "bound")
     ELSE UNCHANGED dbExe /\ Become(e, "bound")
  /\ UNCHANGED <<cache, execs, dbSsn, dbTasks>>

\* Mutant: the executor's record does not name the task.
LaunchAssignUnnamed(e) ==
  /\ worker[e].pc = "lassign"
  /\ SaveShared(e, exe[e], "run")

LaunchAssign(e) ==
  /\ worker[e].pc = "lassign"
  /\ SaveShared(e, [exe[e] EXCEPT !.task_id = worker[e].task, !.ssn_id = "s"], "run")

\* The service answered.  complete_task applies the result to the task the
\* executor's record names; an error sends the worker back to launch_task.
Completable(e) ==
  /\ e \in execs
  /\ exe[e].ssn_id = "s" /\ exe[e].task_id # 0
  /\ exe[e].state \in {"Bound", "Unbinding"}
  /\ tasks[exe[e].task_id].state # "None"
  /\ ssn # "Closed"

CompleteTask(e) ==
  /\ worker[e].pc = "run"
  /\ Completable(e)
  /\ \E s \in {"Succeed", "Failed"} : WriteTask(e, exe[e].task_id, s, "cpublish")

CompleteRefused(e) ==
  /\ worker[e].pc = "run"
  /\ ~Completable(e)
  /\ Become(e, "bound")
  /\ UNCHANGED store

\* Mutant: only an open session takes the result.
CompletePublishOpen(e) ==
  IF ssn = "Suspending" THEN worker[e].pc = "cpublish" /\ Become(e, "bound") /\ UNCHANGED store
  ELSE PublishTask(e, "cpublish", "cclear", "bound")

CompletePublish(e) == PublishTask(e, "cpublish", "cclear", "bound")

\* Mutant: the record keeps the finished task.
CompleteClearKept(e) ==
  /\ worker[e].pc = "cclear"
  /\ SaveShared(e, exe[e], "bound")

\* After a failed invocation the worker unbinds.
CompleteClear(e) ==
  /\ worker[e].pc = "cclear"
  /\ \E to \in {"bound"} \cup (IF worker[e].new.state = "Failed" THEN {"unbind"} ELSE {}) :
       SaveShared(e, [exe[e] EXCEPT !.task_id = 0,
                        !.ssn_id = IF exe[e].state = "Unbinding" THEN "none" ELSE @], to)

---------------------------------------------------------------------------
(* Unbinding and release.                                                  *)

UnbindExecutor(e) ==
  /\ InMap(e, "unbind")
  /\ \/ /\ exe[e].state \in {"Binding", "Bound"}
        /\ UpdateExecutor(e, [exe[e] EXCEPT !.state = "Unbinding"])
     \/ /\ exe[e].state = "Unbinding"
        /\ UpdateExecutor(e, [exe[e] EXCEPT !.ssn_id = "none", !.task_id = 0])
  /\ Reply(e, "leave", "unbind")
  /\ UNCHANGED <<cache, execs, dbSsn, dbTasks>>

\* Mutant: the session is not cleared.
UnbindExecutorCompletedKept(e) ==
  /\ InMap(e, "leave")
  /\ exe[e].state \in {"Binding", "Unbinding"}
  /\ UpdateExecutor(e, [exe[e] EXCEPT !.state = "Idle"])
  /\ Reply(e, "idle", "unbind")
  /\ UNCHANGED <<cache, execs, dbSsn, dbTasks>>

UnbindExecutorCompleted(e) ==
  /\ InMap(e, "leave")
  /\ exe[e].state \in {"Binding", "Unbinding"}
  /\ UpdateExecutor(e, [exe[e] EXCEPT !.state = "Idle", !.ssn_id = "none", !.task_id = 0])
  /\ Reply(e, "idle", "unbind")
  /\ UNCHANGED <<cache, execs, dbSsn, dbTasks>>

UnbindRefused(e) ==
  /\ worker[e].pc = "leave"
  /\ e \notin execs \/ exe[e].state \notin {"Binding", "Unbinding"}
  /\ Become(e, "unbind")
  /\ UNCHANGED store

\* unregister_executor: an unknown executor is acknowledged; a task the
\* executor still has is failed first, unless the session is closed.
HasTask(e) == exe[e].task_id # 0 /\ exe[e].ssn_id = "s"

UnregisterExecutor(e) ==
  /\ worker[e].pc = "release"
  /\ \/ e \notin execs /\ Become(e, "off")
     \/ e \in execs /\ ~HasTask(e) /\ Step(e, "delete")
  /\ UNCHANGED store

FailTask(e) ==
  /\ InMap(e, "release")
  /\ HasTask(e) /\ ssn # "Closed"
  /\ WriteTask(e, exe[e].task_id, "Failed", "fpublish")

FailPublish(e) == PublishTask(e, "fpublish", "delete", "release")

\* The record leaves the map and the engine; retained pointers see Released.
UnregisterDelete(e) ==
  /\ worker[e].pc = "delete"
  /\ \/ /\ exe[e].state \in {"Binding", "Releasing"}
        /\ DeleteExecutor(e)
        /\ exe' = [exe EXCEPT ![e].state = "Released",
                              ![e].ssn_id = IF exe[e].state = "Binding" THEN "none" ELSE @,
                              ![e].task_id = IF exe[e].state = "Binding" THEN 0 ELSE @]
        /\ Reply(e, "off", "release")
     \/ /\ exe[e].state \notin {"Binding", "Releasing"}
        /\ Become(e, "release")
        /\ UNCHANGED <<execs, exe, dbExe>>
  /\ UNCHANGED <<cache, dbSsn, dbTasks>>

---------------------------------------------------------------------------
\* A handler dropped at an await: what it has done stays.
RetryPc(pc) ==
  CASE pc \in {"wait", "popped", "lpublish", "lassign", "cpublish", "cclear"} -> "bound"
    [] pc \in {"fpublish", "delete"} -> "release"
    [] OTHER -> pc

DropCall(e) ==
  /\ lost > 0
  /\ RetryPc(worker[e].pc) # worker[e].pc
  /\ lost' = lost - 1
  /\ worker' = [worker EXCEPT ![e] = At(RetryPc(worker[e].pc))]
  /\ subs' = subs \ {e}
  /\ UNCHANGED <<ssn, retries, tasks, index, execs, exe, dbSsn, dbTasks, dbExe>>

Work(e) ==
  \/ RegisterExecutor(e)
  \/ WaitForSession(e) \/ BindCompleted(e) \/ BindRefused(e)
  \/ RelaunchTask(e) \/ LaunchTask(e)
  \/ LaunchNoTask(e) \/ WaitForTask(e)
  \/ LaunchWrite(e) \/ LaunchRefused(e) \/ LaunchPublish(e) \/ LaunchAssign(e)
  \/ CompleteTask(e) \/ CompleteRefused(e) \/ CompletePublish(e) \/ CompleteClear(e)
  \/ UnbindExecutor(e) \/ UnbindExecutorCompleted(e) \/ UnbindRefused(e)
  \/ UnregisterExecutor(e) \/ FailTask(e) \/ FailPublish(e) \/ UnregisterDelete(e)

WorkerStep(e) ==
  Work(e) \/ BindFailed(e) \/ StartupCleanupFailed(e) \/ DropCall(e)
============================================================================
