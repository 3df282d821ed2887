------------------------------- MODULE Flame -------------------------------
(***************************************************************************)
(* The Session Manager, the Executor Manager and their faults: clients,    *)
(* workers, the scheduling loop and the node, interleaved.                 *)
(***************************************************************************)
EXTENDS Scheduler

CONSTANTS MaxLost,       \* bound on calls lost, on either way, and on failed cleanups
          MaxFault,      \* bound on outages and restarts
          FaultKinds     \* which of them happen

ASSUME FlameAssumption ==
  /\ MaxLost \in Nat /\ MaxFault \in Nat
  /\ FaultKinds \subseteq {"stream", "fem", "sm"}

VARIABLE faults          \* how many more outages and restarts may happen

vars == <<store, call, worker, lost, node, sched, faults>>

Init ==
  /\ StorageInit /\ SessionsInit /\ WorkersInit /\ NodesInit /\ SchedulerInit
  /\ lost = MaxLost /\ faults = MaxFault

\* A client went away: its handler is dropped at an await.
Abandon(c) ==
  /\ lost > 0
  /\ call[c].pc # "idle"
  /\ lost' = lost - 1
  /\ Return(c)
  /\ UNCHANGED <<store, worker, node, sched>>

Fault(kind) == kind \in FaultKinds /\ faults > 0 /\ faults' = faults - 1

\* The Session Manager crashes and recovers; workers repeat their calls.
SmRestart ==
  /\ LoadData
  /\ call' = [th \in Threads |-> NoCall]
  /\ sched' = NoCycle
  /\ node' = [node EXCEPT !.pc = "idle", !.listed = Nothing, !.on = {}, !.new = NoTask]
  /\ worker' = [e \in Executors |-> At(RetryPc(worker[e].pc))]
  /\ UNCHANGED lost

Client(c) == ClientStep(c) /\ UNCHANGED <<worker, lost, node, sched>>
Run(e) == WorkerStep(e) /\ UNCHANGED <<call, node, sched>>
Reconcile == NodeStep /\ UNCHANGED <<call, sched>>

Step0 ==
  \/ \E c \in Clients : Client(c) \/ Abandon(c)
  \/ \E e \in Executors : Run(e)
  \/ Reconcile
  \/ Schedule

Crash ==
  \/ Fault("stream") /\ DrainNode /\ UNCHANGED <<call, sched>>
  \/ Fault("fem") /\ FemRestart /\ UNCHANGED <<call, sched>>
  \/ Fault("sm") /\ SmRestart

Next == (Step0 /\ UNCHANGED faults) \/ Crash

\* idle_executor_expired: no executor stays Idle for ever.
Expiry == \A e \in Executors : []<>(e \notin execs \/ exe[e].state # "Idle")

\* Handlers that have started go on, workers repeat their calls and the
\* scheduling loop runs; clients start nothing they do not want to.
Fairness ==
  /\ Expiry
  /\ \A th \in Threads : WF_vars(Continue(th) /\ UNCHANGED <<worker, lost, node, sched, faults>>)
  /\ \A e \in Executors : WF_vars(Work(e) /\ UNCHANGED <<call, node, sched, faults>>)
  /\ WF_vars(Reconcile /\ UNCHANGED faults)
  /\ WF_vars(Schedule /\ UNCHANGED faults)

Spec == Init /\ [][Next]_vars
FairSpec == Spec /\ Fairness

---------------------------------------------------------------------------
\* Every variable holds what the code's types allow.
TypeOK ==
  /\ StorageOK /\ SessionsOK /\ WorkersOK
  /\ node \in NodeType /\ sched \in SchedType /\ faults \in Nat

---------------------------------------------------------------------------
(* Who has a task.                                                         *)

InHand(e) ==
  IF worker[e].pc \in {"popped", "lpublish", "lassign", "cpublish", "cclear", "fpublish"}
  THEN {worker[e].task} ELSE {}
Assigned(e) == IF e \in execs /\ exe[e].task_id # 0 THEN {exe[e].task_id} ELSE {}
Holding(e) == InHand(e) \cup Assigned(e)

\* A task that left the Pending index is never forgotten: while the session
\* is not Closed a launch handler still has it (wait_for_task, launch_task).
PoppedInHand ==
  \A t \in TaskIds :
    tasks[t].state # "None" /\ index[t] = "None" /\ ssn # "Closed"
      => \E e \in Executors : t \in InHand(e)

\* The index never names another state than the cached task has.
IndexAgrees ==
  \A t \in TaskIds : index[t] # "None" => index[t] = tasks[t].state

\* No task is handed out twice: no two executors, or their handlers, have it.
OneHolder ==
  \A e, f \in Executors : e # f => Holding(e) \cap Holding(f) = {}

\* What the engine records as Running somebody has: a crash of the executor's
\* node finds the task through the executor.
RunningHeld ==
  \A t \in TaskIds :
    dbTasks[t].state = "Running" /\ ssn # "Closed" => \E e \in Executors : t \in Holding(e)

\* The cache shows the engine's row, once nobody is about to publish it.
CacheAgrees ==
  \A t \in TaskIds :
    \/ dbSsn = "Closed"
    \/ \E e \in Executors : t \in InHand(e)
    \/ \E th \in Threads : call[th].task = t
    \/ node.pc = "publish" /\ \E e \in node.on : node.listed[e].task_id = t
    \/ tasks[t] = dbTasks[t]

\* A result is final: no call moves a task out of Succeed or Failed.
ResultFinal ==
  [][\A t \in TaskIds :
       dbTasks[t].state \in {"Succeed", "Failed"} => dbTasks'[t].state = dbTasks[t].state]_vars

---------------------------------------------------------------------------
(* The session's state.                                                    *)

\* Closed is final, in the cache and in the engine.
ClosedFinal ==
  [][/\ ssn = "Closed" => ssn' = "Closed"
     /\ dbSsn = "Closed" => dbSsn' = "Closed"]_vars

\* The cache never shows a close the engine does not have.
ClosedStored == ssn = "Closed" => dbSsn = "Closed"

\* A Suspended session has no executor: binds run in the scheduling loop,
\* which also completes the suspend.  (A resume that is taken back because a
\* close overtook it shows Suspended again for a moment.)
SuspendQuiescent ==
  ssn = "Suspended" /\ dbSsn # "Closed" => Serving = {}

\* An executor without a session has no task, one that waits for work has
\* neither, one that is bound has a session.
ExecutorWellFormed ==
  \A e \in execs :
    /\ exe[e].state \in {"Void", "Idle"} => exe[e].ssn_id = "none" /\ exe[e].task_id = 0
    /\ exe[e].state \in {"Binding", "Bound"} => exe[e].ssn_id = "s"
    /\ exe[e].task_id # 0 => exe[e].ssn_id = "s"

---------------------------------------------------------------------------
(* Progress.                                                               *)

\* A pending task of a session that stays open is finished, unless binds
\* failed too often.  RFE384 FS.md:23: "Ensure tasks eventually complete via
\* retry mechanism."
TaskProgress ==
  \A t \in TaskIds :
    index[t] = "Pending"
      ~> (dbTasks[t].state \in {"Succeed", "Failed"} \/ ssn # "Open" \/ retries = RetryLimit)

\* A suspend completes.
SuspendProgress == ssn = "Suspending" ~> ssn # "Suspending"

---------------------------------------------------------------------------
(* What the repository says and the code does not do.                      *)

\* storage/mod.rs:1019: "Check before the engine writes, so a rejected update
\* leaves nothing behind": with Closed published and every call returned, no
\* row is Running.
NothingLeftBehind ==
  ssn = "Closed" /\ (\A th \in Threads : call[th].pc = "idle")
                 /\ (\A e \in Executors : InHand(e) = {})
    => ~EngineRunning

\* RFE601 FS.md:148: "A suspended or closed session unbinds its executor".
ClosedUnbinds == ssn = "Closed" ~> Serving = {}

\* RFE601 FS.md:112: "Rejected transitions: `suspend` on anything but `Open`".
SuspendFromOpen ==
  [][\A c \in Clients : ssn' = "Suspending" /\ call[c].pc = "admitted" /\ call'[c].pc = "flipped"
       => ssn = "Open"]_vars

============================================================================
