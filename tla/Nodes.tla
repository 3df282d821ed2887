------------------------------- MODULE Nodes -------------------------------
(***************************************************************************)
(* The node the executors run on, as the Session Manager sees it: its      *)
(* state, a registration that reconciles the executors it reports, and the *)
(* cleanup after it has been away too long.  Both walk a list of executors *)
(* taken at their start while the executors move on.                       *)
(***************************************************************************)
EXTENDS Workers

VARIABLE node

NodeState == {"Ready", "Unknown", "NotReady"}

\* listed: the clones still to be handled; on: the executor in hand, new:
\* the retried row of its task.
NodeType == [state : NodeState, pc : {"idle", "register", "next", "publish", "delete"},
             listed : [Executors -> Executor], on : SUBSET Executors, new : Task]

Nothing == [e \in Executors |-> NoExecutor]
Listed == {e \in Executors : node.listed[e].state # "None"}

NodesInit ==
  node = [state |-> "Ready", pc |-> "idle", listed |-> Nothing, on |-> {}, new |-> NoTask]

---------------------------------------------------------------------------
(* The node stream.                                                        *)

\* ExecutorManager::handle_executor_update, for a new executor.  The node
\* opens its stream when its registration has returned.
StartWorker(e) ==
  /\ node.state = "Ready" /\ node.pc # "register"
  /\ InMap(e, "off")
  /\ exe[e].state = "Void"
  /\ Become(e, "void")
  /\ UNCHANGED <<node, store>>

\* The stream ended: drain_node.
DrainNode ==
  /\ node.state = "Ready"
  /\ node' = [node EXCEPT !.state = "Unknown"]
  /\ UNCHANGED <<worker, lost, store>>

\* The executor manager lost its workers and with them its stream.
FemRestart ==
  /\ worker' = [e \in Executors |-> At("off")]
  /\ node' = [node EXCEPT !.state = IF @ = "Ready" THEN "Unknown" ELSE @]
  /\ subs' = {}
  /\ UNCHANGED <<lost, ssn, retries, tasks, index, execs, exe, dbSsn, dbTasks, dbExe>>

---------------------------------------------------------------------------
(* Controller::register_node.                                              *)

Reported == {e \in Executors : worker[e].pc # "off"}

\* A node that reports an unknown executor is rejected.
RegisterNode ==
  /\ node.state # "Ready" /\ node.pc = "idle"
  /\ Reported \subseteq execs
  /\ node' = [node EXCEPT !.state = "Ready", !.pc = "register",
                !.listed = [e \in Executors |->
                              IF e \in execs \ Reported THEN exe[e] ELSE NoExecutor]]
  /\ UNCHANGED <<worker, lost, store>>

Handled(e) == [node.listed EXCEPT ![e] = NoExecutor]

\* An executor it does not report, one without a worker, is released with the
\* session and task of the listed clone; the notification makes the node start
\* a worker that cleans up.
RegisterRelease(e) ==
  /\ node.pc = "register" /\ e \in Listed
  /\ UpdateExecutor(e, [node.listed[e] EXCEPT !.state = "Releasing"])
  /\ node' = [node EXCEPT !.listed = Handled(e)]
  /\ Become(e, "release")
  /\ UNCHANGED <<cache, execs, dbSsn, dbTasks>>

\* Done, or a row that is gone ended the call.
RegisterEnd ==
  /\ node.pc = "register"
  /\ \A e \in Listed : dbExe[e].state = "None"
  /\ node' = [node EXCEPT !.pc = "idle", !.listed = Nothing]
  /\ UNCHANGED <<worker, lost, store>>

---------------------------------------------------------------------------
(* UnknownState::shutdown and Storage::delete_executors.                   *)

ShutdownNode ==
  /\ node.state = "Unknown" /\ node.pc = "idle"
  /\ node' = [node EXCEPT !.state = "NotReady", !.pc = "next",
                !.listed = [e \in Executors |-> IF e \in execs THEN exe[e] ELSE NoExecutor]]
  /\ UNCHANGED <<worker, lost, store>>

\* The task of the listed clone goes back to Pending, whatever it is now.
ShutdownRetry(e) ==
  /\ node.pc = "next" /\ e \in Listed
  /\ LET clone == node.listed[e]
         t == clone.task_id
     IN  IF t # 0 /\ clone.ssn_id = "s"
         THEN /\ EngineWriteTask(t, "Pending")
              /\ node' = [node EXCEPT !.pc = "publish", !.on = {e},
                                      !.new = EngineTask(t, "Pending")]
         ELSE /\ node' = [node EXCEPT !.pc = "delete", !.on = {e}]
              /\ UNCHANGED dbTasks
  /\ UNCHANGED <<worker, lost, cache, execs, exe, dbSsn, dbExe>>

ShutdownPublish(e) ==
  /\ node.pc = "publish" /\ e \in node.on
  /\ UpdateTask(node.listed[e].task_id, node.new)
  /\ node' = [node EXCEPT !.pc = "delete"]
  /\ UNCHANGED <<worker, lost, ssn, retries, subs, execs, exe, dbSsn, dbTasks, dbExe>>

ShutdownDelete(e) ==
  /\ node.pc = "delete" /\ e \in node.on
  /\ DeleteExecutor(e)
  /\ node' = [node EXCEPT !.pc = "next", !.on = {}, !.new = NoTask, !.listed = Handled(e)]
  /\ UNCHANGED <<worker, lost, cache, exe, dbSsn, dbTasks>>

ShutdownEnd ==
  /\ node.pc = "next" /\ Listed = {}
  /\ node' = [node EXCEPT !.pc = "idle"]
  /\ UNCHANGED <<worker, lost, store>>

NodeStep ==
  \/ RegisterNode \/ RegisterEnd \/ ShutdownNode \/ ShutdownEnd
  \/ \E e \in Executors :
       \/ StartWorker(e) \/ RegisterRelease(e)
       \/ ShutdownRetry(e) \/ ShutdownPublish(e) \/ ShutdownDelete(e)
============================================================================
