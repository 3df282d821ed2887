----------------------------- MODULE Scheduler -----------------------------
(***************************************************************************)
(* The scheduling loop.  A cycle takes a snapshot, sessions first and      *)
(* executors after, and runs Dispatch, Allocate and Shuffle on it while    *)
(* clients and workers move on.  Of the snapshot and the plugins' counters *)
(* a cycle keeps what its actions still ask for.  Only the always-on       *)
(* MinMax policy is modelled: the others order sessions and nodes, and     *)
(* here there is one of each.                                              *)
(***************************************************************************)
EXTENDS Sessions, Nodes

VARIABLE sched

\* state and demand: the session in the snapshot, until the executors are
\* read ("None": not in it, "Unready": out of retries).  Then need: how many
\* executors it lacks; free: the Idle ones that may be bound; grow: whether
\* Allocate would create one; suspend: Suspending, and nothing serves it;
\* surplus: how many of bound to interrupt; idle: what may have expired.
SchedType ==
  [pc : {"wait", "executors", "cycle", "suspending"},
   state : SessionState \cup {"Unready", "None"}, demand : Nat,
   need : Nat, free : SUBSET Executors, grow : {"no", "yes"}, suspend : {"no", "yes"},
   surplus : Nat, bound : SUBSET Executors, idle : SUBSET Executors]

NoCycle == [pc |-> "wait", state |-> "None", demand |-> 0,
            need |-> 0, free |-> {}, grow |-> "no", suspend |-> "no",
            surplus |-> 0, bound |-> {}, idle |-> {}]

SchedulerInit == sched = NoCycle

others == <<worker, lost, node>>
EndCycle == sched' = NoCycle
YesNo(b) == IF b THEN "yes" ELSE "no"
\* Mutant: a subtraction that does not saturate.
ExcessUnchecked(m, n) == m - n

Excess(m, n) == IF m > n THEN m - n ELSE 0

---------------------------------------------------------------------------
(* Storage::snapshot and the plugins' setup.                               *)

\* Mutant: tasks that wait for an executor are not counted.
ComputeDemandRunning ==
  IF ssn = "Open" THEN Cardinality(InIndex("Running")) ELSE 0

ComputeDemand ==
  IF ssn = "Open" THEN Cardinality(InIndex("Pending") \cup InIndex("Running")) ELSE 0

\* Mutant: only Open sessions are in the snapshot.
SnapshotSessionsOpen ==
  /\ sched.pc = "wait"
  /\ sched' = [sched EXCEPT !.pc = "executors", !.demand = ComputeDemand,
                            !.state = IF ssn = "Open" THEN "Open" ELSE "None"]
  /\ UNCHANGED <<store, call, others>>

SnapshotSessions ==
  /\ sched.pc = "wait"
  /\ sched' = [sched EXCEPT
       !.pc = "executors", !.demand = ComputeDemand,
       !.state = CASE ssn = "Suspended" -> "None"
                   [] ssn = "Open" /\ retries >= RetryLimit -> "Unready"
                   [] OTHER -> ssn]
  /\ UNCHANGED <<store, call, others>>

In(s) == {e \in execs : exe[e].state = s}
Serving == {e \in execs : exe[e].ssn_id = "s"}
Interrupted == {e \in execs : IsInterrupted(e)}

\* Mutant: executors of a node that is away do not count.
UnservedReady == Serving = {} \/ node.state # "Ready"

\* Shuffle completes a suspend when no executor names the session.
Unserved == Serving = {}

\* An executor of a session that is not in the snapshot ends the cycle in
\* Shuffle, before which such a cycle does nothing.
SnapshotExecutors ==
  /\ sched.pc = "executors"
  /\ LET have == Cardinality(Serving)
         need == IF sched.state = "Open" /\ node.state = "Ready"
                 THEN Excess(sched.demand, have) ELSE 0
         surplus == Excess(Cardinality(Serving \ Interrupted), sched.demand)
         bound == In("Bound") \ Interrupted
         spare == (In("Void") \cup In("Unbinding")) \ Interrupted
     IN  IF sched.state = "None" /\ bound # {} THEN EndCycle
         ELSE sched' = [pc |-> "cycle", state |-> "None", demand |-> 0,
                need |-> need,
                free |-> IF need > 0 THEN In("Idle") \ Interrupted ELSE {},
                grow |-> YesNo(need > 0 /\ spare = {}),
                suspend |-> YesNo(sched.state = "Suspending" /\ Unserved),
                surplus |-> surplus,
                bound |-> IF surplus > 0 THEN bound ELSE {},
                idle |-> In("Idle")]
  /\ UNCHANGED <<store, call, others>>

---------------------------------------------------------------------------
(* Dispatch and Allocate.                                                  *)

Dispatching == sched.pc = "cycle" /\ sched.need > 0 /\ sched.free # {}

\* bind_session for an Idle executor; a refused bind ends the cycle.
BindSession(e) ==
  /\ Dispatching /\ e \in sched.free
  /\ IF e \in execs /\ exe[e].state = "Idle" /\ ssn = "Open"
     THEN /\ UpdateExecutor(e, [exe[e] EXCEPT !.state = "Binding", !.ssn_id = "s"])
          /\ sched' = [sched EXCEPT !.need = @ - 1, !.free = @ \ {e}, !.idle = @ \ {e}]
     ELSE EndCycle /\ UNCHANGED <<exe, dbExe>>
  /\ UNCHANGED <<cache, execs, dbSsn, dbTasks, call, others>>

\* An id no record, row, worker, list or snapshot uses: real ids are fresh.
\* Executors is the room on the node.
Fresh(e) ==
  /\ e \notin execs \cup sched.idle \cup sched.bound \cup Listed
  /\ dbExe[e].state = "None" /\ worker[e].pc = "off"

Allocating ==
  /\ sched.pc = "cycle" /\ sched.need > 0 /\ sched.free = {} /\ sched.grow = "yes"
  /\ \E e \in Executors : Fresh(e)

\* create_executor, once in a cycle.
AllocateExecutor(e) ==
  /\ Allocating /\ Fresh(e)
  /\ CreateExecutor(e)
  /\ sched' = [sched EXCEPT !.need = 0, !.grow = "no"]
  /\ UNCHANGED <<cache, dbSsn, dbTasks, call, others>>

---------------------------------------------------------------------------
(* Shuffle.                                                                *)

Shuffling ==
  \/ sched.pc = "cycle" /\ ~Dispatching /\ ~Allocating
  \/ sched.pc = "suspending" /\ call["scheduler"].pc = "idle"

\* suspend_session leaves a session alone that is not Suspending any more.
SuspendSession ==
  /\ Shuffling /\ sched.suspend = "yes"
  /\ IF ssn = "Suspending"
     THEN Admit("scheduler", "Suspending", "Suspended")
     ELSE UNCHANGED <<store, call>>
  /\ sched' = [sched EXCEPT !.pc = "suspending", !.suspend = "no"]
  /\ UNCHANGED others

Reclaiming ==
  Shuffling /\ sched.suspend = "no" /\ sched.surplus > 0 /\ sched.bound # {}

\* interrupt_executor sets the signal on the shared record; an executor that
\* is gone ends the cycle.
InterruptExecutor(e) ==
  /\ Reclaiming /\ e \in sched.bound
  /\ IF e \in execs
     THEN /\ exe' = [exe EXCEPT ![e].signal = "Interrupt"]
          /\ sched' = [sched EXCEPT !.surplus = @ - 1, !.bound = @ \ {e}]
     ELSE EndCycle /\ UNCHANGED exe
  /\ UNCHANGED <<cache, execs, dbSsn, dbTasks, dbExe, call, others>>

Releasing == Shuffling /\ sched.suspend = "no" /\ ~Reclaiming

\* release_executor for an Idle executor that has expired; refused, the
\* cycle ends.
ReleaseExecutor(e) ==
  /\ Releasing /\ e \in sched.idle
  /\ IF e \in execs /\ exe[e].state = "Idle"
     THEN /\ UpdateExecutor(e, [exe[e] EXCEPT !.state = "Releasing"])
          /\ sched' = [sched EXCEPT !.idle = @ \ {e}, !.need = 0]
     ELSE EndCycle /\ UNCHANGED <<exe, dbExe>>
  /\ UNCHANGED <<cache, execs, dbSsn, dbTasks, call, others>>

CycleDone ==
  /\ Releasing
  /\ EndCycle
  /\ UNCHANGED <<store, call, others>>

Schedule ==
  \/ SnapshotSessions \/ SnapshotExecutors \/ SuspendSession \/ CycleDone
  \/ UpdateSessionState("scheduler") /\ UNCHANGED <<sched, others>>
  \/ \E e \in Executors :
       BindSession(e) \/ AllocateExecutor(e) \/ InterruptExecutor(e) \/ ReleaseExecutor(e)
============================================================================
