--------------------------- MODULE ClosedProofs ----------------------------
(***************************************************************************)
(* Closing a session is final, and never shown before it is stored: proofs *)
(* for any number of executors, clients, tasks, lost calls and faults.     *)
(***************************************************************************)
EXTENDS FlameProofs

\* A call that is about to publish Closed has stored it.
CloseWritten == \A th \in Threads : call[th].pc = "closed" => dbSsn = "Closed"

ClosedInv == TypeInv /\ ClosedStored /\ CloseWritten

\* A step neither takes Closed away nor shows it before it is stored.
ClosedStep ==
  /\ ClosedStored' /\ CloseWritten'
  /\ ssn = "Closed" => ssn' = "Closed"
  /\ dbSsn = "Closed" => dbSsn' = "Closed"

---------------------------------------------------------------------------
\* update_session_state refuses a session that is closed, in the cache under
\* its lock and in the engine by its WHERE clause.
LEMMA FlipClosed ==
  ASSUME ClosedInv, NEW th \in Threads, UpdateSessionState(th)
  PROVE  ClosedStep
<1> USE DEF ClosedInv, TypeInv, TypeOK, SessionsOK, FlipsAlive, Alive, ClosedStep,
            ClosedStored, CloseWritten
<1>1. CASE FlipState(th)
  BY <1>1 DEF FlipState, Return, NoCall
<1>2. CASE FlipStateEngine(th)
  BY <1>2 DEF FlipStateEngine, Return, Goto, NoCall, cache
<1>3. CASE FlipStateUndo(th)
  BY <1>3 DEF FlipStateUndo, Return, NoCall
<1> QED BY <1>1, <1>2, <1>3 DEF UpdateSessionState

\* A client's step keeps Closed and publishes it only when it is stored.
LEMMA ClientClosed ==
  ASSUME ClosedInv, NEW c \in Clients, ClientStep(c)
  PROVE  ClosedStep
<1>0. c \in Threads
  BY DEF Threads
<1>1. CASE CreateTask(c) \/ CreateTaskPublish(c) \/ CloseSession(c) \/ NotifierRemove(c)
  BY <1>0, <1>1
     DEF CreateTask, CreateTaskPublish, CloseSession, NotifierRemove, Goto, Return, NoCall,
         ClosedInv, TypeInv, TypeOK, SessionsOK, ClosedStep, ClosedStored, CloseWritten,
         store, cache
<1>2. CASE CloseSessionEngine(c) \/ CloseSessionPublish(c)
  BY <1>0, <1>2
     DEF CloseSessionEngine, CloseSessionPublish, EngineCloseSession, Goto, Return, NoCall,
         ClosedInv, TypeInv, TypeOK, SessionsOK, ClosedStep, ClosedStored, CloseWritten, cache
<1>3. CASE SignalSession(c) \/ ResumeSession(c)
  BY <1>0, <1>3
     DEF SignalSession, ResumeSession, Admit, ClosedInv, TypeInv, TypeOK, SessionsOK,
         ClosedStep, ClosedStored, CloseWritten, store, cache
<1>4. CASE UpdateSessionState(c)
  BY <1>0, <1>4, FlipClosed
<1> QED BY <1>1, <1>2, <1>3, <1>4 DEF ClientStep, Continue

\* So does the scheduling loop, which only completes suspends.
LEMMA ScheduleClosed ==
  ASSUME ClosedInv, Schedule
  PROVE  ClosedStep
<1>0. "scheduler" \in Threads
  BY DEF Threads
<1>1. CASE UpdateSessionState("scheduler")
  BY <1>0, <1>1, FlipClosed
<1>2. CASE SuspendSession
  BY <1>0, <1>2
     DEF SuspendSession, Admit, ClosedInv, TypeInv, TypeOK, SessionsOK,
         ClosedStep, ClosedStored, CloseWritten, store, cache
<1>3. CASE UNCHANGED <<ssn, dbSsn, call>>
  BY <1>3 DEF ClosedInv, ClosedStep, ClosedStored, CloseWritten
<1> QED
  BY <1>1, <1>2, <1>3
     DEF Schedule, SnapshotSessions, SnapshotExecutors, CycleDone, BindSession,
         AllocateExecutor, InterruptExecutor, ReleaseExecutor, store, cache

\* So does every step of the system, a crash of any of its parts included.
LEMMA ClosedNext == ClosedInv /\ [Next]_vars => ClosedStep
<1> SUFFICES ASSUME ClosedInv, [Next]_vars PROVE ClosedStep
  OBVIOUS
<1> USE DEF ClosedInv
<1>1. ASSUME NEW c \in Clients, Client(c) PROVE ClosedStep
  BY <1>1, ClientClosed DEF Client
<1>2. ASSUME NEW c \in Clients, Abandon(c) PROVE ClosedStep
  BY <1>2 DEF Abandon, Return, NoCall, Threads, TypeInv, TypeOK, SessionsOK, ClosedStep,
              ClosedStored, CloseWritten, store, cache
<1>3. ASSUME NEW e \in Executors, Run(e) PROVE ClosedStep
  BY <1>3, WorkerFrame DEF Run, ClosedStep, ClosedStored, CloseWritten
<1>4. CASE Reconcile
  BY <1>4, NodeFrame DEF Reconcile, ClosedStep, ClosedStored, CloseWritten
<1>5. CASE Schedule
  BY <1>5, ScheduleClosed
<1>6. CASE Crash
  BY <1>6 DEF Crash, DrainNode, FemRestart, SmRestart, LoadData, NoCall, ClosedStep,
              ClosedStored, CloseWritten, store, cache
<1>7. CASE UNCHANGED vars
  BY <1>7 DEF vars, ClosedStep, ClosedStored, CloseWritten, store, cache
<1> QED BY <1>1, <1>2, <1>3, <1>4, <1>5, <1>6, <1>7 DEF Next, Step0

\* ClosedInv is inductive.
LEMMA ClosedInduction == Spec => []ClosedInv
<1>1. Init => ClosedInv
  BY TypeInit
     DEF Init, StorageInit, SessionsInit, NoCall, ClosedInv, ClosedStored, CloseWritten
<1>2. ClosedInv /\ [Next]_vars => ClosedInv'
  BY TypeNext, ClosedNext DEF ClosedInv, ClosedStep
<1> QED BY <1>1, <1>2, PTL DEF Spec

\* The cache never shows a close that Storage::close_session has not stored.
THEOREM ClosedIsStored == Spec => []ClosedStored
<1>1. ClosedInv => ClosedStored
  BY DEF ClosedInv
<1> QED BY <1>1, ClosedInduction, PTL

\* No interleaving of closes, suspends, resumes, restarts and dropped calls
\* reopens a closed session, in the cache or in the engine.
THEOREM ClosedIsFinal == Spec => ClosedFinal
<1>1. ClosedInv /\ [Next]_vars
        => [/\ ssn = "Closed" => ssn' = "Closed"
            /\ dbSsn = "Closed" => dbSsn' = "Closed"]_vars
  BY ClosedNext DEF ClosedStep
<1> QED BY <1>1, ClosedInduction, PTL DEF Spec, ClosedFinal
============================================================================
