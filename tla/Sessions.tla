------------------------------ MODULE Sessions ------------------------------
(***************************************************************************)
(* The session calls of the controller.  Each thread runs one call at a    *)
(* time; a call is a lock section, an engine transaction and another lock  *)
(* section, and other threads move between them.  The scheduler completes  *)
(* a suspend through the same Storage::update_session_state, as a thread.  *)
(***************************************************************************)
EXTENDS Storage

CONSTANTS Clients,       \* threads that serve frontend calls
          Calls          \* the calls that clients make

ASSUME SessionsAssumption ==
  /\ Calls \subseteq {"create", "close", "suspend", "resume"}
  /\ "scheduler" \notin Clients

VARIABLE call            \* the call each thread is in

Threads == Clients \cup {"scheduler"}

CallPc == {"idle", "created", "close", "closed",
           "admitted", "flipped", "refused", "notify"}
CallState == SessionState \cup {"None"}
NoCall == [pc |-> "idle", to |-> "None", prev |-> "None", task |-> 0]

SessionsInit == call = [th \in Threads |-> NoCall]
SessionsOK ==
  call \in [Threads -> [pc : CallPc, to : CallState, prev : CallState, task : 0..MaxTask]]

Goto(th, pc) == call' = [call EXCEPT ![th].pc = pc]
Return(th) == call' = [call EXCEPT ![th] = NoCall]

---------------------------------------------------------------------------
\* Storage::create_task: the check of the cached state and the engine
\* transaction, which checks the row.  No more than MaxTask tasks are created.
CreateTask(th) ==
  /\ call[th].pc = "idle"
  /\ ssn # "Closed"
  /\ \E t \in TaskIds :
       /\ EngineCreateTask(t)
       /\ call' = [call EXCEPT ![th].pc = "created", ![th].task = t]
  /\ UNCHANGED <<cache, execs, exe, dbSsn, dbExe>>

\* The second check: a close that was published meanwhile refuses the task.
CreateTaskPublish(th) ==
  /\ call[th].pc = "created"
  /\ IF ssn = "Closed" THEN UNCHANGED <<tasks, index>>
     ELSE UpdateTask(call[th].task, [state |-> "Pending", version |-> 1])
  /\ Return(th)
  /\ UNCHANGED <<ssn, retries, subs, execs, exe, dbSsn, dbTasks, dbExe>>

---------------------------------------------------------------------------
\* Storage::close_session, from any state; refused while a task runs.
CloseSession(th) ==
  /\ call[th].pc = "idle"
  /\ InIndex("Running") = {}
  /\ Goto(th, "close")
  /\ UNCHANGED store

\* Mutant: the engine's refusal is ignored.
CloseSessionEngineIgnored(th) ==
  /\ call[th].pc = "close"
  /\ IF EngineRunning THEN UNCHANGED <<dbSsn, dbTasks>> ELSE EngineCloseSession
  /\ Goto(th, "closed")
  /\ UNCHANGED <<cache, execs, exe, dbExe>>

CloseSessionEngine(th) ==
  /\ call[th].pc = "close"
  /\ IF EngineRunning
     THEN Return(th) /\ UNCHANGED <<dbSsn, dbTasks>>
     ELSE EngineCloseSession /\ Goto(th, "closed")
  /\ UNCHANGED <<cache, execs, exe, dbExe>>

\* Mutant: the cancelled tasks stay in the Pending index.
CloseSessionPublishUnindexed(th) ==
  /\ call[th].pc = "closed"
  /\ ssn' = "Closed"
  /\ tasks' = [t \in TaskIds |->
                 IF index[t] = "Pending" THEN [tasks[t] EXCEPT !.state = "Cancelled"]
                 ELSE tasks[t]]
  /\ Goto(th, "notify")
  /\ UNCHANGED <<retries, index, subs, execs, exe, dbSsn, dbTasks, dbExe>>

\* Publishes Closed and cancels what the Pending index holds.
CloseSessionPublish(th) ==
  /\ call[th].pc = "closed"
  /\ ssn' = "Closed"
  /\ tasks' = [t \in TaskIds |->
                 IF index[t] = "Pending"
                 THEN [state |-> "Cancelled", version |-> tasks[t].version + 1]
                 ELSE tasks[t]]
  /\ index' = [t \in TaskIds |->
                 IF index[t] = "Pending" THEN "Cancelled" ELSE index[t]]
  /\ Goto(th, "notify")
  /\ UNCHANGED <<retries, subs, execs, exe, dbSsn, dbTasks, dbExe>>

\* close_session and signal_session end by closing the task channel: whoever
\* waits on it is woken for good, whatever the session's state is by then.
NotifierRemove(th) ==
  /\ call[th].pc = "notify"
  /\ subs' = {}
  /\ Return(th)
  /\ UNCHANGED <<ssn, retries, tasks, index, execs, exe, dbSsn, dbTasks, dbExe>>

---------------------------------------------------------------------------
(* Suspend and resume.  The caller reads the state it needs; the flip is   *)
(* a later lock section of Storage::update_session_state, which refuses    *)
(* only a Closed session.                                                  *)

Admit(th, from, to) ==
  /\ call[th].pc = "idle"
  /\ ssn = from
  /\ call' = [call EXCEPT ![th].pc = "admitted", ![th].to = to]
  /\ UNCHANGED store

\* Mutant: suspended at once, whoever still serves the session.
SignalSessionAtOnce(th) == Admit(th, "Open", "Suspended")

SignalSession(th) == Admit(th, "Open", "Suspending")
ResumeSession(th) == Admit(th, "Suspended", "Open")

\* Admission and the cached flip, in one lock section.
FlipState(th) ==
  /\ call[th].pc = "admitted"
  /\ IF ssn = "Closed"
     THEN Return(th) /\ UNCHANGED ssn
     ELSE /\ ssn' = call[th].to
          /\ call' = [call EXCEPT ![th].pc = "flipped", ![th].prev = ssn]
  /\ UNCHANGED <<retries, tasks, index, subs, execs, exe, dbSsn, dbTasks, dbExe>>

\* Mutant: the UPDATE has no guard on Closed.
FlipStateEngineUnguarded(th) ==
  /\ call[th].pc = "flipped"
  /\ dbSsn' = call[th].to
  /\ Return(th)
  /\ UNCHANGED <<cache, execs, exe, dbTasks, dbExe>>

\* UPDATE sessions ... WHERE state <> Closed.
FlipStateEngine(th) ==
  /\ call[th].pc = "flipped"
  /\ IF dbSsn = "Closed"
     THEN Goto(th, "refused") /\ UNCHANGED dbSsn
     ELSE /\ dbSsn' = call[th].to
          /\ IF call[th].to = "Suspending" THEN Goto(th, "notify") ELSE Return(th)
  /\ UNCHANGED <<cache, execs, exe, dbTasks, dbExe>>

\* The engine refused: the flip is taken back, but a published close stays.
FlipStateUndo(th) ==
  /\ call[th].pc = "refused"
  /\ ssn' = IF ssn = call[th].to THEN call[th].prev ELSE ssn
  /\ Return(th)
  /\ UNCHANGED <<retries, tasks, index, subs, execs, exe, dbSsn, dbTasks, dbExe>>

UpdateSessionState(th) == FlipState(th) \/ FlipStateEngine(th) \/ FlipStateUndo(th)

\* What a call in progress still has to do.
Continue(th) ==
  \/ CreateTaskPublish(th) \/ CloseSessionEngine(th) \/ CloseSessionPublish(th)
  \/ UpdateSessionState(th) \/ NotifierRemove(th)

ClientStep(c) ==
  \/ "create" \in Calls /\ CreateTask(c)
  \/ "close" \in Calls /\ CloseSession(c)
  \/ "suspend" \in Calls /\ SignalSession(c)
  \/ "resume" \in Calls /\ ResumeSession(c)
  \/ Continue(c)
============================================================================
