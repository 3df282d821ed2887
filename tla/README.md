# Flame in TLA+

A verification development for Flame: TLA+ modules for the control of the
Session Manager and the Executor Manager, configurations that check them with
TLC on small instances, and theorems that TLAPS checks for every instance. All
paths below are in the repository; `PROJECT.json` maps each definition to the
lines it models.

## 1. The system

Clients open *sessions* and create *tasks* in them. The **Session Manager**
(FSM) keeps sessions, tasks, executors and nodes in an in-memory cache
(`common/src/storage/mod.rs`) in front of an engine (SQLite, filesystem or
none). A scheduling loop creates executors on nodes and binds them to sessions.
The **Executor Manager** (FEM) on each node runs one worker per executor. A
worker drives its executor through Void, Idle, Binding, Bound, Unbinding,
Releasing and Released by calling the FSM, and repeats a call until it
succeeds. Nodes register and then hold a stream; when the stream ends a timer
leads to a cleanup. The **Object Cache** (FOC) stores objects beside this.

### Inventory

| Part | State | Operations | What is hard |
|---|---|---|---|
| Storage, one session | cached session, task map, per-state index; rows | create/update task, close, state flips, save/delete executor, `load_data` | every operation is lock section, engine await, lock section; others run at the await |
| Session calls (`controller/mod.rs`) | the call in progress | create_task, close, suspend, resume | admission and effect are in different lock sections; a client goes away in between |
| Executor calls and states (`controller/executors/`) | state, session, task, signal of an executor | register, bind, bind_completed, launch, complete, unbind, unbind_completed, interrupt, release, unregister | refusal by state, lost answers, repeated calls, a task popped but not yet Running |
| FEM worker loop (`executor_manager/src/states/`) | where the worker is | the calls above; enter and leave a session | entering or leaving fails; the process restarts |
| Nodes (`controller/nodes/`) | Ready, Unknown, NotReady | register_node, drain, shutdown | both walk clones listed at their start |
| Scheduling loop (`scheduler/`) | one snapshot per cycle | Dispatch, Allocate, Shuffle | everything in a cycle acts on an old snapshot |
| Policies (`scheduler/plugins/`) | counters per session and node | ordering, limits, gangs | partial gangs, several sessions |
| Notifier (`notify.rs`) | channels | subscribe, notify, remove | lost and late wakeups |
| Session map (`storage/mod.rs`) | id to session | create, open, delete, evict | incarnations of one id, concurrent opens |
| Node connections (`controller/connections/`) | connection, timer, queue | connect, drain, timeout, forward | timer against reconnect, end of an old stream |
| Object cache (`object_cache/`) | metadata, key locks, resident objects, LRU | put, patch, delete, delete_if_unchanged, evict, GC | prefix delete against put, policy against resident map |
| Applications (`applications.rs`) | registered applications | register, disable, reconcile | removal against a new session |
| Devices (`executor_manager/src/devices/`) | claims | allocate, release, refresh | claims against a total that shrinks |
| Shims, CRI, installer, flmbox, SDK, CLIs | outside the program | process and file control | not reachable by a model of this code |

The properties aimed at are in section 4, per run; the hazards with their lines
are in `PROJECT.json`.

## 2. Modules

| Module | Models | Variables |
|---|---|---|
| `Storage` | cache and SQLite rows of one session; the writes all handlers share | `ssn tasks index retries subs execs exe`, `dbSsn dbTasks dbExe` |
| `Sessions` | session calls, one thread per caller | `call` |
| `Workers` | an executor's worker with the FSM handlers it calls | `worker lost` |
| `Nodes` | registration, drain, cleanup, FEM restart | `node` |
| `Scheduler` | snapshot, Dispatch, Allocate, Shuffle | `sched` |
| `Flame` | composition, faults, fairness, properties | `faults` |
| `MCFlame` | instances for TLC | |
| `FlameProofs`, `ClosedProofs`, `SuspendProofs` | theorems | |

How the code became actions:

* **A step is what runs between two awaits.** Handlers that hold state over an
  engine await (`create_task`, `close_session`, `update_session_state`,
  `launch_task`, `complete_task`, `unregister_executor`, `delete_executors`,
  `register_node`) are several actions; `call[th].pc`, `worker[e].pc` and
  `node.pc` say where they are. The remaining executor handlers have one engine
  write and nothing after it that others could disturb, and are one action.
* **One session.** Locks, indexes and channels are per session, and no handler
  touches two. Several sessions meet only in the policies and in the session map,
  which are planned separately. `TaskIds` are `1..MaxTask`; an executor names
  session `"s"` or `"none"`.
* **Task rows and their cached copies** are pairs of state and version:
  `UpdateTask` publishes only a newer version and moves the task in the index, as
  `Session::update_task` does. Inputs, outputs and messages are left out.
* **Executor records.** `exe` is the shared record behind the map's pointer,
  `execs` the ids in the map: a deleted executor's record lives on for a waiter
  that kept its pointer. `UpdateExecutor` writes the row and then state, session
  and task of the record; the volatile signal survives except in Idle.
* **Workers.** A call, the handler and its answer are one action where the handler
  is atomic, with two outcomes while `lost > 0`: the worker moves on, or the answer
  was lost and it repeats the call. `DropCall` drops a handler at an await.
  `Abandon` does so for a client.
* **The node** delivers a new or released executor at once; the notification queue
  is planned with the connection registry. A registration and a cleanup of the node
  do not overlap here. FEM restart drops the calls of its workers with them.
* **The scheduler** keeps of a snapshot what its actions still ask for: how many
  executors are needed, which are free, bound or idle, how many are surplus. Real
  executor ids are fresh UUIDs: `Fresh` reuses an id only when nothing refers to
  it. `Executors` is the room on the node. A gang is one executor.
* **SM restart** is `LoadData`: it drops all calls and cycles, retries Running tasks
  of an open session and takes Binding executors back to Idle.

## 3. Bounds and fairness

Bounds: `MaxTask` tasks, `RetryLimit` failed binds, `MaxLost` lost calls or answers
and failed cleanups, `MaxFault` outages or restarts; each is a conjunct of the
action it limits. Two executors and two tasks are enough for a task to be handed
out twice and for an executor to be bound again; two clients for calls to overlap;
one fault for each recovery path to run against everything else. Safety runs use
symmetry over executors and clients; `live` does not.

Fairness (`Flame!Fairness`) is weak fairness of each handler in progress, of each
worker, of the node's steps and of the scheduling loop: Tokio polls what is ready,
workers and the loop repeat without end. Starting a client call is not fair, and
neither are faults or losses. `Expiry` states that no executor stays Idle for
ever: `delay_release` makes Shuffle release it, or a bind takes it; the model has
no clock, so this is an assumption on the environment's time. Deadlock is checked
in every run: the scheduling loop always has a next step.

## 4. What is checked

| Run | Instance | Checks |
|---|---|---|
| `core` | 2 executors, 2 tasks, all calls | `PoppedInHand`: a popped task is in a handler's hand. `OneHolder`: no task at two executors. `RunningHeld`: a Running row is reachable from an executor. `CacheAgrees`, `ResultFinal`, `ExecutorWellFormed`, `TypeOK` |
| `race` | 2 clients, 1 executor | `IndexAgrees`, `ClosedStored`, `ClosedFinal`, `SuspendQuiescent` |
| `lost` | 1 loss, 2 executors, 2 tasks | `OneHolder`, `SuspendQuiescent`, `ExecutorWellFormed` |
| `fem_restart` | FEM restart, 2 executors, 2 tasks | `OneHolder` |
| `outage` | broken stream, 2 executors | `CacheAgrees`, `SuspendQuiescent` |
| `sm_restart` | FSM crash and recovery | `ClosedStored`, `ClosedFinal`, `ExecutorWellFormed` |
| `live` | fairness, 1 executor, 2 tasks | `TaskProgress`, `SuspendProgress` |

Each property of each passing run is broken by a mutant of a mapped definition
(the definitions marked "Mutant", kept next to the one they change).

What does **not** hold, and is therefore not claimed in those runs:

* `OneHolder` after an outage or an FSM restart with two tasks: `retry_task` makes
  a task Pending that a live worker still runs.
* `ResultFinal` with a lost `complete_task` (the finished task is re-launched) or an
  outage (`delete_executors` retries whatever the listed clone names).
* `CacheAgrees` with a lost call or an FEM restart: a handler dropped between the
  engine's write and the publication leaves the cache behind.
* `SuspendQuiescent` over an FSM restart: a resume may be acted on before it is
  stored.

Five runs show where the code and the repository's own text disagree:

| Run | Text | What happens |
|---|---|---|
| `left_behind` | `storage/mod.rs:1019` "a rejected update leaves nothing behind" | the check precedes the engine write; a close in between leaves a Running row |
| `closed_unbinds` | RFE601 FS.md:148 "A suspended or closed session unbinds its executor" | a close that overtakes a launch leaves its executor repeating launch and complete |
| `suspend_race` | RFE601 FS.md:112 "Rejected transitions: `suspend` on anything but `Open`" | the flip refuses only Closed |
| `stale_interrupt` | `apis/executor.rs:60` "reused without interrupting its next session binding" | an interrupt from an old snapshot reaches an Idle executor |
| `lost_answer` | RFE384 FS.md:23 "Ensure tasks eventually complete via retry mechanism." | a repeated `register_executor` is refused for ever |

## 5. What is proved

For any finite set of executors, any clients, and any bounds:

* `TypeCorrect`: `Spec => []TypeOK`. Typing alone is not inductive: a handler that
  has popped a task must have a task id, and a flip in progress must have a real
  state to go to or back to (`PoppedTask`, `FlipsAlive`); `TypeInv` adds both.
* `ClosedIsStored`, `ClosedIsFinal`: the inductive invariant `ClosedInv` adds that a
  close about to be published has been written by the engine (`CloseWritten`) and
  that no flip remembers or asks for Closed, so that an undo cannot invent or
  remove a close. Both hold with every fault, FSM restarts included.
* `SuspendIsQuiescent`: without FSM restarts, a session shown Suspended and not
  closed has no executor. `QuietInv` adds: a cycle that completes a suspend saw no
  executor and binds nothing (`CycleQuiet`); clients never flip to Suspended
  (`ClientsSignal`); a flip taken back met a closed row (`RefusedClosed`); a handler
  with a popped task works for an executor of the session (`LaunchServes`); a
  registration writes back no session the record does not already name
  (`ListedIdle`). The hypothesis `"sm" \notin FaultKinds` is needed (section 4).

Assumptions: `Executors` is finite, the bounds are naturals, `"scheduler"` is not a
client, `Calls` and `FaultKinds` are among the modelled ones. The strengthened
invariants were checked with TLC on small instances before they were proved.

Only model-checked: the task properties (`PoppedInHand`, `OneHolder`, `RunningHeld`,
`CacheAgrees`, `IndexAgrees`, `ResultFinal`), `ExecutorWellFormed`, and both liveness
properties, which are outside TLAPS's reach because of fairness.

## 6. Plan

1. **Proofs of the core**: `IndexAgrees` and `ExecutorWellFormed` next, then
   `PoppedInHand` and `OneHolder` without faults.
2. **`NodeConnection`**: connection states, drain timer, old and new streams, the
   notification queue; an abstract specification (one live stream, each
   notification delivered in the end) and the detailed one under it. RFE384
   FS.md promises recovery without cleanup when a node reconnects in time.
3. **`SessionMap`**: create, open, delete, evict and close over the map and the
   engine, with incarnations of an id.
4. **`ObjectCache`, `Eviction`, `CacheGC`**: key locks, prefix deletes against puts,
   the LRU list beside the resident map, the collector's two listings.
5. **`Ledger`, `Applications`**: reservations under refresh; removal of a disabled
   application against new sessions.
6. **Policies**: MinMax, DRF, priority and gangs for several sessions as operators
   checked against reference definitions; `Statement` commit and discard.
7. **Filesystem engine**: its crash points behind the engine trait.

Not planned: shims, cgroups, CRI, installation, flmbox, SDKs, command line tools
(effects outside the program, or sequential), events (nothing depends on them),
configuration and RPC conversions.
