# Verification of coding-tools-mcp

TLA+ models of the coding-tools-mcp system, the TLC configurations that check
them on small instances, and TLAPS proofs of their most important properties.
Every definition follows the source; `PROJECT.json` ("map") names the lines of
each one.

## 1. The system

A desktop application (`src-tauri/`, Rust) and a headless agent
(`packages/node-agent/`, TypeScript) serve coding tools over MCP and an Actions
HTTP API, each for workspaces of one machine. A device that is not reachable
from outside connects to a **tunnel server** (`services/tunnel-server/`, Rust):
it opens WebSockets to the server, and the server forwards the public HTTP
requests of `/mcp/<client>` and `/actions/<client>` through them.

| Part | State | Operations | Hard behaviours | What makes it correct |
|---|---|---|---|---|
| Tunnel server: admission queue (`main.rs`: `PendingQueueTracker`, `PendingRequestSlot`) | a counter per lane, age entries, a `Notify` | acquire under a deadline, release, give up | waiters, wakeups and releases of two lanes interleave; limits change | slots are counted exactly and bounded; no waiter sleeps beside a free slot |
| Tunnel server: registry and sessions (`Registry`, `SplitSessionRegistry`, `SplitSessionState`, worker, control and data sockets) | owner and pool of each route, capacity counter of each pool, sessions, their control generation and routes | register, take over, count, attach, detach, remove after a grace period | counters and snapshots read before they are used; sockets end at any point; reconnects race timers | devices never share a pool; a request reaches the device it was addressed to; capacity is counted; sessions do not linger |
| Tunnel server: dispatcher and stream slots (`dispatch_requests`, `SharedWorkerClaim`, `run_split_data_socket`) | offers, job queues, claims, generations, streams | publish, claim, assign, reject, end, reset | several dispatchers compete for one slot; the socket task resets slots concurrently | one taker per slot; no job lost or run twice; capacity comes back |
| Tunnel server: device registry (`device_auth.rs`, `database.rs`) | codes, devices, grants in SQLite; a cache; a writer thread | create code, enroll, retry, revoke, delete, verify, CLI | crash between commit and cache write; stale cache; retries | codes are spent once; revoked devices are refused; grants follow codes |
| Tunnel server: proxied requests (`proxy_request`) | attempt, deadlines, cancel flag | lookup, admit, assign, await head, retry, stream | timeouts race answers, retries | at most two attempts, only for repeatable calls; every request is answered |
| Tunnel server: policy, updates, administration, logs | settings, releases, login sessions, ring buffers | HTTP handlers | policy changes under running pools | - |
| Wire protocol, command policy (`crates/`) | none | encode, decode, classify | limits | round trip |
| Desktop: tunnel client hub (`tunnel/builtin*`) | desired routes, data workers, control socket | add/remove route, reconnect, resize | reconnect during registration; ownership hand-off between workspaces | desired and registered routes converge |
| Desktop: runtime and tunnel supervisors | phase per workspace and service, child processes | start, stop, refresh | early returns between phases | a service is never stuck between phases |
| Desktop: MCP server, tasks, sessions, OAuth, Actions | handles, tokens, tasks | HTTP handlers | expiry, capacity | tokens and handles are used by their owner, in time |
| Desktop: tools (execution sessions, patches, files, git, history, sandbox) | processes, staged files | start, read, cancel; apply, roll back | partial failure | a patch applies whole or not at all |
| Desktop: harness | task, events, index on disk | start, transition, finish | several files per operation, no lock | one active task per scope |
| Desktop: knowledge, workspaces, settings | JSON and SQLite stores | load, save | - | - |
| Node agent: managed jobs (`processes.ts`, `processes/durable*`) | sessions in memory and on disk, locks, detached workers | launch, watch, finalize, kill, restore | the agent, its workers and their commands end independently; unordered writes | one process per operation and lock group; every job ends, and comes back after a restart |
| Node agent: the rest | the same roles in TypeScript | | | |
| UI, scripts, docs | none of the system's | | | |

**Interactions.** `proxy_request` looks a route up in the registry and gets its
`ClientPool`: a pair of job channels, an offer channel and a counter. It takes a
slot of the pool's admission queue, sends a `ProxyJob` to the pool's dispatcher
and waits. Worker sockets (protocol v4) and data sockets (v5, split sessions)
send the dispatcher offers; the dispatcher pairs an offer with a job, claims the
slot behind it and sends an assignment to the socket's task. Control sockets
register and remove the routes of a session; a device has to have been enrolled,
not be revoked, and hold a grant for each route it registers.

The tunnel server is the core: it is where the tasks of many devices and callers
share state. It is modelled first, then the parts of the desktop where
commands, failures and restarts meet; `PROJECT.json` ("components") lists every
part with its status, ("hazards") what is hard to test, with the properties that
cover it or the reason why none does.

## 2. Modules

| Module | Models | State and actions |
|---|---|---|
| `PendingQueue` | admission queue | `pc[r]` is where a request is in `acquire_until` or where the owner of a slot is in `release`; `permit`, `waiters`, `woken`, `ready` are the `Notify`. One action per await, atomic or lock: `Enable`, `TryNewOk`/`TryNewFull`, `Enter`, `Wake`, `GiveUp`, `Exit`, `Sub`, `NotifyOne`. |
| `RouteOwnership` | registry, sessions, sockets | `owner`, `current` and `fresh` are `Registry`, `active_workers` the pools' counters (they wrap at `Word`); `registered`, `attached`, `generation`, `timers`, `routes`, `active_data` the split sessions; `worker`, `control`, `conn`, `request` the program points of the tasks. Every atomic operation and every critical section is a step: `LoadConnections` and `InsertRoute` are the two halves of `register_route`, `SnapshotForAdd` and `AddToPool` those of `attach_data_connection`. |
| `StreamSlots` | dispatchers and one data socket | `generation`, `claimed`, `active` are the slots, `offers` and `queue` a pool's channels, `dispatcher` what a dispatcher holds between the loads and the swap of `try_claim`, `flight` the assignments on their way, `publishing`, `offering`, `admitted` where the socket's task is. |
| `ProxyRequest` | `proxy_request`, `dispatch_requests` with its lanes and the control reserve, v4 workers | `phase[r]` is the await a request is in, `attempt[r]` its attempt; a job is a request and an attempt, `place[j]` says who holds it, `slotted` and `pending` are the pending slots, `head[j]` the oneshot of the response head, `cancelled` the watch. `Pair`, `Assign`, `Settle` are the stretches between the dispatcher's looks at shared state; `Receive` is its biased `select!` with the `retain`s that follow. |
| `JobDelivery` | abstract specification of what the tunnel promises for a job, one attempt at a request: sent once, handed to a runner at most once, never offered again afterwards, over once; a runner has one job at a time | `waiting`, `handed`, `running`, `over`. `StreamSlots` instantiates it with its slots as runners, `ProxyRequest` with its workers. |
| `DeviceAccess` | abstract specification of the device registry: codes are issued once, spent once, and only spending gives access | |
| `DeviceEnrollment` | device registry | `code`, `row`, `grants` are the tables, `cache` the registry's map, `job` what the writer thread still has to do after its commit, `connection` the sockets between authentication and route registration. `Crash` loses everything but the tables; `Restart` is `initialize_schema` and `load_devices`. `DeviceAccess` is instantiated with `access` read off the tables. |
| `ClientHub` | the desktop's tunnel hub and the session at its other end | `hubDesired` is `desired_routes`, `hubTable` the hub's route ids, `hubOut` and `hubIn` the frames on their way, `hubSession`, `hubServed`, `hubNextId` the server's session. The pool replays, serves commands and rebinds: one action per frame sent or received, per loss noticed at either end, per command. |
| `RuntimeSupervisor` | one local service of a workspace | `rtPhase`, `rtTask`, `rtMissing` are the supervisor's entry, `rtLock` its mutex while a restart keeps it, `rtListener` the listener tasks, `rtEnabled` the persisted flag. A command is a sequence of steps, one per stretch under the mutex, per save and per wait. |
| `PatchTransaction` | how the file tools change several files | `patchDisk` is the content of each file, `patchBase` what was read, `patchBackup` what would be restored, `patchPc` and `patchTodo` the loop and its rest. Every read, check, write, rename, removal and restore of a file is a step that may fail, and others may change a file between two of them. |
| `HarnessTask` | tasks of one scope and the index of the current one | `htStatus` are the task files, `htIndex` and `htCovers` the index and whether it is newer than their directory, `htPc` where a call is between two reads or writes of files: the index, its time, the task it names, the directory and each task in it are read one after the other. `start_task`, transitions and `update_task` hold the Task lock, lookups with their repairs and the refresh after another tool do not. |
| `ExecSession` | a command's session, with the calls that start, attach to and kill it | `exPc[c]` is the await a call is in, `exOpLock`, `exResource` and `exSlots` the locks and the active slots, `exProc`, `exExited`, `exChild` the process, what the program knows of it and the lock of the child, `exMonitor` and `exTimer` the tasks that outlive the call, `exGen` and `exDetached` the two atomics of an attachment. A call may be dropped at every await (`ExFails`, `ExDrop`). |
| `DurableSession` | the node agent's managed jobs | `dsCall[j]` is the await `startProcess` is in, `dsSession` the sessions in memory with the stage of their monitor, `dsHolder` the lock of the group; `dsDir`, `dsSnapshot`, `dsRuntime`, `dsResult` are the files of a job, `dsWrites` and `dsRemoving` what is on its way to the disk, `dsWorker` and `dsRunning` the worker and its command, each of which may end without the other (`DsWorkerDies`, `DsExits`). `DsExit` loses what is in memory only; `DsStart`, `DsRestore`, `DsServe` are the restart. |
| `*Proofs` | theorems about the module they extend | |
| `MC*` | instances for TLC; `MCServing` runs `PendingQueue`, `ClientHub`, `RuntimeSupervisor` and `ExecSession` side by side, `MCRecords` two device registries, `PatchTransaction` and `HarnessTask`, `MCWorkerJobs` `ProxyRequest` and `DurableSession`, `MCStreamSlots` the slots and the split session of `RouteOwnership` | |

The modules are separate because the code's parts meet at narrow points:
`RouteOwnership` and `StreamSlots` meet at the offers of a data connection
(`RouteOwnership` lets any open connection serve any pool its session holds a
route of, which is what `StreamSlots` does in detail), `PendingQueue` and the
other two at the job (`Progress` includes the release of a slot, which
`StreamSlots` shows to come about for a job that is given up). `ProxyRequest`
has a request's whole life over one pool: its `Acquire` is what `PendingQueue`
details, its v4 workers have no claim to take, which is why the claims are in
`StreamSlots`. What the two say of a job is the same promise, `JobDelivery`, kept in
different ways: `WaitingJobs` and `HandedJobs` read it off the queues, the dispatcher and
the assignments on the way. `DeviceEnrollment` decides which devices may register at all;
`RouteOwnership` assumes them. `ClientHub` is the client of the sessions in
`RouteOwnership`, whose server half it repeats as far as a client sees it. The
other desktop modules and `DurableSession` share no state with the tunnel or with each
other: their variables begin with `hub`, `rt`, `patch`, `ht`, `ex` and `ds`, so that
`MCServing`, `MCRecords` and `MCWorkerJobs` can each extend several of them beside one
module of the tunnel; the variable `part` says which one runs, the others rest in
their first state.

Operators named as a "Mutated form" are plausible mistakes in the code. No
specification uses them; each property is shown to fail when one replaces the
definition it mutates.

## 3. Runs

| Run | Shows |
|---|---|
| `serving` | queue: counters, tracker and limit are exact (`TypeOK`, `SlotAccounting`); no waiter sleeps beside a free slot without a wakeup on its way (`NoStrandedWaiter`), and the slot is taken (`RoomIsTaken`); hub: what is served and what would be replayed are the same routes (`HubRoutesAgree`), and the hub recovers (`HubRecovers`); runtime: a service recorded as disabled is quiet and no listener is orphaned (`RtServingIsRecorded`), a stop ends (`RtStopEnds`); exec: an operation has one unfinished session, no process runs without a slot and the resource is used by one (`ExOneProcess`), the end of each call's operation is logged once (`ExLoggedOnce`), and what was abandoned ends (`ExAbandonedEnds`) |
| `queue_two_lanes` | the same `NoStrandedWaiter` fails when both lanes are full (finding 1) |
| `ownership_takeover` | a request reaches the device it was addressed to (`ServedByOwner`), `WorkersCounted` and `LiveOwnerKeepsRoute` for a device that connects workers, while another device takes its route over; one control socket at a time and an exact count of data sockets (`SessionAccounted`), a grace period per detachment (`GracePerDetachment`), also where two control and three data sockets compete for one session |
| `ownership_count` | capacity of a route nobody serves is not always counted as 0 (finding 2) |
| `slots` | `ExclusiveClaim`, `FreeSlotOffered`, `JobConservation`, `GivenUpFinishes`, and the implementation of `JobDelivery` (`DeliverySpec`), while routes come and go and the socket may fail, and when control is lost and rebinds; for the session itself, that it does not linger (`DetachedIsResolved`) |
| `slots_leaked_claim` | a claim may be left behind (finding 3) |
| `records` | registry: it implements `DeviceAccess` (`AccessSpec`), the cache is the table whenever no job runs (`CacheIsTable`), grants follow rows (`GrantsFollowRows`), and no connection is authenticated after a reported revocation (`RevokedIsRefused`); after revocations by the server or by the CLI and up to two crashes, a restarted server refuses every revoked device (`CliRestartRefuses`); patches: applied, or as they were, but for the files and the early return the property names (`PatchWholeOrUndone`), and earlier edits are kept (`PatchKeepsEarlierEdits`); harness: the current task is found and is one, where no lookup interleaved with a change (`HtCurrentTask`) |
| `registry_cli` | without the restart it does not (finding 4) |
| `registry_retry` | an interrupted enrollment is not always answered again (finding 5) |
| `worker_jobs` | proxy: slots are held and given back exactly (`TypeOK`, `SlotsConserved`), a request is repeated only where it may be and never on two workers at a time (`RepeatedSafely`), executions leave a worker to the control lane (`ControlReserve`), the dispatcher and the workers implement `JobDelivery` (`DeliverySpec`), and everybody is answered, with an error only where the worker is let go (`Answered`); jobs: two commands of one operation or lock group never run at a time, but for a launch that was given up or a worker that died before its command (`DsOneProcess`), and every job is finalized, whichever file cannot be written and whether the worker or the agent ends first (`DsJobEnds`) |
| `jobs_restart` | a restart that restores two unfinished jobs of one lock group does not end (finding 6) |
| `harness_two_tasks` | a scope may have two active tasks (finding 7) |

**Bounds, and why they are enough.** `serving`: in the queue, four requests for two
execution slots make two waiters and two holders, so a wakeup can be handed on,
dropped with its future and stored as a permit; the control request takes part in
the `Notify` without ever waiting; three commands for two routes of the hub
with two losses and a refusal, so that a registration can be lost, repeated and
refused; three overlapping commands for a service, of which at least one starts
it; a command, the same or another one and a kill, with one active slot, so that
calls wait for the operation's lock, the resource and the slot. `ownership_takeover`: three pools allow two
takeovers in a row, one route and two devices the case that matters for
isolation; a device with a split session stands against one with two workers, and
`Word` = 8 lets counters wrap. Its first choice is the scenario: that one, with one
control and one data socket, or all sockets of the session without the other device. The control generation is bounded by
`MaxGeneration` (2, and 3 in `slots`, enough for a timer of the
first detachment to outlive two more), connections by the number of `Conns`.
`slots`: one slot, two pools, three route ids of which one re-registers a
key, two jobs; a slot's claim concerns one slot at a time, so a second one only
adds interleavings. The first choice of the run is the scenario: routes that
change under an attached control socket, a control socket that is lost, or a session
for which two control and two data sockets compete. `MaxDetaches`, `MaxUnregisters` and `MaxGiveUps` bound the
environment's interruptions. `records`: two codes for two clients, two
devices, two keys, one connection, two crashes; the registry with the CLI has one
device and a third code for it, to be revoked and enrolled again. A patch has two files
and every tool and operation, beside two foreign edits; the harness has four calls for two tasks, of which
one starts and one moves a task (`harness_two_tasks`: two starts, two lookups).
`worker_jobs`: two requests at a time (two executions, or an execution and a repeatable
control request) and two workers, the fewest for which there is a reserve; the channels
hold one job, so that they are full; two managed jobs of one lock group or of one
operation, and one end of the agent, after which both may be on the disk. Symmetry is used over pools only (`ownership_takeover`, a run
without liveness).
`CHECK_DEADLOCK FALSE` stands where a bounded environment comes to rest: all
requests served, all codes spent.

**Fairness.** `PendingQueue!FairSpec`: weak fairness of each task's next step
(tokio polls a task that can run) and of the return of a slot a job holds, which
the dispatcher's cleanup tick brings about; clients are free to come and give up,
or not. `RouteOwnership!FairSpec`: the cleanup task of a detachment is spawned
with a timer that fires. `StreamSlots!FairSpec`: dispatchers and the socket task
run; an assignment in the channel and the end of a stream whose request was given
up are received by a `select!` that picks at random among the ready branches,
hence strong fairness. A stream of a device that answers nothing need not end.
`ProxyRequest!Fairness`: some request whose await can end or whose deadline has
passed goes on, and so does the socket task of a worker; agents may hang for ever.
`HubFairness`: the hub's task runs, and the server reads its sockets; losses and
refusals are bounded. `RtFairness`: a command that began goes on, its timers
fire, and a listener that was told to stop lets go of the port; its connections
may last for ever. `ExFairness`: spawned tasks run, deadlines and grace periods pass, a
process that is killed dies; one weak fairness for all of them is enough, as each
can move finitely often only. Calls may hang for ever. `DsFairness`: the same for
launches, ticks of the monitor, finalizations, workers and their deadlines, and a start
under way; commands, callers, writes and whoever starts the agent are free. As each part
of `MCServing` and `MCWorkerJobs` and each scenario of `MCStreamSlots` moves alone, its
fairness is required where it runs.

## 4. Findings

1. `release` wakes one waiter of the `Notify` both lanes share; the waiter may
   belong to the other lane and go back to sleep (`main.rs:638`).
2. `register_route`, `attach_data_connection` and `detach_data_connection` update
   a pool's counter from values read earlier, without a common lock; the counter
   of an abandoned route may stay above zero or wrap, and nobody can take the
   route over (`main.rs:320`, `:382`).
3. `try_claim` that loses against a reset between its swap and its second load
   leaves `claimed` set (`main.rs:671`). A slot free and unclaimed to its socket
   is offered, and no dispatcher can take it.
4. `devices revoke` of the CLI changes the file, not the cache of a running
   server (`main.rs:1261`).
5. `enroll_blocking` compares the repeat of a spent code with the device's
   current client; a device that spent a second code for another client is refused
   (`device_auth.rs:460`).
6. `restoreDurableSessions` waits for the lock of each unfinished session's group, and
   the monitors that release such locks are attached after the last one
   (`durableSession.ts:429`). Two unfinished snapshots of one group are left by an agent
   that ended, even orderly, after `finalizeSession` had passed the lock on and before
   the first job's last snapshot was written, or by a launch that failed before its
   directory was removed. The next start of the agent never ends.
7. `repair_workspace_state` lists the tasks and writes the index without the Task lock,
   for every tool that looks its task up (`harness/state.rs:757`). A listing from before a
   start, written after it, says that there is no task, and is newer than the directory,
   so that the next `start_task` believes it. The same comes of the two looks a start takes
   at the index: it loads one without the entry (`:115`), a lookup repairs it, and the time
   it then compares is the repaired one's (`:132-136`). Two tasks of a scope are active,
   which `docs/specs/harness-foundation/requirements.md:107` excludes.

Seen while modelling and visible in the modules, but without a run of their own:
a session that registered a route, lost it to another device before its first
data connection and then opens one publishes slots to its old pool
(`main.rs:382`; harmless, since no public route points there: `PoolIsolation`, part of the theorem `Isolation`);
an assignment rejected because its route is gone takes the slot back without
publishing it (`main.rs:1885`: `FreeSlotOffered` is stated for sessions with one
route); an assignment that arrives while control is detached fails instead of
waiting (`main.rs:1880`, `Receive`); a request that cannot be sent stays in
`session.active_streams` (`main.rs:1891`, `SendFailed`).

Of the modules that came later:

- *Proxied requests.* A request answered 503 at its deadline may have been
  assigned at that moment; its job is then cancelled on the worker
  (`main.rs:3250`, `AssignTimesOut`). A caller that leaves sends no cancel: the
  job is found out when its body has nobody to go to (`CallerLeaves`). Offers of
  lost workers count for the control reserve until they are swept, so an execution
  may take the last worker (`main.rs:901`; `ControlReserve` is stated while no
  worker was lost).
- *Hub.* A refused replay ends the session of all workspaces and starts over,
  for as long as the server refuses that route (`builtin.rs:482`). A
  `RouteUnregister` lost with the socket leaves the route at the server until the
  session ends (`builtin.rs:683`). `HubTableServed` says only that what the hub
  lists is served.
- *Runtime.* `start` that cannot read the port's owner or a secret leaves its
  entry in phase Starting, and later starts answer that it is starting until
  somebody stops it (`supervisor.rs:247`). A stop that overlaps a restart removes
  the restart's entry, and with it the new listener (`supervisor.rs:125`): the
  service is down although it was just recorded as enabled.
- *Patches.* Both loops of `commit_staged_bytes` resolve each path again and return
  without a restore when that fails; in the second one (`transaction.rs:68-72`) this leaves
  the files replaced so far, each of them whole; so does a crash. `apply_guarded`
  writes in place: a write that breaks off leaves its file truncated, and only the files
  written before it are written back (`file_action/transaction.rs:246-254`). A file that
  exists but cannot be read is backed up as empty (`transaction.rs:44`), and a rollback
  that fails is not reported.
  `docs/specs/harness-high-availability/requirements.md:16` and `:73` promise no
  partial write, which these break; `patchHurt` marks the files that were hurt and
  `PatchWholeOrUndone` excepts them, and after an early return it only says that each
  file is as it was or as it should become.
- *Harness.* The refresh after another tool may write back the status a `finish_task` in
  between has replaced. `htOverlap` marks this and the overlaps of finding 7, and
  `HtCurrentTask` excepts them.
- *Commands.* `run_command` inserts the session, waits for the child's lock in
  `spawn_readers`, and only then spawns the exit waiter and the monitor
  (`exec/lifecycle.rs:121`). A request dropped at that wait leaves a session that
  nobody finalizes: its locks are released while the process runs, the detached
  timer kills the process unless somebody attached, and its active slot is never
  given back. `ExOneProcess` and `ExAbandonedEnds` except such sessions. On Windows a
  request dropped during the start-up probe closes the job of its child, which
  kills it, provided the child could be assigned to a job.
- *Managed jobs.* A launch that fails after the spawn (the worker is slow, or
  `session.json` cannot be written) removes the session and releases its locks, while
  nobody stops the detached worker: its repetition runs a second command beside it
  (`processes.ts:520`). `dsGivenUp` marks such launches, and so those an exit of the agent
  cut off after the spawn and before their first snapshot. A worker that dies while its
  command runs leaves the command behind, which is detached (`durableWorker.ts:43-51`) and
  then has no deadline either: the monitor makes up the result `crashed`
  (`durableSession.ts:245-268`), `finalizeSession` passes the group's lock on
  (`processes.ts:212`), and the next command of the group runs beside it. `dsGivenUp`
  marks these jobs too, and `DsOneProcess` excepts both.

## 5. Proofs

All theorems hold for every value of the constants that meets the module's
assumption (`AdmissionAssumption`, `OwnershipAssumption`, `EnrollmentAssumption`,
`SlotsAssumption`, `ProxyAssumption`, `RtAssumption`, `PatchAssumption`,
`HubAssumption`, `HtAssumption`, `ExAssumption`, `DsAssumption`; `RouteOwnership` has
`FiniteSockets` as well). Each `*Proofs`
module states its inductive invariant first, then what a step keeps of it, action by
action, and ends with the theorems. `WellTyped` proves the `TypeOK` of its module, where
the ranges are tight: a counter never falls below zero. (Those of `RouteOwnership` wrap by
definition, so that its `TypeOK` says nothing of them and is proved but not run.)

**Admission queue** (`PendingQueueProofs`)

- **`WellTyped`**, **`SlotsAccountedFor`**: `SlotAccounting` and `LaneBound`
  for any lanes, requests and changing limits. `AdmissionInv` adds that a request
  under way carries a limit of its lane. One step per action; the lemmas say how
  the set of slot holders of a lane and its cardinality change.
- **`NoLostWakeup`**: `NoStrandedWaiter` where one lane with one limit uses the
  `Notify` (`SingleLimit`; finding 1 shows that the assumption is needed). The
  invariant is `WakeInv`: free slots beside a parked request never outnumber the
  notifications delivered plus the requests still to retry or notify.
  `NoStrandedWaiter` alone is not inductive, as two slots may become free under
  one notification on its way. `SlotAccounting` bounds the counter.

**Registry and sessions** (`RouteOwnershipProofs`)

- **`Isolation`**: `PoolIsolation` and `ServedByOwner` for
  any devices, routes, pools, sockets and requests. `IsolationInv` adds that a
  pool not created yet is used by nobody, that routes have pools of their own,
  that control sockets drive sessions, and that a queued request's pool stays with
  the owner it found. The proof never uses the counters: isolation survives the
  miscounting of finding 2.
- **`SessionsAccounted`**, **`GraceKept`**: one control socket drives a session at a
  time and `active_data` is the number of data sockets attached; only
  the cleanup task of the latest detachment removes a detached session.
- **`WorkersAreCounted`**: the counter of a pool that only workers use is their number,
  through takeovers. It needs the sockets of a device to be finitely many and fewer than
  `Word` (`FiniteSockets`): beyond that the counter wraps, as `usize` would.
- **`LiveOwnerKept`**: an action property. A route moves to another device only when
  its owner's counter is zero, and where the owner is served by workers zero means that
  none is connected. Where it is served by data sockets this fails (finding 2).

**Stream slots** (`StreamSlotsProofs`)

- **`OneTakerAtATime`**: `ExclusiveClaim` for any slots, pools,
  route ids and jobs. The holders alone are not inductive: between the swap of the
  flag and the second look at the generation a dispatcher has taken the slot, if the
  generation has not moved on, and does not hold it yet. `Takers` counts these too;
  `OneTaker` says that a slot has one taker at most, whose flag is set, and
  `GenerationOK` that no offer is of a generation to come and that the owner's is the
  present one, so that a reset takes the slot from nobody else. The proof assumes
  nothing of the lists of offers.
- **`WellTyped`**: with `Streams`, which ties `active_streams` to the slots that have a
  stream while the socket lives, and says that an assignment admitted to a slot finds it
  without one. A stream that cannot be sent stays counted: the count may then be too high,
  never too low.
- **`JobsConserved`**: `JobConservation`. `OnePlace` says that a job that was sent to a
  pool is in exactly one place and any other nowhere; each step moves at most one job from
  its place to another, and `Sweep` and the end of the socket move several to "finished".
- **`CapacityIsOffered`**: `FreeSlotOffered`, for a session with a single route that was
  there when the data socket opened. `Whole` says where the capacity of each slot is: in
  exactly one of seven spots, its flag clear until the dispatcher has swapped it and set
  from there to the end of the stream, and that every offer in the list or with the
  dispatcher is of the present generation. That is why no claim fails and no offer is
  dropped here. TLC showed that the
  property is false when the route is registered while the socket publishes its slots for
  the first time: they are published twice, and a claim of the second offer that meets the reset of the
  first one's stream leaves the flag set. The list of offers is handled by what `Tail`, `Append` and `retain` do
  to its indices; no induction over it is needed.
- **`DeliveredOnce`**: the dispatchers and the data socket implement `JobDelivery`, so that
  a job is assigned once, whatever claims fail, and never queued again once it was sent.
  `DeliveryIs` says by place who waits and who was handed over; `JobsInv` makes the places
  exclude each other, so that a job leaves its stage exactly when it leaves its place. A
  failed claim, a second look at the generation and a release are stutters; the loss of the
  socket ends all that was handed over or runs, and nothing that waits.

**Proxied requests** (`ProxyRequestProofs`)

- **`WellTyped`**, **`SlotsAreConserved`**, **`RepeatsAreSafe`**, **`ReserveIsKept`**:
  one inductive invariant. `JobOK` ties the place of a job to the phase of its request, to
  its slot and to the dispatcher's program point: a job that somebody has yet to pair
  holds its slot, and a job answered "failed" is over. `AttemptOK` says that a second
  attempt has its first job over, `WorkerOK` that a job is with one worker and that a
  worker that is offered has none, `Counted` that the lanes count the slots. For the
  reserve, `Taken` are the workers an execution has or is about to have: while no worker is
  lost one connected worker is outside, as an execution is paired only when two are idle
  or one is with a control job.
- **`DeliveredOnce`**: the same promise, `JobDelivery`, with workers for runners. An
  assignment whose worker has gone returns its job to the queue before anybody was given
  it (`Assign`), which is why that is no second delivery.

**Device registry** (`DeviceEnrollmentProofs`)

- **`CacheAgrees`**, **`RevocationHolds`**, **`GrantsByCodesOnly`**, **`GrantsKept`**:
  `CacheIsTable`, `RevokedIsRefused`, the refinement of `DeviceAccess` and
  `GrantsFollowRows`, each assuming that no device is revoked through the CLI
  (finding 4 shows that it is needed). `RegistryInv` says what the cache is
  between a commit and its cache write, that a removal has taken only grants of
  revoked devices, and that a reported revocation has reached both table and
  cache. `GrantsFollowRows` carries the restart: the grants `initialize_schema`
  inserts are there already.
- **`RestartHolds`**: with the CLI as well, a server that restarts loads a device that
  was revoked for good as revoked or not at all.

**Desktop** (`DesktopProofs`, four parts that share no state)

- **`RoutesAgree`**: `HubRoutesAgree` for any routes, commands, losses and refusals.
  The invariant speaks of what is between the two ends: a registration is the last frame on
  the wire, and its answer finds nothing behind it (`HubWireOK`); the routes wanted and the
  routes listed differ by the command under way (`HubWantsOK`, through a rebind as well,
  which is why `HubPhase` looks at what the hub goes on with); and no frame on its way
  unregisters an id the hub lists (`HubServesOK`), as long as the hub still belongs to the
  server's session.
- **`ServingIsRecorded`**: `RtServingIsRecorded` for any
  finite set of overlapping commands. `RecordInv` is what holds between the two
  writes of a command: a listener that serves while the record says "disabled" belongs
  to a stop that has yet to take it, or to a start or restart that has yet to record
  it. That no listener is orphaned (`RtNoOrphan`) is inductive with it.
- **`OneCurrentIsFound`**: `HtCurrentTask` for any tasks and calls. The strengthening says what each call may
  write next: a repair writes the current task, a status about to be written makes no
  second task current, an entry about to be removed leaves none behind. It holds as
  long as what the lock does not keep apart did not overlap (`htOverlap`, set by a status
  that changes while a lookup lists the tasks, or between a refresh and its save, and by
  a repair between the two looks of a call with the lock), and the lock itself (`LockOK`)
  always. Finding 7 shows that the assumption is needed.
- **`WholeOrUndone`**, **`EarlierEditsKept`**: the invariant
  and the action property of the tools that change several files, for any number of
  files. `FileOK` says, for each place of the tool, what a file that nobody else has
  changed since it was verified contains, and what was kept of it; the action property
  follows because every write meets such a file. `WholeOrUndone` says what is left of the
  promise: an error leaves each file as it was, or as it should become where the tool
  returned early, but for the files of `patchHurt`.
- **`HubWellTyped`**, **`HtWellTyped`**: the type invariants of the hub (if there is a
  route at all) and of the harness, from the invariants above.

**Commands** (`ExecSessionProofs`)

- **`OneProcess`**, **`LoggedOnce`**: both invariants of the
  commands, for any calls and any limit of slots. `CallOK` says that a call about to
  start a session holds the operation's lock and finds no session indexed, `SessionOK`
  that a session stays indexed until it is finalized, and that once the exit waiter has
  let go of the child the process is gone: that is why giving the slot back under the
  child's lock is safe. `ResourceOK` passes the resource from the call to the monitor,
  `LogOK` follows an operation from the call to the session that logs it. **`WellTyped`**
  is part of the invariant.

**Managed jobs** (`DurableSessionProofs`)

- **`OneAtATime`**: `DsOneProcess` for any jobs and any number of ends of the agent. That
  running commands exclude each other is not inductive: `Active` counts a worker that has
  yet to start its command as well. `ActiveOK` carries such a job through a restart: once
  the caller was told of it, a snapshot on the disk says that it is unfinished, no write on
  its way says otherwise, and an agent that is up has its session or, while it restores,
  still has to. From the session follow the lock of the group (`LockOK`) and the
  operation's entry (`OperationOK`), which a second job would need. A job whose worker died
  is no longer `Active` once the agent has made up its result: its command may go on, which
  is what the exception of `DsOneProcess` says. **`WellTyped`** is part
  of the invariant.

Only model-checked: the liveness properties (`RoomIsTaken`, `DetachedIsResolved`,
`GivenUpFinishes`, `Answered`, `HubRecovers`, `RtStopEnds`, `ExAbandonedEnds`, `DsJobEnds`;
TLAPS does not reason about fairness here) and `CliRestartRefuses`, which is
`RestartRefuses` of one of the two registries of `MCRecords` (`RestartHolds`
proves it of any registry). Only proved: the type invariants of `RouteOwnership`, of
the hub, the harness, the commands and the managed jobs, whose other properties would fail
at most states of a wrong type.
No module uses a recursive operator.

## 6. Not modelled

- The mixed sockets of `run_multiplex_socket`, which register routes and hold slots
  like the sockets that are modelled; bodies, heartbeats and the classification of a
  request by its path.
- OAuth codes and tokens, MCP task and conversation handles, the supervisor of the
  other tunnel providers, knowledge canaries, worker policy and node updates: small
  state machines beside the core, worth a module each.
- The node agent, which plays the desktop's roles in TypeScript: its tunnel client,
  its interactive processes, command graphs, tasks and edit recovery, and the lock its
  sandboxes share between processes. Of managed jobs: failing reads, the limit on
  sessions, and jobs of one group in several folders (each folder has locks of its own).
- Records of managed jobs: a record is removed before its new version is renamed
  into place, so that a crash in between loses it (`session/operation_persistence.rs`).
- HTTP pages, log rings, downloads, key files, JSON stores and platform adapters (I/O
  around single tables); sandboxes (their promises are the operating system's);
  the parsing of commands and patches; the user interface.
