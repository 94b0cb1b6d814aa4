# A verification development for RLark

RLark runs robot-learning workloads on many clusters. Users write `Workflow`,
`Job` and `Domain` objects into a management API; a controller manager expands
them into `Task` objects, and an Agent in every cluster realizes the Tasks of
its namespace as Runtime objects (Deployments, StatefulSets, Services, ...).
Nearly all of the code is level-triggered reconciliation over objects that
others edit at the same time. What is hard in it is not a computation but the
order of calls: what a reconcile knew when it made a call, and what a failure
between two calls leaves behind. The modules here model that order.

## Inventory

Paths are relative to `src/apps/rlark/pkg` unless they start with `src/`.

### Agent

| Component | State it keeps | Operations | Interacts with | Hard behaviours | Correct when |
|---|---|---|---|---|---|
| Execution host (`agent/execution/host`) | finalizer, claimant and frozen selectors on the Task; status | claim, adopt, freeze, suspend, resume, clean up, release | management API (uncached client), coordinator | several Hosts, stale copies, unfenced status patches, crash between calls | one claimant per incarnation; no object outlives the claim; deletion and convergence complete |
| Coordinator (`agent/execution/coordination`) | none; objects in the Runtime | evaluate, diff, apply in order, clean up one candidate at a time, verify | host, Runtime provider, workload adapter | failing in the middle, asynchronous deletion | legal prefixes; absence verified before completion |
| Runtime provider and Ray adapter (`agent/controllers/task/runtime`, `workload`) | none | list, apply, delete, inventory, compile | Kubernetes | names shared by incarnations, foreground deletion | never touches objects of another UID |
| Trigger accumulator and bridge (`agent/execution/trigger`, `agent/controllers/task/trigger.go`, `pull.go`, `resync.go`) | hints, queued/processing marks, channel, workqueue | merge, take, done, wakeup failed | push controllers, scan, pull controller | lock gaps, full channel, full accumulator | no lost wakeup, no leaked capacity, no narrowed batch |
| Fast observation (`agent/controllers/task/dispatch.go`, `agent/execution/evidence`) | none | observe one root, write status outside the Host's lock | trigger batch, status | stale copy | never hides a needed full pass |
| Pod, Node, Addon, delivery controllers (`agent/controllers`) | reports in the management API, in-memory pending deletes | push, pull, sweep | both APIs | restart loses memory; stale marks | reports converge to the cluster |
| Image pulls, node events (`agent/imagepull`, `nodeevents`) | queue of pulls | pull, retry | container runtime | bounded work | every pull ends |
| Terminal, tunnel, containers (`agent/*.go`, `agent/container`) | connections | stream | remote dialer | I/O | - |

### Controller manager

| Component | State it keeps | Operations | Interacts with | Hard behaviours | Correct when |
|---|---|---|---|---|---|
| Domain (`controllermanager/domain`) | address records in the Domain status, one DomainPeer per cluster | allocate, reclaim, expire, publish, clean up | informer caches of Domains, Pods, peers | lagging caches, conflicts, crash between writes, overlapping Pod reports | an address has one holder; a Pod keeps its address; peers converge |
| Job, Workflow (`controllermanager/job`, `workflow`) | phases, child Tasks and Jobs, restart annotations | create, update, restart, stop, aggregate | Task controller, cluster stop | lagging cache, restart while deleting, moves between clusters, drain by another controller | a drain is not undone; a restart replaces a Task once; Tasks and phase end up as the spec asks |
| Task, Cluster, Node (`controllermanager/task`, `cluster`, `node`) | phases, ClusterStopped annotation | stop and resume a cluster, derive phases | Job | two writers of `suspended` | stopped clusters run nothing |
| Archive, replication, sync (`controllermanager/archive`, `replication`, `sync`) | rows in the database | copy, archive | resource store | restart, stale events | a row is never newer than the object nor lost |

### Shared and other

| Component | State it keeps | Hard behaviours | Correct when |
|---|---|---|---|
| Distribution engine (`distribution`) | inventory of applied objects | apply loop fails half way; inventory written last, in two places, and read from caches that lag; two controllers at once; others edit the objects | only own objects are deleted; what a pass has loaded it does not forget; target and inventory end up as declared |
| Resource store, persistence (`db`, `persistence`) | rows, secrets | concurrent upserts | resource versions only grow |
| SSH dialer pool (`network/sshdialer`) | pooled clients, generations, reconnection | waiters, maintenance, overtaken reconnections, removal and Close at any moment | limits hold; no channel over old credentials; nothing in use is closed without reason; every waiter is answered |
| Remote dialer (`remotedialer`) | sessions, connections, peers | close racing dial | every connection ends |
| Node server, sidecar, tun (`network/...`) | host files, packet queues | I/O | - |
| Server, gateway, jumper, relay, log queries, auth, tenants | caches, peer list | I/O | - |
| Workload tools (`rlarktools`), installer (`rlarkadm`, `rlarkctl`) | processes | restarts, reaping | - |
| Embodied runtime (`src/apps/embodied-runtime/pkg`) | device allocations, controller Pods, camera streams | reference counts, Pod lifecycle | a device has one user |
| UI, SDKs, generated code (`src/apps/rlark-ui`, `src/sdks`, `src/api`) | - | - | - |

`PROJECT.json` lists the same parts file by file with their status, and under
`hazards` the lines where this code is hard to test.

## Modules

| Module | Models | Depends on |
|---|---|---|
| `TaskHost.tla` | the life of one Task under one or several Hosts | - |
| `TaskHostProofs.tla` | theorems about it | `TaskHost` |
| `HintQueue.tla` | what the hint path promises: an abstract queue of keys | - |
| `TriggerBridge.tla` | how hints reach the Task reconciler; implements `HintQueue` | `HintQueue` |
| `TriggerBridgeProofs.tla` | theorems about it, the refinement included | `TriggerBridge` |
| `Domain.tla` | virtual addresses and the peers published from them | - |
| `DomainProofs.tla` | theorems about it | `Domain` |
| `Distribution.tla` | one declaration applied to a target cluster, with its inventory | - |
| `DistributionProofs.tla` | theorems about it | `Distribution`, `SetLemmas` |
| `JobTasks.tla` | the Job controller over the Tasks of one Job, with the drain of clusters | - |
| `JobTasksProofs.tla` | theorems about it | `JobTasks`, `SetLemmas` |
| `DialerPool.tla` | the SSH transports of one Domain and those who use them | - |
| `DialerPoolProofs.tla` | theorems about it | `DialerPool` |
| `SetLemmas.tla` | that a set of naturals has a least member, for the models that go through objects or keys in order | - |
| `MC*.tla`, `*.cfg` | instances for TLC | the module named |

The parts meet where they meet in the code. `TriggerBridge` produces the
reconciles whose content `TaskHost` is; `JobTasks` sees of `TaskHost` what the
API shows of it (a first report with the claim, a stop, a release); `Domain`
sees of the Pod controller of the Agent only its reports; `Distribution` is
one engine used by two controllers (constants `Workers` and `Cached`).

Definitions whose comment starts with "MUTANT of" are plausible mistakes in the
definition that follows; the properties are checked to notice them. They are
not part of any specification.

### TaskHost

A step of a Host is one call to the management API or the Runtime together with
the local decisions up to the next call; `pc[h]` names that next call. So users,
other Hosts, garbage collection and crashes act between any two calls.

| State | Code |
|---|---|
| `task` | the stored Task: spec (runtime kind, carrier, decodable or not, suspended), finalizer, claimant annotation, frozen selectors, phase, observed generation |
| `rt[h][k]` | the object of kind `k` in the cluster of Host `h`: incarnation in its identity annotation, rendered content, foreground deletion |
| `snap[h]`, `fresh` | the copy a pass works from, and whether it still has the stored resource version |
| `loc[h]` | operations left, objects seen by the evaluation, whether cleanup is for release |
| `wake` | queued keys |

| Action | Code |
|---|---|
| `Start`, `Adopt`, `Claim`, `Reget`, `Freeze` | `Host.Reconcile`, `host.go:189-331`, with the patches of 613-724 |
| `InvalidStatus`, `StoppedStatus`, `ResetStatus` | the three early status writes, through `WriteStatus` (`host.go:76-125`) |
| `Evaluate`, `Apply` | `Coordinator.Evaluate` and the operation loop of `Coordinator.Reconcile` |
| `Clean`, `CleanDelete`, `CleanVerify`, `Release` | `Coordinator.CleanupTask` (145-247) and `Host.cleanup` (558-612) |
| `Abort` | any call failing, or the Agent stopping: the pass is dropped and the key comes back |
| `Resync` | the scan with `Host.ShouldReconcile` |
| `CreateTask`, `EditSpec`, `DeleteTask` | users |
| `Collect`, `Drift` | Kubernetes ends a foreground deletion; somebody changes an object behind the Agent |

Two facts of the code shape the model. Metadata patches (claim, adopt, freeze,
release) carry the resource version and are refused for an old copy; the status
patch does not and only writes the fields that differ from the copy. And the
clients of the Agent are direct, without a cache, so a Get returns the stored
object, while the copy grows old during the pass.

`Legacy` adds initial states left by Agents from before claimants and frozen
selectors. `MutableCarrier` allows users to edit the carrier of an existing
Task; `Hosts` may be more than one although only the Kubernetes Agent is
implemented today, because the claim protocol is written for several.

Abstracted: object names, templates and comparison (a revision per object; the
workload follows the generation of the Task), the contents of status other
than `Pending` and `Stopped`, the Ray ConfigMaps that cleanup retains by
design. Not modelled: phases derived from observation, the fast path of
`dispatch.go`, incomplete selector annotations.

### TriggerBridge

A step is one call of the accumulator under its lock, one send on the channel
or one operation of the workqueue. So merges, wakeups and reconciles of one key
interleave in every gap between two locks.

| Action | Code |
|---|---|
| `Emit`, `Again`, `Send`, `Unqueue` | `emit` with its callers (`agent/controllers/task/trigger.go`): merge, non-blocking send, and `WakeupFailed` when the channel is full |
| `Desired`, `Add` | the watch of Tasks, which merges and enqueues itself |
| `Forward` | the channel source of the controller |
| `Begin`, `Finish`, `FinishSend`, `FinishRequeue` | `pullReconciler.Reconcile` with its deferred `finish` |

After an error a push controller is run again by its own queue, while the scan
only counts the pressure and goes on (`AfterError`; constant `Persistent` names
the callers of the first kind). Run again, a push controller reads its workload
and the Task anew (`Again`): it emits for the incarnation it finds, or ends if one
of them is gone. Constant `Lasting` names those that always find both.
`hints` and `owed` are history: which hints went into the pending batch, and
which keys have a hint accepted without an error since the last start of a
reconcile. The generation and the Runtime of a hint are left out: the batch
treats them as it treats the UID.

`HintQueue` is what the sources of hints may count on: a key is dirty or not,
busy or not; a hint makes its key dirty, a reconcile that starts cleans it, one
reconcile per key runs at a time, and a dirty key gets one in the end.
`TriggerBridge` implements it with `dirty <- owed` and `busy` the keys whose
worker is not `"none"`. That this is a *refinement* says more than the
invariants: the loss of a key in the channel, in the gap between a merge and its
send, or under pressure would each be a step or a stuttering the queue forbids.

### Domain

The controller reads three informer caches (`cache`), each brought up to date on
its own, and writes to the API server, which accepts an update only of the
version it was read from. `Start` is the computation of a pass up to its first
write: `Reclaims` (a live Pod takes the recorded address of its key if no other
Pod has), `Expiries` (unclaimed records beyond `Retain`), the pool
(`Free`, `Lowest`) and `NewAllocs`. `UpdateStatus` writes the records;
`WritePeer`, `ListPeers`, `DeletePeer` publish and clean up. Two reports with
one key exist while a Pod is recreated and the stale report of the old one
waits for its TTL (`agent/controllers/pod/sweep.go`); a stale report has phase
Unknown and still counts as live.

Where the code leaves an order open (map iteration, an unstable sort of
records), the model takes every order. `handed` is history: addresses whose
record was dropped at some time. Versions are compared as values, so a stale
copy that equals the stored object again is accepted: more behaviours than the
code has, none fewer. Not modelled: certificates and their renewal, the prefix
length, IP strings.

### Distribution

One declaration (a Secret that lists objects) and its target cluster. A step of
a worker is one API call with the decisions up to the next; `wk[w].pc` names
that call, so users, strangers, the garbage collector and failures act between
any two. Two controllers use the engine, and differ in what they read and in
who else runs:

- replication (`controllermanager/replication`): one worker, which reads the
  declaration, the ConfigMap and the namespaces through the caching client of the
  manager (`controller_manager.go:67`). With `Cached` every such read (`Seen`) is
  of `cache`, whose three parts catch up one by one.
- delivery (`agent/controllers/delivery`): direct clients, but a Secret and a
  Namespace controller that may run `Reconcile` for the same declaration at once.

Objects of the target are read and written directly by both. What a write does
is decided by the stored state: the update of the ConfigMap is refused for an old
copy, the merge patches of annotation and finalizers are not.

| State | Code |
|---|---|
| `decl` | the Secret: listed objects, policy, finalizer, deletion, annotation with the inventory |
| `cm` | the status ConfigMap: the second copy of the inventory, with its owner |
| `obj[o]`, `ns[o]`, `last[o]` | the object of that name in the target, with its owner and whether it is terminating; its namespace; the UIDs used so far |
| `cache` | what the manager's informers hold of declaration, ConfigMap and namespaces |
| `wk[w]` | a pass: the declaration as read, the inventory loaded or to be saved, what was applied |

| Action | Code (`distribution/engine.go`, `store.go`) |
|---|---|
| `Begin`, `LoadMap` | `Reconcile` up to the inventory: annotation first, else ConfigMap |
| `Expand`, `AddFinalizer` | expansion over the active namespaces; the finalizer ends the pass |
| `GetObject`, `PatchObject` | `apply`: conflict check, server-side apply without force |
| `PruneGet`, `PruneDelete` | `prune` through `deleteOwned`, with the UID precondition; an accepted call is enough (`engine.go:308`) |
| `SaveMap`, `SaveAnnotation` | `Save`, both halves; after a failure with the inventory as loaded (`fail`) |
| `CleanupGet`, `CleanupDelete`, `DropMap`, `DropAnnotation`, `Release` | `cleanup` of a deleted declaration |
| `CallFails`, `Crash` | a failed call of apply or prune, which still saves; any other failure or a restart, which does not |
| `CreateDecl`, `EditDecl`, `DeleteDecl`, `*Object`, `*Namespace`, `CollectMap` | users, strangers, the garbage collector |
| `Terminate` | an object of `Slow`, deleted before, disappears |
| `SyncDecl`, `SyncMap`, `SyncNamespaces` | an informer catches up |

Abstracted: contents of objects, parsing and limits (each failure is the same
failed pass). Not modelled: adoption and `Force`.

### JobTasks

A Task is known by namespace and template. The manager reads Tasks from a cache
that lags Task by Task (`seen`), and writes to the API server, which refuses an
update of an old copy (`Fresh`) but not a deletion or a merge patch. A step of a
pass is one round of writes with the decisions up to the next.

| Action | Code |
|---|---|
| `Begin` | `Reconcile` of `job_controller.go`: finalizer, then deletion, suspension or dispatch |
| `ResolveFails`, `Prune`, `Plan` | resolution of node selectors (`build.go:24-79`), `pruneTasksInNamespaces`, status snapshot |
| `CreateTask`, `CreateExisting`, `ReplaceTask`, `UpdateTask` | the dispatch of one template (`sync.go`): create, restart, drain and suspension |
| `SaveStatus` | `Event`, `Fire` (the state machine of phases) and the status update |
| `Halt` | `reconcileStoppedJob` |
| `StopTasks`, `SettleStatus`, `DropTasks` | deletion: stop claimed Tasks, keep the final status, delete, release |
| `MarkForDrain`, `ClearDrainMarker` | `drainTasks`, `clearDrainTaskMarkers` of the Cluster controller |
| `CacheSync`, `Resync`, `RestartManager` | watch events, periodic resync, restart with a fresh cache |
| `Report`, `Observe`, `Release`, `CollectTask` | Agents, workloads, owner references |
| `ToggleSuspended`, `RequestRestart`, `EditTemplates`, `DeleteJob`, `OperateCluster` | users and administrators |

Abstracted: the Agent's claim and first report are one step; a Job copy that
lags is the same as a pass that began earlier; which clusters a selector matches
is all of them, and which templates have one is chosen at the start; changes of
nodes and clusters do not queue the Job, as in the code. Not modelled:
validation, the content of a Task other than its suspension, adoption of Tasks
of old versions, start and end times, a Job recreated under its name, and of
the Cluster controller standalone Tasks, the drain condition and heartbeats.

### DialerPool

One Domain. A step is one critical section of the mutex of an entry or of the
manager, or one blocking call. Time is nondeterministic: what a timer or a
deadline brings may happen at any moment.

| State | Code (`network/sshdialer`) |
|---|---|
| `map`, `ent[e]` | the manager's map and the entries it had one after the other: info, generation, removed, last error, the running reconnection |
| `tr[c]` | a transport: info and generation it was dialled with, active channels, draining, broken |
| `user[u]` | a goroutine that dials: where it is, its Dialer's entry, the transport of its channel |
| `gc`, `rm`, `mgr` | an eviction, a `RemoveDomain`, a `Close` under way |

| Action | Code |
|---|---|
| `Lookup`, `Bind` | `GetDialer`: `getOrCreate`, and the check of `DialContext` for a closed manager |
| `Borrow`, `Refuse`, `Wait`, `Woken`, `GiveUp`, `Release` | `DialContext`: borrow, growth, errors, waiting for the shared reconnection, end of a channel |
| `DialOK`, `DialFails`, `Publish` | the reconnection and what it does with its result |
| `DrainOld`, `KeepaliveTimeout`, `GraceOver`, `Abort`, `Break` | drains and their timer, keepalives, broken transports |
| `Sweep`, `Evict` | the cleanup loop: age, idleness, then the eviction of an empty entry |
| `RemoveDomain`, `RemoveMarks`, `RemoveCloses`, `Close`, `CloseCloses`, `CloseReturns` | removal and shutdown, section by section |

Callers take a Dialer for every channel, as the container network does
(`agent/container/network.go:240-262`). Abstracted: the listing and the sweep of
one cleanup round are one step and the eviction follows later; a drain marks
the transport and starts its timer in one step; the round-robin tie-break is any
choice. Transports are told apart as long as somebody uses them; one budget
(`MaxEvents`) bounds all that happens from outside. Left out: back-off
durations, `OnReconnect`, metrics.

## What the runs check

| Run | Instance | Shows |
|---|---|---|
| `task_safety` | 2 Hosts of 2 Runtimes, 2 carriers, 2 incarnations, 3 generations, 1 fault | `NoOrphan`: nothing in a Runtime without a claimed Task it belongs to. `AuxUnderClaim`: the same for the objects of fixed kinds. `ClaimIsExclusive`: claim and frozen selector never change hands. `StoppedMeansGone`: a Task that says Stopped owns nothing. `MountsOutliveWorkload`: Secret and ConfigMap exist as long as a workload does, its deletion included. |
| `task_live` | 1 Host, 2 Runtimes, with or without an old claim, 3 generations, 1 fault, 1 drift | `ReleaseAfterAbsence`, `DeletionCompletes`, `Converges` |
| `task_carrier` | carrier edits allowed | violation of `FrozenCarrierOnly`, see below |
| `task_unsupported` | a carrier the adapter does not know | violation of `DeletionCompletes`, see below |
| `bridge` | 2 keys, 2 push controllers, 1 watch, 2 UIDs, 2 roots, all limits 1, 3 hints | `BatchCoversHints`, `NoIdleEntry`, `ProcessingHasWorker`, `EveryHintIsAwake`, and the refinement `ImplementsQueue`: every owed key gets a reconcile that starts after its hint |
| `bridge_scan` | 2 keys, a push controller, the scan, the watch, limits 1, 4 hints | violation of `EveryHintIsAwake`, see below |
| `domain` | 2 clusters, 1 name, 3 addresses, 1 retained record; 3 Pod changes and 1 fault, or a second spec version and 2 of these; started fresh, or with both Pods running and published (`MCSpec`) | `RecordsDistinct`, `RoutesDistinct`, `NoSplitRoute`, `AddressIsSticky`, `PeersConverge` |
| `replication` | 1 worker with caches, 2 objects, one with a named namespace and one that terminates slowly, both policies, 2 incarnations, 2 edits, 1 fault | `DeletesOnlyOwned`, `NothingForgotten`, `Converges`, `DeletionCompletes` |
| `distribution_leak` | 1 worker without cache, 2 objects placed by a selector, no fault | violation of `CleanupLeavesNothing`, see below |
| `jobs` | 1 template, 2 clusters, a workload that runs or fails, 2 edits (1 of them may be a restart), 1 fault | `MarkedStaysSuspended`, `RestartsOnce`, `SuspendedStops`, `DeletedGoes`, `TasksSettle`, `RunningIsSeen` |
| `jobs_cordon` | the same without restarts and faults | violation of `CordonStopsNothing`, see below |
| `pool` | 2 callers, 2 infos, 2 transports of 1 channel, 2 channels, 3 transports at a time, 1 entry, 2 events | `UsableWithinLimit`, `CurrentCredentials`, `ClosedIsEmpty`, `UseIsRespected`, `Answered`, `OldTransportsGo` |

The type invariant of each module is checked in its passing run (of `TaskHost`
in `task_safety`). In `DialerPool` it includes that a transport counts exactly
the channels over it.

Why the bounds are enough.

- `TaskHost`: two carriers, two Hosts and two incarnations give every comparison
  of the claim protocol both outcomes. A pass reads the Task at most twice, so
  one edit between the reads and one between passes reach every combination of
  an old copy with a newer Task. One fault reaches every place where a pass can
  stop, and the pass after it.
- `TriggerBridge`: all limits are 1, so each is reached by the second key, root
  or message; two push controllers suffice for one to rely on the wakeup of the
  other.
- `Domain`: two reports, of one key or of two clusters. From two running Pods
  three changes end both, so that one record more than the limit of 1 is left and
  expires, and let a Pod return that is given the freed address while the old
  route may still be published. The second spec version lets the Domain be
  deleted and recreated, or become invalid and valid again, while peers and
  caches still show the first. The constraint `Bounded` (module `MCDomain`) makes
  a second version exclude two of the other changes; it cuts no step that
  somebody owes.
- `Distribution`: the second object is what a failing pass leaves undone, and
  the one that a changed declaration no longer lists. In `replication` the caches
  may be any number of versions behind, and two edits give them three versions of
  the declaration, besides those the passes write. With a fault they also suffice to
  have an object replaced by a stranger's between the read and the delete call: the
  declaration is edited, a pass that has asked for the deletion crashes, the next
  one finds the object still terminating, and it goes and is created anew. The two
  workers of delivery are not an instance of their own: they have the same actions,
  and the two properties of steps are proved for every set of workers.
- `JobTasks`: two clusters are enough for a Task to have to move; two edits
  of Job or clusters, a restart among them, combine a suspension, a drain, a
  cordon or a deletion with what overtakes them. Templates do not interact but through the phase of the Job,
  so one is enough here for everything but the aggregation of phases.
- `DialerPool`: two callers over transports of one channel reach growth, the
  shared reconnection and the overload; three transports are one more than the
  limit, as when an old one is still draining. Two events put one event into the
  reaction to another.

Deadlock is not checked: in all modules everybody may rightly come to rest (no
Task left, no hint, no Pod, no declaration, a Job that is settled or gone, a
closed manager).

### Fairness

`TaskHost`: weak fairness of each Host's next call (the workqueue serves its
keys and requeues failed ones), of the periodic scan (`resync.go` runs on a
timer) and of the end of foreground deletions. Users and faults need not act.
The scan is needed: push controllers ignore a workload that is not found, so a
workload deleted from outside is only repaired by the scan.

`TriggerBridge`: weak fairness of each emitter's next step, each worker and the
channel source; nobody is forced to produce hints. From it follows the fairness
`HintQueue` promises, which is part of `ImplementsQueue`.

`Domain`: weak fairness of the worker, of each informer catching up, and of the
periodic resync of the Pod informer (10 hours by default in controller-runtime).
`PeersConverge` speaks of behaviours in which Pod reports stop changing, and
leaves out states without any Pod report (when the Domain and its last Pods go
while the manager is down nobody asks for the peers to be deleted), and ranges
too small for the live Pods.

`Distribution`: weak fairness of a worker's next step, and of each informer
catching up. That a deleted object disappears is not counted on. A pass is followed by
another: after an error with back-off, after success because `Save` changes the
declaration, and every five minutes anyway. `Converges` leaves out declarations
whose named namespace is missing, whose object name is taken by somebody else,
or with an item `deleteOwned` rightly refuses (`Lost`): for these the engine
reports an error for as long as it lasts.

`JobTasks`: weak fairness of the pass, of the ten-hour resync and, for each
Task, of its watch events, the Cluster controller and what its Agent owes
(`Environment`). A workload need not start, fail or recover, hence the premise
of `RunningIsSeen`.

`DialerPool`: weak fairness of a caller's next step, of a reconnection (the dial
has a timeout), of the timers of a transport, of `Close`, `RemoveDomain` and the
eviction once begun. Nobody owes a new call, the end of a channel, or a fault.

### Where code and documents differ

- `task_carrier`: the comparison with the frozen selectors runs only for a pass
  that found the Task already claimed (`host.go:304`). The pass that has just
  claimed re-reads the Task and realizes whatever carrier it finds, so an edit
  in between creates a workload of a carrier the claim did not freeze;
  `docs/developer-guide/runtime-provider.md:9` says such a change is rejected
  without Runtime effects.
- `task_unsupported`: cleanup asks the adapter for an inventory, which fails for
  an unknown carrier type (`adapter.go:408`), although the claim was made before
  anybody looked at it; `docs/admin-guide/agent.md:151` says a claimed Task that
  becomes unsupported still releases its finalizer.
- `bridge_scan`: the scan does not retry a full channel (`resync.go:138`). A
  push controller that merged into the same entry meanwhile was told its hint
  is taken care of (`trigger.go:72`); until the next scan or event nobody wakes
  the key.
- `distribution_leak`: the inventory is extended only after all objects of a pass
  are applied (`engine.go:83`); when one fails, the inventory as loaded is saved,
  without those the pass has just created. A declaration deleted then releases
  its finalizer and leaves them behind;
  `docs/developer-guide/design-principles.md:104` asks a controller with a
  finalizer to verify that resources are gone before it completes cleanup.
  Two more ways lead to the same state. Cleanup is content with an accepted delete
  call (`engine.go:308`), so inventory and finalizer go while an object that
  terminates slowly still exists (set `Slow = {1}` in the cfg, and `NumObjs = 1`);
  line 42 of the same page says not to equate the acceptance of a delete request
  with the completion of cleanup. And the manager reads the declaration and its
  ConfigMap from caches (`store.go:23-26`, `controller_manager.go:67`): a declaration
  deleted during its first pass may be seen with the deletion mark but without the
  inventory that pass has saved, and cleanup then finds nothing to do (`Cached = TRUE`
  and `NumObjs = 1`).
- `jobs_cordon`: each pass resolves a node selector anew and skips cordoned
  clusters (`build.go:63`), so when another cluster matches, the Task in the
  cordoned one no longer is where its template belongs: it is suspended, deleted
  and started elsewhere. `docs/user-guide/clusters-nodes.md:27` says a cordon
  stops no existing Tasks.

Three more were seen in the models and have no run of their own. The first two
contradict a document, the third does not.

- A pass of the Job controller resolves all node selectors (`sync.go:131`) before
  it applies the suspension that the mark of a drain asks for (`sync.go:195-199`).
  When all clusters a selector matches are draining, resolution fails in every
  pass (`build.go:63-71`) and the Task runs on.
  `docs/user-guide/clusters-nodes.md:20` says the Job controller applies the
  suspension, and line 27 that drain is responsible for stopping existing Tasks.
  `TasksSettle` therefore excepts Jobs that cannot be placed.
- The cleanup loop of the dialer decides under the lock of an entry that it is
  empty, and removes it from the map later without looking again
  (`maintenance.go:114-119`). A caller that holds the entry may have added a
  transport by then, which `Close` does not reach; the comment of `Close`
  (`dialer.go:259`) says it closes every managed transport. `ClosedIsEmpty` speaks
  of the entry in the map only.
- A pass of the distribution engine may write over an inventory it has not read: in
  the manager because it started from an old copy and the patch carries no version
  (`store.go:88`), in the Agent because the other controller saved in between
  (`delivery/controller.go:107`). An object only the lost inventory listed is then
  known to no pass until it is wanted again. `NothingForgotten` speaks of the passes
  that write over what they have loaded. In the same way the cleanup of an old
  incarnation takes the finalizer of a declaration recreated meanwhile, which it
  reads by name (`engine.go:284`).

## What is proved

Every invariant and every safety property of steps that a passing run checks is
also a theorem. All theorems hold for every value of the constants that
satisfies the named assumption of the module (which TLC evaluates in every run)
and the assumption listed beside them. The assumptions of the modules say that
names of different sorts differ, that bounds are numbers, and that callers
(`DialerPool`), clusters, Pod names and addresses (`Domain`) are finitely many,
so that they can be counted.

In each module the property is not inductive, and what has to be added is
what an actor between two calls may rely on although its copy is old.

`TaskHostProofs`. `TypeOK` is not enough to show anything about the claim,
because a Host acts on a copy that may be old. Five layers, each using the ones
before it:

1. `TypeInv`: types, and the last generation is only reached by deletion.
2. `FenceInv`: a copy with the stored resource version *is* the stored Task;
   a Host about to claim, adopt or freeze still sees the gap it fills; and a Host
   past the claim (`Holding`) still holds it, however old its copy is, since only
   the claimant can release and the uid changes only by a release.
3. `ClaimInv`: claimant and frozen selector come together; a planned object is
   of the inventory of the copy's carrier; a Host about to release has no object
   left; objects exist only under the claim. Where users cannot edit the
   carrier, the carrier of spec, copy, frozen selector and workload agree.
4. `ReportInv`: nothing exists between a claim and the first plan, nor between a
   complete cleanup and its report; a Host that plans or applies still sees the
   Task running, whatever its copy says. So nobody can create an object for a
   Task that is reported Stopped, and the report finds nothing.
5. `MountInv`: a mount that a plan does not list exists already, and cleanup
   deletes a mount only when no workload is left. This needs layer 4: a Task
   deleted between its claim and the second Get goes to evaluation, not to
   cleanup, where the plan for a deletion would not wait for the workload's Pods
   before it deletes the mounts. It never does, because nothing exists yet.

| Theorem | Assumption | Statement |
|---|---|---|
| `CoreInvariant`, `TypeCorrect` | - | layers 1 and 2; `[]TypeOK` |
| `ClaimExclusive` | - | `ClaimIsExclusive` |
| `NoAuxOrphan` | no old claims | `[]AuxUnderClaim` |
| `NoOrphanEver` | no old claims, fixed carriers | `[]NoOrphan` |
| `ReleasedWhenAbsent` | the same | `ReleaseAfterAbsence` |
| `StoppedIsGone` | the same | `[]StoppedMeansGone` |
| `MountsStay` | the same, and nobody changes objects behind the Agent (`MaxDrift = 0`) | `[]MountsOutliveWorkload` |

The assumption of fixed carriers is needed: `task_carrier` shows what happens
without it. That of no drift is, too: somebody who deletes a Secret takes it from
a workload that runs.

`TriggerBridgeProofs`. `CoreInv` adds to the properties that an entry exists
exactly while it has hints or a reconcile, that no key is both queued and
processing, and that keys without an entry are empty. `WakeupInv` follows the
promise: every queued mark has a wakeup in flight or somebody who still has to
deliver it or will take the mark back, and every owed hint has one of the
reasons listed in `Promised`.

| Theorem | Assumption | Statement |
|---|---|---|
| `CoreInvariant`, `TypeCorrect` | - | the invariant; `[]TypeOK` |
| `BatchesCoverHints`, `NoCapacityLeak`, `OneReconcilePerKey` | - | `[]BatchCoversHints`, `[]NoIdleEntry`, `[]ProcessingHasWorker` |
| `HintsStayAwake` | all push sources retry, and find workload and Task when they do (`Lasting = Pushers`) | `[]EveryHintIsAwake` |
| `QueueImplemented` | - | `Spec => Queue!Spec`: every step is a step of `HintQueue` or leaves it alone |

The first half of the assumption of `HintsStayAwake` is what `bridge_scan` shows to
be needed. So is the second: a push controller that took back the mark on which
another caller's hint relied, and whose workload is gone when it runs again,
leaves that hint to the next scan or event (set `Lasting` to a smaller set in
`Bridge_main.cfg` to see it).

`QueueImplemented` needs from the invariant that a reconcile starts only when
the worker of its key is idle; its mapped state changes with `owed` and with the
step of `worker` to and from `"none"` only. It is the safety half of
`ImplementsQueue`; the fairness half is model-checked.

`DomainProofs`. A pass computes addresses from caches of Domains, Pods and
peers that lag independently, and writes records first and routes later.
`CoreInv` says that records are sound (an address has one key) and routes
*backed* (each is recorded for its key, or its record was dropped at some time,
`handed`) in three places: what is stored, what an informer remembers, and what
a pass is about to write. That a remembered record is stored or was dropped is
what makes a route computed from an old cache harmless. The plan has to be shown
sticky against the copy it was computed from; the version test of the update
makes that copy the stored Domain.

| Theorem | Statement |
|---|---|
| `CoreInvariant`, `TypeCorrect` | the invariant; `[]TypeOK` |
| `OneKeyPerAddress` | `[]RecordsDistinct` |
| `OneRoutePerAddress` | `[]RoutesDistinct` |
| `ClustersAgree` | `[]NoSplitRoute` |
| `AddressKept` | `AddressIsSticky` |

`DistributionProofs`. `SharedInv` holds for any number of workers on one
declaration: UIDs of an object name are given in order, so an object that still
has the UID a pass has read is the object it has read, and its owner has not
changed. That gives `OwnedOnly`, although another worker or a stranger may
recreate the object between the read and the delete call.

`NothingForgotten` is about what a pass makes of the inventory it has loaded,
which may be any copy there has been. It is not inductive because a pass decides
in one call what it drops and writes the inventory several calls later.
`MemoryInv` adds that every copy of the inventory, stored or cached, is of objects
there have been (`Copies`), and that each pass is `Careful`: what it has applied
replaces what it had loaded (`Later`), what its loops of deletions have passed is
no longer alive, and what it is about to save has each loaded item whose object
is alive (`Saves`). An item whose object was deleted never comes to life again,
because UIDs are given in order; that is why none of this can be undone by a
stranger, another worker or an old copy.

| Theorem | Statement |
|---|---|
| `SharedInvariant`, `TypeCorrect` | the shared invariant; `[]TypeOK` |
| `OwnedOnly` | `DeletesOnlyOwned` |
| `MemoryInvariant` | copies and passes as described |
| `Remembered` | `NothingForgotten` |

All four hold for any set of workers, with caches or without. What cannot be
proved because it is false is that no pass writes over an inventory it has not
loaded.

`JobTasksProofs`. That a restart replaces a Task once is about a deletion without
precondition, decided from a cache that lags. `CoreInv` says that the cache may
be behind but never shows another restart of a Task than the stored one (a Task
is created only where the cache shows none), and that no Task is ahead of the
running pass, nor the pass ahead of the Job.

| Theorem | Statement |
|---|---|
| `CoreInvariant`, `TypeCorrect` | the invariant; `[]TypeOK` |
| `DrainStops` | `MarkedStaysSuspended` |
| `ReplacedOnce` | `RestartsOnce` |

`DialerPoolProofs`. Callers decide under the lock to add a transport, and it is
published much later. `CoreInv` has `Books` (a transport counts its channels; an
entry leaves the map once and only entries in use are named), `Fresh` (a
transport not yet published is that of its reconnection), `Versions` (what was
dialled for the latest generation was dialled with the latest info) and
`Reserved` (a reconnection nobody overtook finds room).

| Theorem | Statement |
|---|---|
| `CoreInvariant`, `TypeCorrect` | the invariant; `[]TypeOK`, with the exact count of channels |
| `WithinLimit` | `[]UsableWithinLimit` |
| `LatestCredentials` | `[]CurrentCredentials` |
| `EmptyOnceClosed` | `[]ClosedIsEmpty` |
| `UsedTransportsStay` | `UseIsRespected` |

Only model-checked: everything under fairness (`DeletionCompletes`, `Converges`
of two modules, `PeersConverge`, `SuspendedStops`, `DeletedGoes`, `TasksSettle`,
`RunningIsSeen`, `Answered`, `OldTransportsGo`, and the liveness of
`ImplementsQueue`), because liveness and ENABLED are beyond the prover; and
`ReleaseAfterAbsence` for Tasks with an old claim (`Legacy` in `task_live`): the
theorem supposes that finalizer, claimant and selector were written together.

## Plan

Done, in this order, because everything a user sees depends on it: the claim
protocol (`TaskHost`), the wakeups that drive it (`TriggerBridge`, refining
`HintQueue`), the addresses (`Domain`), the distribution engine
(`Distribution`), the Jobs above the Tasks (`JobTasks`), the SSH transports
(`DialerPool`).

To be modelled next:

1. `PodReports`: the Pod controller of the Agent, its pending deletes kept in
   memory, the sweep and the stale TTL, composed with `Domain`.
2. Extension of `TaskHost`: phases from observation, and the fast path of
   `dispatch.go`, composed with `TriggerBridge` (the batch decides which path is
   taken).
3. `TaskLifecycle`: an abstract specification (unclaimed, claimed, realized,
   stopped, released) that `TaskHost` implements and `JobTasks` relies on.
4. `Workflow` over `JobTasks`.
5. Remote dialer sessions, image pulls, the Pod manager of the device plugin,
   camera reference counts, the supervisor, the resource store with its archive.

To be proved next:

- `Distribution`: that without caches and with one worker a declaration which
  releases its finalizer leaves no object of its inventory that nobody has asked to
  be deleted (the part of `CleanupLeavesNothing` that holds).
- `TaskHost`: `ClaimInv` and `ReleaseAfterAbsence` with `Legacy`, for which
  `WholeClaim` must be split by how old the claim is.
- `TaskLifecycle` and `PodReports`, once modelled: their refinement and their
  invariants.

Each new run replaces a question rather than repeating one: the existing runs of
one module are merged where they ask the same.

## Not modelled, and why

- Terminals, tunnels, packet forwarding, HTTP handlers, log queries, installers
  and the user interface move bytes or render data and keep no protocol state
  that a model would explain.
- Execution environments, plans, evidence and transports of the Agent, lowering
  of templates in the Runtime provider, API types, generated clients and SDKs
  are pure functions of their inputs or data definitions. Generated code is by
  far the largest part of the Go sources.
- The Task and Node controllers of the manager, the Node and Addon controllers of
  the Agent derive one object from another and a clock, without state between
  passes.
- Workflow, archive and replication into the database, the remote dialer, image
  pulls and the embodied runtime keep state worth a model; the plan above says
  in which order.
