# Verification of arca-lb

TLA+ models of arca-lb, checked with TLC on small instances and, where stated,
proved with TLAPS for every instance. Paths are relative to the repository;
`v2_reconciler.go` is `internal/agent/reconciler/v2_reconciler.go`.

## The system

arca-lb is an L4 load balancer. VirtualIP objects live in the Kubernetes API
server. Every load balancer node runs an **agent** (`cmd/arcalb-agent`):

| Part | Source | What it does |
|---|---|---|
| Watcher | `internal/agent/watcher` | delivers VirtualIP events in order, after an initial sync |
| Event handler | `cmd/arcalb-agent/main.go` | passes an event to the health engine, then to the manager |
| Reconciler manager | `v2_reconciler.go` `Manager` | one goroutine per VIP key; deletion, recreation |
| Per-VIP reconciler | `v2_reconciler.go` `vipReconciler` | a pass: plan, drain, apply, commit, route, status |
| Route coordinator | `v2_reconciler.go` `routeCoordinator` | decides when the route of a shared address is announced |
| Router | `internal/agent/routing` | runs `vtysh` to install or remove a static route in FRR |
| Rollout coordinator | `internal/agent/rollout` | one disruptive change per address in the cluster, by Lease |
| Health engine | `internal/agent/healthcheck/v2_engine.go` | probes backends, hysteresis, persistence, transitions |
| Store | `internal/agent/store` | bbolt: health records, last and pending configurations |
| Data plane | `internal/agent/dataplane` | programs VPP |
| Status updater | `internal/agent/status` | per-node status and its aggregate |

The **operator** (`internal/operator`) maintains the finalizer and the aggregate
status of VirtualIPs and validates them. The **controller** (`cmd/arcalb-controller`) is the older control
plane: a REST API, an etcd or MySQL datastore and a gRPC service that streams
configurations to the legacy agent packages, which `cmd/arcalb-agent` no longer
uses. The **Octavia driver** (`octavia-driver`, Python) translates OpenStack load
balancers to VirtualIPs. `PROJECT.json` lists every part with its status.

The parts interact as follows. The watcher calls the handler, which (re)starts
the VIP's probes and then hands the object to the manager. The manager wakes the
VIP's goroutine, which reads the object, asks the engine for the healthy
backends, and applies both. When the change is disruptive it runs under the
Leases of the addresses involved, and with the address drained. It tells the route
coordinator whether the VIP is serving. Health transitions wake the same
goroutine through `OnHealthChange`. What a pass achieved goes to the VirtualIP's status
as the node's report; agents and operator compute the aggregate from the reports.

In the controller, a REST request becomes several datastore calls; a write adds
one to the store's revision, and the gRPC service's watch then sends the whole
configuration to the agents, which report the revision they have in heartbeats.
In the Octavia driver every API call reads and patches the VirtualIPs of a load
balancer and pushes statuses back, while a watcher pushes what the agents report.

## Modules

### RouteCoordinator

The coordinator's bookkeeping (`addresses`, `members`, `serving`, `advertised`,
`reconciled`, `verified`, `drainOwner`, `vipAddresses`) and FRR's routes (`route`).
The mutex is not held during a router call, so a step is one critical section or
one router call, and `pc` says where each VIP's goroutine is: `SetServing`,
`BeginDrain` (also `BeginAddressDrain`), `FinishDrain`, `PrepareAddressChange` and
`Delete` enter; `Remove` and `Removed` are the two critical sections of
`removeVIPFromAddress`; `Register`, `AcquireDrain` and `RefuseDrain` the second ones
of `SetServing` and `beginDrain`; `Decide`, `RouterCall`, `RouterCallFails`, `Apply`
and `ApplyToNothing` are `reconcileRoute`'s loop; `Undrain` is `beginDrain`'s error
path. The VIPs call in any order with any arguments: the coordinator's guarantees
must not depend on the discipline of its callers. `lastVerified` is abstracted to
"less than an interval ago" (`verified`, `late`). `drained` and `failed` are history
variables: what a caller was told, and whether the last completed call for an
address failed.

### ReconcilerManager

`Manager` and `vipReconciler.run` for one key; keys share no field. An event is
two steps of the watcher's goroutine (`OnVIPUpdate` then `FinishUpdate`,
`OnVIPDelete` then `MarkDeleted`), because `update` and `markDeleted` run outside the
lock. A reconciler's select takes a token, a tick, a delete event, a retry or the
cancellation. A pass starts with the object it read and ends with a
nondeterministic outcome. `onVIPReconcilerStopped` is its locked part
(`ReleaseDeleting` or `ReleaseOther`) and, for a recreated object, `StartRecreated`
and `UpdateRecreated` outside the lock.

### RolloutLease

`RunExclusive` nested over the sorted keys of a rollout: the agent's local lock, then
Get and Create or Update of the Lease, then `fn` with one renew loop per key, then
release, innermost first. `fresh` holds the goroutines whose copy of a Lease is still
the stored one (resourceVersion); `stamp` is the age of the renewTime in a copy that
is about to be written; `overran` records holds that ran into their Lease's
expiry. Any API call may fail with or without its write taking effect, contexts end
with the failing renewal, and a crashed agent comes back with another identity.
Clocks agree, and a write whose answer was lost is stored by the time of the
failure or never.

### HealthEngine

The engine for one VIP, with the parts of the handler, manager, pass and store it
meets. `StartVIP` makes a new epoch; one scheduler per epoch, the bounded job and
result channels, the workers, the probe slots and the result processor are explicit.
`HandleResult` is the locked part of `handleResult`; `SaveHealthState` and `Callback`
run after it. Shutdown is `Cancel` (the agent's context), `StopVIPs`, `CloseJobs`,
`CloseResults`, `Stopped`; `Restart` keeps the store. A probe's outcome is
nondeterministic. Counters stop at the largest threshold, beyond which they make
no difference.

### VppDataPlane

VPP (`vpp`), the agent's cache of it (`cache`, with `due` for "verification is due") and
the recorded tuning drift. It has no next-state relation of its own. An operation
holds `VPP.mu` and makes several binary API calls, so it is an operator from the
state before and the outcomes of its calls to the state after and the error:
`ApplyVIP`, `RemoveVIP`, `RecreateVIP` and `NeedsDrainForRetainedVIP`, built from the
same helpers as the code. A call succeeds, is refused, or is executed and its answer
lost. Of an operation's calls one fails, or several backend calls, or the delete and
the following look of `RecreateVIP`; elsewhere the first failure ends the operation.

### ReconcilePass

One VIP on one agent, from the API object to VPP and FRR; it extends VppDataPlane.
A step is one external effect, and the process may die between any two. A pass is
`Begin` (reconcile and `planVIPUpdate`), `Admit` (the rollout Leases),
`persistPendingConfig`, `prepareAddressChange`, `DrainAddress`, `Apply`,
`commitLastConfig`, `BeginRepair`, `Recreate` and `FinishRepair` (`repairTuningDrift`),
`ServeRoute` and `FinishPass`. `DeleteRoute`, `DeleteVIP` and `DeleteConfigs` are
`handleDelete`; `Start`, `Examine`, `CleanRoute`, `CleanVIP`, `CleanConfig` and
`FinishBoot` are `cleanupStaleLastConfigs` of a restarted agent. The route coordinator
appears as its calls made by one goroutine; RouteCoordinator has the concurrent
view. Rollout Leases appear as a step that may be refused; RolloutLease has the
protocol. The environment changes the object, the health, VPP's contents and the
configured flow table length, and kills the agent.

The object may change, be deleted or be created again at any step. Two history
variables name what the code then loses track of: `orphans`, VIPs in VPP whose record an
update or a deletion replaced before the agent had finished with them, and `excused`,
why a route may stand without a VIP (see "Exceptions").

### AgentStatus, VirtualIPStatus

`AgentStatus` has the pure part of the status: reports with their age, which of them are
fresh or expired (`TTL`, `Retention`), how many are kept (`MaxReports`), and the aggregates
that `status/updater.go` computes from them. `VirtualIPStatus` is one object at
the API server and those who write to it: its user (`Create`, `Edit`, `Delete`), the
agents (`UpdateStatus`, then `WriteStatus`, `Retry` or `GiveUp`), and the operator
(`Reconcile`, then `OperatorWrites`, `OperatorRefused` or `OperatorFails`; `RequeueAfter` is
its timer). An agent reports on a version of the object that its watcher delivered, which
may be out of date. Every writer works on a copy, and `Store` makes the other copies
out of date, which is what resourceVersion does. `Tick` is the passing of time, which ages
reports.

### DatastoreInterface, Datastore

`DatastoreInterface` has what the two drivers and their callers share: VIPs with a
tuple (address, port, protocol) and an encapsulation, backends with a VIP and an
address, and the operations. `Datastore` is the **abstract specification**: a
write that succeeds is one atomic operation, or one transaction, under the
conditions that `validation.go` and both drivers enforce
(unique tuples, unique addresses per VIP, an address family that the encapsulation
takes), and adds one to the revision.

### EtcdDatastore, MySQLDatastore, DatastoreDrivers

`EtcdDatastore` executes an operation as the code does: reads, the claim of a missing
index entry, one etcd transaction with its comparisons, the search for the
comparison that failed, retries, and the clean-up after `DeleteVIP`. Every request
is a step, and a caller may give up between any two (deadline, failed request,
killed controller). An explicit transaction is built by `TxOperation` from what it
reads, and `Commit` sends it. Records may lack index entries, as in a store of an older
release. `UpdateVIP` and `DeleteVIP` claim a missing one, in a transaction too; a
transaction's `CreateVIP` looks a tuple up in the index only.

`MySQLDatastore` executes an operation as a list of SQL statements, one step each.
A statement takes the locks of the rows and index entries it touches one at a time
(`TakeLock`), in InnoDB's order (`LockOrder`): a search by `vip_id` goes from an index
entry to its row, a deletion from the row to its entry. Locks are kept to the end, and
what a statement writes is visible after the commit. Only exclusive locks of
records and unique index entries are modelled, not gap locks or the shared locks of a
duplicate check. `change_log` ids are allocated at the insert and visible at the
commit; `Poll`, `Deliver` and `DeliverError` (the changed record cannot be read) are
the watch. Backend ids are never used again after a deletion, as they are UUIDs.

`DatastoreDrivers` runs one driver or the other. `ImplementsDatastore` is the
abstract specification under the **refinement mapping** that reads VIPs and backends
from etcd's keys or MySQL's committed rows: every step of a driver is a step of
`Datastore` or a stutter, but for the exception below.

### RestApi, ConfigSync, ControlPlane

`RestApi` has the writing handlers: one step per datastore call, each of which is
an operation of `Datastore`; in between, other requests run. An update reads
the record, merges the request's fields into it (`Merged`), validates the result
against what it reads, and writes it back whole.

`ConfigSync` is the configuration service and one agent's client. Three processes
run at once: the client's `Start` and watch loop (`main`), `WatchConfig` in the
controller (`stream`), and the heartbeat loop with the calls it makes (`beat`).
`GetConfig` is one read with MySQL and reads of VIPs, revision and backends at
different moments with etcd. `applyConfig` is two steps, the handler and
`SetCurrentRevision`, and nothing keeps the two loops from overlapping there.
`Disconnect`, failing calls, `StreamEnds` and `StopClient` are the faults.

`ControlPlane` composes the two with a second controller that writes to the same
store, and records what the store held at each revision (`history`).

### OctaviaDriver

Every operation of the driver on one load balancer, its listeners, pools, members
and health monitors. A call (`calls[w]`) goes through the VirtualIPs (`cr`) of the
listeners it concerns, one read (`Fetch`) and one optimistic write (`Patch`, `Delete`,
`Create`, `Clean`) per step. `Operation` says what a call makes of a VirtualIP it has
read and which statuses it pushes, `Report` what a status push does to Octavia's
records (`db`, `prov`), `OnError` and `Raise` the error paths. `RequestFails` and
`AnswerLost` are failures of the Kubernetes API. `StatusChange` is the watcher.

Octavia is external and modelled from how the driver is called: it commits a
request to its records and marks the objects PENDING before the call, takes the
request back if the call raises, and starts another call as soon as the load
balancer has left PENDING. ACTIVE and ERROR are both "settled". Requests carry the
load balancer's and listener's ids; no pool is shared by listeners; a member's id
stands for its address. Left out are changes of a listener's port or protocol, the
cache of load balancer contexts, flavors, checks of single fields, and operating
statuses.

## Runs

| Run | Instance | Shows |
|---|---|---|
| `routes_safety` | 2 VIPs, 2 addresses, failing router | `CountedOnce`, `Settled`, `DrainExclusive` |
| `routes_liveness` | 2 VIPs, 1 address | `LostRouteHeals`, `NoBlackHole` |
| `manager` | 3 creations or updates | `OneWorker`, `StaleDeleteHarmless`, `DeletedIsRemoved`, `Converges` |
| `lease` | 2 agents that need the same 2 keys, expiry after 1 tick, one failing, one crashing | `Exclusive`, `SomeoneRuns` |
| `health` | 3 events, 1 backend, 1 worker, channels of 1 | `WakeUpPending` |
| `health_stop` | 1 event, 1 restart | `NoSendOnClosed`, `StopEnds` |
| `pass` | 3 objects, 1 backend, 2 table lengths, 3 faults | `Accounted`, `NoEmptyRoute`, `PreviousRemoved`, `ObjectProgrammed` |
| `status` | 2 agents, 2 versions, 3 specs, 2 calls, reports fresh for a tick | `Backed`, `AboutItsGeneration`, `ReportsKept`, `GreenEnds`, `Goes` |
| `datastore` | both drivers, 2 callers, 3 operations or 1 and a transaction of 2 | `ImplementsDatastore`, `StaysIndexed`, `NoOrphanIndex`, `DistinctWrites`, `NoLockCycle`, `WatchMirrors` |
| `tuple_freed` | as `datastore`, with 1 backend | `TupleFreed` fails (finding) |
| `sync` | 1 VIP, 1 backend, 2 handlers, 2 writes or a write and a fault | `StaysConsistent`, `ExactSnapshot`, `AppliedIsUsable`, `RevisionCatchesUp`, `ConfigCatchesUp` |
| `octavia` | 2 listeners, 2 pools, 3 members, 2 calls, 1 fault | `ServesWhatIsEnabled`, `MirrorsOctavia`, `Settles` |

`pass`, `datastore` and `octavia` also check the type invariant of their module. The
others' type invariants (`TypeOK`, `SystemTypeOK`) are proved for every instance.

### Bounds

Two VIPs and two addresses contain every interaction of the route
coordinator: a sibling on the address, and a move between addresses; VIPs and
addresses are symmetric, and the state the safety properties do not read (`route`)
is left out of the fingerprint (no guard reads it). Three versions allow create,
delete, recreate while the clean-up is pending, and an update of the recreated
object. In the lease instance each of two agents has a goroutine that moves VIPs between
the same two addresses; a tick separates "renewed" from "expired". Goroutines with
one holder identity are covered by the proof of `Exclusive`, which is for any number of
them; with a second goroutine of one agent the instance has 6.8 million states, too many
for a run that also checks liveness. The health instance uses one backend, since backends share only the channels, whose bound of
one makes every full-channel case happen; `Running` cuts off shutdown, which
`health_stop` explores, and keeps at most one cancelled scheduler alive. Thresholds
are one in the runs: a transition then needs one result, which gives the most
transitions per step. The objects of `pass` are one, one with another encap at the
same address and one with another address: an update in place and a move.
`MaxFaults` bounds what fails, changes, is lost or crashes in a behaviour; three of
them combine, for example, an update, a lost answer and a crash during the retry.
`FailClosed` and `Preserve` are off, as by default. In `status`, two calls by two agents are
the least in which a writer's copy is out of date; two versions are an edit, or a deletion
and a new object; the specs differ in their backends, one has an invalid health
check and one is ignored by the agents. A report is fresh until the next tick and is
kept for another one, so that it can be fresh, expired and forgotten.

The datastore instance has two VIPs and two tuples, so that operations collide,
two backends and two addresses, and an encapsulation that takes only one of
them. Three operations of two callers are the least in which a third call meets what
two interleaved ones left; a transaction counts for two operations. Callers and backends
are symmetric. In `sync`, requests of several steps run only
before the agent starts, where their interleaving decides whether the store stays
consistent; once the agent runs a request is its write, since the agent sees nothing
else of it (`Bounded`). Revisions go up to 3. With one VIP and one backend `StaysConsistent`
is there about families and parents; tuples and addresses used twice are covered by its
proof. `octavia` starts from five states (no
listener; one enabled listener; a disabled load balancer with two listeners; a
disabled listener; a VirtualIP with a member that a `listener_create` with a lost
answer left), because two calls reach little from an empty one. `MaxAttempts`
is 2 instead of 5: a conflict needs another writer, and there are two calls.

Deadlock is checked for RouteCoordinator and RolloutLease, which always have
something to do. The other instances may stop when their events, requests or faults
are used up, or when an object is gone.

### Fairness

RouteCoordinator: a goroutine inside a call goes on and `vtysh` returns (CmdTimeout);
the safety ticker makes a tracked VIP call `SetServing` with its state again and
again, which is strong fairness because other calls of the same goroutine come in
between; time passes. ReconcilerManager: goroutines run, timers fire, Go's select
does not starve a channel that is ready again and again, and clean-up does not fail
for ever; `Converges` also has as a hypothesis that passes do not fail for ever.
RolloutLease: goroutines run and time passes; that calls succeed and are prompt from
some time on is a hypothesis of `SomeoneRuns`, not of the specification.
HealthEngine: goroutines run, and a scheduler whose context is done leaves its select
eventually. ReconcilePass: the VIP's goroutine runs and its ticker starts another
pass, an agent that exited is started again (by the DaemonSet), watch events arrive,
and the verification interval passes. VirtualIPStatus: the operator's work queue hands out
what is in it, its timers fire and time passes; a reconcile that conflicts is repeated
until it does not, which is strong fairness of its write because agents write in
between, finitely often. Nothing is assumed of the agents. ControlPlane: the client's two loops and the
controller's stream go on, and a watch that is being opened comes into place; faults
and requests are finitely many. OctaviaDriver: a call goes on, and a VirtualIP whose
status is due is reported by the watcher. The watcher skips a VirtualIP without a
current Ready condition, so this assumes that the agents and the operator write a
current status in the end. The datastore specifications have no fairness: nothing is
asked of them but safety. Of failures nothing is assumed except that there are
finitely many, which is the hypothesis under which convergence can be asked for.

## Finding

`TupleFreed`: `claimVIPTupleIndex` (`etcd/index.go:86`) claims the index entry of the
tuple that its caller read, and checks that the VIP exists, not that it still has
that tuple. In the trace of `tuple_freed` an `UpdateVIP` moves the VIP from t1 to t2
between the read and the claim of a `DeleteVIP`. The `DeleteVIP` does not notice: it claims
the entry of t1 again, deletes the VIP and that entry, and leaves the entry of t2 that
the update put. Every later `CreateVIP` on t2 returns `ErrConflict`, where the shared
test suite (`testsuite/datastore.go:248`) requires success.
`claimBackendIPIndex` (`index.go:124`) has the same shape.

## Exceptions

Several properties hold except in a case that they name. TLC shows in each case
that the property fails without the exception; this is what the code does there.

- `NoBlackHole`, while two router calls for one address overlap: an announce that is
  still in `vtysh` when the address is withdrawn lands afterwards. The bookkeeping
  says withdrawn, and only advertised routes are verified, so the route stays.
- `Converges`, for an update in the window of `onVIPReconcilerStopped`:
  `recreated.update(pendingVIP)` is called after the unlock, and a newer object that
  `OnVIPUpdate` delivered in between is overwritten.
- `Accounted` and `PreviousRemoved`, for `orphans`: `ApplyVIP` and `RemoveVIP` remove a
  previous VIP through its cache entry only. An add that VPP executed and whose answer was
  lost leaves no entry. If the object's address changes before the retry, the pending
  record that named the old address is overwritten, and the old VIP stays in VPP without
  a record. Likewise a VIP that was applied and not yet
  committed, when the agent crashes after the overwriting.
- `NoEmptyRoute`, after a router call that failed, until one succeeds, or a VIP that VPP
  lost, until it is applied again; and when a pass trusts a wrong entry: a delete of the previous VIP that VPP
  executed and whose answer was lost leaves its entry as it was. If the object changes
  back before the retry, the pass is a move and does not look at VPP, `ApplyVIP` finds the
  entry equal to the object, makes no call, and the address is announced without a VIP
  until the entry is next verified.
- `ObjectProgrammed`, when the object is created again while `RemovalStuck`: VPP does not
  have the VIP of the entry, `RemoveVIP` of a cached entry does not look first, and every
  retry of the deletion is refused until the agent restarts.
- `ImplementsDatastore`, for an etcd transaction that gives a VIP the tuple of another VIP
  that has no index entry (`TakesUnindexedTuple`): the two then share the tuple.
- `NoLockCycle`, for two pairs of calls. `DeleteBackend` locks its row and then the index
  entry, without the VIP's lock, while `UpdateVIP` or `DeleteVIP` of its VIP goes from entries
  to rows. And two `UpdateVIP`s that exchange their tuples each hold the one that the other
  needs. InnoDB ends one of the two calls, which returns an error.
- `WatchMirrors`, for a record that could not be read when its change was polled
  (`watch.go:72`): the poller sends an error event and goes on, and does not poll that change
  again. `WatchConfig` ends its stream on the error event.
- `ExactSnapshot` is about MySQL. With etcd, VIPs, revision and backends are read at
  different moments, and a configuration can carry a revision it is not the content of.
- `ConfigCatchesUp`, after such a configuration, or when both loops of the client
  were in `applyConfig` (`grpc/client.go:620`) at once: the older configuration can land
  last under the newer revision, and nothing notices. `RevisionCatchesUp` has no
  exception.
- `MirrorsOctavia`, after overlapping calls: the watcher's push takes the load
  balancer out of PENDING while a call still runs, Octavia starts another, and the two
  can leave a VirtualIP that differs from the records (for example, the backends of a
  pool that the listener has left). Also after a call that failed half-way (`partial`):
  the VirtualIP is changed, and Octavia has taken the request back. And for an
  `lb` annotation: a listener created under a disabled load balancer gets a
  VirtualIP without it, which serves its backends.
- `ServesWhatIsEnabled`, for a `listener_create` of a disabled listener that finds a VirtualIP
  which an earlier one left: it sets the admin state and leaves the backends.
- `Settles`, when a VirtualIP is `Mislabelled`: `listener_update` that disables a listener
  and changes its pool leaves the annotations of the old pool's members and monitor, and
  a later `health_monitor_delete` reports the wrong monitor. When a call failed half-way:
  `health_monitor_delete` of a pool whose listener has no VirtualIP then pushes the
  monitor alone. And for members: those that `member_batch_update` removes from a pool
  without listener are never reported DELETED.

The properties with an exception do not catch what happens inside it; the hazards in
`PROJECT.json` that such a case belongs to say so.

One more behaviour is reached by the models and stated by no property. The agent's
context is cancelled before `Engine.Stop`, so a probe in flight is aborted, counted as
a failure and persisted (HealthEngine).

## Proofs

All proofs are by an inductive invariant, none of the properties being inductive:
what a process does in a later step depends on what it saw in an earlier one. Each
part of an invariant has lemmas with one step per action, and TLC checked every
invariant on the instance of its run before it was proved. The assumptions on the constants
are the `ASSUME`s of the modules; apart from types they say that `None` and the like
are no member of the sets they are added to, and what is named below.

**RouteCoordinatorProofs** proves, for any sets of VIPs and addresses and a router
that may fail or not, `TypeCorrect`, `CountedOnceHolds`, `SettledHolds` and
`DrainExclusiveHolds`. `IInv` adds

- `StateInv`: what the fields of an address state say of each other, and that a
  dropped state has no members and no drain;
- `ControlInv`: for each place in a call, what the goroutine has established (a
  goroutine that registers has left its old address; one that removes itself is
  no longer a member once it is past `Remove`; one that drains owns the drain);
- `DrainInv`: a goroutine that was told "drained" owns the drain, is a member there,
  and is idle or in a `SetServing` of that address.

**ReconcilerManagerProofs** proves `OneWorkerHolds`, `StaleDeleteIsHarmless` and
`ManagerTypes` for any number of versions of the object. `ManagerInv` says that,
until `Stop`, the live reconcilers are those in `vips` and `deleting`, which are not
both set (`Owned`); what a goroutine that hands over has still to start is not running
(`HandedOver`); only the reconciler in `deleting` was told to delete (`Told`); and while
it is there newer objects wait in `pendingRecreates`, so the object it deletes
is the newest that any loop holds or can have applied (`Ordered`).

**RolloutLeaseProofs** proves `RolloutsExclusive` and `LeaseTypes` for any agents,
goroutines, keys and Lease duration, with failing calls, lost answers and crashes. `LeaseInv` says that whoever is busy with a key has
its agent's lock of it (`Locked`), that `fn` and the renew loop run only while keys are
held (`Phased`), that a copy which is still the stored Lease shows one that its owner may
write (`Copy`), and that a hold which has not run out is the one the API server has
(`Holds`). From `Copy` follows the heart of the argument, `NoLiveHoldReplaced`: the API
server takes no write in place of another agent's live hold. `KeyStepKeeps` then
reduces a step of one goroutine on one key to its own part of the invariant.

**HealthEngineProofs** proves `WakeUps` (`WakeUpPending`), `ClosedChannels`
(`NoSendOnClosed`) and `EngineTypes` for any backends, specs, thresholds, workers, channel
sizes and restarts. `WakeUpPending` is about a pass at rest; `Woken` says it of every
place in a pass: when the health that a pass has read or used is not the present one, a
token waits, a callback is on its way or the handler is at work. `Ended` says that a
scheduler which has returned has nothing left to send, which makes `NoSendOnClosed`
inductive. `Typed` needs that epochs do not run out, and that jobs and results name
backends.

**VirtualIPStatusProofs** proves `StatusAboutItsGeneration`, `StatusBacked`, the action
property `StatusReportsKept` and `StatusTypes`, for any agents, backends, versions, calls,
TTLs and retention, where a TTL is at most the retention (`AgeAssumption`). `StatusInv` is
about copies: whoever is about to write has a status that speaks of the object's
generation as the object itself would (`Fits`), is backed by the reports in it
(`Supported`) and has the reports of all other agents (`Copied`), or will be
refused (`Copies`). The versions that agents know agree with the object on their
generation (`Known`). Lemmas about `AgentStatus` say which reports sanitizing, upserting
and refreshing keep, and what an aggregate rests on. `Backed` and `ReportsKept` suppose
that the agents are no more than `MaxReports`, as beyond the cap reports are dropped.

**ReconcilePassProofs** proves `PassAccounted`, `PassNoEmptyRoute`, `PassPreviousRemoved` and
`PassTypes` for any specs, backends, graph lengths and number of faults, with a crash, a
failed call, a lost answer or a change of the object between any two steps. The module starts with what
each operation of VppDataPlane does to the tables: `ApplyVIPAdvances`, `RemoveVIPKeeps`,
`RecreateKeeps` and `NeedsDrainKeeps` summarise whole sequences of VPP calls, any of which may
fail or lose its answer. `Inv` has two halves.

- `StoreInv`: each step of a pass finds what the one before it left: once the pending record
  is written VPP has, beside the orphans, only the VIP of the pass and the one that entry
  and store both name (`Placed`), so that applying and committing leave nothing unnamed; a
  configuration that the clean-up forgets has no VIP (`Booting`); a process that is down or
  starting has neither entry nor vote (`Located`).
- `RouteInv`: the record of a route is what FRR has unless the last call failed (`Recording`);
  an address is announced over a VIP (`Announced`); a pass that does not drain changes the VIP
  in place (`Prepared`); a pass has looked for the VIP of its entry, and what it is about to
  announce is in VPP (`Served`).

**DatastoreProofs** proves `StoreTyped` and `StoreStaysConsistent` for any VIPs, backends,
tuples and addresses: no operation or transaction leaves a backend without its VIP
or with an address that the VIP's encapsulation does not take, two VIPs on a tuple, or
two backends of a VIP on an address. `ImplementsDatastore` carries the result to the
drivers on the instance of `datastore`.

**ControlPlaneProofs** is about the composition of the REST API, a second controller, the
store, the configuration service and the client, for any VIPs, backends, handlers,
patches and bounds. A request's write is an operation of `Datastore` by the way RestApi is
built (`WritesAreOperations`), so `StoreStaysConsistent` gives `SystemStaysConsistent`.
`SystemExactSnapshot`, `SystemAppliedIsUsable` and `SystemTypes` follow from `SystemInv`, which
says of every place a configuration can be in (the client's two loops, the
controller's stream, the messages on it) that its revision is one the store has
reached; with MySQL, that it is the history at that revision (`Exact`); that one which is
complete has no backend without a VIP (`Linked`); and that one which passed the agent's
checks can be programmed (`Usable`). The assumption is that the store, when the
controller starts, has no backend without its VIP (`StoresAssumption`): a foreign key in
MySQL, and in etcd the comparison of the VIP in the transaction that adds a backend.
Nothing is assumed about unique tuples or families at the start.

Only model-checked:

- all liveness properties, as the prover has no rules for fairness (`LostRouteHeals`,
  `NoBlackHole`, `DeletedIsRemoved`, `Converges`, `SomeoneRuns`, `StopEnds`,
  `ObjectProgrammed`, `GreenEnds`, `Goes`, `RevisionCatchesUp`, `ConfigCatchesUp`, `Settles`);
- the drivers and their refinement: their requests and statements are sequences that are
  built and consumed by the operations;
- OctaviaDriver, whose properties are about what is computed from the records of a call.

## Not modelled

- The **watcher** (informer, initial sync, and the gate that holds events back):
  ReconcilerManager and HealthEngine assume what it promises its handler, the events of
  a key one at a time and in order.
- The **legacy agent packages** behind the gRPC client (state manager, old reconciler, VPP
  and FRR managers, old health checker), which `cmd/arcalb-agent` does not use.
- Probers, `vtysh` and VPP binary API encodings: I/O whose result is a
  nondeterministic outcome.
- Validation of single fields, configuration parsing, CRD types and the webhook:
  pure checks without state.
- Connection set-up, TLS, authentication, schema migration, process wiring.
- Metrics and telemetry, which are never read back; generated code.
