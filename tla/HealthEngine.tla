----------------------------- MODULE HealthEngine -----------------------------
(***************************************************************************)
(* The health check engine of internal/agent/healthcheck/v2_engine.go for  *)
(* one VirtualIP, with the parts of the agent it works with: the event     *)
(* handler of cmd/arcalb-agent/main.go that configures it, the store that  *)
(* keeps its records, and the reconciler that is told of transitions and   *)
(* reads the healthy backends.                                             *)
(*                                                                         *)
(* Probes run through a pipeline: one scheduler goroutine per              *)
(* configuration (epoch), a bounded job channel, workers, a bounded result *)
(* channel and one result processor, which saves a record and calls back   *)
(* after it has released the engine's lock.                                *)
(***************************************************************************)
EXTENDS Naturals, Sequences, FiniteSets

CONSTANTS
    Backends,
    Specs,        \* the VIP specs: check, backends, rise and fall
    Workers,
    QueueSize,    \* MaxConcurrentChecks: both channels and the probe slots
    MaxCount,     \* a counter beyond every threshold makes no further difference
    MaxUpdates,   \* bound on the events the watcher delivers
    MaxRestarts,  \* bound on restarts of the agent
    None

ASSUME QueueAssumption == QueueSize \in Nat \ {0}
ASSUME BoundsAssumption == MaxUpdates \in Nat /\ MaxRestarts \in Nat
ASSUME SpecsAssumption ==
    /\ MaxCount \in Nat
    /\ Specs \subseteq [check : {"none", "valid", "invalid"}, backends : SUBSET Backends,
                        rise : 1..MaxCount, fall : 1..MaxCount]

Epochs == 1..(MaxUpdates + 1)
Outcomes == {"none", "success", "failure", "aborted"}
Record == [state : {"unknown", "up", "down"}, up : 0..MaxCount, down : 0..MaxCount]

ASSUME NoneAssumption ==
    /\ None \notin Specs \cup Record
    /\ \A S \in SUBSET Backends :
          None \notin [epoch : Epochs, spec : Specs, health : [S -> Record]]

VARIABLES
    object,     \* the spec the API server has, or None
    updates,    \* events delivered so far
    restarts,
    handler,    \* the event handler: what it has still to tell the manager
    vips,       \* Engine.vips[key]: [epoch, spec, health] or None
    nextEpoch,
    schedulers, \* live scheduler goroutines, by epoch: [all, left] backends
    jobCh,
    worker,
    resultCh,
    saving,     \* the rest of handleResult, after the lock is released
    store,      \* the persisted record of each backend
    phase,      \* how far the agent is in shutting down
    current,    \* the spec of the key's reconciler, or None
    pending,    \* the spec that waits for the clean-up of a deleted VIP
    cleaning,   \* the key's reconciler has a deleted VIP to clean up
    token,      \* a token in reconcileCh
    pass,       \* the reconcile pass in progress
    used        \* the healthy backends the last pass used

engineVars == <<vips, nextEpoch, schedulers>>
pipeline == <<jobCh, worker, resultCh, saving>>
managerVars == <<current, pending, cleaning>>
passVars == <<pass, used>>
vars == <<object, updates, restarts, handler, engineVars, pipeline, store, phase,
          managerVars, token, passVars>>

-----------------------------------------------------------------------------

Fresh == [state |-> "unknown", up |-> 0, down |-> 0]
IdleHandler == [step |-> "idle", spec |-> None]
IdleWorker == [step |-> "idle", epoch |-> 0, backend |-> None, outcome |-> "none"]
IdlePass == [step |-> "idle", spec |-> None, healthy |-> {}]
NotRunning == [live |-> FALSE, all |-> {}, left |-> {}]
NotSaving == [step |-> "none", backend |-> None, record |-> Fresh, changed |-> FALSE]

Init ==
    /\ object = None
    /\ updates = 0
    /\ restarts = 0
    /\ handler = IdleHandler
    /\ store = [b \in Backends |-> None]
    /\ vips = None
    /\ nextEpoch = 0
    /\ schedulers = [e \in Epochs |-> NotRunning]
    /\ jobCh = <<>>
    /\ worker = [w \in Workers |-> IdleWorker]
    /\ resultCh = <<>>
    /\ saving = NotSaving
    /\ phase = "running"
    /\ current = None
    /\ pending = None
    /\ cleaning = FALSE
    /\ token = FALSE
    /\ pass = IdlePass
    /\ used = {}

-----------------------------------------------------------------------------
(* vipEventHandler: the engine first, then the reconciler manager.  The    *)
(* watcher may still deliver an event while the agent shuts down.          *)

\* What a backend starts with: its record under the configuration before, the
\* persisted one, or none.
StartingHealth(b) ==
    IF vips # None /\ b \in DOMAIN vips.health THEN vips.health[b]
    ELSE IF store[b] # None THEN store[b] ELSE Fresh

\* startVIPLocked; the scheduler of the epoch before is cancelled by it.
StartVIP(spec) ==
    /\ nextEpoch' = nextEpoch + 1
    /\ vips' = [epoch |-> nextEpoch + 1, spec |-> spec,
                health |-> [b \in spec.backends |-> StartingHealth(b)]]
    /\ schedulers' = [schedulers EXCEPT ![nextEpoch + 1] =
                        [live |-> TRUE, all |-> spec.backends, left |-> spec.backends]]

StopVIP ==
    /\ vips' = None
    /\ UNCHANGED <<nextEpoch, schedulers>>

\* UpdateVIP refuses a health check it cannot run, and once Stop was called.
Configure(spec) ==
    IF spec.check = "valid" /\ phase \in {"running", "cancelled"}
    THEN StartVIP(spec) ELSE StopVIP

OnVIPUpdate(spec) ==
    /\ handler = IdleHandler
    /\ phase # "stopped"
    /\ updates < MaxUpdates
    /\ updates' = updates + 1
    /\ object' = spec
    /\ Configure(spec)
    /\ handler' = [step |-> "update", spec |-> spec]
    /\ UNCHANGED <<restarts, pipeline, store, phase, managerVars, token, passVars>>

OnVIPDelete ==
    /\ handler = IdleHandler
    /\ phase # "stopped"
    /\ object # None
    /\ updates < MaxUpdates
    /\ updates' = updates + 1
    /\ object' = None
    /\ StopVIP
    /\ handler' = [step |-> "delete", spec |-> None]
    /\ UNCHANGED <<restarts, pipeline, store, phase, managerVars, token, passVars>>

\* The restarted agent's first list delivers the object again.
InitialSync ==
    /\ handler.step = "sync"
    /\ phase # "stopped"
    /\ Configure(handler.spec)
    /\ handler' = [handler EXCEPT !.step = "update"]
    /\ UNCHANGED <<object, updates, restarts, pipeline, store, phase, managerVars,
                   token, passVars>>

\* reconciler.OnVIPUpdate and vr.update
ManagerUpdate ==
    /\ handler.step = "update"
    /\ IF cleaning
       THEN pending' = handler.spec /\ UNCHANGED <<current, token>>
       ELSE current' = handler.spec /\ token' = TRUE /\ UNCHANGED pending
    /\ handler' = IdleHandler
    /\ UNCHANGED <<object, updates, restarts, engineVars, pipeline, store, phase,
                   cleaning, passVars>>

\* reconciler.OnVIPDelete
ManagerDelete ==
    /\ handler.step = "delete"
    /\ IF current # None
       THEN /\ cleaning' = TRUE
            /\ current' = None
            /\ token' = FALSE
            /\ UNCHANGED pending
       ELSE pending' = None /\ UNCHANGED <<current, cleaning, token>>
    /\ handler' = IdleHandler
    /\ UNCHANGED <<object, updates, restarts, engineVars, pipeline, store, phase,
                   passVars>>

-----------------------------------------------------------------------------
(* The pipeline                                                            *)

\* The engine's context, which ends with the agent's.
EngineDone == phase # "running"

\* Mutant: Stop drops a VIP without cancelling its scheduler.
MutantCancelled(e) == vips # None /\ e # vips.epoch

\* Another epoch, or none, has taken the scheduler's place, or Stop was called.
Cancelled(e) == EngineDone \/ e # (IF vips = None THEN 0 ELSE vips.epoch)

HasRoom(ch) == Len(ch) < QueueSize

\* scheduleProbes: a tick starts a round.
SchedulerTick(e) ==
    /\ schedulers[e].live
    /\ schedulers[e].left = {}
    /\ schedulers' = [schedulers EXCEPT ![e].left = schedulers[e].all]
    /\ UNCHANGED <<object, updates, restarts, handler, vips, nextEpoch, pipeline,
                   store, phase, managerVars, token, passVars>>

EnqueueProbeJob(e) ==
    /\ \E b \in schedulers[e].left :
          /\ HasRoom(jobCh)
          /\ jobCh' = Append(jobCh, [epoch |-> e, backend |-> b])
          /\ schedulers' = [schedulers EXCEPT ![e].left = @ \ {b}]
    /\ UNCHANGED <<object, updates, restarts, handler, vips, nextEpoch, worker,
                   resultCh, saving, store, phase, managerVars, token, passVars>>

\* enqueueProbeJob returns false: the round is given up.
DropProbeJobs(e) ==
    /\ schedulers[e].left # {}
    /\ EngineDone
    /\ schedulers' = [schedulers EXCEPT ![e].left = {}]
    /\ UNCHANGED <<object, updates, restarts, handler, vips, nextEpoch, pipeline,
                   store, phase, managerVars, token, passVars>>

SchedulerExit(e) ==
    /\ schedulers[e].live
    /\ schedulers[e].left = {}
    /\ Cancelled(e)
    /\ schedulers' = [schedulers EXCEPT ![e] = NotRunning]
    /\ UNCHANGED <<object, updates, restarts, handler, vips, nextEpoch, pipeline,
                   store, phase, managerVars, token, passVars>>

SetWorker(w, r) ==
    /\ worker' = [worker EXCEPT ![w] = r]
    /\ UNCHANGED <<object, updates, restarts, handler, engineVars, saving, store,
                   phase, managerVars, token, passVars>>

TakeJob(w) ==
    /\ worker[w].step = "idle"
    /\ jobCh # <<>>
    /\ jobCh' = Tail(jobCh)
    /\ SetWorker(w, [step |-> "slot", epoch |-> Head(jobCh).epoch,
                     backend |-> Head(jobCh).backend, outcome |-> "none"])
    /\ UNCHANGED resultCh

AcquireProbeSlot(w) ==
    /\ worker[w].step = "slot"
    /\ \/ /\ Cardinality({x \in Workers : worker[x].step = "probe"}) < QueueSize
          /\ SetWorker(w, [worker[w] EXCEPT !.step = "probe"])
       \/ EngineDone /\ SetWorker(w, IdleWorker)
    /\ UNCHANGED <<jobCh, resultCh>>

\* The backend answers, or fails to answer in time.
Probe(w, outcome) ==
    /\ worker[w].step = "probe"
    /\ SetWorker(w, [worker[w] EXCEPT !.step = "result", !.outcome = outcome])
    /\ UNCHANGED <<jobCh, resultCh>>

\* The probe's context ends with the agent's: the prober reports a failure.
ProbeAborted(w) ==
    /\ worker[w].step = "probe"
    /\ EngineDone
    /\ SetWorker(w, [worker[w] EXCEPT !.step = "result", !.outcome = "aborted"])
    /\ UNCHANGED <<jobCh, resultCh>>

\* The send is dropped only if the context is done, but need not be then.
EnqueueProbeResult(w) ==
    /\ worker[w].step = "result"
    /\ \/ /\ HasRoom(resultCh)
          /\ resultCh' = Append(resultCh, [epoch |-> worker[w].epoch,
                 backend |-> worker[w].backend, outcome |-> worker[w].outcome])
       \/ EngineDone /\ UNCHANGED resultCh
    /\ SetWorker(w, IdleWorker)
    /\ UNCHANGED jobCh

Bounded(n) == IF n < MaxCount THEN n + 1 ELSE n

\* The hysteresis of handleResult.
Count(r, outcome, spec) ==
    IF outcome = "success"
    THEN [state |-> IF Bounded(r.up) >= spec.rise THEN "up" ELSE r.state,
          up |-> Bounded(r.up), down |-> 0]
    ELSE [state |-> IF Bounded(r.down) >= spec.fall THEN "down" ELSE r.state,
          up |-> 0, down |-> Bounded(r.down)]

\* Mutant: only backends that go down are reported.
MutantChanged(old, new) == new.state = "down" /\ old.state # "down"

Changed(old, new) == old.state # new.state

Counts(result) ==
    vips # None /\ vips.epoch = result.epoch /\ result.backend \in DOMAIN vips.health

\* The locked part of handleResult.
HandleResult ==
    /\ resultCh # <<>>
    /\ saving = NotSaving
    /\ resultCh' = Tail(resultCh)
    /\ LET result == Head(resultCh)
           b == result.backend
           record == Count(vips.health[b], result.outcome, vips.spec)
       IN  IF Counts(result)
           THEN /\ vips' = [vips EXCEPT !.health[b] = record]
                /\ saving' = [step |-> "save", backend |-> b, record |-> record,
                              changed |-> Changed(vips.health[b], record)]
           ELSE UNCHANGED <<vips, saving>>
    /\ UNCHANGED <<object, updates, restarts, handler, nextEpoch, schedulers, jobCh,
                   worker, store, phase, managerVars, token, passVars>>

SaveHealthState ==
    /\ saving.step = "save"
    /\ store' = [store EXCEPT ![saving.backend] = saving.record]
    /\ saving' = IF saving.changed THEN [saving EXCEPT !.step = "callback"] ELSE NotSaving
    /\ UNCHANGED <<object, updates, restarts, handler, engineVars, jobCh, worker,
                   resultCh, phase, managerVars, token, passVars>>

\* OnHealthChange of the manager
Callback ==
    /\ saving.step = "callback"
    /\ saving' = NotSaving
    /\ token' = (token \/ current # None)
    /\ UNCHANGED <<object, updates, restarts, handler, engineVars, jobCh, worker,
                   resultCh, store, phase, managerVars, passVars>>

-----------------------------------------------------------------------------
(* vipReconciler: a pass reads its spec, then the healthy backends, and    *)
(* then applies both.                                                      *)

Healthy(spec) ==
    IF spec.check = "none" THEN spec.backends
    ELSE IF vips = None THEN {}
    ELSE {b \in spec.backends \cap DOMAIN vips.health : vips.health[b].state = "up"}

\* A token in reconcileCh, or a tick of the safety ticker, starts a pass; the
\* loop ends with the agent's context.
StartPass(byToken) ==
    /\ phase = "running"
    /\ pass = IdlePass
    /\ current # None
    /\ byToken => token
    /\ token' = (token /\ ~byToken)
    /\ pass' = [step |-> "health", spec |-> current, healthy |-> {}]
    /\ UNCHANGED <<object, updates, restarts, handler, engineVars, pipeline, store,
                   phase, managerVars, used>>

HealthyBackends ==
    /\ pass.step = "health"
    /\ pass' = [pass EXCEPT !.step = "apply", !.healthy = Healthy(pass.spec)]
    /\ UNCHANGED <<object, updates, restarts, handler, engineVars, pipeline, store,
                   phase, managerVars, token, used>>

FinishPass ==
    /\ pass.step = "apply"
    /\ used' = pass.healthy
    /\ pass' = IdlePass
    /\ UNCHANGED <<object, updates, restarts, handler, engineVars, pipeline, store,
                   phase, managerVars, token>>

\* handleDelete, and the reconciler of a VIP that was created meanwhile.
HandleDelete ==
    /\ phase = "running"
    /\ cleaning
    /\ pass = IdlePass
    /\ store' = [b \in Backends |-> None]
    /\ cleaning' = FALSE
    /\ current' = pending
    /\ pending' = None
    /\ token' = (pending # None)
    /\ used' = {}
    /\ UNCHANGED <<object, updates, restarts, handler, engineVars, pipeline, phase,
                   pass>>

-----------------------------------------------------------------------------
(* Shutdown: cancel(), reconMgr.Stop() and Engine.Stop()                   *)

SetPhase(from, to) ==
    /\ phase = from
    /\ phase' = to
    /\ UNCHANGED <<object, updates, restarts, handler, nextEpoch, schedulers, pipeline,
                   store, managerVars, token, passVars>>

Cancel == SetPhase("running", "cancelled") /\ UNCHANGED vips

\* reconMgr.Stop waits for the pass in progress, but not for ever.
StopVIPs == SetPhase("cancelled", "stopping") /\ vips' = None

\* Mutant: the channel is closed without waiting for the schedulers.
MutantSchedulersDone == TRUE

SchedulersDone == \A e \in Epochs : ~schedulers[e].live

CloseJobs == SetPhase("stopping", "jobs closed") /\ SchedulersDone /\ UNCHANGED vips

WorkersDone == jobCh = <<>> /\ \A w \in Workers : worker[w].step = "idle"

CloseResults ==
    SetPhase("jobs closed", "results closed") /\ WorkersDone /\ UNCHANGED vips

Stopped ==
    /\ SetPhase("results closed", "stopped")
    /\ resultCh = <<>>
    /\ saving = NotSaving
    /\ UNCHANGED vips

\* The agent crashes, or has stopped, and is started again.
Restart ==
    /\ restarts < MaxRestarts
    /\ restarts' = restarts + 1
    /\ vips' = None
    /\ nextEpoch' = 0
    /\ schedulers' = [e \in Epochs |-> NotRunning]
    /\ jobCh' = <<>>
    /\ worker' = [w \in Workers |-> IdleWorker]
    /\ resultCh' = <<>>
    /\ saving' = NotSaving
    /\ phase' = "running"
    /\ current' = None
    /\ pending' = None
    /\ cleaning' = FALSE
    /\ token' = FALSE
    /\ pass' = IdlePass
    /\ used' = {}
    /\ handler' = IF object = None THEN IdleHandler ELSE [step |-> "sync", spec |-> object]
    /\ UNCHANGED <<object, updates, store>>

-----------------------------------------------------------------------------

Schedule(e) ==
    SchedulerTick(e) \/ EnqueueProbeJob(e) \/ DropProbeJobs(e) \/ SchedulerExit(e)

Work(w) ==
    \/ TakeJob(w) \/ AcquireProbeSlot(w) \/ EnqueueProbeResult(w) \/ ProbeAborted(w)
    \/ \E outcome \in {"success", "failure"} : Probe(w, outcome)

Results == HandleResult \/ SaveHealthState \/ Callback

Shutdown == StopVIPs \/ CloseJobs \/ CloseResults \/ Stopped

Next ==
    \/ \E spec \in Specs : OnVIPUpdate(spec)
    \/ OnVIPDelete \/ InitialSync \/ ManagerUpdate \/ ManagerDelete
    \/ \E e \in Epochs : Schedule(e)
    \/ \E w \in Workers : Work(w)
    \/ Results
    \/ \E byToken \in BOOLEAN : StartPass(byToken)
    \/ HealthyBackends \/ FinishPass \/ HandleDelete
    \/ Cancel \/ Shutdown \/ Restart

Spec == Init /\ [][Next]_vars

-----------------------------------------------------------------------------

(* Types: the engine has a health record for exactly the backends of the   *)
(* configuration it checks, and its queues keep to their capacity.         *)
TypeOK ==
    /\ object \in Specs \cup {None}
    /\ handler \in [step : {"idle", "update", "delete", "sync"}, spec : Specs \cup {None}]
    /\ vips # None =>
          /\ vips.epoch \in Epochs
          /\ vips.spec \in Specs
          /\ vips.health \in [vips.spec.backends -> Record]
    /\ nextEpoch \in 0..(MaxUpdates + 1)
    /\ schedulers \in [Epochs -> [live : BOOLEAN, all : SUBSET Backends,
                                  left : SUBSET Backends]]
    /\ Len(jobCh) <= QueueSize
    /\ Len(resultCh) <= QueueSize
    /\ worker \in [Workers -> [step : {"idle", "slot", "probe", "result"},
                               epoch : Epochs \cup {0},
                               backend : Backends \cup {None}, outcome : Outcomes]]
    /\ saving \in [step : {"none", "save", "callback"},
                   backend : Backends \cup {None}, record : Record,
                   changed : BOOLEAN]
    /\ store \in [Backends -> Record \cup {None}]
    /\ phase \in {"running", "cancelled", "stopping", "jobs closed",
                  "results closed", "stopped"}
    /\ current \in Specs \cup {None}
    /\ pending \in Specs \cup {None}
    /\ cleaning \in BOOLEAN
    /\ token \in BOOLEAN
    /\ pass \in [step : {"idle", "health", "apply"}, spec : Specs \cup {None},
                 healthy : SUBSET Backends]
    /\ used \in SUBSET Backends

(* No transition is lost between the engine and the reconciler: while the  *)
(* backends in use differ from the healthy ones, a wake-up of the          *)
(* reconciler is on its way - a token in reconcileCh, a pass that has not  *)
(* read or not yet applied the health, a callback of handleResult, or an   *)
(* event the handler has not passed on.  The safety ticker is not needed.  *)
WakeUpPending ==
    phase = "running" /\ current # None /\ used # Healthy(current) =>
        \/ token
        \/ pass.step = "health" /\ pass.spec = current
        \/ pass.step = "apply" /\ pass.healthy = Healthy(current)
        \/ saving.changed
        \/ handler # IdleHandler

(* Stop closes a channel only when nobody can send on it any more; a send  *)
(* on a closed channel would bring the agent down.                         *)
NoSendOnClosed ==
    /\ phase \in {"jobs closed", "results closed", "stopped"} =>
          \A e \in Epochs : schedulers[e].left = {} /\ ~schedulers[e].live
    /\ phase \in {"results closed", "stopped"} =>
          jobCh = <<>> /\ \A w \in Workers : worker[w].step = "idle"

Fairness ==
    /\ WF_vars(Shutdown)
    /\ WF_vars(Results)
    /\ \A w \in Workers : WF_vars(Work(w))
    /\ \A e \in Epochs :
          WF_vars(EnqueueProbeJob(e) \/ DropProbeJobs(e)) /\ SF_vars(SchedulerExit(e))

FairSpec == Spec /\ Fairness

(* Stop comes to an end: schedulers, workers and the result processor do   *)
(* not wait for each other for ever, however full the channels are when    *)
(* the agent's context is cancelled.                                       *)
StopEnds == phase = "cancelled" ~> phase \in {"stopped", "running"}
=============================================================================
