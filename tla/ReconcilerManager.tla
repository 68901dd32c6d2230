-------------------------- MODULE ReconcilerManager --------------------------
(***************************************************************************)
(* The life of the reconcilers of one VirtualIP key (namespace/name):      *)
(* Manager and vipReconciler.run of                                        *)
(* internal/agent/reconciler/v2_reconciler.go.                             *)
(*                                                                         *)
(* Keys share no field of the Manager, so one key is modelled.  The        *)
(* watcher delivers the events of the key one at a time, in order.  A      *)
(* reconciler is a goroutine with its own channels; a deleted object's     *)
(* reconciler cleans up, retrying until that succeeds, while a recreated   *)
(* object of the same name waits in pendingRecreates.                      *)
(***************************************************************************)
EXTENDS Naturals

CONSTANTS
    MaxVersion,  \* bound on the number of creations and updates of the object
    None

ASSUME MaxVersionAssumption == MaxVersion \in Nat \ {0}

\* An object version: which object it is (UID) and which change made it.
Objects == [uid : 1..MaxVersion, generation : 1..MaxVersion]

ASSUME NoneAssumption == None \notin Objects \cup (1..MaxVersion)

\* Every reconciler is created for a creation event, so there are enough.
Reconcilers == 1..MaxVersion

VARIABLES
    object,           \* the object as the watcher last delivered it
    version,          \* creations and updates so far
    handler,          \* what the watcher's goroutine still has to do
    vips,             \* Manager.vips[key]: a reconciler or None
    deleting,         \* Manager.deleting[key]
    pendingRecreates, \* Manager.pendingRecreates[key]
    goroutine,        \* each reconciler's goroutine
    current,          \* vr.current
    reconcileCh,      \* the reconcilers with a token in reconcileCh
    eventCh,          \* the delete event in vr.eventCh, or None
    deleteVIP,        \* run's deleteVIP
    working,          \* the object of the reconcile or handleDelete in progress
    recreated,        \* what a stopped goroutine has still to hand over
    applied,          \* the object in the data plane
    cancelled,        \* the agent's context is cancelled
    stopped           \* Manager.Stop has run

managerVars == <<vips, deleting, pendingRecreates>>
loopVars == <<reconcileCh, eventCh, deleteVIP, working>>
vars == <<object, version, handler, managerVars, goroutine, current, loopVars,
          recreated, applied, cancelled, stopped>>

-----------------------------------------------------------------------------

Idle == [step |-> "idle", reconciler |-> None, vip |-> None]
NoHandover == [step |-> "none", reconciler |-> None, vip |-> None]

Init ==
    /\ object = None
    /\ version = 0
    /\ handler = Idle
    /\ vips = None
    /\ deleting = None
    /\ pendingRecreates = None
    /\ goroutine = [r \in Reconcilers |-> "unused"]
    /\ current = [r \in Reconcilers |-> None]
    /\ reconcileCh = {}
    /\ eventCh = [r \in Reconcilers |-> None]
    /\ deleteVIP = [r \in Reconcilers |-> None]
    /\ working = [r \in Reconcilers |-> None]
    /\ recreated = [r \in Reconcilers |-> NoHandover]
    /\ applied = None
    /\ cancelled = FALSE
    /\ stopped = FALSE

\* newVIPReconciler takes the next unused reconciler: its channels and fields are
\* empty, as they are initially.
NewReconciler(r) ==
    /\ goroutine[r] = "unused"
    /\ \A s \in Reconcilers : goroutine[s] = "unused" => r <= s

-----------------------------------------------------------------------------
(* The watcher's goroutine                                                 *)

\* The object is created, or updated, and the watcher delivers it.
NextVersion ==
    [uid |-> IF object = None THEN version + 1 ELSE object.uid,
     generation |-> version + 1]

\* Mutant: a recreated object does not wait for the clean-up.
MutantQueued == FALSE

\* The deleted object of the key is still being cleaned up.
Queued == deleting # None

\* The locked part of OnVIPUpdate.
OnVIPUpdate ==
    /\ handler = Idle
    /\ version < MaxVersion
    /\ version' = version + 1
    /\ object' = NextVersion
    /\ \/ /\ Queued
          /\ pendingRecreates' = NextVersion
          /\ UNCHANGED <<handler, vips, goroutine>>
       \/ /\ ~Queued
          /\ vips # None
          /\ handler' = [step |-> "update", reconciler |-> vips, vip |-> NextVersion]
          /\ UNCHANGED <<pendingRecreates, vips, goroutine>>
       \/ /\ ~Queued
          /\ vips = None
          /\ \E r \in Reconcilers :
                /\ NewReconciler(r)
                /\ vips' = r
                /\ goroutine' = [goroutine EXCEPT ![r] = "running"]
                /\ handler' = [step |-> "update", reconciler |-> r, vip |-> NextVersion]
          /\ UNCHANGED pendingRecreates
    /\ UNCHANGED <<deleting, current, loopVars, recreated, applied, cancelled, stopped>>

\* Mutant: an update only wakes the loop once there is an object.
MutantUpdate(r, vip) ==
    /\ current' = [current EXCEPT ![r] = IF @ = None THEN vip ELSE @]
    /\ reconcileCh' = reconcileCh \cup {r}

\* vr.update: set current and put a token into reconcileCh.
Update(r, vip) ==
    /\ current' = [current EXCEPT ![r] = vip]
    /\ reconcileCh' = reconcileCh \cup {r}

FinishUpdate ==
    /\ handler.step = "update"
    /\ Update(handler.reconciler, handler.vip)
    /\ handler' = Idle
    /\ UNCHANGED <<object, version, managerVars, goroutine, eventCh, deleteVIP,
                   working, recreated, applied, cancelled, stopped>>

Managed == vips # None

\* Mutant: a recreation that still waits is not dropped with its object.
MutantDropPending == pendingRecreates

DropPending ==
    IF pendingRecreates # None /\ pendingRecreates.uid = object.uid
    THEN None ELSE pendingRecreates

\* The locked part of OnVIPDelete.
OnVIPDelete ==
    /\ handler = Idle
    /\ object # None
    /\ object' = None
    /\ IF Managed
       THEN /\ vips' = None
            /\ deleting' = vips
            /\ handler' = [step |-> "delete", reconciler |-> vips, vip |-> object]
            /\ UNCHANGED pendingRecreates
       ELSE /\ pendingRecreates' = DropPending
            /\ UNCHANGED <<vips, deleting, handler>>
    /\ UNCHANGED <<version, goroutine, current, loopVars, recreated, applied,
                   cancelled, stopped>>

\* vr.markDeleted: a reconciler is sent one event, so eventCh is never full.
MarkDeleted ==
    /\ handler.step = "delete"
    /\ eventCh' = [eventCh EXCEPT ![handler.reconciler] = handler.vip]
    /\ handler' = Idle
    /\ UNCHANGED <<object, version, managerVars, goroutine, current, reconcileCh,
                   deleteVIP, working, recreated, applied, cancelled, stopped>>

\* A health transition of one of the VIP's backends, from the health engine.
OnHealthChange ==
    /\ vips # None
    /\ reconcileCh' = reconcileCh \cup {vips}
    /\ UNCHANGED <<object, version, handler, managerVars, goroutine, current,
                   eventCh, deleteVIP, working, recreated, applied, cancelled, stopped>>

-----------------------------------------------------------------------------
(* vipReconciler.run                                                       *)

AtSelect(r) == goroutine[r] = "running" /\ working[r] = None

\* A token in reconcileCh, or a tick of the safety ticker, starts a pass.
StartReconcile(r, byToken) ==
    /\ AtSelect(r)
    /\ byToken => r \in reconcileCh
    /\ reconcileCh' = IF byToken THEN reconcileCh \ {r} ELSE reconcileCh
    /\ working' = IF deleteVIP[r] = None
                  THEN [working EXCEPT ![r] = current[r]] ELSE working
    /\ UNCHANGED <<object, version, handler, managerVars, goroutine, current,
                   eventCh, deleteVIP, recreated, applied, cancelled, stopped>>

\* The pass ends.  "applied": the data plane has the object.  "kept": the pass
\* failed, or was skipped because current moved on while it waited for the
\* rollout lease (isCurrent).  "removed": the old VIP was deleted for an
\* attribute change and the new one could not be added.
Outcomes == {"applied", "kept", "removed"}

FinishReconcile(r, outcome) ==
    /\ goroutine[r] = "running"
    /\ working[r] # None
    /\ deleteVIP[r] = None
    /\ applied' = CASE outcome = "applied" -> working[r]
                    [] outcome = "kept" -> applied
                    [] outcome = "removed" -> None
    /\ working' = [working EXCEPT ![r] = None]
    /\ UNCHANGED <<object, version, handler, managerVars, goroutine, current,
                   reconcileCh, eventCh, deleteVIP, recreated, cancelled, stopped>>

\* The delete event is received: from here on the reconciler only deletes.
StartDelete(r) ==
    /\ AtSelect(r)
    /\ eventCh[r] # None
    /\ eventCh' = [eventCh EXCEPT ![r] = None]
    /\ deleteVIP' = [deleteVIP EXCEPT ![r] = eventCh[r]]
    /\ working' = [working EXCEPT ![r] = eventCh[r]]
    /\ UNCHANGED <<object, version, handler, managerVars, goroutine, current,
                   reconcileCh, recreated, applied, cancelled, stopped>>

\* deleteRetry fires.
RetryDelete(r) ==
    /\ AtSelect(r)
    /\ deleteVIP[r] # None
    /\ working' = [working EXCEPT ![r] = deleteVIP[r]]
    /\ UNCHANGED <<object, version, handler, managerVars, goroutine, current,
                   reconcileCh, eventCh, deleteVIP, recreated, applied, cancelled,
                   stopped>>

\* handleDelete removes the key's entry of the data plane, and the loop returns.
DeleteSucceeds(r) ==
    /\ goroutine[r] = "running"
    /\ working[r] # None
    /\ deleteVIP[r] # None
    /\ applied' = None
    /\ working' = [working EXCEPT ![r] = None]
    /\ goroutine' = [goroutine EXCEPT ![r] = "exiting"]
    /\ UNCHANGED <<object, version, handler, managerVars, current, reconcileCh,
                   eventCh, deleteVIP, recreated, cancelled, stopped>>

\* The route or the data plane could not be cleaned up: a retry is scheduled.
DeleteFails(r) ==
    /\ goroutine[r] = "running"
    /\ working[r] # None
    /\ deleteVIP[r] # None
    /\ working' = [working EXCEPT ![r] = None]
    /\ UNCHANGED <<object, version, handler, managerVars, goroutine, current,
                   reconcileCh, eventCh, deleteVIP, recreated, applied, cancelled,
                   stopped>>

ExitOnCancel(r) ==
    /\ AtSelect(r)
    /\ cancelled
    /\ goroutine' = [goroutine EXCEPT ![r] = "exiting"]
    /\ UNCHANGED <<object, version, handler, managerVars, current, loopVars,
                   recreated, applied, cancelled, stopped>>

-----------------------------------------------------------------------------
(* onVIPReconcilerStopped, run by the goroutine that stopped               *)

\* The locked part when the stopped reconciler was being deleted.
ReleaseDeleting(r) ==
    /\ deleting = r
    /\ deleting' = None
    /\ pendingRecreates' = None
    /\ \/ /\ pendingRecreates = None
          /\ goroutine' = [goroutine EXCEPT ![r] = "stopped"]
          /\ UNCHANGED <<vips, recreated>>
       \/ /\ pendingRecreates # None
          /\ \E s \in Reconcilers :
                /\ NewReconciler(s)
                /\ vips' = s
                /\ goroutine' = [goroutine EXCEPT ![r] = "handover", ![s] = "created"]
                /\ recreated' = [recreated EXCEPT ![r] =
                       [step |-> "start", reconciler |-> s, vip |-> pendingRecreates]]
    /\ UNCHANGED reconcileCh

\* The locked part when it stopped with the context, and its trailing trigger.
ReleaseOther(r) ==
    /\ deleting # r
    /\ vips' = IF vips = r THEN None ELSE vips
    /\ reconcileCh' = IF vips \notin {r, None}
                      THEN reconcileCh \cup {vips} ELSE reconcileCh
    /\ goroutine' = [goroutine EXCEPT ![r] = "stopped"]
    /\ UNCHANGED <<deleting, pendingRecreates, recreated>>

OnVIPReconcilerStopped(r) ==
    /\ goroutine[r] = "exiting"
    /\ ReleaseDeleting(r) \/ ReleaseOther(r)
    /\ UNCHANGED <<object, version, handler, current, eventCh, deleteVIP, working,
                   applied, cancelled, stopped>>

\* go recreated.run(m.ctx), outside the lock
StartRecreated(r) ==
    /\ recreated[r].step = "start"
    /\ goroutine' = [goroutine EXCEPT ![recreated[r].reconciler] = "running"]
    /\ recreated' = [recreated EXCEPT ![r].step = "update"]
    /\ UNCHANGED <<object, version, handler, managerVars, current, loopVars,
                   applied, cancelled, stopped>>

\* recreated.update(pendingVIP), also outside the lock
UpdateRecreated(r) ==
    /\ recreated[r].step = "update"
    /\ Update(recreated[r].reconciler, recreated[r].vip)
    /\ goroutine' = [goroutine EXCEPT ![r] = "stopped"]
    /\ recreated' = [recreated EXCEPT ![r] = NoHandover]
    /\ UNCHANGED <<object, version, handler, managerVars, eventCh, deleteVIP,
                   working, applied, cancelled, stopped>>

-----------------------------------------------------------------------------
(* Shutdown                                                                *)

Cancel ==
    /\ ~cancelled
    /\ cancelled' = TRUE
    /\ UNCHANGED <<object, version, handler, managerVars, goroutine, current,
                   loopVars, recreated, applied, stopped>>

Stop ==
    /\ ~stopped
    /\ stopped' = TRUE
    /\ cancelled' = TRUE
    /\ vips' = None
    /\ deleting' = None
    /\ pendingRecreates' = None
    /\ UNCHANGED <<object, version, handler, goroutine, current, loopVars,
                   recreated, applied>>

-----------------------------------------------------------------------------

Loop(r) ==
    \/ \E byToken \in BOOLEAN : StartReconcile(r, byToken)
    \/ \E outcome \in Outcomes : FinishReconcile(r, outcome)
    \/ StartDelete(r)
    \/ RetryDelete(r)
    \/ DeleteSucceeds(r)
    \/ DeleteFails(r)
    \/ ExitOnCancel(r)

Handover(r) ==
    OnVIPReconcilerStopped(r) \/ StartRecreated(r) \/ UpdateRecreated(r)

Next ==
    \/ OnVIPUpdate \/ FinishUpdate \/ OnVIPDelete \/ MarkDeleted
    \/ OnHealthChange
    \/ \E r \in Reconcilers : Loop(r) \/ Handover(r)
    \/ Cancel \/ Stop

Spec == Init /\ [][Next]_vars

-----------------------------------------------------------------------------

MaybeObject == Objects \cup {None}
MaybeReconciler == Reconcilers \cup {None}

(* Types: whoever still has an update or a deletion to hand over has a     *)
(* reconciler and an object for it (OnVIPUpdate, OnVIPDelete).             *)
TypeOK ==
    /\ object \in MaybeObject
    /\ version \in 0..MaxVersion
    /\ handler \in [step : {"idle", "update", "delete"},
                   reconciler : MaybeReconciler, vip : MaybeObject]
    /\ handler # Idle => handler.reconciler # None /\ handler.vip # None
    /\ vips \in MaybeReconciler
    /\ deleting \in MaybeReconciler
    /\ pendingRecreates \in MaybeObject
    /\ goroutine \in [Reconcilers -> {"unused", "created", "running", "exiting",
                                      "handover", "stopped"}]
    /\ current \in [Reconcilers -> MaybeObject]
    /\ reconcileCh \in SUBSET Reconcilers
    /\ eventCh \in [Reconcilers -> MaybeObject]
    /\ deleteVIP \in [Reconcilers -> MaybeObject]
    /\ working \in [Reconcilers -> MaybeObject]
    /\ recreated \in [Reconcilers -> [step : {"none", "start", "update"},
                                      reconciler : MaybeReconciler, vip : MaybeObject]]
    /\ applied \in MaybeObject
    /\ cancelled \in BOOLEAN
    /\ stopped \in BOOLEAN

(* Until the manager is stopped a key has at most one goroutine that       *)
(* reconciles or deletes: a deleted object's reconciler and the recreated  *)
(* object's never work on the data plane and the routes at the same time.  *)
OneWorker ==
    ~stopped => \A r, s \in Reconcilers :
        goroutine[r] = "running" /\ goroutine[s] = "running" => r = s

(* The clean-up of a deleted object never removes a later object: the      *)
(* comment of OnVIPDelete, "Recreates for this key are queued until        *)
(* cleanup succeeds so a stale delete retry cannot remove a freshly        *)
(* applied VIP with the same namespace/name".                              *)
StaleDeleteHarmless ==
    [][\A r \in Reconcilers :
          ~stopped /\ DeleteSucceeds(r) /\ applied # None
            => applied.uid <= deleteVIP[r].uid]_vars

-----------------------------------------------------------------------------
(* Fairness.  The goroutines run, and a pass ends.  A select picks at      *)
(* random among the ready channels, so none that is ready again and again  *)
(* is passed over for ever (SF); the safety ticker and the retry timer     *)
(* fire.  The data plane and the router are not broken for ever (SF of     *)
(* success).                                                               *)
DeleteFairness ==
    /\ WF_vars(FinishUpdate \/ MarkDeleted)
    /\ \A r \in Reconcilers :
          WF_vars(Handover(r) \/ RetryDelete(r)
                    \/ \E outcome \in Outcomes : FinishReconcile(r, outcome))
    /\ SF_vars(\E r \in Reconcilers : StartDelete(r))
    /\ SF_vars(\E r \in Reconcilers : DeleteSucceeds(r))

ReconcileFairness ==
    /\ SF_vars(\E r \in Reconcilers : StartReconcile(r, FALSE))
    /\ SF_vars(\E r \in Reconcilers : FinishReconcile(r, "applied"))

FairSpec == Spec /\ DeleteFairness

(* An object that is deleted and not created again leaves the data plane   *)
(* for good, whatever creations, updates and deletions preceded and        *)
(* however often the clean-up failed, unless the agent shuts down.         *)
DeletedIsRemoved ==
    <>[](object = None /\ ~cancelled) => <>[](applied = None)

\* An update that the watcher gives to a recreated reconciler before the
\* goroutine that recreated it has called its first update().
Overtaken ==
    handler.step = "update" /\ \E r \in Reconcilers :
        recreated[r].step # "none" /\ recreated[r].reconciler = handler.reconciler

(* The data plane gets to the object's last version: docs/architecture.md, *)
(* "Agents detect drift between current and desired states and reconcile". *)
(* The exception is the window of onVIPReconcilerStopped in which the      *)
(* recreated reconciler is registered and its update() not yet called: an  *)
(* update that falls there is overwritten by the older pending object, and *)
(* no later event corrects it.                                             *)
Converges ==
    ReconcileFairness /\ []~Overtaken /\ <>[](object # None /\ ~cancelled)
        => []<>(applied = object)
=============================================================================
