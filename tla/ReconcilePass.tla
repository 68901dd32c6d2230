---------------------------- MODULE ReconcilePass ----------------------------
(***************************************************************************)
(* One VirtualIP on one agent, from the API object to VPP and FRR: the     *)
(* passes and the clean-up of its vipReconciler                            *)
(* (internal/agent/reconciler/v2_reconciler.go), the configurations they   *)
(* persist (internal/agent/store/store.go), and what a restarted agent     *)
(* does with them (cleanupStaleLastConfigs of cmd/arcalb-agent/main.go).   *)
(*                                                                         *)
(* One step is one external effect: a store transaction, a data plane      *)
(* operation, a router call.  Each may fail, and the process may die       *)
(* between any two.  The route coordinator is seen by one VIP, whose calls *)
(* are sequential; a sibling on the address appears as a refused drain.    *)
(***************************************************************************)
EXTENDS VppDataPlane

CONSTANTS
    Invalid,      \* an object that fails validation
    Preserve,     \* retained_vip_tuning_drift_policy is "preserve"
    MaxFaults     \* bound on what fails, changes or is lost in a behaviour

VARIABLES
    desired,   \* the object in the API: a spec, Invalid or None
    healthy,   \* the backends that the health tracker reports
    faults,    \* what may still fail, change or be lost
    phase,     \* the agent: "down", "boot" or "up"
    boot,      \* cleanupStaleLastConfigs: the listed object, what is left to do
    last,      \* the last-applied configuration in the store, or None
    pending,   \* the pending configuration in the store, or None
    current,   \* vr.current, or None when there is no reconciler
    applied,   \* vr.applied
    deleting,  \* the reconciler is cleaning up
    pc,        \* where its goroutine is
    job,       \* the pass it is executing
    route,     \* the addresses whose static route FRR has
    tracked,   \* the address the coordinator tracks the VIP at, or None
    serving,   \* its serving flag there
    draining,  \* it owns the drain of that address
    record,    \* the routeAddressState of that address
    excused,   \* "frr": the last router call failed; "vpp": VPP lost the VIP;
               \* "entry": a pass trusts an entry of a VIP that VPP does not have
    orphans    \* the tuples whose record an update replaced too early

Addresses == {s.address : s \in Specs}

ASSUME ObjectAssumption == Invalid \notin Specs \cup {None} /\ None \notin Addresses
ASSUME BoundsAssumption == MaxFaults \in Nat /\ Preserve \in BOOLEAN

api == <<desired, healthy>>
dataplane == <<vpp, cache, drift, length>>
store == <<last, pending>>
worker == <<current, applied, deleting>>
coordinator == <<route, tracked, serving, draining, record>>
history == <<excused, orphans>>
vars == <<api, faults, dataplane, store, worker, coordinator, phase, boot, pc, job,
          history>>

NoJob == [spec |-> None, healthy |-> {}, drain |-> FALSE, held |-> FALSE,
          serve |-> FALSE]
NoBoot == [listed |-> None, todo |-> {}, source |-> "last", failed |-> FALSE]

Init ==
    /\ desired \in Specs
    /\ healthy = Backends
    /\ faults = MaxFaults
    /\ phase = "down"
    /\ boot = NoBoot
    /\ last = None /\ pending = None
    /\ current = None /\ applied = None /\ deleting = FALSE
    /\ pc = "idle" /\ job = NoJob
    /\ vpp = [t \in Tuples |-> None]
    /\ cache = None /\ drift = FALSE
    /\ length = CHOOSE l \in Lengths : TRUE  \* any one: none is special
    /\ route = {} /\ tracked = None /\ serving = FALSE /\ draining = FALSE
    /\ record = "none"
    /\ excused = {} /\ orphans = {}

\* Something fails, changes or is lost.
Fault == faults > 0 /\ faults' = faults - 1

\* A router call that is "early" repeats an announcement whose verification is not
\* due: it is not made.
RouterOutcomes == Outcomes \cup {"early"}

\* The step's call has this outcome, or its calls these answers.
Routed(outcome) == IF outcome = "ok" THEN UNCHANGED faults ELSE Fault
Answered(o) == IF o = AllOk THEN UNCHANGED faults ELSE Fault

Go(next) == pc' = next
Done == pc' = "idle" /\ job' = NoJob

-----------------------------------------------------------------------------
(* The route coordinator, for the calls of one VIP.                        *)

\* nextRouteOperationLocked and applyRouteOperationLocked: whether an address in
\* the state st calls the router, and its state afterwards.
Calls(st, announce, outcome) ==
    IF announce THEN outcome # "early" ELSE st \in {"new", "up"}

Recorded(st, announce, outcome) ==
    IF ~Calls(st, announce, outcome) \/ outcome \in Failures THEN st
    ELSE IF announce THEN "up" ELSE "down"

\* The call itself, if there is one.
Install(a, st, announce, outcome) ==
    /\ outcome \in Failures => Calls(st, announce, outcome)
    /\ outcome = "early" => announce /\ st = "up"
    /\ Routed(outcome)
    /\ IF ~Calls(st, announce, outcome) THEN UNCHANGED <<route, excused>>
       ELSE /\ route' = IF outcome = "refused" THEN route
                        ELSE IF announce THEN route \cup {a} ELSE route \ {a}
            /\ excused' = IF outcome = "ok" THEN excused \ {"frr"}
                          ELSE excused \cup {"frr"}

reconcileRoute(a, st, announce, outcome) ==
    /\ Install(a, st, announce, outcome)
    /\ record' = Recorded(st, announce, outcome)

\* ensureRouteAddressStateLocked
Ensured == IF record = "none" THEN "new" ELSE record

SetServing(a, flag, outcome) ==
    /\ tracked' = a
    /\ serving' = flag
    /\ reconcileRoute(a, Ensured, flag /\ ~draining, outcome)
    /\ UNCHANGED draining

FinishDrain(a, outcome) ==
    /\ IF draining
       THEN reconcileRoute(a, record, serving, outcome)
       ELSE outcome = "ok" /\ UNCHANGED <<route, record, excused, faults>>
    /\ draining' = FALSE
    /\ UNCHANGED <<tracked, serving>>

\* A failed withdrawal gives the drain up.
BeginDrain(a, outcome) ==
    /\ tracked' = a
    /\ serving' = FALSE
    /\ draining' = (outcome \notin Failures)
    /\ reconcileRoute(a, Ensured, FALSE, outcome)

\* removeVIPFromAddress.  An address state that is not announced is dropped, after
\* a failed call too, and the drain with it.
RemoveFromAddress(a, outcome) ==
    LET kept == Recorded(record, FALSE, outcome) = "up" IN
    /\ serving' = FALSE
    /\ Install(a, record, FALSE, outcome)
    /\ tracked' = IF outcome \in Failures THEN tracked ELSE None
    /\ record' = IF kept THEN "up" ELSE "none"
    /\ draining' = (draining /\ kept)

-----------------------------------------------------------------------------
(* A pass: reconcile, planVIPUpdate and reconcileApplied.                  *)

\* lastAppliedVIP: the one in memory, else the one in the store.
LastApplied == IF applied # None THEN applied ELSE last

\* needsDrainForVIPUpdate: a disruptive change at the same address.
UpdateDisrupts(s) ==
    /\ LastApplied # None
    /\ LastApplied.address = s.address
    /\ LastApplied # s

\* Mutant: an update in place is not drained.
MutantPlanDrain(s, loaded, o) == ~loaded

\* planVIPUpdate drains when in doubt: when the store or VPP cannot be read.
PlanDrain(s, loaded, o) ==
    \/ ~loaded
    \/ UpdateDisrupts(s)
    \/ RetainedStale(World, s, o)
    \/ NeedsDrainForRetainedVIP(World, s, o).err

\* ApplyVIP would leave VPP as it is but for the backends.
Trusted(s) == cache # None /\ cache.spec = s /\ ~cache.due

Begin ==
    /\ phase = "up" /\ pc = "idle" /\ current # None /\ ~deleting
    /\ \E o \in Answers, loaded \in {TRUE, applied # None} :
         LET s == current
             moves == tracked \notin {None, s.address}
             inspects == ~moves /\ loaded /\ ~UpdateDisrupts(s)
             drains == ~moves /\ PlanDrain(s, loaded, o)
         IN
         /\ IF loaded THEN Answered(o) ELSE o = AllOk /\ Fault
         /\ applied' = IF ~moves /\ loaded THEN LastApplied ELSE applied
         /\ IF inspects
            THEN Become(NeedsDrainForRetainedVIP(World, s, o))
            ELSE UNCHANGED <<vpp, cache, drift>>
         /\ excused' = IF ~inspects /\ Trusted(s) /\ vpp[Tuple(s)] = None
                       THEN excused \cup {"entry"} ELSE excused
         /\ job' = [NoJob EXCEPT !.spec = s, !.healthy = healthy, !.drain = drains]
         /\ Go(IF moves \/ drains THEN "admit" ELSE "persist")
    /\ UNCHANGED <<api, store, coordinator, phase, boot, length, current, deleting,
                   orphans>>

\* The rollout Leases are held; what waited too long is skipped.
Admit ==
    /\ pc = "admit"
    /\ \/ current = job.spec /\ Go("persist") /\ UNCHANGED job
          /\ UNCHANGED faults
       \/ Done /\ (IF current # job.spec THEN UNCHANGED faults ELSE Fault)
    /\ UNCHANGED <<api, dataplane, store, worker, coordinator, phase, boot, history>>

\* What VPP has beside the VIP s, unless the last-applied configuration and the
\* entry both name it: the agent had not finished with it when s came.
Unfinished(s) ==
    {t \in Tuples \ {Tuple(s)} :
        vpp[t] # None /\ ~\A x \in {last, IF cache = None THEN None ELSE cache.spec} :
                              x # None /\ Tuple(x) = t}

\* Mutant: the pending configuration is not written before the change.
MutantPersist ==
    /\ pc = "persist"
    /\ Go("prepare")
    /\ UNCHANGED <<api, faults, dataplane, store, worker, coordinator, phase, boot,
                   job, history>>

persistPendingConfig ==
    /\ pc = "persist"
    /\ \/ pending' = job.spec /\ Go("prepare") /\ UNCHANGED <<job, faults>>
          /\ orphans' = Unfinished(job.spec)
       \/ Fault /\ Done /\ UNCHANGED <<pending, orphans>>
    /\ UNCHANGED <<api, dataplane, last, worker, coordinator, phase, boot, excused>>

prepareAddressChange ==
    /\ pc = "prepare"
    /\ IF tracked \in {None, job.spec.address}
       THEN /\ Go(IF job.drain THEN "drain" ELSE "apply")
            /\ UNCHANGED <<coordinator, job, excused, faults>>
       ELSE \E outcome \in RouterOutcomes :
              /\ RemoveFromAddress(tracked, outcome)
              /\ IF outcome \notin Failures
                 THEN Go(IF job.drain THEN "drain" ELSE "apply") /\ UNCHANGED job
                 ELSE Done
    /\ UNCHANGED <<api, dataplane, store, worker, phase, boot, orphans>>

\* BeginAddressDrain.  A sibling may own the drain, or the router fail.
DrainAddress ==
    /\ pc = "drain"
    /\ \/ \E outcome \in RouterOutcomes :
            /\ BeginDrain(job.spec.address, outcome)
            /\ IF outcome \notin Failures
               THEN Go("apply") /\ job' = [job EXCEPT !.held = TRUE]
               ELSE Done
       \/ Fault /\ ~draining /\ Done /\ UNCHANGED <<coordinator, excused>>
    /\ UNCHANGED <<api, dataplane, store, worker, phase, boot, orphans>>

\* SetServing(flag), and FinishDrain if a drain is held, come next.
Serve(flag) == Go("serve") /\ job' = [job EXCEPT !.serve = flag]

Apply ==
    /\ pc = "apply"
    /\ \E o \in Answers : Answered(o) /\ \E w \in {ApplyVIP(World, job.spec, job.healthy, o)} :
         /\ Become(w)
         /\ excused' = IF w.err \/ w.vpp[Tuple(job.spec)] = None
                       THEN excused ELSE excused \ {"vpp", "entry"}
         /\ IF w.err THEN Serve(FALSE) ELSE Go("commit") /\ UNCHANGED job
    /\ UNCHANGED <<api, store, worker, coordinator, phase, boot, length, orphans>>

HasHealthy == job.healthy # {}

\* Mutant: a pass that commits does not announce the route.
MutantCommit ==
    /\ pc = "commit"
    /\ last' = job.spec /\ pending' = None /\ applied' = job.spec
    /\ Done
    /\ UNCHANGED <<api, faults, dataplane, coordinator, phase, boot, current, deleting,
                   history>>

commitLastConfig ==
    /\ pc = "commit"
    /\ \/ /\ last' = job.spec
          /\ pending' = None
          /\ applied' = job.spec
          /\ IF drift /\ ~Preserve
             THEN Go("repair") /\ UNCHANGED job
             ELSE Serve(HasHealthy)
          /\ UNCHANGED faults
       \/ /\ Fault
          /\ IF job.held THEN Serve(FALSE) ELSE Done
          /\ UNCHANGED <<store, applied>>
    /\ UNCHANGED <<api, dataplane, coordinator, phase, boot, current, deleting,
                   history>>

\* repairTuningDrift up to the drain.  The Lease may be refused, the object may
\* have changed while waiting for it, a sibling may be serving the address.
BeginRepair ==
    /\ pc = "repair"
    /\ \/ \E outcome \in RouterOutcomes :
            /\ BeginDrain(job.spec.address, outcome)
            /\ IF outcome \notin Failures THEN Go("recreate") /\ UNCHANGED job
               ELSE IF job.held THEN Serve(FALSE) ELSE Done
       \/ /\ IF current # job.spec THEN UNCHANGED faults ELSE Fault
          /\ Serve(HasHealthy)
          /\ UNCHANGED <<coordinator, excused>>
       \/ /\ Fault
          /\ IF job.held THEN Serve(FALSE) ELSE Done
          /\ UNCHANGED <<coordinator, excused>>
    /\ UNCHANGED <<api, dataplane, store, worker, phase, boot, orphans>>

\* After a failure releaseUpdateDrain ends the pass; the route comes back only
\* when VPP is known to have kept the old VIP.
Recreate ==
    /\ pc = "recreate"
    /\ \E o \in Answers : Answered(o) /\ \E w \in {RecreateVIP(World, job.spec, job.healthy, o)} :
         /\ Become(w)
         /\ IF w.err
            THEN /\ Go("serve")
                 /\ job' = [job EXCEPT !.held = TRUE,
                              !.serve = /\ HasHealthy
                                        /\ RouteSafeToRestore(World, w, job.spec, o)]
            ELSE Go("repaired") /\ UNCHANGED job
    /\ UNCHANGED <<api, store, worker, coordinator, phase, boot, length, history>>

FinishRepair ==
    /\ pc = "repaired"
    /\ \E outcome \in RouterOutcomes :
         /\ FinishDrain(job.spec.address, outcome)
         /\ IF outcome \in Failures THEN Done ELSE Serve(HasHealthy)
    /\ UNCHANGED <<api, dataplane, store, worker, phase, boot, orphans>>

ServeRoute ==
    /\ pc = "serve"
    /\ \E outcome \in RouterOutcomes :
         /\ SetServing(job.spec.address, job.serve, outcome)
         /\ IF outcome \notin Failures /\ job.held
            THEN Go("finish") /\ UNCHANGED job
            ELSE Done
    /\ UNCHANGED <<api, dataplane, store, worker, phase, boot, orphans>>

FinishPass ==
    /\ pc = "finish"
    /\ \E outcome \in RouterOutcomes : FinishDrain(job.spec.address, outcome)
    /\ Done
    /\ UNCHANGED <<api, dataplane, store, worker, phase, boot, orphans>>

-----------------------------------------------------------------------------
(* handleDelete, repeated until it succeeds.                               *)

DeleteRoute ==
    LET a == IF tracked # None THEN tracked ELSE current.address IN
    /\ phase = "up" /\ pc = "idle" /\ deleting
    /\ \E outcome \in RouterOutcomes :
         /\ RemoveFromAddress(a, outcome)
         /\ Go(IF outcome \in Failures THEN "idle" ELSE "remove")
    /\ UNCHANGED <<api, dataplane, store, worker, phase, boot, job, orphans>>

DeleteVIP ==
    /\ pc = "remove"
    /\ \E o \in Answers : Answered(o) /\ \E w \in {RemoveVIP(World, current, o)} :
         Become(w) /\ Go(IF w.err THEN "idle" ELSE "forget")
    /\ orphans' = orphans \cup Unfinished(IF cache = None THEN current ELSE cache.spec)
    /\ UNCHANGED <<api, store, worker, coordinator, phase, boot, length, job, excused>>

\* Mutant: the goroutine that cleaned up does not clear its request.
MutantDeleteConfigs ==
    /\ pc = "forget"
    /\ last' = None /\ pending' = None
    /\ current' = None /\ applied' = None
    /\ Done
    /\ UNCHANGED <<api, faults, dataplane, coordinator, phase, boot, deleting,
                   history>>

\* A configuration that cannot be deleted is left; the goroutine ends.
DeleteConfigs ==
    /\ pc = "forget"
    /\ last' \in {None, last}
    /\ pending' \in {None, pending}
    /\ IF last' = None /\ pending' = None THEN UNCHANGED faults ELSE Fault
    /\ current' = None /\ applied' = None /\ deleting' = FALSE
    /\ Done
    /\ UNCHANGED <<api, dataplane, coordinator, phase, boot, history>>

-----------------------------------------------------------------------------
(* The start of the agent: StartWithInitialSync and                        *)
(* cleanupStaleLastConfigs, before any event is delivered.                 *)

Retained(source) == IF source = "last" THEN last ELSE pending

Start ==
    /\ phase = "down"
    /\ phase' = "boot"
    /\ length' \in Lengths
    /\ IF length' = length THEN UNCHANGED faults ELSE Fault
    /\ boot' = [NoBoot EXCEPT !.listed = desired,
                !.todo = {x \in {"last", "pending"} : Retained(x) # None}]
    /\ UNCHANGED <<api, vpp, cache, drift, store, worker, coordinator, pc, job,
                   history>>

\* sameRetainedVIPIdentity; an invalid object keeps what is there.
Stale(s) == boot.listed # Invalid /\ boot.listed # s

\* The clean-up of one configuration ends; the next one follows.
Finished(failed) ==
    /\ boot' = [boot EXCEPT !.todo = @ \ {boot.source}, !.failed = @ \/ failed]
    /\ Go("idle")

\* Go through the configurations in any order.
Examine(source) ==
    /\ phase = "boot" /\ pc = "idle"
    /\ source \in boot.todo
    /\ IF Stale(Retained(source))
       THEN Go("stale") /\ boot' = [boot EXCEPT !.source = source]
       ELSE UNCHANGED pc /\ boot' = [boot EXCEPT !.todo = @ \ {source}]
    /\ UNCHANGED <<api, faults, dataplane, store, worker, coordinator, phase, job,
                   history>>

\* cleanupRetainedVIP: the route, unless the listed object has the address.  The
\* rollout Lease may not be had.
CleanRoute ==
    LET s == Retained(boot.source)
        inUse == boot.listed # None /\ boot.listed.address = s.address
    IN
    /\ pc = "stale"
    /\ \/ /\ inUse
          /\ Go("unrouted")
          /\ UNCHANGED <<route, excused, boot, faults>>
       \/ /\ ~inUse
          /\ \E outcome \in RouterOutcomes :
               /\ Install(s.address, "up", FALSE, outcome)
               /\ IF outcome \in Failures THEN Finished(TRUE)
                  ELSE Go("unrouted") /\ UNCHANGED boot
       \/ Fault /\ Finished(TRUE) /\ UNCHANGED <<route, excused>>
    /\ UNCHANGED <<api, dataplane, store, worker, tracked, serving, draining, record,
                   phase, job, orphans>>

CleanVIP ==
    /\ pc = "unrouted"
    /\ \E o \in Answers : Answered(o) /\ \E w \in {RemoveVIP(World, Retained(boot.source), o)} :
         /\ Become(w)
         /\ IF w.err THEN Finished(TRUE) ELSE Go("cleaned") /\ UNCHANGED boot
    /\ UNCHANGED <<api, store, worker, coordinator, phase, length, job, history>>

\* The configuration and, when the object is gone, the health records, which may
\* fail after it.
CleanConfig ==
    LET forget == IF boot.source = "last"
                  THEN last' = None /\ UNCHANGED pending
                  ELSE pending' = None /\ UNCHANGED last
    IN
    /\ pc = "cleaned"
    /\ \/ forget /\ Finished(FALSE) /\ UNCHANGED faults
       \/ Fault /\ Finished(TRUE) /\ UNCHANGED store
       \/ boot.listed = None /\ forget /\ Fault /\ Finished(TRUE)
    /\ UNCHANGED <<api, dataplane, worker, coordinator, phase, job, history>>

\* A failed clean-up ends the process.
FinishBoot ==
    /\ phase = "boot" /\ pc = "idle" /\ boot.todo = {}
    /\ phase' = IF boot.failed THEN "down" ELSE "up"
    /\ boot' = NoBoot
    /\ UNCHANGED <<api, faults, dataplane, store, worker, coordinator, pc, job,
                   history>>

-----------------------------------------------------------------------------
(* The events the watcher delivers, and the environment.                   *)

\* The manager's OnVIPUpdate: the handler ignores an invalid object, and the
\* manager keeps a recreated one until the clean-up is done.
OnVIPUpdate ==
    /\ phase = "up" /\ ~deleting
    /\ desired \in Specs
    /\ current # desired
    /\ current' = desired
    /\ UNCHANGED <<api, faults, dataplane, store, coordinator, phase, boot, applied,
                   deleting, pc, job, history>>

OnVIPDelete ==
    /\ phase = "up" /\ ~deleting
    /\ desired = None
    /\ current # None
    /\ deleting' = TRUE
    /\ UNCHANGED <<api, faults, dataplane, store, coordinator, phase, boot, current,
                   applied, pc, job, history>>

\* The object changes, whatever the agent is doing.
ChangeObject ==
    /\ Fault
    /\ desired' \in (Specs \cup {None, Invalid}) \ {desired}
    /\ UNCHANGED <<healthy, dataplane, store, worker, coordinator, phase, boot,
                   pc, job, history>>

ChangeHealth ==
    /\ Fault
    /\ healthy' \in (SUBSET Backends) \ {healthy}
    /\ UNCHANGED <<desired, dataplane, store, worker, coordinator, phase, boot,
                   pc, job, history>>

\* VPP loses the VIP, or some of its backends, without the agent.
LoseVIP ==
    /\ Fault
    /\ \E t \in Tuples :
         /\ vpp[t] # None
         /\ \/ vpp' = [vpp EXCEPT ![t] = None]
            \/ vpp[t].backends # {} /\ vpp' = [vpp EXCEPT ![t].backends = {}]
    /\ excused' = excused \cup {"vpp"}
    /\ UNCHANGED <<api, cache, drift, length, store, worker, coordinator, phase, boot,
                   pc, job, orphans>>

\* The process dies: VPP, FRR and the store keep what they have.
Crash ==
    /\ Fault
    /\ phase # "down"
    /\ phase' = "down" /\ boot' = NoBoot
    /\ cache' = None /\ drift' = FALSE
    /\ current' = None /\ applied' = None /\ deleting' = FALSE
    /\ tracked' = None /\ serving' = FALSE /\ draining' = FALSE /\ record' = "none"
    /\ Done
    /\ excused' = excused \ {"entry"}
    /\ UNCHANGED <<api, vpp, length, store, route, orphans>>

\* state_verification_interval passes.
VerificationDue ==
    /\ cache # None
    /\ ~cache.due
    /\ cache' = [cache EXCEPT !.due = TRUE]
    /\ UNCHANGED <<api, faults, vpp, drift, length, store, worker, coordinator, phase,
                   boot, pc, job, history>>

-----------------------------------------------------------------------------

Pass ==
    \/ Begin
    \/ Admit
    \/ persistPendingConfig
    \/ prepareAddressChange
    \/ DrainAddress
    \/ Apply
    \/ commitLastConfig
    \/ BeginRepair
    \/ Recreate
    \/ FinishRepair
    \/ ServeRoute
    \/ FinishPass

Delete == DeleteRoute \/ DeleteVIP \/ DeleteConfigs

Boot ==
    \/ Start
    \/ \E source \in {"last", "pending"} : Examine(source)
    \/ CleanRoute
    \/ CleanVIP
    \/ CleanConfig
    \/ FinishBoot

Environment ==
    \/ ChangeObject
    \/ ChangeHealth
    \/ LoseVIP
    \/ Crash

Event == OnVIPUpdate \/ OnVIPDelete

Next ==
    \/ Pass \/ Delete \/ Boot
    \/ Event
    \/ VerificationDue
    \/ Environment

Spec == Init /\ [][Next]_vars

(* Fairness: the goroutine runs and its ticker fires, an agent that exited *)
(* is started again, watch events arrive and time passes.                  *)
Fairness ==
    /\ WF_vars(Pass \/ Delete \/ Boot)
    /\ WF_vars(Event)
    /\ WF_vars(VerificationDue)

FairSpec == Spec /\ Fairness

-----------------------------------------------------------------------------

Passes ==
    [spec : Specs \cup {None}, healthy : SUBSET Backends, drain : BOOLEAN,
     held : BOOLEAN, serve : BOOLEAN]

(* Types: a deletion has an object to delete, and a VIP the route          *)
(* coordinator does not track has neither a vote nor a drain.              *)
TypeOK ==
    /\ desired \in Specs \cup {None, Invalid}
    /\ healthy \in SUBSET Backends
    /\ faults \in 0..MaxFaults
    /\ phase \in {"down", "boot", "up"}
    /\ {last, pending, current, applied} \subseteq Specs \cup {None}
    /\ job \in Passes
    /\ cache # None => cache.spec \in Specs /\ cache.backends \in SUBSET Backends
    /\ \A t \in Tuples : vpp[t] # None => vpp[t].backends \in SUBSET Backends
    /\ route \subseteq {s.address : s \in Specs}
    /\ record \in {"none", "new", "up", "down"}
    /\ {deleting, drift, serving, draining} \subseteq BOOLEAN
    /\ deleting => current # None
    /\ tracked = None => record = "none" /\ ~draining
    /\ orphans \subseteq Tuples

(* Every VIP in VPP belongs to a configuration in the store, so that an    *)
(* agent that restarts with another object removes it:                     *)
(* persistPendingConfig comes before the change, and commitLastConfig      *)
(* after it.  The exception is a VIP that an update or a deletion came to  *)
(* before the agent had both committed and entered it: its record is       *)
(* overwritten, and ApplyVIP and RemoveVIP do not know of it.              *)
Accounted ==
    \A t \in Tuples \ orphans :
        vpp[t] # None => \E s \in {last, pending} \ {None} : Tuple(s) = t

(* An address that the agent serves is not announced without a VIP behind  *)
(* it: a disruptive update drains first (planVIPUpdate), and a failed one  *)
(* withdraws.  The exceptions last until the next applied VIP: a route     *)
(* that the router failed to change, a VIP that VPP lost, and a pass that  *)
(* does not look at VPP (a move) and trusts the entry of a VIP whose       *)
(* deletion VPP executed without the answer coming back.                   *)
NoEmptyRoute ==
    \/ excused # {}
    \/ \A a \in route :
         tracked = a => \E t \in Tuples : t[1] = a /\ vpp[t] # None

Programmed(s) ==
    /\ vpp[Tuple(s)] # None
    /\ \A t \in Tuples \ orphans : vpp[t] # None => t = Tuple(s)
    /\ vpp[Tuple(s)].encap = s.encap
    /\ Preserve \/ vpp[Tuple(s)].length = length
    /\ vpp[Tuple(s)].backends = healthy

\* RemoveVIP does not look before it deletes the VIP of its entry.
RemovalStuck == deleting /\ cache # None /\ vpp[Tuple(cache.spec)] = None

(* Whatever fails, crashes or changes, the object is in the end programmed *)
(* with its healthy backends and nothing else is but the orphans of        *)
(* Accounted, its address is announced if a backend is healthy, and it is  *)
(* the committed configuration.  The exception is an object recreated      *)
(* while the deletion of the earlier one can no longer succeed: VPP does   *)
(* not have the VIP of the entry and refuses every handleDelete.           *)
ObjectProgrammed ==
    <>[](desired \in Specs
           => \/ /\ Programmed(desired)
                 /\ healthy # {} => desired.address \in route
                 /\ last = desired /\ pending \in {None, desired}
              \/ RemovalStuck)

(* Once the agent has applied and committed an object, nothing of an       *)
(* earlier one is left in VPP but the orphans of Accounted.                *)
PreviousRemoved ==
    phase = "up" /\ pc = "idle" /\ pending = None /\ applied # None
        => \A t \in Tuples \ orphans : vpp[t] # None => t = Tuple(applied)
==============================================================================
