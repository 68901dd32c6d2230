--------------------------- MODULE VirtualIPStatus ---------------------------
(***************************************************************************)
(* One VirtualIP at the Kubernetes API server and those that write to it:  *)
(* its user, the agents, which report with UpdateVIPStatus and             *)
(* UpdateHealthCheckCondition, and the operator's VirtualIPReconciler.     *)
(*                                                                         *)
(* Every writer reads the object, works on its copy and writes it back;    *)
(* the API server refuses a write of a copy that is not the stored object  *)
(* any more (resourceVersion).  A goroutine of an agent that makes such a  *)
(* call works with a version of the object that may be out of date.        *)
(***************************************************************************)
EXTENDS AgentStatus

CONSTANTS
    Callers,      \* goroutines of agents that call the status updater
    AgentOf,
    Specs,
    Outcomes,     \* what a reconcile pass can report
    MaxVersions,  \* bound on creations and edits of the object
    MaxCalls      \* bound on the status calls of the agents

Operator == "operator"
User == "user"

\* A spec's data plane part and its health check are valid or not.
ASSUME SpecsAssumption ==
    Specs \subseteq [backends : SUBSET Backends, core : BOOLEAN, check : BOOLEAN]
ASSUME CallersAssumption == AgentOf \in [Callers -> Agents] /\ {Operator, User} \cap Callers = {}
ASSUME BoundsAssumption == MaxVersions \in Nat /\ MaxCalls \in Nat

\* The conditions that reconcileApplied reports: a store that fails, a route or a
\* drain that fails, a failed or retained change of the data plane, a repair that
\* has to wait, and a pass that got to its end.
ReportedOutcomes(healthy) ==
    LET outcome(serving, dataPlane, routes) ==
            [healthy : {healthy}, serving : {serving}, dataPlane : {dataPlane}, route : routes]
        served == IF healthy # {} THEN "True" ELSE "False"
    IN  UNION {outcome("Unknown", None, States), outcome(served, None, {"Unknown"}),
               outcome("Unknown", "False", States), outcome(served, "False", States),
               outcome(served, "True", States)}

ASSUME OutcomesAssumption ==
    \A o \in Outcomes : o.healthy \in SUBSET Backends /\ o \in ReportedOutcomes(o.healthy)

Objects ==
    [uid : Nat, gen : Nat, spec : Specs, deleting : BOOLEAN, finalizer : BOOLEAN,
     status : Status]

\* A version of the object, as a watcher delivers it
Versions == [uid : Nat, gen : Nat, spec : Specs]
Requests ==
    [version : Versions, outcome : Outcomes, check : {None}]
    \cup [version : Versions, outcome : {None}, check : {"True", "False"}]

ASSUME ObjectAssumption == None \notin Objects \cup Outcomes \cup Requests

VARIABLES
    object,    \* the stored object, or None
    created,   \* the objects created so far
    versions,  \* the versions of objects so far: what agents may know
    called,    \* status calls so far
    call,      \* an agent's call: its request and the status it is about to write
    operator,  \* the operator's reconcile: its step and what it is about to write
    queued,    \* the object is in the operator's work queue
    timer      \* ... or will be, after RequeueAfter

vars == <<object, created, versions, called, call, operator, queued, timer>>

-----------------------------------------------------------------------------

NoCall == [request |-> None, status |-> None]
Idle == [step |-> "idle", status |-> None]

Version(o) == [uid |-> o.uid, gen |-> o.gen, spec |-> o.spec]

Init ==
    /\ object = None
    /\ created = 0
    /\ versions = {}
    /\ called = 0
    /\ call = [c \in Callers |-> NoCall]
    /\ operator = Idle
    /\ queued = FALSE
    /\ timer = FALSE

\* What becomes of a copy of the object when the API server stores another one.
OutOfDate(status) == None

\* The API server stores what a writer sent it; the event gets to the operator's
\* queue.
Store(writer, new) ==
    /\ object' = new
    /\ call' = [c \in Callers |-> IF c = writer THEN NoCall
                               ELSE [call[c] EXCEPT !.status = OutOfDate(@)]]
    /\ operator' = IF writer = Operator THEN Idle
                   ELSE [operator EXCEPT !.status = OutOfDate(@)]
    /\ queued' = TRUE

-----------------------------------------------------------------------------
(* The user, through the API server                                        *)

Create(spec) ==
    /\ object = None
    /\ Cardinality(versions) < MaxVersions
    /\ created' = created + 1
    /\ Store(User, [uid |-> created', gen |-> 1, spec |-> spec, deleting |-> FALSE,
              finalizer |-> FALSE, status |-> EmptyStatus])
    /\ versions' = versions \cup {Version(object')}
    /\ UNCHANGED <<called, timer>>

Edit(spec) ==
    /\ object # None
    /\ Cardinality(versions) < MaxVersions
    /\ spec # object.spec
    /\ Store(User, [object EXCEPT !.gen = @ + 1, !.spec = spec])
    /\ versions' = versions \cup {Version(object')}
    /\ UNCHANGED <<created, called, timer>>

\* With a finalizer the object stays, in another generation, until that is gone.
Delete ==
    /\ object # None
    /\ ~object.deleting
    /\ Store(User, IF object.finalizer
                   THEN [object EXCEPT !.deleting = TRUE, !.gen = @ + 1] ELSE None)
    /\ UNCHANGED <<created, versions, called, timer>>

-----------------------------------------------------------------------------
(* The agents' Updater                                                     *)

\* Mutant: an object that was created again is taken for the one it replaced.
MutantIsCurrent(v) == object # None /\ object.gen = v.gen /\ ~object.deleting

IsCurrent(v) ==
    object # None /\ object.uid = v.uid /\ object.gen = v.gen /\ ~object.deleting

\* The report of UpdateVIPStatus; only configured backends count.
ReportOf(r) ==
    [gen |-> r.version.gen, healthy |-> r.outcome.healthy \cap r.version.spec.backends,
     serving |-> r.outcome.serving, route |-> r.outcome.route,
     dataPlane |-> r.outcome.dataPlane, age |-> 0]

WithReport(status, agent, r) ==
    LET gen == r.version.gen
    IN  RefreshAggregateStatus(
            [status EXCEPT !.reports = upsertAgentStatus(@, agent, ReportOf(r), gen)],
            object, gen)

WithCheck(status, r) ==
    LET checked == [status EXCEPT !.check = Condition(r.check, r.version.gen)]
    IN  IF r.check = "False"
        THEN RefreshAggregateStatus(checked, object, r.version.gen)
        ELSE checked

NewStatus(c, r) ==
    SanitizeVirtualIPStatus(
        IF r.outcome # None THEN WithReport(object.status, AgentOf[c], r)
        ELSE WithCheck(object.status, r))

\* One attempt of RetryOnConflict, up to its write.
Attempt(c, r) ==
    /\ call' = [call EXCEPT ![c] =
                   IF IsCurrent(r.version) THEN [request |-> r, status |-> NewStatus(c, r)]
                   ELSE NoCall]
    /\ UNCHANGED <<object, created, versions, operator, queued, timer>>

\* UpdateVIPStatus and UpdateHealthCheckCondition.  An agent ignores a spec that the
\* data plane cannot take, and does not accept an invalid health check.
UpdateStatus(c, r) ==
    /\ call[c] = NoCall
    /\ r.version \in versions
    /\ r.version.spec.core
    /\ r.check = "True" => r.version.spec.check
    /\ called < MaxCalls
    /\ called' = called + 1
    /\ Attempt(c, r)

WriteStatus(c) ==
    /\ call[c].status # None
    /\ object # None
    /\ Store(c, [object EXCEPT !.status = call[c].status])
    /\ UNCHANGED <<created, versions, called, timer>>

\* The write is refused with a conflict.
Retry(c) ==
    /\ call[c] # NoCall
    /\ call[c].status = None
    /\ object # None
    /\ Attempt(c, call[c].request)
    /\ UNCHANGED called

\* A request fails, the object is gone, or the retries are used up.
GiveUp(c) ==
    /\ call[c] # NoCall
    /\ call' = [call EXCEPT ![c] = NoCall]
    /\ UNCHANGED <<object, created, versions, called, operator, queued, timer>>

-----------------------------------------------------------------------------
(* VirtualIPReconciler                                                     *)

\* Mutant: the operator advances the observed generation and carries the rest forward.
MutantRefreshedStatus(o) ==
    IF o.status.observed = o.gen
    THEN RefreshAggregateStatus(o.status, o, o.gen)
    ELSE [o.status EXCEPT !.observed = o.gen, !.total = Cardinality(o.spec.backends)]

\* updateStatus: the reports are aggregated again if they are about this generation.
RefreshedStatus(o) ==
    IF o.status.observed = o.gen
    THEN RefreshAggregateStatus(o.status, o, o.gen)
    ELSE [o.status EXCEPT !.total = Cardinality(o.spec.backends)]

UpdatedStatus(o, refreshed) ==
    LET configured == o.spec.core /\ o.spec.check /\ o.spec.backends # {}
    IN  [SanitizeVirtualIPStatus(refreshed) EXCEPT
            !.ready = Condition(IF configured THEN "True" ELSE "False", o.gen)]

\* Mutant: reports are looked at again only when the object changes.
MutantshouldRequeueAgentStatusPrune(o) == FALSE

shouldRequeueAgentStatusPrune(o) ==
    o.status.observed = o.gen /\ Reporting(o.status.reports) # {}

\* Mutant: an object that has its finalizer is not looked at for its deletion.
MutantReconcileStep(o) == IF ~o.finalizer THEN "add finalizer" ELSE "status"

ReconcileStep(o) ==
    IF o.deleting THEN "remove finalizer"
    ELSE IF ~o.finalizer THEN "add finalizer" ELSE "status"

\* Reconcile, up to its write.  A read of the cache that is behind is a read that was
\* made earlier: the event that is still to come queues the object again.
Reconcile ==
    /\ operator = Idle
    /\ queued
    /\ queued' = FALSE
    /\ \/ object = None /\ UNCHANGED <<operator, timer>>
       \/ /\ object # None
          /\ \E refreshed \in {RefreshedStatus(object)} :
             \E status \in {UpdatedStatus(object, refreshed)} :
                LET step == ReconcileStep(object)
                IN  \/ /\ step = "status" /\ status = object.status
                       /\ timer' = (timer \/ shouldRequeueAgentStatusPrune(object))
                       /\ UNCHANGED operator
                    \/ /\ step = "status" => status # object.status
                       /\ operator' = [step |-> step, status |-> IF step = "status" THEN status
                                                                 ELSE EmptyStatus]
                       /\ UNCHANGED timer
    /\ UNCHANGED <<object, created, versions, called, call>>

\* The write of a reconcile; an object that loses its last finalizer is gone.
OperatorWrites ==
    /\ operator.status # None
    /\ object # None
    /\ Store(Operator,
          CASE operator.step = "remove finalizer" -> None
            [] operator.step = "add finalizer" -> [object EXCEPT !.finalizer = TRUE]
            [] operator.step = "status" -> [object EXCEPT !.status = operator.status])
    /\ timer' = (timer \/ (operator.step = "status" /\ shouldRequeueAgentStatusPrune(object')))
    /\ UNCHANGED <<created, versions, called>>

\* The write is refused: the object goes back to the queue.
OperatorRefused ==
    /\ operator # Idle
    /\ operator.status = None
    /\ operator' = Idle
    /\ queued' = TRUE
    /\ UNCHANGED <<object, created, versions, called, call, timer>>

RequeueAfter ==
    /\ timer
    /\ timer' = FALSE
    /\ queued' = TRUE
    /\ UNCHANGED <<object, created, versions, called, call, operator>>

\* A request of the operator fails, or it restarts, and then lists the objects.
OperatorFails(restart) ==
    /\ operator # Idle \/ restart
    /\ operator' = Idle
    /\ queued' = TRUE
    /\ timer' = (timer /\ ~restart)
    /\ UNCHANGED <<object, created, versions, called, call>>

-----------------------------------------------------------------------------

Tick ==
    /\ object' = IF object = None THEN None ELSE [object EXCEPT !.status = Older(@)]
    /\ call' = [c \in Callers |-> [call[c] EXCEPT !.status = Older(@)]]
    /\ operator' = [operator EXCEPT !.status = Older(@)]
    /\ UNCHANGED <<created, versions, called, queued, timer>>

-----------------------------------------------------------------------------

Agent ==
    \/ \E c \in Callers, v \in versions :
          \/ \E o \in Outcomes :
                UpdateStatus(c, [version |-> v, outcome |-> o, check |-> None])
          \/ \E check \in {"True", "False"} :
                UpdateStatus(c, [version |-> v, outcome |-> None, check |-> check])
    \/ \E c \in Callers : WriteStatus(c) \/ Retry(c) \/ GiveUp(c)

UserWrites == (\E spec \in Specs : Create(spec) \/ Edit(spec)) \/ Delete

Next ==
    \/ UserWrites \/ Agent
    \/ Reconcile \/ OperatorWrites \/ OperatorRefused \/ RequeueAfter
    \/ \E restart \in BOOLEAN : OperatorFails(restart)
    \/ Tick

Spec == Init /\ [][Next]_vars

\* The work queue hands out what is in it and timers fire; a reconcile that conflicts
\* is repeated until it does not; time goes on.  Nothing is assumed of the agents.
Fairness ==
    /\ WF_vars(Reconcile \/ OperatorRefused \/ RequeueAfter)
    /\ SF_vars(OperatorWrites)
    /\ WF_vars(Tick)

FairSpec == Spec /\ Fairness

-----------------------------------------------------------------------------

(* Types: what is stored, and what the writers are about to store.         *)
TypeOK ==
    /\ object \in Objects \cup {None}
    /\ created \in Nat
    /\ called \in Nat
    /\ versions \subseteq Versions
    /\ call \in [Callers -> [request : Requests \cup {None}, status : Status \cup {None}]]
    /\ operator \in [step : {"idle", "add finalizer", "remove finalizer", "status"},
                     status : Status \cup {None}]
    /\ queued \in BOOLEAN
    /\ timer \in BOOLEAN

(* What a status says of a generation is about that generation: its        *)
(* reports and its health are about the backends of the object, and its    *)
(* conditions are those of an observed generation, although agents report  *)
(* on versions that are out of date and the operator carries on what       *)
(* agents wrote.                                                           *)
AboutItsGeneration ==
    object # None =>
        /\ \A a \in Reporting(object.status.reports) :
              object.status.reports[a].gen = object.gen =>
                  object.status.reports[a].healthy \subseteq object.spec.backends
        /\ object.status.observed = object.gen =>
              object.status.healthy \subseteq object.spec.backends
        /\ object.status.serving # None /\ object.status.serving.gen = object.gen =>
              object.status.observed = object.gen

Green ==
    /\ object # None
    /\ object.status.observed = object.gen
    /\ object.status.serving = [state |-> "True", gen |-> object.gen]

(* The aggregate is backed: a VirtualIP is serving, and its backends are   *)
(* healthy, only if a report that is still there says so.                  *)
Backed ==
    object # None /\ object.status.observed = object.gen /\ Cardinality(Agents) <= MaxReports =>
        LET reports == object.status.reports
        IN  /\ Green =>
                  \E a \in Reporting(reports) :
                      reports[a].gen = object.gen /\ reports[a].serving = "True"
            /\ \A b \in object.status.healthy :
                  \E a \in Reporting(reports) :
                      reports[a].gen = object.gen /\ b \in reports[a].healthy

(* No writer loses what another one wrote: a report on the object's        *)
(* generation stays until its agent replaces it, it is older than the      *)
(* retention, or there are too many.                                       *)
Writes(a) == \E c \in Callers : AgentOf[c] = a /\ WriteStatus(c)
KeepsReports ==
    \A a \in Agents :
        LET old == object.status.reports[a]
            new == object'.status.reports[a]
        IN  /\ object # None /\ object' # None
            /\ object'.uid = object.uid /\ object'.gen = object.gen
            /\ old # None
            /\ old.gen = object.gen /\ old.age <= Retention
            /\ Cardinality(Agents) <= MaxReports
            => \/ new = old \/ new = OlderReport(old) \/ Writes(a)

ReportsKept == [][KeepsReports]_vars

Quiet == \A c \in Callers : call[c] = NoCall

(* Agents that report no more do not keep a VirtualIP green for ever       *)
(* ("stale observations cannot keep aggregate health green for an          *)
(* unbounded amount of time"): the operator looks again while there are    *)
(* reports.                                                                *)
GreenEnds == Green /\ Quiet ~> ~(Green /\ Quiet)

(* A deleted object goes, although agents and the operator conflict while  *)
(* its finalizer is added and removed.                                     *)
Goes == object # None /\ object.deleting ~> object = None
=============================================================================
