--------------------------- MODULE OctaviaDriver ---------------------------
(* The Octavia provider driver: every call of the Octavia API for one load *)
(* balancer is turned into reads and patches of VirtualIP custom resources *)
(* (one per listener, CRs below) and into status updates that Octavia is   *)
(* waiting for.  A CR is patched against the version that was read, and    *)
(* re-read on a conflict; the pool it stands for is an annotation of it.   *)
(* Octavia itself is external: it commits a request to its records, marks  *)
(* the objects PENDING, calls the driver, and starts no other call until   *)
(* the load balancer has left PENDING.  The status watcher pushes statuses *)
(* of its own, so a second call may start while the first still runs.      *)
EXTENDS Naturals, FiniteSets, FiniteSetsExt, TLC

CONSTANTS
    LB,           \* the load balancer
    Listeners,    \* numbered: Kubernetes lists CRs in the order of names
    Pools, Members, Monitors,
    PoolOf,       \* Members -> Pools
    MonitorOf,    \* Pools -> Monitors
    ProbePort,    \* Members -> the monitor port or the protocol port
    VIPPort,      \* the port of every listener
    Drainable,    \* members whose weight may be 0
    Unfit,        \* <<member, draining>>: refused by the member validations
    Workers,      \* threads in which Octavia calls the driver, numbered
    Initial,      \* Octavia's records at the start, see Start
    MaxAttempts,  \* K8S_UPDATE_MAX_ATTEMPTS
    MaxCalls,     \* bound: calls of the driver
    MaxFaults,    \* bound: failing requests to Kubernetes and to Octavia
    None, Keep,   \* no object; a field that the request does not carry
    Skip, Reject  \* a mutation that is given up, or that raises

ASSUME DriverAssumption ==
    /\ Listeners \subseteq Nat /\ Workers \subseteq Nat
    /\ PoolOf \in [Members -> Pools]
    /\ MonitorOf \in [Pools -> Monitors]
    /\ ProbePort \in [Members -> Nat] /\ VIPPort \in Nat
    /\ Unfit \subseteq Members \X BOOLEAN
    /\ MaxAttempts \in Nat \ {0, 1}

VARIABLES
    cr,         \* the cluster: Listeners -> None, or the listener's CR
    db,         \* Octavia's records: the fields a request can set
    prov,       \* and whether an object exists, and is PENDING
    calls,      \* Workers -> Idle, or a running call
    issued, faults,
    overlapped, \* history: two calls have run at the same time
    partial     \* history: a call has raised after it had changed a CR

vars == <<cr, db, prov, calls, issued, faults, overlapped, partial>>

Objects == {LB} \cup Listeners \cup Pools \cup Members \cup Monitors

\* lb and up: the two admin state annotations are not "false".
CRs == [lb : BOOLEAN, up : BOOLEAN, pool : Pools \cup {None}, hm : Monitors \cup {None},
        members : SUBSET Members, draining : SUBSET Members, backends : SUBSET Members,
        check : Nat \cup {None}]

Records == [lb : BOOLEAN, up : [Listeners -> BOOLEAN],
            pool : [Listeners -> Pools \cup {None}], draining : SUBSET Members]

\* "none": no such object; "settled": ACTIVE or ERROR.
Provisioning == {"none", "pending", "settled"}

Idle == [pc |-> "idle"]

Running(w) == calls[w] # Idle

-----------------------------------------------------------------------------
(* What the driver reads from Octavia.                                     *)

Exists(o) == prov[o] # "none"

\* _pool_members: members whose deletion is not yet reported are among them.
PoolMembers(p) == {m \in Members : PoolOf[m] = p /\ Exists(m)}

Attached(p) == {l \in Listeners : Exists(l) /\ db.pool[l] = p}

\* _deferred_pool_context: a pool that no listener uses.
Deferred(p) == Exists(p) /\ Attached(p) = {}

\* _pool_from_octavia with _resolved_pool_members and _pool_health_monitor.
PoolRecord(p) ==
    [members  |-> PoolMembers(p),
     draining |-> PoolMembers(p) \cap db.draining,
     hm       |-> IF Exists(p) THEN Exists(MonitorOf[p]) ELSE None]

\* _resolve_health_check_port: the one port of the members that are probed.
ResolvePort(probed) ==
    LET ports == {ProbePort[m] : m \in probed}
    IN  IF Cardinality(ports) > 1 THEN Reject
        ELSE IF ports = {} THEN VIPPort
        ELSE CHOOSE port \in ports : TRUE

\* _member_probe_ports of a pool read now.
Probed(p) == PoolMembers(p) \ db.draining

-----------------------------------------------------------------------------
(* The mutations: the CR that a call wants, given the one it has read.     *)

\* Mutant: the load balancer's admin state is forgotten.
MutantBackendsForAdminState(v, backends) == IF v.up THEN backends ELSE {}

BackendsForAdminState(v, backends) == IF v.lb /\ v.up THEN backends ELSE {}

\* _refresh_health_check_port.
Refreshed(v, probed) ==
    LET port == ResolvePort(probed)
    IN  IF v.check = None THEN v
        ELSE IF port = Reject THEN Reject
        ELSE [v EXCEPT !.check = port]

ClearPoolAssociation(v) ==
    [v EXCEPT !.pool = None, !.hm = None, !.members = {}, !.draining = {},
              !.backends = {}, !.check = None]

\* Mutant: members on several ports are not refused.
MutantWithHealthCheck(v, p) == [v EXCEPT !.check = ResolvePort(Probed(p)), !.hm = MonitorOf[p]]

\* _build_health_check for a monitor of pool p.
WithHealthCheck(v, p) ==
    LET port == ResolvePort(Probed(p))
    IN  IF port = Reject THEN Reject
        ELSE [v EXCEPT !.check = port, !.hm = MonitorOf[p]]

Fits(members, draining) == \A m \in members : <<m, m \in draining>> \notin Unfit

\* listener_update and loadbalancer_update, what a restore prepares and what
\* they do when there is nothing to restore.
Prepared(v, r) ==
    IF r.op = "loadbalancer_update" THEN [v EXCEPT !.lb = r.up]
    ELSE [v EXCEPT !.pool = IF r.pool \in Pools THEN r.pool ELSE @,
                   !.up = IF r.up = Keep THEN @ ELSE r.up]

PlainUpdate(v, c) ==
    LET w == Prepared(IF c.detach # None THEN ClearPoolAssociation(v) ELSE v, c.req)
    IN  IF c.req.up = FALSE THEN [w EXCEPT !.backends = {}] ELSE w

\* _restore_virtualip_backends: the members and the monitor of the pool, as
\* they were read before the first attempt.
RestoreBackends(v, c) ==
    LET w == IF c.req.op = "listener_create" THEN v ELSE Prepared(v, c.req)
        seen == c.seen
        served == seen.members \ seen.draining
        restored == [w EXCEPT !.members = seen.members, !.draining = seen.draining,
                              !.backends = BackendsForAdminState(w, served)]
    IN  IF w.pool # c.restore THEN Skip
        ELSE IF ~Fits(seen.members, seen.draining) THEN Reject
        ELSE IF seen.hm = None THEN Refreshed(restored, Probed(c.restore) \cup served)
        ELSE IF seen.hm THEN WithHealthCheck(restored, c.restore)
        ELSE [restored EXCEPT !.check = None, !.hm = None]

\* _ensure_virtualip_pool: the CR still stands for the pool.
ForPool(v, p, w) == IF v.pool = p THEN w ELSE Skip

\* _associate_pool_with_virtualip.
AssociatePool(v, p) == IF v.pool \in {None, p} THEN [v EXCEPT !.pool = p] ELSE Skip

\* _create_or_update_listener_virtualip when the CR is there already.
AdoptExisting(v, r) ==
    [v EXCEPT !.up = r.up,
              !.pool = IF r.pool # None /\ @ = None THEN r.pool ELSE @]

\* _remember_member_mapping and _set_member_draining_state.
Remember(v, r) ==
    [v EXCEPT !.members = @ \cup r.members, !.draining = (@ \ r.members) \cup r.draining]

\* _member_delete_status_ids, _forget_member_mapping and
\* _discard_draining_member_ids, with the backend of the member.
Forget(v, members) ==
    [v EXCEPT !.members = @ \ members, !.draining = @ \ members, !.backends = @ \ members]

\* _backends_with_member_state with the annotations that go with it; the
\* member is passed along, in case the pool that is read does not list it.
WithMember(v, r) ==
    LET served == r.members \ r.draining
        backends == (v.backends \ r.members) \cup served
    IN  IF ~Fits(r.members, r.draining) THEN Reject
        ELSE Refreshed([Remember(v, r) EXCEPT !.backends = BackendsForAdminState(v, backends)],
                       Probed(r.pool) \cup served)

-----------------------------------------------------------------------------
(* The operations of the driver.  Given a call and the CR it has found, or *)
(* None, each says what to make of the CR and which statuses to push, as   *)
(* ACTIVE (or ERROR, if it raises) and as DELETED.                         *)

\* Mutant: a status update that reports deletions leaves out the load balancer.
MutantEffect(new, active, deleted) ==
    [new |-> new, active |-> IF deleted = {} THEN active ELSE active \ {LB}, deleted |-> deleted]

Effect(new, active, deleted) == [new |-> new, active |-> active, deleted |-> deleted]

\* Nothing is pushed if the patch is given up.
Pushing(new, active) == Effect(new, IF new = Skip THEN {} ELSE active, {})

Raises(reported) == Effect(Reject, reported, {})

\* Without a CR, a change of a pool waits until a listener uses the pool.
Waits(p, objects) == IF Deferred(p) THEN Effect(None, {LB, p} \cup objects, {}) ELSE Raises({})

\* The ids in the annotations of a CR.
Ids(v) == IF v = None THEN {} ELSE {v.pool, v.hm} \cup v.members

\* The listener of a pool, by the CR or by Octavia's record.
ListenerOf(c) == IF c.listener = None THEN Attached(c.req.pool) ELSE {c.listener}

loadbalancer_create == Effect(None, {LB}, {})

loadbalancer_delete(c) ==
    IF c.todo # {} /\ ~c.req.cascade THEN Raises({}) ELSE Effect(None, {}, {LB})

loadbalancer_update(c, v) ==
    Effect(IF v = None THEN None
           ELSE IF c.restore # None THEN RestoreBackends(v, c) ELSE PlainUpdate(v, c),
           {LB}, {})

\* On success the statuses come from the watcher.
listener_create(c, v) ==
    Effect(IF c.restore # None THEN RestoreBackends(v, c) ELSE AdoptExisting(v, c.req), {}, {})

listener_delete(c, v) == Effect(None, {LB}, {c.req.listener} \cup Ids(v))

listener_update(c, v) ==
    LET r == c.req
    IN  IF v = None THEN Raises({LB, r.listener})
        ELSE IF c.restore # None THEN Effect(RestoreBackends(v, c), {LB, r.listener, c.restore}, {})
        ELSE Effect(PlainUpdate(v, c),
                    {LB, r.listener, IF c.detach # None THEN c.detach ELSE Prepared(v, r).pool}, {})

pool_create(c, v) ==
    LET r == c.req
    IN  IF r.listener = None THEN Effect(None, {LB, r.pool}, {})
        ELSE IF v = None THEN Raises({LB, r.listener, r.pool})
        ELSE Pushing(AssociatePool(v, r.pool), {LB, r.listener, r.pool})

\* If the patch is given up the ids are those of the CR found at first; they go
\* with the pool in any case (Report).
pool_delete(c, v) ==
    LET p == c.req.pool
        new == IF v = None THEN None ELSE ForPool(v, p, ClearPoolAssociation(v))
    IN  Effect(new, {LB} \cup ListenerOf(c), {p} \cup IF new = Skip THEN {} ELSE Ids(v))

pool_update(c) == Effect(None, {LB, c.req.pool} \cup ListenerOf(c), {})

member_create(c, v) ==
    IF v = None THEN Waits(c.req.pool, c.req.members)
    ELSE Pushing(ForPool(v, c.req.pool, WithMember(v, c.req)),
                 {LB, c.listener, c.req.pool} \cup c.req.members)

member_update(c, v) ==
    IF v = None THEN Waits(c.req.pool, c.req.members)
    ELSE Pushing(ForPool(v, c.req.pool, WithMember(v, c.req)),
                 {LB, c.listener, c.req.pool} \cup c.req.members)

\* The pool that is read still lists the member.
member_delete(c, v) ==
    LET r == c.req
    IN  Effect(IF v = None THEN None
               ELSE ForPool(v, r.pool, Refreshed(Forget(v, r.members), Probed(r.pool))),
               {LB, r.pool} \cup ListenerOf(c) \cup (Ids(v) \cap Monitors), r.members)

\* Reads no pool.  Members removed from a pool that waits for a listener are
\* never reported.
member_batch_update(c, v) ==
    LET r == c.req
        served == r.members \ r.draining
        replaced == [v EXCEPT !.members = r.members, !.draining = r.draining,
                              !.backends = BackendsForAdminState(v, served)]
        new == ForPool(v, r.pool, IF Fits(r.members, r.draining) THEN Refreshed(replaced, served)
                                  ELSE Reject)
    IN  IF v = None THEN Waits(r.pool, r.members)
        ELSE IF new = Skip THEN Pushing(Skip, {})
        ELSE Effect(new, {LB, c.listener, r.pool} \cup r.members, v.members \ r.members)

health_monitor_create(c, v) ==
    LET p == c.req.pool
    IN  IF v = None THEN Waits(p, {MonitorOf[p]})
        ELSE Pushing(ForPool(v, p, WithHealthCheck(v, p)), {LB, c.listener, p, MonitorOf[p]})

health_monitor_update(c, v) ==
    LET p == c.req.pool
    IN  IF v = None /\ ~Deferred(p) THEN Raises({LB, p, MonitorOf[p]} \cup Attached(p))
        ELSE IF v = None THEN Waits(p, {MonitorOf[p]})
        ELSE Pushing(ForPool(v, p, WithHealthCheck(v, p)), {LB, c.listener, p, MonitorOf[p]})

\* The monitor reported is the one of the annotation, if there is one.
health_monitor_delete(c, v) ==
    LET p == c.req.pool
        new == ForPool(v, p, [v EXCEPT !.check = None, !.hm = None])
    IN  IF v = None THEN Effect(None, IF Deferred(p) THEN {LB, p} ELSE {}, {MonitorOf[p]})
        ELSE Effect(new, {LB, c.listener, p},
                    {IF new = Skip \/ v.hm = None THEN MonitorOf[p] ELSE v.hm})

Operation(c, v) ==
    LET op == c.req.op
    IN  CASE op = "loadbalancer_create" -> loadbalancer_create
          [] op = "loadbalancer_delete" -> loadbalancer_delete(c)
          [] op = "loadbalancer_update" -> loadbalancer_update(c, v)
          [] op = "listener_create" -> listener_create(c, v)
          [] op = "listener_delete" -> listener_delete(c, v)
          [] op = "listener_update" -> listener_update(c, v)
          [] op = "pool_create" -> pool_create(c, v)
          [] op = "pool_delete" -> pool_delete(c, v)
          [] op = "pool_update" -> pool_update(c)
          [] op = "member_create" -> member_create(c, v)
          [] op = "member_update" -> member_update(c, v)
          [] op = "member_delete" -> member_delete(c, v)
          [] op = "member_batch_update" -> member_batch_update(c, v)
          [] op = "health_monitor_create" -> health_monitor_create(c, v)
          [] op = "health_monitor_update" -> health_monitor_update(c, v)
          [] op = "health_monitor_delete" -> health_monitor_delete(c, v)

-----------------------------------------------------------------------------
(* The requests of Octavia (external), and what it does with its records.  *)

Request(fields) ==
    fields @@ [op |-> None, listener |-> None, pool |-> None, up |-> Keep,
               members |-> {}, draining |-> {}, cascade |-> FALSE]

LoadBalancerOps == {"loadbalancer_create", "loadbalancer_update", "loadbalancer_delete"}
ListenerOps == {"listener_create", "listener_update", "listener_delete"}
MonitorOps == {"health_monitor_create", "health_monitor_update", "health_monitor_delete"}

There(S) == {o \in S : Exists(o)}

\* Pools that may become a listener's default pool: one listener per pool.
FreePools == {p \in There(Pools) : Attached(p) = {}}

LoadBalancerRequests ==
    IF ~Exists(LB) THEN {Request([op |-> "loadbalancer_create"])}
    ELSE {Request([op |-> "loadbalancer_update", up |-> u]) : u \in {Keep} \cup BOOLEAN}
         \cup {Request([op |-> "loadbalancer_delete", cascade |-> c]) : c \in BOOLEAN}

ListenerRequests ==
    {Request([op |-> "listener_create", listener |-> l, up |-> u, pool |-> p]) :
         l \in Listeners \ There(Listeners), u \in BOOLEAN, p \in FreePools \cup {None}}
    \cup UNION {{Request([op |-> "listener_update", listener |-> l, up |-> u, pool |-> p]) :
         u \in {Keep} \cup BOOLEAN, p \in FreePools \cup {Keep, None, db.pool[l]}} :
             l \in There(Listeners)}
    \cup {Request([op |-> "listener_delete", listener |-> l]) : l \in There(Listeners)}

PoolRequests ==
    {Request([op |-> "pool_create", listener |-> l, pool |-> p]) :
         l \in {None} \cup {k \in There(Listeners) : db.pool[k] = None},
         p \in Pools \ There(Pools)}
    \cup {Request([op |-> op, pool |-> p]) :
         op \in {"pool_update", "pool_delete"}, p \in There(Pools)}

MemberRequest(op, m, draining) ==
    Request([op |-> op, pool |-> PoolOf[m], members |-> {m},
             draining |-> IF draining THEN {m} \cap Drainable ELSE {}])

MemberRequests ==
    {MemberRequest(IF Exists(m) THEN "member_update" ELSE "member_create", m, d) :
         m \in {n \in Members : Exists(PoolOf[n])}, d \in BOOLEAN}
    \cup {MemberRequest("member_delete", m, FALSE) : m \in There(Members)}
    \cup UNION {{Request([op |-> "member_batch_update", pool |-> p, members |-> ms,
                          draining |-> ms \cap d]) :
                     ms \in SUBSET {m \in Members : PoolOf[m] = p}, d \in SUBSET Drainable} :
                         p \in There(Pools)}

MonitorRequests ==
    UNION {{Request([op |-> op, pool |-> p]) :
                op \in IF Exists(MonitorOf[p]) THEN {"health_monitor_update", "health_monitor_delete"}
                       ELSE {"health_monitor_create"}} :
               p \in There(Pools)}

Requests ==
    LoadBalancerRequests
    \cup IF Exists(LB) THEN ListenerRequests \cup PoolRequests \cup MemberRequests \cup MonitorRequests
         ELSE {}

\* The objects a request makes PENDING: the listeners of a pool with the pool.
Locks(r) ==
    {LB} \cup ({r.listener} \ {None}) \cup r.members
    \cup IF r.op \in LoadBalancerOps \cup ListenerOps THEN {}
         ELSE {r.pool} \cup Attached(r.pool)
              \cup (IF r.op \in MonitorOps THEN {MonitorOf[r.pool]} ELSE {})
              \cup (IF r.op = "member_batch_update" THEN PoolMembers(r.pool) ELSE {})

\* Octavia's records once it has accepted a request.
Requested(r) ==
    [lb |-> IF r.op = "loadbalancer_update" /\ r.up # Keep THEN r.up
            ELSE r.op = "loadbalancer_create" \/ db.lb,
     up |-> [l \in Listeners |-> IF l = r.listener /\ r.up # Keep THEN r.up ELSE db.up[l]],
     pool |-> [l \in Listeners |-> IF l = r.listener /\ r.op # "listener_delete" /\ r.pool # Keep
                                   THEN r.pool ELSE db.pool[l]],
     draining |-> IF r.op = "member_delete" THEN db.draining
                  ELSE (db.draining \ r.members) \cup r.draining]

\* And once it has taken the request back.
Undone(r, old) ==
    [lb |-> IF r.op = "loadbalancer_update" THEN old.lb ELSE db.lb,
     up |-> [l \in Listeners |-> IF l = r.listener THEN old.up[l] ELSE db.up[l]],
     pool |-> [l \in Listeners |-> IF l = r.listener THEN old.pool[l] ELSE db.pool[l]],
     draining |-> (db.draining \ r.members) \cup (old.draining \cap r.members)]

\* A status update on records d: objects in active leave PENDING, objects in
\* deleted are removed, and with them what belongs to them.
Report(active, deleted, d) ==
    LET Gone(o) == \/ LB \in deleted \/ o \in deleted
                   \/ o \in Members /\ PoolOf[o] \in deleted
                   \/ \E p \in Pools \cap deleted : o = MonitorOf[p]
    IN  /\ prov' = [o \in Objects |-> IF Gone(o) THEN "none"
                                      ELSE IF o \in active /\ Exists(o) THEN "settled"
                                      ELSE prov[o]]
        /\ db' = [lb |-> d.lb \/ Gone(LB),
                  up |-> [l \in Listeners |-> d.up[l] \/ Gone(l)],
                  pool |-> [l \in Listeners |-> IF Gone(l) \/ Gone(d.pool[l]) THEN None ELSE d.pool[l]],
                  draining |-> {m \in d.draining : ~Gone(m)}]

-----------------------------------------------------------------------------
(* A call of the driver.                                                   *)

FirstOf(S) == IF S = {} THEN {} ELSE {Min(S)}

\* find_by_loadbalancer, find_by_listener and find_by_pool.
Found(r) ==
    CASE r.op \in LoadBalancerOps -> {l \in Listeners : cr[l] # None}
      [] r.op \in ListenerOps \cup {"pool_create"} -> {l \in Listeners : l = r.listener /\ cr[l] # None}
      [] OTHER -> FirstOf({l \in Listeners : cr[l] # None /\ cr[l].pool = r.pool})

DetachedPool(r, v) == IF r.op = "listener_update" /\ r.pool = None THEN v.pool ELSE None

\* Mutant: a listener is enabled without its members.
MutantRestoredPool(r, v) ==
    CASE r.op = "loadbalancer_update" /\ r.up = TRUE -> v.pool
      [] r.op = "listener_update" /\ r.up # FALSE /\ r.pool \in Pools \ {v.pool} -> r.pool
      [] OTHER -> None

\* The pool whose members are restored, None for a plain update.
RestoredPool(r, v) ==
    CASE r.op = "loadbalancer_update" /\ r.up = TRUE -> v.pool
      [] /\ r.op = "listener_update" /\ r.up # FALSE
         /\ DetachedPool(r, v) = None
         /\ r.up = TRUE \/ r.pool \in Pools \ {v.pool} ->
             IF r.pool \in Pools THEN r.pool ELSE v.pool
      [] OTHER -> None

\* The call c turns to the next of the CRs it has found.
Turn(c) ==
    IF c.todo = {} THEN [c EXCEPT !.pc = "finish"]
    ELSE LET v == c.snap[Min(c.todo)]
             p == RestoredPool(c.req, v)
         IN  [c EXCEPT !.pc = IF p = None THEN "patch" ELSE "fetch",
                       !.restore = p, !.detach = DetachedPool(c.req, v), !.tries = 1]

\* The first steps of a call: some have nothing to patch.
Enter(c) ==
    LET r == c.req
        v == IF c.listener = None THEN None ELSE c.snap[c.listener]
        effect == Operation(c, v)
        answered == [c EXCEPT !.pc = IF effect.new = Reject THEN "raise" ELSE "finish",
                              !.todo = {}, !.reply = effect]
        done == \/ c.todo = {} \/ r.op = "pool_update"
                \/ r.op = "loadbalancer_update" /\ r.up = Keep
                \/ r.op = "loadbalancer_delete" /\ ~r.cascade
                \/ r.op = "pool_create" /\ v # None /\ v.pool = r.pool
    IN  IF r.op = "listener_create" THEN [c EXCEPT !.pc = "create"]
        ELSE IF done THEN answered
        ELSE IF r.op \in {"loadbalancer_delete", "listener_delete"}
             THEN [answered EXCEPT !.pc = "delete", !.todo = c.todo]
        ELSE Turn(c)

\* Octavia accepts a request and calls the driver, which looks up the CRs.
Begin(w, r) ==
    /\ w = Min({x \in Workers : ~Running(x)})
    /\ issued < MaxCalls
    /\ prov[LB] # "pending"
    /\ r.op = "loadbalancer_create" => (\A x \in Workers : ~Running(x)) /\ Found(r) = {}
    /\ LET found == Found(r)
           locks == Locks(r)
       IN  /\ calls' = [calls EXCEPT ![w] = Enter(
                  [pc |-> "finish", req |-> r, todo |-> found,
                   listener |-> IF r.op \in LoadBalancerOps \/ found = {} THEN None ELSE Min(found),
                   snap |-> [l \in Listeners |-> IF l \in found THEN cr[l] ELSE None],
                   seen |-> None, restore |-> None, detach |-> None, tries |-> 1,
                   mine |-> FALSE, wrote |-> FALSE, reply |-> Effect(None, {}, {}),
                   old |-> db, locks |-> locks, fresh |-> locks \ There(locks)])]
           /\ prov' = [o \in Objects |-> IF o \in locks THEN "pending" ELSE prov[o]]
    /\ db' = Requested(r)
    /\ issued' = issued + 1
    /\ overlapped' = (overlapped \/ \E x \in Workers : Running(x))
    /\ UNCHANGED <<cr, faults, partial>>

\* A request made in call c fails.  The objects of a pool that cannot be
\* restored are reported as ERROR (_push_pool_restore_error_status), and
\* listener_create removes the CR if it has created it.
OnError(c) ==
    LET p == c.restore
        reported ==
            IF c.todo = {} \/ (p = None /\ ~(c.req.op = "loadbalancer_update" /\ c.req.up = TRUE)) THEN {}
            ELSE {LB, Min(c.todo)}
                 \cup (IF p = None THEN {} ELSE {p, MonitorOf[p]} \cup PoolMembers(p))
    IN  [c EXCEPT !.pc = IF c.mine THEN "clean" ELSE "raise", !.reply = Raises(reported)]

GoesOn(w, c) ==
    /\ calls' = [calls EXCEPT ![w] = c]
    /\ UNCHANGED <<db, prov, issued, overlapped, partial>>

\* The CR that listener_create asks for: the load balancer's admin state is
\* not among its annotations.
NewCR(r) ==
    [lb |-> TRUE, up |-> r.up, pool |-> r.pool, hm |-> None, members |-> {},
     draining |-> {}, backends |-> {}, check |-> None]

\* _create_or_update_listener_virtualip: POST, or GET after a 409.
Create(w, c) ==
    LET l == c.req.listener
        new == NewCR(c.req)
    IN  /\ c.pc = "create"
        /\ IF cr[l] = None
           THEN /\ cr' = [cr EXCEPT ![l] = new]
                /\ GoesOn(w, [c EXCEPT !.mine = TRUE, !.wrote = TRUE, !.listener = l,
                                       !.snap[l] = new, !.restore = c.req.pool,
                                       !.todo = IF c.req.pool = None THEN {} ELSE {l},
                                       !.pc = IF c.req.pool = None THEN "finish" ELSE "fetch"])
           ELSE /\ GoesOn(w, [c EXCEPT !.listener = l, !.snap[l] = cr[l], !.todo = {l}, !.pc = "patch"])
                /\ UNCHANGED cr
        /\ UNCHANGED faults

\* _restore_virtualip_backends reads the pool from Octavia, once.
Fetch(w, c) ==
    /\ c.pc = "fetch"
    /\ GoesOn(w, [c EXCEPT !.seen = PoolRecord(c.restore), !.pc = "patch"])
    /\ UNCHANGED <<cr, faults>>

\* A patch has been applied.
Patched(c, l, effect) ==
    LET d == [c EXCEPT !.wrote = @ \/ effect.new # c.snap[l], !.reply = effect]
        p == effect.new.pool
    IN  IF c.req.op = "listener_create" /\ c.restore = None /\ p # None /\ c.req.pool = p
        THEN [d EXCEPT !.pc = "fetch", !.restore = p, !.snap[l] = effect.new, !.tries = 1]
        ELSE Turn([d EXCEPT !.todo = @ \ {l}, !.seen = None])

\* The CR no longer stands for the pool.  listener_update goes on with a plain
\* update, whose first attempt, from the CR found at first, conflicts.
Skipped(c, l, effect) ==
    CASE c.req.op = "listener_update" /\ cr[l] = None -> OnError(c)
      [] c.req.op = "listener_update" /\ cr[l] # None ->
             [c EXCEPT !.restore = None, !.seen = None, !.snap[l] = cr[l], !.tries = 2]
      [] OTHER -> Turn([c EXCEPT !.todo = @ \ {l}, !.seen = None, !.reply = effect])

\* One attempt of _update_virtualip_with_retry, which patches the CR if it is
\* still the one that was read, and reads it again if it is not.
Patch(w, c) ==
    /\ c.pc = "patch"
    /\ \E l \in {Min(c.todo)} : \E effect \in {Operation(c, c.snap[l])} :
           \/ /\ effect.new = Reject
              /\ GoesOn(w, OnError(c))
              /\ UNCHANGED cr
           \/ /\ effect.new = Skip
              /\ GoesOn(w, Skipped(c, l, effect))
              /\ UNCHANGED cr
           \/ /\ effect.new \notin {Reject, Skip} /\ cr[l] = c.snap[l]
              /\ cr' = [cr EXCEPT ![l] = effect.new]
              /\ GoesOn(w, Patched(c, l, effect))
           \/ /\ effect.new \notin {Reject, Skip} /\ cr[l] # c.snap[l]
              /\ GoesOn(w, IF cr[l] = None \/ c.tries = MaxAttempts THEN OnError(c)
                           ELSE [c EXCEPT !.snap[l] = cr[l], !.tries = @ + 1])
              /\ UNCHANGED cr
    /\ UNCHANGED faults

\* delete_virtualip: a CR that is gone already is no error.
Delete(w, c) ==
    /\ c.pc = "delete"
    /\ LET l == Min(c.todo)
       IN  /\ cr' = [cr EXCEPT ![l] = None]
           /\ GoesOn(w, [c EXCEPT !.wrote = TRUE, !.todo = @ \ {l},
                                  !.pc = IF c.todo = {l} THEN "finish" ELSE "delete"])
    /\ UNCHANGED faults

Clean(w, c) ==
    /\ c.pc = "clean"
    /\ cr' = [cr EXCEPT ![c.listener] = None]
    /\ GoesOn(w, [c EXCEPT !.pc = "raise", !.wrote = FALSE])
    /\ UNCHANGED faults

Ends(w) ==
    /\ calls' = [calls EXCEPT ![w] = Idle]
    /\ UNCHANGED <<cr, issued, faults, overlapped>>

Finish(w, c) ==
    /\ c.pc = "finish"
    /\ Report(c.reply.active, c.reply.deleted, db)
    /\ Ends(w)
    /\ UNCHANGED partial

\* The call raises, and Octavia takes the request back.
Raise(w, c) ==
    /\ c.pc = "raise"
    /\ Report(c.locks \cup c.reply.active, c.fresh, Undone(c.req, c.old))
    /\ partial' = (partial \/ c.wrote)
    /\ Ends(w)

Step(w) ==
    \/ Create(w, calls[w]) \/ Fetch(w, calls[w]) \/ Patch(w, calls[w])
    \/ Delete(w, calls[w]) \/ Clean(w, calls[w])
    \/ Finish(w, calls[w]) \/ Raise(w, calls[w])

\* A request to Kubernetes or to Octavia fails, and nothing has happened.
RequestFails(w, c) ==
    /\ c.pc \in {"create", "fetch", "patch", "delete", "clean", "finish"}
    /\ c.pc = "finish" => c.reply.active \cup c.reply.deleted # {}
    /\ faults < MaxFaults
    /\ faults' = faults + 1
    /\ GoesOn(w, IF c.pc = "clean" THEN [c EXCEPT !.pc = "raise"] ELSE OnError(c))
    /\ UNCHANGED cr

\* Kubernetes creates or patches the CR, and the answer is lost.  (A delete
\* whose answer is lost ends like one that is followed by a failing request.)
AnswerLost(w, c) ==
    /\ faults < MaxFaults
    /\ faults' = faults + 1
    /\ \/ /\ c.pc = "create" /\ cr[c.req.listener] = None
          /\ cr' = [cr EXCEPT ![c.req.listener] = NewCR(c.req)]
          /\ GoesOn(w, OnError([c EXCEPT !.wrote = TRUE]))
       \/ /\ c.pc = "patch"
          /\ \E l \in {Min(c.todo)} : \E new \in {Operation(c, c.snap[l]).new} :
                 /\ new \notin {Reject, Skip} /\ cr[l] = c.snap[l]
                 /\ cr' = [cr EXCEPT ![l] = new]
                 /\ GoesOn(w, OnError([c EXCEPT !.wrote = @ \/ new # c.snap[l]]))

\* _build_octavia_status_update: the objects whose status a CR carries.
Watched(l) == {LB, l, cr[l].pool, cr[l].hm} \cup cr[l].members

\* _on_virtualip_status_change: the watcher pushes the state of a CR, which it
\* gets again on every sync of the watch.
StatusChange(l) ==
    /\ cr[l] # None
    /\ Report(Watched(l), {}, db)
    /\ UNCHANGED <<cr, calls, issued, faults, overlapped, partial>>

Next ==
    \/ \E w \in Workers :
           \/ ~Running(w) /\ \E r \in Requests : Begin(w, r)
           \/ Step(w)
           \/ RequestFails(w, calls[w])
           \/ AnswerLost(w, calls[w])
    \/ \E l \in Listeners : StatusChange(l)

-----------------------------------------------------------------------------
\* The CR of listener l that Octavia's records call for.
Image(l) ==
    LET p == db.pool[l]
        pool == IF p = None THEN [members |-> {}, draining |-> {}, hm |-> FALSE] ELSE PoolRecord(p)
        served == pool.members \ pool.draining
    IN  [lb |-> db.lb, up |-> db.up[l], pool |-> p,
         hm |-> IF pool.hm THEN MonitorOf[p] ELSE None,
         members |-> pool.members, draining |-> pool.draining,
         backends |-> IF db.lb /\ db.up[l] THEN served ELSE {},
         check |-> IF pool.hm THEN ResolvePort(served) ELSE None]

\* A CR that a listener_create left whose answer was lost, with the members
\* that later calls have put on it.
LeftOver(p) ==
    [NewCR(Request([up |-> TRUE, pool |-> p]))
        EXCEPT !.members = PoolMembers(p), !.backends = PoolMembers(p) \ db.draining]

\* At the start nothing is under way, and the CRs are what they should be, or
\* left over without a listener.
Init ==
    /\ \E start \in Initial :
           /\ db = start.db
           /\ prov = [o \in Objects |-> IF o \in start.objects THEN "settled" ELSE "none"]
           /\ cr = [l \in Listeners |-> IF Exists(l) THEN Image(l)
                                         ELSE IF l \in DOMAIN start.left THEN LeftOver(start.left[l])
                                         ELSE None]
           /\ partial = (start.left # <<>>)
    /\ calls = [w \in Workers |-> Idle]
    /\ issued = 0 /\ faults = 0
    /\ overlapped = FALSE

\* As long as a call runs or the watcher has news, one of them goes on.
Fairness == WF_vars((\E w \in Workers : Step(w)) \/ (\E l \in Listeners : StatusChange(l)))

Spec == Init /\ [][Next]_vars /\ Fairness

-----------------------------------------------------------------------------
\* Types; a call that is about to patch or delete has a CR to work on, and no
\* more attempts are made than the driver allows.
TypeOK ==
    /\ cr \in [Listeners -> CRs \cup {None}]
    /\ db \in Records
    /\ prov \in [Objects -> Provisioning]
    /\ \A w \in Workers :
           Running(w) =>
               /\ calls[w].pc \in {"create", "fetch", "patch", "delete", "clean", "finish", "raise"}
               /\ calls[w].pc \in {"fetch", "patch", "delete"} => calls[w].todo # {}
               /\ calls[w].tries \in 1 .. MaxAttempts

\* A CR serves backends only while its admin states allow it, and only members
\* it lists and that do not drain.
Serves(l) ==
    cr[l] # None =>
        /\ cr[l].backends \subseteq cr[l].members \ cr[l].draining
        /\ cr[l].backends # {} => cr[l].lb /\ cr[l].up

\* listener_create disables a CR that an earlier call has left, and leaves it
\* its backends.
AdoptsDisabled(l) ==
    \E w \in Workers :
        /\ Running(w) /\ calls[w].pc = "patch" /\ calls[w].restore = None
        /\ calls[w].req.op = "listener_create" /\ calls[w].req.listener = l
        /\ calls[w].req.up = FALSE

\* Whatever calls overlap or fail half-way, no step makes a CR serve backends
\* that its admin states do not allow (_backends_for_admin_state), or that it
\* does not list or drains; except a listener_create that adopts a CR.
ServesWhatIsEnabled ==
    /\ \A l \in Listeners : Serves(l)
    /\ [][\A l \in Listeners : Serves(l) => Serves(l)' \/ AdoptsDisabled(l)]_vars

\* Between two calls the CRs say what Octavia's records say: every listener
\* has its CR, with its pool, and an enabled one serves the members of the
\* pool that do not drain, probed on the port they answer on.
MirrorsOctavia ==
    (~overlapped /\ ~partial /\ \A w \in Workers : ~Running(w)) =>
        \A l \in Listeners :
            /\ (cr[l] # None) = Exists(l)
            /\ Exists(l) =>
                   /\ cr[l].pool = db.pool[l] /\ cr[l].up = db.up[l]
                   /\ db.lb => cr[l].lb
                   /\ db.lb /\ db.up[l] =>
                          /\ [cr[l] EXCEPT !.check = None] = [Image(l) EXCEPT !.check = None]
                          /\ (cr[l].check # None) = (cr[l].hm # None)
                          /\ \A m \in cr[l].backends : cr[l].check \in {None, ProbePort[m]}

\* A CR keeps the members or the monitor of another pool: listener_update does
\* not replace them when it changes the pool of a listener and disables it.
Mislabelled ==
    \E l \in Listeners :
        cr[l] # None /\ (\/ \E m \in cr[l].members : PoolOf[m] # cr[l].pool
                         \/ cr[l].hm # None /\ cr[l].hm # MonitorOf[cr[l].pool])

\* Octavia is never left waiting.  Unless a call failed half-way, the load
\* balancer leaves PENDING, and with it every listener, pool and monitor, if
\* calls have not overlapped and no CR is mislabelled.
Settles ==
    []~Mislabelled =>
        []<>(\/ partial
             \/ /\ prov[LB] # "pending"
                /\ overlapped \/ \A o \in Listeners \cup Pools \cup Monitors : prov[o] # "pending")
=============================================================================
