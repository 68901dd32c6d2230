---------------------------- MODULE MySQLDatastore ----------------------------
(* internal/common/datastore/mysql: the MySQL driver of the controller.    *)
(* An operation is one InnoDB transaction.  A statement that writes, or    *)
(* reads FOR UPDATE, locks the rows and index entries it touches, one      *)
(* after another, and keeps them to the end; what it writes is visible to  *)
(* others after the commit.  A statement is a step, with one more for each *)
(* lock before its last.  change_log ids are allocated when the row is     *)
(* inserted and visible after the commit; Watch polls that table.          *)
EXTENDS DatastoreInterface, FiniteSetsExt, SequencesExt

CONSTANTS
    Callers,      \* goroutines of the controllers that call the datastore
    MaxRequests,  \* bound: operations started, a transaction counting for MaxTxSize
    MaxTxSize     \* bound: operations of one transaction

VARIABLES
    vips, backends,  \* the committed rows
    revision,        \* system_metadata.revision
    changeLog,       \* the committed rows of change_log
    nextID,          \* its auto-increment counter
    call,            \* caller -> the transaction it is executing
    started,         \* operations started
    watch            \* the poller of Watch, and what its reader makes of it

vars == <<vips, backends, revision, changeLog, nextID, call, started, watch>>

-----------------------------------------------------------------------------
(* A caller.  plan are the statements it has still to execute, locks what  *)
(* it holds, new the rows it has written and not yet committed.            *)

Same == [vips |-> <<>>, backends |-> <<>>]

Idle == [pc |-> "idle", op |-> None, plan |-> <<>>, locks |-> {}, new |-> Same,
         read |-> None, logs |-> <<>>, revision |-> 0, size |-> 0]

\* The rows a transaction sees when it reads for update: its own, and the
\* committed ones.
VIPRow(r, v) == IF v \in DOMAIN r.new.vips THEN r.new.vips[v] ELSE vips[v]
BackendRow(r, b) == IF b \in DOMAIN r.new.backends THEN r.new.backends[b] ELSE backends[b]

With(f, k, x) == [j \in DOMAIN f \cup {k} |-> IF j = k THEN x ELSE f[j]]

BackendsOf(r, v) ==
    {b \in Backends : BackendRow(r, b) # None /\ BackendRow(r, b).vip = v}

VIPLock(v) == <<"vip", v>>
TupleLock(t) == <<"tuple", t>>
BackendLock(b) == <<"backend", b>>
IPLock(v, i) == <<"ip", v, i>>
MetadataLock == <<"metadata">>

\* Mutant: the change is logged before the revision is locked.
MutantEnding == <<"log", "increment", "commit">>

\* incrementRevisionInTx, then logChangeWithRevision with the new revision.
Ending == <<"increment", "log", "commit">>

CreateVIPStatements == <<"insertVIP", "insertTuple">>
UpdateVIPStatements == <<"lockVIP", "lockBackends", "updateVIP">>
DeleteVIPStatements == <<"deleteVIP", "cascade">>
AddBackendStatements == <<"lockVIP", "insertBackend", "insertIP">>

\* Mutant: the backend is locked before its VIP.
MutantUpdateBackendStatements == <<"readBackend", "lockBackend", "lockVIP", "updateBackend">>

UpdateBackendStatements == <<"readBackend", "lockVIP", "lockBackend", "updateBackend">>

DeleteBackendStatements == <<"readBackend", "deleteBackend">>

Statements(o) ==
    CASE o.name = "CreateVIP" -> CreateVIPStatements
      [] o.name = "UpdateVIP" -> UpdateVIPStatements
      [] o.name = "DeleteVIP" -> DeleteVIPStatements
      [] o.name = "AddBackend" -> AddBackendStatements
      [] o.name = "UpdateBackend" -> UpdateBackendStatements
      [] o.name = "DeleteBackend" -> DeleteBackendStatements
      [] o.name = "IncrementRevision" -> <<>>

Change(o, r) ==
    CASE o.name = "CreateVIP" -> [type |-> "vip_created", vip |-> o.vip, backend |-> None]
      [] o.name = "UpdateVIP" -> [type |-> "vip_updated", vip |-> o.vip, backend |-> None]
      [] o.name = "DeleteVIP" -> [type |-> "vip_deleted", vip |-> o.vip, backend |-> None]
      [] o.name = "AddBackend" -> [type |-> "backend_added", vip |-> o.vip, backend |-> o.backend]
      [] o.name = "UpdateBackend" ->
           [type |-> "backend_updated", vip |-> r.read.vip, backend |-> o.backend]
      [] o.name = "DeleteBackend" ->
           [type |-> "backend_deleted", vip |-> r.read.vip, backend |-> o.backend]

-----------------------------------------------------------------------------
(* Locks.                                                                  *)

\* The VIP an operation is about.
VIPOf(r) == IF r.op.name = "UpdateBackend" THEN r.read.vip ELSE r.op.vip

\* The entry of the row of b in the unique index on (vip_id, ip).
EntryLock(r, b) == IPLock(BackendRow(r, b).vip, BackendRow(r, b).ip)

\* A search by vip_id reads that index in order, and from each entry goes to
\* the row.
IndexOrder == SetToSeq(IPs)

ScanLocks(r, v) ==
    LET at(i) == {b \in BackendsOf(r, v) : BackendRow(r, b).ip = i}
        locks(i) == IF at(i) = {} THEN <<>>
                    ELSE <<IPLock(v, i), BackendLock(CHOOSE b \in at(i) : TRUE)>>
    IN  FlattenSeq([j \in DOMAIN IndexOrder |-> locks(IndexOrder[j])])

\* What the next statement of a transaction locks, in the order it does.
\* Writing an indexed column marks the old entry, then inserts the new one.
LockOrder(r) ==
    LET s == Head(r.plan)
        o == r.op
        row == BackendRow(r, o.backend)
    IN  CASE s \in {"insertVIP", "lockVIP", "deleteVIP"} -> <<VIPLock(VIPOf(r))>>
          [] s = "insertTuple" -> <<TupleLock(o.spec.tuple)>>
          [] s = "updateVIP" ->
               IF VIPRow(r, o.vip).tuple = o.spec.tuple THEN <<>>
               ELSE <<TupleLock(VIPRow(r, o.vip).tuple), TupleLock(o.spec.tuple)>>
          [] s = "cascade" -> Append(ScanLocks(r, o.vip), TupleLock(VIPRow(r, o.vip).tuple))
          [] s = "lockBackends" -> ScanLocks(r, o.vip)
          [] s \in {"insertBackend", "lockBackend"} -> <<BackendLock(o.backend)>>
          [] s = "insertIP" -> <<IPLock(o.vip, o.ip)>>
          [] s = "updateBackend" ->
               IF row.ip = o.ip THEN <<>>
               ELSE <<EntryLock(r, o.backend), IPLock(r.read.vip, o.ip)>>
          [] s = "deleteBackend" ->
               <<BackendLock(o.backend)>> \o
                   (IF row = None THEN <<>> ELSE <<EntryLock(r, o.backend)>>)
          [] s = "increment" -> <<MetadataLock>>
          [] OTHER -> <<>>

Missing(r) == SelectSeq(LockOrder(r), LAMBDA k : k \notin r.locks)

Waiting(c) == call[c].plan # <<>>

\* c waits for d: d holds the lock that c takes next.
Blocks(d, c) ==
    /\ Waiting(c)
    /\ d # c
    /\ Missing(call[c]) # <<>>
    /\ Head(Missing(call[c])) \in call[d].locks

-----------------------------------------------------------------------------
(* Steps.                                                                  *)

Rows == [vips |-> vips, backends |-> backends]

\* An empty database, or a VIP with a backend.
InitialRows ==
    LET v == CHOOSE v \in VIPs : TRUE
        i == CHOOSE i \in IPs : TRUE
        spec == CHOOSE s \in VIPSpec : \A j \in IPs : <<s.encap, j>> \in Compatible
        noVIPs == [w \in VIPs |-> None]
        noBackends == [d \in Backends |-> None]
    IN  {[vips |-> noVIPs, backends |-> noBackends]} \cup
        {[vips |-> [noVIPs EXCEPT ![v] = spec],
          backends |-> [noBackends EXCEPT ![b] = [vip |-> v, ip |-> i]]] : b \in Backends}

Init ==
    /\ \E rows \in InitialRows : vips = rows.vips /\ backends = rows.backends
    /\ revision = 1
    /\ changeLog = {}
    /\ nextID = 1
    /\ call = [c \in Callers |-> Idle]
    /\ started = 0
    /\ watch = [last |-> 0, batch |-> <<>>, mirror |-> Rows, missed |-> {}]

Becomes(c, r) == call' = [call EXCEPT ![c] = r]

OnlyCall == UNCHANGED <<vips, backends, revision, changeLog, nextID, started, watch>>

\* Ids are UUIDs made for the new backend: none is given out twice.
Fresh(o) == o.name = "AddBackend" => \A e \in changeLog : e.backend # o.backend

Start(c) ==
    /\ call[c].pc = "idle"
    /\ started < MaxRequests
    /\ \E o \in {o \in Operations : Fresh(o)} :
           Becomes(c, [Idle EXCEPT !.pc = "op", !.op = o,
                          !.plan = Statements(o) \o
                                   (IF o.name = "IncrementRevision"
                                    THEN <<"increment", "commit">> ELSE Ending)])
    /\ started' = started + 1
    /\ UNCHANGED <<vips, backends, revision, changeLog, nextID, watch>>

BeginTx(c) ==
    /\ call[c].pc = "idle"
    /\ started + MaxTxSize <= MaxRequests
    /\ Becomes(c, [Idle EXCEPT !.pc = "tx"])
    /\ started' = started + MaxTxSize
    /\ UNCHANGED <<vips, backends, revision, changeLog, nextID, watch>>

Open(c) == call[c].pc = "tx" /\ call[c].plan = <<>>

TxOperation(c) ==
    /\ Open(c)
    /\ call[c].size < MaxTxSize
    /\ \E o \in {o \in TxOperations : Fresh(o)} :
           Becomes(c, [call[c] EXCEPT !.op = o, !.plan = Statements(o), !.size = @ + 1])
    /\ OnlyCall

Commit(c) ==
    /\ Open(c)
    /\ Becomes(c, [call[c] EXCEPT !.plan = IF call[c].logs = <<>> THEN <<"commit">> ELSE Ending])
    /\ OnlyCall

\* Rollback, a connection that breaks, a deadlock that InnoDB resolves, or
\* the controller is killed: the transaction leaves nothing.
Rollback(c) ==
    /\ call[c].pc # "idle"
    /\ Becomes(c, Idle)
    /\ OnlyCall

\* The next statement of c takes a lock, and needs another.
TakeLock(c) ==
    /\ Waiting(c)
    /\ Len(Missing(call[c])) > 1
    /\ \A d \in Callers : ~Blocks(d, c)
    /\ Becomes(c, [call[c] EXCEPT !.locks = @ \cup {Head(Missing(call[c]))}])
    /\ OnlyCall

\* The next statement of c is s and takes its last lock; After(c) is c after it.
Executes(c, s) ==
    /\ Waiting(c)
    /\ Head(call[c].plan) = s
    /\ Len(Missing(call[c])) <= 1
    /\ \A d \in Callers : ~Blocks(d, c)

After(c) ==
    [call[c] EXCEPT !.plan = Tail(@), !.locks = @ \cup Range(LockOrder(call[c]))]

Statement(c, s, ok, r) ==
    /\ Executes(c, s)
    /\ Becomes(c, IF ok THEN r ELSE Idle)
    /\ OnlyCall

Logged(r) == [r EXCEPT !.logs = Append(@, Change(r.op, r))]

PutVIP(r, v, x) == [r EXCEPT !.new.vips = With(@, v, x)]
PutBackend(r, b, x) == [r EXCEPT !.new.backends = With(@, b, x)]

\* Unique keys: another row has the tuple, or the address under the VIP.
TupleTaken(r, v, t) ==
    \E w \in VIPs \ {v} : VIPRow(r, w) # None /\ VIPRow(r, w).tuple = t

IPTaken(r, b, v, i) ==
    \E d \in Backends \ {b} : BackendRow(r, d) = [vip |-> v, ip |-> i]

InsertVIP(c) ==
    Statement(c, "insertVIP", VIPRow(call[c], call[c].op.vip) = None, After(c))

InsertTuple(c) ==
    LET o == call[c].op
    IN  Statement(c, "insertTuple", ~TupleTaken(call[c], o.vip, o.spec.tuple),
                  Logged(PutVIP(After(c), o.vip, o.spec)))

\* lockVIPRecordForUpdate, and for a backend the check of its family.
LockVIP(c) ==
    LET r == call[c]
        row == VIPRow(r, VIPOf(r))
        fits == r.op.name = "AddBackend" => <<row.encap, r.op.ip>> \in Compatible
    IN  Statement(c, "lockVIP", row # None /\ fits, After(c))

LockBackends(c) ==
    LET r == call[c]
        fits == \A b \in BackendsOf(r, r.op.vip) :
                    <<r.op.spec.encap, BackendRow(r, b).ip>> \in Compatible
    IN  Statement(c, "lockBackends", fits, After(c))

UpdateVIP(c) ==
    LET o == call[c].op
    IN  Statement(c, "updateVIP", ~TupleTaken(call[c], o.vip, o.spec.tuple),
                  Logged(PutVIP(After(c), o.vip, o.spec)))

DeleteVIP(c) ==
    Statement(c, "deleteVIP", VIPRow(call[c], call[c].op.vip) # None, After(c))

Cascade(c) ==
    LET r == call[c]
        v == r.op.vip
        gone == BackendsOf(r, v)
        left == [b \in DOMAIN r.new.backends \cup gone |->
                    IF b \in gone THEN None ELSE r.new.backends[b]]
    IN  Statement(c, "cascade", TRUE,
                  Logged([PutVIP(After(c), v, None) EXCEPT !.new.backends = left]))

\* A plain read sees the committed row.
ReadBackend(c) ==
    LET b == call[c].op.backend
    IN  Statement(c, "readBackend", backends[b] # None, [After(c) EXCEPT !.read = backends[b]])

InsertBackend(c) ==
    Statement(c, "insertBackend", BackendRow(call[c], call[c].op.backend) = None, After(c))

InsertIP(c) ==
    LET o == call[c].op
    IN  Statement(c, "insertIP", ~IPTaken(call[c], o.backend, o.vip, o.ip),
                  Logged(PutBackend(After(c), o.backend, [vip |-> o.vip, ip |-> o.ip])))

LockBackend(c) ==
    LET r == call[c]
        row == BackendRow(r, r.op.backend)
        fits == <<VIPRow(r, r.read.vip).encap, r.op.ip>> \in Compatible
    IN  Statement(c, "lockBackend", row # None /\ fits, [After(c) EXCEPT !.read = row])

UpdateBackend(c) ==
    LET r == call[c]
        o == r.op
    IN  Statement(c, "updateBackend", ~IPTaken(r, o.backend, r.read.vip, o.ip),
                  Logged(PutBackend(After(c), o.backend, [vip |-> r.read.vip, ip |-> o.ip])))

DeleteBackend(c) ==
    LET b == call[c].op.backend
    IN  Statement(c, "deleteBackend", BackendRow(call[c], b) # None,
                  Logged(PutBackend(After(c), b, None)))

IncrementRevision(c) ==
    Statement(c, "increment", TRUE, [After(c) EXCEPT !.revision = revision + 1])

LogChange(c) ==
    LET r == call[c]
        rows == [j \in DOMAIN r.logs |->
                    [id |-> nextID + j - 1, type |-> r.logs[j].type,
                     vip |-> r.logs[j].vip, backend |-> r.logs[j].backend]]
    IN  /\ Executes(c, "log")
        /\ Becomes(c, [After(c) EXCEPT !.logs = rows])
        /\ nextID' = nextID + Len(rows)
        /\ UNCHANGED <<vips, backends, revision, changeLog, started, watch>>

CommitTx(c) ==
    LET r == call[c]
    IN  /\ Executes(c, "commit")
        /\ vips' = [v \in VIPs |-> VIPRow(r, v)]
        /\ backends' = [b \in Backends |-> BackendRow(r, b)]
        /\ revision' = IF r.revision = 0 THEN revision ELSE r.revision
        /\ changeLog' = changeLog \cup Range(r.logs)
        /\ Becomes(c, Idle)
        /\ UNCHANGED <<nextID, started, watch>>

-----------------------------------------------------------------------------
(* Watch: poll the rows above the last id; each becomes an event with the  *)
(* record as it is now, or none when the record is gone, or an error when  *)
(* it cannot be read.  mirror is what a reader has that applies the events *)
(* to the store it found at the start, missed the ids of the records of    *)
(* which the last change reached it as an error.                           *)

Unseen == {e \in changeLog : e.id > watch.last}

Poll ==
    /\ watch.batch = <<>>
    /\ Unseen # {}
    /\ watch' = [watch EXCEPT !.batch = SetToSortSeq(Unseen, LAMBDA d, e : d.id < e.id)]
    /\ UNCHANGED <<vips, backends, revision, changeLog, nextID, call, started>>

BuildWatchEvent(e, m) ==
    CASE e.type \in {"vip_created", "vip_updated"} /\ vips[e.vip] # None ->
           [m EXCEPT !.vips[e.vip] = vips[e.vip]]
      [] e.type = "vip_deleted" ->
           [vips |-> [m.vips EXCEPT ![e.vip] = None],
            backends |-> [b \in Backends |->
                IF m.backends[b] # None /\ m.backends[b].vip = e.vip THEN None
                ELSE m.backends[b]]]
      [] e.type \in {"backend_added", "backend_updated"} /\ backends[e.backend] # None ->
           [m EXCEPT !.backends[e.backend] = backends[e.backend]]
      [] e.type = "backend_deleted" -> [m EXCEPT !.backends[e.backend] = None]
      [] OTHER -> m

\* The record a change is about, and whether its event carries that record.
Subject(e) == IF e.backend = None THEN e.vip ELSE e.backend
Carries(e) == e.type \notin {"vip_deleted", "backend_deleted"}

Deliver ==
    /\ watch.batch # <<>>
    /\ LET e == Head(watch.batch)
       IN  watch' = [last |-> e.id, batch |-> Tail(watch.batch),
                     mirror |-> BuildWatchEvent(e, watch.mirror),
                     missed |-> watch.missed \ {Subject(e)}]
    /\ UNCHANGED <<vips, backends, revision, changeLog, nextID, call, started>>

\* The record cannot be read: an error event, and the poller goes on to the
\* next change all the same.
DeliverError ==
    /\ watch.batch # <<>>
    /\ LET e == Head(watch.batch)
       IN  /\ Carries(e)
           /\ watch' = [watch EXCEPT !.last = e.id, !.batch = Tail(@),
                                     !.missed = @ \cup {Subject(e)}]
    /\ UNCHANGED <<vips, backends, revision, changeLog, nextID, call, started>>

ExecuteStatement(c) ==
    \/ InsertVIP(c) \/ InsertTuple(c) \/ LockVIP(c) \/ LockBackends(c) \/ UpdateVIP(c)
    \/ DeleteVIP(c) \/ Cascade(c) \/ ReadBackend(c) \/ InsertBackend(c) \/ InsertIP(c)
    \/ LockBackend(c) \/ UpdateBackend(c) \/ DeleteBackend(c) \/ IncrementRevision(c)

Next ==
    \/ \E c \in Callers :
           \/ Start(c) \/ BeginTx(c) \/ TxOperation(c) \/ Commit(c) \/ Rollback(c)
           \/ TakeLock(c) \/ ExecuteStatement(c) \/ LogChange(c) \/ CommitTx(c)
    \/ Poll
    \/ Deliver
    \/ DeliverError

Spec == Init /\ [][Next]_vars

-----------------------------------------------------------------------------
(* Properties.                                                             *)

(* Types of the rows; change_log ids come from the counter.                *)
TypeOK ==
    /\ vips \in [VIPs -> VIPSpec \cup {None}]
    /\ backends \in [Backends -> BackendSpec \cup {None}]
    /\ revision \in Nat
    /\ \A e \in changeLog : e.id \in 1..(nextID - 1) /\ e.vip \in VIPs

\* A backend is deleted without its VIP's lock, and from the row to its index
\* entry; a search by VIP goes from the entry to the row.
DeletesUnderVIP(c, d) ==
    /\ call[c].op.name = "DeleteBackend" /\ call[d].op.name \in {"UpdateVIP", "DeleteVIP"}
    /\ call[c].read.vip = call[d].op.vip

\* Two updates that each take the tuple the other gives up.
ExchangesTuples(c, d) ==
    LET o == call[c].op
        p == call[d].op
    IN  /\ o.name = "UpdateVIP" /\ p.name = "UpdateVIP"
        /\ o.vip # p.vip
        /\ o.spec.tuple = vips[p.vip].tuple
        /\ p.spec.tuple = vips[o.vip].tuple

(* Two operations wait for each other's locks, a deadlock InnoDB has to    *)
(* break, only if one deletes a backend and the other updates or deletes   *)
(* its VIP, or both update VIPs and exchange their tuples: every other     *)
(* pair locks the VIP first and the revision last.                         *)
NoLockCycle ==
    \A c, d \in Callers :
        (/\ call[c].pc = "op" /\ call[d].pc = "op"
         /\ Blocks(c, d) /\ Blocks(d, c))
            => DeletesUnderVIP(c, d) \/ DeletesUnderVIP(d, c) \/ ExchangesTuples(c, d)

(* A poller that has seen every committed row of change_log has seen every *)
(* change: whoever applies the events has the store, although ids are      *)
(* allocated before the commits and records read after them.  Except for a *)
(* record that could not be read when its last change was polled: that     *)
(* change is not polled again.                                             *)
WatchMirrors ==
    (watch.batch = <<>> /\ Unseen = {}) =>
        /\ \A v \in VIPs \ watch.missed : watch.mirror.vips[v] = vips[v]
        /\ \A b \in Backends \ watch.missed : watch.mirror.backends[b] = backends[b]

=============================================================================
