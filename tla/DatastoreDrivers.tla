-------------------------- MODULE DatastoreDrivers --------------------------
(* datastore.NewDataStore: a controller works with the etcd driver or with *)
(* the MySQL driver, chosen by its configuration when it starts.           *)
EXTENDS DatastoreInterface, Sequences

CONSTANTS Callers, MaxRequests, MaxTxSize

VARIABLES
    driver,                                      \* "etcd" or "mysql"
    revision, call, started,                     \* of the driver in use
    kv, modRevision, gaveUp,                     \* etcd
    vips, backends, changeLog, nextID, watch     \* MySQL

etcdVars == <<kv, modRevision, gaveUp>>
mysqlVars == <<vips, backends, changeLog, nextID, watch>>
vars == <<driver, revision, call, started, etcdVars, mysqlVars>>

Etcd == INSTANCE EtcdDatastore
MySQL == INSTANCE MySQLDatastore

Init ==
    \/ /\ driver = "etcd"
       /\ Etcd!Init
       /\ vips = None /\ backends = None /\ changeLog = None /\ nextID = None /\ watch = None
    \/ /\ driver = "mysql"
       /\ MySQL!Init
       /\ kv = None /\ modRevision = None /\ gaveUp = None

Next ==
    \/ driver = "etcd" /\ Etcd!Next /\ UNCHANGED <<driver, mysqlVars>>
    \/ driver = "mysql" /\ MySQL!Next /\ UNCHANGED <<driver, etcdVars>>

Spec == Init /\ [][Next]_vars

-----------------------------------------------------------------------------
(* Properties.                                                             *)

Records == INSTANCE Datastore WITH
    vips <- IF driver = "etcd" THEN Etcd!StoredVIPs ELSE vips,
    backends <- IF driver = "etcd" THEN Etcd!StoredBackends ELSE backends

(* Each driver implements the abstract store: whatever a call has read     *)
(* before, and whoever writes in between, a write that succeeds is one     *)
(* operation (or one transaction) on the store as it is at that moment,    *)
(* its conditions on uniqueness, address families and parents included,    *)
(* and adds one to the revision.  Except that a transaction of the etcd    *)
(* driver may take the tuple of a VIP an earlier release left unindexed.   *)
ImplementsDatastore ==
    /\ Records!Init
    /\ [][Records!Next \/ \E c \in Callers : driver = "etcd" /\ Etcd!TakesUnindexedTuple(c)]_(Records!vars)

(* Types of the keys or rows of the driver in use.                         *)
TypeOK == IF driver = "etcd" THEN Etcd!TypeOK ELSE MySQL!TypeOK

(* Once every VIP and backend in etcd has its index entries, they always   *)
(* do: no claim, clean-up or late commit takes an entry from a record in   *)
(* use.                                                                    *)
StaysIndexed ==
    [][driver = "etcd" /\ Etcd!Indexed(kv) => Etcd!Indexed(kv')]_vars

(* When every call has run to its end, no index entry is left in etcd that *)
(* names a backend which is not there or, by address, a VIP which is not   *)
(* there: the clean-up after the commit of DeleteVIP misses nothing,       *)
(* whatever AddBackend or second DeleteVIP overtook it.                    *)
NoOrphanIndex == driver = "etcd" => Etcd!NoOrphanIndex

(* No transaction sent to etcd writes one key twice, which etcd refuses.   *)
DistinctWrites == driver = "etcd" => Etcd!DistinctWrites

(* Two operations of the MySQL driver wait for each other's locks, a       *)
(* deadlock InnoDB has to break, only if one deletes a backend and the     *)
(* other updates or deletes its VIP, or both update VIPs and exchange      *)
(* their tuples: every other pair locks the VIP first and the revision     *)
(* last.                                                                   *)
NoLockCycle == driver = "mysql" => MySQL!NoLockCycle

(* A poller that has seen every committed row of change_log has seen every *)
(* change: whoever applies its events has the store, although ids are      *)
(* allocated before the commits and records read after them.  Except for a *)
(* record that could not be read when its last change was polled: that     *)
(* change is not polled again.                                             *)
WatchMirrors == driver = "mysql" => MySQL!WatchMirrors

(* A tuple whose VIP is gone can be taken by another VIP                   *)
(* (testVIPUniqueness creates one after DeleteVIP).                        *)
TupleFreed == driver = "etcd" => Etcd!TupleFreed
=============================================================================
