------------------------------ MODULE Datastore ------------------------------
(* What datastore.DataStore promises its callers, whichever driver stands  *)
(* behind it: VIPs, their backends and a revision.  A write that succeeds  *)
(* is one atomic change of the store, made of one operation or of the      *)
(* operations of one transaction, and adds one to the revision.            *)
(* EtcdDatastore and MySQLDatastore implement this specification.          *)
EXTENDS DatastoreInterface

VARIABLES
    vips,      \* VIP id -> what is stored of it, or None
    backends,  \* backend id -> its VIP and its address, or None
    revision

vars == <<vips, backends, revision>>

Stored == [vips : [VIPs -> VIPSpec \cup {None}],
           backends : [Backends -> BackendSpec \cup {None}]]

store == [vips |-> vips, backends |-> backends]

-----------------------------------------------------------------------------
(* The conditions under which the operations succeed, and their effects,   *)
(* as predicates and functions of a store s.                               *)

FreeTuple(s, v, t) ==
    \A w \in VIPs \ {v} : s.vips[w] # None => s.vips[w].tuple # t

FreeIP(s, b, v, i) ==
    \A c \in Backends \ {b} : s.backends[c] # [vip |-> v, ip |-> i]

BackendsOf(s, v) ==
    {b \in Backends : s.backends[b] # None /\ s.backends[b].vip = v}

CreateVIP(s, v, spec, t) ==
    /\ s.vips[v] = None
    /\ FreeTuple(s, v, spec.tuple)
    /\ t = [s EXCEPT !.vips[v] = spec]

UpdateVIP(s, v, spec, t) ==
    /\ s.vips[v] # None
    /\ FreeTuple(s, v, spec.tuple)
    /\ \A b \in BackendsOf(s, v) : <<spec.encap, s.backends[b].ip>> \in Compatible
    /\ t = [s EXCEPT !.vips[v] = spec]

DeleteVIP(s, v, t) ==
    /\ s.vips[v] # None
    /\ t = [vips |-> [s.vips EXCEPT ![v] = None],
            backends |-> [b \in Backends |->
                IF b \in BackendsOf(s, v) THEN None ELSE s.backends[b]]]

MutantFits(s, b, v, i) ==
    /\ s.vips[v] # None
    /\ FreeIP(s, b, v, i)

\* The backend b is to have the address i under the VIP v.
Fits(s, b, v, i) ==
    /\ s.vips[v] # None
    /\ <<s.vips[v].encap, i>> \in Compatible
    /\ FreeIP(s, b, v, i)

AddBackend(s, b, v, i, t) ==
    /\ s.backends[b] = None
    /\ Fits(s, b, v, i)
    /\ t = [s EXCEPT !.backends[b] = [vip |-> v, ip |-> i]]

UpdateBackend(s, b, i, t) ==
    /\ s.backends[b] # None
    /\ Fits(s, b, s.backends[b].vip, i)
    /\ t = [s EXCEPT !.backends[b].ip = i]

DeleteBackend(s, b, t) ==
    /\ s.backends[b] # None
    /\ t = [s EXCEPT !.backends[b] = None]

\* One of the operations a transaction may hold turns s into t.
TransactionOperation(s, t) ==
    \/ \E v \in VIPs, spec \in VIPSpec : CreateVIP(s, v, spec, t)
    \/ \E v \in VIPs, spec \in VIPSpec : UpdateVIP(s, v, spec, t)
    \/ \E v \in VIPs : DeleteVIP(s, v, t)
    \/ \E b \in Backends, v \in VIPs, i \in IPs : AddBackend(s, b, v, i, t)

Operation(s, t) ==
    \/ TransactionOperation(s, t)
    \/ \E b \in Backends, i \in IPs : UpdateBackend(s, b, i, t)
    \/ \E b \in Backends : DeleteBackend(s, b, t)

-----------------------------------------------------------------------------
(* The specification.                                                      *)

Init ==
    /\ vips \in [VIPs -> VIPSpec \cup {None}]
    /\ backends \in [Backends -> BackendSpec \cup {None}]
    /\ revision = 1

Write ==
    /\ revision' = revision + 1
    /\ Operation(store, store')

\* A transaction of two operations: the second sees the effect of the first.
\* What lies between is one step of the first away from the store.
WriteTransaction ==
    /\ revision' = revision + 1
    /\ \E s \in Stored :
           /\ TransactionOperation(store, s)
           /\ TransactionOperation(s, store')

IncrementRevision ==
    /\ revision' = revision + 1
    /\ UNCHANGED <<vips, backends>>

Next == Write \/ WriteTransaction \/ IncrementRevision

Spec == Init /\ [][Next]_vars

-----------------------------------------------------------------------------
(* Types: a store of records, and its revision (datastore.Interface).      *)
TypeOK ==
    /\ store \in Stored
    /\ revision \in Nat

(* Every backend belongs to a VIP that exists and has an address of its    *)
(* family, no two VIPs listen on one tuple, and no two backends of a VIP   *)
(* have one address: what convertConfigToProto and the data plane rely on. *)
ConsistentStore(s) ==
    /\ \A v, w \in VIPs :
           (v # w /\ s.vips[v] # None /\ s.vips[w] # None)
               => s.vips[v].tuple # s.vips[w].tuple
    /\ \A b \in Backends : s.backends[b] # None =>
           /\ s.vips[s.backends[b].vip] # None
           /\ <<s.vips[s.backends[b].vip].encap, s.backends[b].ip>> \in Compatible
    /\ \A b, c \in Backends :
           (b # c /\ s.backends[b] # None) => s.backends[b] # s.backends[c]

\* Every backend belongs to a VIP that exists.
Parented(s) ==
    \A b \in Backends : s.backends[b] # None => s.vips[s.backends[b].vip] # None

(* No write makes a consistent store inconsistent, whatever the store was  *)
(* at the start (older releases kept no indexes and let duplicates in).    *)
StaysConsistent == [][ConsistentStore(store) => ConsistentStore(store')]_vars
=============================================================================
