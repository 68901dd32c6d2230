--------------------------- MODULE DatastoreProofs ---------------------------
(* What the abstract store keeps, for any number of VIPs, backends, tuples *)
(* and addresses: the drivers that implement it keep it too.               *)
EXTENDS Datastore, TLAPS

\* A leaf that names no prover is for Zenon.
USE ZenonT(60)

(* Creating, changing or deleting a VIP, as an operation of its own or of  *)
(* a transaction, keeps a consistent store consistent.                     *)
LEMMA VIPOperationConsistent ==
    ASSUME NEW s \in Stored, NEW t \in Stored, ConsistentStore(s), NEW v \in VIPs,
           \/ \E spec \in VIPSpec : CreateVIP(s, v, spec, t) \/ UpdateVIP(s, v, spec, t)
           \/ DeleteVIP(s, v, t)
    PROVE  ConsistentStore(t)
<1>1. CASE \E spec \in VIPSpec : CreateVIP(s, v, spec, t)
    <2>1. PICK spec \in VIPSpec : CreateVIP(s, v, spec, t)
        BY <1>1
    <2>2. /\ s.vips[v] = None
          /\ t.vips = [s.vips EXCEPT ![v] = spec]
          /\ t.backends = s.backends
          /\ s.vips \in [VIPs -> VIPSpec \cup {None}]
        BY <2>1 DEF CreateVIP, Stored
    <2>3. \A b \in Backends : s.backends[b] # None => s.backends[b].vip # v
        BY <2>2 DEF ConsistentStore
    <2>. QED
        BY <2>1, <2>2, <2>3, SMTT(60) DEF CreateVIP, FreeTuple, ConsistentStore, Stored, BackendSpec
<1>2. CASE \E spec \in VIPSpec : UpdateVIP(s, v, spec, t)
    <2>1. PICK spec \in VIPSpec : UpdateVIP(s, v, spec, t)
        BY <1>2
    <2>2. /\ s.vips[v] # None
          /\ t.vips = [s.vips EXCEPT ![v] = spec]
          /\ t.backends = s.backends
          /\ s.vips \in [VIPs -> VIPSpec \cup {None}]
        BY <2>1 DEF UpdateVIP, Stored
    <2>. QED
        BY <2>1, <2>2, VIPSpecAssumption
        DEF UpdateVIP, FreeTuple, BackendsOf, ConsistentStore, Stored, BackendSpec
<1>3. CASE DeleteVIP(s, v, t)
    <2>1. /\ t.vips = [s.vips EXCEPT ![v] = None]
          /\ t.backends = [b \in Backends |-> IF b \in BackendsOf(s, v) THEN None ELSE s.backends[b]]
          /\ s.vips \in [VIPs -> VIPSpec \cup {None}]
        BY <1>3 DEF DeleteVIP, Stored
    <2>2. \A b \in Backends : t.backends[b] # None =>
              t.backends[b] = s.backends[b] /\ s.backends[b].vip # v
        BY <2>1 DEF BackendsOf
    <2>. QED
        BY <2>1, <2>2, SMTT(60) DEF ConsistentStore, Stored, BackendSpec
<1>. QED
    BY <1>1, <1>2, <1>3

(* Adding, changing or deleting a backend keeps a consistent store         *)
(* consistent.                                                             *)
LEMMA BackendOperationConsistent ==
    ASSUME NEW s \in Stored, NEW t \in Stored, ConsistentStore(s), NEW b \in Backends,
           \/ \E v \in VIPs, i \in IPs : AddBackend(s, b, v, i, t)
           \/ \E i \in IPs : UpdateBackend(s, b, i, t)
           \/ DeleteBackend(s, b, t)
    PROVE  ConsistentStore(t)
<1>1. CASE \E v \in VIPs, i \in IPs : AddBackend(s, b, v, i, t)
    <2>1. PICK v \in VIPs, i \in IPs : AddBackend(s, b, v, i, t)
        BY <1>1
    <2>2. /\ t.vips = s.vips
          /\ t.backends = [s.backends EXCEPT ![b] = [vip |-> v, ip |-> i]]
          /\ s.backends \in [Backends -> BackendSpec \cup {None}]
        BY <2>1 DEF AddBackend, Stored
    <2>. QED
        BY <2>1, <2>2, SMTT(60) DEF AddBackend, Fits, FreeIP, ConsistentStore
<1>2. CASE \E i \in IPs : UpdateBackend(s, b, i, t)
    <2>1. PICK i \in IPs : UpdateBackend(s, b, i, t)
        BY <1>2
    <2>2. /\ t.vips = s.vips
          /\ s.backends \in [Backends -> BackendSpec \cup {None}]
          /\ s.backends[b] \in BackendSpec
          /\ t.backends = [s.backends EXCEPT ![b].ip = i]
        BY <2>1 DEF UpdateBackend, Stored
    <2>3. t.backends = [s.backends EXCEPT ![b] = [vip |-> s.backends[b].vip, ip |-> i]]
        BY <2>2 DEF BackendSpec
    <2>. DEFINE v == s.backends[b].vip
    <2>4. /\ s.vips[v] # None
          /\ <<s.vips[v].encap, i>> \in Compatible
          /\ \A c \in Backends \ {b} : s.backends[c] # [vip |-> v, ip |-> i]
          /\ v \in VIPs
        BY <2>1, <2>2 DEF UpdateBackend, Fits, FreeIP, BackendSpec
    <2>5. t.backends = [s.backends EXCEPT ![b] = [vip |-> v, ip |-> i]]
        BY <2>3
    <2>. HIDE DEF v
    <2>. QED
        BY <2>2, <2>4, <2>5, SMTT(60) DEF ConsistentStore
<1>3. CASE DeleteBackend(s, b, t)
    <2>1. /\ t.vips = s.vips
          /\ t.backends = [s.backends EXCEPT ![b] = None]
          /\ s.backends \in [Backends -> BackendSpec \cup {None}]
        BY <1>3 DEF DeleteBackend, Stored
    <2>. QED
        BY <2>1 DEF ConsistentStore
<1>. QED
    BY <1>1, <1>2, <1>3

(* One operation, of a transaction or on its own.                          *)
LEMMA OperationConsistent ==
    ASSUME NEW s \in Stored, NEW t \in Stored, ConsistentStore(s), Operation(s, t)
    PROVE  ConsistentStore(t)
BY VIPOperationConsistent, BackendOperationConsistent DEF Operation, TransactionOperation

(* The operations of a transaction and the others leave a store.           *)
LEMMA OperationTyped ==
    ASSUME NEW s \in Stored, NEW t, Operation(s, t)
    PROVE  t \in Stored
<1>1. CASE \E v \in VIPs, spec \in VIPSpec : CreateVIP(s, v, spec, t)
    BY <1>1 DEF CreateVIP, Stored
<1>2. CASE \E v \in VIPs, spec \in VIPSpec : UpdateVIP(s, v, spec, t)
    BY <1>2, SMTT(60) DEF UpdateVIP, Stored
<1>3. CASE \E v \in VIPs : DeleteVIP(s, v, t)
    BY <1>3, SMTT(60) DEF DeleteVIP, Stored
<1>4. CASE \E b \in Backends, v \in VIPs, i \in IPs : AddBackend(s, b, v, i, t)
    BY <1>4, SMTT(60) DEF AddBackend, Stored, BackendSpec
<1>5. CASE \E b \in Backends, i \in IPs : UpdateBackend(s, b, i, t)
    BY <1>5, SMTT(60) DEF UpdateBackend, Stored, BackendSpec
<1>6. CASE \E b \in Backends : DeleteBackend(s, b, t)
    BY <1>6, SMTT(60) DEF DeleteBackend, Stored
<1>. QED
    BY <1>1, <1>2, <1>3, <1>4, <1>5, <1>6 DEF Operation, TransactionOperation

(* A step of the store is an operation, two operations, or a change of the *)
(* revision alone.                                                         *)
LEMMA StepCases ==
    ASSUME Next
    PROVE  /\ revision' = revision + 1
           /\ \/ Operation(store, store')
              \/ \E s \in Stored : Operation(store, s) /\ Operation(s, store')
              \/ store' = store
BY DEF Next, Write, WriteTransaction, IncrementRevision, Operation, store

(* Whatever the operations and transactions, the store keeps its type.     *)
THEOREM StoreTyped == Spec => []TypeOK
<1>1. Init => TypeOK
    BY SMTT(60) DEF Init, TypeOK, store, Stored
<1>2. TypeOK /\ [Next]_vars => TypeOK'
    <2>. SUFFICES ASSUME TypeOK, [Next]_vars PROVE TypeOK'
        OBVIOUS
    <2>1. CASE Next
        BY <2>1, StepCases, OperationTyped, SMTT(60) DEF TypeOK
    <2>2. CASE UNCHANGED vars
        BY <2>2 DEF TypeOK, vars, store
    <2>. QED
        BY <2>1, <2>2
<1>. QED
    BY <1>1, <1>2, PTL DEF Spec

(* No operation and no transaction makes a consistent store inconsistent:  *)
(* no two VIPs come to listen on one tuple, no backend loses its VIP or    *)
(* gets an address its VIP cannot take, no address is given twice.         *)
THEOREM StoreStaysConsistent == Spec => StaysConsistent
<1>1. ASSUME TypeOK, TypeOK', [Next]_vars, ConsistentStore(store)
      PROVE  ConsistentStore(store')
    <2>1. store \in Stored /\ store' \in Stored
        BY <1>1 DEF TypeOK
    <2>2. CASE Next
        BY <2>1, <2>2, <1>1, StepCases, OperationConsistent
    <2>3. CASE UNCHANGED vars
        BY <2>3, <1>1 DEF vars, store
    <2>. QED
        BY <1>1, <2>2, <2>3
<1>. QED
    BY <1>1, StoreTyped, PTL DEF Spec, StaysConsistent
=============================================================================
