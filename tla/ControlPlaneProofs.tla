------------------------- MODULE ControlPlaneProofs -------------------------
(***************************************************************************)
(* The safety properties of ControlPlane, for any VIPs, backends, handlers *)
(* and bounds, and any contents of the store at the start.                 *)
(*                                                                         *)
(* The argument: a configuration that somebody holds was read from the     *)
(* store at a revision that the store has reached; its backends are those  *)
(* of the VIPs in it (Linked), with MySQL it is the store at its revision  *)
(* (Exact), and one that was validated can be programmed (Usable).         *)
(***************************************************************************)
EXTENDS ControlPlane, DatastoreProofs

\* A leaf that names no prover is for Zenon.
USE ZenonT(60)

\* What is stored and read is of these types.
StoredVIPs == [VIPs -> VIPSpec \cup {None}]
StoredBackends == [Backends -> BackendSpec \cup {None}]
Config == [vips : StoredVIPs \cup {None}, backends : StoredBackends \cup {None}, revision : Nat]

MainPc == {"off", "connect", "watch", "recv", "read", "done"} \cup Reads \cup InHandler
BeatPc == {"off", "idle"} \cup Calling \cup InHandler
StreamPc == {"none", "open", "read", "wait"} \cup Reads

Mains == [pc : MainPc, config : Config]
Beats == [pc : BeatPc, config : Config, asked : Nat]
Streams == [pc : StreamPc, config : Config, asked : Nat, first : BOOLEAN]

Requests ==
    {NoRequest}
        \cup [pc : {"list backends", "update vip"}, vip : VIPs, spec : VIPSpec]
        \cup [pc : {"add backend"}, vip : VIPs, ip : IPs]
        \cup [pc : {"get parent", "update backend"}, backend : Backends, vip : VIPs, ip : IPs]

StoreInv ==
    /\ TypeOK
    /\ Parented(store)
    /\ revision \in 1 .. MaxRevision
    /\ handlers \in [Handlers -> Requests]
    /\ history \in Seq([vips : StoredVIPs, backends : StoredBackends])
    /\ Len(history) = revision
    /\ history[revision] = Contents

\* With the driver d and the history h up to the revision r: the configuration
\* c has a revision that the store has reached, and with MySQL is the store at
\* that revision.
Exact(c, d, r, h) ==
    /\ c.revision <= r
    /\ d = "mysql" =>
          \/ c.vips = None
          \/ c.revision \in 1 .. r /\ Content(c) = h[c.revision]

Linked(c) ==
    \A b \in Backends : c.backends[b] # None => c.vips[c.backends[b].vip] # None

Usable(c) ==
    \A b \in Backends : c.backends[b] # None =>
        /\ c.vips[c.backends[b].vip] # None
        /\ <<c.vips[c.backends[b].vip].encap, c.backends[b].ip>> \in Compatible

MainOK(m, d, r, h) ==
    /\ m \in Mains
    /\ Exact(m.config, d, r, h)
    /\ m.pc = "read" => Linked(m.config)
    /\ m.pc = "handle" => Usable(m.config)

BeatOK(p, d, r, h) ==
    /\ p \in Beats
    /\ Exact(p.config, d, r, h)
    /\ p.pc = "read" => Linked(p.config)
    /\ p.pc = "handle" => Usable(p.config)

StreamOK(s, d, r, h) ==
    /\ s \in Streams
    /\ Exact(s.config, d, r, h)
    /\ s.pc = "read" => Linked(s.config)

SentOK(q, d, r, h) ==
    /\ q \in Seq(Config)
    /\ Len(q) <= MaxSent
    /\ \A i \in 1 .. Len(q) : Exact(q[i], d, r, h) /\ Linked(q[i])

AgentOK(reported, given, r) ==
    /\ reported \in 0 .. r
    /\ given.vips # None => Usable(given)

WatchOK(s, w, e, r) ==
    /\ w \in BOOLEAN
    /\ s.pc = "none" => ~w
    /\ e \in 0 .. 2 * r

Phases == {"stopped", "starting", "running", "stopping"}

SyncInv ==
    /\ driver \in {"etcd", "mysql"}
    /\ phase \in Phases
    /\ MainOK(main, driver, revision, history)
    /\ BeatOK(beat, driver, revision, history)
    /\ StreamOK(stream, driver, revision, history)
    /\ SentOK(sent, driver, revision, history)
    /\ AgentOK(currentRevision, applied, revision)
    /\ WatchOK(stream, watching, events, revision)

SystemInv == StoreInv /\ SyncInv

-----------------------------------------------------------------------------
(* The store.                                                              *)

(* No operation leaves a backend without its VIP.                          *)
LEMMA OperationParented ==
    ASSUME NEW s \in Stored, NEW t \in Stored, Parented(s), Operation(s, t)
    PROVE  Parented(t)
<1>1. ASSUME NEW v \in VIPs, NEW spec \in VIPSpec, CreateVIP(s, v, spec, t) \/ UpdateVIP(s, v, spec, t)
      PROVE  Parented(t)
    <2>1. /\ t.vips = [s.vips EXCEPT ![v] = spec]
          /\ t.backends = s.backends
          /\ s.vips \in [VIPs -> VIPSpec \cup {None}]
          /\ spec # None
        BY <1>1, VIPSpecAssumption DEF CreateVIP, UpdateVIP, Stored
    <2>. QED
        BY <2>1 DEF Parented, Stored, BackendSpec
<1>2. ASSUME NEW v \in VIPs, DeleteVIP(s, v, t)
      PROVE  Parented(t)
    <2>1. /\ t.vips = [s.vips EXCEPT ![v] = None]
          /\ t.backends = [b \in Backends |-> IF b \in BackendsOf(s, v) THEN None ELSE s.backends[b]]
          /\ s.vips \in [VIPs -> VIPSpec \cup {None}]
        BY <1>2 DEF DeleteVIP, Stored
    <2>2. \A b \in Backends : t.backends[b] # None =>
              t.backends[b] = s.backends[b] /\ s.backends[b].vip # v
        BY <2>1 DEF BackendsOf
    <2>. QED
        BY <2>1, <2>2, SMTT(60) DEF Parented, Stored, BackendSpec
<1>3. ASSUME NEW b \in Backends, NEW v \in VIPs, NEW i \in IPs, AddBackend(s, b, v, i, t)
      PROVE  Parented(t)
    <2>1. /\ t.vips = s.vips
          /\ t.backends = [s.backends EXCEPT ![b] = [vip |-> v, ip |-> i]]
          /\ s.backends \in [Backends -> BackendSpec \cup {None}]
          /\ s.vips[v] # None
        BY <1>3 DEF AddBackend, Fits, Stored
    <2>. QED
        BY <2>1, SMTT(60) DEF Parented
<1>4. ASSUME NEW b \in Backends, NEW i \in IPs, UpdateBackend(s, b, i, t)
      PROVE  Parented(t)
    <2>1. /\ t.vips = s.vips
          /\ s.backends \in [Backends -> BackendSpec \cup {None}]
          /\ s.backends[b] \in BackendSpec
          /\ t.backends = [s.backends EXCEPT ![b].ip = i]
          /\ s.vips[s.backends[b].vip] # None
        BY <1>4 DEF UpdateBackend, Fits, Stored
    <2>2. t.backends = [s.backends EXCEPT ![b] = [vip |-> s.backends[b].vip, ip |-> i]]
        BY <2>1 DEF BackendSpec
    <2>. QED
        BY <2>1, <2>2, SMTT(60) DEF Parented
<1>5. ASSUME NEW b \in Backends, DeleteBackend(s, b, t)
      PROVE  Parented(t)
    <2>1. /\ t.vips = s.vips
          /\ t.backends = [s.backends EXCEPT ![b] = None]
          /\ s.backends \in [Backends -> BackendSpec \cup {None}]
        BY <1>5 DEF DeleteBackend, Stored
    <2>. QED
        BY <2>1 DEF Parented
<1>. QED
    BY <1>1, <1>2, <1>3, <1>4, <1>5 DEF Operation, TransactionOperation

(* A request's write leaves the store that its operation computed.         *)
LEMMA Stores ==
    ASSUME NEW t \in Stored, vips' = t.vips, backends' = t.backends
    PROVE  store' = t
BY DEF store, Stored

(* How far a request got says what it holds.                               *)
LEMMA RequestKinds ==
    ASSUME NEW r \in Requests
    PROVE  /\ r.pc \in {"list backends", "update vip"} =>
                  r \in [pc : {"list backends", "update vip"}, vip : VIPs, spec : VIPSpec]
           /\ r.pc = "add backend" => r \in [pc : {"add backend"}, vip : VIPs, ip : IPs]
           /\ r.pc \in {"get parent", "update backend"} =>
                  r \in [pc : {"get parent", "update backend"}, backend : Backends, vip : VIPs, ip : IPs]
<1>1. CASE r = NoRequest
    <2>1. r.pc = "idle"
        BY <1>1 DEF NoRequest
    <2>. QED
        BY <2>1
<1>2. CASE r \in [pc : {"list backends", "update vip"}, vip : VIPs, spec : VIPSpec]
    <2>1. r.pc \in {"list backends", "update vip"}
        BY <1>2
    <2>. QED
        BY <1>2, <2>1
<1>3. CASE r \in [pc : {"add backend"}, vip : VIPs, ip : IPs]
    <2>1. r.pc = "add backend"
        BY <1>3
    <2>. QED
        BY <1>3, <2>1
<1>4. CASE r \in [pc : {"get parent", "update backend"}, backend : Backends, vip : VIPs, ip : IPs]
    <2>1. r.pc \in {"get parent", "update backend"}
        BY <1>4
    <2>. QED
        BY <1>4, <2>1
<1>. QED
    BY <1>1, <1>2, <1>3, <1>4 DEF Requests

(* A handler is left with a request of the types that its calls use.       *)
LEMMA HandlersTyped ==
    ASSUME StoreInv, RestNext \/ OtherController
    PROVE  handlers' \in [Handlers -> Requests]
<1>1. /\ handlers \in [Handlers -> Requests]
      /\ vips \in [VIPs -> VIPSpec \cup {None}]
      /\ backends \in [Backends -> BackendSpec \cup {None}]
    BY DEF StoreInv, TypeOK, store, Stored
<1>2. CASE OtherController
    BY <1>1, <1>2 DEF OtherController
<1>3. ASSUME NEW h \in Handlers, Answer(h)
      PROVE  handlers' \in [Handlers -> Requests]
    BY <1>1, <1>3 DEF Answer, Requests
<1>4. ASSUME NEW h \in Handlers, NEW allowed, NEW request, Proceed(h, allowed, request), allowed => request \in Requests
      PROVE  handlers' \in [Handlers -> Requests]
    <2>1. NoRequest \in Requests
        BY DEF Requests
    <2>2. CASE allowed
        BY <1>1, <1>4, <2>2 DEF Proceed
    <2>3. CASE ~allowed
        BY <1>1, <1>4, <2>1, <2>3 DEF Proceed
    <2>. QED
        BY <2>2, <2>3
<1>5. ASSUME NEW h \in Handlers, updateVIP(h)
      PROVE  handlers' \in [Handlers -> Requests]
    <2>. PICK v \in VIPs, patch \in Patches :
              \E spec \in {Merged(vips[v], patch)} :
                  Proceed(h, Accepted(spec), [pc |-> "list backends", vip |-> v, spec |-> spec])
        BY <1>5 DEF updateVIP
    <2>. DEFINE spec == Merged(vips[v], patch)
    <2>1. Proceed(h, Accepted(spec), [pc |-> "list backends", vip |-> v, spec |-> spec])
        OBVIOUS
    <2>. HIDE DEF spec
    <2>. QED
        BY <1>4, <2>1 DEF Accepted, Requests
<1>6. ASSUME NEW h \in Handlers, ListBackends(h)
      PROVE  handlers' \in [Handlers -> Requests]
    <2>0. handlers[h] \in [pc : {"list backends", "update vip"}, vip : VIPs, spec : VIPSpec]
        <3>1. handlers[h] \in Requests /\ handlers[h].pc = "list backends"
            BY <1>1, <1>6 DEF ListBackends
        <3>. QED
            BY <3>1, RequestKinds
    <2>1. [handlers[h] EXCEPT !.pc = "update vip"] \in Requests
        BY <2>0 DEF Requests
    <2>. QED
        BY <1>4, <1>6, <2>1 DEF ListBackends
<1>7. ASSUME NEW h \in Handlers, createBackend(h)
      PROVE  handlers' \in [Handlers -> Requests]
    <2>1. PICK v \in VIPs, i \in IPs :
              Proceed(h, FamilyMatches(vips[v], i), [pc |-> "add backend", vip |-> v, ip |-> i])
        BY <1>7 DEF createBackend
    <2>. QED
        BY <1>4, <2>1 DEF Requests
<1>8. ASSUME NEW h \in Handlers, updateBackend(h)
      PROVE  handlers' \in [Handlers -> Requests]
    <2>1. PICK b \in Backends, i \in IPs :
              /\ backends[b] # None
              /\ Proceed(h, TRUE, [pc |-> "get parent", backend |-> b, vip |-> backends[b].vip, ip |-> i])
        BY <1>8 DEF updateBackend
    <2>2. backends[b].vip \in VIPs
        BY <1>1, <2>1 DEF BackendSpec
    <2>. QED
        BY <1>4, <2>1, <2>2 DEF Requests
<1>9. ASSUME NEW h \in Handlers, GetParent(h)
      PROVE  handlers' \in [Handlers -> Requests]
    <2>0. handlers[h] \in [pc : {"get parent", "update backend"}, backend : Backends, vip : VIPs, ip : IPs]
        <3>1. handlers[h] \in Requests /\ handlers[h].pc = "get parent"
            BY <1>1, <1>9 DEF GetParent
        <3>. QED
            BY <3>1, RequestKinds
    <2>1. [handlers[h] EXCEPT !.pc = "update backend"] \in Requests
        BY <2>0 DEF Requests
    <2>. QED
        BY <1>4, <1>9, <2>1 DEF GetParent
<1>10. ASSUME NEW h \in Handlers,
              \/ createVIP(h) \/ deleteVIP(h) \/ deleteBackend(h) \/ UpdateVIPRecord(h)
              \/ AddBackendRecord(h) \/ UpdateBackendRecord(h) \/ handleDataStoreError(h)
       PROVE  handlers' \in [Handlers -> Requests]
    <2>1. Answer(h)
        BY <1>10
        DEF createVIP, deleteVIP, deleteBackend, UpdateVIPRecord, AddBackendRecord,
            UpdateBackendRecord, handleDataStoreError
    <2>. QED
        BY <1>3, <2>1
<1>. QED
    BY <1>2, <1>5, <1>6, <1>7, <1>8, <1>9, <1>10 DEF RestNext

(* A request that succeeds, of this controller or of another one, is one   *)
(* operation of the store and one revision; everything else that a handler *)
(* does leaves the store alone.                                            *)
LEMMA RequestWrites ==
    ASSUME StoreInv, RestNext \/ OtherController
    PROVE  \/ UNCHANGED vars
           \/ /\ revision < MaxRevision
              /\ revision' = revision + 1
              /\ Operation(store, store')
              /\ store' \in Stored
<1>. DEFINE Written == /\ revision < MaxRevision
                       /\ revision' = revision + 1
                       /\ Operation(store, store')
                       /\ store' \in Stored
<1>1. handlers \in [Handlers -> Requests]
    BY DEF StoreInv
<1>2. CASE OtherController
    <2>1. PICK t \in Stored : Operation(store, t) /\ vips' = t.vips /\ backends' = t.backends
        BY <1>2 DEF OtherController, Succeeds
    <2>. QED
        BY <1>2, <2>1, Stores DEF OtherController, Succeeds
<1>3. ASSUME NEW h \in Handlers, createVIP(h)
      PROVE  Written
    <2>1. PICK t \in Stored : /\ \E v \in VIPs, spec \in VIPSpec : CreateVIP(store, v, spec, t)
                              /\ vips' = t.vips /\ backends' = t.backends
        BY <1>3 DEF createVIP, Succeeds
    <2>2. Operation(store, t)
        BY <2>1 DEF Operation, TransactionOperation
    <2>. QED
        BY <1>3, <2>1, <2>2, Stores DEF createVIP, Succeeds
<1>4. ASSUME NEW h \in Handlers, deleteVIP(h)
      PROVE  Written
    <2>1. PICK t \in Stored : /\ \E v \in VIPs : DeleteVIP(store, v, t)
                              /\ vips' = t.vips /\ backends' = t.backends
        BY <1>4 DEF deleteVIP, Succeeds
    <2>2. Operation(store, t)
        BY <2>1 DEF Operation, TransactionOperation
    <2>. QED
        BY <1>4, <2>1, <2>2, Stores DEF deleteVIP, Succeeds
<1>5. ASSUME NEW h \in Handlers, deleteBackend(h)
      PROVE  Written
    <2>1. PICK t \in Stored : /\ \E b \in Backends : DeleteBackend(store, b, t)
                              /\ vips' = t.vips /\ backends' = t.backends
        BY <1>5 DEF deleteBackend, Succeeds
    <2>2. Operation(store, t)
        BY <2>1 DEF Operation
    <2>. QED
        BY <1>5, <2>1, <2>2, Stores DEF deleteBackend, Succeeds
<1>6. ASSUME NEW h \in Handlers, UpdateVIPRecord(h)
      PROVE  Written
    <2>1. PICK t \in Stored : /\ UpdateVIP(store, handlers[h].vip, handlers[h].spec, t)
                              /\ vips' = t.vips /\ backends' = t.backends
        BY <1>6 DEF UpdateVIPRecord, Succeeds
    <2>2. handlers[h].vip \in VIPs /\ handlers[h].spec \in VIPSpec
        <3>1. handlers[h] \in Requests /\ handlers[h].pc = "update vip"
            BY <1>1, <1>6 DEF UpdateVIPRecord
        <3>. QED
            BY <3>1, RequestKinds
    <2>3. Operation(store, t)
        BY <2>1, <2>2 DEF Operation, TransactionOperation
    <2>. QED
        BY <1>6, <2>1, <2>3, Stores DEF UpdateVIPRecord, Succeeds
<1>7. ASSUME NEW h \in Handlers, AddBackendRecord(h)
      PROVE  Written
    <2>1. PICK t \in Stored : /\ \E b \in Backends : AddBackend(store, b, handlers[h].vip, handlers[h].ip, t)
                              /\ vips' = t.vips /\ backends' = t.backends
        BY <1>7 DEF AddBackendRecord, Succeeds
    <2>2. handlers[h].vip \in VIPs /\ handlers[h].ip \in IPs
        <3>1. handlers[h] \in Requests /\ handlers[h].pc = "add backend"
            BY <1>1, <1>7 DEF AddBackendRecord
        <3>. QED
            BY <3>1, RequestKinds
    <2>3. Operation(store, t)
        BY <2>1, <2>2 DEF Operation, TransactionOperation
    <2>. QED
        BY <1>7, <2>1, <2>3, Stores DEF AddBackendRecord, Succeeds
<1>8. ASSUME NEW h \in Handlers, UpdateBackendRecord(h)
      PROVE  Written
    <2>1. PICK t \in Stored : /\ UpdateBackend(store, handlers[h].backend, handlers[h].ip, t)
                              /\ vips' = t.vips /\ backends' = t.backends
        BY <1>8 DEF UpdateBackendRecord, Succeeds
    <2>2. handlers[h].backend \in Backends /\ handlers[h].ip \in IPs
        <3>1. handlers[h] \in Requests /\ handlers[h].pc = "update backend"
            BY <1>1, <1>8 DEF UpdateBackendRecord
        <3>. QED
            BY <3>1, RequestKinds
    <2>3. Operation(store, t)
        BY <2>1, <2>2 DEF Operation
    <2>. QED
        BY <1>8, <2>1, <2>3, Stores DEF UpdateBackendRecord, Succeeds
<1>9. ASSUME NEW h \in Handlers,
             \/ updateVIP(h) \/ ListBackends(h) \/ createBackend(h)
             \/ updateBackend(h) \/ GetParent(h) \/ handleDataStoreError(h)
      PROVE  UNCHANGED vars
    BY <1>9
    DEF updateVIP, ListBackends, createBackend, updateBackend, GetParent, handleDataStoreError, Proceed
<1>. QED
    BY <1>2, <1>3, <1>4, <1>5, <1>6, <1>7, <1>8, <1>9 DEF RestNext

(* Every step of the control plane is a step of the store, or none.        *)
LEMMA RestStepKeepsStore ==
    ASSUME StoreInv, RestStep
    PROVE  StoreInv'
<1>1. handlers' \in [Handlers -> Requests]
    BY HandlersTyped DEF RestStep
<1>2. CASE UNCHANGED vars
    <2>1. history' = history /\ vips' = vips /\ backends' = backends /\ revision' = revision
        BY <1>2 DEF RestStep, vars
    <2>. QED
        BY <1>1, <2>1 DEF StoreInv, TypeOK, Parented, store, Contents
<1>3. CASE revision < MaxRevision /\ revision' = revision + 1 /\ Operation(store, store') /\ store' \in Stored
    <2>1. /\ revision \in 1 .. MaxRevision /\ MaxRevision \in Nat /\ store \in Stored /\ Parented(store)
          /\ history \in Seq([vips : StoredVIPs, backends : StoredBackends])
          /\ Len(history) = revision
        BY RevisionAssumption DEF StoreInv, TypeOK
    <2>2. revision' \in 1 .. MaxRevision /\ revision' # revision
        BY <1>3, <2>1, SMTT(60)
    <2>3. history' = Append(history, Contents')
        BY <2>2 DEF RestStep
    <2>4. Contents' \in [vips : StoredVIPs, backends : StoredBackends]
        BY <1>3 DEF Contents, store, Stored, StoredVIPs, StoredBackends
    <2>5. /\ history' \in Seq([vips : StoredVIPs, backends : StoredBackends])
          /\ Len(history') = revision'
          /\ history'[revision'] = Contents'
        <3>. DEFINE c == Contents'
        <3>1. history' = Append(history, c) /\ c \in [vips : StoredVIPs, backends : StoredBackends]
            BY <2>3, <2>4
        <3>. HIDE DEF c
        <3>2. /\ history' \in Seq([vips : StoredVIPs, backends : StoredBackends])
              /\ Len(history') = revision'
              /\ history'[revision'] = c
            BY <1>3, <2>1, <3>1, SMTT(60)
        <3>. QED
            BY <3>2 DEF c
    <2>6. Parented(store)'
        BY <1>3, <2>1, OperationParented DEF Parented
    <2>. QED
        BY <1>1, <1>3, <2>2, <2>5, <2>6, SMTT(60) DEF StoreInv, TypeOK
<1>. QED
    BY <1>2, <1>3, RequestWrites DEF RestStep

-----------------------------------------------------------------------------
(* Configurations.                                                         *)

(* A configuration stays what it is when the store goes on.                *)
LEMMA ExactGrows ==
    ASSUME NEW c, c.revision \in Nat, NEW d, NEW r \in Nat, NEW S, NEW h \in Seq(S), Len(h) = r,
           Exact(c, d, r, h), NEW x \in S
    PROVE  Exact(c, d, r + 1, Append(h, x))
<1>1. \A i \in 1 .. r : Append(h, x)[i] = h[i]
    BY SMTT(60)
<1>. QED
    BY <1>1, SMTT(60) DEF Exact

(* What the processes hold survives a write of the store.                  *)
LEMMA HeldGrows ==
    ASSUME NEW d, NEW r \in Nat, NEW S, NEW h \in Seq(S), Len(h) = r, NEW x \in S
    PROVE  /\ \A m : MainOK(m, d, r, h) => MainOK(m, d, r + 1, Append(h, x))
           /\ \A p : BeatOK(p, d, r, h) => BeatOK(p, d, r + 1, Append(h, x))
           /\ \A s : StreamOK(s, d, r, h) => StreamOK(s, d, r + 1, Append(h, x))
           /\ \A q : SentOK(q, d, r, h) => SentOK(q, d, r + 1, Append(h, x))
<1>1. ASSUME NEW c \in Config, Exact(c, d, r, h)
      PROVE  Exact(c, d, r + 1, Append(h, x))
    <2>1. c.revision \in Nat
        BY DEF Config
    <2>. QED
        BY <1>1, <2>1, ExactGrows
<1>2. ASSUME NEW m, MainOK(m, d, r, h)
      PROVE  MainOK(m, d, r + 1, Append(h, x))
    <2>1. m.config \in Config
        BY <1>2 DEF MainOK, Mains
    <2>. QED
        BY <1>1, <1>2, <2>1 DEF MainOK
<1>3. ASSUME NEW p, BeatOK(p, d, r, h)
      PROVE  BeatOK(p, d, r + 1, Append(h, x))
    <2>1. p.config \in Config
        BY <1>3 DEF BeatOK, Beats
    <2>. QED
        BY <1>1, <1>3, <2>1 DEF BeatOK
<1>4. ASSUME NEW s, StreamOK(s, d, r, h)
      PROVE  StreamOK(s, d, r + 1, Append(h, x))
    <2>1. s.config \in Config
        BY <1>4 DEF StreamOK, Streams
    <2>. QED
        BY <1>1, <1>4, <2>1 DEF StreamOK
<1>5. ASSUME NEW q, SentOK(q, d, r, h)
      PROVE  SentOK(q, d, r + 1, Append(h, x))
    <2>1. \A i \in 1 .. Len(q) : q[i] \in Config
        BY <1>5, SMTT(60) DEF SentOK
    <2>. QED
        BY <1>1, <1>5, <2>1 DEF SentOK
<1>. QED
    BY <1>2, <1>3, <1>4, <1>5

(* A write and its notification disturb no configuration that is held.     *)
LEMMA RestStepKeepsSync ==
    ASSUME SystemInv, RestStep
    PROVE  SyncInv'
<1>1. CASE UNCHANGED vars
    <2>1. UNCHANGED <<syncVars, history, revision>>
        BY <1>1 DEF RestStep, vars
    <2>. QED
        BY <2>1 DEF SystemInv, SyncInv, syncVars, clientVars, streamVars
<1>2. CASE revision' = revision + 1 /\ store' \in Stored
    <2>1. /\ revision \in Nat
          /\ history \in Seq([vips : StoredVIPs, backends : StoredBackends])
          /\ Len(history) = revision
        BY DEF SystemInv, StoreInv, TypeOK
    <2>2. revision' # revision
        BY <1>2, <2>1, SMTT(60)
    <2>3. Notify /\ history' = Append(history, Contents')
        BY <2>2 DEF RestStep
    <2>4. Contents' \in [vips : StoredVIPs, backends : StoredBackends]
        BY <1>2 DEF Contents, store, Stored, StoredVIPs, StoredBackends
    <2>5. UNCHANGED <<driver, phase, main, beat, stream, sent, watching, currentRevision, applied>>
        BY <2>3 DEF Notify, clientVars
    <2>6. /\ MainOK(main, driver, revision', history')
          /\ BeatOK(beat, driver, revision', history')
          /\ StreamOK(stream, driver, revision', history')
          /\ SentOK(sent, driver, revision', history')
        <3>. DEFINE x == Contents'
        <3>1. /\ MainOK(main, driver, revision, history)
              /\ BeatOK(beat, driver, revision, history)
              /\ StreamOK(stream, driver, revision, history)
              /\ SentOK(sent, driver, revision, history)
            BY DEF SystemInv, SyncInv
        <3>2. x \in [vips : StoredVIPs, backends : StoredBackends] /\ history' = Append(history, x)
            BY <2>3, <2>4
        <3>. HIDE DEF x
        <3>3. /\ MainOK(main, driver, revision + 1, Append(history, x))
              /\ BeatOK(beat, driver, revision + 1, Append(history, x))
              /\ StreamOK(stream, driver, revision + 1, Append(history, x))
              /\ SentOK(sent, driver, revision + 1, Append(history, x))
            BY <2>1, <3>1, <3>2, HeldGrows
        <3>. QED
            BY <1>2, <3>2, <3>3
    <2>7. AgentOK(currentRevision, applied, revision')
        BY <1>2, <2>1, SMTT(60) DEF SystemInv, SyncInv, AgentOK
    <2>8. WatchOK(stream, watching, events', revision')
        <3>1. events \in 0 .. 2 * revision /\ watching \in BOOLEAN /\ (stream.pc = "none" => ~watching)
            BY DEF SystemInv, SyncInv, WatchOK
        <3>2. events' \in {0} \cup {events + n : n \in 1 .. 2}
            BY <2>3, SMTT(60) DEF Notify
        <3>3. events' \in 0 .. 2 * revision'
            BY <1>2, <2>1, <3>1, <3>2, SMTT(60)
        <3>. QED
            BY <3>1, <3>3 DEF WatchOK
    <2>. QED
        BY <2>5, <2>6, <2>7, <2>8 DEF SystemInv, SyncInv
<1>. QED
    BY <1>1, <1>2, RequestWrites DEF RestStep, SystemInv

(* With every backend's VIP in the store, none is lost when the backends   *)
(* are grouped by VIP.                                                     *)
LEMMA GroupedAll ==
    ASSUME StoreInv
    PROVE  Grouped(vips) = backends
<1>1. backends \in [Backends -> BackendSpec \cup {None}]
    BY DEF StoreInv, TypeOK, store, Stored
<1>2. \A b \in Backends : backends[b] # None => vips[backends[b].vip] # None
    BY DEF StoreInv, Parented, store
<1>. QED
    BY <1>1, <1>2 DEF Grouped

(* The grouping leaves out what has no VIP in the list.                    *)
LEMMA GroupedLinked ==
    ASSUME StoreInv, NEW listed
    PROVE  /\ Grouped(listed) \in StoredBackends
           /\ \A b \in Backends : Grouped(listed)[b] # None => listed[Grouped(listed)[b].vip] # None
<1>1. backends \in [Backends -> BackendSpec \cup {None}]
    BY DEF StoreInv, TypeOK, store, Stored
<1>. QED
    BY <1>1 DEF Grouped, StoredBackends

(* A step of GetConfig: the goroutine goes on with a configuration of the  *)
(* right kind, and a complete one has no backend without its VIP.          *)
LEMMA ReadStep ==
    ASSUME SystemInv, NEW p, p.pc \in Reads, p.config \in Config,
           Exact(p.config, driver, revision, history)
    PROVE  \E q \in Reads \cup {"read"}, c \in Config :
               /\ GetConfig(p) = [p EXCEPT !.pc = q, !.config = c]
               /\ Exact(c, driver, revision, history)
               /\ q = "read" => Linked(c)
<1>1. /\ driver \in {"etcd", "mysql"} /\ StoreInv
      /\ vips \in StoredVIPs /\ backends \in StoredBackends
      /\ revision \in Nat /\ revision >= 1 /\ history[revision] = Contents
    BY SMTT(60) DEF SystemInv, SyncInv, StoreInv, TypeOK, store, Stored, StoredVIPs, StoredBackends
<1>2. CASE driver = "mysql"
    <2>. DEFINE c == [vips |-> vips, backends |-> Grouped(vips), revision |-> revision]
    <2>1. GetConfig(p) = [p EXCEPT !.pc = "read", !.config = c]
        BY <1>2 DEF GetConfig
    <2>2. c \in Config
        BY <1>1, GroupedAll DEF Config
    <2>3. Exact(c, driver, revision, history)
        BY <1>1, GroupedAll, SMTT(60) DEF Exact, Content, Contents
    <2>4. Linked(c)
        BY <1>1, GroupedLinked DEF Linked
    <2>. HIDE DEF c
    <2>. QED
        BY <2>1, <2>2, <2>3, <2>4
<1>3. CASE driver # "mysql" /\ p.pc = "list"
    <2>. DEFINE c == [NoConfig EXCEPT !.vips = vips]
    <2>1. GetConfig(p) = [p EXCEPT !.pc = "revision", !.config = c]
        BY <1>3 DEF GetConfig
    <2>2. c = [vips |-> vips, backends |-> None, revision |-> 0]
        BY SMTT(60) DEF NoConfig
    <2>3. c \in Config /\ Exact(c, driver, revision, history)
        BY <1>1, <1>3, <2>2, SMTT(60) DEF Config, Exact
    <2>. HIDE DEF c
    <2>. QED
        BY <2>1, <2>3 DEF Reads
<1>4. CASE driver # "mysql" /\ p.pc = "revision"
    <2>. DEFINE c == [p.config EXCEPT !.revision = revision]
    <2>1. GetConfig(p) = [p EXCEPT !.pc = "backends", !.config = c]
        BY <1>4 DEF GetConfig
    <2>2. c \in Config /\ c.revision = revision
        BY <1>1 DEF Config
    <2>3. Exact(c, driver, revision, history)
        BY <1>1, <1>4, <2>2, SMTT(60) DEF Exact
    <2>. HIDE DEF c
    <2>. QED
        BY <2>1, <2>2, <2>3 DEF Reads
<1>5. CASE driver # "mysql" /\ p.pc = "backends"
    <2>. DEFINE g == Grouped(p.config.vips)
                c == [p.config EXCEPT !.backends = g]
    <2>1. GetConfig(p) = [p EXCEPT !.pc = "read", !.config = c]
        BY <1>5 DEF GetConfig
    <2>2. /\ g \in StoredBackends
          /\ \A b \in Backends : g[b] # None => p.config.vips[g[b].vip] # None
        BY <1>1, GroupedLinked
    <2>. HIDE DEF g
    <2>3. c \in Config /\ c.revision = p.config.revision /\ c.vips = p.config.vips /\ c.backends = g
        BY <2>2 DEF Config
    <2>4. Exact(c, driver, revision, history)
        BY <1>5, <2>3 DEF Exact
    <2>5. Linked(c)
        BY <2>2, <2>3 DEF Linked
    <2>. HIDE DEF c
    <2>. QED
        BY <2>1, <2>3, <2>4, <2>5
<1>. QED
    BY <1>2, <1>3, <1>4, <1>5 DEF Reads

-----------------------------------------------------------------------------
(* The processes.                                                          *)

(* What a process holds when it holds no configuration.                    *)
LEMMA Blank ==
    ASSUME SystemInv
    PROVE  /\ \A q \in MainPc \ {"read", "handle"} :
                  MainOK([Idle EXCEPT !.pc = q], driver, revision, history)
           /\ \A q \in BeatPc \ {"read", "handle"}, a \in Nat :
                  BeatOK([NoCall EXCEPT !.pc = q, !.asked = a], driver, revision, history)
           /\ BeatOK(BeatIdle, driver, revision, history)
           /\ BeatOK(NoCall, driver, revision, history)
           /\ StreamOK(NoStream, driver, revision, history)
           /\ StreamOK([NoStream EXCEPT !.pc = "wait"], driver, revision, history)
           /\ \A a \in Nat :
                  StreamOK([NoStream EXCEPT !.pc = "open", !.asked = a, !.first = TRUE], driver, revision, history)
           /\ SentOK(<<>>, driver, revision, history)
<1>1. NoConfig \in Config /\ Exact(NoConfig, driver, revision, history)
    BY SMTT(60) DEF SystemInv, StoreInv, TypeOK, NoConfig, Config, Exact
<1>2. ASSUME NEW q \in MainPc \ {"read", "handle"}
      PROVE  MainOK([Idle EXCEPT !.pc = q], driver, revision, history)
    BY <1>1 DEF Idle, MainOK, Mains
<1>3. ASSUME NEW q \in BeatPc \ {"read", "handle"}, NEW a \in Nat
      PROVE  BeatOK([NoCall EXCEPT !.pc = q, !.asked = a], driver, revision, history)
    BY <1>1 DEF NoCall, BeatOK, Beats
<1>4. BeatOK(BeatIdle, driver, revision, history)
    BY <1>1 DEF NoCall, BeatIdle, BeatOK, Beats, BeatPc
<1>5. BeatOK(NoCall, driver, revision, history)
    BY <1>1 DEF NoCall, BeatOK, Beats, BeatPc
<1>6. StreamOK(NoStream, driver, revision, history)
    BY <1>1 DEF NoStream, StreamOK, Streams, StreamPc
<1>7. StreamOK([NoStream EXCEPT !.pc = "wait"], driver, revision, history)
    BY <1>1 DEF NoStream, StreamOK, Streams, StreamPc
<1>8. ASSUME NEW a \in Nat
      PROVE  StreamOK([NoStream EXCEPT !.pc = "open", !.asked = a, !.first = TRUE], driver, revision, history)
    BY <1>1 DEF NoStream, StreamOK, Streams, StreamPc
<1>9. SentOK(<<>>, driver, revision, history)
    BY SentAssumption, SMTT(60) DEF SentOK
<1>. QED
    BY <1>2, <1>3, <1>4, <1>5, <1>6, <1>7, <1>8, <1>9

(* While the store stays as it is, the invariant is a matter of what each  *)
(* process holds.                                                          *)
LEMMA SyncFrame ==
    ASSUME SyncInv, UNCHANGED <<driver, revision, history>>, phase' \in Phases,
           MainOK(main', driver, revision, history),
           BeatOK(beat', driver, revision, history),
           StreamOK(stream', driver, revision, history),
           SentOK(sent', driver, revision, history),
           AgentOK(currentRevision', applied', revision),
           WatchOK(stream', watching', events', revision)
    PROVE  SyncInv'
BY DEF SyncInv

(* Closing the connection leaves blank streams and calls.                  *)
LEMMA DisconnectKeeps ==
    ASSUME SystemInv, Disconnect
    PROVE  /\ StreamOK(stream', driver, revision, history)
           /\ SentOK(sent', driver, revision, history)
           /\ BeatOK(beat', driver, revision, history)
           /\ WatchOK(stream', watching', events', revision)
<1>1. stream' = NoStream /\ sent' = <<>> /\ watching' = FALSE /\ events' = 0
    BY DEF Disconnect
<1>2. beat' = BeatIdle \/ beat' = beat
    BY DEF Disconnect, BeatIdle
<1>3. BeatOK(beat, driver, revision, history) /\ revision \in Nat
    BY DEF SystemInv, SyncInv, StoreInv, TypeOK
<1>4. WatchOK(stream', watching', events', revision)
    <2>1. watching' \in BOOLEAN /\ ~watching'
        BY <1>1
    <2>2. events' \in 0 .. 2 * revision
        BY <1>1, <1>3, SMTT(60)
    <2>. QED
        BY <2>1, <2>2 DEF WatchOK
<1>. QED
    BY <1>1, <1>2, <1>3, <1>4, Blank

(* An error ends the attempt of the watch loop or of Start.                *)
LEMMA MainFailsKeeps ==
    ASSUME SystemInv, MainFails, UNCHANGED <<vars, history>>
    PROVE  SyncInv'
<1>1. /\ Disconnect
      /\ UNCHANGED <<driver, currentRevision, applied, revision, history>>
      /\ main' = [Idle EXCEPT !.pc = "off"] \/ main' = [Idle EXCEPT !.pc = "connect"]
      /\ phase' = "stopped" \/ phase' = phase
    BY DEF MainFails, vars
<1>2. SyncInv /\ phase \in Phases /\ AgentOK(currentRevision, applied, revision)
    BY DEF SystemInv, SyncInv
<1>3. MainOK(main', driver, revision, history)
    <2>1. {"off", "connect"} \subseteq MainPc \ {"read", "handle"}
        BY DEF MainPc
    <2>. QED
        BY <1>1, <2>1, Blank
<1>4. phase' \in Phases /\ AgentOK(currentRevision', applied', revision)
    BY <1>1, <1>2 DEF Phases
<1>. QED
    BY <1>1, <1>2, <1>3, <1>4, DisconnectKeeps, SyncFrame

(* A configuration without stray backends that the agent's checks accept   *)
(* can be programmed.                                                      *)
LEMMA DeliveredUsable ==
    ASSUME NEW c, Linked(c), Delivered(c)
    PROVE  Usable(c)
BY DEF Linked, Delivered, ValidDataPlane, Usable

(* What the invariant says of each process.                                *)
LEMMA Holds ==
    ASSUME SystemInv
    PROVE  /\ SyncInv /\ revision \in Nat /\ phase \in Phases
           /\ MainOK(main, driver, revision, history)
           /\ BeatOK(beat, driver, revision, history)
           /\ StreamOK(stream, driver, revision, history)
           /\ SentOK(sent, driver, revision, history)
           /\ AgentOK(currentRevision, applied, revision)
           /\ WatchOK(stream, watching, events, revision)
BY DEF SystemInv, SyncInv, StoreInv, TypeOK

(* The steps of the main goroutine that hand no configuration on.          *)
LEMMA MainMoves ==
    ASSUME SystemInv, UNCHANGED <<vars, history>>,
           StartClient \/ Connect \/ Watch \/ MainExits \/ StopReturns \/ StopClient
    PROVE  SyncInv'
<1>0. {"off", "connect", "list", "watch", "recv", "done"} \subseteq MainPc \ {"read", "handle"}
    BY DEF MainPc, Reads
<1>1. revision' = revision /\ history' = history
    BY DEF vars
<1>2. CASE StartClient
    <2>1. /\ phase' = "starting" /\ main' = [Idle EXCEPT !.pc = "connect"] /\ beat' = NoCall
          /\ UNCHANGED <<driver, currentRevision, applied, stream, watching, events, sent>>
        BY <1>2 DEF StartClient, streamVars
    <2>2. MainOK(main', driver, revision, history) /\ BeatOK(beat', driver, revision, history)
        BY <1>0, <2>1, Blank
    <2>. QED
        BY <1>1, <2>1, <2>2, Holds, SyncFrame DEF Phases
<1>3. CASE Connect
    <2>1. /\ UNCHANGED <<driver, phase, currentRevision, applied, beat, stream, watching, events, sent>>
          /\ main' = [Idle EXCEPT !.pc = "list"] \/ main' = [Idle EXCEPT !.pc = "watch"]
        BY <1>3 DEF Connect, streamVars
    <2>2. MainOK(main', driver, revision, history)
        BY <1>0, <2>1, Blank
    <2>. QED
        BY <1>1, <2>1, <2>2, Holds, SyncFrame
<1>4. CASE Watch
    <2>1. /\ UNCHANGED <<driver, phase, currentRevision, applied, beat, watching, events>>
          /\ main' = [Idle EXCEPT !.pc = "recv"] /\ sent' = <<>>
          /\ stream' = [NoStream EXCEPT !.pc = "open", !.asked = currentRevision, !.first = TRUE]
        BY <1>4 DEF Watch, clientVars
    <2>2. currentRevision \in Nat
        BY Holds, SMTT(60) DEF AgentOK
    <2>3. /\ MainOK(main', driver, revision, history)
          /\ SentOK(sent', driver, revision, history)
          /\ StreamOK(stream', driver, revision, history)
        BY <1>0, <2>1, <2>2, Blank
    <2>4. stream'.pc = "open"
        BY <2>1 DEF NoStream
    <2>5. WatchOK(stream', watching', events', revision)
        BY <2>1, <2>4, Holds DEF WatchOK
    <2>. QED
        BY <1>1, <2>1, <2>3, <2>5, Holds, SyncFrame
<1>5. CASE MainExits
    <2>1. /\ UNCHANGED <<driver, phase, currentRevision, applied>> /\ Disconnect
          /\ main' = [Idle EXCEPT !.pc = "done"]
        BY <1>5 DEF MainExits
    <2>2. MainOK(main', driver, revision, history)
        BY <1>0, <2>1, Blank
    <2>. QED
        BY <1>1, <2>1, <2>2, Holds, DisconnectKeeps, SyncFrame
<1>6. CASE StopReturns \/ StopClient
    <2>1. /\ UNCHANGED <<driver, currentRevision, applied, main, beat, stream, watching, events, sent>>
          /\ phase' \in Phases
        BY <1>6 DEF StopReturns, StopClient, streamVars, Phases
    <2>. QED
        BY <1>1, <2>1, Holds, SyncFrame
<1>. QED
    BY <1>2, <1>3, <1>4, <1>5, <1>6

(* The steps of the main goroutine that fail.                              *)
LEMMA MainErrors ==
    ASSUME SystemInv, UNCHANGED <<vars, history>>,
           ConnectFails \/ RegisterFails \/ HandleMainFails \/ RecvFails
    PROVE  SyncInv'
BY MainFailsKeeps DEF ConnectFails, RegisterFails, HandleMainFails, RecvFails

(* Register: the configuration that RegisterAgent reads, and what the      *)
(* client makes of it.                                                     *)
LEMMA RegisterKeeps ==
    ASSUME SystemInv, UNCHANGED <<vars, history>>, Register \/ Registered
    PROVE  SyncInv'
<1>1. revision' = revision /\ history' = history
    BY DEF vars
<1>2. main \in Mains /\ Exact(main.config, driver, revision, history) /\ (main.pc = "read" => Linked(main.config))
    BY Holds DEF MainOK
<1>3. CASE Register
    <2>1. /\ UNCHANGED <<driver, phase, currentRevision, applied, beat, stream, watching, events, sent>>
          /\ main' = GetConfig(main) /\ main.pc \in Reads
        BY <1>3 DEF Register, clientVars, streamVars
    <2>2. main.config \in Config
        BY <1>2 DEF Mains
    <2>3. PICK q \in Reads \cup {"read"}, c \in Config :
              /\ main' = [main EXCEPT !.pc = q, !.config = c]
              /\ Exact(c, driver, revision, history)
              /\ q = "read" => Linked(c)
        BY <1>2, <2>1, <2>2, ReadStep
    <2>4. main' \in Mains /\ main'.pc = q /\ main'.config = c /\ q # "handle"
        BY <1>2, <2>3 DEF Mains, MainPc, Reads
    <2>5. MainOK(main', driver, revision, history)
        BY <2>3, <2>4 DEF MainOK
    <2>. QED
        BY <1>1, <2>1, <2>5, Holds, SyncFrame
<1>4. CASE Registered /\ Delivered(main.config)
    <2>1. /\ UNCHANGED <<driver, phase, currentRevision, applied, beat, stream, watching, events, sent>>
          /\ main' = [main EXCEPT !.pc = "handle"] /\ main.pc = "read"
        BY <1>4 DEF Registered, clientVars, streamVars
    <2>2. main' \in Mains /\ main'.pc = "handle" /\ main'.config = main.config
        BY <1>2, <2>1 DEF Mains, MainPc, InHandler
    <2>3. Usable(main.config)
        BY <1>2, <1>4, <2>1, DeliveredUsable
    <2>4. MainOK(main', driver, revision, history)
        BY <1>2, <2>2, <2>3 DEF MainOK
    <2>. QED
        BY <1>1, <2>1, <2>4, Holds, SyncFrame
<1>5. CASE Registered /\ ~Delivered(main.config)
    BY <1>5, MainFailsKeeps DEF Registered
<1>. QED
    BY <1>3, <1>4, <1>5

(* Recv: the configuration at the head of the stream.                      *)
LEMMA RecvKeeps ==
    ASSUME SystemInv, UNCHANGED <<vars, history>>, Recv
    PROVE  SyncInv'
<1>1. revision' = revision /\ history' = history
    BY DEF vars
<1>2. CASE Delivered(Head(sent))
    <2>1. /\ UNCHANGED <<driver, phase, currentRevision, applied, beat, stream, watching, events>>
          /\ main' = [pc |-> "handle", config |-> Head(sent)] /\ sent' = Tail(sent) /\ sent # <<>>
        BY <1>2 DEF Recv, clientVars
    <2>2. /\ sent \in Seq(Config) /\ Len(sent) <= MaxSent
          /\ \A i \in 1 .. Len(sent) : Exact(sent[i], driver, revision, history) /\ Linked(sent[i])
        BY Holds DEF SentOK
    <2>3. /\ Head(sent) \in Config /\ Head(sent) = sent[1] /\ 1 \in 1 .. Len(sent)
          /\ Tail(sent) \in Seq(Config) /\ Len(Tail(sent)) = Len(sent) - 1 /\ Len(sent) \in Nat
        BY <2>1, <2>2, SMTT(60)
    <2>4. \A i \in 1 .. Len(Tail(sent)) : Tail(sent)[i] = sent[i + 1] /\ i + 1 \in 1 .. Len(sent)
        BY <2>1, <2>2, <2>3, SMTT(60)
    <2>5. SentOK(sent', driver, revision, history)
        <3>1. Len(Tail(sent)) <= MaxSent
            BY <2>2, <2>3, SentAssumption, SMTT(60)
        <3>. QED
            BY <2>1, <2>2, <2>3, <2>4, <3>1 DEF SentOK
    <2>6. Exact(Head(sent), driver, revision, history) /\ Linked(Head(sent))
        BY <2>2, <2>3
    <2>7. Usable(Head(sent))
        BY <1>2, <2>6, DeliveredUsable
    <2>8. main' \in Mains /\ main'.pc = "handle" /\ main'.config = Head(sent)
        <3>. DEFINE c == Head(sent)
        <3>. HIDE DEF c
        <3>1. c \in Config /\ main' = [pc |-> "handle", config |-> c]
            BY <2>1, <2>3 DEF c
        <3>2. main' \in Mains /\ main'.pc = "handle" /\ main'.config = c
            BY <3>1 DEF Mains, MainPc, InHandler
        <3>. QED
            BY <3>2 DEF c
    <2>9. MainOK(main', driver, revision, history)
        BY <2>6, <2>7, <2>8 DEF MainOK
    <2>. QED
        BY <1>1, <2>1, <2>5, <2>9, Holds, SyncFrame
<1>3. CASE ~Delivered(Head(sent))
    BY <1>3, MainFailsKeeps DEF Recv
<1>. QED
    BY <1>2, <1>3

(* applyConfig in the two loops: the handler is given a configuration that *)
(* was checked, and its revision is set.                                   *)
LEMMA HandleKeeps ==
    ASSUME SystemInv, UNCHANGED <<vars, history>>, HandleMain \/ SetMain \/ HandleBeat \/ SetBeat
    PROVE  SyncInv'
<1>1. revision' = revision /\ history' = history
    BY DEF vars
<1>2. /\ main \in Mains /\ Exact(main.config, driver, revision, history)
      /\ beat \in Beats /\ Exact(beat.config, driver, revision, history)
    BY Holds DEF MainOK, BeatOK
<1>3. revision \in Nat /\ AgentOK(currentRevision, applied, revision)
    BY Holds
<1>4. ASSUME NEW c \in Config, Usable(c), Handled(c), currentRevision' = currentRevision
      PROVE  AgentOK(currentRevision', applied', revision)
    BY <1>3, <1>4 DEF Handled, AgentOK, Usable, Content
<1>5. ASSUME NEW c \in Config, Exact(c, driver, revision, history), SetCurrentRevision(c), applied' = applied
      PROVE  AgentOK(currentRevision', applied', revision)
    BY <1>3, <1>5, SMTT(60) DEF SetCurrentRevision, AgentOK, Exact, Config
<1>6. main.config \in Config /\ beat.config \in Config
    BY <1>2 DEF Mains, Beats
<1>7. CASE HandleMain
    <2>1. /\ UNCHANGED <<driver, phase, currentRevision, beat, stream, watching, events, sent>>
          /\ main' = [main EXCEPT !.pc = "set"] /\ main.pc = "handle" /\ Handled(main.config)
        BY <1>7 DEF HandleMain, streamVars
    <2>2. main' \in Mains /\ main'.pc = "set" /\ main'.config = main.config
        BY <1>2, <2>1 DEF Mains, MainPc, InHandler
    <2>3. Usable(main.config)
        BY <2>1, Holds DEF MainOK
    <2>4. MainOK(main', driver, revision, history)
        BY <1>2, <2>2 DEF MainOK
    <2>5. AgentOK(currentRevision', applied', revision)
        BY <1>4, <1>6, <2>1, <2>3
    <2>. QED
        BY <1>1, <2>1, <2>4, <2>5, Holds, SyncFrame
<1>8. CASE SetMain
    <2>1. /\ UNCHANGED <<driver, applied, stream, watching, events, sent>>
          /\ SetCurrentRevision(main.config)
          /\ main' = [Idle EXCEPT !.pc = "watch"] \/ main' = [Idle EXCEPT !.pc = "recv"]
          /\ beat' = BeatIdle \/ beat' = beat
          /\ phase' = "running" \/ phase' = phase
        BY <1>8 DEF SetMain, streamVars, BeatIdle
    <2>2. {"watch", "recv"} \subseteq MainPc \ {"read", "handle"}
        BY DEF MainPc
    <2>3. MainOK(main', driver, revision, history) /\ BeatOK(beat', driver, revision, history)
        BY <2>1, <2>2, Blank, Holds
    <2>4. AgentOK(currentRevision', applied', revision)
        BY <1>2, <1>5, <1>6, <2>1
    <2>5. phase' \in Phases
        BY <2>1, Holds DEF Phases
    <2>. QED
        BY <1>1, <2>1, <2>3, <2>4, <2>5, Holds, SyncFrame
<1>9. CASE HandleBeat
    <2>1. /\ UNCHANGED <<driver, phase, currentRevision, main, stream, watching, events, sent>>
          /\ beat' = [beat EXCEPT !.pc = "set"] /\ beat.pc = "handle" /\ Handled(beat.config)
        BY <1>9 DEF HandleBeat, streamVars
    <2>2. beat' \in Beats /\ beat'.pc = "set" /\ beat'.config = beat.config
        BY <1>2, <2>1 DEF Beats, BeatPc, InHandler
    <2>3. Usable(beat.config)
        BY <2>1, Holds DEF BeatOK
    <2>4. BeatOK(beat', driver, revision, history)
        BY <1>2, <2>2 DEF BeatOK
    <2>5. AgentOK(currentRevision', applied', revision)
        BY <1>4, <1>6, <2>1, <2>3
    <2>. QED
        BY <1>1, <2>1, <2>4, <2>5, Holds, SyncFrame
<1>10. CASE SetBeat
    <2>1. /\ UNCHANGED <<driver, phase, applied, main, stream, watching, events, sent>>
          /\ SetCurrentRevision(beat.config) /\ beat' = BeatIdle
        BY <1>10 DEF SetBeat, streamVars
    <2>2. BeatOK(beat', driver, revision, history)
        BY <2>1, Blank
    <2>3. AgentOK(currentRevision', applied', revision)
        BY <1>2, <1>5, <1>6, <2>1
    <2>. QED
        BY <1>1, <2>1, <2>2, <2>3, Holds, SyncFrame
<1>. QED
    BY <1>7, <1>8, <1>9, <1>10

(* The heartbeat loop, with the calls that it makes.                       *)
LEMMA BeatKeeps ==
    ASSUME SystemInv, UNCHANGED <<vars, history>>,
           \/ SendHeartbeat \/ Heartbeat \/ CompareRevision \/ FetchConfig \/ Fetched
           \/ BeatExits \/ BeatFails
    PROVE  SyncInv'
<1>1. /\ revision' = revision /\ history' = history
      /\ UNCHANGED <<driver, phase, currentRevision, applied, main, stream, watching, events, sent>>
    BY
    DEF vars, SendHeartbeat, Heartbeat, CompareRevision, FetchConfig, Fetched, BeatExits,
        BeatFails, BeatStep, clientVars, streamVars
<1>2. /\ beat \in Beats /\ Exact(beat.config, driver, revision, history)
      /\ beat.pc = "read" => Linked(beat.config)
    BY Holds DEF BeatOK
<1>3. beat.config \in Config /\ currentRevision \in Nat
    BY <1>2, Holds, SMTT(60) DEF Beats, AgentOK
<1>4. {"heartbeat", "compare"} \subseteq BeatPc \ {"read", "handle"}
    BY DEF BeatPc, Calling
<1>. SUFFICES BeatOK(beat', driver, revision, history)
    BY <1>1, Holds, SyncFrame
<1>5. CASE SendHeartbeat
    BY <1>3, <1>4, <1>5, Blank DEF SendHeartbeat, BeatStep
<1>6. CASE Heartbeat
    <2>1. beat' = [NoCall EXCEPT !.pc = "compare", !.asked = currentRevision] \/ beat' = BeatIdle
        BY <1>6 DEF Heartbeat, BeatStep
    <2>. QED
        BY <1>3, <1>4, <2>1, Blank
<1>7. CASE CompareRevision
    <2>1. beat' = [beat EXCEPT !.pc = "list"] \/ beat' = BeatIdle
        BY <1>7 DEF CompareRevision, BeatStep
    <2>2. CASE beat' = [beat EXCEPT !.pc = "list"]
        <3>1. beat' \in Beats /\ beat'.pc = "list" /\ beat'.config = beat.config
            BY <1>2, <2>2 DEF Beats, BeatPc, Calling, Reads
        <3>. QED
            BY <1>2, <3>1 DEF BeatOK
    <2>. QED
        BY <2>1, <2>2, Blank
<1>8. CASE FetchConfig
    <2>1. beat.pc \in Reads /\ beat' = GetConfig(beat)
        BY <1>8 DEF FetchConfig, BeatStep
    <2>2. PICK q \in Reads \cup {"read"}, c \in Config :
              /\ beat' = [beat EXCEPT !.pc = q, !.config = c]
              /\ Exact(c, driver, revision, history)
              /\ q = "read" => Linked(c)
        BY <1>2, <1>3, <2>1, ReadStep
    <2>3. beat' \in Beats /\ beat'.pc = q /\ beat'.config = c /\ q # "handle"
        BY <1>2, <2>2 DEF Beats, BeatPc, Calling, Reads
    <2>. QED
        BY <2>2, <2>3 DEF BeatOK
<1>9. CASE Fetched
    <2>1. /\ beat.pc = "read"
          /\ beat' = BeatIdle \/ (beat' = [beat EXCEPT !.pc = "handle"] /\ Delivered(beat.config))
        <3>1. CASE Unchanged(beat.asked, beat.config.revision) \/ ~Delivered(beat.config)
            BY <1>9, <3>1 DEF Fetched, BeatStep
        <3>2. CASE ~(Unchanged(beat.asked, beat.config.revision) \/ ~Delivered(beat.config))
            BY <1>9, <3>2 DEF Fetched, BeatStep
        <3>. QED
            BY <3>1, <3>2
    <2>2. CASE beat' = [beat EXCEPT !.pc = "handle"] /\ Delivered(beat.config)
        <3>1. beat' \in Beats /\ beat'.pc = "handle" /\ beat'.config = beat.config
            BY <1>2, <2>2 DEF Beats, BeatPc, InHandler
        <3>2. Usable(beat.config)
            BY <1>2, <2>1, <2>2, DeliveredUsable
        <3>. QED
            BY <1>2, <3>1, <3>2 DEF BeatOK
    <2>. QED
        BY <2>1, <2>2, Blank
<1>10. CASE BeatExits \/ BeatFails
    BY <1>10, Blank DEF BeatExits, BeatFails, BeatStep
<1>. QED
    BY <1>5, <1>6, <1>7, <1>8, <1>9, <1>10

(* WatchConfig: the watch comes and goes with the stream, and what is sent *)
(* was read from the store.                                                *)
LEMMA StreamKeeps ==
    ASSUME SystemInv, UNCHANGED <<vars, history>>,
           \/ OpenWatch \/ WatchInPlace \/ ReadConfig \/ ReadConfigFails \/ SendConfig
           \/ TakeEvents \/ StreamEnds
    PROVE  SyncInv'
<1>1. /\ revision' = revision /\ history' = history
      /\ UNCHANGED <<driver, phase, currentRevision, applied, main, beat>>
    BY
    DEF vars, OpenWatch, WatchInPlace, ReadConfig, ReadConfigFails, SendConfig, TakeEvents,
        StreamEnds, clientVars
<1>2. /\ stream \in Streams /\ Exact(stream.config, driver, revision, history)
      /\ stream.pc = "read" => Linked(stream.config)
    BY Holds DEF StreamOK
<1>3. stream.config \in Config
    BY <1>2 DEF Streams
<1>4. /\ revision \in Nat /\ watching \in BOOLEAN /\ events \in 0 .. 2 * revision
      /\ stream.pc = "none" => ~watching
    BY Holds DEF WatchOK
<1>. SUFFICES /\ StreamOK(stream', driver, revision, history)
              /\ SentOK(sent', driver, revision, history)
              /\ WatchOK(stream', watching', events', revision)
    BY <1>1, Holds, SyncFrame
<1>5. ASSUME NEW q \in StreamPc \ {"read"}, stream' = [stream EXCEPT !.pc = q]
      PROVE  StreamOK(stream', driver, revision, history) /\ stream'.pc = q
    <2>1. stream' \in Streams /\ stream'.pc = q /\ stream'.config = stream.config
        BY <1>2, <1>5 DEF Streams
    <2>. QED
        BY <1>2, <2>1 DEF StreamOK
<1>6. "list" \in StreamPc \ {"read"}
    BY DEF StreamPc, Reads
<1>7. CASE OpenWatch
    <2>1. /\ stream' = [stream EXCEPT !.pc = "list"] /\ sent' = sent /\ events' = 0
          /\ watching' \in BOOLEAN
        BY <1>7 DEF OpenWatch
    <2>2. StreamOK(stream', driver, revision, history) /\ stream'.pc = "list"
        BY <1>5, <1>6, <2>1
    <2>3. events' \in 0 .. 2 * revision
        BY <1>4, <2>1, SMTT(60)
    <2>4. WatchOK(stream', watching', events', revision)
        BY <2>1, <2>2, <2>3 DEF WatchOK
    <2>. QED
        BY <2>1, <2>2, <2>4, Holds
<1>8. CASE WatchInPlace
    <2>1. stream' = stream /\ sent' = sent /\ events' = events /\ watching' = TRUE /\ stream.pc # "none"
        BY <1>8 DEF WatchInPlace
    <2>2. WatchOK(stream', watching', events', revision)
        BY <1>4, <2>1 DEF WatchOK
    <2>. QED
        BY <2>1, <2>2, Holds
<1>9. CASE ReadConfig
    <2>1. /\ stream.pc \in Reads /\ stream' = GetConfig(stream) /\ sent' = sent
          /\ events' = events /\ watching' = watching
        BY <1>9 DEF ReadConfig
    <2>2. PICK q \in Reads \cup {"read"}, c \in Config :
              /\ stream' = [stream EXCEPT !.pc = q, !.config = c]
              /\ Exact(c, driver, revision, history)
              /\ q = "read" => Linked(c)
        BY <1>2, <1>3, <2>1, ReadStep
    <2>3. stream' \in Streams /\ stream'.pc = q /\ stream'.config = c /\ q # "none"
        BY <1>2, <2>2 DEF Streams, StreamPc, Reads
    <2>4. StreamOK(stream', driver, revision, history)
        BY <2>2, <2>3 DEF StreamOK
    <2>5. WatchOK(stream', watching', events', revision)
        BY <1>4, <2>1, <2>3 DEF WatchOK
    <2>. QED
        BY <2>1, <2>4, <2>5, Holds
<1>10. CASE ReadConfigFails
    <2>1. /\ stream' = [NoStream EXCEPT !.pc = "wait"] /\ sent' = sent
          /\ events' = events /\ watching' = watching
        BY <1>10 DEF ReadConfigFails
    <2>2. stream'.pc # "none"
        BY <2>1 DEF NoStream
    <2>3. WatchOK(stream', watching', events', revision)
        BY <1>4, <2>1, <2>2 DEF WatchOK
    <2>. QED
        BY <2>1, <2>3, Blank, Holds
<1>11. CASE SendConfig
    <2>1. /\ stream.pc = "read" /\ Len(sent) < MaxSent
          /\ stream' = NoStream \/ stream' = [NoStream EXCEPT !.pc = "wait"]
          /\ sent' = Append(sent, stream.config) \/ sent' = sent
        BY <1>11 DEF SendConfig
    <2>2. IF stream'.pc = "none" THEN watching' = FALSE /\ events' = 0
          ELSE UNCHANGED <<watching, events>>
        BY <1>11 DEF SendConfig
    <2>3. StreamOK(stream', driver, revision, history)
        BY <2>1, Blank
    <2>4. WatchOK(stream', watching', events', revision)
        <3>1. CASE stream'.pc = "none"
            <4>1. watching' \in BOOLEAN /\ ~watching' /\ events' = 0
                BY <2>2, <3>1
            <4>2. events' \in 0 .. 2 * revision
                BY <1>4, <4>1, SMTT(60)
            <4>. QED
                BY <4>1, <4>2 DEF WatchOK
        <3>2. CASE stream'.pc # "none"
            BY <1>4, <2>2, <3>2 DEF WatchOK
        <3>. QED
            BY <3>1, <3>2
    <2>5. CASE sent' = Append(sent, stream.config)
        <3>1. /\ sent \in Seq(Config) /\ Len(sent) < MaxSent
              /\ \A i \in 1 .. Len(sent) : Exact(sent[i], driver, revision, history) /\ Linked(sent[i])
            BY <2>1, Holds DEF SentOK
        <3>. DEFINE c == stream.config
        <3>2. c \in Config /\ Exact(c, driver, revision, history) /\ Linked(c)
            BY <1>2, <1>3, <2>1
        <3>3. sent' = Append(sent, c)
            BY <2>5
        <3>. HIDE DEF c
        <3>4. /\ sent' \in Seq(Config) /\ Len(sent') <= MaxSent
              /\ \A i \in 1 .. Len(sent') : sent'[i] = c \/ (i \in 1 .. Len(sent) /\ sent'[i] = sent[i])
            BY <3>1, <3>2, <3>3, SentAssumption, SMTT(60)
        <3>. QED
            BY <2>3, <2>4, <3>1, <3>2, <3>4 DEF SentOK
    <2>. QED
        BY <2>1, <2>3, <2>4, <2>5, Holds
<1>12. CASE TakeEvents
    <2>1. /\ stream' = [stream EXCEPT !.pc = "list"] /\ sent' = sent /\ watching' = watching
          /\ events > 0 /\ events' \in 0 .. events - 1
        BY <1>12 DEF TakeEvents
    <2>2. StreamOK(stream', driver, revision, history) /\ stream'.pc = "list"
        BY <1>5, <1>6, <2>1
    <2>3. events' \in 0 .. 2 * revision
        BY <1>4, <2>1, SMTT(60)
    <2>4. WatchOK(stream', watching', events', revision)
        BY <1>4, <2>1, <2>2, <2>3 DEF WatchOK
    <2>. QED
        BY <2>1, <2>2, <2>4, Holds
<1>13. CASE StreamEnds
    <2>1. /\ stream' = NoStream /\ watching' = FALSE /\ events' = 0
          /\ sent' = sent \/ sent' = <<>>
        BY <1>13 DEF StreamEnds
    <2>2. watching' \in BOOLEAN /\ ~watching'
        BY <2>1
    <2>3. events' \in 0 .. 2 * revision
        BY <1>4, <2>1, SMTT(60)
    <2>4. WatchOK(stream', watching', events', revision)
        BY <2>2, <2>3 DEF WatchOK
    <2>. QED
        BY <2>1, <2>4, Blank, Holds
<1>. QED
    BY <1>7, <1>8, <1>9, <1>10, <1>11, <1>12, <1>13

-----------------------------------------------------------------------------
(* The system.                                                             *)

(* Every step of the client and of its stream keeps the invariant.         *)
LEMMA SyncStepKeeps ==
    ASSUME SystemInv, SyncStep
    PROVE  SystemInv'
<1>1. UNCHANGED <<vars, history>> /\ UNCHANGED <<vips, backends, revision, handlers, history>>
    BY DEF SyncStep, vars
<1>2. StoreInv'
    BY <1>1 DEF SystemInv, StoreInv, TypeOK, Parented, store, Contents
<1>3. SyncInv'
    BY <1>1, MainMoves, MainErrors, RegisterKeeps, RecvKeeps, HandleKeeps, BeatKeeps, StreamKeeps
    DEF SyncStep, SyncNext, MainNext, BeatNext, StreamNext, Faults
<1>. QED
    BY <1>2, <1>3 DEF SystemInv

(* The invariant of the whole control plane: the store and its history,    *)
(* and what every process of the distribution holds.                       *)
THEOREM SystemInvHolds == System => []SystemInv
<1>1. SystemInit => SystemInv
    <2>. SUFFICES ASSUME SystemInit PROVE SystemInv
        OBVIOUS
    <2>1. PICK s \in InitialStores : vips = s.vips /\ backends = s.backends
        BY DEF SystemInit
    <2>2. s \in Stored /\ Parented(s)
        BY StoresAssumption
    <2>3. revision = 1 /\ handlers = [h \in Handlers |-> NoRequest] /\ history = <<Contents>>
        BY DEF SystemInit, RestInit
    <2>4. store \in Stored /\ Parented(store)
        BY <2>1, <2>2 DEF store, Stored, Parented
    <2>5. Contents \in [vips : StoredVIPs, backends : StoredBackends]
        BY <2>4 DEF store, Stored, Contents, StoredVIPs, StoredBackends
    <2>6. StoreInv
        <3>1. /\ history \in Seq([vips : StoredVIPs, backends : StoredBackends])
              /\ Len(history) = revision
              /\ history[revision] = Contents
            BY <2>3, <2>5, SMTT(60)
        <3>2. handlers \in [Handlers -> Requests]
            BY <2>3 DEF Requests
        <3>3. revision \in 1 .. MaxRevision /\ revision \in Nat
            BY <2>3, RevisionAssumption, SMTT(60)
        <3>. QED
            BY <2>4, <3>1, <3>2, <3>3 DEF StoreInv, TypeOK
    <2>7. /\ driver \in {"etcd", "mysql"} /\ phase = "stopped" /\ currentRevision = 0
          /\ applied = Content(NoConfig) /\ main = Idle /\ beat = NoCall /\ stream = NoStream
          /\ watching = FALSE /\ events = 0 /\ sent = <<>>
        BY DEF SystemInit, SyncInit
    <2>8. NoConfig \in Config /\ Exact(NoConfig, driver, revision, history)
        BY <2>3, SMTT(60) DEF NoConfig, Config, Exact
    <2>9. MainOK(main, driver, revision, history)
        BY <2>7, <2>8 DEF Idle, MainOK, Mains, MainPc
    <2>10. BeatOK(beat, driver, revision, history)
        BY <2>7, <2>8 DEF NoCall, BeatOK, Beats, BeatPc
    <2>11. StreamOK(stream, driver, revision, history)
        BY <2>7, <2>8 DEF NoStream, StreamOK, Streams, StreamPc
    <2>12. SentOK(sent, driver, revision, history)
        BY <2>7, SentAssumption, SMTT(60) DEF SentOK
    <2>13. AgentOK(currentRevision, applied, revision)
        BY <2>3, <2>7, SMTT(60) DEF AgentOK, Content, NoConfig
    <2>14. WatchOK(stream, watching, events, revision)
        <3>1. watching \in BOOLEAN /\ ~watching
            BY <2>7
        <3>2. events \in 0 .. 2 * revision
            BY <2>3, <2>7, SMTT(60)
        <3>. QED
            BY <3>1, <3>2 DEF WatchOK
    <2>. QED
        BY <2>6, <2>7, <2>9, <2>10, <2>11, <2>12, <2>13, <2>14 DEF SystemInv, SyncInv, Phases
<1>2. SystemInv /\ [SystemNext]_systemVars => SystemInv'
    <2>. SUFFICES ASSUME SystemInv, [SystemNext]_systemVars PROVE SystemInv'
        OBVIOUS
    <2>1. CASE RestStep
        BY <2>1, RestStepKeepsStore, RestStepKeepsSync DEF SystemInv
    <2>2. CASE SyncStep
        BY <2>2, SyncStepKeeps
    <2>3. CASE UNCHANGED systemVars
        BY <2>3
        DEF systemVars, vars, syncVars, clientVars, streamVars, SystemInv, StoreInv, SyncInv,
            TypeOK, Parented, store, Contents
    <2>. QED
        BY <2>1, <2>2, <2>3 DEF SystemNext
<1>. QED
    BY <1>1, <1>2, PTL DEF System

(* The types of the composed state: no configuration and no agent is ahead *)
(* of the store, only an open stream has a watch, and the events that wait *)
(* for WatchConfig are no more than two for each write.                    *)
THEOREM SystemTypes == System => []SystemTypeOK
<1>1. SystemInv => SystemTypeOK
    <2>. SUFFICES ASSUME SystemInv PROVE SystemTypeOK
        OBVIOUS
    <2>1. TypeOK /\ revision \in 1 .. MaxRevision /\ MaxRevision \in Nat /\ revision \in Nat
        BY RevisionAssumption DEF SystemInv, StoreInv, TypeOK
    <2>2. currentRevision \in 0 .. revision
        BY Holds DEF AgentOK
    <2>3. /\ main \in Mains /\ main.config.revision <= revision
          /\ beat \in Beats /\ beat.config.revision <= revision
          /\ stream \in Streams /\ stream.config.revision <= revision
          /\ sent \in Seq(Config) /\ Len(sent) <= MaxSent
          /\ \A i \in 1 .. Len(sent) : sent[i].revision <= revision
        BY Holds DEF MainOK, BeatOK, StreamOK, SentOK, Exact
    <2>4. /\ main.config \in Config /\ beat.config \in Config /\ stream.config \in Config
          /\ main.pc \in MainPc /\ beat.pc \in BeatPc /\ stream.pc \in StreamPc
        BY <2>3 DEF Mains, Beats, Streams
    <2>5. ASSUME NEW c \in Configs
          PROVE  c.revision \in 0 .. revision
        <3>1. c \in Config /\ c.revision <= revision
            <4>1. CASE c \in {main.config, beat.config, stream.config}
                BY <2>3, <2>4, <4>1
            <4>2. ASSUME NEW i \in 1 .. Len(sent), c = sent[i]
                  PROVE  c \in Config /\ c.revision <= revision
                BY <2>3, <4>2, SMTT(60)
            <4>3. DOMAIN sent = 1 .. Len(sent)
                BY <2>3, SMTT(60)
            <4>. QED
                BY <2>5, <4>1, <4>2, <4>3 DEF Configs
        <3>. QED
            BY <2>1, <3>1, SMTT(60) DEF Config
    <2>6. /\ stream.pc = "none" => ~watching
          /\ events \in 0 .. 2 * revision
        BY Holds DEF WatchOK
    <2>7. events \in 0 .. 2 * MaxRevision
        BY <2>1, <2>6, SMTT(60)
    <2>. QED
        BY <2>1, <2>2, <2>3, <2>4, <2>5, <2>6, <2>7, Holds
        DEF SystemTypeOK, MainPc, BeatPc, StreamPc, Phases
<1>. QED
    BY <1>1, SystemInvHolds, PTL

(* With MySQL, no configuration that is being read, sent or applied mixes  *)
(* two revisions of the store, whatever is written meanwhile.              *)
THEOREM SystemExactSnapshot == System => []ExactSnapshot
<1>1. SystemInv => ExactSnapshot
    <2>. SUFFICES ASSUME SystemInv, driver = "mysql", NEW c \in Configs
                  PROVE  ~Torn(c)
        BY DEF ExactSnapshot
    <2>1. sent \in Seq(Config)
        BY Holds DEF SentOK
    <2>2. Exact(c, driver, revision, history)
        BY <2>1, Holds, SMTT(60) DEF Configs, MainOK, BeatOK, StreamOK, SentOK
    <2>. QED
        BY <2>2 DEF Exact, Torn
<1>. QED
    BY <1>1, SystemInvHolds, PTL

(* The agent's handler is only given what can be programmed, with either   *)
(* driver and through either loop.                                         *)
THEOREM SystemAppliedIsUsable == System => []AppliedIsUsable
<1>1. SystemInv => AppliedIsUsable
    BY Holds DEF AgentOK, Usable, AppliedIsUsable
<1>. QED
    BY <1>1, SystemInvHolds, PTL

(* A request's write, and that of the other controller, is one operation   *)
(* of the abstract store by the way RestApi is built; no other step        *)
(* writes.  So what holds of the store's steps holds in the system.        *)
LEMMA WritesAreOperations == System => Spec
<1>1. SystemInit => Init
    BY StoresAssumption DEF SystemInit, Init, Stored
<1>2. SystemInv /\ [SystemNext]_systemVars => [Next]_vars
    <2>. SUFFICES ASSUME SystemInv, [SystemNext]_systemVars PROVE [Next]_vars
        OBVIOUS
    <2>1. CASE RestStep
        BY <2>1, RequestWrites DEF RestStep, SystemInv, Next, Write
    <2>2. CASE SyncStep \/ UNCHANGED systemVars
        BY <2>2 DEF SyncStep, systemVars
    <2>. QED
        BY <2>1, <2>2 DEF SystemNext
<1>. QED
    BY <1>1, <1>2, SystemInvHolds, PTL DEF System, Spec

(* Requests that run at once, each of several calls, never make a          *)
(* consistent store inconsistent.                                          *)
THEOREM SystemStaysConsistent == System => StaysConsistent
BY WritesAreOperations, StoreStaysConsistent, PTL
=============================================================================
