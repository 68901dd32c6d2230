---------------------------- MODULE EtcdDatastore ----------------------------
(* internal/common/datastore/etcd: the etcd driver of the controller.      *)
(* etcd executes one request at a time; an operation of the driver is a    *)
(* series of reads, a claim of an index that is missing (older releases    *)
(* kept none), and one transaction that compares what was read and bumps   *)
(* the revision.  Every request is a step, and those of several callers    *)
(* interleave.  A caller may give up between two requests: its deadline    *)
(* passes, a request fails, or the controller is killed.                   *)
EXTENDS DatastoreInterface, SequencesExt

CONSTANTS
    Callers,      \* goroutines of the controllers that call the datastore
    MaxRequests,  \* bound: operations started, a transaction counting for MaxTxSize
    MaxTxSize     \* bound: operations of one transaction

VARIABLES
    kv,           \* key -> value, or None
    revision,     \* the value of the revision key
    modRevision,  \* VIP -> etcd's ModRevision of its key, 0 without key
    call,         \* caller -> the operation it is executing
    started,      \* operations started
    gaveUp        \* a caller gave up before it had cleaned up after a deletion

vars == <<kv, revision, modRevision, call, started, gaveUp>>

VIPKey(v) == <<"vips", v>>
TupleKey(t) == <<"vip-index", t>>
BackendKey(v, b) == <<"backends", v, b>>
BackendPrefix(v) == <<"backends", v>>
IndexKey(b) == <<"backend-index", b>>
IPKey(v, i) == <<"backend-ip-index", v, i>>

Keys ==
    {VIPKey(v) : v \in VIPs} \cup {TupleKey(t) : t \in Tuples}
        \cup {BackendKey(v, b) : v \in VIPs, b \in Backends}
        \cup {IndexKey(b) : b \in Backends}
        \cup {IPKey(v, i) : v \in VIPs, i \in IPs}

-----------------------------------------------------------------------------
(* What an etcd transaction compares and writes.                           *)

Absent(k, err) == [cmp |-> "absent", key |-> k, val |-> None, err |-> err]
Exists(k) == [cmp |-> "exists", key |-> k, val |-> None, err |-> "NotFound"]
Value(k, x) == [cmp |-> "value", key |-> k, val |-> x, err |-> "NotFound"]
Unmodified(v, n) ==
    [cmp |-> "mod", key |-> VIPKey(v), val |-> n, err |-> "Conflict"]

SameRevision(n) == [cmp |-> "revision", key |-> None, val |-> n, err |-> "Conflict"]

Holds(check) ==
    CASE check.cmp = "absent" -> kv[check.key] = None
      [] check.cmp = "exists" -> kv[check.key] # None
      [] check.cmp = "value" -> kv[check.key] = check.val
      [] check.cmp = "mod" -> modRevision[check.key[2]] = check.val
      [] check.cmp = "revision" -> revision = check.val

Put(k, x) == [key |-> k, val |-> x]
Delete(k) == [key |-> k, val |-> None]

\* A deletion of a prefix reaches every key below it.
Reaches(op, k) == IsPrefix(op.key, k)

\* The store after the writes ops, the later ones over the earlier.
Written(ops) ==
    [k \in Keys |->
        LET touching == {j \in DOMAIN ops : Reaches(ops[j], k)}
        IN  IF touching = {} THEN kv[k] ELSE ops[Max(touching)].val]

VIPTouched(ops, v) == \E j \in DOMAIN ops : ops[j].key = VIPKey(v)

-----------------------------------------------------------------------------
(* A caller.  reads are the requests it has still to make before it can    *)
(* build its transaction; what they returned is in the fields below.       *)

NoTx == [open |-> FALSE, size |-> 0,
         created |-> {}, deleted |-> {},          \* VIPs
         spec |-> [v \in VIPs |-> None],          \* vipSpecs
         index |-> [v \in VIPs |-> None],         \* vipTupleIndexKeys
         original |-> [v \in VIPs |-> None],      \* vipOriginalIndexes
         owned |-> {},                            \* vipOriginalOwned
         released |-> {},                         \* vipReleasedTuples
         owner |-> [t \in Tuples |-> None],       \* vipTupleOwners
         added |-> {}]                            \* backends: <<b, v, i>>

Nothing == [revision |-> 0, vip |-> None, owned |-> FALSE, backend |-> None,
            parent |-> None, mod |-> 0, check |-> FALSE]

Idle == [pc |-> "idle", op |-> None, reads |-> <<>>, got |-> Nothing,
         checks |-> <<>>, ops |-> <<>>, at |-> 0, tx |-> NoTx,
         clean |-> {}, vip |-> None, keys |-> {}]

Requests(o) ==
    CASE o.name = "CreateVIP" -> <<"listVIPs">>
      [] o.name = "UpdateVIP" -> <<"revision", "vip", "claim", "listVIPs", "listBackends">>
      [] o.name = "DeleteVIP" -> <<"vip", "claim">>
      [] o.name = "AddBackend" -> <<"parent", "listIPs">>
      [] o.name = "UpdateBackend" -> <<"index", "backend", "claimIP", "parent", "listIPs">>
      [] o.name = "DeleteBackend" -> <<"index", "backend", "claimIP">>
      [] o.name = "IncrementRevision" -> <<>>

\* A transaction knows what it has read or written before.
TxRequests(tx, o) ==
    LET known == tx.original[o.vip] # None
    IN  CASE o.name = "CreateVIP" -> <<"owner">>
          [] o.name = "UpdateVIP" /\ o.vip \in tx.created -> <<"owner">>
          [] o.name = "UpdateVIP" /\ known -> <<"revision", "vip", "owner", "listBackends">>
          [] o.name = "UpdateVIP" -> <<"revision", "vip", "claim", "owner", "listBackends">>
          [] o.name = "DeleteVIP" /\ (known \/ o.vip \in tx.created) -> <<>>
          [] o.name = "DeleteVIP" -> <<"vip", "claim">>
          [] o.name = "AddBackend" /\ tx.spec[o.vip] # None -> <<"listIPs">>
          [] o.name = "AddBackend" -> <<"listIPs", "parent">>

-----------------------------------------------------------------------------
(* The transaction of an operation, from what its reads returned.          *)

Owned(k, x) == <<Exists(k), Value(k, x)>>

If(condition, seq) == IF condition THEN seq ELSE <<>>

\* Mutant: the listing of the VIPs is taken for enough.
MutantCreateVIP(o) ==
    [checks |-> <<Absent(VIPKey(o.vip), "Conflict")>>,
     ops |-> <<Put(VIPKey(o.vip), o.spec), Put(TupleKey(o.spec.tuple), o.vip)>>]

CreateVIP(o) ==
    [checks |-> <<Absent(VIPKey(o.vip), "Conflict"), Absent(TupleKey(o.spec.tuple), "Conflict")>>,
     ops |-> <<Put(VIPKey(o.vip), o.spec), Put(TupleKey(o.spec.tuple), o.vip)>>]

UpdateVIP(o, got) ==
    LET old == TupleKey(got.vip.tuple)
        new == TupleKey(o.spec.tuple)
    IN  [checks |-> <<Exists(VIPKey(o.vip)), SameRevision(got.revision)>>
                        \o If(got.owned, Owned(old, o.vip))
                        \o If(old # new, <<Absent(new, "Conflict")>>),
         ops |-> <<Put(VIPKey(o.vip), o.spec)>>
                     \o If(old # new /\ got.owned, <<Delete(old)>>)
                     \o <<Put(new, o.vip)>>]

DeleteVIP(o, got) ==
    LET old == TupleKey(got.vip.tuple)
    IN  [checks |-> <<Exists(VIPKey(o.vip))>> \o If(got.owned, Owned(old, o.vip)),
         ops |-> <<Delete(VIPKey(o.vip)), Delete(BackendPrefix(o.vip))>>
                     \o If(got.owned, <<Delete(old)>>)]

AddBackend(o, got) ==
    [checks |-> <<Exists(VIPKey(o.vip)), Unmodified(o.vip, got.mod),
                  Absent(BackendKey(o.vip, o.backend), "Conflict"),
                  Absent(IndexKey(o.backend), "Conflict"),
                  Absent(IPKey(o.vip, o.ip), "Conflict")>>,
     ops |-> <<Put(BackendKey(o.vip, o.backend), o.ip), Put(IndexKey(o.backend), o.vip),
               Put(IPKey(o.vip, o.ip), o.backend)>>]

UpdateBackend(o, got) ==
    LET v == got.backend.vip
        old == IPKey(v, got.backend.ip)
        new == IPKey(v, o.ip)
    IN  [checks |-> <<Exists(VIPKey(v)), Unmodified(v, got.mod), Exists(BackendKey(v, o.backend))>>
                        \o Owned(IndexKey(o.backend), v)
                        \o If(got.owned, Owned(old, o.backend))
                        \o If(old # new, <<Absent(new, "Conflict")>>),
         ops |-> <<Put(BackendKey(v, o.backend), o.ip), Put(IndexKey(o.backend), v)>>
                     \o If(old # new /\ got.owned, <<Delete(old)>>)
                     \o <<Put(new, o.backend)>>]

DeleteBackend(o, got) ==
    LET v == got.backend.vip
        old == IPKey(v, got.backend.ip)
    IN  [checks |-> <<Exists(BackendKey(v, o.backend))>> \o Owned(IndexKey(o.backend), v)
                        \o If(got.owned, Owned(old, o.backend)),
         ops |-> <<Delete(BackendKey(v, o.backend)), Delete(IndexKey(o.backend))>>
                     \o If(got.owned, <<Delete(old)>>)]

IncrementRevision == [checks |-> <<>>, ops |-> <<>>]

Transaction(o, got) ==
    CASE o.name = "CreateVIP" -> CreateVIP(o)
      [] o.name = "UpdateVIP" -> UpdateVIP(o, got)
      [] o.name = "DeleteVIP" -> DeleteVIP(o, got)
      [] o.name = "AddBackend" -> AddBackend(o, got)
      [] o.name = "UpdateBackend" -> UpdateBackend(o, got)
      [] o.name = "DeleteBackend" -> DeleteBackend(o, got)
      [] o.name = "IncrementRevision" -> IncrementRevision

-----------------------------------------------------------------------------
(* EtcdTransaction: its operations add checks and writes; nothing reaches  *)
(* etcd before Commit but the claims of missing indexes.                   *)

TxCreateVIP(r) ==
    LET o == r.op
        t == o.spec.tuple
    IN  [r EXCEPT
            !.checks = @ \o <<Absent(VIPKey(o.vip), "Conflict")>>
                         \o If(r.got.check, <<Absent(TupleKey(t), "Conflict")>>),
            !.ops = @ \o <<Put(VIPKey(o.vip), o.spec), Put(TupleKey(t), o.vip)>>,
            !.tx.created = @ \cup {o.vip},
            !.tx.spec[o.vip] = o.spec,
            !.tx.index[o.vip] = t,
            !.tx.owner[t] = o.vip]

ParentVIPForBackend(r) ==
    If(r.tx.spec[r.op.vip] = None,
       <<Exists(VIPKey(r.op.vip)), Unmodified(r.op.vip, r.got.mod)>>)

TxAddBackend(r) ==
    LET o == r.op
        v == o.vip
    IN  [r EXCEPT
            !.checks = @ \o ParentVIPForBackend(r)
                         \o <<Absent(BackendKey(v, o.backend), "Conflict"),
                              Absent(IndexKey(o.backend), "Conflict"),
                              Absent(IPKey(v, o.ip), "Conflict")>>,
            !.ops = @ \o AddBackend(o, r.got).ops,
            !.tx.added = @ \cup {<<o.backend, v, o.ip>>}]

\* The tuple index of v as this transaction found it, noted once.
Original(r) ==
    LET v == r.op.vip
        first == r.tx.original[v] = None /\ v \notin r.tx.created
    IN  IF ~first THEN r
        ELSE [r EXCEPT
                !.checks = @ \o <<Exists(VIPKey(v))>>
                             \o If(r.got.owned, Owned(TupleKey(r.got.vip.tuple), v)),
                !.tx.original[v] = r.got.vip.tuple,
                !.tx.owned = IF r.got.owned THEN @ \cup {v} ELSE @]

\* The tuple whose index entry v has at this point of the transaction.
CurrentIndex(tx, v) ==
    IF tx.index[v] = None /\ v \in tx.owned THEN tx.original[v] ELSE tx.index[v]

Release(tx, v, t) ==
    [tx EXCEPT
        !.released = IF tx.original[v] = t /\ v \in tx.owned THEN @ \cup {t} ELSE @,
        !.owner[t] = None]

TxUpdateVIP(r0) ==
    LET r == Original(r0)
        v == r.op.vip
        t == r.op.spec.tuple
        old == CurrentIndex(r.tx, v)
        moves == old # t
        tx == IF moves /\ old # None THEN Release(r.tx, v, old) ELSE r.tx
    IN  [r EXCEPT
            !.checks = @ \o If(v \notin r.tx.created, <<SameRevision(r.got.revision)>>)
                         \o If(/\ moves /\ r.got.check
                               /\ t # r.tx.original[v] \/ v \in r.tx.owned,
                               <<Absent(TupleKey(t), "Conflict")>>),
            !.ops = @ \o <<Put(VIPKey(v), r.op.spec)>>
                      \o If(moves /\ old # None, <<Delete(TupleKey(old))>>)
                      \o <<Put(TupleKey(t), v)>>,
            !.tx = [tx EXCEPT !.spec[v] = r.op.spec, !.index[v] = t, !.owner[t] = v]]

TxDeleteVIP(r0) ==
    LET r == Original(r0)
        v == r.op.vip
        old == CurrentIndex(r.tx, v)
        tx == IF old # None THEN Release(r.tx, v, old) ELSE r.tx
    IN  [r EXCEPT
            !.ops = @ \o <<Delete(VIPKey(v)), Delete(BackendPrefix(v))>>
                      \o If(old # None, <<Delete(TupleKey(old))>>),
            !.tx = [tx EXCEPT !.index[v] = None, !.original[v] = None,
                              !.owned = @ \ {v}, !.deleted = @ \cup {v}]]

TxBuilt(r) ==
    LET next == CASE r.op.name = "CreateVIP" -> TxCreateVIP(r)
                  [] r.op.name = "AddBackend" -> TxAddBackend(r)
                  [] r.op.name = "UpdateVIP" -> TxUpdateVIP(r)
                  [] r.op.name = "DeleteVIP" -> TxDeleteVIP(r)
    IN  [next EXCEPT !.pc = "open", !.op = None, !.got = Nothing]

Built(r) ==
    IF r.tx.open THEN TxBuilt(r)
    ELSE LET t == Transaction(r.op, r.got)
         IN  [r EXCEPT !.pc = "commit", !.got = Nothing,
                       !.checks = t.checks, !.ops = t.ops]

\* Mutant: the deletions of a prefix are forgotten.
MutantCompact(ops) ==
    LET dropped(j) == \E k \in DOMAIN ops : k > j /\ ops[k].key = ops[j].key
    IN  FoldLeftDomain(LAMBDA acc, j : IF dropped(j) THEN acc ELSE Append(acc, ops[j]),
                       <<>>, ops)

\* etcd refuses a transaction that writes one key twice: a write is dropped
\* when a later one has its key or deletes a prefix of it.
Compact(ops) ==
    LET dropped(j) == \E k \in DOMAIN ops : k > j /\ Reaches(ops[k], ops[j].key)
    IN  FoldLeftDomain(LAMBDA acc, j : IF dropped(j) THEN acc ELSE Append(acc, ops[j]),
                       <<>>, ops)

-----------------------------------------------------------------------------
(* Steps.                                                                  *)

Idles == [c \in Callers |-> Idle]

\* A VIP with a backend: as an earlier release left it, without index entries
\* by tuple and address and every VIP on one tuple; and with them.
SomeVIP(b) ==
    LET v == CHOOSE v \in VIPs : TRUE
        i == CHOOSE i \in IPs : TRUE
        spec == CHOOSE s \in VIPSpec : \A j \in IPs : <<s.encap, j>> \in Compatible
        plain == [k \in Keys |-> CASE k = VIPKey(v) -> spec
                                   [] k = BackendKey(v, b) -> i
                                   [] k = IndexKey(b) -> v
                                   [] OTHER -> None]
    IN  {[plain EXCEPT ![TupleKey(spec.tuple)] = v, ![IPKey(v, i)] = b],
         [k \in Keys |-> IF \E w \in VIPs : k = VIPKey(w) THEN spec ELSE plain[k]]}

InitialStores == {[k \in Keys |-> None]} \cup UNION {SomeVIP(b) : b \in Backends}

Init ==
    /\ kv \in InitialStores
    /\ revision = 1
    /\ modRevision = [v \in VIPs |-> IF kv[VIPKey(v)] = None THEN 0 ELSE 1]
    /\ call = Idles
    /\ started = 0
    /\ gaveUp = FALSE

Becomes(c, r) ==
    /\ call' = [call EXCEPT ![c] = r]
    /\ UNCHANGED <<started, gaveUp>>

NoWrite == UNCHANGED <<kv, revision, modRevision>>

Advance(r) ==
    IF Len(r.reads) = 1 THEN Built([r EXCEPT !.reads = <<>>])
                        ELSE [r EXCEPT !.reads = Tail(@)]

Plan(r, reads) ==
    IF reads = <<>> THEN Built(r) ELSE [r EXCEPT !.reads = reads]

Start(c) ==
    /\ call[c].pc = "idle"
    /\ started < MaxRequests
    /\ \E o \in Operations :
           LET r == [Idle EXCEPT !.pc = "reading", !.op = o]
           IN  call' = [call EXCEPT ![c] = Plan(r, Requests(o))]
    /\ started' = started + 1
    /\ NoWrite /\ UNCHANGED gaveUp

\* Every VIP and every backend has the index entries that name it.
Indexed(store) ==
    /\ \A v \in VIPs : store[VIPKey(v)] # None => store[TupleKey(store[VIPKey(v)].tuple)] = v
    /\ \A v \in VIPs, b \in Backends : store[BackendKey(v, b)] # None =>
           /\ store[IndexKey(b)] = v
           /\ store[IPKey(v, store[BackendKey(v, b)])] = b

BeginTx(c) ==
    /\ call[c].pc = "idle"
    /\ started + MaxTxSize <= MaxRequests
    /\ call' = [call EXCEPT ![c] = [Idle EXCEPT !.pc = "open", !.tx.open = TRUE]]
    /\ started' = started + MaxTxSize
    /\ NoWrite /\ UNCHANGED gaveUp

\* What the transaction itself refuses before any request.
TxRefuses(tx, o) ==
    \/ o.name = "CreateVIP" /\ o.vip \in tx.created
    \/ o.name # "CreateVIP" /\ o.vip \in tx.deleted
    \/ o.name = "AddBackend" /\ \E a \in tx.added : a[1] = o.backend

TxOperation(c) ==
    LET r == call[c]
    IN  /\ r.pc = "open"
        /\ r.tx.size < MaxTxSize
        /\ \E o \in TxOperations :
               LET next == [r EXCEPT !.pc = "reading", !.op = o, !.tx.size = @ + 1]
               IN  /\ ~TxRefuses(r.tx, o)
                   /\ Becomes(c, Plan(next, TxRequests(r.tx, o)))
        /\ NoWrite

Rollback(c) ==
    /\ call[c].pc = "open"
    /\ Becomes(c, Idle)
    /\ NoWrite

Commit(c) ==
    LET r == call[c]
    IN  /\ r.pc = "open"
        /\ r.tx.size > 0
        /\ Becomes(c, [r EXCEPT !.pc = "commit", !.ops = Compact(@)])
        /\ NoWrite

\* deleteBackendIndexesForVIP for each VIP of vs, then the call returns.
CleanUp(vs) ==
    IF vs = {} THEN Idle ELSE [Idle EXCEPT !.pc = "cleanIPs", !.clean = vs]

Deleted(r) ==
    IF r.tx.open THEN r.tx.deleted
    ELSE IF r.op.name = "DeleteVIP" THEN {r.op.vip} ELSE {}

Reading(c, read) ==
    /\ call[c].pc = "reading"
    /\ Head(call[c].reads) = read
    /\ NoWrite

ReadRevision(c) ==
    /\ Reading(c, "revision")
    /\ Becomes(c, Advance([call[c] EXCEPT !.got.revision = revision]))

ReadVIP(c) ==
    LET r == call[c]
        vip == kv[VIPKey(r.op.vip)]
    IN  /\ Reading(c, "vip")
        /\ Becomes(c, IF vip # None THEN Advance([r EXCEPT !.got.vip = vip])
                      ELSE CleanUp(IF r.op.name = "DeleteVIP" THEN {r.op.vip} ELSE {}))

Parent(r) == IF r.op.name = "UpdateBackend" THEN r.got.backend.vip ELSE r.op.vip

ReadParent(c) ==
    LET r == call[c]
        v == Parent(r)
        vip == kv[VIPKey(v)]
    IN  /\ Reading(c, "parent")
        /\ Becomes(c, IF vip # None /\ <<vip.encap, r.op.ip>> \in Compatible
                      THEN Advance([r EXCEPT !.got.mod = modRevision[v]])
                      ELSE Idle)

\* checkVIPTupleAvailable: no other VIP listens on the tuple.
ListVIPs(c) ==
    LET r == call[c]
        taken == \E v \in VIPs \ {r.op.vip} :
                     kv[VIPKey(v)] # None /\ kv[VIPKey(v)].tuple = r.op.spec.tuple
    IN  /\ Reading(c, "listVIPs")
        /\ Becomes(c, IF taken THEN Idle ELSE Advance(r))

\* The addresses the VIP of an UpdateVIP has backends with.
BackendIPs(r) ==
    LET v == r.op.vip
        added == {a[3] : a \in {a \in r.tx.added : a[2] = v}}
        stored == {kv[BackendKey(v, b)] : b \in Backends} \ {None}
    IN  IF v \in r.tx.created THEN added ELSE added \cup stored

FamiliesMatch(r) == \A i \in BackendIPs(r) : <<r.op.spec.encap, i>> \in Compatible

ListBackends(c) ==
    /\ Reading(c, "listBackends")
    /\ Becomes(c, IF FamiliesMatch(call[c]) THEN Advance(call[c]) ELSE Idle)

\* checkBackendIPAvailable: no other backend of the VIP has the address.  A
\* transaction also knows the addresses it has given away itself.
ListIPs(c) ==
    LET r == call[c]
        v == Parent(r)
        taken == \/ \E b \in Backends \ {r.op.backend} : kv[BackendKey(v, b)] = r.op.ip
                 \/ \E a \in r.tx.added : a[2] = v /\ a[3] = r.op.ip
        misfit == r.tx.open /\ r.tx.spec[v] # None
                      /\ <<r.tx.spec[v].encap, r.op.ip>> \notin Compatible
    IN  /\ Reading(c, "listIPs")
        /\ Becomes(c, IF taken \/ misfit THEN Idle ELSE Advance(r))

ReadIndex(c) ==
    LET r == call[c]
        v == kv[IndexKey(r.op.backend)]
    IN  /\ Reading(c, "index")
        /\ Becomes(c, IF v = None THEN Idle
                      ELSE Advance([r EXCEPT !.got.backend = [vip |-> v, ip |-> None]]))

ReadBackend(c) ==
    LET r == call[c]
        i == kv[BackendKey(r.got.backend.vip, r.op.backend)]
    IN  /\ Reading(c, "backend")
        /\ Becomes(c, IF i = None THEN Idle ELSE Advance([r EXCEPT !.got.backend.ip = i]))

\* The transaction's checkVIPTupleAvailable: the tuple is free, or this
\* transaction frees it.
ReadOwner(c) ==
    LET r == call[c]
        v == r.op.vip
        t == r.op.spec.tuple
        owner == kv[TupleKey(t)]
        mine == owner \in {None, v}
        moved == /\ owner \in VIPs
                 /\ owner \in r.tx.deleted \/ r.tx.index[owner] \notin {None, t}
        fits == v \in r.tx.created /\ r.op.name = "UpdateVIP" => FamiliesMatch(r)
    IN  /\ Reading(c, "owner")
        /\ Becomes(c, IF r.tx.owner[t] \in {None, v} /\ (mine \/ moved) /\ fits
                      THEN Advance([r EXCEPT !.got.check = mine /\ t \notin r.tx.released])
                      ELSE Idle)

\* Mutant: the address index names the VIP.
MutantClaim(r) ==
    IF Head(r.reads) \in {"claim", "claimTxn", "claimVerify"}
    THEN [key |-> TupleKey(r.got.vip.tuple), id |-> r.op.vip, live |-> VIPKey(r.op.vip)]
    ELSE [key |-> IPKey(r.got.backend.vip, r.got.backend.ip), id |-> r.got.backend.vip,
          live |-> BackendKey(r.got.backend.vip, r.op.backend)]

\* claimVIPTupleIndex and claimBackendIPIndex: an index entry that is missing
\* is put, as long as its VIP or backend exists.
Claim(r) ==
    IF Head(r.reads) \in {"claim", "claimTxn", "claimVerify"}
    THEN [key |-> TupleKey(r.got.vip.tuple), id |-> r.op.vip, live |-> VIPKey(r.op.vip)]
    ELSE [key |-> IPKey(r.got.backend.vip, r.got.backend.ip), id |-> r.op.backend,
          live |-> BackendKey(r.got.backend.vip, r.op.backend)]

Then(r, read) == [r EXCEPT !.reads = <<read>> \o Tail(@)]

ReadClaim(c, claim, txn) ==
    LET r == call[c]
        owner == kv[Claim(r).key]
    IN  /\ Reading(c, claim)
        /\ Becomes(c, IF owner = None THEN Then(r, txn)
                      ELSE Advance([r EXCEPT !.got.owned = owner = Claim(r).id]))

\* Mutant: the claim does not ask whether the record is still there.
MutantClaimTxn(c, txn, verify) ==
    LET r == call[c]
        k == Claim(r)
        succeeds == kv[k.key] = None
    IN  /\ r.pc = "reading" /\ Head(r.reads) = txn
        /\ kv' = IF succeeds THEN [kv EXCEPT ![k.key] = k.id] ELSE kv
        /\ Becomes(c, IF succeeds THEN Advance([r EXCEPT !.got.owned = TRUE])
                                  ELSE Then(r, verify))
        /\ UNCHANGED <<revision, modRevision>>

ClaimTxn(c, txn, verify) ==
    LET r == call[c]
        k == Claim(r)
        succeeds == kv[k.live] # None /\ kv[k.key] = None
    IN  /\ r.pc = "reading" /\ Head(r.reads) = txn
        /\ kv' = IF succeeds THEN [kv EXCEPT ![k.key] = k.id] ELSE kv
        /\ Becomes(c, IF succeeds THEN Advance([r EXCEPT !.got.owned = TRUE])
                                  ELSE Then(r, verify))
        /\ UNCHANGED <<revision, modRevision>>

ClaimVerify(c, verify, claim) ==
    /\ Reading(c, verify)
    /\ Becomes(c, IF kv[Claim(call[c]).live] = None THEN Idle ELSE Then(call[c], claim))

ClaimVIPTupleIndex(c) ==
    \/ ReadClaim(c, "claim", "claimTxn")
    \/ ClaimTxn(c, "claimTxn", "claimVerify")
    \/ ClaimVerify(c, "claimVerify", "claim")

ClaimBackendIPIndex(c) ==
    \/ ReadClaim(c, "claimIP", "claimIPTxn")
    \/ ClaimTxn(c, "claimIPTxn", "claimIPVerify")
    \/ ClaimVerify(c, "claimIPVerify", "claimIP")

-----------------------------------------------------------------------------
(* commitWithRevision: read the revision, compare and write, and when that *)
(* fails find the check that failed; none does when only the revision had  *)
(* moved, and the loop goes on.                                            *)

CommitReadRevision(c) ==
    /\ call[c].pc = "commit"
    /\ Becomes(c, [call[c] EXCEPT !.pc = "txn", !.at = revision])
    /\ NoWrite

Succeeds(r) ==
    /\ revision = r.at
    /\ \A j \in DOMAIN r.checks : Holds(r.checks[j])

CommitTxn(c) ==
    LET r == call[c]
    IN  /\ r.pc = "txn"
        /\ Succeeds(r)
        /\ kv' = Written(r.ops)
        /\ revision' = revision + 1
        /\ modRevision' = [v \in VIPs |->
               IF kv'[VIPKey(v)] = None THEN 0
               ELSE IF VIPTouched(r.ops, v) THEN revision + 1 ELSE modRevision[v]]
        /\ Becomes(c, CleanUp(Deleted(r)))

CommitTxnFails(c) ==
    LET r == call[c]
    IN  /\ r.pc = "txn"
        /\ ~Succeeds(r)
        /\ Becomes(c, IF r.checks = <<>> THEN [r EXCEPT !.pc = "commit", !.at = 0]
                                         ELSE [r EXCEPT !.pc = "explain", !.at = 1])
        /\ NoWrite

FirstFailedCheck(c) ==
    LET r == call[c]
        check == r.checks[r.at]
    IN  /\ r.pc = "explain"
        /\ Becomes(c, IF ~Holds(check)
                      THEN CleanUp(IF check.err = "NotFound" THEN Deleted(r) ELSE {})
                      ELSE IF r.at < Len(r.checks) THEN [r EXCEPT !.at = @ + 1]
                      ELSE [r EXCEPT !.pc = "commit", !.at = 0])
        /\ NoWrite

-----------------------------------------------------------------------------
(* deleteBackendIndexesForVIP: list the index entries of the VIP, delete   *)
(* each whose backend is gone, the entries by address first.               *)

Entry(k, x, live) == [key |-> k, val |-> x, live |-> live]

CleanNext(r, keys, pc) ==
    IF keys # {} THEN [r EXCEPT !.pc = pc, !.keys = keys]
    ELSE IF pc = "dropIP" THEN [r EXCEPT !.pc = "cleanIndexes", !.keys = {}]
    ELSE CleanUp(r.clean)

ListIPIndexes(c) ==
    LET r == call[c]
    IN  /\ r.pc = "cleanIPs"
        /\ \E v \in r.clean :
               LET keys == {Entry(IPKey(v, i), kv[IPKey(v, i)], BackendKey(v, kv[IPKey(v, i)])) :
                               i \in {i \in IPs : kv[IPKey(v, i)] # None}}
               IN  Becomes(c, CleanNext([r EXCEPT !.vip = v, !.clean = @ \ {v}], keys, "dropIP"))
        /\ NoWrite

ListIndexes(c) ==
    LET r == call[c]
        keys == {Entry(IndexKey(b), r.vip, BackendKey(r.vip, b)) :
                    b \in {b \in Backends : kv[IndexKey(b)] = r.vip}}
    IN  /\ r.pc = "cleanIndexes"
        /\ Becomes(c, CleanNext(r, keys, "dropIndex"))
        /\ NoWrite

\* Mutant: an entry is dropped whether or not its backend is back.
MutantDropEntry(c) ==
    LET r == call[c]
    IN  /\ r.pc \in {"dropIP", "dropIndex"}
        /\ \E e \in r.keys :
               /\ kv' = IF kv[e.key] = e.val THEN [kv EXCEPT ![e.key] = None] ELSE kv
               /\ Becomes(c, CleanNext(r, r.keys \ {e}, r.pc))
        /\ UNCHANGED <<revision, modRevision>>

DropEntry(c) ==
    LET r == call[c]
    IN  /\ r.pc \in {"dropIP", "dropIndex"}
        /\ \E e \in r.keys :
               /\ kv' = IF kv[e.key] = e.val /\ kv[e.live] = None
                        THEN [kv EXCEPT ![e.key] = None] ELSE kv
               /\ Becomes(c, CleanNext(r, r.keys \ {e}, r.pc))
        /\ UNCHANGED <<revision, modRevision>>

GiveUp(c) ==
    /\ call[c].pc # "idle"
    /\ call' = [call EXCEPT ![c] = Idle]
    /\ gaveUp' = (gaveUp \/ call[c].pc \in {"cleanIPs", "dropIP", "cleanIndexes", "dropIndex"})
    /\ NoWrite /\ UNCHANGED started

Read(c) ==
    \/ ReadRevision(c) \/ ReadVIP(c) \/ ReadParent(c) \/ ListVIPs(c)
    \/ ListBackends(c) \/ ListIPs(c) \/ ReadIndex(c) \/ ReadBackend(c) \/ ReadOwner(c)

Next ==
    \/ \E c \in Callers :
           \/ Start(c) \/ BeginTx(c) \/ TxOperation(c) \/ Rollback(c)
           \/ Commit(c) \/ Read(c)
           \/ ClaimVIPTupleIndex(c) \/ ClaimBackendIPIndex(c)
           \/ CommitReadRevision(c) \/ CommitTxn(c) \/ CommitTxnFails(c)
           \/ FirstFailedCheck(c)
           \/ ListIPIndexes(c) \/ ListIndexes(c) \/ DropEntry(c)
           \/ GiveUp(c)

Spec == Init /\ [][Next]_vars

-----------------------------------------------------------------------------
(* Properties.                                                             *)

StoredVIPs == [v \in VIPs |-> kv[VIPKey(v)]]

StoredBackends ==
    [b \in Backends |->
        IF \E v \in VIPs : kv[BackendKey(v, b)] # None
        THEN LET v == CHOOSE v \in VIPs : kv[BackendKey(v, b)] # None
             IN  [vip |-> v, ip |-> kv[BackendKey(v, b)]]
        ELSE None]

\* The transaction of c gives a VIP the tuple of another that has no index
\* entry: a transaction looks a tuple up in the index only.
TakesUnindexedTuple(c) ==
    /\ call[c].pc = "txn" /\ call[c].tx.open
    /\ \E w \in VIPs :
           /\ kv[VIPKey(w)] # None
           /\ LET k == TupleKey(kv[VIPKey(w)].tuple)
              IN  /\ kv[k] # w
                  /\ \E j \in DOMAIN call[c].ops :
                         call[c].ops[j].key = k /\ call[c].ops[j].val \notin {None, w}

(* Types: every key holds what its prefix stands for, and no VIP was       *)
(* modified after the current revision.                                    *)
TypeOK ==
    /\ \A v \in VIPs : kv[VIPKey(v)] \in VIPSpec \cup {None}
    /\ \A t \in Tuples : kv[TupleKey(t)] \in VIPs \cup {None}
    /\ \A v \in VIPs, b \in Backends : kv[BackendKey(v, b)] \in IPs \cup {None}
    /\ \A b \in Backends : kv[IndexKey(b)] \in VIPs \cup {None}
    /\ \A v \in VIPs, i \in IPs : kv[IPKey(v, i)] \in Backends \cup {None}
    /\ revision \in Nat
    /\ \A v \in VIPs : modRevision[v] \in 0..revision

(* When every call has run to its end, no index entry is left that names a *)
(* backend which is not there or, by address, a VIP which is not there:    *)
(* the clean-up after the commit of DeleteVIP misses nothing, whatever     *)
(* AddBackend or second DeleteVIP overtook it.                             *)
NoOrphanIndex ==
    (~gaveUp /\ \A c \in Callers : call[c].pc = "idle") =>
        /\ \A b \in Backends : kv[IndexKey(b)] # None => kv[BackendKey(kv[IndexKey(b)], b)] # None
        /\ \A v \in VIPs, i \in IPs : kv[IPKey(v, i)] # None => kv[VIPKey(v)] # None

(* No transaction sent to etcd writes one key twice, which etcd refuses.   *)
DistinctWrites ==
    \A c \in Callers : call[c].pc = "txn" =>
        \A j, k \in DOMAIN call[c].ops : j # k => ~Reaches(call[c].ops[j], call[c].ops[k].key)

(* A tuple whose VIP is gone can be taken by another VIP.                  *)
TupleFreed ==
    (~gaveUp /\ \A c \in Callers : call[c].pc = "idle") =>
        \A t \in Tuples : kv[TupleKey(t)] # None => kv[VIPKey(kv[TupleKey(t)])] # None

=============================================================================
