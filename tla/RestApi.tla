------------------------------ MODULE RestApi ------------------------------
(* The handlers of the controller's REST API.  Each request runs in a      *)
(* goroutine of its own and calls the datastore several times: an update   *)
(* reads the record, merges the fields of the request into it, validates   *)
(* the result against other records and writes it back whole, with nothing *)
(* to stop another handler in between.  A call of the datastore is one     *)
(* step of the abstract store.                                             *)
EXTENDS Datastore

CONSTANTS
    Handlers,   \* goroutines that serve requests
    Patches,    \* the fields that a PUT of a VIP may carry
    MaxRevision \* bound: no write beyond this revision

ASSUME RevisionAssumption == MaxRevision \in Nat \ {0}

VARIABLE handlers  \* Handlers -> NoRequest, or a request and how far it got

NoRequest == [pc |-> "idle"]

Merged(spec, patch) ==
    [f \in DOMAIN spec |-> IF f \in DOMAIN patch THEN patch[f] ELSE spec[f]]

\* validateEncapAddressFamily and validateDSCPForEncap: VIPSpec holds the
\* specifications they accept.
Accepted(spec) == spec \in VIPSpec

FamilyMatches(spec, ip) == <<spec.encap, ip>> \in Compatible

RestInit == handlers = [h \in Handlers |-> NoRequest]

-----------------------------------------------------------------------------
(* The checks of a request's body depend on nothing else and are part of   *)
(* the handler's first call of the datastore.                              *)

\* The handler answers.
Answer(h) == handlers' = [handlers EXCEPT ![h] = NoRequest]

\* It goes on to pc, if what it has read allows it, or answers with an error.
Proceed(h, allowed, request) ==
    /\ handlers' = [handlers EXCEPT ![h] = IF allowed THEN request ELSE NoRequest]
    /\ UNCHANGED vars

Receives(h) == handlers[h] = NoRequest

\* The handler's last call, a write of the datastore that succeeds.
Succeeds(Op(_, _)) ==
    /\ revision < MaxRevision
    /\ revision' = revision + 1
    /\ \E t \in Stored :
           /\ Op(store, t)
           /\ vips' = t.vips
           /\ backends' = t.backends

createVIP(h) ==
    /\ Receives(h)
    /\ LET Create(s, t) == \E v \in VIPs, spec \in VIPSpec : CreateVIP(s, v, spec, t)
       IN  Succeeds(Create)
    /\ Answer(h)

deleteVIP(h) ==
    /\ Receives(h)
    /\ LET Delete(s, t) == \E v \in VIPs : DeleteVIP(s, v, t)
       IN  Succeeds(Delete)
    /\ Answer(h)

deleteBackend(h) ==
    /\ Receives(h)
    /\ LET Delete(s, t) == \E b \in Backends : DeleteBackend(s, b, t)
       IN  Succeeds(Delete)
    /\ Answer(h)

\* updateVIP: GetVIP, and the request's fields merged into the result.
updateVIP(h) ==
    /\ Receives(h)
    /\ revision < MaxRevision
    /\ \E v \in VIPs, patch \in Patches :
           /\ vips[v] # None
           /\ \E spec \in {Merged(vips[v], patch)} :
                  Proceed(h, Accepted(spec), [pc |-> "list backends", vip |-> v, spec |-> spec])

\* Its backends, which the merged VIP has to suit.
ListBackends(h) ==
    /\ handlers[h].pc = "list backends"
    /\ Proceed(h, \A b \in BackendsOf(store, handlers[h].vip) :
                      FamilyMatches(handlers[h].spec, backends[b].ip),
               [handlers[h] EXCEPT !.pc = "update vip"])

UpdateVIPRecord(h) ==
    /\ handlers[h].pc = "update vip"
    /\ LET Update(s, t) == UpdateVIP(s, handlers[h].vip, handlers[h].spec, t)
       IN  Succeeds(Update)
    /\ Answer(h)

\* createBackend: the VIP, which the address has to suit.
createBackend(h) ==
    /\ Receives(h)
    /\ revision < MaxRevision
    /\ \E v \in VIPs, i \in IPs :
           /\ vips[v] # None
           /\ Proceed(h, FamilyMatches(vips[v], i), [pc |-> "add backend", vip |-> v, ip |-> i])

AddBackendRecord(h) ==
    /\ handlers[h].pc = "add backend"
    /\ LET Add(s, t) == \E b \in Backends : AddBackend(s, b, handlers[h].vip, handlers[h].ip, t)
       IN  Succeeds(Add)
    /\ Answer(h)

\* updateBackend: GetBackend, and the request's fields merged into the result.
updateBackend(h) ==
    /\ Receives(h)
    /\ revision < MaxRevision
    /\ \E b \in Backends, i \in IPs :
           /\ backends[b] # None
           /\ Proceed(h, TRUE, [pc |-> "get parent", backend |-> b, vip |-> backends[b].vip, ip |-> i])

\* Its VIP, which the merged backend has to suit.
GetParent(h) ==
    /\ handlers[h].pc = "get parent"
    /\ \E v \in {handlers[h].vip} :
           Proceed(h, vips[v] # None /\ FamilyMatches(vips[v], handlers[h].ip),
                   [handlers[h] EXCEPT !.pc = "update backend"])

UpdateBackendRecord(h) ==
    /\ handlers[h].pc = "update backend"
    /\ LET Update(s, t) == UpdateBackend(s, handlers[h].backend, handlers[h].ip, t)
       IN  Succeeds(Update)
    /\ Answer(h)

\* A call of the datastore fails, or runs into datastoreContext's deadline.
handleDataStoreError(h) ==
    /\ handlers[h] # NoRequest
    /\ Answer(h)
    /\ UNCHANGED vars

RestNext ==
    \E h \in Handlers :
        \/ createVIP(h) \/ deleteVIP(h) \/ deleteBackend(h)
        \/ updateVIP(h) \/ ListBackends(h) \/ UpdateVIPRecord(h)
        \/ createBackend(h) \/ AddBackendRecord(h)
        \/ updateBackend(h) \/ GetParent(h) \/ UpdateBackendRecord(h)
        \/ handleDataStoreError(h)
=============================================================================
