----------------------------- MODULE VppDataPlane -----------------------------
(***************************************************************************)
(* The VPP data plane of internal/agent/dataplane/vpp.go for one           *)
(* VirtualIP: what VPP has, the agent's cache of it, and the operations    *)
(* that bring VPP to a desired VIP.                                        *)
(*                                                                         *)
(* Every operation runs under VPP.mu and is a sequence of binary API calls *)
(* each of which may fail, so it is an operator from the state before it   *)
(* and the outcomes of its calls to the state after it and its error.  A   *)
(* process that dies between two calls is an operation whose next call is  *)
(* refused, followed by the restart.                                       *)
(***************************************************************************)
EXTENDS Naturals

CONSTANTS
    Specs,        \* VirtualIPs: records with an address, a port and an encap
    Backends,     \* the backends of the VIP
    Lengths,      \* values of new_flows_table_length
    None,         \* nothing
    FailClosed    \* fail_on_all_backends_down

VARIABLES
    vpp,      \* vpp[t]: the VIP that VPP has at the tuple t, or None
    cache,    \* the vipEntry of the key, or None
    drift,    \* tuningDrifts has an entry for the key
    length    \* new_flows_table_length of the running agent

\* What a VPP VIP is found by: lookupVIPLocked compares prefix, protocol, port.
Tuple(s) == <<s.address, s.port>>

Tuples == {Tuple(s) : s \in Specs}

\* What VPP has at a tuple, and the vipEntry of the agent.
Programs == [encap : {s.encap : s \in Specs}, length : Lengths, backends : SUBSET Backends]
Entries == [spec : Specs, backends : SUBSET Backends, due : BOOLEAN]

ASSUME NoneAssumption == None \notin Specs \cup Programs \cup Entries
ASSUME LengthsAssumption == Lengths # {}

\* A call is done and answered, or refused, or done and its answer lost.
Failures == {"refused", "lost"}
Outcomes == {"ok"} \cup Failures

\* The outcomes of one operation's calls.  The first that fails ends it, but
\* RecreateVIP inspects VPP after a failed delete and reconcileBackends goes on
\* with the other backends.
Inspections == {"look", "again", "dump"}
Changes == {"delete", "replace", "add"}
AllOk == [c \in Inspections \cup Changes \cup Backends |-> "ok"]
Answers ==
    {AllOk}
        \cup {[AllOk EXCEPT ![c] = "refused"] : c \in Inspections}
        \cup {[AllOk EXCEPT ![c] = f] : c \in Changes, f \in Failures}
        \cup {[AllOk EXCEPT !["look"] = "refused", !["delete"] = f] : f \in Failures}
        \cup {[c \in DOMAIN AllOk |-> IF c \in Backends THEN o[c] ELSE "ok"] :
                  o \in [Backends -> Outcomes]}

World == [vpp |-> vpp, cache |-> cache, drift |-> drift, err |-> FALSE]

Become(w) == vpp' = w.vpp /\ cache' = w.cache /\ drift' = w.drift

Fail(w) == [w EXCEPT !.err = TRUE]

\* markVIPNeedsVerificationLocked
Doubt(w) == IF w.cache = None THEN w ELSE [w EXCEPT !.cache.due = TRUE]

\* delete(v.vips, key) and clearTuningDriftsLocked
Drop(w) == [w EXCEPT !.cache = None, !.drift = FALSE]

-----------------------------------------------------------------------------
(* The binary API.  VPP refuses to add what it has and to delete what it   *)
(* does not have.                                                          *)

addVIP(w, s, outcome) ==
    IF outcome = "refused" \/ w.vpp[Tuple(s)] # None
    THEN Fail(w)
    ELSE [w EXCEPT !.vpp[Tuple(s)] =
                       [encap |-> s.encap, length |-> length, backends |-> {}],
                   !.err = outcome = "lost"]

deleteVIP(w, s, outcome) ==
    IF outcome = "refused" \/ w.vpp[Tuple(s)] = None
    THEN Fail(w)
    ELSE [w EXCEPT !.vpp[Tuple(s)] = None, !.err = outcome = "lost"]

\* vipDetailsMatchDesired: the flow table length does not count.
Matches(w, s) == w.vpp[Tuple(s)].encap = s.encap

-----------------------------------------------------------------------------

\* The entry that a dump of VPP's state gives; detectTuningDrifts.
Adopt(w, s) ==
    LET v == w.vpp[Tuple(s)] IN
    [w EXCEPT !.cache = [spec |-> s, backends |-> v.backends, due |-> FALSE],
              !.drift = v.length # length]

\* Mutant: the entry of the previous VIP is dropped and the VIP left in VPP.
MutantDeleteCached(w, o) == IF o["look"] # "ok" THEN Fail(w) ELSE Drop(w)

deleteCachedVIPForAttributeChange(w, o) ==
    IF o["look"] # "ok" THEN Fail(w)
    ELSE IF w.vpp[Tuple(w.cache.spec)] = None THEN Drop(w)
    ELSE LET deleted == deleteVIP(w, w.cache.spec, o["delete"]) IN
         IF deleted.err THEN deleted ELSE Drop(deleted)

\* An error leaves the entry, marked for verification.
refreshCachedVIP(w, s, o) ==
    IF o["look"] # "ok" THEN Doubt(Fail(w))
    ELSE IF w.vpp[Tuple(s)] = None THEN Drop(w)
    ELSE IF Matches(w, s)
    THEN IF o["dump"] # "ok" THEN Doubt(Fail(w)) ELSE Adopt(w, s)
    ELSE LET deleted == deleteVIP(w, s, o["delete"]) IN
         IF deleted.err THEN Doubt(deleted) ELSE Drop(deleted)

\* Leaves the cache empty when there is nothing to adopt.
adoptExistingVIP(w, s, o) ==
    IF o["again"] # "ok" THEN Fail(w)
    ELSE IF w.vpp[Tuple(s)] = None THEN w
    ELSE IF Matches(w, s)
    THEN IF o["dump"] # "ok" THEN Fail(w) ELSE Adopt(w, s)
    ELSE LET deleted == deleteVIP(w, s, o["replace"]) IN
         IF deleted.err THEN deleted ELSE [deleted EXCEPT !.drift = FALSE]

\* addVIP and the new entry, not verified yet.
Create(w, s, o) ==
    LET added == addVIP(w, s, o["add"]) IN
    IF added.err THEN added
    ELSE [added EXCEPT !.cache = [spec |-> s, backends |-> {}, due |-> TRUE],
                       !.drift = FALSE]

\* Only what differs from the cache is called for; every failure is passed over
\* and the first one returned.
reconcileBackends(w, s, desired, o) ==
    LET t == Tuple(s)
        cached == w.cache.backends
        removals == cached \ desired
        additions == desired \ cached
        actual == IF w.vpp[t] = None THEN {} ELSE w.vpp[t].backends
        removed == {b \in removals : o[b] # "refused"}
        added == {b \in additions : o[b] # "refused"}
        failed == {b \in removals \cup additions :
                      \/ o[b] # "ok"
                      \/ w.vpp[t] = None
                      \/ b \in removals /\ b \notin actual
                      \/ b \in additions /\ b \in actual}
    IN  [w EXCEPT !.vpp[t] = IF @ = None THEN None
                             ELSE [@ EXCEPT !.backends = (actual \ removed) \cup added],
                  !.cache.backends = (cached \ (removals \ failed))
                                        \cup (additions \ failed),
                  !.err = failed # {}]

-----------------------------------------------------------------------------

\* The end of ApplyVIP, once there is an entry.
ApplyBackends(w, s, healthy, verified, o) ==
    LET done == reconcileBackends(w, s, healthy, o) IN
    IF done.err THEN Doubt(done)
    ELSE [done EXCEPT !.cache.spec = s, !.cache.due = @ /\ ~verified]

ApplyVIP(w, s, healthy, o) ==
    LET changed == w.cache # None /\ w.cache.spec # s
        verify == w.cache # None /\ ~changed /\ w.cache.due
        kept == w.cache # None /\ ~changed /\ ~verify
        checked == IF changed THEN deleteCachedVIPForAttributeChange(w, o)
                   ELSE IF verify THEN refreshCachedVIP(w, s, o) ELSE w
        found == IF checked.cache # None \/ verify
                 THEN checked ELSE adoptExistingVIP(checked, s, o)
        entered == IF found.cache # None THEN found ELSE Create(found, s, o)
    IN  IF FailClosed /\ healthy = {} THEN Fail(w)
        ELSE IF checked.err THEN checked
        ELSE IF found.err THEN found
        ELSE IF entered.err THEN entered
        ELSE ApplyBackends(entered, s, healthy, ~kept, o)

RemoveVIP(w, s, o) ==
    LET target == IF w.cache # None THEN w.cache.spec ELSE s
        deleted == deleteVIP(w, target, o["delete"])
    IN  IF w.cache = None /\ o["look"] # "ok" THEN Fail(w)
        ELSE IF w.cache = None /\ w.vpp[Tuple(s)] = None THEN Drop(w)
        ELSE IF deleted.err THEN deleted
        ELSE Drop(deleted)

\* NeedsDrainForRetainedVIP: whether to drain, with the doubt it leaves.
RetainedStale(w, s, o) ==
    \/ w.cache # None /\ w.cache.spec # s
    \/ o["look"] = "ok" /\ w.vpp[Tuple(s)] # None /\ ~Matches(w, s)

NeedsDrainForRetainedVIP(w, s, o) ==
    IF w.cache # None /\ w.cache.spec # s THEN w
    ELSE IF o["look"] # "ok" THEN Doubt(Fail(w))
    ELSE IF w.vpp[Tuple(s)] = None \/ ~Matches(w, s) THEN Doubt(w)
    ELSE w

\* RecreateVIP; safe is RouteSafeToRestore of its error.
RecreateVIP(w, s, healthy, o) ==
    LET target == IF w.cache # None THEN w.cache.spec ELSE s
        deleted == deleteVIP(w, target, o["delete"])
        added == Create([deleted EXCEPT !.cache = None], s, o)
    IN  IF FailClosed /\ healthy = {} THEN Fail(w)
        ELSE IF deleted.err THEN deleted
        ELSE IF added.err THEN [added EXCEPT !.drift = FALSE]
        ELSE reconcileBackends(added, s, healthy, o)

RouteSafeToRestore(before, after, s, o) ==
    LET target == IF before.cache # None THEN before.cache.spec ELSE s IN
    /\ deleteVIP(before, target, o["delete"]).err
    /\ o["look"] = "ok"
    /\ after.vpp[Tuple(target)] # None
=============================================================================
