--------------------------- MODULE RouteCoordinator ---------------------------
(***************************************************************************)
(* The routeCoordinator of internal/agent/reconciler/v2_reconciler.go: the *)
(* per-agent bookkeeping that decides when the BGP route of a VIP address  *)
(* is announced and withdrawn, and the router calls it makes.              *)
(*                                                                         *)
(* Several VirtualIPs (one reconciler goroutine each) may share an         *)
(* address.  The coordinator's mutex protects the bookkeeping but is not   *)
(* held during a router call, so a call decided in one critical section    *)
(* takes effect, and is recorded, in later ones.  One step of this module  *)
(* is one critical section or one router call.                             *)
(***************************************************************************)
EXTENDS FiniteSets

CONSTANTS
    VIPs,       \* namespace/name keys; one goroutine each
    Addresses,  \* VIP addresses
    NoVIP,      \* the empty drainOwner
    NoAddress,  \* the empty vipAddresses entry
    RouterMayFail  \* whether a router call may return an error

ASSUME NoVIPAssumption == NoVIP \notin VIPs
ASSUME NoAddressAssumption == NoAddress \notin Addresses
ASSUME RouterMayFailAssumption == RouterMayFail \in BOOLEAN

VARIABLES
    addresses,    \* the addresses that have a routeAddressState
    members,      \* members[a]: the keys of state.serving
    serving,      \* serving[a]: the keys that state.serving maps to true
    advertised,   \* the addresses whose state says advertised
    reconciled,   \* the addresses whose state says reconciled
    verified,     \* advertised addresses whose lastVerified is recent
    drainOwner,   \* drainOwner[a]: the VIP that holds the drain, or NoVIP
    vipAddresses, \* the address each VIP is tracked at, or NoAddress
    route,        \* the addresses whose static route FRR really has
    pc,           \* where each goroutine is in its coordinator call
    call,         \* the call it is executing
    removing,     \* goroutines inside removeVIPFromAddress
    target,       \* the address its reconcileRoute works on
    decided,      \* the router operation it decided
    late,         \* goroutines whose operationTime is an interval old
    errored,      \* goroutines whose last reconcileRoute returned an error
    drained,      \* the address a goroutine was told is drained
    failed        \* addresses with a failed call since a completed one

book == <<addresses, members, serving, advertised, reconciled, verified,
          drainOwner, vipAddresses>>
control == <<pc, call, removing, target, decided, late, errored>>
vars == <<book, route, control, drained, failed>>

-----------------------------------------------------------------------------

NoCall == [op |-> "none", address |-> NoAddress, flag |-> FALSE]

Call ==
    [op : {"none", "serve", "drain", "finish", "prepare", "delete"},
     address : Addresses \cup {NoAddress}, flag : BOOLEAN]

Init ==
    /\ addresses = {}
    /\ members = [a \in Addresses |-> {}]
    /\ serving = [a \in Addresses |-> {}]
    /\ advertised = {}
    /\ reconciled = {}
    /\ verified = {}
    /\ drainOwner = [a \in Addresses |-> NoVIP]
    /\ vipAddresses = [v \in VIPs |-> NoAddress]
    /\ route \in SUBSET Addresses  \* FRR keeps routes across agent restarts
    /\ pc = [v \in VIPs |-> "idle"]
    /\ call = [v \in VIPs |-> NoCall]
    /\ removing = {}
    /\ target = [v \in VIPs |-> NoAddress]
    /\ decided = [v \in VIPs |-> "none"]
    /\ late = {}
    /\ errored = {}
    /\ drained = [v \in VIPs |-> NoAddress]
    /\ failed = {}

ShouldAdvertise(a) == drainOwner[a] = NoVIP /\ serving[a] # {}

\* Mutant: an advertised route is never verified again.
MutantOperation(a, isAdvertised, isReconciled, isVerified) ==
    IF ShouldAdvertise(a)
    THEN IF isAdvertised THEN "none" ELSE "announce"
    ELSE IF isAdvertised \/ ~isReconciled THEN "withdraw" ELSE "none"

\* Mutant: a route that FRR has from before is not withdrawn.
MutantWithdraw(a, isAdvertised, isReconciled, isVerified) ==
    IF ShouldAdvertise(a)
    THEN IF isAdvertised /\ isVerified THEN "none" ELSE "announce"
    ELSE IF isAdvertised THEN "withdraw" ELSE "none"

\* What the bookkeeping asks of the router for address a, given the values its
\* advertised, reconciled and verified flags have.
Operation(a, isAdvertised, isReconciled, isVerified) ==
    IF ShouldAdvertise(a)
    THEN IF isAdvertised /\ isVerified THEN "none" ELSE "announce"
    ELSE IF isAdvertised \/ ~isReconciled THEN "withdraw" ELSE "none"

NextOperation(a) ==
    Operation(a, a \in advertised, a \in reconciled, a \in verified)

-----------------------------------------------------------------------------
(* The entry of each coordinator call: the first critical section.         *)

\* The caller gives up its drain by calling anything but SetServing there.
Forget(v, op, a) ==
    drained' = IF op = "serve" /\ drained[v] = a
               THEN drained
               ELSE [drained EXCEPT ![v] = NoAddress]

Enter(v, op, a, flag, next) ==
    /\ call' = [call EXCEPT ![v] = [op |-> op, address |-> a, flag |-> flag]]
    /\ pc' = [pc EXCEPT ![v] = next]
    /\ Forget(v, op, a)

\* Enter removeVIPFromAddress for address a.
EnterRemove(v, op, a, flag, from) ==
    /\ Enter(v, op, a, flag, "remove")
    /\ removing' = removing \cup {v}
    /\ target' = [target EXCEPT ![v] = from]

\* Mutant: the address the VIP was tracked at is not looked at.
MutantMoves(v, a) == FALSE

\* The VIP is tracked at another address, which it must leave first.
Moves(v, a) == vipAddresses[v] \notin {NoAddress, a}

SetServing(v, a, isServing) ==
    /\ pc[v] = "idle"
    /\ IF Moves(v, a)
       THEN EnterRemove(v, "serve", a, isServing, vipAddresses[v])
       ELSE /\ Enter(v, "serve", a, isServing, "register")
            /\ UNCHANGED <<removing, target>>
    /\ UNCHANGED <<book, route, decided, late, errored, failed>>

\* BeginDrain (force = FALSE) and BeginAddressDrain (force = TRUE).
BeginDrain(v, a, force) ==
    /\ pc[v] = "idle"
    /\ IF Moves(v, a)
       THEN EnterRemove(v, "drain", a, force, vipAddresses[v])
       ELSE /\ Enter(v, "drain", a, force, "acquire")
            /\ UNCHANGED <<removing, target>>
    /\ UNCHANGED <<book, route, decided, late, errored, failed>>

FinishDrain(v, a) ==
    /\ pc[v] = "idle"
    /\ IF a \in addresses /\ drainOwner[a] = v
       THEN /\ drainOwner' = [drainOwner EXCEPT ![a] = NoVIP]
            /\ Enter(v, "finish", a, FALSE, "decide")
            /\ target' = [target EXCEPT ![v] = a]
       ELSE /\ Forget(v, "finish", a)
            /\ UNCHANGED <<drainOwner, pc, call, target>>
    /\ UNCHANGED <<addresses, members, serving, advertised, reconciled, verified,
                   vipAddresses, route, removing, decided, late, errored, failed>>

PrepareAddressChange(v, a) ==
    /\ pc[v] = "idle"
    /\ Moves(v, a)
    /\ EnterRemove(v, "prepare", a, FALSE, vipAddresses[v])
    /\ UNCHANGED <<book, route, decided, late, errored, failed>>

Delete(v, a) ==
    /\ pc[v] = "idle"
    /\ EnterRemove(v, "delete", a, FALSE,
                   IF vipAddresses[v] # NoAddress THEN vipAddresses[v] ELSE a)
    /\ UNCHANGED <<book, route, decided, late, errored, failed>>

-----------------------------------------------------------------------------
(* removeVIPFromAddress                                                    *)

\* The goroutine is the only one to change its vipAddresses entry, so the entry
\* is still the target, or still empty, when the lock is taken again.
Remove(v) ==
    /\ pc[v] = "remove"
    /\ members' = [members EXCEPT ![target[v]] = @ \ {v}]
    /\ serving' = [serving EXCEPT ![target[v]] = @ \ {v}]
    /\ pc' = [pc EXCEPT ![v] = "decide"]
    /\ UNCHANGED <<addresses, advertised, reconciled, verified, drainOwner,
                   vipAddresses, route, call, removing, target, decided, late,
                   errored, drained, failed>>

\* cleanupRouteAddressLocked: the state is dropped with its drain and flags.
Cleanup(a) ==
    IF a \in addresses /\ members[a] = {} /\ a \notin advertised
    THEN /\ addresses' = addresses \ {a}
         /\ reconciled' = reconciled \ {a}
         /\ drainOwner' = [drainOwner EXCEPT ![a] = NoVIP]
    ELSE UNCHANGED <<addresses, reconciled, drainOwner>>

\* After an error the whole call returns; SetServing and beginDrain go on.
Resume(v) ==
    IF v \in errored \/ call[v].op \notin {"serve", "drain"}
    THEN "idle"
    ELSE IF call[v].op = "serve" THEN "register" ELSE "acquire"

Removed(v) ==
    /\ pc[v] = "removed"
    /\ vipAddresses' = IF v \in errored
                       THEN vipAddresses
                       ELSE [vipAddresses EXCEPT ![v] = NoAddress]
    /\ Cleanup(target[v])
    /\ removing' = removing \ {v}
    /\ pc' = [pc EXCEPT ![v] = Resume(v)]
    /\ call' = IF Resume(v) = "idle" THEN [call EXCEPT ![v] = NoCall] ELSE call
    /\ target' = [target EXCEPT ![v] = NoAddress]
    /\ errored' = errored \ {v}
    /\ UNCHANGED <<members, serving, advertised, verified, route, decided, late,
                   drained, failed>>

-----------------------------------------------------------------------------
(* The second critical section of SetServing and beginDrain.               *)

Register(v) ==
    LET a == call[v].address IN
    /\ pc[v] = "register"
    /\ vipAddresses' = [vipAddresses EXCEPT ![v] = a]
    /\ addresses' = addresses \cup {a}
    /\ members' = [members EXCEPT ![a] = @ \cup {v}]
    /\ serving' = [serving EXCEPT ![a] =
                     IF call[v].flag THEN @ \cup {v} ELSE @ \ {v}]
    /\ pc' = [pc EXCEPT ![v] = "decide"]
    /\ target' = [target EXCEPT ![v] = a]
    /\ UNCHANGED <<advertised, reconciled, verified, drainOwner, route, call,
                   removing, decided, late, errored, drained, failed>>

\* Mutant: the drain of another VIP is taken over.
MutantRefused(v, a) == ~call[v].flag /\ serving[a] \ {v} # {}

Refused(v, a) ==
    \/ drainOwner[a] \notin {NoVIP, v}
    \/ ~call[v].flag /\ serving[a] \ {v} # {}

AcquireDrain(v) ==
    LET a == call[v].address IN
    /\ pc[v] = "acquire"
    /\ ~Refused(v, a)
    /\ addresses' = addresses \cup {a}
    /\ vipAddresses' = [vipAddresses EXCEPT ![v] = a]
    /\ drainOwner' = [drainOwner EXCEPT ![a] = v]
    /\ members' = [members EXCEPT ![a] = @ \cup {v}]
    /\ serving' = [serving EXCEPT ![a] = @ \ {v}]
    /\ pc' = [pc EXCEPT ![v] = "decide"]
    /\ target' = [target EXCEPT ![v] = a]
    /\ UNCHANGED <<advertised, reconciled, verified, route, call, removing,
                   decided, late, errored, drained, failed>>

RefuseDrain(v) ==
    /\ pc[v] = "acquire"
    /\ Refused(v, call[v].address)
    /\ pc' = [pc EXCEPT ![v] = "idle"]
    /\ call' = [call EXCEPT ![v] = NoCall]
    /\ UNCHANGED <<book, route, removing, target, decided, late, errored,
                   drained, failed>>

-----------------------------------------------------------------------------
(* reconcileRoute                                                          *)

\* reconcileRoute returns (isAdvertised, isError) to the function that called it.
Return(v, isAdvertised, isError) ==
    /\ failed' = IF isError
                 THEN failed \cup {target[v]} ELSE failed \ {target[v]}
    /\ decided' = [decided EXCEPT ![v] = "none"]
    /\ late' = late \ {v}
    /\ IF v \in removing
       THEN /\ pc' = [pc EXCEPT ![v] = "removed"]
            /\ errored' = IF isError THEN errored \cup {v} ELSE errored
            /\ UNCHANGED <<call, target, drained>>
       ELSE IF call[v].op = "drain" /\ isError
       THEN /\ pc' = [pc EXCEPT ![v] = "undrain"]
            /\ UNCHANGED <<call, target, errored, drained>>
       ELSE /\ pc' = [pc EXCEPT ![v] = "idle"]
            /\ call' = [call EXCEPT ![v] = NoCall]
            /\ target' = [target EXCEPT ![v] = NoAddress]
            /\ drained' = IF call[v].op = "drain" /\ ~isAdvertised
                          THEN [drained EXCEPT ![v] = target[v]] ELSE drained
            /\ UNCHANGED errored

Decide(v) ==
    LET a == target[v] IN
    /\ pc[v] = "decide"
    /\ IF a \notin addresses \/ NextOperation(a) = "none"
       THEN Return(v, a \in addresses /\ ShouldAdvertise(a), FALSE)
       ELSE /\ decided' = [decided EXCEPT ![v] = NextOperation(a)]
            /\ pc' = [pc EXCEPT ![v] = "call"]
            /\ late' = late \ {v}
            /\ UNCHANGED <<call, target, errored, drained, failed>>
    /\ UNCHANGED <<book, route, removing>>

\* AnnounceVIP and WithdrawVIP run vtysh; nothing serialises two of them.
InstallRoute(v) ==
    route' = IF decided[v] = "announce"
             THEN route \cup {target[v]} ELSE route \ {target[v]}

RouterCall(v) ==
    /\ pc[v] = "call"
    /\ InstallRoute(v)
    /\ pc' = [pc EXCEPT ![v] = "apply"]
    /\ UNCHANGED <<book, call, removing, target, decided, late, errored, drained,
                   failed>>

\* vtysh failed or timed out: FRR may have executed the command or not.
RouterCallFails(v) ==
    /\ RouterMayFail
    /\ pc[v] = "call"
    /\ InstallRoute(v) \/ UNCHANGED route
    /\ Return(v, FALSE, TRUE)  \* the flag of a failed call decides nothing
    /\ UNCHANGED <<book, removing>>

\* Mutant: the operation just done is taken to be the last one.
MutantMustRepeat(v) == FALSE

\* The decision taken in the critical section that records the operation.
MustRepeat(v) ==
    LET announce == decided[v] = "announce" IN
    Operation(target[v], announce, TRUE, announce /\ v \notin late) # "none"

\* applyRouteOperationLocked and the second decision.
Apply(v) ==
    LET a == target[v]
        announce == decided[v] = "announce"
    IN
    /\ pc[v] = "apply"
    /\ a \in addresses
    /\ advertised' = IF announce THEN advertised \cup {a} ELSE advertised \ {a}
    /\ reconciled' = reconciled \cup {a}
    /\ verified' = IF announce /\ v \notin late
                   THEN verified \cup {a} ELSE verified \ {a}
    /\ IF MustRepeat(v)
       THEN /\ pc' = [pc EXCEPT ![v] = "decide"]
            /\ decided' = [decided EXCEPT ![v] = "none"]
            /\ late' = late \ {v}
            /\ UNCHANGED <<call, target, errored, drained, failed>>
       ELSE Return(v, ShouldAdvertise(a), FALSE)
    /\ UNCHANGED <<addresses, members, serving, drainOwner, vipAddresses, route,
                   removing>>

\* The state was dropped while the router call was running.
ApplyToNothing(v) ==
    /\ pc[v] = "apply"
    /\ target[v] \notin addresses
    /\ Return(v, decided[v] = "announce", FALSE)
    /\ UNCHANGED <<book, route, removing>>

\* beginDrain after a failed withdrawal.
Undrain(v) ==
    LET a == call[v].address IN
    /\ pc[v] = "undrain"
    /\ drainOwner' = IF drainOwner[a] = v
                     THEN [drainOwner EXCEPT ![a] = NoVIP] ELSE drainOwner
    /\ failed' = failed \cup {a}
    /\ pc' = [pc EXCEPT ![v] = "idle"]
    /\ call' = [call EXCEPT ![v] = NoCall]
    /\ target' = [target EXCEPT ![v] = NoAddress]
    /\ UNCHANGED <<addresses, members, serving, advertised, reconciled, verified,
                   vipAddresses, route, removing, decided, late, errored, drained>>

\* A routeVerificationInterval passes.
IntervalElapses ==
    /\ verified' = {}
    /\ late' = {v \in VIPs : pc[v] \in {"call", "apply"}}
    /\ UNCHANGED <<addresses, members, serving, advertised, reconciled,
                   drainOwner, vipAddresses, route, pc, call, removing, target,
                   decided, errored, drained, failed>>

-----------------------------------------------------------------------------

Request(v) ==
    \E a \in Addresses :
        \/ \E flag \in BOOLEAN : SetServing(v, a, flag) \/ BeginDrain(v, a, flag)
        \/ FinishDrain(v, a)
        \/ PrepareAddressChange(v, a)
        \/ Delete(v, a)

Step(v) ==
    \/ Remove(v)
    \/ Removed(v)
    \/ Register(v)
    \/ AcquireDrain(v)
    \/ RefuseDrain(v)
    \/ Decide(v)
    \/ RouterCall(v)
    \/ RouterCallFails(v)
    \/ Apply(v)
    \/ ApplyToNothing(v)
    \/ Undrain(v)

Next == (\E v \in VIPs : Request(v) \/ Step(v)) \/ IntervalElapses

Spec == Init /\ [][Next]_vars

-----------------------------------------------------------------------------

(* Types: a goroutine in a router call, or about to make one, has an       *)
(* address to work on.                                                     *)
TypeOK ==
    /\ addresses \in SUBSET Addresses
    /\ members \in [Addresses -> SUBSET VIPs]
    /\ serving \in [Addresses -> SUBSET VIPs]
    /\ advertised \in SUBSET Addresses
    /\ reconciled \in SUBSET Addresses
    /\ verified \in SUBSET Addresses
    /\ drainOwner \in [Addresses -> VIPs \cup {NoVIP}]
    /\ vipAddresses \in [VIPs -> Addresses \cup {NoAddress}]
    /\ route \in SUBSET Addresses
    /\ pc \in [VIPs -> {"idle", "remove", "removed", "register", "acquire",
                        "decide", "call", "apply", "undrain"}]
    /\ call \in [VIPs -> Call]
    /\ removing \in SUBSET VIPs
    /\ target \in [VIPs -> Addresses \cup {NoAddress}]
    /\ decided \in [VIPs -> {"none", "announce", "withdraw"}]
    /\ late \in SUBSET VIPs
    /\ errored \in SUBSET VIPs
    /\ drained \in [VIPs -> Addresses \cup {NoAddress}]
    /\ failed \in SUBSET Addresses
    /\ \A v \in VIPs :
           /\ pc[v] \in {"remove", "removed", "decide", "call", "apply", "undrain"}
                => target[v] \in Addresses
           /\ pc[v] \in {"register", "acquire", "undrain"}
                => call[v].address \in Addresses

(* A VIP is counted, serving or not, at no address but the one it is       *)
(* tracked at: a change of address (SetServing, beginDrain,                *)
(* prepareAddressChange) never leaves its old entry behind to keep the old *)
(* address announced.                                                      *)
CountedOnce ==
    \A a \in Addresses : \A v \in members[a] : a \in addresses /\ vipAddresses[v] = a

WorkingOn(v, a) == pc[v] \in {"decide", "call", "apply"} /\ target[v] = a

(* The bookkeeping agrees with what the address should advertise, unless a *)
(* goroutine is still in reconcileRoute for it or the last call for it     *)
(* failed: the re-check after the router call (reconcileRoute's loop) lets *)
(* no concurrent SetServing, drain or removal go unnoticed.                *)
Settled ==
    \A a \in addresses :
        \/ a \in reconciled /\ (a \in advertised <=> ShouldAdvertise(a))
        \/ \E v \in VIPs : WorkingOn(v, a)
        \/ a \in failed

(* A goroutine that was told its address is drained owns the drain until   *)
(* it gives it up; so no two hold the same address drained, and no         *)
(* SetServing of a sibling makes the bookkeeping want the route back.      *)
DrainExclusive ==
    \A v \in VIPs : drained[v] # NoAddress => drainOwner[drained[v]] = v

-----------------------------------------------------------------------------
(* Fairness.  A goroutine inside a call is scheduled and vtysh returns     *)
(* (CmdTimeout); the resync ticker of vipReconciler.run makes every        *)
(* tracked VIP call SetServing with its unchanged state again and again;   *)
(* time passes.                                                            *)

Refresh(v) ==
    \E a \in addresses : v \in members[a] /\ SetServing(v, a, v \in serving[a])

Fairness ==
    /\ \A v \in VIPs : WF_vars(Step(v))
    /\ \A v \in VIPs : SF_vars(Refresh(v))
    /\ WF_vars(IntervalElapses)

FairSpec == Spec /\ Fairness

(* A route that FRR lost, or that a late withdrawal removed, comes back:   *)
(* while the address should be advertised the periodic verification        *)
(* (shouldVerifyAdvertisedRoute) announces it again.                       *)
LostRouteHeals ==
    \A a \in Addresses : <>[]ShouldAdvertise(a) => []<>(a \in route)

\* Two goroutines are between deciding on a router call and recording it.
Overlapping(a) ==
    \E v, w \in VIPs :
        /\ v # w
        /\ target[v] = a /\ target[w] = a
        /\ pc[v] \in {"call", "apply"} /\ pc[w] \in {"call", "apply"}

(* Once no VIP of a known address is serving, the route does not stay      *)
(* installed: routing/interface.go, "When all backends are unhealthy, the  *)
(* route is withdrawn to prevent black-holing."  The exception is a router *)
(* call that overlaps another one for the address: reconcileRoute calls    *)
(* the router without the lock, so that an announce decided before a       *)
(* withdrawal can reach FRR after it, and a route that is recorded as      *)
(* withdrawn is never looked at again.                                     *)
NoBlackHole ==
    \A a \in Addresses :
        []~Overlapping(a) /\ <>[](a \in addresses /\ serving[a] = {})
            => []<>(a \notin route)
=============================================================================
