----------------------------- MODULE RolloutLease -----------------------------
(***************************************************************************)
(* The rollout coordinator of internal/agent/rollout/lease.go: agents      *)
(* serialise disruptive data plane changes of an address by holding a      *)
(* Kubernetes Lease per rollout key while they run.  A goroutine that      *)
(* changes a VIP's address needs two keys and nests RunExclusive in the    *)
(* sorted order of the keys (runExclusiveRollouts).                        *)
(*                                                                         *)
(* The API server stores a Lease under optimistic concurrency: an update   *)
(* succeeds only if the copy it was made from is still the stored one.     *)
(* Agents' clocks are taken to agree.                                      *)
(***************************************************************************)
EXTENDS Naturals

CONSTANTS
    Goroutines,
    Agents,
    AgentOf,     \* the agent (process) of each goroutine
    Keys,        \* rollout keys; their order is the order of the strings
    Duration,    \* ticks until a Lease that is not renewed is up for grabs
    KeySets,     \* the sets of keys a rollout may need
    None,
    Unreliable,  \* agents whose API calls may fail, or their answers be lost
    Crashing     \* agents that may crash

ASSUME AgentAssumption == AgentOf \in [Goroutines -> Agents]
ASSUME KeysAssumption == Keys \subseteq Nat
ASSUME KeySetsAssumption == KeySets \subseteq (SUBSET Keys) \ {{}}
ASSUME DurationAssumption == Duration \in Nat \ {0}
ASSUME FailureAssumption == Unreliable \cup Crashing \subseteq Agents
ASSUME NoneAssumption ==
    /\ None \notin Agents \cup Goroutines \cup {"absent", "dead"}
    /\ Agents \cap {"absent", "dead"} = {}

VARIABLES
    holder,   \* spec.holderIdentity: an agent, None, "dead" (an agent that
              \* crashed), or "absent" when there is no Lease object
    age,      \* ticks since spec.renewTime
    fresh,    \* fresh[k]: goroutines whose copy of the Lease is the stored one
    stamp,    \* ticks since a goroutine set renewTime in its copy
    lock,     \* localLocks: the goroutine of each agent that has the key
    wants,    \* the keys of the rollout
    phase,    \* acquiring, running fn, or releasing
    stage,    \* what the goroutine does with each key
    renewal,  \* renewLoop of each goroutine and key: idle, get or update
    cancelled,\* <<g, k>>: the operation context of g's hold of k is cancelled
    overran   \* holds that ran into their Lease's expiry: <<goroutine, key>>

leases == <<holder, age, fresh>>
vars == <<leases, stamp, lock, wants, phase, stage, renewal, cancelled, overran>>

Init ==
    /\ holder = [k \in Keys |-> "absent"]
    /\ age = [k \in Keys |-> 0]
    /\ fresh = [k \in Keys |-> {}]
    /\ stamp = [g \in Goroutines |-> [k \in Keys |-> 0]]
    /\ lock = [a \in Agents |-> [k \in Keys |-> None]]
    /\ wants = [g \in Goroutines |-> {}]
    /\ phase = [g \in Goroutines |-> "idle"]
    /\ stage = [g \in Goroutines |-> [k \in Keys |-> "none"]]
    /\ renewal = [g \in Goroutines |-> [k \in Keys |-> "idle"]]
    /\ cancelled = {}
    /\ overran = {}

-----------------------------------------------------------------------------

Held(g) == {k \in Keys : stage[g][k] = "held"}

SetStage(g, k, s) == stage' = [stage EXCEPT ![g][k] = s]

SetRenewal(g, k, s) == renewal' = [renewal EXCEPT ![g][k] = s]

\* A Get that leads to a write: the copy is current and is stamped with now.
TakeCopy(g, k) ==
    /\ fresh' = [fresh EXCEPT ![k] = @ \cup {g}]
    /\ stamp' = [stamp EXCEPT ![g][k] = 0]

\* The copy is written or given up; its time no longer matters.
DropCopy(g, k) == stamp' = [stamp EXCEPT ![g][k] = 0]

\* The API server refuses to create a Lease that exists, and to update one
\* that has changed since the copy was read.
Accepts(g, k) ==
    IF stage[g][k] = "create" THEN holder[k] = "absent" ELSE g \in fresh[k]

\* The copy is stored.  A hold stored with an old renewTime is already over.
Store(g, k, newHolder) ==
    /\ holder' = [holder EXCEPT ![k] = newHolder]
    /\ age' = [age EXCEPT ![k] = stamp[g][k]]
    /\ fresh' = [fresh EXCEPT ![k] = {}]
    /\ overran' = IF newHolder = AgentOf[g] /\ stamp[g][k] = Duration
                  THEN overran \cup {<<g, k>>} ELSE overran

Unlock(g, k) == lock' = [lock EXCEPT ![AgentOf[g]][k] = None]

-----------------------------------------------------------------------------
(* Acquiring                                                               *)

Start(g, keys) ==
    /\ phase[g] = "idle"
    /\ wants' = [wants EXCEPT ![g] = keys]
    /\ phase' = [phase EXCEPT ![g] = "acquiring"]
    /\ UNCHANGED <<leases, stamp, lock, stage, renewal, cancelled, overran>>

\* Mutant: the keys are taken in any order.
MutantNextKeys(g) == wants[g] \ Held(g)

\* rolloutKeysForAddresses sorts the keys; RunExclusive nests in that order.
NextKeys(g) ==
    {k \in wants[g] \ Held(g) : \A j \in wants[g] \ Held(g) : k <= j}

LocalFree(g, k) == lock[AgentOf[g]][k] = None

\* The context an acquire runs with comes from the keys already held.
ContextDone(g) == \E k \in wants[g] : <<g, k>> \in cancelled

Settled(g) == \A k \in Keys : stage[g][k] \in {"none", "held"}

AcquireLocal(g, k) ==
    /\ phase[g] = "acquiring"
    /\ k \in NextKeys(g)
    /\ Settled(g)
    /\ LocalFree(g, k)
    /\ lock' = [lock EXCEPT ![AgentOf[g]][k] = g]
    /\ SetStage(g, k, "get")
    /\ UNCHANGED <<leases, stamp, wants, phase, renewal, cancelled, overran>>

\* Mutant: a Lease is taken over without looking at its age.
MutantLeaseAvailable(g, k) == TRUE

LeaseAvailable(g, k) ==
    holder[k] \in {None, AgentOf[g]} \/ age[k] = Duration

\* tryAcquire's Get.  A Lease that is not available is tried again later.
GetLease(g, k) ==
    /\ stage[g][k] = "get"
    /\ \/ holder[k] = "absent" /\ SetStage(g, k, "create")
       \/ /\ holder[k] # "absent"
          /\ LeaseAvailable(g, k)
          /\ SetStage(g, k, "claim")
    /\ TakeCopy(g, k)
    /\ UNCHANGED <<holder, age, lock, wants, phase, renewal, cancelled, overran>>

\* tryAcquire's Create or Update; after a conflict it is tried again.
ClaimLease(g, k) ==
    /\ stage[g][k] \in {"create", "claim"}
    /\ IF Accepts(g, k)
       THEN Store(g, k, AgentOf[g]) /\ SetStage(g, k, "held")
       ELSE SetStage(g, k, "get") /\ UNCHANGED <<leases, overran>>
    /\ DropCopy(g, k)
    /\ UNCHANGED <<lock, wants, phase, renewal, cancelled>>

\* The context is done while the goroutine waits for the next local lock.
GiveUp(g) ==
    /\ phase[g] = "acquiring"
    /\ Settled(g)
    /\ NextKeys(g) # {}
    /\ ContextDone(g)
    /\ phase' = [phase EXCEPT ![g] = "releasing"]
    /\ UNCHANGED <<leases, stamp, lock, wants, stage, renewal, cancelled, overran>>

\* Every key is held: fn is called.
RunFn(g) ==
    /\ phase[g] = "acquiring"
    /\ Held(g) = wants[g]
    /\ phase' = [phase EXCEPT ![g] = "fn"]
    /\ UNCHANGED <<leases, stamp, lock, wants, stage, renewal, cancelled, overran>>

FnReturns(g) ==
    /\ phase[g] = "fn"
    /\ phase' = [phase EXCEPT ![g] = "releasing"]
    /\ UNCHANGED <<leases, stamp, lock, wants, stage, renewal, cancelled, overran>>

-----------------------------------------------------------------------------
(* renewLoop: runs for a key until the function run under that key returns *)

\* The key whose RunExclusive is the innermost one still running.
Innermost(g) ==
    {k \in wants[g] : stage[g][k] # "none"
                        /\ \A j \in wants[g] : stage[g][j] # "none" => j <= k}

\* cancelOp ends the context of the key and of the keys nested in it.
CancelOp(g, k) == cancelled \cup {<<g, j>> : j \in {j \in wants[g] : k <= j}}

RenewTick(g, k) ==
    /\ stage[g][k] = "held"
    /\ ~ (phase[g] = "releasing" /\ k \in Innermost(g))
    /\ renewal[g][k] = "idle"
    /\ <<g, k>> \notin cancelled
    /\ SetRenewal(g, k, "get")
    /\ UNCHANGED <<leases, stamp, lock, wants, phase, stage, cancelled, overran>>

RenewGet(g, k) ==
    /\ renewal[g][k] = "get"
    /\ IF holder[k] = AgentOf[g]
       THEN TakeCopy(g, k) /\ SetRenewal(g, k, "update") /\ UNCHANGED cancelled
       ELSE /\ cancelled' = CancelOp(g, k)
            /\ SetRenewal(g, k, "idle")
            /\ UNCHANGED <<fresh, stamp>>
    /\ UNCHANGED <<holder, age, lock, wants, phase, stage, overran>>

RenewUpdate(g, k) ==
    /\ renewal[g][k] = "update"
    /\ IF Accepts(g, k)
       THEN Store(g, k, AgentOf[g]) /\ SetRenewal(g, k, "idle")
       ELSE SetRenewal(g, k, "get") /\ UNCHANGED <<leases, overran>>
    /\ DropCopy(g, k)
    /\ UNCHANGED <<lock, wants, phase, stage, cancelled>>

-----------------------------------------------------------------------------
(* release: the innermost key first, once its renewLoop has ended          *)

ReleaseGet(g, k) ==
    /\ phase[g] = "releasing"
    /\ k \in Innermost(g)
    /\ stage[g][k] = "held"
    /\ renewal[g][k] = "idle"
    /\ IF holder[k] = AgentOf[g]
       THEN TakeCopy(g, k) /\ SetStage(g, k, "release") /\ UNCHANGED lock
       ELSE SetStage(g, k, "none") /\ Unlock(g, k) /\ UNCHANGED <<fresh, stamp>>
    /\ UNCHANGED <<holder, age, wants, phase, renewal, cancelled, overran>>

ReleaseUpdate(g, k) ==
    /\ stage[g][k] = "release"
    /\ IF Accepts(g, k)
       THEN Store(g, k, None) /\ SetStage(g, k, "none") /\ Unlock(g, k)
       ELSE SetStage(g, k, "held") /\ UNCHANGED <<leases, lock, overran>>
    /\ DropCopy(g, k)
    /\ UNCHANGED <<wants, phase, renewal, cancelled>>

\* The outermost RunExclusive has returned.
Finish(g) ==
    /\ phase[g] = "releasing"
    /\ \A k \in wants[g] : stage[g][k] = "none"
    /\ phase' = [phase EXCEPT ![g] = "idle"]
    /\ wants' = [wants EXCEPT ![g] = {}]
    /\ cancelled' = {c \in cancelled : c[1] # g}
    /\ overran' = {o \in overran : o[1] # g}
    /\ UNCHANGED <<leases, stamp, lock, stage, renewal>>

-----------------------------------------------------------------------------
(* Failures and time                                                       *)

\* A write whose answer is lost may have been stored.
MaybeStored(g, k, newHolder) ==
    /\ \/ /\ fresh' = [fresh EXCEPT ![k] = @ \ {g}]
          /\ UNCHANGED <<holder, age, overran>>
       \/ Accepts(g, k) /\ Store(g, k, newHolder)
    /\ DropCopy(g, k)

\* An API call of acquire fails, or the context is done: the error is
\* returned, and nothing releases a Lease the call may have stored.
AcquireFails(g, k) ==
    /\ \/ stage[g][k] = "get" /\ UNCHANGED <<leases, stamp, overran>>
       \/ stage[g][k] \in {"create", "claim"} /\ MaybeStored(g, k, AgentOf[g])
    /\ SetStage(g, k, "none")
    /\ Unlock(g, k)
    /\ phase' = [phase EXCEPT ![g] = "releasing"]
    /\ UNCHANGED <<wants, renewal, cancelled>>

RenewFails(g, k) ==
    /\ \/ renewal[g][k] = "get" /\ UNCHANGED <<leases, stamp, overran>>
       \/ renewal[g][k] = "update" /\ MaybeStored(g, k, AgentOf[g])
    /\ SetRenewal(g, k, "idle")
    /\ cancelled' = CancelOp(g, k)
    /\ UNCHANGED <<lock, wants, phase, stage>>

ReleaseFails(g, k) ==
    /\ stage[g][k] = "release"
    /\ MaybeStored(g, k, None)
    /\ SetStage(g, k, "none")
    /\ Unlock(g, k)
    /\ UNCHANGED <<wants, phase, renewal, cancelled>>

\* The process dies; its successor has another holder identity.
Crash(a) ==
    LET mine == {g \in Goroutines : AgentOf[g] = a}
        gone(f, initial) == [g \in Goroutines |-> IF g \in mine THEN initial ELSE f[g]]
    IN  /\ \E g \in mine : phase[g] # "idle"
        /\ holder' = [k \in Keys |-> IF holder[k] = a THEN "dead" ELSE holder[k]]
        /\ fresh' = [k \in Keys |-> fresh[k] \ mine]
        /\ lock' = [lock EXCEPT ![a] = [k \in Keys |-> None]]
        /\ wants' = gone(wants, {})
        /\ phase' = gone(phase, "idle")
        /\ stage' = gone(stage, [k \in Keys |-> "none"])
        /\ stamp' = gone(stamp, [k \in Keys |-> 0])
        /\ renewal' = gone(renewal, [k \in Keys |-> "idle"])
        /\ cancelled' = {c \in cancelled : c[1] \notin mine}
        /\ overran' = {o \in overran : o[1] \notin mine}
        /\ UNCHANGED age

\* A Lease is as good as free once Duration has passed; how long ago that was
\* makes no difference.
Older(n) == IF n = Duration THEN n ELSE n + 1

\* Copies that are about to be written carry a time.
Stamped(g, k) == stage[g][k] \in {"create", "claim", "release"} \/ renewal[g][k] = "update"

Tick ==
    /\ age' = [k \in Keys |->
                 IF holder[k] \in {"absent", None} THEN age[k] ELSE Older(age[k])]
    /\ stamp' = [g \in Goroutines |-> [k \in Keys |->
                   IF Stamped(g, k) THEN Older(stamp[g][k]) ELSE stamp[g][k]]]
    /\ overran' = overran \cup
          {o \in Goroutines \X Keys :
               stage[o[1]][o[2]] \in {"held", "release"} /\ age'[o[2]] = Duration}
    /\ UNCHANGED <<holder, fresh, lock, wants, phase, stage, renewal, cancelled>>

-----------------------------------------------------------------------------

Work(g) ==
    \/ RunFn(g) \/ FnReturns(g) \/ GiveUp(g) \/ Finish(g)
    \/ \E k \in Keys :
          \/ AcquireLocal(g, k) \/ GetLease(g, k) \/ ClaimLease(g, k)
          \/ ReleaseGet(g, k) \/ ReleaseUpdate(g, k)
          \/ ContextDone(g) /\ AcquireFails(g, k)

Renew(g, k) ==
    \/ RenewTick(g, k) \/ RenewGet(g, k) \/ RenewUpdate(g, k)
    \/ <<g, k>> \in cancelled /\ RenewFails(g, k)

Failure ==
    \/ \E g \in Goroutines, k \in Keys :
          /\ AgentOf[g] \in Unreliable
          /\ AcquireFails(g, k) \/ RenewFails(g, k) \/ ReleaseFails(g, k)
    \/ \E a \in Crashing : Crash(a)

Next ==
    \/ \E g \in Goroutines : \E keys \in KeySets : Start(g, keys)
    \/ \E g \in Goroutines : Work(g) \/ \E k \in Keys : Renew(g, k)
    \/ Failure
    \/ Tick

Spec == Init /\ [][Next]_vars

-----------------------------------------------------------------------------
(* Properties                                                              *)

(* Types: ages and copies' times never pass the Lease duration, from which *)
(* on they make no difference.                                             *)
TypeOK ==
    /\ holder \in [Keys -> Agents \cup {None, "absent", "dead"}]
    /\ age \in [Keys -> 0..Duration]
    /\ fresh \in [Keys -> SUBSET Goroutines]
    /\ stamp \in [Goroutines -> [Keys -> 0..Duration]]
    /\ lock \in [Agents -> [Keys -> Goroutines \cup {None}]]
    /\ wants \in [Goroutines -> SUBSET Keys]
    /\ phase \in [Goroutines -> {"idle", "acquiring", "fn", "releasing"}]
    /\ stage \in [Goroutines ->
                    [Keys -> {"none", "get", "create", "claim", "held", "release"}]]
    /\ renewal \in [Goroutines -> [Keys -> {"idle", "get", "update"}]]
    /\ cancelled \subseteq Goroutines \X Keys
    /\ overran \subseteq Goroutines \X Keys

\* Disruptive changes are serialised per key: two goroutines run fn for the
\* same key at the same time only if the Lease of one of them expired while it
\* held it.  Within an agent they never do.
Exclusive ==
    \A g, h \in Goroutines : \A k \in wants[g] \cap wants[h] :
        g # h /\ phase[g] = "fn" /\ phase[h] = "fn" =>
            /\ AgentOf[g] # AgentOf[h]
            /\ <<g, k>> \in overran \/ <<h, k>> \in overran

\* Time passes without a live hold, or a copy being written, running out.
Prompt ==
    /\ overran' \subseteq overran
    /\ \A g \in Goroutines, k \in Keys : stamp'[g][k] < Duration

Fairness ==
    /\ WF_vars(Tick)
    /\ \A g \in Goroutines : WF_vars(Work(g))
    /\ \A g \in Goroutines, k \in Keys : WF_vars(Renew(g, k))

FairSpec == Spec /\ Fairness

\* Rollouts that need several keys never end up waiting for each other: once
\* API calls succeed and are prompt, if there always is a rollout that waits
\* for its keys then rollouts keep running, also after crashes and lost
\* answers have left Leases behind.
SomeoneRuns ==
    /\ <>[][~Failure /\ Prompt]_vars
    /\ []<>(\E g \in Goroutines : phase[g] = "acquiring")
    => []<>(\E g \in Goroutines : phase[g] = "fn")
=============================================================================
