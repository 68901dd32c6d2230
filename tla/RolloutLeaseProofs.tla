------------------------- MODULE RolloutLeaseProofs -------------------------
(***************************************************************************)
(* Exclusive for any number of agents, goroutines and keys, any Lease      *)
(* duration, and with failing calls, lost answers and crashes.             *)
(*                                                                         *)
(* The argument: a goroutine writes a Lease only from a current copy it    *)
(* was allowed to write from (Copy), so no write replaces a hold that has  *)
(* not run out (NoLiveHoldReplaced); goroutines of one agent are kept      *)
(* apart by the agent's lock of the key (Locked).                          *)
(***************************************************************************)
EXTENDS RolloutLease, TLAPS

\* A leaf that names no prover is for Zenon.
USE ZenonT(60)

Stages == {"none", "get", "create", "claim", "held", "release"}
Renewals == {"idle", "get", "update"}
Holders == Agents \cup {None, "absent", "dead"}

\* Whoever is busy with a key has its agent's lock of it.
Locked(g, k) ==
    stage[g][k] # "none" => k \in wants[g] /\ lock[AgentOf[g]][k] = g

\* fn runs only with every key held, and renewLoop only while its key is.
Phased(g, k) ==
    /\ phase[g] = "idle" => stage[g][k] = "none"
    /\ phase[g] = "fn" /\ k \in wants[g] => stage[g][k] = "held"
    /\ renewal[g][k] # "idle" => stage[g][k] = "held"

\* A copy that is still current shows a Lease its owner may write.
Copy(g, k) ==
    g \in fresh[k] =>
        /\ stage[g][k] = "claim" => LeaseAvailable(g, k)
        /\ stage[g][k] = "release" \/ renewal[g][k] = "update" => holder[k] = AgentOf[g]

\* A hold that has not run out is the one the API server has.
Holds(g, k) ==
    stage[g][k] \in {"held", "release"} /\ <<g, k>> \notin overran =>
        holder[k] = AgentOf[g] /\ age[k] # Duration

KeyInv(g, k) == Locked(g, k) /\ Phased(g, k) /\ Copy(g, k) /\ Holds(g, k)

\* The inductive invariant.
LeaseInv == TypeOK /\ \A g \in Goroutines, k \in Keys : KeyInv(g, k)

-----------------------------------------------------------------------------
(* A step of one goroutine on one key                                      *)

\* What such a step leaves alone, and that it writes only what it may.
KeyStep(g, k) ==
    /\ \A h \in Goroutines, j \in Keys : h # g \/ j # k =>
          /\ stage'[h][j] = stage[h][j]
          /\ renewal'[h][j] = renewal[h][j]
          /\ <<h, j>> \in overran' <=> <<h, j>> \in overran
    /\ wants' = wants
    /\ \A h \in Goroutines \ {g} : phase'[h] = phase[h]
    /\ phase'[g] \in {phase[g], "releasing"}
    /\ \A a \in Agents, j \in Keys : a # AgentOf[g] \/ j # k => lock'[a][j] = lock[a][j]
    /\ lock[AgentOf[g]][k] \in {g, None}
    /\ \A j \in Keys \ {k} :
          holder'[j] = holder[j] /\ age'[j] = age[j] /\ fresh'[j] = fresh[j]
    /\ fresh'[k] \subseteq fresh[k] \cup {g}
    /\ \/ holder'[k] = holder[k] /\ age'[k] = age[k]
       \/ Accepts(g, k) /\ Stamped(g, k) /\ fresh'[k] = {}

(* Two goroutines of one agent are never both busy with a key.             *)
LEMMA OneInAgent ==
    ASSUME LeaseInv, NEW g \in Goroutines, NEW h \in Goroutines, NEW k \in Keys,
           AgentOf[g] = AgentOf[h], stage[g][k] # "none", stage[h][k] # "none"
    PROVE  g = h
BY SMTT(60) DEF LeaseInv, KeyInv, Locked

(* The API server never takes a write in place of another's live hold.     *)
LEMMA NoLiveHoldReplaced ==
    ASSUME LeaseInv, NEW g \in Goroutines, NEW h \in Goroutines, NEW k \in Keys, g # h,
           Accepts(g, k), Stamped(g, k), stage[h][k] \in {"held", "release"}
    PROVE  <<h, k>> \in overran
<1>. SUFFICES ASSUME <<h, k>> \notin overran PROVE FALSE
    OBVIOUS
<1>1. holder[k] = AgentOf[h] /\ age[k] # Duration
    BY DEF LeaseInv, KeyInv, Holds
<1>2. stage[g][k] # "none" /\ AgentOf[g] # AgentOf[h]
    <2>1. stage[g][k] # "none"
        BY DEF Stamped, LeaseInv, KeyInv, Phased
    <2>. QED
        BY <2>1, OneInAgent
<1>3. AgentOf[h] \in Agents
    BY AgentAssumption
<1>4. CASE stage[g][k] = "create"
    BY <1>1, <1>3, <1>4, NoneAssumption DEF Accepts
<1>5. CASE stage[g][k] # "create"
    <2>1. g \in fresh[k]
        BY <1>5 DEF Accepts
    <2>2. \/ stage[g][k] = "claim"
          \/ stage[g][k] = "release" \/ renewal[g][k] = "update"
        BY <1>5 DEF Stamped
    <2>. QED
        BY <1>1, <1>2, <1>3, <2>1, <2>2, NoneAssumption
        DEF LeaseInv, KeyInv, Copy, LeaseAvailable
<1>. QED
    BY <1>4, <1>5

(* Such a step keeps everyone's part of the invariant if it keeps its own. *)
LEMMA KeyStepKeeps ==
    ASSUME LeaseInv, NEW g \in Goroutines, NEW k \in Keys, KeyStep(g, k), KeyInv(g, k)'
    PROVE  \A h \in Goroutines, j \in Keys : KeyInv(h, j)'
<1>. SUFFICES ASSUME NEW h \in Goroutines, NEW j \in Keys, h # g \/ j # k
              PROVE  KeyInv(h, j)'
    OBVIOUS
<1>0. KeyInv(h, j) /\ AgentOf[h] \in Agents /\ AgentOf[g] \in Agents
    BY AgentAssumption DEF LeaseInv
<1>1. /\ stage'[h][j] = stage[h][j]
      /\ renewal'[h][j] = renewal[h][j]
      /\ <<h, j>> \in overran' <=> <<h, j>> \in overran
      /\ wants' = wants
    BY DEF KeyStep
<1>2. Locked(h, j)'
    <2>1. CASE stage[h][j] # "none"
        <3>1. lock[AgentOf[h]][j] = h
            BY <1>0, <2>1 DEF KeyInv, Locked
        <3>2. lock'[AgentOf[h]][j] = lock[AgentOf[h]][j]
            BY <1>0, <3>1, NoneAssumption, SMTT(60) DEF KeyStep
        <3>. QED
            BY <1>0, <1>1, <2>1, <3>2 DEF KeyInv, Locked
    <2>. QED
        BY <1>1, <2>1 DEF Locked
<1>3. Phased(h, j)'
    <2>1. phase'[h] \in {phase[h], "releasing"}
        BY DEF KeyStep
    <2>. QED
        BY <1>0, <1>1, <2>1 DEF KeyInv, Phased
<1>4. CASE j # k
    <2>1. holder'[j] = holder[j] /\ age'[j] = age[j] /\ fresh'[j] = fresh[j]
        BY <1>4 DEF KeyStep
    <2>. QED
        BY <1>0, <1>1, <1>2, <1>3, <2>1 DEF KeyInv, Copy, Holds, LeaseAvailable
<1>5. CASE j = k
    <2>1. h \in fresh'[k] => h \in fresh[k]
        BY <1>5 DEF KeyStep
    <2>2. CASE holder'[k] = holder[k] /\ age'[k] = age[k]
        BY <1>0, <1>1, <1>2, <1>3, <1>5, <2>1, <2>2 DEF KeyInv, Copy, Holds, LeaseAvailable
    <2>3. CASE Accepts(g, k) /\ Stamped(g, k) /\ fresh'[k] = {}
        <3>1. stage[h][k] \in {"held", "release"} => <<h, k>> \in overran
            BY <1>5, <2>3, NoLiveHoldReplaced
        <3>. QED
            BY <1>1, <1>2, <1>3, <1>5, <2>3, <3>1 DEF KeyInv, Copy, Holds
    <2>. QED
        BY <2>2, <2>3 DEF KeyStep
<1>. QED
    BY <1>4, <1>5

-----------------------------------------------------------------------------
(* What the operators the actions are built from change                    *)

(* An EXCEPT two levels deep changes one entry.                            *)
LEMMA NestedExcept ==
    ASSUME NEW S, NEW T, NEW V, NEW f \in [S -> [T -> V]],
           NEW x \in S, NEW y \in T, NEW v \in V
    PROVE  /\ [f EXCEPT ![x][y] = v] \in [S -> [T -> V]]
           /\ \A i \in S, j \in T :
                 [f EXCEPT ![x][y] = v][i][j] = IF i = x /\ j = y THEN v ELSE f[i][j]
OBVIOUS

(* SetStage changes where one goroutine is with one key.                   *)
LEMMA StageSet ==
    ASSUME TypeOK, NEW g \in Goroutines, NEW k \in Keys, NEW s \in Stages, SetStage(g, k, s)
    PROVE  /\ stage' \in [Goroutines -> [Keys -> Stages]]
           /\ \A h \in Goroutines, j \in Keys :
                 stage'[h][j] = IF h = g /\ j = k THEN s ELSE stage[h][j]
<1>1. stage \in [Goroutines -> [Keys -> Stages]]
    BY DEF TypeOK, Stages
<1>. QED
    BY <1>1, NestedExcept, SMTT(60) DEF SetStage

(* SetRenewal changes one renewLoop.                                       *)
LEMMA RenewalSet ==
    ASSUME TypeOK, NEW g \in Goroutines, NEW k \in Keys, NEW r \in Renewals,
           SetRenewal(g, k, r)
    PROVE  /\ renewal' \in [Goroutines -> [Keys -> Renewals]]
           /\ \A h \in Goroutines, j \in Keys :
                 renewal'[h][j] = IF h = g /\ j = k THEN r ELSE renewal[h][j]
<1>1. renewal \in [Goroutines -> [Keys -> Renewals]]
    BY DEF TypeOK, Renewals
<1>. QED
    BY <1>1, NestedExcept, SMTT(60) DEF SetRenewal

(* An agent's lock of one key changes hands.                               *)
LEMMA LockSet ==
    ASSUME TypeOK, NEW g \in Goroutines, NEW k \in Keys, NEW o \in Goroutines \cup {None},
           lock' = [lock EXCEPT ![AgentOf[g]][k] = o]
    PROVE  /\ lock' \in [Agents -> [Keys -> Goroutines \cup {None}]]
           /\ \A a \in Agents, j \in Keys :
                 lock'[a][j] = IF a = AgentOf[g] /\ j = k THEN o ELSE lock[a][j]
<1>1. lock \in [Agents -> [Keys -> Goroutines \cup {None}]] /\ AgentOf[g] \in Agents
    BY AgentAssumption DEF TypeOK
<1>. QED
    BY <1>1, NestedExcept, SMTT(60)

(* Dropping one's copy of the Lease keeps the types.                       *)
LEMMA CopyDropped ==
    ASSUME TypeOK, NEW g \in Goroutines, NEW k \in Keys, DropCopy(g, k)
    PROVE  stamp' \in [Goroutines -> [Keys -> 0..Duration]]
<1>1. stamp \in [Goroutines -> [Keys -> 0..Duration]] /\ 0 \in 0..Duration
    BY DurationAssumption, SMTT(60) DEF TypeOK
<1>. QED
    BY <1>1, NestedExcept DEF DropCopy

\* What a read or a write of a Lease, stored or not, leaves alone.
LeaseStep(g, k) ==
    /\ holder' \in [Keys -> Holders]
    /\ age' \in [Keys -> 0..Duration]
    /\ fresh' \in [Keys -> SUBSET Goroutines]
    /\ overran' \subseteq Goroutines \X Keys
    /\ \A h \in Goroutines, j \in Keys : h # g \/ j # k =>
          (<<h, j>> \in overran' <=> <<h, j>> \in overran)
    /\ \A j \in Keys \ {k} :
          holder'[j] = holder[j] /\ age'[j] = age[j] /\ fresh'[j] = fresh[j]
    /\ fresh'[k] \subseteq fresh[k] \cup {g}
    /\ \/ holder'[k] = holder[k] /\ age'[k] = age[k]
       \/ Accepts(g, k) /\ fresh'[k] = {}

(* A stored write: the new holder, if it is the writer, holds the Lease    *)
(* unless the time in its copy was already too old.                        *)
LEMMA Stored ==
    ASSUME TypeOK, NEW g \in Goroutines, NEW k \in Keys, NEW n \in {AgentOf[g], None},
           Accepts(g, k), Store(g, k, n)
    PROVE  /\ LeaseStep(g, k)
           /\ holder'[k] = n /\ fresh'[k] = {}
           /\ n = AgentOf[g] => age'[k] # Duration \/ <<g, k>> \in overran'
<1>1. stamp[g][k] \in 0..Duration /\ AgentOf[g] \in Agents
    BY AgentAssumption DEF TypeOK
<1>2. n \in Holders
    BY <1>1 DEF Holders
<1>3. /\ holder' = [holder EXCEPT ![k] = n]
      /\ age' = [age EXCEPT ![k] = stamp[g][k]]
      /\ fresh' = [fresh EXCEPT ![k] = {}]
      /\ overran' \in {overran, overran \cup {<<g, k>>}}
      /\ n = AgentOf[g] /\ stamp[g][k] = Duration => <<g, k>> \in overran'
    BY DEF Store
<1>. QED
    BY <1>1, <1>2, <1>3, SMTT(60) DEF LeaseStep, TypeOK, Holders

(* Nothing is written, and a copy may be given up.                         *)
LEMMA NotStored ==
    ASSUME TypeOK, NEW g \in Goroutines, NEW k \in Keys,
           fresh' \in {fresh, [fresh EXCEPT ![k] = @ \ {g}]},
           UNCHANGED <<holder, age, overran>>
    PROVE  LeaseStep(g, k) /\ holder'[k] = holder[k] /\ age'[k] = age[k]
<1>1. /\ fresh' \in [Keys -> SUBSET Goroutines]
      /\ fresh'[k] \subseteq fresh[k]
      /\ \A j \in Keys \ {k} : fresh'[j] = fresh[j]
    <2>1. CASE fresh' = fresh
        BY <2>1 DEF TypeOK
    <2>2. CASE fresh' = [fresh EXCEPT ![k] = fresh[k] \ {g}]
        BY <2>2 DEF TypeOK
    <2>. QED
        BY <2>1, <2>2
<1>2. holder' = holder /\ age' = age /\ overran' = overran
    OBVIOUS
<1>. QED
    BY <1>1, <1>2 DEF LeaseStep, TypeOK, Holders

(* A Get that leads to a write.                                            *)
LEMMA CopyTaken ==
    ASSUME TypeOK, NEW g \in Goroutines, NEW k \in Keys, TakeCopy(g, k),
           UNCHANGED <<holder, age, overran>>
    PROVE  LeaseStep(g, k) /\ stamp' \in [Goroutines -> [Keys -> 0..Duration]]
<1>1. stamp' \in [Goroutines -> [Keys -> 0..Duration]]
    BY CopyDropped DEF TakeCopy, DropCopy
<1>2. /\ fresh' \in [Keys -> SUBSET Goroutines]
      /\ fresh'[k] \subseteq fresh[k] \cup {g}
      /\ \A j \in Keys \ {k} : fresh'[j] = fresh[j]
    BY DEF TakeCopy, TypeOK
<1>3. holder' = holder /\ age' = age /\ overran' = overran
    OBVIOUS
<1>. QED
    BY <1>1, <1>2, <1>3 DEF LeaseStep, TypeOK, Holders

(* A write whose answer is lost.                                           *)
LEMMA MaybeStoredStep ==
    ASSUME TypeOK, NEW g \in Goroutines, NEW k \in Keys, NEW n \in {AgentOf[g], None},
           MaybeStored(g, k, n)
    PROVE  /\ LeaseStep(g, k)
           /\ stamp' \in [Goroutines -> [Keys -> 0..Duration]]
           /\ \/ /\ Accepts(g, k) /\ holder'[k] = n /\ fresh'[k] = {}
                 /\ n = AgentOf[g] => age'[k] # Duration \/ <<g, k>> \in overran'
              \/ holder'[k] = holder[k] /\ age'[k] = age[k] /\ overran' = overran
<1>1. stamp' \in [Goroutines -> [Keys -> 0..Duration]]
    BY CopyDropped DEF MaybeStored
<1>2. CASE Accepts(g, k) /\ Store(g, k, n)
    BY <1>1, <1>2, Stored
<1>3. CASE /\ fresh' = [fresh EXCEPT ![k] = @ \ {g}]
           /\ UNCHANGED <<holder, age, overran>>
    BY <1>1, <1>3, NotStored
<1>. QED
    BY <1>2, <1>3 DEF MaybeStored

-----------------------------------------------------------------------------

(* acquireLocal: taking the agent's own lock of the key.                   *)
LEMMA AcquireLocalKeeps ==
    ASSUME LeaseInv, NEW g \in Goroutines, NEW k \in Keys, AcquireLocal(g, k)
    PROVE  TypeOK' /\ KeyStep(g, k) /\ KeyInv(g, k)'
<1>. USE DEF AcquireLocal
<1>1. TypeOK /\ KeyInv(g, k) /\ AgentOf[g] \in Agents
    BY AgentAssumption DEF LeaseInv
<1>2. /\ stage' \in [Goroutines -> [Keys -> Stages]]
      /\ \A h \in Goroutines, j \in Keys :
            stage'[h][j] = IF h = g /\ j = k THEN "get" ELSE stage[h][j]
    BY <1>1, StageSet, SMTT(60) DEF Stages
<1>3. /\ lock' \in [Agents -> [Keys -> Goroutines \cup {None}]]
      /\ \A a \in Agents, j \in Keys :
            lock'[a][j] = IF a = AgentOf[g] /\ j = k THEN g ELSE lock[a][j]
    BY <1>1, LockSet
<1>4. TypeOK'
    BY <1>1, <1>2, <1>3 DEF TypeOK, leases, Stages
<1>5. KeyStep(g, k)
    BY <1>2, <1>3, SMTT(60) DEF KeyStep, LocalFree, leases
<1>6. KeyInv(g, k)'
    <2>1. stage[g][k] # "held" /\ k \in wants[g]
        BY DEF NextKeys, Held
    <2>. QED
        BY <1>1, <1>2, <1>3, <2>1 DEF KeyInv, Locked, Phased, Copy, Holds, leases
<1>. QED
    BY <1>4, <1>5, <1>6

(* acquire, the Get of the Lease.                                          *)
LEMMA GetLeaseKeeps ==
    ASSUME LeaseInv, NEW g \in Goroutines, NEW k \in Keys, GetLease(g, k)
    PROVE  TypeOK' /\ KeyStep(g, k) /\ KeyInv(g, k)'
<1>. USE DEF GetLease
<1>1. TypeOK /\ KeyInv(g, k)
    BY DEF LeaseInv
<1>2. PICK s \in {"create", "claim"} :
          SetStage(g, k, s) /\ (s = "claim" => LeaseAvailable(g, k))
    OBVIOUS
<1>3. /\ stage' \in [Goroutines -> [Keys -> Stages]]
      /\ \A h \in Goroutines, j \in Keys :
            stage'[h][j] = IF h = g /\ j = k THEN s ELSE stage[h][j]
    BY <1>1, <1>2, StageSet, SMTT(60) DEF Stages
<1>4. LeaseStep(g, k) /\ stamp' \in [Goroutines -> [Keys -> 0..Duration]]
    BY <1>1, CopyTaken
<1>5. TypeOK'
    BY <1>1, <1>3, <1>4 DEF TypeOK, LeaseStep, Stages, Holders
<1>6. KeyStep(g, k)
    BY <1>1, <1>3, <1>4, SMTT(60) DEF KeyStep, LeaseStep, KeyInv, Locked
<1>7. KeyInv(g, k)'
    BY <1>1, <1>2, <1>3 DEF KeyInv, Locked, Phased, Copy, Holds, LeaseAvailable
<1>. QED
    BY <1>5, <1>6, <1>7

(* acquire, the Create or Update that claims it.                           *)
LEMMA ClaimLeaseKeeps ==
    ASSUME LeaseInv, NEW g \in Goroutines, NEW k \in Keys, ClaimLease(g, k)
    PROVE  TypeOK' /\ KeyStep(g, k) /\ KeyInv(g, k)'
<1>1. TypeOK /\ KeyInv(g, k) /\ stage[g][k] \in {"create", "claim"}
    BY DEF LeaseInv, ClaimLease
<1>2. stamp' \in [Goroutines -> [Keys -> 0..Duration]]
    BY <1>1, CopyDropped DEF ClaimLease
<1>3. PICK s \in {"held", "get"} :
          /\ SetStage(g, k, s)
          /\ LeaseStep(g, k)
          /\ s = "held" => /\ holder'[k] = AgentOf[g]
                           /\ age'[k] # Duration \/ <<g, k>> \in overran'
    <2>1. CASE Accepts(g, k)
        BY <1>1, <2>1, Stored DEF ClaimLease
    <2>2. CASE ~ Accepts(g, k)
        BY <1>1, <2>2, NotStored DEF ClaimLease, leases
    <2>. QED
        BY <2>1, <2>2
<1>4. /\ stage' \in [Goroutines -> [Keys -> Stages]]
      /\ \A h \in Goroutines, j \in Keys :
            stage'[h][j] = IF h = g /\ j = k THEN s ELSE stage[h][j]
    BY <1>1, <1>3, StageSet, SMTT(60) DEF Stages
<1>5. UNCHANGED <<lock, wants, phase, renewal, cancelled>>
    BY DEF ClaimLease
<1>6. TypeOK'
    BY <1>1, <1>2, <1>3, <1>4, <1>5 DEF TypeOK, LeaseStep, Stages, Holders
<1>7. KeyStep(g, k)
    BY <1>1, <1>3, <1>4, <1>5, SMTT(60) DEF KeyStep, LeaseStep, KeyInv, Locked, Stamped
<1>8. KeyInv(g, k)'
    BY <1>1, <1>3, <1>4, <1>5 DEF KeyInv, Locked, Phased, Copy, Holds
<1>. QED
    BY <1>6, <1>7, <1>8

(* release, the Get of the Lease.                                          *)
LEMMA ReleaseGetKeeps ==
    ASSUME LeaseInv, NEW g \in Goroutines, NEW k \in Keys, ReleaseGet(g, k)
    PROVE  TypeOK' /\ KeyStep(g, k) /\ KeyInv(g, k)'
<1>1. /\ TypeOK /\ KeyInv(g, k) /\ AgentOf[g] \in Agents
      /\ phase[g] = "releasing" /\ stage[g][k] = "held" /\ renewal[g][k] = "idle"
      /\ UNCHANGED <<holder, age, wants, phase, renewal, cancelled, overran>>
    BY AgentAssumption DEF LeaseInv, ReleaseGet
<1>2. CASE holder[k] = AgentOf[g]
    <2>1. TakeCopy(g, k) /\ SetStage(g, k, "release") /\ lock' = lock
        BY <1>2 DEF ReleaseGet
    <2>2. /\ stage' \in [Goroutines -> [Keys -> Stages]]
          /\ \A h \in Goroutines, j \in Keys :
                stage'[h][j] = IF h = g /\ j = k THEN "release" ELSE stage[h][j]
        BY <1>1, <2>1, StageSet, SMTT(60) DEF Stages
    <2>3. LeaseStep(g, k) /\ stamp' \in [Goroutines -> [Keys -> 0..Duration]]
        BY <1>1, <2>1, CopyTaken
    <2>4. TypeOK'
        BY <1>1, <2>1, <2>2, <2>3 DEF TypeOK, LeaseStep, Stages, Holders
    <2>5. KeyStep(g, k)
        BY <1>1, <2>1, <2>2, <2>3, SMTT(60) DEF KeyStep, LeaseStep, KeyInv, Locked
    <2>6. KeyInv(g, k)'
        BY <1>1, <1>2, <2>1, <2>2 DEF KeyInv, Locked, Phased, Copy, Holds
    <2>. QED
        BY <2>4, <2>5, <2>6
<1>3. CASE holder[k] # AgentOf[g]
    <2>1. SetStage(g, k, "none") /\ Unlock(g, k) /\ UNCHANGED <<fresh, stamp>>
        BY <1>3 DEF ReleaseGet
    <2>2. /\ stage' \in [Goroutines -> [Keys -> Stages]]
          /\ \A h \in Goroutines, j \in Keys :
                stage'[h][j] = IF h = g /\ j = k THEN "none" ELSE stage[h][j]
        BY <1>1, <2>1, StageSet, SMTT(60) DEF Stages
    <2>3. /\ lock' \in [Agents -> [Keys -> Goroutines \cup {None}]]
          /\ \A a \in Agents, j \in Keys :
                lock'[a][j] = IF a = AgentOf[g] /\ j = k THEN None ELSE lock[a][j]
        BY <1>1, <2>1, LockSet DEF Unlock
    <2>4. TypeOK'
        BY <1>1, <2>1, <2>2, <2>3 DEF TypeOK, Stages
    <2>5. KeyStep(g, k)
        BY <1>1, <2>1, <2>2, <2>3, SMTT(60) DEF KeyStep, KeyInv, Locked
    <2>6. KeyInv(g, k)'
        BY <1>1, <2>1, <2>2 DEF KeyInv, Locked, Phased, Copy, Holds
    <2>. QED
        BY <2>4, <2>5, <2>6
<1>. QED
    BY <1>2, <1>3

\* The end of a goroutine's work on a key: the Lease is written or not, the
\* key is dropped and the agent's lock released.
DropKey(g, k) ==
    /\ stage[g][k] \in {"get", "create", "claim", "release"}
    /\ LeaseStep(g, k)
    /\ Stamped(g, k) \/ (holder'[k] = holder[k] /\ age'[k] = age[k])
    /\ stamp' \in [Goroutines -> [Keys -> 0..Duration]]
    /\ SetStage(g, k, "none") /\ Unlock(g, k) /\ UNCHANGED <<wants, renewal, cancelled>>
    /\ phase' \in {phase, [phase EXCEPT ![g] = "releasing"]}

(* The end of release: the agent's lock is freed.                          *)
LEMMA DropKeyKeeps ==
    ASSUME LeaseInv, NEW g \in Goroutines, NEW k \in Keys, DropKey(g, k)
    PROVE  TypeOK' /\ KeyStep(g, k) /\ KeyInv(g, k)'
<1>1. TypeOK /\ KeyInv(g, k)
    BY DEF LeaseInv
<1>2. /\ stage' \in [Goroutines -> [Keys -> Stages]]
      /\ \A h \in Goroutines, j \in Keys :
            stage'[h][j] = IF h = g /\ j = k THEN "none" ELSE stage[h][j]
    <2>1. SetStage(g, k, "none") /\ "none" \in Stages
        BY DEF DropKey, Stages
    <2>. QED
        BY <1>1, <2>1, StageSet, SMTT(60)
<1>3. /\ lock' \in [Agents -> [Keys -> Goroutines \cup {None}]]
      /\ \A a \in Agents, j \in Keys :
            lock'[a][j] = IF a = AgentOf[g] /\ j = k THEN None ELSE lock[a][j]
    BY <1>1, LockSet DEF DropKey, Unlock
<1>4. /\ phase' \in [Goroutines -> {"idle", "acquiring", "fn", "releasing"}]
      /\ \A h \in Goroutines \ {g} : phase'[h] = phase[h]
      /\ phase'[g] \in {phase[g], "releasing"}
    BY <1>1 DEF DropKey, TypeOK
<1>5. /\ wants' = wants /\ renewal' = renewal /\ cancelled' = cancelled
      /\ stage[g][k] \notin {"none", "held"} /\ LeaseStep(g, k)
      /\ stamp' \in [Goroutines -> [Keys -> 0..Duration]]
    BY DEF DropKey
<1>6. TypeOK'
    BY <1>1, <1>2, <1>3, <1>4, <1>5 DEF TypeOK, LeaseStep, Stages, Holders
<1>7. KeyStep(g, k)
    <2>1. lock[AgentOf[g]][k] = g
        BY <1>1, <1>5 DEF KeyInv, Locked
    <2>2. Stamped(g, k) \/ (holder'[k] = holder[k] /\ age'[k] = age[k])
        BY DEF DropKey
    <2>. QED
        BY <1>2, <1>3, <1>4, <1>5, <2>1, <2>2, SMTT(60) DEF KeyStep, LeaseStep
<1>8. KeyInv(g, k)'
    BY <1>1, <1>2, <1>4, <1>5 DEF KeyInv, Locked, Phased, Copy, Holds
<1>. QED
    BY <1>6, <1>7, <1>8

(* release, the Update that clears the holder.                             *)
LEMMA ReleaseUpdateKeeps ==
    ASSUME LeaseInv, NEW g \in Goroutines, NEW k \in Keys, ReleaseUpdate(g, k)
    PROVE  TypeOK' /\ KeyStep(g, k) /\ KeyInv(g, k)'
<1>1. /\ TypeOK /\ KeyInv(g, k) /\ stage[g][k] = "release" /\ Stamped(g, k)
      /\ UNCHANGED <<wants, phase, renewal, cancelled>>
    BY DEF LeaseInv, ReleaseUpdate, Stamped
<1>2. stamp' \in [Goroutines -> [Keys -> 0..Duration]]
    BY <1>1, CopyDropped DEF ReleaseUpdate
<1>3. CASE Accepts(g, k)
    <2>1. LeaseStep(g, k) /\ SetStage(g, k, "none") /\ Unlock(g, k)
        BY <1>1, <1>3, Stored DEF ReleaseUpdate
    <2>2. DropKey(g, k)
        BY <1>1, <1>2, <2>1 DEF DropKey
    <2>. QED
        BY <2>2, DropKeyKeeps
<1>4. CASE ~ Accepts(g, k)
    <2>1. SetStage(g, k, "held") /\ UNCHANGED <<leases, lock, overran>>
        BY <1>4 DEF ReleaseUpdate
    <2>2. LeaseStep(g, k) /\ holder' = holder /\ age' = age /\ overran' = overran
        BY <1>1, <2>1, NotStored DEF leases
    <2>3. /\ stage' \in [Goroutines -> [Keys -> Stages]]
          /\ \A h \in Goroutines, j \in Keys :
                stage'[h][j] = IF h = g /\ j = k THEN "held" ELSE stage[h][j]
        BY <1>1, <2>1, StageSet, SMTT(60) DEF Stages
    <2>4. TypeOK'
        BY <1>1, <1>2, <2>1, <2>2, <2>3 DEF TypeOK, LeaseStep, Stages, Holders
    <2>5. KeyStep(g, k)
        BY <1>1, <2>1, <2>2, <2>3, SMTT(60) DEF KeyStep, LeaseStep, KeyInv, Locked
    <2>6. KeyInv(g, k)'
        BY <1>1, <2>1, <2>2, <2>3 DEF KeyInv, Locked, Phased, Copy, Holds
    <2>. QED
        BY <2>4, <2>5, <2>6
<1>. QED
    BY <1>3, <1>4

(* release, a failed call: the key is dropped, the Lease runs out.         *)
LEMMA ReleaseFailsKeeps ==
    ASSUME LeaseInv, NEW g \in Goroutines, NEW k \in Keys, ReleaseFails(g, k)
    PROVE  TypeOK' /\ KeyStep(g, k) /\ KeyInv(g, k)'
<1>1. /\ TypeOK /\ stage[g][k] = "release" /\ Stamped(g, k)
      /\ SetStage(g, k, "none") /\ Unlock(g, k)
      /\ UNCHANGED <<wants, phase, renewal, cancelled>>
    BY DEF LeaseInv, ReleaseFails, Stamped
<1>2. LeaseStep(g, k) /\ stamp' \in [Goroutines -> [Keys -> 0..Duration]]
    BY <1>1, MaybeStoredStep DEF ReleaseFails
<1>3. DropKey(g, k)
    BY <1>1, <1>2 DEF DropKey
<1>. QED
    BY <1>3, DropKeyKeeps

(* acquire, a failed call: the key is given up, those held are released.   *)
LEMMA AcquireFailsKeeps ==
    ASSUME LeaseInv, NEW g \in Goroutines, NEW k \in Keys, AcquireFails(g, k)
    PROVE  TypeOK' /\ KeyStep(g, k) /\ KeyInv(g, k)'
<1>1. /\ TypeOK
      /\ SetStage(g, k, "none") /\ Unlock(g, k)
      /\ UNCHANGED <<wants, renewal, cancelled>>
      /\ phase' = [phase EXCEPT ![g] = "releasing"]
    BY DEF LeaseInv, AcquireFails
<1>2. CASE stage[g][k] = "get" /\ UNCHANGED <<leases, stamp, overran>>
    <2>1. LeaseStep(g, k) /\ holder'[k] = holder[k] /\ age'[k] = age[k]
        BY <1>1, <1>2, NotStored DEF leases
    <2>2. stamp' \in [Goroutines -> [Keys -> 0..Duration]]
        BY <1>1, <1>2 DEF TypeOK
    <2>3. DropKey(g, k)
        BY <1>1, <1>2, <2>1, <2>2 DEF DropKey
    <2>. QED
        BY <2>3, DropKeyKeeps
<1>3. CASE stage[g][k] \in {"create", "claim"} /\ MaybeStored(g, k, AgentOf[g])
    <2>1. LeaseStep(g, k) /\ stamp' \in [Goroutines -> [Keys -> 0..Duration]]
        BY <1>1, <1>3, MaybeStoredStep
    <2>2. Stamped(g, k)
        BY <1>3 DEF Stamped
    <2>3. DropKey(g, k)
        BY <1>1, <1>3, <2>1, <2>2 DEF DropKey
    <2>. QED
        BY <2>3, DropKeyKeeps
<1>. QED
    BY <1>2, <1>3 DEF AcquireFails

\* A step of renewLoop: the Lease is written or not, and the key stays held.
RenewStep(g, k, r) ==
    /\ stage[g][k] = "held" /\ SetRenewal(g, k, r) /\ LeaseStep(g, k)
    /\ \/ holder'[k] = holder[k] /\ age'[k] = age[k] /\ overran' = overran
       \/ /\ Accepts(g, k) /\ Stamped(g, k) /\ fresh'[k] = {}
          /\ holder'[k] = AgentOf[g]
          /\ age'[k] # Duration \/ <<g, k>> \in overran'
    /\ r = "update" => holder'[k] = AgentOf[g]
    /\ stamp' \in [Goroutines -> [Keys -> 0..Duration]]
    /\ cancelled' \subseteq Goroutines \X Keys
    /\ UNCHANGED <<lock, wants, phase, stage>>

(* Such a step keeps the invariant.                                        *)
LEMMA RenewKeeps ==
    ASSUME LeaseInv, NEW g \in Goroutines, NEW k \in Keys, NEW r \in Renewals,
           RenewStep(g, k, r)
    PROVE  TypeOK' /\ KeyStep(g, k) /\ KeyInv(g, k)'
<1>1. TypeOK /\ KeyInv(g, k)
    BY DEF LeaseInv
<1>2. /\ renewal' \in [Goroutines -> [Keys -> Renewals]]
      /\ \A h \in Goroutines, j \in Keys :
            renewal'[h][j] = IF h = g /\ j = k THEN r ELSE renewal[h][j]
    BY <1>1, RenewalSet, SMTT(60) DEF RenewStep
<1>3. /\ lock' = lock /\ wants' = wants /\ phase' = phase /\ stage' = stage
      /\ stage[g][k] = "held" /\ LeaseStep(g, k)
      /\ stamp' \in [Goroutines -> [Keys -> 0..Duration]]
      /\ cancelled' \subseteq Goroutines \X Keys
    BY DEF RenewStep
<1>4. TypeOK'
    BY <1>1, <1>2, <1>3 DEF TypeOK, LeaseStep, Renewals, Holders
<1>5. KeyStep(g, k)
    <2>1. lock[AgentOf[g]][k] = g
        BY <1>1, <1>3 DEF KeyInv, Locked
    <2>2. \/ holder'[k] = holder[k] /\ age'[k] = age[k]
          \/ Accepts(g, k) /\ Stamped(g, k) /\ fresh'[k] = {}
        BY DEF RenewStep
    <2>. QED
        BY <1>2, <1>3, <2>1, <2>2 DEF KeyStep, LeaseStep
<1>6. KeyInv(g, k)'
    <2>1. Locked(g, k)' /\ Phased(g, k)'
        BY <1>1, <1>2, <1>3 DEF KeyInv, Locked, Phased
    <2>2. Copy(g, k)'
        BY <1>2, <1>3 DEF Copy, RenewStep
    <2>3. Holds(g, k)'
        BY <1>1, <1>3 DEF KeyInv, Holds, RenewStep
    <2>. QED
        BY <2>1, <2>2, <2>3 DEF KeyInv
<1>. QED
    BY <1>4, <1>5, <1>6

(* Cancelling the operation's context keeps the types.                     *)
LEMMA CancelOpTyped ==
    ASSUME TypeOK, NEW g \in Goroutines, NEW k \in Keys
    PROVE  CancelOp(g, k) \subseteq Goroutines \X Keys
BY SMTT(60) DEF TypeOK, CancelOp

(* renewLoop's ticker fires.                                               *)
LEMMA RenewTickKeeps ==
    ASSUME LeaseInv, NEW g \in Goroutines, NEW k \in Keys, RenewTick(g, k)
    PROVE  TypeOK' /\ KeyStep(g, k) /\ KeyInv(g, k)'
<1>1. /\ stage[g][k] = "held" /\ SetRenewal(g, k, "get")
      /\ fresh' = fresh /\ UNCHANGED <<holder, age, overran>>
      /\ stamp' = stamp /\ cancelled' = cancelled
      /\ UNCHANGED <<lock, wants, phase, stage>>
    BY DEF RenewTick, leases
<1>2. TypeOK /\ "get" \in Renewals
    BY DEF LeaseInv, Renewals
<1>3. LeaseStep(g, k)
    BY <1>1, <1>2, NotStored
<1>4. /\ stamp' \in [Goroutines -> [Keys -> 0..Duration]]
      /\ cancelled' \subseteq Goroutines \X Keys
    BY <1>1, <1>2 DEF TypeOK
<1>5. RenewStep(g, k, "get")
    BY <1>1, <1>2, <1>3, <1>4 DEF RenewStep
<1>. QED
    BY <1>5, <1>2, RenewKeeps

(* renewOne, the Get of the Lease.                                         *)
LEMMA RenewGetKeeps ==
    ASSUME LeaseInv, NEW g \in Goroutines, NEW k \in Keys, RenewGet(g, k)
    PROVE  TypeOK' /\ KeyStep(g, k) /\ KeyInv(g, k)'
<1>1. /\ TypeOK /\ stage[g][k] = "held"
      /\ UNCHANGED <<holder, age, overran>> /\ UNCHANGED <<lock, wants, phase, stage>>
    BY DEF LeaseInv, KeyInv, Phased, RenewGet
<1>2. {"idle", "update"} \subseteq Renewals
    BY DEF Renewals
<1>3. CASE holder[k] = AgentOf[g]
    <2>1. TakeCopy(g, k) /\ SetRenewal(g, k, "update") /\ cancelled' = cancelled
        BY <1>3 DEF RenewGet
    <2>2. LeaseStep(g, k) /\ stamp' \in [Goroutines -> [Keys -> 0..Duration]]
        BY <1>1, <2>1, CopyTaken
    <2>3. cancelled' \subseteq Goroutines \X Keys
        BY <1>1, <2>1 DEF TypeOK
    <2>4. RenewStep(g, k, "update")
        BY <1>1, <1>2, <1>3, <2>1, <2>2, <2>3 DEF RenewStep
    <2>. QED
        BY <2>4, <1>2, RenewKeeps
<1>4. CASE holder[k] # AgentOf[g]
    <2>1. /\ cancelled' = CancelOp(g, k) /\ SetRenewal(g, k, "idle")
          /\ fresh' = fresh /\ stamp' = stamp
        BY <1>4 DEF RenewGet
    <2>2. LeaseStep(g, k)
        BY <1>1, <2>1, NotStored
    <2>3. stamp' \in [Goroutines -> [Keys -> 0..Duration]]
        BY <1>1, <2>1 DEF TypeOK
    <2>4. cancelled' \subseteq Goroutines \X Keys
        BY <1>1, <2>1, CancelOpTyped
    <2>5. RenewStep(g, k, "idle")
        BY <1>1, <1>2, <2>1, <2>2, <2>3, <2>4 DEF RenewStep
    <2>. QED
        BY <2>5, <1>2, RenewKeeps
<1>. QED
    BY <1>3, <1>4

(* renewOne, the Update that stamps it again.                              *)
LEMMA RenewUpdateKeeps ==
    ASSUME LeaseInv, NEW g \in Goroutines, NEW k \in Keys, RenewUpdate(g, k)
    PROVE  TypeOK' /\ KeyStep(g, k) /\ KeyInv(g, k)'
<1>1. /\ TypeOK /\ stage[g][k] = "held" /\ Stamped(g, k)
      /\ UNCHANGED <<lock, wants, phase, stage, cancelled>>
      /\ cancelled' \subseteq Goroutines \X Keys
    BY DEF LeaseInv, TypeOK, KeyInv, Phased, RenewUpdate, Stamped
<1>2. stamp' \in [Goroutines -> [Keys -> 0..Duration]]
    BY <1>1, CopyDropped DEF RenewUpdate
<1>3. CASE Accepts(g, k)
    <2>1. /\ LeaseStep(g, k) /\ SetRenewal(g, k, "idle")
          /\ holder'[k] = AgentOf[g] /\ fresh'[k] = {}
          /\ age'[k] # Duration \/ <<g, k>> \in overran'
        BY <1>1, <1>3, Stored DEF RenewUpdate
    <2>2. "idle" \in Renewals
        BY DEF Renewals
    <2>3. RenewStep(g, k, "idle")
        BY <1>1, <1>2, <1>3, <2>1, <2>2 DEF RenewStep
    <2>. QED
        BY <2>3, <2>2, RenewKeeps
<1>4. CASE ~ Accepts(g, k)
    <2>1. /\ SetRenewal(g, k, "get") /\ LeaseStep(g, k)
          /\ holder' = holder /\ age' = age /\ overran' = overran
        BY <1>1, <1>4, NotStored DEF RenewUpdate, leases
    <2>2. "get" \in Renewals
        BY DEF Renewals
    <2>3. RenewStep(g, k, "get")
        BY <1>1, <1>2, <2>1, <2>2 DEF RenewStep
    <2>. QED
        BY <2>3, <2>2, RenewKeeps
<1>. QED
    BY <1>3, <1>4

(* renewOne, a failed call.                                                *)
LEMMA RenewFailsKeeps ==
    ASSUME LeaseInv, NEW g \in Goroutines, NEW k \in Keys, RenewFails(g, k)
    PROVE  TypeOK' /\ KeyStep(g, k) /\ KeyInv(g, k)'
<1>1. /\ TypeOK /\ stage[g][k] = "held"
      /\ UNCHANGED <<lock, wants, phase, stage>>
      /\ SetRenewal(g, k, "idle") /\ "idle" \in Renewals
      /\ cancelled' = CancelOp(g, k)
    BY DEF LeaseInv, KeyInv, Phased, RenewFails, Renewals
<1>2. cancelled' \subseteq Goroutines \X Keys
    BY <1>1, CancelOpTyped
<1>3. CASE UNCHANGED <<leases, stamp, overran>>
    <2>1. LeaseStep(g, k) /\ holder' = holder /\ age' = age /\ overran' = overran
        BY <1>1, <1>3, NotStored DEF leases
    <2>2. stamp' \in [Goroutines -> [Keys -> 0..Duration]]
        BY <1>1, <1>3 DEF TypeOK
    <2>3. RenewStep(g, k, "idle")
        BY <1>1, <1>2, <2>1, <2>2 DEF RenewStep
    <2>. QED
        BY <2>3, <1>1, RenewKeeps
<1>4. CASE renewal[g][k] = "update" /\ MaybeStored(g, k, AgentOf[g])
    <2>1. /\ LeaseStep(g, k)
          /\ stamp' \in [Goroutines -> [Keys -> 0..Duration]]
          /\ \/ /\ Accepts(g, k) /\ holder'[k] = AgentOf[g] /\ fresh'[k] = {}
                /\ age'[k] # Duration \/ <<g, k>> \in overran'
             \/ holder'[k] = holder[k] /\ age'[k] = age[k] /\ overran' = overran
        BY <1>1, <1>4, MaybeStoredStep
    <2>2. Stamped(g, k)
        BY <1>4 DEF Stamped
    <2>3. RenewStep(g, k, "idle")
        BY <1>1, <1>2, <2>1, <2>2 DEF RenewStep
    <2>. QED
        BY <2>3, <1>1, RenewKeeps
<1>. QED
    BY <1>3, <1>4 DEF RenewFails

-----------------------------------------------------------------------------
(* The steps that move a goroutine as a whole.                             *)
LEMMA PhaseStepKeeps ==
    ASSUME LeaseInv, NEW g \in Goroutines,
           \/ \E keys \in KeySets : Start(g, keys)
           \/ RunFn(g) \/ FnReturns(g) \/ GiveUp(g) \/ Finish(g)
    PROVE  LeaseInv'
<1>. USE KeySetsAssumption DEF LeaseInv, TypeOK, KeyInv, Locked, Phased, Copy, Holds,
                               LeaseAvailable, leases
<1>1. CASE \E keys \in KeySets : Start(g, keys)
    BY <1>1, SMTT(60) DEF Start
<1>2. CASE RunFn(g)
    BY <1>2, SMTT(60) DEF RunFn, Held
<1>3. CASE FnReturns(g)
    BY <1>3, SMTT(60) DEF FnReturns
<1>4. CASE GiveUp(g)
    BY <1>4, SMTT(60) DEF GiveUp
<1>5. CASE Finish(g)
    BY <1>5, SMTT(60) DEF Finish
<1>. QED
    BY <1>1, <1>2, <1>3, <1>4, <1>5

(* A crash of an agent: its goroutines vanish, its Leases stay.            *)
LEMMA CrashKeeps ==
    ASSUME LeaseInv, NEW a \in Agents, Crash(a)
    PROVE  LeaseInv'
<1>1. TypeOK'
    BY DurationAssumption, SMTT(60) DEF Crash, LeaseInv, TypeOK
<1>. SUFFICES ASSUME NEW g \in Goroutines, NEW k \in Keys PROVE KeyInv(g, k)'
    BY <1>1 DEF LeaseInv
<1>2. KeyInv(g, k) /\ AgentOf[g] \in Agents
    BY AgentAssumption DEF LeaseInv
<1>3. CASE AgentOf[g] = a
    BY <1>3 DEF Crash, KeyInv, Locked, Phased, Copy, Holds
<1>4. CASE AgentOf[g] # a
    <2>1. /\ stage'[g] = stage[g] /\ renewal'[g] = renewal[g]
          /\ wants'[g] = wants[g] /\ phase'[g] = phase[g]
          /\ age' = age
          /\ holder'[k] = holder[k] \/ (holder[k] = a /\ holder'[k] = "dead")
          /\ g \in fresh'[k] => g \in fresh[k]
          /\ <<g, k>> \in overran => <<g, k>> \in overran'
        BY <1>4 DEF Crash
    <2>2. lock'[AgentOf[g]][k] = lock[AgentOf[g]][k]
        BY <1>2, <1>4 DEF Crash, LeaseInv, TypeOK
    <2>. QED
        BY <1>2, <1>4, <2>1, <2>2, NoneAssumption
        DEF KeyInv, Locked, Phased, Copy, Holds, LeaseAvailable
<1>. QED
    BY <1>3, <1>4

(* Time passing: a hold that runs out is recorded in overran.              *)
LEMMA TickKeeps ==
    ASSUME LeaseInv, Tick
    PROVE  LeaseInv'
<1>1. \A n \in 0..Duration : Older(n) \in 0..Duration
    BY DurationAssumption, SMTT(60) DEF Older
<1>2. TypeOK'
    <2>1. age' \in [Keys -> 0..Duration]
        BY <1>1 DEF Tick, LeaseInv, TypeOK
    <2>2. stamp' \in [Goroutines -> [Keys -> 0..Duration]]
        BY <1>1 DEF Tick, LeaseInv, TypeOK
    <2>. QED
        BY <2>1, <2>2 DEF Tick, LeaseInv, TypeOK
<1>. SUFFICES ASSUME NEW g \in Goroutines, NEW k \in Keys PROVE KeyInv(g, k)'
    BY <1>2 DEF LeaseInv
<1>3. KeyInv(g, k)
    BY DEF LeaseInv
<1>4. UNCHANGED <<holder, fresh, lock, wants, phase, stage, renewal>>
    BY DEF Tick
<1>5. age[k] = Duration => age'[k] = Duration
    BY DEF Tick, Older
<1>6. /\ stage[g][k] \in {"held", "release"} /\ age'[k] = Duration => <<g, k>> \in overran'
      /\ overran \subseteq overran'
    BY DEF Tick
<1>. QED
    BY <1>3, <1>4, <1>5, <1>6 DEF KeyInv, Locked, Phased, Copy, Holds, LeaseAvailable

(* Every step keeps the invariant.                                         *)
LEMMA LeaseInvKept ==
    ASSUME LeaseInv, [Next]_vars
    PROVE  LeaseInv'
<1>1. CASE \E g \in Goroutines, k \in Keys :
              \/ AcquireLocal(g, k) \/ GetLease(g, k) \/ ClaimLease(g, k)
              \/ ReleaseGet(g, k) \/ ReleaseUpdate(g, k)
              \/ AcquireFails(g, k) \/ ReleaseFails(g, k)
              \/ RenewTick(g, k) \/ RenewGet(g, k) \/ RenewUpdate(g, k) \/ RenewFails(g, k)
    <2>1. PICK g \in Goroutines, k \in Keys : TypeOK' /\ KeyStep(g, k) /\ KeyInv(g, k)'
        BY <1>1, AcquireLocalKeeps, GetLeaseKeeps, ClaimLeaseKeeps, ReleaseGetKeeps,
           ReleaseUpdateKeeps, AcquireFailsKeeps, ReleaseFailsKeeps, RenewTickKeeps,
           RenewGetKeeps, RenewUpdateKeeps, RenewFailsKeeps
    <2>2. \A h \in Goroutines, j \in Keys : KeyInv(h, j)'
        BY <2>1, KeyStepKeeps
    <2>. QED
        BY <2>1, <2>2 DEF LeaseInv
<1>2. CASE \E g \in Goroutines :
              \/ \E keys \in KeySets : Start(g, keys)
              \/ RunFn(g) \/ FnReturns(g) \/ GiveUp(g) \/ Finish(g)
    BY <1>2, PhaseStepKeeps
<1>3. CASE \E a \in Agents : Crash(a)
    BY <1>3, CrashKeeps
<1>4. CASE Tick
    BY <1>4, TickKeeps
<1>5. CASE UNCHANGED vars
    BY <1>5, SMTT(60) DEF LeaseInv, TypeOK, KeyInv, Locked, Phased, Copy, Holds, LeaseAvailable,
                vars, leases
<1>. QED
    BY <1>1, <1>2, <1>3, <1>4, <1>5, FailureAssumption
    DEF Next, Work, Renew, Failure

(* fn runs under the key it holds: LeaseInv forbids two at once.           *)
LEMMA LeaseInvExclusive ==
    ASSUME LeaseInv
    PROVE  Exclusive
<1>. SUFFICES ASSUME NEW g \in Goroutines, NEW h \in Goroutines,
                     NEW k \in wants[g] \cap wants[h],
                     g # h, phase[g] = "fn", phase[h] = "fn"
              PROVE  /\ AgentOf[g] # AgentOf[h]
                     /\ <<g, k>> \in overran \/ <<h, k>> \in overran
    BY DEF Exclusive
<1>1. k \in Keys
    BY DEF LeaseInv, TypeOK
<1>2. stage[g][k] = "held" /\ stage[h][k] = "held"
    BY <1>1 DEF LeaseInv, KeyInv, Phased
<1>3. AgentOf[g] # AgentOf[h]
    BY <1>1, <1>2, OneInAgent
<1>4. <<g, k>> \in overran \/ <<h, k>> \in overran
    BY <1>1, <1>2, <1>3 DEF LeaseInv, KeyInv, Holds
<1>. QED
    BY <1>3, <1>4

(* The inductive invariant of the rollout Leases.                          *)
LEMMA LeaseInvHolds == Spec => []LeaseInv
<1>1. Init => LeaseInv
    BY AgentAssumption, DurationAssumption, SMTT(60)
    DEF Init, LeaseInv, TypeOK, KeyInv, Locked, Phased, Copy, Holds
<1>2. LeaseInv /\ [Next]_vars => LeaseInv'
    BY LeaseInvKept
<1>. QED
    BY <1>1, <1>2, PTL DEF Spec

(* A Lease is never older than its duration without counting as expired,   *)
(* and every goroutine is in a stage of RunExclusive for each of its keys. *)
THEOREM LeaseTypes == Spec => []TypeOK
<1>1. LeaseInv => TypeOK
    BY DEF LeaseInv
<1>. QED
    BY <1>1, LeaseInvHolds, PTL

(* The rollout Leases serialise disruptive changes: whatever calls fail,   *)
(* answers are lost and agents crash, RunExclusive never runs fn for one   *)
(* key in two goroutines of an agent, nor in two agents unless the Lease   *)
(* of one of them expired while it held it.                                *)
THEOREM RolloutsExclusive == Spec => []Exclusive
<1>1. LeaseInv => Exclusive
    BY LeaseInvExclusive
<1>. QED
    BY <1>1, LeaseInvHolds, PTL
=============================================================================
