----------------------- MODULE RouteCoordinatorProofs -----------------------
(***************************************************************************)
(* Proofs about RouteCoordinator, for any set of VIPs and of addresses.    *)
(*                                                                         *)
(* CountedOnce, Settled and DrainExclusive are not inductive: they depend  *)
(* on what a goroutine in the middle of a call has established before it   *)
(* released the lock.  IInv adds that (ControlInv), what the fields of a   *)
(* routeAddressState say of each other (StateInv), and where a goroutine   *)
(* that holds a drain can be (DrainInv).  Each part has a lemma with one   *)
(* step per action.                                                        *)
(***************************************************************************)
EXTENDS RouteCoordinator, TLAPS

\* A leaf that names no prover is for Zenon.
USE ZenonT(60)

\* The fields of a dropped routeAddressState, and what they say of each other.
StateInv ==
    /\ reconciled \subseteq addresses
    /\ advertised \subseteq reconciled
    /\ \A a \in Addresses :
          /\ serving[a] \subseteq members[a]
          /\ a \notin addresses => members[a] = {} /\ drainOwner[a] = NoVIP

\* Where a goroutine is, and what it has established when it is there.
ControlInv ==
    \A v \in VIPs :
        /\ pc[v] \in {"idle", "register", "acquire", "undrain"} => v \notin removing
        /\ pc[v] \in {"remove", "removed"} => v \in removing
        /\ pc[v] \in {"register", "acquire"}
             => vipAddresses[v] \in {NoAddress, call[v].address}
        /\ v \in removing => vipAddresses[v] \in {NoAddress, target[v]}
        /\ v \in removing /\ pc[v] # "remove" => v \notin members[target[v]]
        /\ v \in removing /\ call[v].op \in {"serve", "drain"}
             => call[v].address \in Addresses
        /\ pc[v] = "register" => call[v].op = "serve"
        /\ pc[v] = "acquire" => call[v].op = "drain"
        /\ pc[v] \in {"decide", "call", "apply", "undrain"}
             /\ v \notin removing /\ call[v].op = "drain"
             => /\ target[v] = call[v].address
                /\ drainOwner[target[v]] = v
                /\ v \in members[target[v]]
        /\ pc[v] \in {"call", "apply"} => decided[v] # "none"

\* A drain is given up before anything that could take it away.
DrainInv ==
    \A v \in VIPs :
        drained[v] # NoAddress =>
            /\ drainOwner[drained[v]] = v
            /\ v \in members[drained[v]]
            /\ v \notin removing
            /\ pc[v] \in {"idle", "register", "decide", "call", "apply"}
            /\ pc[v] # "idle" => call[v].op = "serve" /\ call[v].address = drained[v]

IInv == TypeOK /\ StateInv /\ ControlInv /\ CountedOnce /\ Settled /\ DrainInv

\* The record that Enter makes of a coordinator call is a call.
LEMMA CallType ==
    ASSUME NEW a \in Addresses, NEW flag \in BOOLEAN,
           NEW op \in {"serve", "drain", "finish", "prepare", "delete"}
    PROVE  [op |-> op, address |-> a, flag |-> flag] \in Call
BY DEF Call

\* A goroutine outside the coordinator has the empty call.
LEMMA NoCallType == NoCall \in Call /\ NoCall.address = NoAddress /\ NoCall.op = "none"
BY DEF Call, NoCall

\* What reconcileRoute's return does to the goroutine's own variables.
ReturnTyped ==
    /\ pc' \in [VIPs -> {"idle", "remove", "removed", "register", "acquire",
                         "decide", "call", "apply", "undrain"}]
    /\ call' \in [VIPs -> Call]
    /\ target' \in [VIPs -> Addresses \cup {NoAddress}]
    /\ decided' \in [VIPs -> {"none", "announce", "withdraw"}]
    /\ late' \in SUBSET VIPs
    /\ errored' \in SUBSET VIPs
    /\ drained' \in [VIPs -> Addresses \cup {NoAddress}]
    /\ failed' \in SUBSET Addresses
    /\ \A v \in VIPs :
           /\ pc'[v] \in {"remove", "removed", "decide", "call", "apply", "undrain"}
                => target'[v] \in Addresses
           /\ pc'[v] \in {"register", "acquire", "undrain"}
                => call'[v].address \in Addresses

\* However reconcileRoute returns to its caller, the types are kept.
LEMMA ReturnType ==
    ASSUME TypeOK, ControlInv, NEW v \in VIPs, pc[v] \in {"decide", "call", "apply"},
           NEW isAdvertised \in BOOLEAN, NEW isError \in BOOLEAN,
           Return(v, isAdvertised, isError)
    PROVE  ReturnTyped
<1>1. /\ target[v] \in Addresses
      /\ call[v].op = "drain" /\ v \notin removing => call[v].address = target[v]
  BY DEF TypeOK, ControlInv
<1>2. CASE v \in removing
  BY <1>1, <1>2, SMTT(60) DEF TypeOK, Return, ReturnTyped
<1>3. CASE v \notin removing /\ call[v].op = "drain" /\ isError
  BY <1>1, <1>3 DEF TypeOK, Return, ReturnTyped
<1>4. CASE v \notin removing /\ ~(call[v].op = "drain" /\ isError)
  BY <1>1, <1>4, NoCallType, SMTT(60) DEF TypeOK, Return, ReturnTyped
<1> QED
  BY <1>2, <1>3, <1>4

\* The types are preserved.
LEMMA TypeStep ==
    ASSUME TypeOK, ControlInv, [Next]_vars
    PROVE  TypeOK'
<1>1. ASSUME NEW v \in VIPs, NEW a \in Addresses, NEW flag \in BOOLEAN,
             SetServing(v, a, flag)
      PROVE  TypeOK'
  <2> DEFINE c == [op |-> "serve", address |-> a, flag |-> flag]
  <2>1. c \in Call /\ c.address = a
    BY CallType
  <2>2. call' = [call EXCEPT ![v] = c]
    BY <1>1 DEF SetServing, Moves, EnterRemove, Enter, Forget
  <2> HIDE DEF c
  <2> QED
    BY <1>1, <2>1, <2>2, SMTT(60)
       DEF SetServing, Moves, EnterRemove, Enter, Forget, TypeOK, book
<1>2. ASSUME NEW v \in VIPs, NEW a \in Addresses, NEW flag \in BOOLEAN,
             BeginDrain(v, a, flag)
      PROVE  TypeOK'
  <2> DEFINE c == [op |-> "drain", address |-> a, flag |-> flag]
  <2>1. c \in Call /\ c.address = a
    BY CallType
  <2>2. call' = [call EXCEPT ![v] = c]
    BY <1>2 DEF BeginDrain, Moves, EnterRemove, Enter, Forget
  <2> HIDE DEF c
  <2> QED
    BY <1>2, <2>1, <2>2, SMTT(60)
       DEF BeginDrain, Moves, EnterRemove, Enter, Forget, TypeOK, book
<1>3. ASSUME NEW v \in VIPs, NEW a \in Addresses, FinishDrain(v, a)
      PROVE  TypeOK'
  <2>1. CASE a \in addresses /\ drainOwner[a] = v
    <3> DEFINE c == [op |-> "finish", address |-> a, flag |-> FALSE]
    <3>1. c \in Call
      BY CallType
    <3>2. call' = [call EXCEPT ![v] = c]
      BY <1>3, <2>1 DEF FinishDrain, Enter
    <3> HIDE DEF c
    <3> QED
      BY <1>3, <2>1, <3>1, <3>2, SMTT(60) DEF FinishDrain, Enter, Forget, TypeOK, book
  <2>2. CASE ~(a \in addresses /\ drainOwner[a] = v)
    BY <1>3, <2>2 DEF FinishDrain, Forget, TypeOK, book
  <2> QED
    BY <2>1, <2>2
<1>4. ASSUME NEW v \in VIPs, NEW a \in Addresses, PrepareAddressChange(v, a)
      PROVE  TypeOK'
  <2>1. call' \in [VIPs -> Call]
    BY <1>4, CallType DEF PrepareAddressChange, Moves, EnterRemove, Enter,
         Forget, TypeOK
  <2> QED
    BY <1>4, <2>1 DEF PrepareAddressChange, Moves, EnterRemove, Enter, Forget,
         TypeOK, book
<1>5. ASSUME NEW v \in VIPs, NEW a \in Addresses, Delete(v, a)
      PROVE  TypeOK'
  <2>1. call' \in [VIPs -> Call]
    BY <1>5, CallType DEF Delete, EnterRemove, Enter, Forget, TypeOK
  <2> QED
    BY <1>5, <2>1 DEF Delete, EnterRemove, Enter, Forget, TypeOK, book
<1>6. ASSUME NEW v \in VIPs, Remove(v)
      PROVE  TypeOK'
  BY <1>6, NoCallType DEF Remove, TypeOK, book
<1>7. ASSUME NEW v \in VIPs, Removed(v)
      PROVE  TypeOK'
  <2>1. CASE Resume(v) = "idle"
    BY <1>7, <2>1, NoCallType DEF Removed, Cleanup, TypeOK, book
  <2>2. CASE Resume(v) # "idle"
    <3>1. Resume(v) \in {"register", "acquire"} /\ call[v].address \in Addresses
      BY <1>7, <2>2 DEF Resume, Removed, TypeOK, ControlInv
    <3> QED
      BY <1>7, <2>2, <3>1 DEF Removed, Cleanup, TypeOK, book
  <2> QED
    BY <2>1, <2>2
<1>8. ASSUME NEW v \in VIPs, Register(v)
      PROVE  TypeOK'
  BY <1>8, NoCallType, SMTT(60) DEF Register, TypeOK, book
<1>9. ASSUME NEW v \in VIPs, AcquireDrain(v)
      PROVE  TypeOK'
  BY <1>9, NoCallType, SMTT(60) DEF AcquireDrain, Refused, TypeOK, book
<1>10. ASSUME NEW v \in VIPs, RefuseDrain(v)
      PROVE  TypeOK'
  BY <1>10, NoCallType DEF RefuseDrain, TypeOK, book
<1>11. ASSUME NEW v \in VIPs, Decide(v)
      PROVE  TypeOK'
  <2>1. CASE target[v] \notin addresses \/ NextOperation(target[v]) = "none"
    <3>1. Return(v, target[v] \in addresses /\ ShouldAdvertise(target[v]), FALSE)
      BY <1>11, <2>1 DEF Decide
    <3>2. ReturnTyped
      BY <1>11, <3>1, ReturnType DEF Decide, ShouldAdvertise
    <3> QED
      BY <1>11, <3>2 DEF Decide, ReturnTyped, TypeOK, book
  <2>2. CASE ~(target[v] \notin addresses \/ NextOperation(target[v]) = "none")
    BY <1>11, <2>2, SMTT(60) DEF Decide, NextOperation, Operation, TypeOK, book
  <2> QED
    BY <2>1, <2>2
<1>12. ASSUME NEW v \in VIPs, RouterCall(v)
      PROVE  TypeOK'
  BY <1>12, NoCallType DEF RouterCall, InstallRoute, TypeOK, book
<1>13. ASSUME NEW v \in VIPs, RouterCallFails(v)
      PROVE  TypeOK'
  <2>1. ReturnTyped
    BY <1>13, ReturnType DEF RouterCallFails
  <2> QED
    BY <1>13, <2>1 DEF RouterCallFails, InstallRoute, ReturnTyped, TypeOK, book
<1>14. ASSUME NEW v \in VIPs, Apply(v)
      PROVE  TypeOK'
  <2>1. CASE ~MustRepeat(v)
    <3>1. Return(v, ShouldAdvertise(target[v]), FALSE)
      BY <1>14, <2>1 DEF Apply
    <3>2. ReturnTyped
      BY <1>14, <3>1, ReturnType DEF Apply, ShouldAdvertise
    <3> QED
      BY <1>14, <3>2, SMTT(60) DEF Apply, ReturnTyped, TypeOK, book
  <2>2. CASE MustRepeat(v)
    BY <1>14, <2>2, SMTT(60) DEF Apply, TypeOK, book
  <2> QED
    BY <2>1, <2>2
<1>15. ASSUME NEW v \in VIPs, ApplyToNothing(v)
      PROVE  TypeOK'
  <2>1. ReturnTyped
    BY <1>15, ReturnType DEF ApplyToNothing
  <2> QED
    BY <1>15, <2>1 DEF ApplyToNothing, ReturnTyped, TypeOK, book
<1>16. ASSUME NEW v \in VIPs, Undrain(v)
      PROVE  TypeOK'
  BY <1>16, NoCallType DEF Undrain, TypeOK, book
<1>17. CASE IntervalElapses
  BY <1>17 DEF IntervalElapses, TypeOK, book
<1>18. CASE UNCHANGED vars
  BY <1>18 DEF vars, control, TypeOK, book
<1> QED
  BY <1>1, <1>2, <1>3, <1>4, <1>5, <1>6, <1>7, <1>8, <1>9, <1>10, <1>11,
       <1>12, <1>13, <1>14, <1>15, <1>16, <1>17, <1>18 DEF Next, Request, Step

\* The bookkeeping's fields stay consistent with each other.
LEMMA StateStep ==
    ASSUME TypeOK, StateInv, ControlInv, [Next]_vars
    PROVE  StateInv'
<1>1. ASSUME NEW v \in VIPs, NEW a \in Addresses, NEW flag \in BOOLEAN,
             SetServing(v, a, flag)
      PROVE  StateInv'
  BY <1>1, NoAddressAssumption, NoVIPAssumption DEF SetServing, Moves,
       EnterRemove, Enter, Forget, TypeOK, StateInv, ControlInv, book
<1>2. ASSUME NEW v \in VIPs, NEW a \in Addresses, NEW flag \in BOOLEAN,
             BeginDrain(v, a, flag)
      PROVE  StateInv'
  BY <1>2, NoAddressAssumption, NoVIPAssumption DEF BeginDrain, Moves,
       EnterRemove, Enter, Forget, TypeOK, StateInv, ControlInv, book
<1>3. ASSUME NEW v \in VIPs, NEW a \in Addresses, FinishDrain(v, a)
      PROVE  StateInv'
  BY <1>3, NoAddressAssumption, NoVIPAssumption, SMTT(60) DEF FinishDrain, Enter,
       Forget, TypeOK, StateInv, ControlInv, book
<1>4. ASSUME NEW v \in VIPs, NEW a \in Addresses, PrepareAddressChange(v, a)
      PROVE  StateInv'
  BY <1>4, NoAddressAssumption, NoVIPAssumption DEF PrepareAddressChange,
       Moves, EnterRemove, Enter, Forget, TypeOK, StateInv, ControlInv, book
<1>5. ASSUME NEW v \in VIPs, NEW a \in Addresses, Delete(v, a)
      PROVE  StateInv'
  BY <1>5, NoAddressAssumption, NoVIPAssumption DEF Delete, EnterRemove,
       Enter, Forget, TypeOK, StateInv, ControlInv, book
<1>6. ASSUME NEW v \in VIPs, Remove(v)
      PROVE  StateInv'
  BY <1>6, NoAddressAssumption, NoVIPAssumption, SMTT(60) DEF Remove, TypeOK, StateInv,
       ControlInv, book
<1>7. ASSUME NEW v \in VIPs, Removed(v)
      PROVE  StateInv'
  BY <1>7, NoAddressAssumption, NoVIPAssumption, SMTT(60) DEF Removed, Resume, Cleanup,
       NoCall, TypeOK, StateInv, ControlInv, book
<1>8. ASSUME NEW v \in VIPs, Register(v)
      PROVE  StateInv'
  BY <1>8, NoAddressAssumption, NoVIPAssumption, SMTT(60) DEF Register, TypeOK,
       StateInv, ControlInv, book
<1>9. ASSUME NEW v \in VIPs, AcquireDrain(v)
      PROVE  StateInv'
  BY <1>9, NoAddressAssumption, NoVIPAssumption, SMTT(60) DEF AcquireDrain, Refused,
       TypeOK, StateInv, ControlInv, book
<1>10. ASSUME NEW v \in VIPs, RefuseDrain(v)
      PROVE  StateInv'
  BY <1>10, NoAddressAssumption, NoVIPAssumption DEF RefuseDrain, NoCall,
       TypeOK, StateInv, ControlInv, book
<1>11. ASSUME NEW v \in VIPs, Decide(v)
      PROVE  StateInv'
  BY <1>11, NoAddressAssumption, NoVIPAssumption DEF Decide, Return, NoCall,
       TypeOK, StateInv, ControlInv, book
<1>12. ASSUME NEW v \in VIPs, RouterCall(v)
      PROVE  StateInv'
  BY <1>12, NoAddressAssumption, NoVIPAssumption DEF RouterCall, InstallRoute,
       TypeOK, StateInv, ControlInv, book
<1>13. ASSUME NEW v \in VIPs, RouterCallFails(v)
      PROVE  StateInv'
  BY <1>13, NoAddressAssumption, NoVIPAssumption DEF RouterCallFails,
       InstallRoute, Return, NoCall, TypeOK, StateInv, ControlInv, book
<1>14. ASSUME NEW v \in VIPs, Apply(v)
      PROVE  StateInv'
  BY <1>14, NoAddressAssumption, NoVIPAssumption, SMTT(60) DEF Apply, MustRepeat,
       Operation, Return, NoCall, TypeOK, StateInv, ControlInv, book
<1>15. ASSUME NEW v \in VIPs, ApplyToNothing(v)
      PROVE  StateInv'
  BY <1>15, NoAddressAssumption, NoVIPAssumption DEF ApplyToNothing, Return,
       NoCall, TypeOK, StateInv, ControlInv, book
<1>16. ASSUME NEW v \in VIPs, Undrain(v)
      PROVE  StateInv'
  BY <1>16, NoAddressAssumption, NoVIPAssumption, SMTT(60) DEF Undrain, NoCall, TypeOK,
       StateInv, ControlInv, book
<1>17. CASE IntervalElapses
  BY <1>17 DEF IntervalElapses, TypeOK, StateInv, ControlInv, book
<1>18. CASE UNCHANGED vars
  BY <1>18 DEF vars, control, TypeOK, StateInv, ControlInv, book
<1> QED
  BY <1>1, <1>2, <1>3, <1>4, <1>5, <1>6, <1>7, <1>8, <1>9, <1>10, <1>11,
       <1>12, <1>13, <1>14, <1>15, <1>16, <1>17, <1>18 DEF Next, Request, Step

\* What a goroutine has established about its own entries stays true
\* while others move: only it changes them.
LEMMA ControlStep ==
    ASSUME TypeOK, StateInv, ControlInv, CountedOnce, [Next]_vars
    PROVE  ControlInv'
<1>1. ASSUME NEW v \in VIPs, NEW a \in Addresses, NEW flag \in BOOLEAN,
             SetServing(v, a, flag)
      PROVE  ControlInv'
  BY <1>1, NoAddressAssumption, NoVIPAssumption, SMTT(60) DEF SetServing, Moves,
       EnterRemove, Enter, Forget, TypeOK, StateInv, ControlInv, CountedOnce,
       book
<1>2. ASSUME NEW v \in VIPs, NEW a \in Addresses, NEW flag \in BOOLEAN,
             BeginDrain(v, a, flag)
      PROVE  ControlInv'
  BY <1>2, NoAddressAssumption, NoVIPAssumption, SMTT(60) DEF BeginDrain, Moves,
       EnterRemove, Enter, Forget, TypeOK, StateInv, ControlInv, CountedOnce,
       book
<1>3. ASSUME NEW v \in VIPs, NEW a \in Addresses, FinishDrain(v, a)
      PROVE  ControlInv'
  BY <1>3, NoAddressAssumption, NoVIPAssumption, SMTT(60) DEF FinishDrain, Enter,
       Forget, TypeOK, StateInv, ControlInv, CountedOnce, book
<1>4. ASSUME NEW v \in VIPs, NEW a \in Addresses, PrepareAddressChange(v, a)
      PROVE  ControlInv'
  BY <1>4, NoAddressAssumption, NoVIPAssumption, SMTT(60) DEF PrepareAddressChange,
       Moves, EnterRemove, Enter, Forget, TypeOK, StateInv, ControlInv,
       CountedOnce, book
<1>5. ASSUME NEW v \in VIPs, NEW a \in Addresses, Delete(v, a)
      PROVE  ControlInv'
  BY <1>5, NoAddressAssumption, NoVIPAssumption, SMTT(60) DEF Delete, EnterRemove,
       Enter, Forget, TypeOK, StateInv, ControlInv, CountedOnce, book
<1>6. ASSUME NEW v \in VIPs, Remove(v)
      PROVE  ControlInv'
  BY <1>6, NoAddressAssumption, NoVIPAssumption, SMTT(60) DEF Remove, TypeOK, StateInv,
       ControlInv, CountedOnce, book
<1>7. ASSUME NEW v \in VIPs, Removed(v)
      PROVE  ControlInv'
  BY <1>7, NoAddressAssumption, NoVIPAssumption, SMTT(60) DEF Removed, Resume, Cleanup,
       NoCall, TypeOK, StateInv, ControlInv, CountedOnce, book
<1>8. ASSUME NEW v \in VIPs, Register(v)
      PROVE  ControlInv'
  BY <1>8, NoAddressAssumption, NoVIPAssumption, SMTT(60) DEF Register, TypeOK,
       StateInv, ControlInv, CountedOnce, book
<1>9. ASSUME NEW v \in VIPs, AcquireDrain(v)
      PROVE  ControlInv'
  BY <1>9, NoAddressAssumption, NoVIPAssumption, SMTT(60) DEF AcquireDrain, Refused,
       TypeOK, StateInv, ControlInv, CountedOnce, book
<1>10. ASSUME NEW v \in VIPs, RefuseDrain(v)
      PROVE  ControlInv'
  BY <1>10, NoAddressAssumption, NoVIPAssumption, SMTT(60) DEF RefuseDrain, NoCall,
       TypeOK, StateInv, ControlInv, CountedOnce, book
<1>11. ASSUME NEW v \in VIPs, Decide(v)
      PROVE  ControlInv'
  BY <1>11, NoAddressAssumption, NoVIPAssumption, SMTT(60) DEF Decide, Return, NoCall,
       TypeOK, StateInv, ControlInv, CountedOnce, book
<1>12. ASSUME NEW v \in VIPs, RouterCall(v)
      PROVE  ControlInv'
  BY <1>12, NoAddressAssumption, NoVIPAssumption, SMTT(60) DEF RouterCall, InstallRoute,
       TypeOK, StateInv, ControlInv, CountedOnce, book
<1>13. ASSUME NEW v \in VIPs, RouterCallFails(v)
      PROVE  ControlInv'
  BY <1>13, NoAddressAssumption, NoVIPAssumption, SMTT(60) DEF RouterCallFails,
       InstallRoute, Return, NoCall, TypeOK, StateInv, ControlInv,
       CountedOnce, book
<1>14. ASSUME NEW v \in VIPs, Apply(v)
      PROVE  ControlInv'
  BY <1>14, NoAddressAssumption, NoVIPAssumption, SMTT(60) DEF Apply, MustRepeat,
       Operation, Return, NoCall, TypeOK, StateInv, ControlInv, CountedOnce,
       book
<1>15. ASSUME NEW v \in VIPs, ApplyToNothing(v)
      PROVE  ControlInv'
  BY <1>15, NoAddressAssumption, NoVIPAssumption, SMTT(60) DEF ApplyToNothing, Return,
       NoCall, TypeOK, StateInv, ControlInv, CountedOnce, book
<1>16. ASSUME NEW v \in VIPs, Undrain(v)
      PROVE  ControlInv'
  BY <1>16, NoAddressAssumption, NoVIPAssumption, SMTT(60) DEF Undrain, NoCall, TypeOK,
       StateInv, ControlInv, CountedOnce, book
<1>17. CASE IntervalElapses
  BY <1>17 DEF IntervalElapses, TypeOK, StateInv, ControlInv, CountedOnce,
       book
<1>18. CASE UNCHANGED vars
  BY <1>18 DEF vars, control, TypeOK, StateInv, ControlInv, CountedOnce, book
<1> QED
  BY <1>1, <1>2, <1>3, <1>4, <1>5, <1>6, <1>7, <1>8, <1>9, <1>10, <1>11,
       <1>12, <1>13, <1>14, <1>15, <1>16, <1>17, <1>18 DEF Next, Request, Step

-----------------------------------------------------------------------------

\* A VIP that moves is removed from its old address before it is
\* registered at the new one.
LEMMA CountedStep ==
    ASSUME TypeOK, StateInv, ControlInv, CountedOnce, [Next]_vars
    PROVE  CountedOnce'
<1>1. ASSUME NEW v \in VIPs, NEW a \in Addresses, NEW flag \in BOOLEAN,
             SetServing(v, a, flag)
      PROVE  CountedOnce'
  BY <1>1, NoAddressAssumption, NoVIPAssumption DEF SetServing, Moves,
       EnterRemove, Enter, Forget, TypeOK, StateInv, ControlInv, CountedOnce,
       book
<1>2. ASSUME NEW v \in VIPs, NEW a \in Addresses, NEW flag \in BOOLEAN,
             BeginDrain(v, a, flag)
      PROVE  CountedOnce'
  BY <1>2, NoAddressAssumption, NoVIPAssumption DEF BeginDrain, Moves,
       EnterRemove, Enter, Forget, TypeOK, StateInv, ControlInv, CountedOnce,
       book
<1>3. ASSUME NEW v \in VIPs, NEW a \in Addresses, FinishDrain(v, a)
      PROVE  CountedOnce'
  BY <1>3, NoAddressAssumption, NoVIPAssumption DEF FinishDrain, Enter,
       Forget, TypeOK, StateInv, ControlInv, CountedOnce, book
<1>4. ASSUME NEW v \in VIPs, NEW a \in Addresses, PrepareAddressChange(v, a)
      PROVE  CountedOnce'
  BY <1>4, NoAddressAssumption, NoVIPAssumption DEF PrepareAddressChange,
       Moves, EnterRemove, Enter, Forget, TypeOK, StateInv, ControlInv,
       CountedOnce, book
<1>5. ASSUME NEW v \in VIPs, NEW a \in Addresses, Delete(v, a)
      PROVE  CountedOnce'
  BY <1>5, NoAddressAssumption, NoVIPAssumption DEF Delete, EnterRemove,
       Enter, Forget, TypeOK, StateInv, ControlInv, CountedOnce, book
<1>6. ASSUME NEW v \in VIPs, Remove(v)
      PROVE  CountedOnce'
  BY <1>6, NoAddressAssumption, NoVIPAssumption, SMTT(60) DEF Remove, TypeOK, StateInv,
       ControlInv, CountedOnce, book
<1>7. ASSUME NEW v \in VIPs, Removed(v)
      PROVE  CountedOnce'
  BY <1>7, NoAddressAssumption, NoVIPAssumption, SMTT(60) DEF Removed, Resume, Cleanup,
       NoCall, TypeOK, StateInv, ControlInv, CountedOnce, book
<1>8. ASSUME NEW v \in VIPs, Register(v)
      PROVE  CountedOnce'
  BY <1>8, NoAddressAssumption, NoVIPAssumption, SMTT(60) DEF Register, TypeOK,
       StateInv, ControlInv, CountedOnce, book
<1>9. ASSUME NEW v \in VIPs, AcquireDrain(v)
      PROVE  CountedOnce'
  BY <1>9, NoAddressAssumption, NoVIPAssumption, SMTT(60) DEF AcquireDrain, Refused,
       TypeOK, StateInv, ControlInv, CountedOnce, book
<1>10. ASSUME NEW v \in VIPs, RefuseDrain(v)
      PROVE  CountedOnce'
  BY <1>10, NoAddressAssumption, NoVIPAssumption DEF RefuseDrain, NoCall,
       TypeOK, StateInv, ControlInv, CountedOnce, book
<1>11. ASSUME NEW v \in VIPs, Decide(v)
      PROVE  CountedOnce'
  BY <1>11, NoAddressAssumption, NoVIPAssumption DEF Decide, Return, NoCall,
       TypeOK, StateInv, ControlInv, CountedOnce, book
<1>12. ASSUME NEW v \in VIPs, RouterCall(v)
      PROVE  CountedOnce'
  BY <1>12, NoAddressAssumption, NoVIPAssumption DEF RouterCall, InstallRoute,
       TypeOK, StateInv, ControlInv, CountedOnce, book
<1>13. ASSUME NEW v \in VIPs, RouterCallFails(v)
      PROVE  CountedOnce'
  BY <1>13, NoAddressAssumption, NoVIPAssumption DEF RouterCallFails,
       InstallRoute, Return, NoCall, TypeOK, StateInv, ControlInv,
       CountedOnce, book
<1>14. ASSUME NEW v \in VIPs, Apply(v)
      PROVE  CountedOnce'
  BY <1>14, NoAddressAssumption, NoVIPAssumption DEF Apply, MustRepeat,
       Operation, Return, NoCall, TypeOK, StateInv, ControlInv, CountedOnce,
       book
<1>15. ASSUME NEW v \in VIPs, ApplyToNothing(v)
      PROVE  CountedOnce'
  BY <1>15, NoAddressAssumption, NoVIPAssumption DEF ApplyToNothing, Return,
       NoCall, TypeOK, StateInv, ControlInv, CountedOnce, book
<1>16. ASSUME NEW v \in VIPs, Undrain(v)
      PROVE  CountedOnce'
  BY <1>16, NoAddressAssumption, NoVIPAssumption DEF Undrain, NoCall, TypeOK,
       StateInv, ControlInv, CountedOnce, book
<1>17. CASE IntervalElapses
  BY <1>17 DEF IntervalElapses, TypeOK, StateInv, ControlInv, CountedOnce,
       book
<1>18. CASE UNCHANGED vars
  BY <1>18, SMTT(60) DEF vars, control, TypeOK, StateInv, ControlInv, CountedOnce, book
<1> QED
  BY <1>1, <1>2, <1>3, <1>4, <1>5, <1>6, <1>7, <1>8, <1>9, <1>10, <1>11,
       <1>12, <1>13, <1>14, <1>15, <1>16, <1>17, <1>18 DEF Next, Request, Step

\* A change of what an address should advertise leaves some goroutine in
\* reconcileRoute, and none leaves it but settled or with an error.
LEMMA SettledStep ==
    ASSUME TypeOK, StateInv, ControlInv, Settled, [Next]_vars
    PROVE  Settled'
<1>1. ASSUME NEW v \in VIPs, NEW a \in Addresses, NEW flag \in BOOLEAN,
             SetServing(v, a, flag)
      PROVE  Settled'
  BY <1>1, NoAddressAssumption, NoVIPAssumption, SMTT(60) DEF SetServing, Moves,
       EnterRemove, Enter, Forget, TypeOK, StateInv, ControlInv, Settled,
       WorkingOn, ShouldAdvertise, book, NextOperation, Operation
<1>2. ASSUME NEW v \in VIPs, NEW a \in Addresses, NEW flag \in BOOLEAN,
             BeginDrain(v, a, flag)
      PROVE  Settled'
  BY <1>2, NoAddressAssumption, NoVIPAssumption, SMTT(60) DEF BeginDrain, Moves,
       EnterRemove, Enter, Forget, TypeOK, StateInv, ControlInv, Settled,
       WorkingOn, ShouldAdvertise, book, NextOperation, Operation
<1>3. ASSUME NEW v \in VIPs, NEW a \in Addresses, FinishDrain(v, a)
      PROVE  Settled'
  BY <1>3, NoAddressAssumption, NoVIPAssumption, SMTT(60) DEF FinishDrain, Enter,
       Forget, TypeOK, StateInv, ControlInv, Settled, WorkingOn,
       ShouldAdvertise, book, NextOperation, Operation
<1>4. ASSUME NEW v \in VIPs, NEW a \in Addresses, PrepareAddressChange(v, a)
      PROVE  Settled'
  BY <1>4, NoAddressAssumption, NoVIPAssumption DEF PrepareAddressChange,
       Moves, EnterRemove, Enter, Forget, TypeOK, StateInv, ControlInv,
       Settled, WorkingOn, ShouldAdvertise, book, NextOperation, Operation
<1>5. ASSUME NEW v \in VIPs, NEW a \in Addresses, Delete(v, a)
      PROVE  Settled'
  BY <1>5, NoAddressAssumption, NoVIPAssumption DEF Delete, EnterRemove,
       Enter, Forget, TypeOK, StateInv, ControlInv, Settled, WorkingOn,
       ShouldAdvertise, book, NextOperation, Operation
<1>6. ASSUME NEW v \in VIPs, Remove(v)
      PROVE  Settled'
  BY <1>6, NoAddressAssumption, NoVIPAssumption, SMTT(60) DEF Remove, TypeOK, StateInv,
       ControlInv, Settled, WorkingOn, ShouldAdvertise, book, NextOperation,
       Operation
<1>7. ASSUME NEW v \in VIPs, Removed(v)
      PROVE  Settled'
  BY <1>7, NoAddressAssumption, NoVIPAssumption, SMTT(60) DEF Removed, Resume, Cleanup,
       NoCall, TypeOK, StateInv, ControlInv, Settled, WorkingOn,
       ShouldAdvertise, book, NextOperation, Operation
<1>8. ASSUME NEW v \in VIPs, Register(v)
      PROVE  Settled'
  BY <1>8, NoAddressAssumption, NoVIPAssumption, SMTT(60) DEF Register, TypeOK,
       StateInv, ControlInv, Settled, WorkingOn, ShouldAdvertise, book,
       NextOperation, Operation
<1>9. ASSUME NEW v \in VIPs, AcquireDrain(v)
      PROVE  Settled'
  BY <1>9, NoAddressAssumption, NoVIPAssumption, SMTT(60) DEF AcquireDrain, Refused,
       TypeOK, StateInv, ControlInv, Settled, WorkingOn, ShouldAdvertise,
       book, NextOperation, Operation
<1>10. ASSUME NEW v \in VIPs, RefuseDrain(v)
      PROVE  Settled'
  BY <1>10, NoAddressAssumption, NoVIPAssumption DEF RefuseDrain, NoCall,
       TypeOK, StateInv, ControlInv, Settled, WorkingOn, ShouldAdvertise,
       book, NextOperation, Operation
<1>11. ASSUME NEW v \in VIPs, Decide(v)
      PROVE  Settled'
  BY <1>11, NoAddressAssumption, NoVIPAssumption, SMTT(60) DEF Decide, Return, NoCall,
       TypeOK, StateInv, ControlInv, Settled, WorkingOn, ShouldAdvertise,
       book, NextOperation, Operation
<1>12. ASSUME NEW v \in VIPs, RouterCall(v)
      PROVE  Settled'
  BY <1>12, NoAddressAssumption, NoVIPAssumption, SMTT(60) DEF RouterCall, InstallRoute,
       TypeOK, StateInv, ControlInv, Settled, WorkingOn, ShouldAdvertise,
       book, NextOperation, Operation
<1>13. ASSUME NEW v \in VIPs, RouterCallFails(v)
      PROVE  Settled'
  BY <1>13, NoAddressAssumption, NoVIPAssumption, SMTT(60) DEF RouterCallFails,
       InstallRoute, Return, NoCall, TypeOK, StateInv, ControlInv, Settled,
       WorkingOn, ShouldAdvertise, book, NextOperation, Operation
<1>14. ASSUME NEW v \in VIPs, Apply(v)
      PROVE  Settled'
  BY <1>14, NoAddressAssumption, NoVIPAssumption, SMTT(60) DEF Apply, MustRepeat,
       Operation, Return, NoCall, TypeOK, StateInv, ControlInv, Settled,
       WorkingOn, ShouldAdvertise, book, NextOperation, Operation
<1>15. ASSUME NEW v \in VIPs, ApplyToNothing(v)
      PROVE  Settled'
  BY <1>15, NoAddressAssumption, NoVIPAssumption, SMTT(60) DEF ApplyToNothing, Return,
       NoCall, TypeOK, StateInv, ControlInv, Settled, WorkingOn,
       ShouldAdvertise, book, NextOperation, Operation
<1>16. ASSUME NEW v \in VIPs, Undrain(v)
      PROVE  Settled'
  BY <1>16, NoAddressAssumption, NoVIPAssumption, SMTT(60) DEF Undrain, NoCall, TypeOK,
       StateInv, ControlInv, Settled, WorkingOn, ShouldAdvertise, book,
       NextOperation, Operation
<1>17. CASE IntervalElapses
  BY <1>17, SMTT(60) DEF IntervalElapses, TypeOK, StateInv, ControlInv, Settled,
       WorkingOn, ShouldAdvertise, book
<1>18. CASE UNCHANGED vars
  BY <1>18, SMTT(60) DEF vars, control, TypeOK, StateInv, ControlInv, Settled,
       WorkingOn, ShouldAdvertise, book
<1> QED
  BY <1>1, <1>2, <1>3, <1>4, <1>5, <1>6, <1>7, <1>8, <1>9, <1>10, <1>11,
       <1>12, <1>13, <1>14, <1>15, <1>16, <1>17, <1>18 DEF Next, Request, Step

\* What the return of reconcileRoute does to its caller and the drain.
Returned(v) ==
    \/ /\ v \in removing \/ call[v].op = "drain"
       /\ pc' \in {[pc EXCEPT ![v] = "removed"], [pc EXCEPT ![v] = "undrain"]}
       /\ UNCHANGED <<call, drained>>
    \/ /\ v \notin removing
       /\ pc' = [pc EXCEPT ![v] = "idle"]
       /\ call' = [call EXCEPT ![v] = NoCall]
       /\ \/ UNCHANGED drained
          \/ call[v].op = "drain" /\ drained' = [drained EXCEPT ![v] = target[v]]

\* The return of reconcileRoute lets a VIP hold the drain that its call owns,
\* and nothing else.
LEMMA ReturnedDrain ==
    ASSUME TypeOK, ControlInv, DrainInv, NEW v \in VIPs,
           pc[v] \in {"decide", "call", "apply"}, Returned(v),
           UNCHANGED <<members, drainOwner, removing>>
    PROVE  DrainInv'
<1>1. v \in removing \/ call[v].op = "drain" => drained[v] = NoAddress
  BY DEF DrainInv
<1>2. CASE UNCHANGED <<call, drained>>
  BY <1>1, <1>2, SMTT(60) DEF Returned, NoCall, TypeOK, DrainInv
<1>3. CASE v \notin removing /\ pc' = [pc EXCEPT ![v] = "idle"] /\ UNCHANGED drained
           /\ call' = [call EXCEPT ![v] = NoCall]
  BY <1>3, SMTT(60) DEF TypeOK, DrainInv
<1>4. CASE /\ v \notin removing /\ pc' = [pc EXCEPT ![v] = "idle"]
           /\ call' = [call EXCEPT ![v] = NoCall]
           /\ call[v].op = "drain" /\ drained' = [drained EXCEPT ![v] = target[v]]
  <2>1. drainOwner[target[v]] = v /\ v \in members[target[v]]
    BY <1>4 DEF ControlInv
  <2> QED
    BY <1>4, <2>1, SMTT(60) DEF TypeOK, DrainInv
<1> QED
  BY <1>2, <1>3, <1>4 DEF Returned

\* Nobody but the owner releases a drain.
LEMMA DrainStep ==
    ASSUME TypeOK, StateInv, ControlInv, CountedOnce, DrainInv, [Next]_vars
    PROVE  DrainInv'
<1>1. ASSUME NEW v \in VIPs, NEW a \in Addresses, NEW flag \in BOOLEAN,
             SetServing(v, a, flag)
      PROVE  DrainInv'
  <2>1. /\ pc[v] = "idle"
        /\ UNCHANGED <<members, drainOwner>>
        /\ removing' \in {removing, removing \cup {v}}
        /\ pc' = [pc EXCEPT ![v] = pc'[v]] /\ pc'[v] \in {"remove", "register"}
        /\ pc'[v] = "register" => removing' = removing
    BY <1>1 DEF SetServing, EnterRemove, Enter, TypeOK, book
  <2>2. /\ call' = [call EXCEPT ![v] = [op |-> "serve", address |-> a, flag |-> flag]]
        /\ drained' = [drained EXCEPT ![v] = drained'[v]]
        /\ drained'[v] # NoAddress => drained'[v] = drained[v] /\ drained[v] = a
    BY <1>1, SMTT(60) DEF SetServing, EnterRemove, Enter, Forget, TypeOK
  <2>3. drained[v] = a /\ a # NoAddress => vipAddresses[v] = a
    BY SMTT(60) DEF DrainInv, CountedOnce, StateInv, TypeOK
  <2>4. drained'[v] # NoAddress => pc'[v] = "register"
    BY <1>1, <2>2, <2>3 DEF SetServing, Moves, EnterRemove, Enter, TypeOK
  <2> QED
    BY <2>1, <2>2, <2>4, SMTT(60) DEF TypeOK, DrainInv
<1>2. ASSUME NEW v \in VIPs, NEW a \in Addresses, NEW flag \in BOOLEAN,
             BeginDrain(v, a, flag)
      PROVE  DrainInv'
  BY <1>2, NoAddressAssumption, NoVIPAssumption, SMTT(60) DEF BeginDrain, Moves,
       EnterRemove, Enter, Forget, TypeOK, ControlInv, DrainInv, book
<1>3. ASSUME NEW v \in VIPs, NEW a \in Addresses, FinishDrain(v, a)
      PROVE  DrainInv'
  BY <1>3, NoAddressAssumption, NoVIPAssumption, SMTT(60) DEF FinishDrain, Enter,
       Forget, TypeOK, ControlInv, DrainInv, book
<1>4. ASSUME NEW v \in VIPs, NEW a \in Addresses, PrepareAddressChange(v, a)
      PROVE  DrainInv'
  <2>1. /\ drained' = [drained EXCEPT ![v] = NoAddress]
        /\ UNCHANGED <<members, drainOwner>>
        /\ removing' = removing \cup {v}
        /\ \A w \in VIPs \ {v} : pc'[w] = pc[w] /\ call'[w] = call[w]
    BY <1>4 DEF PrepareAddressChange, EnterRemove, Enter, Forget, TypeOK, book
  <2> QED
    BY <2>1, SMTT(60) DEF TypeOK, DrainInv
<1>5. ASSUME NEW v \in VIPs, NEW a \in Addresses, Delete(v, a)
      PROVE  DrainInv'
  <2>1. /\ drained' = [drained EXCEPT ![v] = NoAddress]
        /\ UNCHANGED <<members, drainOwner>>
        /\ removing' = removing \cup {v}
        /\ \A w \in VIPs \ {v} : pc'[w] = pc[w] /\ call'[w] = call[w]
    BY <1>5 DEF Delete, EnterRemove, Enter, Forget, TypeOK, book
  <2> QED
    BY <2>1, SMTT(60) DEF TypeOK, DrainInv
<1>6. ASSUME NEW v \in VIPs, Remove(v)
      PROVE  DrainInv'
  <2>1. drained[v] = NoAddress
    BY <1>6 DEF Remove, DrainInv
  <2>2. \A w \in VIPs \ {v}, a \in Addresses : w \in members[a] => w \in members'[a]
    BY <1>6 DEF Remove, TypeOK
  <2>3. /\ UNCHANGED <<drainOwner, removing, call, drained>>
        /\ \A w \in VIPs \ {v} : pc'[w] = pc[w]
    BY <1>6 DEF Remove, TypeOK
  <2> QED
    BY <2>1, <2>2, <2>3, SMTT(60) DEF TypeOK, DrainInv
<1>7. ASSUME NEW v \in VIPs, Removed(v)
      PROVE  DrainInv'
  <2>1. drained[v] = NoAddress /\ UNCHANGED drained
    BY <1>7 DEF Removed, DrainInv
  <2>2. \A w \in VIPs \ {v} :
           /\ pc'[w] = pc[w] /\ call'[w] = call[w]
           /\ w \in removing' => w \in removing
    BY <1>7 DEF Removed, TypeOK
  <2>3. \A w \in VIPs \ {v}, a \in Addresses : w \in members[a] => w \in members'[a]
    BY <1>7 DEF Removed
  <2>4. \A w \in VIPs \ {v}, a \in Addresses :
           drainOwner[a] = w /\ w \in members[a] => drainOwner'[a] = w
    BY <1>7 DEF Removed, Cleanup, TypeOK
  <2>5. \A w \in VIPs : drained[w] # NoAddress => w # v /\ drained[w] \in Addresses
    BY <2>1 DEF TypeOK
  <2> QED
    BY <2>1, <2>2, <2>3, <2>4, <2>5, SMTT(60) DEF DrainInv
<1>8. ASSUME NEW v \in VIPs, Register(v)
      PROVE  DrainInv'
  BY <1>8, NoAddressAssumption, NoVIPAssumption, SMTT(60) DEF Register, TypeOK,
       ControlInv, DrainInv, book
<1>9. ASSUME NEW v \in VIPs, AcquireDrain(v)
      PROVE  DrainInv'
  <2>1. drained[v] = NoAddress /\ UNCHANGED drained
    BY <1>9 DEF AcquireDrain, DrainInv
  <2>2. \A w \in VIPs \ {v} :
           /\ pc'[w] = pc[w] /\ call'[w] = call[w]
           /\ w \in removing' => w \in removing
    BY <1>9 DEF AcquireDrain, TypeOK
  <2>3. \A w \in VIPs \ {v}, a \in Addresses : w \in members[a] => w \in members'[a]
    BY <1>9 DEF AcquireDrain, TypeOK
  <2>4. \A w \in VIPs \ {v}, a \in Addresses :
           drainOwner[a] = w /\ w \in members[a] => drainOwner'[a] = w
    BY <1>9, NoVIPAssumption DEF AcquireDrain, Refused, TypeOK
  <2>5. \A w \in VIPs : drained[w] # NoAddress => w # v /\ drained[w] \in Addresses
    BY <2>1 DEF TypeOK
  <2> QED
    BY <2>1, <2>2, <2>3, <2>4, <2>5, SMTT(60) DEF DrainInv
<1>10. ASSUME NEW v \in VIPs, RefuseDrain(v)
      PROVE  DrainInv'
  BY <1>10, NoAddressAssumption, NoVIPAssumption, SMTT(60) DEF RefuseDrain, NoCall,
       TypeOK, ControlInv, DrainInv, book
<1>11. ASSUME NEW v \in VIPs, Decide(v)
      PROVE  DrainInv'
  <2>1. pc[v] = "decide" /\ UNCHANGED <<members, drainOwner, removing>>
    BY <1>11 DEF Decide, book
  <2>2. CASE pc' = [pc EXCEPT ![v] = "call"] /\ UNCHANGED <<call, drained>>
    BY <2>1, <2>2, SMTT(60) DEF TypeOK, DrainInv
  <2>3. CASE Returned(v)
    BY <2>1, <2>3, ReturnedDrain
  <2> QED
    BY <1>11, <2>2, <2>3 DEF Decide, Return, Returned
<1>12. ASSUME NEW v \in VIPs, RouterCall(v)
      PROVE  DrainInv'
  BY <1>12, NoAddressAssumption, NoVIPAssumption, SMTT(60) DEF RouterCall, InstallRoute,
       TypeOK, ControlInv, DrainInv, book
<1>13. ASSUME NEW v \in VIPs, RouterCallFails(v)
      PROVE  DrainInv'
  <2>1. pc[v] = "call" /\ UNCHANGED <<members, drainOwner, removing>>
    BY <1>13 DEF RouterCallFails, book
  <2>2. Returned(v)
    BY <1>13 DEF RouterCallFails, Return, Returned
  <2> QED
    BY <2>1, <2>2, ReturnedDrain
<1>14. ASSUME NEW v \in VIPs, Apply(v)
      PROVE  DrainInv'
  <2>1. pc[v] = "apply" /\ UNCHANGED <<members, drainOwner, removing>>
    BY <1>14 DEF Apply, book
  <2>2. CASE pc' = [pc EXCEPT ![v] = "decide"] /\ UNCHANGED <<call, drained>>
    BY <2>1, <2>2, SMTT(60) DEF TypeOK, DrainInv
  <2>3. CASE Returned(v)
    BY <2>1, <2>3, ReturnedDrain
  <2> QED
    BY <1>14, <2>2, <2>3 DEF Apply, Return, Returned
<1>15. ASSUME NEW v \in VIPs, ApplyToNothing(v)
      PROVE  DrainInv'
  <2>1. pc[v] = "apply" /\ UNCHANGED <<members, drainOwner, removing>>
    BY <1>15 DEF ApplyToNothing, book
  <2>2. Returned(v)
    BY <1>15 DEF ApplyToNothing, Return, Returned
  <2> QED
    BY <2>1, <2>2, ReturnedDrain
<1>16. ASSUME NEW v \in VIPs, Undrain(v)
      PROVE  DrainInv'
  <2>1. drained[v] = NoAddress /\ UNCHANGED drained
    BY <1>16 DEF Undrain, DrainInv
  <2>2. \A w \in VIPs \ {v} :
           /\ pc'[w] = pc[w] /\ call'[w] = call[w]
           /\ w \in removing' => w \in removing
    BY <1>16 DEF Undrain, TypeOK
  <2>3. \A w \in VIPs \ {v}, a \in Addresses : w \in members[a] => w \in members'[a]
    BY <1>16 DEF Undrain
  <2>4. \A w \in VIPs \ {v}, a \in Addresses :
           drainOwner[a] = w /\ w \in members[a] => drainOwner'[a] = w
    BY <1>16 DEF Undrain, TypeOK
  <2>5. \A w \in VIPs : drained[w] # NoAddress => w # v /\ drained[w] \in Addresses
    BY <2>1 DEF TypeOK
  <2> QED
    BY <2>1, <2>2, <2>3, <2>4, <2>5, SMTT(60) DEF DrainInv
<1>17. CASE IntervalElapses
  BY <1>17 DEF IntervalElapses, TypeOK, ControlInv, DrainInv, book
<1>18. CASE UNCHANGED vars
  BY <1>18 DEF vars, control, TypeOK, ControlInv, DrainInv, book
<1> QED
  BY <1>1, <1>2, <1>3, <1>4, <1>5, <1>6, <1>7, <1>8, <1>9, <1>10, <1>11,
       <1>12, <1>13, <1>14, <1>15, <1>16, <1>17, <1>18 DEF Next, Request, Step

\* newRouteCoordinator starts with no address tracked.
LEMMA InitInv == Init => IInv
BY NoCallType, NoVIPAssumption, NoAddressAssumption, SMTT(60)
   DEF Init, IInv, TypeOK, StateInv, ControlInv, CountedOnce, Settled, DrainInv, NoCall

(* The inductive invariant holds in every reachable state of the           *)
(* coordinator.                                                            *)
THEOREM Inductive == Spec => []IInv
<1>1. IInv /\ [Next]_vars => IInv'
  BY TypeStep, StateStep, ControlStep, CountedStep, SettledStep, DrainStep DEF IInv
<1> QED
  BY <1>1, InitInv, PTL DEF Spec

(* Every variable of the coordinator keeps its type, and a goroutine that  *)
(* works on an address has one, for any VIPs and addresses.                *)
THEOREM TypeCorrect == Spec => []TypeOK
BY Inductive, PTL DEF IInv

(* For any number of VIPs and addresses: a VIP is counted only at the      *)
(* address it is tracked at, whatever SetServing, drain, prepare and       *)
(* Delete calls interleave.                                                *)
THEOREM CountedOnceHolds == Spec => []CountedOnce
BY Inductive, PTL DEF IInv

(* For any number of VIPs and addresses: when no reconcileRoute is in      *)
(* progress for an address and none failed, the bookkeeping's advertised   *)
(* flag is what the serving set and the drain demand.                      *)
THEOREM SettledHolds == Spec => []Settled
BY Inductive, PTL DEF IInv

(* For any number of VIPs and addresses: whoever was told its address is   *)
(* drained owns the drain.                                                 *)
THEOREM DrainExclusiveHolds == Spec => []DrainExclusive
<1>1. IInv => DrainExclusive
  BY DEF IInv, DrainInv, DrainExclusive
<1> QED
  BY <1>1, Inductive, PTL
=============================================================================
