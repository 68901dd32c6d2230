---------------------- MODULE ReconcilerManagerProofs ----------------------
(***************************************************************************)
(* OneWorker and StaleDeleteHarmless for any number of creations, updates  *)
(* and deletions of the object.                                            *)
(*                                                                         *)
(* The argument: the Manager's maps name every live reconciler (Owned), so *)
(* that a key has one worker; only the reconciler in deleting was told to  *)
(* delete (Told), and while it is there newer objects wait in              *)
(* pendingRecreates, so that the object it deletes is the newest that any  *)
(* loop can have applied (Ordered).                                        *)
(***************************************************************************)
EXTENDS ReconcilerManager, TLAPS

\* A leaf that names no prover is for Zenon.
USE ZenonT(60)

\* Types; whoever hands over has a reconciler and an object for it.
Typed ==
    /\ TypeOK
    /\ \A r \in Reconcilers : recreated[r].step # "none" =>
          recreated[r].reconciler # None /\ recreated[r].vip # None

Live == {"created", "running", "exiting"}

\* Every live reconciler is the Manager's: the one of the object, or the one
\* that cleans up, and never both.
Owned ==
    /\ vips = None \/ deleting = None
    /\ \A r \in Reconcilers : goroutine[r] \in Live <=> r \in {vips, deleting}

\* A goroutine that hands over is done with its own VIP, and the reconciler it
\* has still to start is not running.
HandedOver ==
    \A r \in Reconcilers :
        /\ recreated[r].step # "none" => goroutine[r] = "handover"
        /\ recreated[r].step = "start" =>
              /\ goroutine[recreated[r].reconciler] = "created"
              /\ \A q \in Reconcilers \ {r} : recreated[q].step = "start"
                    => recreated[q].reconciler # recreated[r].reconciler

\* Only the reconciler that is being deleted has been, or will be, told so.
Told ==
    \A r \in Reconcilers :
        eventCh[r] # None \/ deleteVIP[r] # None
              \/ (handler.step = "delete" /\ handler.reconciler = r)
            => /\ goroutine[r] # "unused"
               /\ goroutine[r] \in Live => deleting = r

\* No object that the loops work with, or may come to work with, is newer.
NoneNewer(uid) ==
    /\ applied # None => applied.uid <= uid
    /\ handler.vip # None => handler.vip.uid <= uid
    /\ \A r \in Reconcilers :
          /\ current[r] # None => current[r].uid <= uid
          /\ working[r] # None => working[r].uid <= uid
          /\ eventCh[r] # None => eventCh[r].uid <= uid
          /\ deleteVIP[r] # None => deleteVIP[r].uid <= uid
          /\ recreated[r].vip # None => recreated[r].vip.uid <= uid

\* The object that is being deleted is the newest there is besides the one
\* that waits for its clean-up.
Ordered ==
    /\ NoneNewer(version)
    /\ object # None => object.uid <= version /\ NoneNewer(object.uid)
    /\ pendingRecreates # None =>
          deleting # None /\ object # None /\ pendingRecreates.uid = object.uid
    /\ \A r \in Reconcilers : deleting = r =>
          /\ handler.step = "delete" /\ handler.reconciler = r => NoneNewer(handler.vip.uid)
          /\ eventCh[r] # None => NoneNewer(eventCh[r].uid)
          /\ deleteVIP[r] # None => NoneNewer(deleteVIP[r].uid)

\* The inductive invariant.  Stop empties the maps under running goroutines.
ManagerInv == Typed /\ (~stopped => Owned /\ HandedOver /\ Told /\ Ordered)

-----------------------------------------------------------------------------
(* Types                                                                   *)

(* No reconciler is the map entry that stands for nil.                     *)
LEMMA NoneReconciler == None \notin Reconcilers
BY NoneAssumption DEF Reconcilers

(* The object of the next watch event is one of the model's objects.       *)
LEMMA NextVersionTyped ==
    ASSUME Typed, version < MaxVersion
    PROVE  /\ NextVersion \in Objects
           /\ NextVersion # None
           /\ NextVersion.uid = IF object = None THEN version + 1 ELSE object.uid
           /\ version + 1 \in 0..MaxVersion
<1>1. version \in 0..MaxVersion /\ version + 1 \in 1..MaxVersion
    BY MaxVersionAssumption, SMTT(60) DEF Typed, TypeOK
<1>2. object # None => object.uid \in 1..MaxVersion
    BY DEF Typed, TypeOK, MaybeObject, Objects
<1>. QED
    BY <1>1, <1>2, NoneAssumption, SMTT(60) DEF NextVersion, Objects

(* OnVIPUpdate keeps the types.                                            *)
LEMMA OnVIPUpdateTyped ==
    ASSUME Typed, OnVIPUpdate
    PROVE  Typed'
<1>1. NextVersion \in Objects /\ version + 1 \in 0..MaxVersion
    BY NextVersionTyped DEF OnVIPUpdate
<1>2. /\ object' \in MaybeObject /\ version' \in 0..MaxVersion
      /\ UNCHANGED <<deleting, current, loopVars, recreated, applied, cancelled, stopped>>
    BY <1>1 DEF OnVIPUpdate, MaybeObject
<1>3. /\ handler' \in [step : {"idle", "update", "delete"},
                       reconciler : MaybeReconciler, vip : MaybeObject]
      /\ handler' # Idle => handler'.reconciler # None /\ handler'.vip # None
      /\ vips' \in MaybeReconciler /\ pendingRecreates' \in MaybeObject
      /\ goroutine' \in [Reconcilers -> {"unused", "created", "running", "exiting",
                                         "handover", "stopped"}]
    <2>1. CASE Queued
        BY <1>1, <2>1 DEF OnVIPUpdate, Typed, TypeOK, MaybeObject
    <2>2. CASE ~Queued /\ vips # None
        BY <1>1, <2>2, NoneAssumption, SMTT(60) DEF OnVIPUpdate, Typed, TypeOK, MaybeObject, MaybeReconciler
    <2>3. CASE ~Queued /\ vips = None
        <3>1. PICK r \in Reconcilers :
                  /\ vips' = r
                  /\ goroutine' = [goroutine EXCEPT ![r] = "running"]
                  /\ handler' = [step |-> "update", reconciler |-> r, vip |-> NextVersion]
                  /\ pendingRecreates' = pendingRecreates
            BY <2>3 DEF OnVIPUpdate
        <3>. QED
            BY <1>1, <3>1, NoneAssumption, SMTT(60) DEF Typed, TypeOK, MaybeObject, MaybeReconciler, Reconcilers
    <2>. QED
        BY <2>1, <2>2, <2>3
<1>. QED
    BY <1>2, <1>3 DEF Typed, TypeOK, loopVars

(* So does the end of an update that found its reconciler running.         *)
LEMMA FinishUpdateTyped ==
    ASSUME Typed, FinishUpdate
    PROVE  Typed'
<1>1. handler # Idle /\ handler.reconciler \in Reconcilers /\ handler.vip \in Objects
    BY SMTT(60) DEF FinishUpdate, Typed, TypeOK, Idle, MaybeReconciler, MaybeObject
<1>. QED
    BY <1>1, SMTT(60) DEF FinishUpdate, Update, Typed, TypeOK, managerVars, Idle, MaybeReconciler, MaybeObject

(* So does OnVIPReconcilerStopped, with and without a pending object.      *)
LEMMA StoppedTyped ==
    ASSUME Typed, NEW r \in Reconcilers, OnVIPReconcilerStopped(r)
    PROVE  Typed'
<1>. USE DEF Typed, TypeOK
<1>1. UNCHANGED <<object, version, handler, current, eventCh, deleteVIP, working,
                  applied, cancelled, stopped>>
    BY DEF OnVIPReconcilerStopped
<1>2. CASE ReleaseDeleting(r) /\ pendingRecreates = None
    BY <1>1, <1>2, SMTT(60) DEF ReleaseDeleting, MaybeReconciler, MaybeObject
<1>3. CASE ReleaseDeleting(r) /\ pendingRecreates # None
    <2>1. PICK s \in Reconcilers :
              /\ vips' = s
              /\ goroutine' = [goroutine EXCEPT ![r] = "handover", ![s] = "created"]
              /\ recreated' = [recreated EXCEPT ![r] =
                     [step |-> "start", reconciler |-> s, vip |-> pendingRecreates]]
        BY <1>3 DEF ReleaseDeleting
    <2>2. deleting' = None /\ pendingRecreates' = None /\ reconcileCh' = reconcileCh
        BY <1>3 DEF ReleaseDeleting
    <2>3. /\ goroutine' \in [Reconcilers -> {"unused", "created", "running", "exiting",
                                             "handover", "stopped"}]
          /\ vips' \in MaybeReconciler /\ deleting' \in MaybeReconciler
          /\ pendingRecreates' \in MaybeObject
        BY <2>1, <2>2 DEF MaybeReconciler, MaybeObject
    <2>4. /\ recreated' \in [Reconcilers -> [step : {"none", "start", "update"},
                                            reconciler : MaybeReconciler, vip : MaybeObject]]
          /\ \A q \in Reconcilers : recreated'[q].step # "none" =>
                recreated'[q].reconciler # None /\ recreated'[q].vip # None
        BY <1>3, <2>1, NoneAssumption, SMTT(60) DEF MaybeReconciler, MaybeObject, Reconcilers
    <2>. QED
        BY <1>1, <2>2, <2>3, <2>4
<1>4. CASE ReleaseOther(r)
    BY <1>1, <1>4, SMTT(60) DEF ReleaseOther, MaybeReconciler, MaybeObject
<1>. QED
    BY <1>2, <1>3, <1>4 DEF OnVIPReconcilerStopped

(* So does starting the reconciler recreated for the pending object.       *)
LEMMA StartRecreatedTyped ==
    ASSUME Typed, NEW r \in Reconcilers, StartRecreated(r)
    PROVE  Typed'
<1>. USE DEF Typed, TypeOK
<1>1. /\ recreated' = [recreated EXCEPT ![r].step = "update"]
      /\ goroutine' = [goroutine EXCEPT ![recreated[r].reconciler] = "running"]
      /\ UNCHANGED <<object, version, handler, managerVars, current, loopVars,
                     applied, cancelled, stopped>>
      /\ recreated[r].step # "none"
    BY DEF StartRecreated
<1>2. /\ recreated' \in [Reconcilers -> [step : {"none", "start", "update"},
                                        reconciler : MaybeReconciler, vip : MaybeObject]]
      /\ \A q \in Reconcilers : recreated'[q].step # "none" =>
            recreated'[q].reconciler # None /\ recreated'[q].vip # None
    BY <1>1
<1>3. goroutine' \in [Reconcilers -> {"unused", "created", "running", "exiting",
                                      "handover", "stopped"}]
    BY <1>1
<1>. QED
    BY <1>1, <1>2, <1>3 DEF managerVars, loopVars

(* So does handing it the object that waited.                              *)
LEMMA UpdateRecreatedTyped ==
    ASSUME Typed, NEW r \in Reconcilers, UpdateRecreated(r)
    PROVE  Typed'
<1>. USE DEF Typed, TypeOK
<1>1. /\ recreated[r].reconciler \in Reconcilers /\ recreated[r].vip \in Objects
    BY DEF UpdateRecreated, MaybeReconciler, MaybeObject
<1>2. /\ current' \in [Reconcilers -> MaybeObject] /\ reconcileCh' \in SUBSET Reconcilers
    BY <1>1 DEF UpdateRecreated, Update, MaybeObject
<1>3. goroutine' \in [Reconcilers -> {"unused", "created", "running", "exiting",
                                      "handover", "stopped"}]
    BY DEF UpdateRecreated
<1>4. /\ recreated' \in [Reconcilers -> [step : {"none", "start", "update"},
                                        reconciler : MaybeReconciler, vip : MaybeObject]]
      /\ \A q \in Reconcilers : recreated'[q].step # "none" =>
            recreated'[q].reconciler # None /\ recreated'[q].vip # None
    BY DEF UpdateRecreated, NoHandover, MaybeReconciler, MaybeObject
<1>. QED
    BY <1>2, <1>3, <1>4 DEF UpdateRecreated, managerVars

(* Every step of the Manager and of a reconciler keeps the types.          *)
LEMMA TypedKept ==
    ASSUME Typed, Next
    PROVE  Typed'
<1>1. ASSUME OnVIPUpdate PROVE Typed'
    BY <1>1, OnVIPUpdateTyped
<1>2. ASSUME FinishUpdate PROVE Typed'
    BY <1>2, FinishUpdateTyped
<1>3. ASSUME OnVIPDelete PROVE Typed'
    BY <1>3, NoneReconciler, SMTT(60) DEF OnVIPDelete, Managed, DropPending, Typed,
       TypeOK, managerVars, loopVars, Idle, MaybeObject, MaybeReconciler
<1>4. ASSUME MarkDeleted PROVE Typed'
    BY <1>4, NoneReconciler DEF MarkDeleted, Typed, TypeOK, managerVars,
       loopVars, Idle, MaybeObject, MaybeReconciler
<1>5. ASSUME OnHealthChange PROVE Typed'
    BY <1>5, NoneReconciler, SMTT(60) DEF OnHealthChange, Typed, TypeOK, managerVars,
       loopVars, Idle, MaybeObject, MaybeReconciler
<1>6. ASSUME NEW r \in Reconcilers, NEW byToken \in BOOLEAN, StartReconcile(r, byToken)
      PROVE  Typed'
    BY <1>6, NoneReconciler, SMTT(60) DEF StartReconcile, AtSelect, Typed, TypeOK,
       managerVars, loopVars, Idle, MaybeObject, MaybeReconciler
<1>7. ASSUME NEW r \in Reconcilers, NEW outcome \in Outcomes, FinishReconcile(r, outcome)
      PROVE  Typed'
    BY <1>7, NoneReconciler, SMTT(60) DEF FinishReconcile, Outcomes, Typed, TypeOK,
       managerVars, loopVars, Idle, MaybeObject, MaybeReconciler
<1>8. ASSUME NEW r \in Reconcilers, StartDelete(r) PROVE Typed'
    BY <1>8, NoneReconciler, SMTT(60) DEF StartDelete, AtSelect, Typed, TypeOK,
       managerVars, loopVars, Idle, MaybeObject, MaybeReconciler
<1>9. ASSUME NEW r \in Reconcilers, RetryDelete(r) PROVE Typed'
    BY <1>9, NoneReconciler, SMTT(60) DEF RetryDelete, AtSelect, Typed, TypeOK,
       managerVars, loopVars, Idle, MaybeObject, MaybeReconciler
<1>10. ASSUME NEW r \in Reconcilers, DeleteSucceeds(r) PROVE Typed'
    BY <1>10, NoneReconciler, SMTT(60) DEF DeleteSucceeds, Typed, TypeOK, managerVars,
       loopVars, Idle, MaybeObject, MaybeReconciler
<1>11. ASSUME NEW r \in Reconcilers, DeleteFails(r) PROVE Typed'
    BY <1>11, NoneReconciler, SMTT(60) DEF DeleteFails, Typed, TypeOK, managerVars,
       loopVars, Idle, MaybeObject, MaybeReconciler
<1>12. ASSUME NEW r \in Reconcilers, ExitOnCancel(r) PROVE Typed'
    BY <1>12, NoneReconciler, SMTT(60) DEF ExitOnCancel, AtSelect, Typed, TypeOK,
       managerVars, loopVars, Idle, MaybeObject, MaybeReconciler
<1>13. ASSUME NEW r \in Reconcilers, OnVIPReconcilerStopped(r) PROVE Typed'
    BY <1>13, StoppedTyped
<1>14. ASSUME NEW r \in Reconcilers, StartRecreated(r) PROVE Typed'
    BY <1>14, StartRecreatedTyped
<1>15. ASSUME NEW r \in Reconcilers, UpdateRecreated(r) PROVE Typed'
    BY <1>15, UpdateRecreatedTyped
<1>16. ASSUME Cancel PROVE Typed'
    BY <1>16, NoneReconciler, SMTT(60) DEF Cancel, Typed, TypeOK, managerVars,
       loopVars, Idle, MaybeObject, MaybeReconciler
<1>17. ASSUME Stop PROVE Typed'
    BY <1>17, NoneReconciler DEF Stop, Typed, TypeOK, managerVars, loopVars,
       Idle, MaybeObject, MaybeReconciler
<1>. QED
    BY ONLY Next, <1>1, <1>2, <1>3, <1>4, <1>5, <1>6, <1>7, <1>8, <1>9,
       <1>10, <1>11, <1>12, <1>13, <1>14, <1>15, <1>16, <1>17
    DEF Next, Loop, Handover

-----------------------------------------------------------------------------
(* Who works on the key                                                    *)

(* The end of a clean-up, with and without an object that waits for it.     *)
LEMMA StoppedOwned ==
    ASSUME Typed, Owned, HandedOver, NEW r \in Reconcilers, OnVIPReconcilerStopped(r)
    PROVE  Owned' /\ HandedOver'
<1>1. /\ goroutine[r] = "exiting"
      /\ goroutine \in [Reconcilers -> {"unused", "created", "running", "exiting",
                                        "handover", "stopped"}]
      /\ recreated \in [Reconcilers -> [step : {"none", "start", "update"},
                                       reconciler : MaybeReconciler, vip : MaybeObject]]
    BY DEF OnVIPReconcilerStopped, Typed, TypeOK
<1>2. CASE ReleaseDeleting(r) /\ pendingRecreates = None
    <2>1. /\ deleting = r /\ deleting' = None /\ vips' = vips /\ vips = None
          /\ recreated' = recreated
          /\ goroutine' = [goroutine EXCEPT ![r] = "stopped"]
        BY <1>1, <1>2, NoneReconciler DEF ReleaseDeleting, Owned
    <2>2. Owned'
        BY <1>1, <2>1, NoneReconciler DEF Owned, Live
    <2>3. HandedOver'
        BY <1>1, <2>1, SMTT(60) DEF HandedOver
    <2>. QED
        BY <2>2, <2>3
<1>3. CASE ReleaseDeleting(r) /\ pendingRecreates # None
    <2>1. PICK s \in Reconcilers :
              /\ goroutine[s] = "unused"
              /\ vips' = s
              /\ goroutine' = [goroutine EXCEPT ![r] = "handover", ![s] = "created"]
              /\ recreated' = [recreated EXCEPT ![r] =
                     [step |-> "start", reconciler |-> s, vip |-> pendingRecreates]]
        BY <1>3 DEF ReleaseDeleting, NewReconciler
    <2>2. deleting = r /\ deleting' = None /\ vips = None /\ s # r
        BY <1>1, <1>3, <2>1, NoneReconciler DEF ReleaseDeleting, Owned
    <2>3. Owned'
        BY <1>1, <2>1, <2>2, NoneReconciler DEF Owned, Live
    <2>4. /\ recreated'[r].step = "start" /\ recreated'[r].reconciler = s
          /\ \A q \in Reconcilers \ {r} : recreated'[q] = recreated[q]
          /\ goroutine'[r] = "handover" /\ goroutine'[s] = "created"
          /\ \A q \in Reconcilers \ {r, s} : goroutine'[q] = goroutine[q]
        BY <1>1, <2>1, <2>2
    <2>5. \A q \in Reconcilers : recreated[q].step = "start" =>
              /\ recreated[q].reconciler \in Reconcilers
              /\ recreated[q].reconciler # s /\ recreated[q].reconciler # r
        BY <1>1, <2>1, SMTT(60) DEF HandedOver, Typed, MaybeReconciler
    <2>6. HandedOver'
        BY <1>1, <2>1, <2>4, <2>5, SMTT(60) DEF HandedOver
    <2>. QED
        BY <2>3, <2>6
<1>4. CASE ReleaseOther(r)
    BY <1>1, <1>4, NoneReconciler, SMTT(60) DEF ReleaseOther, Owned, HandedOver, Live
<1>. QED
    BY <1>2, <1>3, <1>4 DEF OnVIPReconcilerStopped

(* The Manager's maps go on naming every reconciler that is live.          *)
LEMMA OwnedKept ==
    ASSUME Typed, Owned, HandedOver, ~stopped, ~stopped', Next
    PROVE  Owned'
<1>1. ASSUME OnVIPUpdate PROVE Owned'
    BY <1>1, NoneReconciler, SMTT(60) DEF OnVIPUpdate, NextVersion, Queued,
       NewReconciler, Typed, TypeOK, Owned, HandedOver, Live, managerVars,
       loopVars, MaybeReconciler
<1>2. ASSUME FinishUpdate PROVE Owned'
    BY <1>2, NoneReconciler DEF FinishUpdate, Update, Typed, TypeOK, Owned,
       HandedOver, Live, managerVars, loopVars, MaybeReconciler
<1>3. ASSUME OnVIPDelete PROVE Owned'
    BY <1>3, NoneReconciler, SMTT(60) DEF OnVIPDelete, Managed, DropPending, Typed,
       TypeOK, Owned, HandedOver, Live, managerVars, loopVars,
       MaybeReconciler
<1>4. ASSUME MarkDeleted PROVE Owned'
    BY <1>4, NoneReconciler DEF MarkDeleted, Typed, TypeOK, Owned,
       HandedOver, Live, managerVars, loopVars, MaybeReconciler
<1>5. ASSUME OnHealthChange PROVE Owned'
    BY <1>5, NoneReconciler DEF OnHealthChange, Typed, TypeOK, Owned,
       HandedOver, Live, managerVars, loopVars, MaybeReconciler
<1>6. ASSUME NEW r \in Reconcilers, NEW byToken \in BOOLEAN, StartReconcile(r, byToken)
      PROVE  Owned'
    BY <1>6, NoneReconciler DEF StartReconcile, AtSelect, Typed, TypeOK,
       Owned, HandedOver, Live, managerVars, loopVars, MaybeReconciler
<1>7. ASSUME NEW r \in Reconcilers, NEW outcome \in Outcomes, FinishReconcile(r, outcome)
      PROVE  Owned'
    BY <1>7, NoneReconciler DEF FinishReconcile, Outcomes, Typed, TypeOK,
       Owned, HandedOver, Live, managerVars, loopVars, MaybeReconciler
<1>8. ASSUME NEW r \in Reconcilers, StartDelete(r) PROVE Owned'
    BY <1>8, NoneReconciler DEF StartDelete, AtSelect, Typed, TypeOK, Owned,
       HandedOver, Live, managerVars, loopVars, MaybeReconciler
<1>9. ASSUME NEW r \in Reconcilers, RetryDelete(r) PROVE Owned'
    BY <1>9, NoneReconciler DEF RetryDelete, AtSelect, Typed, TypeOK, Owned,
       HandedOver, Live, managerVars, loopVars, MaybeReconciler
<1>10. ASSUME NEW r \in Reconcilers, DeleteSucceeds(r) PROVE Owned'
    BY <1>10, NoneReconciler, SMTT(60) DEF DeleteSucceeds, Typed, TypeOK, Owned,
       HandedOver, Live, managerVars, loopVars, MaybeReconciler
<1>11. ASSUME NEW r \in Reconcilers, DeleteFails(r) PROVE Owned'
    BY <1>11, NoneReconciler DEF DeleteFails, Typed, TypeOK, Owned,
       HandedOver, Live, managerVars, loopVars, MaybeReconciler
<1>12. ASSUME NEW r \in Reconcilers, ExitOnCancel(r) PROVE Owned'
    BY <1>12, NoneReconciler, SMTT(60) DEF ExitOnCancel, AtSelect, Typed, TypeOK,
       Owned, HandedOver, Live, managerVars, loopVars, MaybeReconciler
<1>13. ASSUME NEW r \in Reconcilers, OnVIPReconcilerStopped(r) PROVE Owned'
    BY <1>13, StoppedOwned
<1>14. ASSUME NEW r \in Reconcilers, StartRecreated(r) PROVE Owned'
    BY <1>14, NoneReconciler, SMTT(60) DEF StartRecreated, Typed, TypeOK, Owned,
       HandedOver, Live, managerVars, loopVars, MaybeReconciler
<1>15. ASSUME NEW r \in Reconcilers, UpdateRecreated(r) PROVE Owned'
    BY <1>15, NoneReconciler, SMTT(60) DEF UpdateRecreated, Update, Typed, TypeOK,
       Owned, HandedOver, Live, managerVars, loopVars, MaybeReconciler
<1>16. ASSUME Cancel PROVE Owned'
    BY <1>16, NoneReconciler DEF Cancel, Typed, TypeOK, Owned, HandedOver,
       Live, managerVars, loopVars, MaybeReconciler
<1>17. ASSUME Stop PROVE Owned'
    BY <1>17, NoneReconciler DEF Stop, Typed, TypeOK, Owned, HandedOver,
       Live, managerVars, loopVars, MaybeReconciler
<1>. QED
    BY ONLY Next, <1>1, <1>2, <1>3, <1>4, <1>5, <1>6, <1>7, <1>8, <1>9,
       <1>10, <1>11, <1>12, <1>13, <1>14, <1>15, <1>16, <1>17
    DEF Next, Loop, Handover

(* A hand-over goes on belonging to one reconciler of the maps.            *)
LEMMA HandedOverKept ==
    ASSUME Typed, Owned, HandedOver, ~stopped, ~stopped', Next
    PROVE  HandedOver'
<1>1. ASSUME OnVIPUpdate PROVE HandedOver'
    BY <1>1, NoneReconciler, SMTT(60) DEF OnVIPUpdate, NextVersion, Queued,
       NewReconciler, Typed, TypeOK, Owned, HandedOver, Live, managerVars,
       loopVars, MaybeReconciler, NoHandover
<1>2. ASSUME FinishUpdate PROVE HandedOver'
    BY <1>2, NoneReconciler, SMTT(60) DEF FinishUpdate, Update, Typed, TypeOK, Owned,
       HandedOver, Live, managerVars, loopVars, MaybeReconciler, NoHandover
<1>3. ASSUME OnVIPDelete PROVE HandedOver'
    BY <1>3, NoneReconciler, SMTT(60) DEF OnVIPDelete, Managed, DropPending, Typed,
       TypeOK, Owned, HandedOver, Live, managerVars, loopVars,
       MaybeReconciler, NoHandover
<1>4. ASSUME MarkDeleted PROVE HandedOver'
    BY <1>4, NoneReconciler, SMTT(60) DEF MarkDeleted, Typed, TypeOK, Owned,
       HandedOver, Live, managerVars, loopVars, MaybeReconciler, NoHandover
<1>5. ASSUME OnHealthChange PROVE HandedOver'
    BY <1>5, NoneReconciler, SMTT(60) DEF OnHealthChange, Typed, TypeOK, Owned,
       HandedOver, Live, managerVars, loopVars, MaybeReconciler, NoHandover
<1>6. ASSUME NEW r \in Reconcilers, NEW byToken \in BOOLEAN, StartReconcile(r, byToken)
      PROVE  HandedOver'
    BY <1>6, NoneReconciler, SMTT(60) DEF StartReconcile, AtSelect, Typed, TypeOK,
       Owned, HandedOver, Live, managerVars, loopVars, MaybeReconciler,
       NoHandover
<1>7. ASSUME NEW r \in Reconcilers, NEW outcome \in Outcomes, FinishReconcile(r, outcome)
      PROVE  HandedOver'
    BY <1>7, NoneReconciler, SMTT(60) DEF FinishReconcile, Outcomes, Typed, TypeOK,
       Owned, HandedOver, Live, managerVars, loopVars, MaybeReconciler,
       NoHandover
<1>8. ASSUME NEW r \in Reconcilers, StartDelete(r) PROVE HandedOver'
    BY <1>8, NoneReconciler, SMTT(60) DEF StartDelete, AtSelect, Typed, TypeOK, Owned,
       HandedOver, Live, managerVars, loopVars, MaybeReconciler, NoHandover
<1>9. ASSUME NEW r \in Reconcilers, RetryDelete(r) PROVE HandedOver'
    BY <1>9, NoneReconciler, SMTT(60) DEF RetryDelete, AtSelect, Typed, TypeOK, Owned,
       HandedOver, Live, managerVars, loopVars, MaybeReconciler, NoHandover
<1>10. ASSUME NEW r \in Reconcilers, DeleteSucceeds(r) PROVE HandedOver'
    BY <1>10, NoneReconciler, SMTT(60) DEF DeleteSucceeds, Typed, TypeOK, Owned,
       HandedOver, Live, managerVars, loopVars, MaybeReconciler, NoHandover
<1>11. ASSUME NEW r \in Reconcilers, DeleteFails(r) PROVE HandedOver'
    BY <1>11, NoneReconciler, SMTT(60) DEF DeleteFails, Typed, TypeOK, Owned,
       HandedOver, Live, managerVars, loopVars, MaybeReconciler, NoHandover
<1>12. ASSUME NEW r \in Reconcilers, ExitOnCancel(r) PROVE HandedOver'
    BY <1>12, NoneReconciler, SMTT(60) DEF ExitOnCancel, AtSelect, Typed, TypeOK,
       Owned, HandedOver, Live, managerVars, loopVars, MaybeReconciler,
       NoHandover
<1>13. ASSUME NEW r \in Reconcilers, OnVIPReconcilerStopped(r) PROVE HandedOver'
    BY <1>13, StoppedOwned
<1>14. ASSUME NEW r \in Reconcilers, StartRecreated(r) PROVE HandedOver'
    BY <1>14, NoneReconciler, SMTT(60) DEF StartRecreated, Typed, TypeOK, Owned,
       HandedOver, Live, managerVars, loopVars, MaybeReconciler, NoHandover
<1>15. ASSUME NEW r \in Reconcilers, UpdateRecreated(r) PROVE HandedOver'
    BY <1>15, NoneReconciler, SMTT(60) DEF UpdateRecreated, Update, Typed, TypeOK,
       Owned, HandedOver, Live, managerVars, loopVars, MaybeReconciler,
       NoHandover
<1>16. ASSUME Cancel PROVE HandedOver'
    BY <1>16, NoneReconciler, SMTT(60) DEF Cancel, Typed, TypeOK, Owned, HandedOver,
       Live, managerVars, loopVars, MaybeReconciler, NoHandover
<1>17. ASSUME Stop PROVE HandedOver'
    BY <1>17, NoneReconciler DEF Stop, Typed, TypeOK, Owned, HandedOver,
       Live, managerVars, loopVars, MaybeReconciler, NoHandover
<1>. QED
    BY ONLY Next, <1>1, <1>2, <1>3, <1>4, <1>5, <1>6, <1>7, <1>8, <1>9,
       <1>10, <1>11, <1>12, <1>13, <1>14, <1>15, <1>16, <1>17
    DEF Next, Loop, Handover

(* OnVIPDelete tells only the reconciler it moves to deleting.             *)
LEMMA OnVIPDeleteTold ==
    ASSUME Typed, Owned, Told, OnVIPDelete
    PROVE  Told'
<1>1. UNCHANGED <<goroutine, eventCh, deleteVIP>> /\ handler = Idle
    BY DEF OnVIPDelete, loopVars
<1>2. CASE Managed
    <2>1. /\ vips \in Reconcilers /\ deleting = None /\ deleting' = vips
          /\ handler'.step = "delete" /\ handler'.reconciler = vips
        BY <1>2, SMTT(60) DEF OnVIPDelete, Managed, Owned, Typed, TypeOK, MaybeReconciler
    <2>2. goroutine[vips] \in Live
        BY <2>1 DEF Owned
    <2>. QED
        BY <1>1, <2>1, <2>2, NoneReconciler DEF Told, Live
<1>3. CASE ~Managed
    BY <1>1, <1>3 DEF OnVIPDelete, Told
<1>. QED
    BY <1>2, <1>3

(* No other step tells a reconciler to remove its VIP.                     *)
LEMMA ToldKept ==
    ASSUME Typed, Owned, HandedOver, Told, ~stopped, ~stopped', Next
    PROVE  Told'
<1>1. ASSUME OnVIPUpdate PROVE Told'
    BY <1>1, NoneReconciler, SMTT(60) DEF OnVIPUpdate, NextVersion, Queued,
       NewReconciler, Typed, TypeOK, Owned, HandedOver, Live, managerVars,
       loopVars, MaybeReconciler, Told, Idle
<1>2. ASSUME FinishUpdate PROVE Told'
    BY <1>2, NoneReconciler DEF FinishUpdate, Update, Typed, TypeOK, Owned,
       HandedOver, Live, managerVars, loopVars, MaybeReconciler, Told, Idle
<1>3. ASSUME OnVIPDelete PROVE Told'
    BY <1>3, OnVIPDeleteTold
<1>4. ASSUME MarkDeleted PROVE Told'
    BY <1>4, NoneReconciler, SMTT(60) DEF MarkDeleted, Typed, TypeOK, Owned,
       HandedOver, Live, managerVars, loopVars, MaybeReconciler, Told, Idle
<1>5. ASSUME OnHealthChange PROVE Told'
    BY <1>5, NoneReconciler DEF OnHealthChange, Typed, TypeOK, Owned,
       HandedOver, Live, managerVars, loopVars, MaybeReconciler, Told, Idle
<1>6. ASSUME NEW r \in Reconcilers, NEW byToken \in BOOLEAN, StartReconcile(r, byToken)
      PROVE  Told'
    BY <1>6, NoneReconciler DEF StartReconcile, AtSelect, Typed, TypeOK,
       Owned, HandedOver, Live, managerVars, loopVars, MaybeReconciler,
       Told, Idle
<1>7. ASSUME NEW r \in Reconcilers, NEW outcome \in Outcomes, FinishReconcile(r, outcome)
      PROVE  Told'
    BY <1>7, NoneReconciler, SMTT(60) DEF FinishReconcile, Outcomes, Typed, TypeOK,
       Owned, HandedOver, Live, managerVars, loopVars, MaybeReconciler,
       Told, Idle
<1>8. ASSUME NEW r \in Reconcilers, StartDelete(r) PROVE Told'
    BY <1>8, NoneReconciler, SMTT(60) DEF StartDelete, AtSelect, Typed, TypeOK, Owned,
       HandedOver, Live, managerVars, loopVars, MaybeReconciler, Told, Idle
<1>9. ASSUME NEW r \in Reconcilers, RetryDelete(r) PROVE Told'
    BY <1>9, NoneReconciler, SMTT(60) DEF RetryDelete, AtSelect, Typed, TypeOK, Owned,
       HandedOver, Live, managerVars, loopVars, MaybeReconciler, Told, Idle
<1>10. ASSUME NEW r \in Reconcilers, DeleteSucceeds(r) PROVE Told'
    BY <1>10, NoneReconciler, SMTT(60) DEF DeleteSucceeds, Typed, TypeOK, Owned,
       HandedOver, Live, managerVars, loopVars, MaybeReconciler, Told, Idle
<1>11. ASSUME NEW r \in Reconcilers, DeleteFails(r) PROVE Told'
    BY <1>11, NoneReconciler DEF DeleteFails, Typed, TypeOK, Owned,
       HandedOver, Live, managerVars, loopVars, MaybeReconciler, Told, Idle
<1>12. ASSUME NEW r \in Reconcilers, ExitOnCancel(r) PROVE Told'
    BY <1>12, NoneReconciler, SMTT(60) DEF ExitOnCancel, AtSelect, Typed, TypeOK,
       Owned, HandedOver, Live, managerVars, loopVars, MaybeReconciler,
       Told, Idle
<1>13. ASSUME NEW r \in Reconcilers, OnVIPReconcilerStopped(r) PROVE Told'
    BY <1>13, NoneReconciler, SMTT(60) DEF OnVIPReconcilerStopped, ReleaseDeleting,
       ReleaseOther, NewReconciler, Typed, TypeOK, Owned, HandedOver, Live,
       managerVars, loopVars, MaybeReconciler, Told, Idle
<1>14. ASSUME NEW r \in Reconcilers, StartRecreated(r) PROVE Told'
    BY <1>14, NoneReconciler, SMTT(60) DEF StartRecreated, Typed, TypeOK, Owned,
       HandedOver, Live, managerVars, loopVars, MaybeReconciler, Told, Idle
<1>15. ASSUME NEW r \in Reconcilers, UpdateRecreated(r) PROVE Told'
    BY <1>15, NoneReconciler, SMTT(60) DEF UpdateRecreated, Update, Typed, TypeOK,
       Owned, HandedOver, Live, managerVars, loopVars, MaybeReconciler,
       Told, Idle
<1>16. ASSUME Cancel PROVE Told'
    BY <1>16, NoneReconciler DEF Cancel, Typed, TypeOK, Owned, HandedOver,
       Live, managerVars, loopVars, MaybeReconciler, Told, Idle
<1>17. ASSUME Stop PROVE Told'
    BY <1>17, NoneReconciler DEF Stop, Typed, TypeOK, Owned, HandedOver,
       Live, managerVars, loopVars, MaybeReconciler, Told, Idle
<1>. QED
    BY ONLY Next, <1>1, <1>2, <1>3, <1>4, <1>5, <1>6, <1>7, <1>8, <1>9,
       <1>10, <1>11, <1>12, <1>13, <1>14, <1>15, <1>16, <1>17
    DEF Next, Loop, Handover

-----------------------------------------------------------------------------

(* Nothing newer than an object appears unless an update brings it.        *)
LEMMA NoneNewerStill ==
    ASSUME Typed, NEW u \in Nat, NEW w \in Nat, u <= w, NoneNewer(u)
    PROVE  NoneNewer(w)
<1>1. /\ \A o \in MaybeObject : o # None => o.uid \in Nat
      /\ {applied, handler.vip} \subseteq MaybeObject
      /\ \A r \in Reconcilers : {current[r], working[r], eventCh[r], deleteVIP[r],
                                 recreated[r].vip} \subseteq MaybeObject
    BY SMTT(60) DEF Typed, TypeOK, MaybeObject, Objects
<1>. QED
    BY <1>1, SMTT(60) DEF NoneNewer

(* OnVIPUpdate keeps the order: what it stores is the newest object.       *)
LEMMA OnVIPUpdateOrdered ==
    ASSUME Typed, Ordered, OnVIPUpdate
    PROVE  Ordered'
<1>0. /\ version \in Nat /\ (object # None => object.uid \in Nat)
      /\ NextVersion \in Objects /\ NextVersion # None
      /\ NextVersion.uid = IF object = None THEN version + 1 ELSE object.uid
    BY NextVersionTyped, SMTT(60) DEF OnVIPUpdate, Typed, TypeOK, MaybeObject, Objects
<1>1. PICK u \in Nat : u = NextVersion.uid /\ u <= version + 1
    <2>1. CASE object = None
        BY <1>0, <2>1, SMTT(60)
    <2>2. CASE object # None
        BY <1>0, <2>2, SMTT(60) DEF Ordered
    <2>. QED
        BY <2>1, <2>2
<1>2. /\ version' = version + 1 /\ object' = NextVersion /\ handler = Idle
      /\ UNCHANGED <<deleting, current, eventCh, deleteVIP, working, recreated, applied>>
      /\ pendingRecreates' \in {pendingRecreates, NextVersion}
      /\ handler'.step # "delete" /\ handler'.vip \in {None, NextVersion}
      /\ deleting # None => handler'.vip = None
    BY SMTT(60) DEF OnVIPUpdate, loopVars, Idle, Queued
<1>3. \A w \in Nat : NoneNewer(w) /\ u <= w => NoneNewer(w)'
    BY <1>1, <1>2, SMTT(60) DEF NoneNewer
<1>4. NoneNewer(u)
    <2>1. CASE object = None
        BY <1>0, <1>1, <2>1, NoneNewerStill, SMTT(60) DEF Ordered
    <2>2. CASE object # None
        BY <1>0, <1>1, <2>2 DEF Ordered
    <2>. QED
        BY <2>1, <2>2
<1>5. NoneNewer(u)' /\ NoneNewer(version)'
    <2>1. NoneNewer(version + 1)
        BY <1>0, <1>1, <1>4, NoneNewerStill, SMTT(60)
    <2>2. PICK w \in Nat : w = version + 1
        BY <1>0, SMTT(60)
    <2>3. NoneNewer(w)'
        BY <1>1, <1>3, <2>1, <2>2
    <2>. QED
        BY <1>1, <1>2, <1>3, <1>4, <2>2, <2>3, SMTT(60)
<1>6. \A w : NoneNewer(w) /\ deleting # None => NoneNewer(w)'
    BY <1>2 DEF NoneNewer
<1>7. pendingRecreates' # None => deleting # None /\ pendingRecreates'.uid = u
    <2>1. pendingRecreates' # None => deleting # None
        BY DEF OnVIPUpdate, Queued, Ordered
    <2>. QED
        BY <1>0, <1>1, <1>2, <2>1 DEF Ordered
<1>. QED
    BY <1>0, <1>1, <1>2, <1>5, <1>6, <1>7, NoneReconciler DEF Ordered

(* OnVIPDelete keeps it: a stale delete leaves the newer object alone.     *)
LEMMA OnVIPDeleteOrdered ==
    ASSUME Typed, Owned, Told, Ordered, OnVIPDelete
    PROVE  Ordered'
<1>1. /\ UNCHANGED <<version, current, eventCh, deleteVIP, working, recreated, applied>>
      /\ object # None /\ object' = None /\ handler = Idle
    BY DEF OnVIPDelete, loopVars
<1>2. CASE Managed
    <2>1. /\ vips \in Reconcilers /\ deleting = None /\ deleting' = vips
          /\ handler' = [step |-> "delete", reconciler |-> vips, vip |-> object]
          /\ pendingRecreates' = pendingRecreates
        BY <1>2 DEF OnVIPDelete, Managed, Owned, Typed, TypeOK, MaybeReconciler
    <2>2. eventCh[vips] = None /\ deleteVIP[vips] = None
        BY <2>1, NoneReconciler DEF Owned, Told
    <2>3. pendingRecreates = None
        BY <2>1 DEF Ordered
    <2>4. PICK u : u = object.uid
        OBVIOUS
    <2>5. \A w : NoneNewer(w) /\ u <= w => NoneNewer(w)'
        BY <1>1, <2>1, <2>4 DEF NoneNewer
    <2>6. NoneNewer(u)' /\ NoneNewer(version)'
        <3>1. u \in Nat /\ u <= version /\ NoneNewer(u) /\ NoneNewer(version)
            BY <1>1, <2>4, SMTT(60) DEF Ordered, Typed, TypeOK, MaybeObject, Objects
        <3>2. PICK w : w = version
            OBVIOUS
        <3>. QED
            BY <1>1, <2>5, <3>1, <3>2, SMTT(60)
    <2>. QED
        BY <1>1, <2>1, <2>2, <2>3, <2>4, <2>6 DEF Ordered
<1>3. CASE ~Managed
    BY <1>1, <1>3, SMTT(60) DEF OnVIPDelete, DropPending, Ordered, NoneNewer
<1>. QED
    BY <1>2, <1>3

(* OnVIPReconcilerStopped keeps it: the pending object is the newest.      *)
LEMMA StoppedOrdered ==
    ASSUME Typed, Ordered, NEW r \in Reconcilers, OnVIPReconcilerStopped(r)
    PROVE  Ordered'
<1>1. UNCHANGED <<object, version, handler, current, eventCh, deleteVIP, working, applied>>
    BY DEF OnVIPReconcilerStopped
<1>2. CASE ReleaseDeleting(r)
    <2>1. deleting' = None /\ pendingRecreates' = None
        BY <1>2 DEF ReleaseDeleting
    <2>2. \A q \in Reconcilers : recreated'[q].vip \in {recreated[q].vip, pendingRecreates}
        BY <1>2, SMTT(60) DEF ReleaseDeleting, Typed, TypeOK
    <2>3. \A w : NoneNewer(w) /\ (pendingRecreates # None => pendingRecreates.uid <= w)
                    => NoneNewer(w)'
        BY <1>1, <2>2, SMTT(60) DEF NoneNewer
    <2>4. NoneNewer(version)
        BY DEF Ordered
    <2>5. pendingRecreates # None => /\ pendingRecreates.uid <= version
                                     /\ pendingRecreates.uid <= object.uid
        BY SMTT(60) DEF Ordered, Typed, TypeOK, MaybeObject, Objects
    <2>6. NoneNewer(version)' /\ (object # None => NoneNewer(object.uid)')
        <3>1. PICK v, u : v = version /\ u = object.uid
            OBVIOUS
        <3>. QED
            BY <1>1, <2>3, <2>5, <3>1 DEF Ordered
    <2>. QED
        BY <1>1, <2>1, <2>6, NoneReconciler DEF Ordered
<1>3. CASE ReleaseOther(r)
    <2>1. UNCHANGED <<deleting, pendingRecreates, recreated>>
        BY <1>3 DEF ReleaseOther
    <2>2. \A w : NoneNewer(w) => NoneNewer(w)'
        BY <1>1, <2>1 DEF NoneNewer
    <2>. QED
        BY <1>1, <2>1, <2>2 DEF Ordered
<1>. QED
    BY <1>2, <1>3 DEF OnVIPReconcilerStopped

(* Handing over the pending object keeps it.                               *)
LEMMA UpdateRecreatedOrdered ==
    ASSUME Typed, Ordered, NEW r \in Reconcilers, UpdateRecreated(r)
    PROVE  Ordered'
<1>1. /\ UNCHANGED <<object, version, handler, deleting, pendingRecreates, eventCh,
                  deleteVIP, working, applied>>
      /\ recreated[r].step # "none"
    BY DEF UpdateRecreated, managerVars
<1>2. \A q \in Reconcilers : current'[q] \in {current[q], recreated[r].vip}
    BY DEF UpdateRecreated, Update, Typed, TypeOK
<1>3. \A q \in Reconcilers : recreated'[q] = recreated[q] \/ recreated'[q].vip = None
    BY DEF UpdateRecreated, NoHandover, Typed, TypeOK
<1>4. \A u : NoneNewer(u) => NoneNewer(u)'
    BY <1>1, <1>2, <1>3, SMTT(60) DEF NoneNewer
<1>. QED
    BY <1>1, <1>4 DEF Ordered

(* The order survives a step of a loop, which only passes on to the next   *)
(* place an object that it has.                                            *)
LEMMA LoopOrdered ==
    ASSUME Typed, Ordered,
           UNCHANGED <<object, version, handler, managerVars, current, recreated>>,
           applied' \in {None, applied} \cup {working[r] : r \in Reconcilers},
           \A r \in Reconcilers :
              /\ working'[r] \in {None, working[r], current[r], eventCh[r], deleteVIP[r]}
              /\ eventCh'[r] \in {None, eventCh[r]}
              /\ deleteVIP'[r] \in {None, deleteVIP[r], eventCh[r]}
    PROVE  Ordered'
<1>1. UNCHANGED <<object, version, handler, deleting, pendingRecreates, current, recreated>>
    BY DEF managerVars
<1>2. ASSUME NEW u, NoneNewer(u) PROVE NoneNewer(u)'
    <2>1. applied' # None => applied'.uid <= u
        BY <1>2 DEF NoneNewer
    <2>2. ASSUME NEW r \in Reconcilers
          PROVE  /\ working'[r] # None => working'[r].uid <= u
                 /\ eventCh'[r] # None => eventCh'[r].uid <= u
                 /\ deleteVIP'[r] # None => deleteVIP'[r].uid <= u
        BY <1>2 DEF NoneNewer
    <2>. QED
        BY <1>1, <1>2, <2>1, <2>2 DEF NoneNewer
<1>3. ASSUME NEW r \in Reconcilers, deleting = r
      PROVE  /\ eventCh'[r] # None => NoneNewer(eventCh'[r].uid)
             /\ deleteVIP'[r] # None => NoneNewer(deleteVIP'[r].uid)
    BY <1>3 DEF Ordered
<1>. QED
    BY <1>1, <1>2, <1>3 DEF Ordered

(* Every step keeps the order of the objects the Manager knows.            *)
LEMMA OrderedKept ==
    ASSUME Typed, Owned, HandedOver, Told, Ordered, ~stopped, ~stopped', Next
    PROVE  Ordered'
<1>1. ASSUME OnVIPUpdate PROVE Ordered'
    BY <1>1, OnVIPUpdateOrdered
<1>2. ASSUME FinishUpdate PROVE Ordered'
    <2>1. /\ UNCHANGED <<object, version, deleting, pendingRecreates, eventCh, deleteVIP>>
          /\ UNCHANGED <<working, recreated, applied>>
          /\ handler'.step = "idle" /\ handler'.vip = None
        BY <1>2 DEF FinishUpdate, managerVars, Idle
    <2>2. \A q \in Reconcilers : current'[q] \in {current[q], handler.vip}
        BY <1>2 DEF FinishUpdate, Update, Typed, TypeOK
    <2>3. \A u : NoneNewer(u) => NoneNewer(u)'
        BY <2>1, <2>2 DEF NoneNewer
    <2>. QED
        BY <2>1, <2>3 DEF Ordered
<1>3. ASSUME OnVIPDelete PROVE Ordered'
    BY <1>3, OnVIPDeleteOrdered
<1>4. ASSUME MarkDeleted PROVE Ordered'
    <2> DEFINE s == handler.reconciler
    <2>1. /\ handler.step = "delete" /\ handler # Idle /\ handler.vip # None
          /\ eventCh' = [eventCh EXCEPT ![s] = handler.vip]
          /\ handler'.step = "idle" /\ handler'.vip = None
          /\ UNCHANGED <<object, version, deleting, pendingRecreates, applied>>
          /\ UNCHANGED <<current, deleteVIP, working, recreated>>
        BY <1>4, SMTT(60) DEF MarkDeleted, Typed, TypeOK, Idle, managerVars
    <2>2. \A q \in Reconcilers : eventCh'[q] = eventCh[q] \/ (q = s /\ eventCh'[q] = handler.vip)
        BY <2>1 DEF Typed, TypeOK
    <2>3. \A u : NoneNewer(u) => NoneNewer(u)'
        BY <2>1, <2>2 DEF NoneNewer
    <2>4. ASSUME NEW q \in Reconcilers, deleting = q, eventCh'[q] # None
          PROVE  NoneNewer(eventCh'[q].uid)
        BY <2>1, <2>2, <2>4 DEF Ordered
    <2>. QED
        BY <2>1, <2>3, <2>4 DEF Ordered
<1>5. ASSUME OnHealthChange PROVE Ordered'
    BY <1>5, LoopOrdered DEF OnHealthChange
<1>6. ASSUME NEW r \in Reconcilers, NEW byToken \in BOOLEAN, StartReconcile(r, byToken)
      PROVE  Ordered'
    BY <1>6, LoopOrdered DEF StartReconcile, Typed, TypeOK
<1>7. ASSUME NEW r \in Reconcilers, NEW outcome \in Outcomes, FinishReconcile(r, outcome)
      PROVE  Ordered'
    BY <1>7, LoopOrdered DEF FinishReconcile, Outcomes, Typed, TypeOK
<1>8. ASSUME NEW r \in Reconcilers, StartDelete(r) PROVE Ordered'
    BY <1>8, LoopOrdered DEF StartDelete, Typed, TypeOK
<1>9. ASSUME NEW r \in Reconcilers, RetryDelete(r) PROVE Ordered'
    BY <1>9, LoopOrdered DEF RetryDelete, Typed, TypeOK
<1>10. ASSUME NEW r \in Reconcilers, DeleteSucceeds(r) PROVE Ordered'
    BY <1>10, LoopOrdered DEF DeleteSucceeds, Typed, TypeOK
<1>11. ASSUME NEW r \in Reconcilers, DeleteFails(r) PROVE Ordered'
    BY <1>11, LoopOrdered DEF DeleteFails, Typed, TypeOK
<1>12. ASSUME NEW r \in Reconcilers, ExitOnCancel(r) PROVE Ordered'
    BY <1>12, LoopOrdered DEF ExitOnCancel, loopVars
<1>13. ASSUME NEW r \in Reconcilers, OnVIPReconcilerStopped(r) PROVE Ordered'
    BY <1>13, StoppedOrdered
<1>14. ASSUME NEW r \in Reconcilers, StartRecreated(r) PROVE Ordered'
    <2>1. /\ UNCHANGED <<object, version, handler, deleting, pendingRecreates>>
          /\ UNCHANGED <<current, eventCh, deleteVIP, working, applied>>
        BY <1>14 DEF StartRecreated, managerVars, loopVars
    <2>2. \A q \in Reconcilers : recreated'[q].vip = recreated[q].vip
        BY <1>14 DEF StartRecreated, Typed, TypeOK
    <2>3. \A u : NoneNewer(u) => NoneNewer(u)'
        BY <2>1, <2>2 DEF NoneNewer
    <2>. QED
        BY <2>1, <2>3 DEF Ordered
<1>15. ASSUME NEW r \in Reconcilers, UpdateRecreated(r) PROVE Ordered'
    BY <1>15, UpdateRecreatedOrdered
<1>16. ASSUME Cancel PROVE Ordered'
    <2>1. /\ UNCHANGED <<object, version, handler, deleting, pendingRecreates>>
          /\ UNCHANGED <<current, eventCh, deleteVIP, working, recreated, applied>>
        BY <1>16 DEF Cancel, managerVars, loopVars
    <2>2. \A u : NoneNewer(u) => NoneNewer(u)'
        BY <2>1 DEF NoneNewer
    <2>. QED
        BY <2>1, <2>2 DEF Ordered
<1>17. ASSUME Stop PROVE Ordered'
    BY <1>17 DEF Stop, Typed, TypeOK, Ordered, NoneNewer, managerVars,
       loopVars
<1>. QED
    BY ONLY Next, <1>1, <1>2, <1>3, <1>4, <1>5, <1>6, <1>7, <1>8, <1>9,
       <1>10, <1>11, <1>12, <1>13, <1>14, <1>15, <1>16, <1>17
    DEF Next, Loop, Handover

-----------------------------------------------------------------------------

(* Stop is final, and every step keeps the invariant.                      *)
LEMMA ManagerInvKept ==
    ASSUME ManagerInv, [Next]_vars
    PROVE  ManagerInv'
<1>1. CASE Next
    <2>1. stopped => stopped'
        BY <1>1
        DEF Next, Loop, Handover, OnVIPUpdate, FinishUpdate, OnVIPDelete, MarkDeleted,
            OnHealthChange, StartReconcile, FinishReconcile, StartDelete, RetryDelete,
            DeleteSucceeds, DeleteFails, ExitOnCancel, OnVIPReconcilerStopped,
            StartRecreated, UpdateRecreated, Cancel, Stop
    <2>. QED
        BY <1>1, <2>1, TypedKept, OwnedKept, HandedOverKept, ToldKept, OrderedKept
        DEF ManagerInv
<1>2. CASE UNCHANGED vars
    <2>1. UNCHANGED <<object, version, handler, vips, deleting, pendingRecreates, goroutine,
                      current, reconcileCh, eventCh, deleteVIP, working, recreated,
                      applied, cancelled, stopped>>
        BY <1>2 DEF vars, managerVars, loopVars
    <2>2. Typed'
        BY <2>1 DEF ManagerInv, Typed, TypeOK
    <2>3. Owned => Owned'
        BY <2>1 DEF Owned
    <2>4. HandedOver => HandedOver'
        BY <2>1, SMTT(60) DEF HandedOver
    <2>5. Told => Told'
        BY <2>1 DEF Told
    <2>6. Ordered => Ordered'
        BY <2>1, SMTT(60) DEF Ordered, NoneNewer
    <2>. QED
        BY <2>1, <2>2, <2>3, <2>4, <2>5, <2>6 DEF ManagerInv
<1>. QED
    BY <1>1, <1>2

(* The invariant holds before the first event.                             *)
LEMMA ManagerInvInitially ==
    ASSUME Init
    PROVE  ManagerInv
<1>1. Typed
    <2>1. 0 \in 0..MaxVersion
        BY MaxVersionAssumption, SMTT(60)
    <2>. QED
        BY <2>1 DEF Init, Typed, TypeOK, Idle, NoHandover, MaybeObject, MaybeReconciler
<1>2. Owned /\ HandedOver /\ Told
    BY NoneReconciler DEF Init, Owned, HandedOver, Told, Idle, NoHandover, Live
<1>3. Ordered
    BY NoneReconciler DEF Init, Ordered, NoneNewer, Idle, NoHandover
<1>. QED
    BY <1>1, <1>2, <1>3 DEF ManagerInv

(* The inductive invariant of the Manager.                                 *)
LEMMA ManagerInvHolds == Spec => []ManagerInv
BY ManagerInvInitially, ManagerInvKept, PTL DEF Spec

(* The Manager's maps, the reconcilers' channels and the handover hold     *)
(* what they are meant to, and an event in the handler always has its      *)
(* reconciler and its object.                                              *)
THEOREM ManagerTypes == Spec => []TypeOK
<1>1. ManagerInv => TypeOK
    BY DEF ManagerInv, Typed
<1>. QED
    BY <1>1, ManagerInvHolds, PTL

(* Until Manager.Stop has run, a key never has two goroutines that         *)
(* reconcile or delete, however often its object is deleted and recreated. *)
THEOREM OneWorkerHolds == Spec => []OneWorker
<1>1. ManagerInv => OneWorker
    BY NoneReconciler DEF ManagerInv, Owned, OneWorker, Live
<1>. QED
    BY <1>1, ManagerInvHolds, PTL

(* The clean-up of a deleted object never removes a later object of the    *)
(* same name: what the comment of OnVIPDelete promises.                    *)
THEOREM StaleDeleteIsHarmless == Spec => StaleDeleteHarmless
<1>1. ManagerInv => \A r \in Reconcilers :
          ~stopped /\ DeleteSucceeds(r) /\ applied # None => applied.uid <= deleteVIP[r].uid
    <2>. SUFFICES ASSUME ManagerInv, NEW r \in Reconcilers, ~stopped, DeleteSucceeds(r),
                         applied # None
                  PROVE  applied.uid <= deleteVIP[r].uid
        OBVIOUS
    <2>1. deleting = r /\ deleteVIP[r] # None
        BY DEF DeleteSucceeds, ManagerInv, Told, Live
    <2>. QED
        BY <2>1 DEF ManagerInv, Ordered, NoneNewer
<1>. QED
    BY <1>1, ManagerInvHolds, ManagerInvKept, PTL DEF Spec, StaleDeleteHarmless
=============================================================================
