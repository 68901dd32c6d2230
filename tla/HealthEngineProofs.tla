-------------------------- MODULE HealthEngineProofs --------------------------
(***************************************************************************)
(* The invariants of HealthEngine, for every set of backends, specs and    *)
(* workers and every bound.                                                *)
(***************************************************************************)
EXTENDS HealthEngine, TLAPS

\* A leaf that names no prover is for Zenon.
USE ZenonT(60)

Job == [epoch : Epochs, backend : Backends]
Result == [epoch : Epochs, backend : Backends, outcome : Outcomes]

(* TypeOK in three parts, each with what keeps it inductive.               *)

\* The epochs do not run out: an update uses at most one, and so does the first list
\* after a restart, when none is used.
EngineTyped ==
    /\ updates \in 0..MaxUpdates
    /\ nextEpoch \in 0..(updates + 1)
    /\ handler \in [step : {"idle", "update", "delete", "sync"}, spec : Specs \cup {None}]
    /\ handler.step = "sync" => nextEpoch = 0
    /\ handler.step \in {"update", "sync"} => handler.spec \in Specs
    /\ vips # None =>
          /\ vips = [epoch |-> vips.epoch, spec |-> vips.spec, health |-> vips.health]
          /\ vips.epoch \in Epochs
          /\ vips.spec \in Specs
          /\ vips.health \in [vips.spec.backends -> Record]
    /\ schedulers \in [Epochs -> [live : BOOLEAN, all : SUBSET Backends,
                                  left : SUBSET Backends]]

PipelineTyped ==
    /\ jobCh \in Seq(Job)
    /\ Len(jobCh) <= QueueSize
    /\ resultCh \in Seq(Result)
    /\ Len(resultCh) <= QueueSize
    /\ worker \in [Workers -> [step : {"idle", "slot", "probe", "result"},
                               epoch : Epochs \cup {0},
                               backend : Backends \cup {None}, outcome : Outcomes]]
    /\ \A w \in Workers :
          worker[w].step # "idle" => worker[w].epoch \in Epochs /\ worker[w].backend \in Backends
    /\ saving \in [step : {"none", "save", "callback"},
                   backend : Backends \cup {None}, record : Record,
                   changed : BOOLEAN]

AgentTyped ==
    /\ object \in Specs \cup {None}
    /\ store \in [Backends -> Record \cup {None}]
    /\ phase \in {"running", "cancelled", "stopping", "jobs closed",
                  "results closed", "stopped"}
    /\ current \in Specs \cup {None}
    /\ pending \in Specs \cup {None}
    /\ cleaning \in BOOLEAN
    /\ token \in BOOLEAN
    /\ pass \in [step : {"idle", "health", "apply"}, spec : Specs \cup {None},
                 healthy : SUBSET Backends]
    /\ pass.step # "idle" => pass.spec \in Specs
    /\ used \in SUBSET Backends

Typed == EngineTyped /\ PipelineTyped /\ AgentTyped

(* What WakeUpPending needs: whatever the pass has read or used, a         *)
(* difference from the present health is signalled.                        *)
Signal == token \/ saving.changed \/ handler # IdleHandler

Woken ==
    /\ cleaning => current = None
    /\ phase = "running" /\ current # None =>
          /\ pass.step = "idle" /\ used # Healthy(current) => Signal
          /\ pass.step = "health" /\ pass.spec # current => Signal
          /\ pass.step = "apply" /\ pass.healthy # Healthy(current) => Signal

(* What NoSendOnClosed needs: a scheduler that has ended has nothing left. *)
Ended == \A e \in Epochs : schedulers[e].left # {} => schedulers[e].live

EngineInv == Typed /\ Woken /\ Ended /\ NoSendOnClosed

-----------------------------------------------------------------------------

(* What a spec is made of.                                                 *)
LEMMA SpecFields ==
    ASSUME NEW spec \in Specs
    PROVE  /\ spec.backends \subseteq Backends
           /\ spec.rise \in 1..MaxCount
           /\ spec.fall \in 1..MaxCount
           /\ spec # None
BY SpecsAssumption, NoneAssumption

(* A counted outcome is a record: counters stop at MaxCount.               *)
LEMMA CountIsRecord ==
    ASSUME NEW r \in Record, NEW outcome \in Outcomes, NEW spec \in Specs
    PROVE  Count(r, outcome, spec) \in Record
<1>1. MaxCount \in Nat
    BY SpecsAssumption
<1>2. Bounded(r.up) \in 0..MaxCount /\ Bounded(r.down) \in 0..MaxCount
    BY <1>1, SMTT(60) DEF Bounded, Record
<1>. QED
    BY <1>1, <1>2, SMTT(60) DEF Count, Record

(* The state that Register gives a new target is a record.                 *)
LEMMA FreshIsRecord == Fresh \in Record
BY SpecsAssumption, SMTT(60) DEF Fresh, Record

(* A configuration keeps or restores records.                              *)
LEMMA StartingHealthIsRecord ==
    ASSUME Typed, NEW b \in Backends
    PROVE  StartingHealth(b) \in Record
BY FreshIsRecord DEF Typed, EngineTyped, AgentTyped, StartingHealth

(* A new epoch is within bounds.                                           *)
LEMMA ConfigureTyped ==
    ASSUME Typed, NEW spec \in Specs, nextEpoch < MaxUpdates + 1, Configure(spec)
    PROVE  /\ nextEpoch' \in 0..(nextEpoch + 1)
           /\ vips' # None =>
                /\ vips' = [epoch |-> vips'.epoch, spec |-> vips'.spec, health |-> vips'.health]
                /\ vips'.epoch \in Epochs
                /\ vips'.spec \in Specs
                /\ vips'.health \in [vips'.spec.backends -> Record]
           /\ schedulers' \in [Epochs -> [live : BOOLEAN, all : SUBSET Backends,
                                          left : SUBSET Backends]]
<1>0. nextEpoch \in Nat /\ MaxUpdates \in Nat
    BY BoundsAssumption, SMTT(60) DEF Typed, EngineTyped
<1>1. CASE StopVIP
    BY <1>0, <1>1, SMTT(60) DEF StopVIP, Typed, EngineTyped
<1>2. CASE StartVIP(spec)
    <2>1. nextEpoch + 1 \in Epochs
        BY <1>0, SMTT(60) DEF Epochs
    <2>2. spec.backends \subseteq Backends
        BY SpecFields
    <2>3. [b \in spec.backends |-> StartingHealth(b)] \in [spec.backends -> Record]
        BY <2>2, StartingHealthIsRecord
    <2>4. schedulers' \in [Epochs -> [live : BOOLEAN, all : SUBSET Backends,
                                          left : SUBSET Backends]]
        BY <1>2, <2>2 DEF StartVIP, Typed, EngineTyped
    <2>. QED
        BY <1>0, <1>2, <2>1, <2>3, <2>4, SMTT(60) DEF StartVIP
<1>. QED
    BY <1>1, <1>2 DEF Configure

(* The configured epoch, the schedulers and the event handler stay typed.  *)
LEMMA EngineKept ==
    ASSUME Typed, [Next]_vars
    PROVE  EngineTyped'
<1>0. /\ updates \in Nat /\ MaxUpdates \in Nat /\ nextEpoch \in Nat
      /\ updates <= MaxUpdates /\ nextEpoch <= updates + 1
    BY BoundsAssumption, SMTT(60) DEF Typed, EngineTyped
<1>1. ASSUME NEW spec \in Specs, OnVIPUpdate(spec)
      PROVE  EngineTyped'
    <2>1. nextEpoch < MaxUpdates + 1 /\ updates' = updates + 1 /\ updates' \in 0..MaxUpdates
        BY <1>0, <1>1, SMTT(60) DEF OnVIPUpdate
    <2>2. Configure(spec) /\ handler' = [step |-> "update", spec |-> spec]
        BY <1>1 DEF OnVIPUpdate
    <2>. QED
        BY <1>0, <2>1, <2>2, ConfigureTyped, SMTT(60) DEF EngineTyped
<1>2. CASE OnVIPDelete
    BY <1>0, <1>2, SMTT(60) DEF OnVIPDelete, StopVIP, Typed, EngineTyped
<1>3. CASE InitialSync
    <2>1. handler.spec \in Specs /\ nextEpoch = 0 /\ nextEpoch < MaxUpdates + 1
        BY <1>0, <1>3, SMTT(60) DEF InitialSync, Typed, EngineTyped
    <2>2. Configure(handler.spec) /\ handler' = [handler EXCEPT !.step = "update"]
          /\ updates' = updates
        BY <1>3 DEF InitialSync
    <2>3. handler' \in [step : {"idle", "update", "delete", "sync"}, spec : Specs \cup {None}]
          /\ handler'.step = "update" /\ handler'.spec \in Specs
        BY <2>1, <2>2 DEF Typed, EngineTyped
    <2>4. updates' \in 0..MaxUpdates
        BY <1>0, <2>2, SMTT(60)
    <2>. QED
        BY <1>0, <2>1, <2>2, <2>3, <2>4, ConfigureTyped, SMTT(60) DEF EngineTyped
<1>4. CASE ManagerUpdate \/ ManagerDelete
    BY <1>4, SMTT(60) DEF ManagerUpdate, ManagerDelete, IdleHandler, engineVars, Typed, EngineTyped
<1>5. ASSUME NEW e \in Epochs, Schedule(e)
      PROVE  EngineTyped'
    <2>1. UNCHANGED <<updates, handler, vips, nextEpoch>>
        BY <1>5 DEF Schedule, SchedulerTick, EnqueueProbeJob, DropProbeJobs, SchedulerExit
    <2>2. schedulers' \in [Epochs -> [live : BOOLEAN, all : SUBSET Backends,
                                      left : SUBSET Backends]]
        <3>1. CASE SchedulerTick(e)
            BY <3>1, SMTT(60) DEF SchedulerTick, Typed, EngineTyped
        <3>2. CASE EnqueueProbeJob(e)
            BY <3>2, SMTT(60) DEF EnqueueProbeJob, Typed, EngineTyped
        <3>3. CASE DropProbeJobs(e)
            BY <3>3, SMTT(60) DEF DropProbeJobs, Typed, EngineTyped
        <3>4. CASE SchedulerExit(e)
            BY <3>4 DEF SchedulerExit, NotRunning, Typed, EngineTyped
        <3>. QED
            BY <1>5, <3>1, <3>2, <3>3, <3>4 DEF Schedule
    <2>. QED
        BY <2>1, <2>2 DEF Typed, EngineTyped
<1>6. CASE HandleResult
    <2>1. CASE ~Counts(Head(resultCh))
        BY <1>6, <2>1 DEF HandleResult, Typed, EngineTyped
    <2>2. CASE Counts(Head(resultCh))
        <3> DEFINE b == Head(resultCh).backend
                   record == Count(vips.health[b], Head(resultCh).outcome, vips.spec)
        <3>1. vips # None /\ b \in DOMAIN vips.health
            BY <2>2 DEF Counts
        <3>2. Head(resultCh).outcome \in Outcomes
            <4>1. resultCh \in Seq(Result) /\ resultCh # <<>>
                BY <1>6 DEF HandleResult, Typed, PipelineTyped
            <4>2. Head(resultCh) \in Result
                BY <4>1, SMTT(60)
            <4>. QED
                BY <4>2 DEF Result
        <3>3. vips.health[b] \in Record /\ vips.spec \in Specs
            BY <3>1 DEF Typed, EngineTyped
        <3>4. record \in Record
            BY <3>2, <3>3, CountIsRecord
        <3>5. vips' = [vips EXCEPT !.health[b] = record]
            BY <1>6, <2>2 DEF HandleResult
        <3> HIDE DEF b, record
        <3>6. vips' = [epoch |-> vips.epoch, spec |-> vips.spec,
                       health |-> [vips.health EXCEPT ![b] = record]]
            BY <3>1, <3>5 DEF Typed, EngineTyped
        <3>7. vips'.health \in [vips'.spec.backends -> Record]
            BY <3>1, <3>4, <3>6 DEF Typed, EngineTyped
        <3>. QED
            BY <1>6, <3>1, <3>6, <3>7 DEF HandleResult, Typed, EngineTyped
    <2>. QED
        BY <2>1, <2>2
<1>7. CASE StopVIPs
    BY <1>7 DEF StopVIPs, SetPhase, Typed, EngineTyped
<1>8. CASE Restart
    <2>1. /\ handler' \in [step : {"idle", "update", "delete", "sync"}, spec : Specs \cup {None}]
          /\ handler'.step = "sync" => handler'.spec \in Specs
          /\ handler'.step \in {"idle", "sync"}
        BY <1>8 DEF Restart, IdleHandler, Typed, AgentTyped
    <2>2. schedulers' \in [Epochs -> [live : BOOLEAN, all : SUBSET Backends,
                                      left : SUBSET Backends]]
        BY <1>8 DEF Restart, NotRunning
    <2>3. vips' = None /\ nextEpoch' = 0 /\ updates' = updates
        BY <1>8 DEF Restart
    <2>. QED
        BY <1>0, <2>1, <2>2, <2>3, SMTT(60) DEF EngineTyped
<1>9. ASSUME UNCHANGED <<updates, handler, engineVars>>
      PROVE  EngineTyped'
    BY <1>9 DEF engineVars, Typed, EngineTyped
<1>10. ASSUME NEW w \in Workers, Work(w)
       PROVE  EngineTyped'
    BY <1>9, <1>10 DEF Work, TakeJob, AcquireProbeSlot, EnqueueProbeResult, ProbeAborted,
                      Probe, SetWorker
<1>11. CASE SaveHealthState \/ Callback
    BY <1>9, <1>11 DEF SaveHealthState, Callback
<1>12. ASSUME NEW byToken \in BOOLEAN, StartPass(byToken)
       PROVE  EngineTyped'
    BY <1>9, <1>12 DEF StartPass
<1>13. CASE HealthyBackends \/ FinishPass \/ HandleDelete
    BY <1>9, <1>13 DEF HealthyBackends, FinishPass, HandleDelete
<1>14. CASE Cancel \/ CloseJobs \/ CloseResults \/ Stopped
    BY <1>9, <1>14 DEF Cancel, CloseJobs, CloseResults, Stopped, SetPhase, engineVars
<1>15. CASE UNCHANGED vars
    BY <1>9, <1>15 DEF vars
<1>. QED
    BY <1>1, <1>2, <1>3, <1>4, <1>5, <1>6, <1>7, <1>8, <1>10, <1>11, <1>12, <1>13, <1>14,
       <1>15 DEF Next, Results, Shutdown

(* What a queue gives out and what is left of it.                          *)
LEMMA QueueParts ==
    ASSUME NEW S, NEW q \in Seq(S), q # <<>>, Len(q) <= QueueSize
    PROVE  Head(q) \in S /\ Tail(q) \in Seq(S) /\ Len(Tail(q)) <= QueueSize
<1>1. Len(q) \in Nat /\ Len(q) # 0 /\ Len(Tail(q)) = Len(q) - 1
    BY SMTT(60)
<1>. QED
    BY <1>1, QueueAssumption, SMTT(60)

(* A send keeps to the capacity of the channel.                            *)
LEMMA QueueAppend ==
    ASSUME NEW S, NEW q \in Seq(S), NEW x \in S, HasRoom(q)
    PROVE  Append(q, x) \in Seq(S) /\ Len(Append(q, x)) <= QueueSize
<1>1. Len(q) \in Nat /\ Len(Append(q, x)) = Len(q) + 1 /\ Append(q, x) \in Seq(S)
    BY SMTT(60)
<1>. QED
    BY <1>1, QueueAssumption, SMTT(60) DEF HasRoom

WorkerState == [step : {"idle", "slot", "probe", "result"}, epoch : Epochs \cup {0},
                backend : Backends \cup {None}, outcome : Outcomes]

(* A worker that is not idle holds a job.                                  *)
LEMMA WorkerSet ==
    ASSUME Typed, NEW w \in Workers, NEW r \in WorkerState,
           r.step # "idle" => r.epoch \in Epochs /\ r.backend \in Backends,
           worker' = [worker EXCEPT ![w] = r]
    PROVE  /\ worker' \in [Workers -> WorkerState]
           /\ \A v \in Workers :
                 worker'[v].step # "idle" =>
                     worker'[v].epoch \in Epochs /\ worker'[v].backend \in Backends
<1>1. worker \in [Workers -> WorkerState]
    BY DEF Typed, PipelineTyped, WorkerState
<1>2. \A v \in Workers : worker'[v] = IF v = w THEN r ELSE worker[v]
    BY <1>1
<1>. QED
    BY <1>1, <1>2 DEF Typed, PipelineTyped

(* The channels, the workers and the result processor stay typed.          *)
LEMMA PipelineKept ==
    ASSUME Typed, [Next]_vars
    PROVE  PipelineTyped'
<1>0. /\ jobCh \in Seq(Job) /\ Len(jobCh) <= QueueSize
      /\ resultCh \in Seq(Result) /\ Len(resultCh) <= QueueSize
      /\ worker \in [Workers -> WorkerState]
    BY DEF Typed, PipelineTyped, WorkerState
<1>1. ASSUME UNCHANGED pipeline
      PROVE  PipelineTyped'
    BY <1>1 DEF pipeline, Typed, PipelineTyped
<1>2. ASSUME NEW e \in Epochs, EnqueueProbeJob(e)
      PROVE  PipelineTyped'
    <2>1. PICK b \in schedulers[e].left :
              HasRoom(jobCh) /\ jobCh' = Append(jobCh, [epoch |-> e, backend |-> b])
        BY <1>2 DEF EnqueueProbeJob
    <2>2. [epoch |-> e, backend |-> b] \in Job
        BY DEF Typed, EngineTyped, Job
    <2>3. jobCh' \in Seq(Job) /\ Len(jobCh') <= QueueSize
        BY <1>0, <2>1, <2>2, QueueAppend
    <2>. QED
        BY <1>2, <2>3 DEF EnqueueProbeJob, Typed, PipelineTyped
<1>3. ASSUME NEW w \in Workers, TakeJob(w)
      PROVE  PipelineTyped'
    <2>1. Head(jobCh) \in Job /\ jobCh' \in Seq(Job) /\ Len(jobCh') <= QueueSize
        BY <1>0, <1>3, QueueParts DEF TakeJob
    <2> DEFINE r == [step |-> "slot", epoch |-> Head(jobCh).epoch,
                     backend |-> Head(jobCh).backend, outcome |-> "none"]
    <2>2. r \in WorkerState /\ r.epoch \in Epochs /\ r.backend \in Backends
        BY <2>1 DEF Job, WorkerState, Outcomes
    <2>3. worker' = [worker EXCEPT ![w] = r] /\ UNCHANGED <<saving, resultCh>>
        BY <1>3 DEF TakeJob, SetWorker
    <2> HIDE DEF r
    <2>. QED
        BY <2>1, <2>2, <2>3, WorkerSet DEF Typed, PipelineTyped, WorkerState
<1>4. ASSUME NEW w \in Workers, Work(w), ~TakeJob(w)
      PROVE  PipelineTyped'
    <2>1. IdleWorker \in WorkerState /\ IdleWorker.step = "idle"
        BY DEF IdleWorker, WorkerState, Outcomes
    <2>2. PICK r \in WorkerState :
              /\ worker' = [worker EXCEPT ![w] = r]
              /\ r.step # "idle" => r.epoch \in Epochs /\ r.backend \in Backends
        <3>1. CASE AcquireProbeSlot(w)
            <4>1. CASE SetWorker(w, IdleWorker)
                BY <2>1, <4>1 DEF SetWorker
            <4>2. CASE worker[w].step = "slot" /\ SetWorker(w, [worker[w] EXCEPT !.step = "probe"])
                <5>1. [worker[w] EXCEPT !.step = "probe"] \in WorkerState
                    BY <1>0 DEF WorkerState
                <5>2. worker[w].epoch \in Epochs /\ worker[w].backend \in Backends
                    BY <4>2 DEF Typed, PipelineTyped
                <5>3. [worker[w] EXCEPT !.step = "probe"].epoch = worker[w].epoch
                      /\ [worker[w] EXCEPT !.step = "probe"].backend = worker[w].backend
                    BY <1>0 DEF WorkerState
                <5>. QED
                    BY <4>2, <5>1, <5>2, <5>3 DEF SetWorker
            <4>. QED
                BY <3>1, <4>1, <4>2 DEF AcquireProbeSlot
        <3>2. ASSUME NEW outcome \in Outcomes, worker[w].step = "probe",
                     SetWorker(w, [worker[w] EXCEPT !.step = "result", !.outcome = outcome])
              PROVE  \E r \in WorkerState :
                        /\ worker' = [worker EXCEPT ![w] = r]
                        /\ r.step # "idle" => r.epoch \in Epochs /\ r.backend \in Backends
            <4> DEFINE r == [worker[w] EXCEPT !.step = "result", !.outcome = outcome]
            <4>1. r \in WorkerState /\ r.epoch = worker[w].epoch /\ r.backend = worker[w].backend
                BY <1>0 DEF WorkerState
            <4>2. worker[w].epoch \in Epochs /\ worker[w].backend \in Backends
                BY <3>2 DEF Typed, PipelineTyped
            <4>. QED
                BY <3>2, <4>1, <4>2 DEF SetWorker
        <3>3. CASE ProbeAborted(w) \/ \E outcome \in {"success", "failure"} : Probe(w, outcome)
            BY <3>2, <3>3 DEF ProbeAborted, Probe, Outcomes
        <3>4. CASE EnqueueProbeResult(w)
            BY <2>1, <3>4 DEF EnqueueProbeResult, SetWorker
        <3>. QED
            BY <1>4, <3>1, <3>3, <3>4 DEF Work
    <2>3. UNCHANGED <<jobCh, saving>>
        BY <1>4 DEF Work, AcquireProbeSlot, EnqueueProbeResult, ProbeAborted, Probe, SetWorker
    <2>4. resultCh' \in Seq(Result) /\ Len(resultCh') <= QueueSize
        <3>1. CASE EnqueueProbeResult(w)
            <4> DEFINE x == [epoch |-> worker[w].epoch, backend |-> worker[w].backend,
                             outcome |-> worker[w].outcome]
            <4>1. x \in Result
                <5>1. worker[w].step = "result" /\ worker[w] \in WorkerState
                    BY <1>0, <3>1 DEF EnqueueProbeResult
                <5>2. worker[w].epoch \in Epochs /\ worker[w].backend \in Backends
                    BY <5>1 DEF Typed, PipelineTyped
                <5>. QED
                    BY <5>1, <5>2 DEF WorkerState, Result
            <4>2. \/ resultCh' = resultCh
                  \/ HasRoom(resultCh) /\ resultCh' = Append(resultCh, x)
                BY <3>1 DEF EnqueueProbeResult
            <4> HIDE DEF x
            <4>. QED
                BY <1>0, <4>1, <4>2, QueueAppend
        <3>2. CASE ~EnqueueProbeResult(w)
            BY <1>0, <1>4, <3>2 DEF Work, AcquireProbeSlot, ProbeAborted, Probe
        <3>. QED
            BY <3>1, <3>2
    <2>. QED
        BY <2>2, <2>3, <2>4, WorkerSet DEF Typed, PipelineTyped, WorkerState
<1>5. CASE HandleResult
    <2>1. resultCh' \in Seq(Result) /\ Len(resultCh') <= QueueSize /\ Head(resultCh) \in Result
        BY <1>0, <1>5, QueueParts DEF HandleResult
    <2>2. CASE ~Counts(Head(resultCh))
        BY <1>5, <2>1, <2>2 DEF HandleResult, Typed, PipelineTyped
    <2>3. CASE Counts(Head(resultCh))
        <3> DEFINE b == Head(resultCh).backend
                   record == Count(vips.health[b], Head(resultCh).outcome, vips.spec)
        <3>1. vips # None /\ b \in DOMAIN vips.health
            BY <2>3 DEF Counts
        <3>2. Head(resultCh).outcome \in Outcomes /\ b \in Backends
            BY <2>1 DEF Result
        <3>3. vips.health[b] \in Record /\ vips.spec \in Specs
            BY <3>1 DEF Typed, EngineTyped
        <3>4. record \in Record
            BY <3>2, <3>3, CountIsRecord
        <3>5. saving' = [step |-> "save", backend |-> b, record |-> record,
                         changed |-> Changed(vips.health[b], record)]
            BY <1>5, <2>3 DEF HandleResult
        <3>6. Changed(vips.health[b], record) \in BOOLEAN
            BY DEF Changed
        <3>7. UNCHANGED <<jobCh, worker>>
            BY <1>5 DEF HandleResult
        <3> HIDE DEF b, record
        <3>. QED
            BY <2>1, <3>2, <3>4, <3>5, <3>6, <3>7 DEF Typed, PipelineTyped
    <2>. QED
        BY <2>2, <2>3
<1>6. NotSaving \in [step : {"none", "save", "callback"}, backend : Backends \cup {None},
                     record : Record, changed : BOOLEAN]
    BY FreshIsRecord DEF NotSaving
<1>7. CASE SaveHealthState \/ Callback
    BY <1>6, <1>7, SMTT(60) DEF SaveHealthState, Callback, Typed, PipelineTyped
<1>8. CASE Restart
    <2>1. worker' \in [Workers -> WorkerState] /\ \A w \in Workers : worker'[w].step = "idle"
        BY <1>8 DEF Restart, IdleWorker, WorkerState, Outcomes
    <2>2. jobCh' = <<>> /\ resultCh' = <<>> /\ saving' = NotSaving
        BY <1>8 DEF Restart
    <2>. QED
        BY <1>6, <2>1, <2>2, QueueAssumption, SMTT(60) DEF PipelineTyped, WorkerState
<1>9. CASE \/ \E spec \in Specs : OnVIPUpdate(spec)
           \/ OnVIPDelete \/ InitialSync \/ ManagerUpdate \/ ManagerDelete
    BY <1>1, <1>9 DEF OnVIPUpdate, OnVIPDelete, InitialSync, ManagerUpdate, ManagerDelete
<1>10. ASSUME NEW e \in Epochs, Schedule(e)
       PROVE  PipelineTyped'
    BY <1>1, <1>2, <1>10 DEF Schedule, SchedulerTick, DropProbeJobs, SchedulerExit
<1>11. CASE \/ \E byToken \in BOOLEAN : StartPass(byToken)
            \/ HealthyBackends \/ FinishPass \/ HandleDelete
    BY <1>1, <1>11 DEF StartPass, HealthyBackends, FinishPass, HandleDelete
<1>12. CASE Cancel \/ Shutdown
    BY <1>1, <1>12
    DEF Cancel, Shutdown, StopVIPs, CloseJobs, CloseResults, Stopped, SetPhase
<1>13. CASE UNCHANGED vars
    BY <1>1, <1>13 DEF vars
<1>. QED
    BY <1>3, <1>4, <1>5, <1>7, <1>8, <1>9, <1>10, <1>11, <1>12, <1>13 DEF Next, Results

(* What a configuration calls healthy are backends.                        *)
LEMMA HealthyType ==
    ASSUME Typed, NEW spec \in Specs
    PROVE  Healthy(spec) \subseteq Backends
BY SpecFields DEF Healthy

(* The reconciler's side and the store stay typed.                         *)
LEMMA AgentKept ==
    ASSUME Typed, [Next]_vars
    PROVE  AgentTyped'
<1>1. ASSUME UNCHANGED <<object, store, phase, managerVars, token, passVars>>
      PROVE  AgentTyped'
    BY <1>1 DEF managerVars, passVars, Typed, AgentTyped
<1>2. CASE (\E spec \in Specs : OnVIPUpdate(spec)) \/ OnVIPDelete
    BY <1>2 DEF OnVIPUpdate, OnVIPDelete, managerVars, passVars, Typed, AgentTyped
<1>3. CASE ManagerUpdate \/ ManagerDelete
    BY <1>3
    DEF ManagerUpdate, ManagerDelete, passVars, Typed, EngineTyped, AgentTyped
<1>4. CASE SaveHealthState
    BY <1>4
    DEF SaveHealthState, managerVars, passVars, Typed, PipelineTyped, AgentTyped
<1>5. CASE Callback
    BY <1>5 DEF Callback, managerVars, passVars, Typed, AgentTyped
<1>6. ASSUME NEW byToken \in BOOLEAN, StartPass(byToken)
      PROVE  AgentTyped'
    BY <1>6 DEF StartPass, managerVars, Typed, AgentTyped
<1>7. CASE HealthyBackends
    <2>1. pass.spec \in Specs /\ Healthy(pass.spec) \subseteq Backends
        BY <1>7, HealthyType DEF HealthyBackends, Typed, AgentTyped
    <2>2. pass' = [step |-> "apply", spec |-> pass.spec, healthy |-> Healthy(pass.spec)]
        BY <1>7 DEF HealthyBackends, Typed, AgentTyped
    <2>. QED
        BY <1>7, <2>1, <2>2 DEF HealthyBackends, managerVars, Typed, AgentTyped
<1>8. CASE FinishPass
    BY <1>8 DEF FinishPass, IdlePass, managerVars, Typed, AgentTyped
<1>9. CASE HandleDelete
    BY <1>9 DEF HandleDelete, Typed, AgentTyped
<1>10. CASE Cancel \/ Shutdown
    BY <1>10
    DEF Cancel, Shutdown, StopVIPs, CloseJobs, CloseResults, Stopped, SetPhase,
                 managerVars, passVars, Typed, AgentTyped
<1>11. CASE Restart
    BY <1>11 DEF Restart, IdlePass, Typed, AgentTyped
<1>12. CASE InitialSync
    BY <1>1, <1>12 DEF InitialSync
<1>13. ASSUME NEW e \in Epochs, Schedule(e)
       PROVE  AgentTyped'
    BY <1>1, <1>13 DEF Schedule, SchedulerTick, EnqueueProbeJob, DropProbeJobs, SchedulerExit
<1>14. ASSUME NEW w \in Workers, Work(w)
       PROVE  AgentTyped'
    BY <1>1, <1>14 DEF Work, TakeJob, AcquireProbeSlot, EnqueueProbeResult, ProbeAborted,
                      Probe, SetWorker
<1>15. CASE HandleResult
    BY <1>1, <1>15 DEF HandleResult
<1>16. CASE UNCHANGED vars
    BY <1>1, <1>16 DEF vars
<1>. QED
    BY <1>2, <1>3, <1>4, <1>5, <1>6, <1>7, <1>8, <1>9, <1>10, <1>11, <1>12, <1>13, <1>14,
       <1>15, <1>16 DEF Next, Results

(* A scheduler sends and ends, and Stop closes, in an order that keeps     *)
(* NoSendOnClosed.                                                         *)
LEMMA ClosedKept ==
    ASSUME EngineInv, Typed', [Next]_vars
    PROVE  (Ended /\ NoSendOnClosed)'
<1>0. /\ schedulers \in [Epochs -> [live : BOOLEAN, all : SUBSET Backends,
                                     left : SUBSET Backends]]
      /\ worker \in [Workers -> WorkerState]
      /\ Ended /\ NoSendOnClosed
    BY DEF EngineInv, Typed, EngineTyped, PipelineTyped, WorkerState
<1>1. ASSUME UNCHANGED <<phase, schedulers, jobCh, worker>>
      PROVE  (Ended /\ NoSendOnClosed)'
    BY <1>0, <1>1 DEF Ended, NoSendOnClosed
<1>2. ASSUME NEW spec \in Specs, Configure(spec), UNCHANGED <<phase, jobCh, worker>>
      PROVE  (Ended /\ NoSendOnClosed)'
    <2>1. CASE StopVIP
        BY <1>1, <1>2, <2>1 DEF StopVIP
    <2>2. CASE StartVIP(spec) /\ phase \in {"running", "cancelled"}
        <3>1. \A e \in Epochs : schedulers'[e] = IF e = nextEpoch + 1
                  THEN [live |-> TRUE, all |-> spec.backends, left |-> spec.backends]
                  ELSE schedulers[e]
            BY <1>0, <2>2 DEF StartVIP
        <3>2. Ended'
            BY <1>0, <3>1, SMTT(60) DEF Ended
        <3>3. phase' \in {"running", "cancelled"}
            BY <1>2, <2>2
        <3>. QED
            BY <3>2, <3>3 DEF NoSendOnClosed
    <2>. QED
        BY <1>2, <2>1, <2>2 DEF Configure
<1>3. CASE \E spec \in Specs : OnVIPUpdate(spec)
    BY <1>2, <1>3 DEF OnVIPUpdate, pipeline
<1>4. CASE InitialSync
    <2>1. handler.spec \in Specs
        BY <1>4 DEF InitialSync, EngineInv, Typed, EngineTyped
    <2>. QED
        BY <1>2, <1>4, <2>1 DEF InitialSync, pipeline
<1>5. CASE OnVIPDelete \/ ManagerUpdate \/ ManagerDelete
    BY <1>1, <1>5 DEF OnVIPDelete, StopVIP, ManagerUpdate, ManagerDelete, engineVars, pipeline
<1>6. ASSUME NEW e \in Epochs, Schedule(e)
      PROVE  (Ended /\ NoSendOnClosed)'
    <2>1. phase \notin {"jobs closed", "results closed", "stopped"} /\ phase' = phase
        BY <1>0, <1>6 DEF Schedule, SchedulerTick, EnqueueProbeJob, DropProbeJobs,
                          SchedulerExit, NoSendOnClosed
    <2>2. \A f \in Epochs : schedulers'[f].left # {} => schedulers'[f].live
        <3>1. CASE SchedulerTick(e)
            BY <1>0, <3>1 DEF SchedulerTick, Ended
        <3>2. CASE EnqueueProbeJob(e)
            BY <1>0, <3>2 DEF EnqueueProbeJob, Ended
        <3>3. CASE DropProbeJobs(e)
            BY <1>0, <3>3 DEF DropProbeJobs, Ended
        <3>4. CASE SchedulerExit(e)
            BY <1>0, <3>4 DEF SchedulerExit, NotRunning, Ended
        <3>. QED
            BY <1>6, <3>1, <3>2, <3>3, <3>4 DEF Schedule
    <2>. QED
        BY <2>1, <2>2 DEF Ended, NoSendOnClosed
<1>7. ASSUME NEW w \in Workers, Work(w)
      PROVE  (Ended /\ NoSendOnClosed)'
    <2>1. UNCHANGED <<phase, schedulers>>
        BY <1>7 DEF Work, TakeJob, AcquireProbeSlot, EnqueueProbeResult, ProbeAborted,
                    Probe, SetWorker, engineVars
    <2>2. worker[w].step # "idle" \/ jobCh # <<>>
        BY <1>7 DEF Work, TakeJob, AcquireProbeSlot, EnqueueProbeResult, ProbeAborted, Probe
    <2>3. phase \notin {"results closed", "stopped"}
        BY <1>0, <2>2 DEF NoSendOnClosed
    <2>. QED
        BY <1>0, <2>1, <2>3 DEF Ended, NoSendOnClosed
<1>8. CASE Results
    BY <1>1, <1>8 DEF Results, HandleResult, SaveHealthState, Callback, engineVars
<1>9. CASE \/ \E byToken \in BOOLEAN : StartPass(byToken)
           \/ HealthyBackends \/ FinishPass \/ HandleDelete
    BY <1>1, <1>9 DEF StartPass, HealthyBackends, FinishPass, HandleDelete, engineVars, pipeline
<1>10. CASE Cancel \/ StopVIPs
    BY <1>0, <1>10 DEF Cancel, StopVIPs, SetPhase, Ended, NoSendOnClosed
<1>11. CASE CloseJobs
    <2>1. \A e \in Epochs : ~schedulers[e].live /\ schedulers[e].left = {}
        BY <1>0, <1>11 DEF CloseJobs, SchedulersDone, Ended
    <2>. QED
        BY <1>0, <1>11, <2>1 DEF CloseJobs, SetPhase, Ended, NoSendOnClosed
<1>12. CASE CloseResults
    BY <1>0, <1>12
    DEF CloseResults, WorkersDone, SetPhase, pipeline, Ended, NoSendOnClosed
<1>13. CASE Stopped
    BY <1>0, <1>13 DEF Stopped, SetPhase, pipeline, Ended, NoSendOnClosed
<1>14. CASE Restart
    BY <1>14 DEF Restart, NotRunning, Ended, NoSendOnClosed
<1>15. CASE UNCHANGED vars
    BY <1>1, <1>15 DEF vars, engineVars, pipeline
<1>. QED
    BY <1>3, <1>4, <1>5, <1>6, <1>7, <1>8, <1>9, <1>10, <1>11, <1>12, <1>13, <1>14, <1>15
       DEF Next, Shutdown

-----------------------------------------------------------------------------

(* Woken says the same about a state with the same health, reconciler and  *)
(* signals.                                                                *)
LEMMA WokenSame ==
    ASSUME Woken, UNCHANGED <<cleaning, current, phase, pass, used, vips>>,
           Signal => Signal'
    PROVE  Woken'
<1>1. \A spec : Healthy(spec)' = Healthy(spec)
    BY DEF Healthy
<1>. QED
    BY <1>1 DEF Woken

(* The health of a backend changes only with a signal.                     *)
LEMMA HealthyAfterResult ==
    ASSUME Typed, HandleResult, ~saving'.changed, NEW spec
    PROVE  Healthy(spec)' = Healthy(spec)
<1>1. CASE ~Counts(Head(resultCh))
    BY <1>1 DEF HandleResult, Healthy
<1>2. CASE Counts(Head(resultCh))
    <2> DEFINE b == Head(resultCh).backend
               record == Count(vips.health[b], Head(resultCh).outcome, vips.spec)
    <2>1. vips # None /\ b \in DOMAIN vips.health
        BY <1>2 DEF Counts
    <2>2. /\ vips' = [vips EXCEPT !.health[b] = record]
          /\ saving' = [step |-> "save", backend |-> b, record |-> record,
                        changed |-> Changed(vips.health[b], record)]
        BY <1>2 DEF HandleResult
    <2> HIDE DEF b, record
    <2>3. record.state = vips.health[b].state
        BY <2>2 DEF Changed
    <2>4. vips' = [epoch |-> vips.epoch, spec |-> vips.spec,
                   health |-> [vips.health EXCEPT ![b] = record]]
        BY <2>1, <2>2 DEF Typed, EngineTyped
    <2>5. vips' # None
        <3>1. vips'.epoch \in Epochs /\ vips'.spec \in Specs
              /\ vips'.spec.backends \in SUBSET Backends
            BY <2>1, <2>4, SpecFields DEF Typed, EngineTyped
        <3>2. vips'.health \in [vips'.spec.backends -> Record]
            <4>1. Head(resultCh).outcome \in Outcomes
                <5>1. resultCh \in Seq(Result) /\ resultCh # <<>>
                    BY DEF HandleResult, Typed, PipelineTyped
                <5>2. Head(resultCh) \in Result
                    BY <5>1, SMTT(60)
                <5>. QED
                    BY <5>2 DEF Result
            <4>2. vips.health[b] \in Record /\ vips.spec \in Specs
                BY <2>1 DEF Typed, EngineTyped
            <4>3. record \in Record
                BY <4>1, <4>2, CountIsRecord DEF record
            <4>. QED
                BY <2>1, <2>4, <4>3 DEF Typed, EngineTyped
        <3>3. vips' \in [epoch : Epochs, spec : Specs, health : [vips'.spec.backends -> Record]]
            BY <2>4, <3>1, <3>2
        <3>. QED
            BY <3>1, <3>3, NoneAssumption
    <2>6. DOMAIN vips'.health = DOMAIN vips.health
        BY <2>4
    <2>7. \A c \in DOMAIN vips.health : vips'.health[c].state = vips.health[c].state
        BY <2>3, <2>4
    <2>. QED
        BY <2>1, <2>5, <2>6, <2>7 DEF Healthy
<1>. QED
    BY <1>1, <1>2

(* A pass has read and used the present health, or a signal is on its way. *)
LEMMA WokenKept ==
    ASSUME EngineInv, Typed', [Next]_vars
    PROVE  Woken'
<1>0. Woken /\ Typed
    BY DEF EngineInv
<1>1. ASSUME UNCHANGED <<vips, cleaning, current, phase, pass, used>>, Signal => Signal'
      PROVE  Woken'
    BY <1>0, <1>1, WokenSame
<1>2. ASSUME handler' # IdleHandler, UNCHANGED <<cleaning, current>>
      PROVE  Woken'
    BY <1>0, <1>2 DEF Woken, Signal
<1>3. CASE \E spec \in Specs : OnVIPUpdate(spec)
    BY <1>2, <1>3, SMTT(60) DEF OnVIPUpdate, IdleHandler, managerVars
<1>4. CASE OnVIPDelete \/ InitialSync
    <2>1. handler'.step # "idle"
        BY <1>0, <1>4, SMTT(60) DEF OnVIPDelete, InitialSync, Typed, EngineTyped
    <2>. QED
        BY <1>2, <1>4, <2>1, SMTT(60) DEF OnVIPDelete, InitialSync, IdleHandler, managerVars
<1>5. CASE ManagerUpdate
    <2>1. CASE cleaning
        BY <1>0, <1>5, <2>1 DEF ManagerUpdate, Woken
    <2>2. CASE ~cleaning
        BY <1>0, <1>5, <2>2 DEF ManagerUpdate, Woken, Signal
    <2>. QED
        BY <2>1, <2>2
<1>6. CASE ManagerDelete
    BY <1>0, <1>6 DEF ManagerDelete, Woken
<1>7. ASSUME NEW e \in Epochs, Schedule(e)
      PROVE  Woken'
    BY <1>1, <1>7 DEF Schedule, SchedulerTick, EnqueueProbeJob, DropProbeJobs, SchedulerExit,
                      managerVars, passVars, pipeline, Signal
<1>8. ASSUME NEW w \in Workers, Work(w)
      PROVE  Woken'
    BY <1>1, <1>8 DEF Work, TakeJob, AcquireProbeSlot, EnqueueProbeResult, ProbeAborted,
                      Probe, SetWorker, engineVars, managerVars, passVars, Signal
<1>9. CASE HandleResult
    <2>1. UNCHANGED <<cleaning, current, phase, pass, used, token, handler>>
        BY <1>9 DEF HandleResult, managerVars, passVars
    <2>2. CASE saving'.changed
        BY <1>0, <2>1, <2>2 DEF Woken, Signal
    <2>3. CASE ~saving'.changed
        <3>1. \A spec : Healthy(spec)' = Healthy(spec)
            BY <1>0, <1>9, <2>3, HealthyAfterResult
        <3>2. ~saving.changed
            BY <1>9 DEF HandleResult, NotSaving
        <3>. QED
            BY <1>0, <2>1, <3>1, <3>2 DEF Woken, Signal
    <2>. QED
        BY <2>2, <2>3
<1>10. CASE SaveHealthState
    <2>1. saving'.changed = saving.changed
        BY <1>0, <1>10 DEF SaveHealthState, NotSaving, Typed, PipelineTyped
    <2>. QED
        BY <1>1, <1>10, <2>1 DEF SaveHealthState, engineVars, managerVars, passVars, Signal
<1>11. CASE Callback
    <2>1. CASE current = None
        BY <1>0, <1>11, <2>1 DEF Callback, managerVars, Woken
    <2>2. CASE current # None
        BY <1>0, <1>11, <2>2 DEF Callback, managerVars, Woken, Signal
    <2>. QED
        BY <2>1, <2>2
<1>12. ASSUME NEW byToken \in BOOLEAN, StartPass(byToken)
       PROVE  Woken'
    BY <1>0, <1>12 DEF StartPass, managerVars, Woken
<1>13. CASE HealthyBackends
    <2>1. /\ pass'.step = "apply" /\ pass'.healthy = Healthy(pass.spec)
          /\ pass.step = "health"
        BY <1>0, <1>13 DEF HealthyBackends, Typed, AgentTyped
    <2>2. \A spec : Healthy(spec)' = Healthy(spec)
        BY <1>13 DEF HealthyBackends, engineVars, Healthy
    <2>3. UNCHANGED <<cleaning, current, phase, token, saving, handler>>
        BY <1>13 DEF HealthyBackends, managerVars, pipeline
    <2>. QED
        BY <1>0, <2>1, <2>2, <2>3 DEF Woken, Signal
<1>14. CASE FinishPass
    <2>1. pass.step = "apply" /\ pass'.step = "idle" /\ used' = pass.healthy
        BY <1>14 DEF FinishPass, IdlePass
    <2>2. \A spec : Healthy(spec)' = Healthy(spec)
        BY <1>14 DEF FinishPass, engineVars, Healthy
    <2>3. UNCHANGED <<cleaning, current, phase, token, saving, handler>>
        BY <1>14 DEF FinishPass, managerVars, pipeline
    <2>. QED
        BY <1>0, <2>1, <2>2, <2>3 DEF Woken, Signal
<1>15. CASE HandleDelete
    <2>1. cleaning' = FALSE /\ current' = pending /\ token' = (pending # None)
        BY <1>15 DEF HandleDelete
    <2>. QED
        BY <2>1 DEF Woken, Signal
<1>16. CASE Cancel \/ Shutdown
    <2>1. phase' # "running" /\ UNCHANGED <<cleaning, current>>
        BY <1>16
        DEF Cancel, Shutdown, StopVIPs, CloseJobs, CloseResults, Stopped, SetPhase,
                     managerVars
    <2>. QED
        BY <1>0, <2>1 DEF Woken
<1>17. CASE Restart
    BY <1>17 DEF Restart, Woken
<1>18. CASE UNCHANGED vars
    BY <1>1, <1>18 DEF vars, engineVars, managerVars, passVars, pipeline, Signal
<1>. QED
    BY <1>3, <1>4, <1>5, <1>6, <1>7, <1>8, <1>9, <1>10, <1>11, <1>12, <1>13, <1>14, <1>15,
       <1>16, <1>17, <1>18 DEF Next, Results

-----------------------------------------------------------------------------

(* The inductive invariant holds before anything is registered.            *)
LEMMA EngineInvInit == Init => EngineInv
<1> SUFFICES ASSUME Init PROVE EngineInv
    OBVIOUS
<1>1. EngineTyped
    BY BoundsAssumption, SMTT(60) DEF Init, IdleHandler, NotRunning, EngineTyped
<1>2. PipelineTyped
    BY QueueAssumption, FreshIsRecord, SMTT(60)
       DEF Init, IdleWorker, NotSaving, Outcomes, PipelineTyped
<1>3. AgentTyped
    BY DEF Init, IdlePass, AgentTyped
<1>4. Woken /\ Ended /\ NoSendOnClosed
    BY DEF Init, NotRunning, Woken, Ended, NoSendOnClosed
<1>. QED
    BY <1>1, <1>2, <1>3, <1>4 DEF EngineInv, Typed

(* The inductive invariant of the health engine.                           *)
THEOREM EngineInvHolds == Spec => []EngineInv
<1>1. EngineInv /\ [Next]_vars => EngineInv'
    <2> SUFFICES ASSUME EngineInv, [Next]_vars PROVE EngineInv'
        OBVIOUS
    <2>1. Typed
        BY DEF EngineInv
    <2>2. Typed'
        BY <2>1, EngineKept, PipelineKept, AgentKept DEF Typed
    <2>3. Woken' /\ (Ended /\ NoSendOnClosed)'
        BY <2>2, WokenKept, ClosedKept
    <2>. QED
        BY <2>2, <2>3 DEF EngineInv
<1>. QED
    BY <1>1, EngineInvInit, PTL DEF Spec

(* The engine has a health record for exactly the backends of the          *)
(* configuration it checks, and both channels keep to their capacity, for  *)
(* any number of workers, backends, reconfigurations and restarts.         *)
THEOREM EngineTypes == Spec => []TypeOK
<1>1. EngineInv => TypeOK
    <2> SUFFICES ASSUME EngineInv PROVE TypeOK
        OBVIOUS
    <2>1. nextEpoch \in 0..(MaxUpdates + 1)
        BY BoundsAssumption, SMTT(60) DEF EngineInv, Typed, EngineTyped
    <2>. QED
        BY <2>1 DEF EngineInv, Typed, EngineTyped, PipelineTyped, AgentTyped, TypeOK
<1>. QED
    BY <1>1, EngineInvHolds, PTL

(* No health transition is lost between handleResult, reconfiguration,     *)
(* deletion, restarts and the reconcile pass: while the backends in use    *)
(* differ from the healthy ones, a wake-up is on its way.                  *)
THEOREM WakeUps == Spec => []WakeUpPending
<1>1. EngineInv => WakeUpPending
    BY DEF EngineInv, Typed, AgentTyped, Woken, Signal, WakeUpPending
<1>. QED
    BY <1>1, EngineInvHolds, PTL

(* Stop never closes a channel somebody may still send on.                 *)
THEOREM ClosedChannels == Spec => []NoSendOnClosed
<1>1. EngineInv => NoSendOnClosed
    BY DEF EngineInv
<1>. QED
    BY <1>1, EngineInvHolds, PTL
=============================================================================
