------------------------ MODULE VirtualIPStatusProofs ------------------------
(***************************************************************************)
(* The safety properties of VirtualIPStatus, for any number of agents,     *)
(* backends, objects, generations and calls, and any TTL and retention.    *)
(*                                                                         *)
(* The argument: whoever is about to write has a copy of the object that   *)
(* is stored, or will be refused.  What the copy says of the object's      *)
(* generation is about it (Fits), it is backed by the reports in it        *)
(* (Supported), and it has the reports of the other agents (Copied).       *)
(***************************************************************************)
EXTENDS VirtualIPStatus, FiniteSetTheorems, TLAPS

\* A leaf that names no prover is for Zenon.
USE ZenonT(60)

Roomy == Cardinality(Agents) <= MaxReports

Fits(status, o) ==
    /\ \A a \in Reporting(status.reports) :
          /\ status.reports[a].gen <= o.gen
          /\ status.reports[a].gen = o.gen =>
                status.reports[a].healthy \subseteq o.spec.backends
    /\ status.observed <= o.gen
    /\ status.observed = o.gen => status.healthy \subseteq o.spec.backends
    /\ status.serving # None => status.serving.gen = status.observed

Supported(status, gen) ==
    status.observed = gen =>
        /\ status.serving = [state |-> "True", gen |-> gen] =>
              \E a \in Reporting(status.reports) :
                  status.reports[a].gen = gen /\ status.reports[a].serving = "True"
        /\ \A b \in status.healthy :
              \E a \in Reporting(status.reports) :
                  status.reports[a].gen = gen /\ b \in status.reports[a].healthy

\* A report that every writer has to carry on.
Kept(report, gen) == report # None /\ report.gen = gen /\ report.age <= Retention

Copied(reports, from, gen, agents) ==
    \A a \in agents : Kept(from[a], gen) => reports[a] = from[a]

\* A copy of the object that its writer may still store: it has the reports of these
\* agents.
Held(o, status, agents) ==
    /\ o # None
    /\ Fits(status, o)
    /\ Roomy => Supported(status, o.gen)
    /\ Roomy => Copied(status.reports, o.status.reports, o.gen, agents)

\* What is known of an object's generation is the same for all who know it.
Known ==
    /\ \A v \in versions :
          /\ v.uid <= created
          /\ object # None /\ v.uid = object.uid =>
                v.gen <= object.gen /\ (v.gen = object.gen => v.spec = object.spec)
    /\ \A c \in Callers : call[c].request # None => call[c].request.version \in versions

Stored ==
    object # None =>
        /\ object.uid <= created
        /\ Fits(object.status, object)
        /\ Roomy => Supported(object.status, object.gen)

Copies ==
    /\ \A c \in Callers : call[c].status # None => Held(object, call[c].status, Agents \ {AgentOf[c]})
    /\ operator.status # None =>
          /\ operator.step # "idle"
          /\ operator.step = "status" => Held(object, operator.status, Agents)

StatusInv == TypeOK /\ Known /\ Stored /\ Copies

-----------------------------------------------------------------------------
(* The operators of AgentStatus                                            *)

(* The missing value is none of the values it stands in for.               *)
LEMMA NoneApart ==
    /\ None \notin States
    /\ None \notin Report
    /\ None \notin [state : States, gen : Nat]
    /\ None \notin Status
BY NoneAssumption

(* A report grows older and keeps what it says.                            *)
LEMMA OlderReportFields ==
    ASSUME NEW r \in Report \cup {None}
    PROVE  /\ OlderReport(r) \in Report \cup {None}
           /\ OlderReport(r) = None <=> r = None
           /\ r # None => /\ OlderReport(r).gen = r.gen
                          /\ OlderReport(r).healthy = r.healthy
                          /\ OlderReport(r).serving = r.serving
           /\ \A gen : Kept(OlderReport(r), gen) => Kept(r, gen)
<1>1. CASE r = None \/ r.age > Retention
    BY <1>1 DEF OlderReport
<1>2. CASE r # None /\ ~(r.age > Retention)
    <2>1. OlderReport(r) = [r EXCEPT !.age = r.age + 1] /\ r \in Report /\ r.age \in Nat
        BY <1>2 DEF OlderReport, Report
    <2>2. /\ OlderReport(r) \in Report /\ OlderReport(r) # None
          /\ OlderReport(r).gen = r.gen /\ OlderReport(r).healthy = r.healthy
          /\ OlderReport(r).serving = r.serving
        BY <2>1, NoneApart, SMTT(60) DEF Report
    <2>3. r.age <= Retention
        BY <1>2, <2>1, AgeAssumption, SMTT(60)
    <2>. QED
        BY <1>2, <2>1, <2>2, <2>3 DEF Kept
<1>. QED
    BY <1>1, <1>2

(* Keeping the newest reports only takes reports away, and none of those it*)
(* keeps changes.                                                          *)
LEMMA RetainFields ==
    ASSUME NEW reports \in Reports, NEW S
    PROVE  /\ Retain(S, reports) \in Reports
           /\ \A a \in Agents : Retain(S, reports)[a] \in {reports[a], None}
           /\ \A a \in Agents : a \in Newest(S, reports) => Retain(S, reports)[a] = reports[a]
           /\ Reporting(Retain(S, reports)) \subseteq Reporting(reports)
<1>1. \A a \in Agents : reports[a] \in Report \cup {None}
    BY DEF Reports
<1>2. \A a \in Agents : Retain(S, reports)[a] =
          IF a \in Newest(S, reports) THEN reports[a] ELSE None
    BY DEF Retain
<1>3. Retain(S, reports) \in Reports
    BY <1>1 DEF Retain, Reports
<1>. QED
    BY <1>2, <1>3 DEF Reporting

(* There is no need to choose among few reports.                           *)
LEMMA NewestAll ==
    ASSUME Roomy, NEW S \in SUBSET Agents, NEW reports
    PROVE  Newest(S, reports) = S
<1>1. Cardinality(S) <= Cardinality(Agents) /\ Cardinality(S) \in Nat
      /\ Cardinality(Agents) \in Nat
    BY CapAssumption, FS_Subset, FS_CardinalityType
<1>2. Cardinality(S) <= MaxReports
    BY <1>1, CapAssumption, SMTT(60) DEF Roomy
<1>. QED
    BY <1>2 DEF Newest

(* A condition records the state it was computed with, for the generation  *)
(* of the object that was aggregated.                                      *)
LEMMA ConditionType ==
    ASSUME NEW state \in States \cup {None}, NEW gen \in Nat
    PROVE  /\ Condition(state, gen) \in Conditions
           /\ Condition(state, gen) # None => Condition(state, gen).gen = gen
           /\ state # None => Condition(state, gen) = [state |-> state, gen |-> gen]
BY DEF Condition, Conditions

(* The aggregates are condition states, and only DataPlaneReady may be left*)
(* undecided.                                                              *)
LEMMA AggregateTypes ==
    ASSUME NEW reports, NEW fresh, NEW expired
    PROVE  /\ aggregateServing(reports, fresh, expired) \in States
           /\ aggregateRouteAdvertised(reports, fresh, expired) \in States
           /\ aggregateDataPlaneReady(reports, fresh, expired) \in States \cup {None}
BY DEF aggregateServing, aggregateRouteAdvertised, aggregateDataPlaneReady, States

(* The backends of a spec can be counted.                                  *)
LEMMA SpecBackends ==
    ASSUME NEW spec \in Specs
    PROVE  spec.backends \subseteq Backends /\ Cardinality(spec.backends) \in Nat
<1>1. spec.backends \subseteq Backends
    BY SpecsAssumption
<1>. QED
    BY <1>1, CapAssumption, FS_Subset, FS_CardinalityType

(* Capping the reports keeps what a status says, and every report if there *)
(* is room for them.                                                       *)
LEMMA SanitizeKeeps ==
    ASSUME NEW status \in Status
    PROVE  LET t == SanitizeVirtualIPStatus(status)
           IN  /\ t \in Status
               /\ \A o : Fits(status, o) => Fits(t, o)
               /\ Roomy => t = status
<1> DEFINE t == SanitizeVirtualIPStatus(status)
           reports == Retain(Reporting(status.reports), status.reports)
<1>1. status.reports \in Reports
    BY DEF Status
<1>2. /\ reports \in Reports /\ Reporting(reports) \subseteq Reporting(status.reports)
      /\ \A a \in Agents : reports[a] \in {status.reports[a], None}
    BY <1>1, RetainFields
<1>3. t = [status EXCEPT !.reports = reports]
    BY DEF SanitizeVirtualIPStatus
<1>4. Roomy => reports = status.reports
    <2> SUFFICES ASSUME Roomy PROVE reports = status.reports
        OBVIOUS
    <2>1. Newest(Reporting(status.reports), status.reports) = Reporting(status.reports)
        BY NewestAll DEF Reporting
    <2>. QED
        BY <1>1, <2>1 DEF Retain, Reporting, Reports
<1> HIDE DEF t, reports
<1>5. t \in Status /\ t.reports = reports /\ t.observed = status.observed
      /\ t.healthy = status.healthy /\ t.serving = status.serving
    BY <1>2, <1>3 DEF Status
<1>6. Roomy => t = status
    BY <1>3, <1>4 DEF Status
<1>7. ASSUME NEW o, Fits(status, o) PROVE Fits(t, o)
    <2>1. \A a \in Reporting(t.reports) :
              a \in Reporting(status.reports) /\ t.reports[a] = status.reports[a]
        BY <1>2, <1>5 DEF Reporting
    <2>. QED
        BY <1>5, <1>7, <2>1 DEF Fits
<1>. QED
    BY <1>5, <1>6, <1>7 DEF t

(* What a report of this generation contributes to the aggregate is about  *)
(* this generation, and stays as long as it may.                           *)
LEMMA RefreshGood ==
    ASSUME NEW status \in Status, NEW o, o.gen \in Nat, o.spec \in Specs,
           \A a \in Reporting(status.reports) :
               /\ status.reports[a].gen <= o.gen
               /\ status.reports[a].gen = o.gen =>
                     status.reports[a].healthy \subseteq o.spec.backends
    PROVE  LET t == RefreshAggregateStatus(status, o, o.gen)
           IN  /\ t \in Status
               /\ Fits(t, o)
               /\ Roomy => Supported(t, o.gen)
               /\ Roomy => Copied(t.reports, status.reports, o.gen, Agents)
<1> DEFINE t == RefreshAggregateStatus(status, o, o.gen)
           fresh == Fresh(status.reports, o.gen)
           expired == Expired(status.reports, o.gen)
           reports == Retain(fresh \cup expired, status.reports)
           healthy == UNION {status.reports[a].healthy : a \in fresh}
           serving == aggregateServing(status.reports, fresh, expired)
           route == aggregateRouteAdvertised(status.reports, fresh, expired)
           dataPlane == aggregateDataPlaneReady(status.reports, fresh, expired)
<1>1. status.reports \in Reports /\ status.check \in Conditions /\ status.ready \in Conditions
    BY DEF Status
<1>2. /\ reports \in Reports /\ Reporting(reports) \subseteq Reporting(status.reports)
      /\ \A a \in Agents : reports[a] \in {status.reports[a], None}
      /\ \A a \in Agents : a \in Newest(fresh \cup expired, status.reports) =>
            reports[a] = status.reports[a]
    BY <1>1, RetainFields
<1>3. /\ fresh \subseteq Reporting(status.reports)
      /\ \A a \in fresh \cup expired : status.reports[a].gen = o.gen
      /\ fresh \cup expired \subseteq Agents
    BY DEF Fresh, Expired, Reporting
<1>4. healthy \subseteq o.spec.backends
    BY <1>3
<1>5. serving \in States /\ route \in States /\ dataPlane \in States \cup {None}
    BY AggregateTypes
<1>6. t = [status EXCEPT !.observed = o.gen, !.total = Cardinality(o.spec.backends),
                         !.healthy = healthy, !.reports = reports,
                         !.serving = Condition(serving, o.gen),
                         !.route = Condition(route, o.gen),
                         !.dataPlane = Condition(dataPlane, o.gen)]
    BY DEF RefreshAggregateStatus
<1>7. serving = "True" => \E a \in fresh : status.reports[a].serving = "True"
    BY DEF aggregateServing
<1>8. \A b \in healthy : \E a \in fresh : b \in status.reports[a].healthy
    OBVIOUS
<1>9. \A a \in Agents : Kept(status.reports[a], o.gen) => a \in fresh \cup expired
    <2> SUFFICES ASSUME NEW a \in Agents, Kept(status.reports[a], o.gen)
                 PROVE  a \in fresh \cup expired
        OBVIOUS
    <2>1. /\ a \in Reporting(status.reports) /\ status.reports[a].gen = o.gen
          /\ status.reports[a].age <= Retention
        BY DEF Kept, Reporting
    <2>2. status.reports[a].age \in Nat /\ TTL[a] \in Nat
        BY <1>1, <2>1, AgeAssumption DEF Reports, Report, Reporting
    <2>3. status.reports[a].age <= TTL[a] \/ status.reports[a].age > TTL[a]
        BY <2>2, SMTT(60)
    <2>. QED
        BY <2>1, <2>3 DEF Fresh, Expired
<1> HIDE DEF t, fresh, expired, reports, healthy, serving, route, dataPlane
<1>10. Condition(serving, o.gen) = [state |-> serving, gen |-> o.gen]
       /\ Condition(serving, o.gen) \in Conditions
       /\ Condition(route, o.gen) \in Conditions /\ Condition(dataPlane, o.gen) \in Conditions
    BY <1>5, ConditionType, NoneApart
<1>11. healthy \subseteq Backends /\ Cardinality(o.spec.backends) \in Nat
    BY <1>4, SpecBackends
<1>12. /\ t \in Status
       /\ t.observed = o.gen /\ t.healthy = healthy /\ t.reports = reports
       /\ t.serving = [state |-> serving, gen |-> o.gen]
    <2> DEFINE total == Cardinality(o.spec.backends)
               serves == Condition(serving, o.gen)
               routes == Condition(route, o.gen)
               data == Condition(dataPlane, o.gen)
    <2>1. t = [status EXCEPT !.observed = o.gen, !.total = total, !.healthy = healthy,
                             !.reports = reports, !.serving = serves, !.route = routes,
                             !.dataPlane = data]
        BY <1>6
    <2>2. /\ total \in Nat /\ healthy \in SUBSET Backends /\ reports \in Reports
          /\ serves \in Conditions /\ routes \in Conditions /\ data \in Conditions
        BY <1>2, <1>10, <1>11
    <2>3. serves = [state |-> serving, gen |-> o.gen]
        BY <1>10
    <2> HIDE DEF total, serves, routes, data
    <2>4. t \in Status
        BY <2>1, <2>2 DEF Status
    <2>5. t.observed = o.gen /\ t.healthy = healthy /\ t.reports = reports /\ t.serving = serves
        BY <2>1 DEF Status
    <2>. QED
        BY <2>3, <2>4, <2>5
<1>13. \A a \in Reporting(reports) :
           /\ reports[a] = status.reports[a]
           /\ a \in Reporting(status.reports)
    BY <1>2 DEF Reporting
<1>14. Fits(t, o)
    BY <1>4, <1>12, <1>13, SMTT(60) DEF Fits
<1>15. ASSUME Roomy
       PROVE  Supported(t, o.gen) /\ Copied(t.reports, status.reports, o.gen, Agents)
    <2>1. Newest(fresh \cup expired, status.reports) = fresh \cup expired
        BY <1>3, <1>15, NewestAll
    <2>2. \A a \in fresh : a \in Reporting(reports) /\ reports[a] = status.reports[a]
        BY <1>2, <1>3, <2>1 DEF Reporting
    <2>3. \A a \in Agents : Kept(status.reports[a], o.gen) => reports[a] = status.reports[a]
        BY <1>2, <1>9, <2>1
    <2>4. t.serving = [state |-> "True", gen |-> o.gen] =>
              \E a \in Reporting(reports) :
                  reports[a].gen = o.gen /\ reports[a].serving = "True"
        BY <1>3, <1>7, <1>12, <2>2, SMTT(60)
    <2>5. \A b \in healthy : \E a \in Reporting(reports) :
              reports[a].gen = o.gen /\ b \in reports[a].healthy
        BY <1>3, <1>8, <2>2
    <2>. QED
        BY <1>12, <2>3, <2>4, <2>5 DEF Supported, Copied
<1>. QED
    BY <1>12, <1>14, <1>15 DEF t

(* Capping a copy does not make it a worse one.                            *)
LEMMA SanitizedHeld ==
    ASSUME NEW status \in Status, NEW agents, Held(object, status, agents)
    PROVE  /\ SanitizeVirtualIPStatus(status) \in Status
           /\ Held(object, SanitizeVirtualIPStatus(status), agents)
<1>1. /\ SanitizeVirtualIPStatus(status) \in Status
      /\ Fits(SanitizeVirtualIPStatus(status), object)
      /\ Roomy => SanitizeVirtualIPStatus(status) = status
    BY SanitizeKeeps DEF Held
<1>. QED
    BY <1>1 DEF Held

(* An aggregate over a copy that has the reports of these agents.          *)
LEMMA RefreshHeld ==
    ASSUME object \in Objects, object # None, NEW status \in Status, NEW agents \in SUBSET Agents,
           \A a \in Reporting(status.reports) :
               /\ status.reports[a].gen <= object.gen
               /\ status.reports[a].gen = object.gen =>
                     status.reports[a].healthy \subseteq object.spec.backends,
           Copied(status.reports, object.status.reports, object.gen, agents)
    PROVE  LET t == RefreshAggregateStatus(status, object, object.gen)
           IN  t \in Status /\ Held(object, t, agents)
<1> DEFINE t == RefreshAggregateStatus(status, object, object.gen)
<1>1. object.gen \in Nat /\ object.spec \in Specs
    BY DEF Objects
<1>2. /\ t \in Status /\ Fits(t, object)
      /\ Roomy => Supported(t, object.gen)
      /\ Roomy => Copied(t.reports, status.reports, object.gen, Agents)
    BY <1>1, RefreshGood
<1> HIDE DEF t
<1>3. Roomy => Copied(t.reports, object.status.reports, object.gen, agents)
    BY <1>2 DEF Copied
<1>. QED
    BY <1>2, <1>3 DEF Held, t

(* What a reconcile pass reports.                                          *)
LEMMA OutcomeFields ==
    ASSUME NEW o \in Outcomes
    PROVE  /\ o.healthy \in SUBSET Backends /\ o.serving \in States
           /\ o.route \in States /\ o.dataPlane \in {"True", "False", None}
<1>1. o.healthy \in SUBSET Backends /\ o \in ReportedOutcomes(o.healthy)
    BY OutcomesAssumption
<1>2. PICK served \in States :
          \/ o \in [healthy : {o.healthy}, serving : {"Unknown"}, dataPlane : {None}, route : States]
          \/ o \in [healthy : {o.healthy}, serving : {served}, dataPlane : {None}, route : {"Unknown"}]
          \/ o \in [healthy : {o.healthy}, serving : {"Unknown"}, dataPlane : {"False"}, route : States]
          \/ o \in [healthy : {o.healthy}, serving : {served}, dataPlane : {"False"}, route : States]
          \/ o \in [healthy : {o.healthy}, serving : {served}, dataPlane : {"True"}, route : States]
    <2> DEFINE served == IF o.healthy # {} THEN "True" ELSE "False"
    <2>1. served \in States
        BY DEF States
    <2>. QED
        BY <1>1, <2>1 DEF ReportedOutcomes
<1>. QED
    BY <1>1, <1>2 DEF States

(* A version that passes the comparison is the object's generation.        *)
LEMMA CurrentVersion ==
    ASSUME TypeOK, Known, NEW v \in versions, IsCurrent(v)
    PROVE  /\ object # None /\ object \in Objects
           /\ v.gen = object.gen /\ v.spec = object.spec
BY DEF TypeOK, Known, IsCurrent

(* The report that an agent writes is about the backends of its version.   *)
LEMMA ReportType ==
    ASSUME NEW r, r.version \in Versions, r.outcome \in Outcomes
    PROVE  /\ ReportOf(r) \in Report /\ ReportOf(r).gen = r.version.gen
           /\ ReportOf(r).healthy \subseteq r.version.spec.backends
<1>1. r.version.gen \in Nat
    BY DEF Versions
<1>2. /\ r.outcome.healthy \in SUBSET Backends /\ r.outcome.serving \in States
      /\ r.outcome.route \in States /\ r.outcome.dataPlane \in {"True", "False", None}
    BY OutcomeFields
<1>. QED
    BY <1>1, <1>2 DEF ReportOf, Report

(* An agent's report is stored, and the reports of the others are kept or  *)
(* pruned, never changed.                                                  *)
LEMMA UpsertFields ==
    ASSUME NEW reports \in Reports, NEW agent \in Agents, NEW report \in Report, NEW gen
    PROVE  LET new == upsertAgentStatus(reports, agent, report, gen)
           IN  /\ new \in Reports
               /\ new[agent] = report
               /\ \A a \in Agents \ {agent} : new[a] \in {reports[a], None}
               /\ \A a \in Agents \ {agent} : Kept(reports[a], gen) => new[a] = reports[a]
<1>1. \A a \in Agents : reports[a] \in Report \cup {None}
    BY DEF Reports
<1>. QED
    BY <1>1 DEF upsertAgentStatus, Reports, Kept

(* A call that found its version current works on a good copy.             *)
LEMMA NewStatusGood ==
    ASSUME TypeOK, Known, Stored, NEW c \in Callers, NEW r \in Requests,
           r.version \in versions, IsCurrent(r.version)
    PROVE  NewStatus(c, r) \in Status /\ Held(object, NewStatus(c, r), Agents \ {AgentOf[c]})
<1> DEFINE gen == object.gen
           old == object.status
           agent == AgentOf[c]
           others == Agents \ {agent}
<1>1. /\ object # None /\ object \in Objects
      /\ r.version.gen = gen /\ r.version.spec = object.spec
    BY CurrentVersion
<1>2. /\ old \in Status /\ old.reports \in Reports /\ gen \in Nat
      /\ Fits(old, object) /\ (Roomy => Supported(old, gen))
    BY <1>1 DEF Objects, Status, Stored
<1>3. agent \in Agents /\ others \in SUBSET Agents
    BY CallersAssumption
<1>4. r.version \in Versions
    BY DEF TypeOK
<1>5. CASE r.outcome # None
    <2> DEFINE report == ReportOf(r)
               reports == upsertAgentStatus(old.reports, agent, report, gen)
               status == [old EXCEPT !.reports = reports]
               t == RefreshAggregateStatus(status, object, gen)
    <2>1. r.outcome \in Outcomes
        BY <1>5 DEF Requests
    <2>2. report \in Report /\ report.gen = gen /\ report.healthy \subseteq object.spec.backends
        BY <1>1, <1>4, <2>1, ReportType
    <2>3. NewStatus(c, r) = SanitizeVirtualIPStatus(t)
        BY <1>1, <1>5 DEF NewStatus, WithReport
    <2> HIDE DEF report
    <2>4. /\ reports \in Reports /\ reports[agent] = report
          /\ \A a \in others : reports[a] \in {old.reports[a], None}
          /\ \A a \in others : Kept(old.reports[a], gen) => reports[a] = old.reports[a]
        BY <1>2, <1>3, <2>2, UpsertFields, SMTT(60)
    <2> HIDE DEF reports
    <2>5. status \in Status /\ status.reports = reports
        BY <1>2, <2>4 DEF Status
    <2> HIDE DEF status
    <2>6. ASSUME NEW a \in Reporting(status.reports)
          PROVE  /\ status.reports[a].gen <= object.gen
                 /\ status.reports[a].gen = object.gen =>
                       status.reports[a].healthy \subseteq object.spec.backends
        <3>1. CASE a = agent
            BY <1>2, <2>2, <2>4, <2>5, <3>1, SMTT(60)
        <3>2. CASE a # agent
            <4>1. a \in others /\ reports[a] = old.reports[a] /\ old.reports[a] # None
                BY <2>4, <2>5, <2>6, <3>2 DEF Reporting
            <4>. QED
                BY <1>2, <2>5, <4>1 DEF Fits, Reporting
        <3>. QED
            BY <3>1, <3>2
    <2>7. Copied(status.reports, object.status.reports, object.gen, others)
        BY <2>4, <2>5 DEF Copied
    <2>8. t \in Status /\ Held(object, t, others)
        BY <1>1, <1>3, <2>5, <2>6, <2>7, RefreshHeld
    <2>. QED
        BY <2>3, <2>8, SanitizedHeld
<1>6. CASE r.outcome = None
    <2> DEFINE checked == [old EXCEPT !.check = Condition(r.check, gen)]
               t == RefreshAggregateStatus(checked, object, gen)
    <2>1. r.check \in {"True", "False"}
        BY <1>6, ObjectAssumption DEF Requests
    <2>2. Condition(r.check, gen) \in Conditions
        BY <1>2, <2>1, ConditionType DEF States
    <2>3. /\ r.check = "False" => NewStatus(c, r) = SanitizeVirtualIPStatus(t)
          /\ r.check # "False" => NewStatus(c, r) = SanitizeVirtualIPStatus(checked)
        BY <1>1, <1>6 DEF NewStatus, WithCheck
    <2>4. /\ checked \in Status /\ checked.reports = old.reports
          /\ checked.observed = old.observed /\ checked.healthy = old.healthy
          /\ checked.serving = old.serving
        BY <1>2, <2>2 DEF Status
    <2> HIDE DEF checked
    <2>5. Copied(checked.reports, object.status.reports, object.gen, others)
        BY <2>4 DEF Copied
    <2>6. Held(object, checked, others)
        BY <1>1, <1>2, <2>4, <2>5 DEF Held, Fits, Supported
    <2>7. t \in Status /\ Held(object, t, others)
        BY <1>1, <1>2, <1>3, <2>4, <2>5, RefreshHeld DEF Fits
    <2>. QED
        BY <2>3, <2>4, <2>6, <2>7, SanitizedHeld
<1>. QED
    BY <1>5, <1>6

(* The operator's new status is a good copy, with the reports of all agents. *)
LEMMA UpdatedStatusGood ==
    ASSUME object \in Objects, object # None, Stored
    PROVE  LET status == UpdatedStatus(object, RefreshedStatus(object))
           IN  status \in Status /\ Held(object, status, Agents)
<1> DEFINE gen == object.gen
           old == object.status
           refreshed == RefreshedStatus(object)
           capped == SanitizeVirtualIPStatus(refreshed)
           ready == Condition(IF object.spec.core /\ object.spec.check /\ object.spec.backends # {}
                              THEN "True" ELSE "False", gen)
           status == UpdatedStatus(object, refreshed)
<1>1. /\ old \in Status /\ gen \in Nat /\ object.spec \in Specs
      /\ Fits(old, object) /\ (Roomy => Supported(old, gen))
    BY DEF Objects, Stored
<1>2. Copied(old.reports, object.status.reports, object.gen, Agents)
    BY DEF Copied
<1>3. refreshed \in Status /\ Held(object, refreshed, Agents)
    <2>1. CASE old.observed = gen
        <3>1. refreshed = RefreshAggregateStatus(old, object, gen)
            BY <2>1 DEF RefreshedStatus
        <3>. QED
            BY <1>1, <1>2, <3>1, RefreshHeld DEF Fits
    <2>2. CASE old.observed # gen
        <3> DEFINE total == Cardinality(object.spec.backends)
        <3>1. refreshed = [old EXCEPT !.total = total] /\ total \in Nat
            BY <1>1, <2>2, SpecBackends DEF RefreshedStatus
        <3> HIDE DEF refreshed, total
        <3>2. /\ refreshed \in Status /\ refreshed.reports = old.reports
              /\ refreshed.observed = old.observed /\ refreshed.healthy = old.healthy
              /\ refreshed.serving = old.serving
            BY <1>1, <3>1 DEF Status
        <3>. QED
            BY <1>1, <1>2, <3>2 DEF Held, Fits, Supported
    <2>. QED
        BY <2>1, <2>2
<1>4. ready \in Conditions
    BY <1>1, ConditionType DEF States
<1>5. status = [capped EXCEPT !.ready = ready]
    BY DEF UpdatedStatus
<1> HIDE DEF refreshed, ready, status
<1>6. capped \in Status /\ Held(object, capped, Agents)
    BY <1>3, SanitizedHeld
<1> HIDE DEF capped
<1>7. /\ status \in Status /\ status.reports = capped.reports
      /\ status.observed = capped.observed /\ status.healthy = capped.healthy
      /\ status.serving = capped.serving
    BY <1>4, <1>5, <1>6 DEF Status
<1>8. Held(object, status, Agents)
    BY <1>6, <1>7 DEF Held, Fits, Supported
<1>. QED
    BY <1>7, <1>8 DEF status, refreshed

(* Time changes nothing of what a status says.                             *)
LEMMA OlderFields ==
    ASSUME NEW status \in Status
    PROVE  /\ Older(status) \in Status
           /\ \A a \in Agents : Older(status).reports[a] = OlderReport(status.reports[a])
           /\ Older(status).observed = status.observed
           /\ Older(status).healthy = status.healthy
           /\ Older(status).serving = status.serving
<1> DEFINE reports == [a \in Agents |-> OlderReport(status.reports[a])]
           t == Older(status)
<1>1. \A a \in Agents : status.reports[a] \in Report \cup {None}
    BY DEF Status, Reports
<1>2. reports \in Reports
    BY <1>1, OlderReportFields DEF Reports
<1>3. \A a \in Agents : reports[a] = OlderReport(status.reports[a])
    OBVIOUS
<1>4. t = [status EXCEPT !.reports = reports]
    BY NoneApart DEF Older
<1> HIDE DEF t, reports
<1>5. /\ t \in Status /\ t.reports = reports /\ t.observed = status.observed
      /\ t.healthy = status.healthy /\ t.serving = status.serving
    BY <1>2, <1>4 DEF Status
<1>. QED
    BY <1>3, <1>5 DEF t

(* Time passing changes neither what a status says of the agents nor which *)
(* object it is about.                                                     *)
LEMMA OlderKeeps ==
    ASSUME NEW status \in Status
    PROVE  /\ \A o : Fits(status, o) => Fits(Older(status), o)
           /\ \A gen : Supported(status, gen) => Supported(Older(status), gen)
<1> DEFINE t == Older(status)
<1>1. /\ t.observed = status.observed /\ t.healthy = status.healthy
      /\ t.serving = status.serving
      /\ \A a \in Agents : t.reports[a] = OlderReport(status.reports[a])
    BY OlderFields
<1>2. \A a \in Agents : status.reports[a] \in Report \cup {None}
    BY DEF Status, Reports
<1> HIDE DEF t
<1>3. Reporting(t.reports) = Reporting(status.reports)
    BY <1>1, <1>2, OlderReportFields, SMTT(60) DEF Reporting
<1>4. \A a \in Reporting(status.reports) :
          /\ t.reports[a].gen = status.reports[a].gen
          /\ t.reports[a].healthy = status.reports[a].healthy
          /\ t.reports[a].serving = status.reports[a].serving
    BY <1>1, <1>2, OlderReportFields, SMTT(60) DEF Reporting
<1>5. ASSUME NEW o, Fits(status, o) PROVE Fits(t, o)
    BY <1>1, <1>3, <1>4, <1>5 DEF Fits
<1>6. ASSUME NEW gen, Supported(status, gen) PROVE Supported(t, gen)
    BY <1>1, <1>3, <1>4, <1>6 DEF Supported
<1>. QED
    BY <1>5, <1>6 DEF t

(* A copy that was read stays a copy when it and the original grow older.  *)
LEMMA OlderCopies ==
    ASSUME NEW copy \in Status, NEW status \in Status, NEW gen, NEW agents \in SUBSET Agents,
           Copied(copy.reports, status.reports, gen, agents)
    PROVE  Copied(Older(copy).reports, Older(status).reports, gen, agents)
<1>1. \A a \in agents : /\ Older(copy).reports[a] = OlderReport(copy.reports[a])
                       /\ Older(status).reports[a] = OlderReport(status.reports[a])
    BY OlderFields
<1>2. \A a \in Agents : status.reports[a] \in Report \cup {None}
    BY DEF Status, Reports
<1>3. \A a \in agents : Kept(OlderReport(status.reports[a]), gen) => Kept(status.reports[a], gen)
    BY <1>2, OlderReportFields
<1>. QED
    BY <1>1, <1>3 DEF Copied

-----------------------------------------------------------------------------
(* The invariant                                                           *)

Calls == [Callers -> [request : Requests \cup {None}, status : Status \cup {None}]]
Operators ==
    [step : {"idle", "add finalizer", "remove finalizer", "status"}, status : Status \cup {None}]

(* Before the object is created there is nothing to be inconsistent.       *)
LEMMA InitInv == Init => StatusInv
<1> SUFFICES ASSUME Init PROVE StatusInv
    OBVIOUS
<1>1. call \in Calls /\ \A c \in Callers : call[c].request = None /\ call[c].status = None
    BY DEF Init, NoCall, Calls
<1>2. operator \in Operators /\ operator.status = None
    BY DEF Init, Idle, Operators
<1>. QED
    BY <1>1, <1>2
    DEF Init, StatusInv, TypeOK, Known, Stored, Copies, Calls, Operators

(* A write makes every other copy useless.                                 *)
LEMMA StoreStep ==
    ASSUME StatusInv, NEW writer, NEW new, Store(writer, new)
    PROVE  /\ object' = new
           /\ call' \in Calls
           /\ \A c \in Callers : call'[c].request # None => call'[c].request = call[c].request
           /\ operator' \in Operators
           /\ queued' \in BOOLEAN
           /\ Copies'
<1>1. call \in Calls /\ operator \in Operators
    BY DEF StatusInv, TypeOK, Calls, Operators
<1>2. call' = [c \in Callers |-> IF c = writer THEN NoCall
                                 ELSE [call[c] EXCEPT !.status = None]]
    BY DEF Store, OutOfDate
<1>3. ASSUME NEW c \in Callers
      PROVE  /\ call'[c] \in [request : Requests \cup {None}, status : Status \cup {None}]
             /\ call'[c].request # None => call'[c].request = call[c].request
             /\ call'[c].status = None
    <2>1. call'[c] = IF c = writer THEN NoCall ELSE [call[c] EXCEPT !.status = None]
        BY <1>2
    <2>2. call[c] \in [request : Requests \cup {None}, status : Status \cup {None}]
        BY <1>1 DEF Calls
    <2>. QED
        BY <2>1, <2>2, SMTT(60) DEF NoCall
<1>4. call' \in Calls
    BY <1>2, <1>3 DEF Calls
<1>5. operator' \in Operators /\ operator'.status = None
    <2>1. CASE writer = Operator
        BY <2>1 DEF Store, Idle, Operators
    <2>2. CASE writer # Operator
        <3>1. operator' = [operator EXCEPT !.status = None]
            BY <2>2 DEF Store, OutOfDate
        <3>. QED
            BY <1>1, <3>1 DEF Operators
    <2>. QED
        BY <2>1, <2>2
<1>6. Copies'
    BY <1>3, <1>5 DEF Copies
<1>. QED
    BY <1>3, <1>4, <1>5, <1>6 DEF Store

(* A write that leaves the generation of the object alone.                 *)
LEMMA SameGeneration ==
    ASSUME StatusInv, NEW writer, NEW new, Store(writer, new),
           new # None => /\ object # None
                         /\ new \in Objects
                         /\ new.uid = object.uid /\ new.gen = object.gen
                         /\ new.spec = object.spec
                         /\ Fits(new.status, new)
                         /\ Roomy => Supported(new.status, new.gen),
           created' = created, versions' = versions, called' = called, timer' \in BOOLEAN
    PROVE  StatusInv'
<1>1. /\ object' = new /\ call' \in Calls
      /\ \A c \in Callers : call'[c].request # None => call'[c].request = call[c].request
      /\ operator' \in Operators /\ queued' \in BOOLEAN /\ Copies'
    BY StoreStep
<1>2. TypeOK'
    BY <1>1 DEF StatusInv, TypeOK, Calls, Operators
<1>3. Known'
    BY <1>1 DEF StatusInv, Known
<1>4. Stored'
    BY <1>1 DEF StatusInv, Stored
<1>. QED
    BY <1>1, <1>2, <1>3, <1>4 DEF StatusInv

(* The status of a new object is a status.                                 *)
LEMMA EmptyStatusType == EmptyStatus \in Status
<1>1. [a \in Agents |-> None] \in Reports
    BY DEF Reports
<1>. QED
    BY <1>1 DEF EmptyStatus, Status, Conditions

(* A new object knows of no report, and nobody knows of it.                *)
LEMMA CreateInv ==
    ASSUME StatusInv, NEW spec \in Specs, Create(spec)
    PROVE  StatusInv'
<1> DEFINE new == [uid |-> created', gen |-> 1, spec |-> spec, deleting |-> FALSE,
                   finalizer |-> FALSE, status |-> EmptyStatus]
<1>1. Store(User, new) /\ created' = created + 1
    BY DEF Create
<1>2. created \in Nat /\ versions \subseteq Versions
    BY DEF StatusInv, TypeOK
<1>3. new \in Objects /\ new.uid = created + 1 /\ new.gen = 1 /\ new.spec = spec
      /\ new.status = EmptyStatus
    BY <1>1, <1>2, EmptyStatusType, SMTT(60) DEF Objects
<1> HIDE DEF new
<1>4. /\ object' = new /\ call' \in Calls
      /\ \A c \in Callers : call'[c].request # None => call'[c].request = call[c].request
      /\ operator' \in Operators /\ queued' \in BOOLEAN /\ Copies'
    BY <1>1, StoreStep
<1>5. versions' = versions \cup {Version(new)} /\ called' = called /\ timer' = timer
    BY <1>4 DEF Create
<1>6. /\ Version(new) \in Versions /\ Version(new).uid = created + 1
      /\ Version(new).gen = 1 /\ Version(new).spec = spec
    BY <1>2, <1>3, SMTT(60) DEF Version, Versions
<1>7. TypeOK'
    <2>1. created' \in Nat /\ versions' \subseteq Versions /\ object' \in Objects
        BY <1>1, <1>2, <1>3, <1>4, <1>5, <1>6, SMTT(60)
    <2>2. called' \in Nat /\ timer' \in BOOLEAN
        BY <1>5 DEF StatusInv, TypeOK
    <2>. QED
        BY <1>4, <2>1, <2>2 DEF TypeOK, Calls, Operators
<1>8. Known'
    <2>1. ASSUME NEW v \in versions'
          PROVE  /\ v.uid <= created'
                 /\ v.uid = new.uid => v.gen <= new.gen /\ (v.gen = new.gen => v.spec = new.spec)
        <3>1. CASE v \in versions
            <4>1. v.uid <= created /\ v.uid \in Nat
                BY <1>2, <3>1 DEF StatusInv, Known, Versions
            <4>. QED
                BY <1>1, <1>2, <1>3, <4>1, SMTT(60)
        <3>2. CASE v = Version(new)
            BY <1>1, <1>2, <1>3, <1>6, <3>2, SMTT(60)
        <3>. QED
            BY <1>5, <2>1, <3>1, <3>2
    <2>. QED
        BY <1>4, <1>5, <2>1 DEF StatusInv, Known
<1>9. Stored'
    <2>1. /\ EmptyStatus.observed = 0 /\ EmptyStatus.healthy = {} /\ EmptyStatus.serving = None
          /\ Reporting(EmptyStatus.reports) = {}
        BY DEF EmptyStatus, Reporting
    <2>2. Fits(EmptyStatus, new)
        BY <1>3, <2>1, SMTT(60) DEF Fits
    <2>3. Supported(EmptyStatus, new.gen)
        BY <1>3, <2>1, SMTT(60) DEF Supported
    <2>. QED
        BY <1>1, <1>2, <1>3, <1>4, <2>2, <2>3, SMTT(60) DEF Stored
<1>. QED
    BY <1>4, <1>7, <1>8, <1>9 DEF StatusInv

(* What the status says is about an earlier generation from now on.        *)
LEMMA NextGeneration ==
    ASSUME StatusInv, object # None, NEW new \in Objects, Store(User, new),
           new.uid = object.uid, new.gen = object.gen + 1, new.status = object.status,
           versions' \in {versions, versions \cup {Version(new)}},
           created' = created, called' = called, timer' = timer
    PROVE  StatusInv'
<1>1. /\ object' = new /\ call' \in Calls
      /\ \A c \in Callers : call'[c].request # None => call'[c].request = call[c].request
      /\ operator' \in Operators /\ queued' \in BOOLEAN /\ Copies'
    BY StoreStep
<1>2. /\ object \in Objects /\ object.gen \in Nat /\ object.uid \in Nat
      /\ object.status \in Status
    BY DEF StatusInv, TypeOK, Objects
<1>3. /\ Version(new) \in Versions /\ Version(new).uid = object.uid
      /\ Version(new).gen = new.gen /\ Version(new).spec = new.spec
    BY DEF Version, Versions, Objects
<1>4. TypeOK'
    BY <1>1, <1>3 DEF StatusInv, TypeOK, Calls, Operators
<1>5. Known'
    <2>1. ASSUME NEW v \in versions'
          PROVE  /\ v.uid <= created'
                 /\ v.uid = new.uid => v.gen <= new.gen /\ (v.gen = new.gen => v.spec = new.spec)
        <3>1. CASE v \in versions
            <4>1. v \in Versions /\ v.gen \in Nat
                BY <3>1 DEF StatusInv, TypeOK, Versions
            <4>2. v.uid <= created /\ (v.uid = object.uid => v.gen <= object.gen)
                BY <3>1 DEF StatusInv, Known
            <4>. QED
                BY <1>2, <4>1, <4>2, SMTT(60)
        <3>2. CASE v = Version(new)
            BY <1>2, <1>3, <3>2, SMTT(60) DEF StatusInv, Stored
        <3>. QED
            BY <2>1, <3>1, <3>2
    <2>. QED
        BY <1>1, <2>1 DEF StatusInv, Known
<1>6. Stored'
    <2> DEFINE status == object.status
    <2>1. Fits(status, object) /\ object.uid <= created
        BY DEF StatusInv, Stored
    <2>2. /\ \A a \in Reporting(status.reports) : status.reports[a].gen \in Nat
          /\ status.observed \in Nat
        BY <1>2 DEF Status, Reports, Report, Reporting
    <2> HIDE DEF status
    <2>3. /\ \A a \in Reporting(status.reports) :
                status.reports[a].gen <= new.gen /\ status.reports[a].gen # new.gen
          /\ status.observed <= new.gen /\ status.observed # new.gen
        BY <1>2, <2>1, <2>2, SMTT(60) DEF Fits
    <2>4. Fits(status, new) /\ Supported(status, new.gen)
        BY <2>1, <2>3 DEF Fits, Supported
    <2>. QED
        BY <1>1, <2>1, <2>4 DEF Stored, status
<1>. QED
    BY <1>1, <1>4, <1>5, <1>6 DEF StatusInv

(* Writing a copy that is still one.                                       *)
LEMMA WriteCopy ==
    ASSUME StatusInv, NEW writer, NEW status \in Status, NEW agents, Held(object, status, agents),
           Store(writer, [object EXCEPT !.status = status]),
           created' = created, versions' = versions, called' = called, timer' \in BOOLEAN
    PROVE  /\ StatusInv'
           /\ object' # None => object'.status = status
<1> DEFINE new == [object EXCEPT !.status = status]
<1>1. object # None /\ object \in Objects
    BY DEF Held, StatusInv, TypeOK
<1>2. /\ new \in Objects /\ new.uid = object.uid /\ new.gen = object.gen
      /\ new.spec = object.spec /\ new.status = status
    BY <1>1 DEF Objects
<1>3. Store(writer, new)
    OBVIOUS
<1> HIDE DEF new
<1>4. Fits(status, new) /\ (Roomy => Supported(status, new.gen))
    BY <1>2 DEF Held, Fits
<1>5. StatusInv'
    BY <1>1, <1>2, <1>3, <1>4, SameGeneration
<1>6. object' = new
    BY <1>3 DEF Store
<1>. QED
    BY <1>2, <1>5, <1>6

(* An attempt works on the object as it is.                                *)
LEMMA AttemptInv ==
    ASSUME StatusInv, NEW c \in Callers, NEW r \in Requests, r.version \in versions,
           Attempt(c, r), called' \in Nat
    PROVE  StatusInv'
<1> DEFINE copy == IF IsCurrent(r.version) THEN NewStatus(c, r) ELSE None
           own == call'[c]
<1>1. call \in Calls /\ UNCHANGED <<object, created, versions, operator, queued, timer>>
    BY DEF Attempt, StatusInv, TypeOK, Calls
<1>2. call' = [call EXCEPT ![c] = own]
      /\ own = IF IsCurrent(r.version) THEN [request |-> r, status |-> copy] ELSE NoCall
    BY <1>1 DEF Attempt, Calls
<1>3. IsCurrent(r.version) => copy \in Status /\ Held(object, copy, Agents \ {AgentOf[c]})
    BY NewStatusGood DEF StatusInv
<1> HIDE DEF copy, own
<1>4. /\ own \in [request : Requests \cup {None}, status : Status \cup {None}]
      /\ own.request \in {r, None}
      /\ own.status # None => Held(object, own.status, Agents \ {AgentOf[c]})
    BY <1>2, <1>3 DEF NoCall
<1>5. call' \in Calls /\ \A d \in Callers : call'[d] = IF d = c THEN own ELSE call[d]
    BY <1>1, <1>2, <1>4 DEF Calls
<1>6. TypeOK'
    BY <1>1, <1>5 DEF StatusInv, TypeOK, Calls
<1>7. Known'
    BY <1>1, <1>4, <1>5 DEF StatusInv, Known
<1>8. Stored'
    BY <1>1 DEF StatusInv, Stored
<1>9. Copies'
    BY <1>1, <1>4, <1>5 DEF StatusInv, Copies, Held
<1>. QED
    BY <1>6, <1>7, <1>8, <1>9 DEF StatusInv

(* The steps that change only the work queue, or drop a call or a reconcile. *)
LEMMA QuietInv ==
    ASSUME StatusInv, UNCHANGED <<object, created, versions, called>>,
           queued' \in BOOLEAN, timer' \in BOOLEAN,
           \/ UNCHANGED call \/ \E c \in Callers : call' = [call EXCEPT ![c] = NoCall],
           \/ UNCHANGED operator
           \/ /\ operator' \in Operators
              /\ operator'.status # None =>
                    /\ operator'.step # "idle"
                    /\ operator'.step = "status" => Held(object, operator'.status, Agents)
    PROVE  StatusInv'
<1>1. call \in Calls /\ operator \in Operators
    BY DEF StatusInv, TypeOK, Calls, Operators
<1>2. NoCall \in [request : Requests \cup {None}, status : Status \cup {None}]
      /\ NoCall.request = None /\ NoCall.status = None
    BY DEF NoCall
<1>3. call' \in Calls /\ \A c \in Callers : call'[c] \in {call[c], NoCall}
    <2>1. CASE UNCHANGED call
        BY <1>1, <2>1
    <2>2. CASE \E c \in Callers : call' = [call EXCEPT ![c] = NoCall]
        BY <1>1, <1>2, <2>2 DEF Calls
    <2>. QED
        BY <2>1, <2>2
<1>4. operator' \in Operators
    BY <1>1
<1>5. TypeOK'
    BY <1>3, <1>4 DEF StatusInv, TypeOK, Calls, Operators
<1>6. Known'
    BY <1>2, <1>3 DEF StatusInv, Known
<1>7. Stored'
    BY DEF StatusInv, Stored
<1>8. Copies'
    <2>1. \A c \in Callers :
             call'[c].status # None => Held(object, call'[c].status, Agents \ {AgentOf[c]})
        BY <1>2, <1>3 DEF StatusInv, Copies
    <2>2. operator'.status # None =>
              /\ operator'.step # "idle"
              /\ operator'.step = "status" => Held(object, operator'.status, Agents)
        BY DEF StatusInv, Copies
    <2>. QED
        BY <2>1, <2>2 DEF Copies, Held
<1>. QED
    BY <1>5, <1>6, <1>7, <1>8 DEF StatusInv

(* The operator reads the object and plans a write, or finds nothing to do.*)
LEMMA ReconcileInv ==
    ASSUME StatusInv, Reconcile
    PROVE  StatusInv'
<1>1. /\ UNCHANGED <<object, created, versions, called, call>> /\ queued' = FALSE
      /\ timer \in BOOLEAN
    BY DEF Reconcile, StatusInv, TypeOK
<1>2. CASE UNCHANGED <<operator, timer>>
    BY <1>1, <1>2, QuietInv
<1>3. CASE UNCHANGED operator /\ timer' = (timer \/ shouldRequeueAgentStatusPrune(object))
    BY <1>1, <1>3, QuietInv
<1>4. ASSUME object # None,
             NEW status, status = UpdatedStatus(object, RefreshedStatus(object)),
             operator' = [step |-> ReconcileStep(object),
                          status |-> IF ReconcileStep(object) = "status" THEN status
                                     ELSE EmptyStatus],
             UNCHANGED timer
      PROVE  StatusInv'
    <2>1. object \in Objects
        BY <1>4 DEF StatusInv, TypeOK
    <2>2. status \in Status /\ Held(object, status, Agents)
        BY <1>4, <2>1, UpdatedStatusGood DEF StatusInv
    <2>3. ReconcileStep(object) \in {"add finalizer", "remove finalizer", "status"}
        BY DEF ReconcileStep
    <2>4. /\ operator' \in Operators /\ operator'.step # "idle"
          /\ operator'.step = "status" => Held(object, operator'.status, Agents)
        BY <1>4, <2>2, <2>3, EmptyStatusType DEF Operators
    <2>. QED
        BY <1>1, <1>4, <2>4, QuietInv
<1>. QED
    BY <1>2, <1>3, <1>4 DEF Reconcile

(* The operator's write succeeds only on the version that it read.         *)
LEMMA OperatorWritesInv ==
    ASSUME StatusInv, OperatorWrites
    PROVE  StatusInv'
<1>1. /\ object # None /\ object \in Objects /\ operator.status # None
      /\ operator \in Operators /\ operator.step # "idle"
      /\ UNCHANGED <<created, versions, called>>
    BY DEF OperatorWrites, StatusInv, TypeOK, Copies, Operators
<1>2. timer' \in BOOLEAN
    BY DEF OperatorWrites
<1>3. CASE operator.step = "remove finalizer"
    <2>1. Store(Operator, None)
        BY <1>3 DEF OperatorWrites
    <2>. QED
        BY <1>1, <1>2, <2>1, SameGeneration
<1>4. CASE operator.step = "add finalizer"
    <2> DEFINE new == [object EXCEPT !.finalizer = TRUE]
    <2>1. Store(Operator, new)
        BY <1>4 DEF OperatorWrites
    <2>2. /\ new \in Objects /\ new.uid = object.uid /\ new.gen = object.gen
          /\ new.spec = object.spec /\ new.status = object.status
        BY <1>1 DEF Objects
    <2> HIDE DEF new
    <2>3. Fits(object.status, new) /\ (Roomy => Supported(object.status, new.gen))
        BY <1>1, <2>2 DEF StatusInv, Stored, Fits
    <2>. QED
        BY <1>1, <1>2, <2>1, <2>2, <2>3, SameGeneration
<1>5. CASE operator.step = "status"
    <2>1. Store(Operator, [object EXCEPT !.status = operator.status])
        BY <1>5 DEF OperatorWrites
    <2>2. operator.status \in Status /\ Held(object, operator.status, Agents)
        BY <1>1, <1>5 DEF StatusInv, Copies, Operators
    <2>. QED
        BY <1>1, <1>2, <2>1, <2>2, WriteCopy
<1>. QED
    BY <1>1, <1>3, <1>4, <1>5 DEF Operators

(* A write that is refused or lost leaves the object as it is.             *)
LEMMA OperatorFailsInv ==
    ASSUME StatusInv, OperatorRefused \/ RequeueAfter
                      \/ \E restart \in BOOLEAN : OperatorFails(restart)
    PROVE  StatusInv'
<1>1. Idle \in Operators /\ Idle.status = None
    BY DEF Idle, Operators
<1>2. /\ UNCHANGED <<object, created, versions, called, call>> /\ queued' = TRUE
      /\ UNCHANGED operator \/ operator' = Idle
    BY DEF OperatorRefused, RequeueAfter, OperatorFails
<1>3. timer' \in BOOLEAN
    BY DEF OperatorRefused, RequeueAfter, OperatorFails, StatusInv, TypeOK
<1>. QED
    BY <1>1, <1>2, <1>3, QuietInv

(* A copy and the object grow older together.                              *)
LEMMA TickHeld ==
    ASSUME StatusInv, object # None, object' = [object EXCEPT !.status = Older(@)],
           NEW status \in Status, NEW agents \in SUBSET Agents, Held(object, status, agents)
    PROVE  Held(object', Older(status), agents)
<1>1. object \in Objects /\ object.status \in Status
    BY DEF StatusInv, TypeOK, Objects
<1>2. /\ object' \in Objects /\ object'.gen = object.gen /\ object'.spec = object.spec
      /\ object'.status = Older(object.status)
    BY <1>1, OlderFields DEF Objects
<1>3. object' # None
    BY <1>2, ObjectAssumption
<1>4. Fits(Older(status), object')
    BY <1>2, OlderKeeps DEF Held, Fits
<1>5. Roomy => Supported(Older(status), object.gen)
    BY OlderKeeps DEF Held
<1>6. Roomy => Copied(Older(status).reports, Older(object.status).reports, object.gen, agents)
    BY <1>1, OlderCopies DEF Held
<1>. QED
    BY <1>2, <1>3, <1>4, <1>5, <1>6 DEF Held

(* Time passes for the stored reports and for the copies alike.            *)
LEMMA TickInv ==
    ASSUME StatusInv, Tick
    PROVE  StatusInv'
<1> DEFINE Call == [request : Requests \cup {None}, status : Status \cup {None}]
<1>1. /\ UNCHANGED <<created, versions, called, queued, timer>>
      /\ call' = [c \in Callers |-> [call[c] EXCEPT !.status = Older(@)]]
      /\ operator' = [operator EXCEPT !.status = Older(@)]
    BY DEF Tick
<1>2. call \in Calls /\ operator \in Operators /\ object \in Objects \cup {None}
    BY DEF StatusInv, TypeOK, Calls, Operators
<1>3. \A s \in Status \cup {None} :
          Older(s) \in Status \cup {None} /\ (Older(s) = None <=> s = None)
    <2>1. Older(None) = None
        BY DEF Older
    <2>. QED
        BY <2>1, OlderFields, NoneApart
<1>4. ASSUME NEW c \in Callers
      PROVE  /\ call'[c] \in Call /\ call'[c].request = call[c].request
             /\ call'[c].status = Older(call[c].status)
             /\ call[c].status \in Status \cup {None}
    <2>1. call[c] \in Call /\ call'[c] = [call[c] EXCEPT !.status = Older(call[c].status)]
        BY <1>1, <1>2 DEF Calls
    <2>. QED
        BY <1>3, <2>1
<1>5. call' \in Calls
    BY <1>1, <1>4 DEF Calls
<1>6. /\ operator' \in Operators /\ operator'.step = operator.step
      /\ operator'.status = Older(operator.status)
      /\ operator.status \in Status \cup {None}
    BY <1>1, <1>2, <1>3 DEF Operators
<1>7. CASE object = None
    <2>1. object' = None
        BY <1>7 DEF Tick
    <2>2. (\A c \in Callers : call[c].status = None) /\ (operator.step = "status" => operator.status = None)
        BY <1>7 DEF StatusInv, Copies, Held
    <2>3. TypeOK'
        BY <1>1, <1>5, <1>6, <2>1 DEF StatusInv, TypeOK, Calls, Operators
    <2>4. Known' /\ Stored'
        BY <1>1, <1>4, <2>1 DEF StatusInv, Known, Stored
    <2>5. Copies'
        BY <1>3, <1>4, <1>6, <2>2 DEF StatusInv, Copies
    <2>. QED
        BY <2>3, <2>4, <2>5 DEF StatusInv
<1>8. CASE object # None
    <2>1. object' = [object EXCEPT !.status = Older(@)] /\ object \in Objects
        BY <1>2, <1>8 DEF Tick
    <2>2. object.status \in Status
        BY <2>1 DEF Objects
    <2>3. /\ object' \in Objects /\ object'.uid = object.uid /\ object'.gen = object.gen
          /\ object'.spec = object.spec /\ object'.status = Older(object.status)
        BY <2>1, <2>2, OlderFields DEF Objects
    <2>4. TypeOK'
        BY <1>1, <1>5, <1>6, <2>3 DEF StatusInv, TypeOK, Calls, Operators
    <2>5. Known'
        BY <1>1, <1>4, <1>8, <2>3 DEF StatusInv, Known
    <2>6. Held(object, object.status, {})
        BY <1>8 DEF StatusInv, Stored, Held, Copied
    <2>7. Held(object', Older(object.status), {})
        BY <1>8, <2>1, <2>2, <2>6, TickHeld
    <2>8. Stored'
        BY <1>1, <1>8, <2>3, <2>7 DEF StatusInv, Stored, Held
    <2>9. ASSUME NEW c \in Callers, call'[c].status # None
          PROVE  Held(object, call[c].status, Agents \ {AgentOf[c]}) /\ call[c].status \in Status
        BY <1>3, <1>4, <2>9 DEF StatusInv, Copies
    <2>10. \A c \in Callers :
               call'[c].status # None => Held(object', Older(call[c].status), Agents \ {AgentOf[c]})
        BY <1>8, <2>1, <2>9, TickHeld
    <2>11. operator'.status # None =>
               /\ operator.step # "idle" /\ operator.status \in Status
               /\ operator.step = "status" => Held(object, operator.status, Agents)
        BY <1>3, <1>6 DEF StatusInv, Copies
    <2>12. operator'.status # None /\ operator.step = "status" =>
               Held(object', Older(operator.status), Agents)
        BY <1>8, <2>1, <2>11, TickHeld
    <2>13. Copies'
        BY <1>4, <1>6, <2>10, <2>11, <2>12 DEF Copies, Held
    <2>. QED
        BY <2>4, <2>5, <2>8, <2>13 DEF StatusInv
<1>. QED
    BY <1>7, <1>8

(* An object of the next generation.                                       *)
LEMMA NextObject ==
    ASSUME NEW o \in Objects
    PROVE  /\ \A spec \in Specs :
                 LET new == [o EXCEPT !.gen = @ + 1, !.spec = spec]
                 IN  /\ new \in Objects /\ new.uid = o.uid /\ new.gen = o.gen + 1
                     /\ new.status = o.status
           /\ LET new == [o EXCEPT !.deleting = TRUE, !.gen = @ + 1]
              IN  /\ new \in Objects /\ new.uid = o.uid /\ new.gen = o.gen + 1
                  /\ new.status = o.status
<1> DEFINE gen == o.gen + 1
<1>1. gen \in Nat
    BY SMTT(60) DEF Objects
<1>2. ASSUME NEW spec \in Specs
      PROVE  LET new == [o EXCEPT !.gen = @ + 1, !.spec = spec]
             IN  /\ new \in Objects /\ new.uid = o.uid /\ new.gen = o.gen + 1
                 /\ new.status = o.status
    <2> DEFINE new == [o EXCEPT !.gen = @ + 1, !.spec = spec]
    <2>1. new = [o EXCEPT !.gen = gen, !.spec = spec]
        OBVIOUS
    <2> HIDE DEF gen, new
    <2>2. new \in Objects /\ new.uid = o.uid /\ new.gen = gen /\ new.status = o.status
        BY <1>1, <2>1 DEF Objects
    <2>. QED
        BY <2>2 DEF gen, new
<1>3. LET new == [o EXCEPT !.deleting = TRUE, !.gen = @ + 1]
      IN  /\ new \in Objects /\ new.uid = o.uid /\ new.gen = o.gen + 1
          /\ new.status = o.status
    <2> DEFINE new == [o EXCEPT !.deleting = TRUE, !.gen = @ + 1]
    <2>1. new = [o EXCEPT !.deleting = TRUE, !.gen = gen]
        OBVIOUS
    <2> HIDE DEF gen, new
    <2>2. new \in Objects /\ new.uid = o.uid /\ new.gen = gen /\ new.status = o.status
        BY <1>1, <2>1 DEF Objects
    <2>. QED
        BY <2>2 DEF gen, new
<1>. QED
    BY <1>2, <1>3

(* The user's edits and the deletion start another generation, or end the  *)
(* object.                                                                 *)
LEMMA UserInv ==
    ASSUME StatusInv, UserWrites
    PROVE  StatusInv'
<1>1. ASSUME NEW spec \in Specs, Create(spec) PROVE StatusInv'
    BY <1>1, CreateInv
<1>2. ASSUME NEW spec \in Specs, Edit(spec) PROVE StatusInv'
    <2> DEFINE new == [object EXCEPT !.gen = @ + 1, !.spec = spec]
    <2>1. Store(User, new) /\ UNCHANGED <<created, called, timer>>
        BY <1>2 DEF Edit
    <2>2. object # None /\ object \in Objects
        BY <1>2 DEF Edit, StatusInv, TypeOK
    <2>3. /\ new \in Objects /\ new.uid = object.uid /\ new.gen = object.gen + 1
          /\ new.status = object.status
        BY <2>2, NextObject
    <2>4. versions' = versions \cup {Version(new)}
        BY <1>2 DEF Edit, Store
    <2> HIDE DEF new
    <2>. QED
        BY <2>1, <2>2, <2>3, <2>4, NextGeneration
<1>3. ASSUME Delete, object.finalizer PROVE StatusInv'
    <2> DEFINE new == [object EXCEPT !.deleting = TRUE, !.gen = @ + 1]
    <2>1. Store(User, new) /\ UNCHANGED <<created, versions, called, timer>>
        BY <1>3 DEF Delete
    <2>2. object # None /\ object \in Objects
        BY <1>3 DEF Delete, StatusInv, TypeOK
    <2>3. /\ new \in Objects /\ new.uid = object.uid /\ new.gen = object.gen + 1
          /\ new.status = object.status
        BY <2>2, NextObject
    <2> HIDE DEF new
    <2>. QED
        BY <2>1, <2>2, <2>3, NextGeneration
<1>4. ASSUME Delete, ~object.finalizer PROVE StatusInv'
    <2>1. /\ Store(User, None) /\ UNCHANGED <<created, versions, called>>
          /\ timer' \in BOOLEAN
        BY <1>4 DEF Delete, StatusInv, TypeOK
    <2>. QED
        BY <2>1, SameGeneration
<1>. QED
    BY <1>1, <1>2, <1>3, <1>4 DEF UserWrites

(* Every step of an agent: the call of its reconciler, the read, the write,*)
(* the conflict and the retry.                                             *)
LEMMA AgentInv ==
    ASSUME StatusInv, Agent
    PROVE  StatusInv'
<1>1. ASSUME NEW c \in Callers, NEW r \in Requests, UpdateStatus(c, r) PROVE StatusInv'
    <2>1. r.version \in versions /\ Attempt(c, r)
        BY <1>1 DEF UpdateStatus
    <2>2. called' \in Nat
        <3>1. called' = called + 1
            BY <1>1 DEF UpdateStatus
        <3>2. called \in Nat
            BY DEF StatusInv, TypeOK
        <3>. QED
            BY <3>1, <3>2, SMTT(60)
    <2>. QED
        BY <2>1, <2>2, AttemptInv
<1>2. ASSUME NEW c \in Callers, WriteStatus(c) PROVE StatusInv'
    <2>1. /\ call[c].status # None /\ Store(c, [object EXCEPT !.status = call[c].status])
          /\ UNCHANGED <<created, versions, called, timer>>
        BY <1>2 DEF WriteStatus
    <2>2. call[c].status \in Status /\ Held(object, call[c].status, Agents \ {AgentOf[c]})
        BY <1>2 DEF WriteStatus, StatusInv, TypeOK, Copies
    <2>3. timer' \in BOOLEAN
        BY <1>2 DEF WriteStatus, StatusInv, TypeOK
    <2>. QED
        BY <2>1, <2>2, <2>3, WriteCopy
<1>3. ASSUME NEW c \in Callers, Retry(c) PROVE StatusInv'
    <2>1. call[c] \in [request : Requests \cup {None}, status : Status \cup {None}]
        BY DEF StatusInv, TypeOK
    <2>2. call[c].request # None
        BY <1>3, <2>1 DEF Retry, NoCall
    <2>3. call[c].request \in Requests /\ call[c].request.version \in versions
        BY <2>1, <2>2 DEF StatusInv, Known
    <2>4. Attempt(c, call[c].request) /\ called' \in Nat
        BY <1>3 DEF Retry, StatusInv, TypeOK
    <2>. QED
        BY <2>3, <2>4, AttemptInv
<1>4. ASSUME NEW c \in Callers, GiveUp(c) PROVE StatusInv'
    BY <1>4, QuietInv DEF GiveUp, StatusInv, TypeOK
<1>5. ASSUME NEW c \in Callers, NEW v \in versions, NEW o \in Outcomes,
             UpdateStatus(c, [version |-> v, outcome |-> o, check |-> None])
      PROVE  StatusInv'
    <2>1. v \in Versions
        BY DEF StatusInv, TypeOK
    <2>2. [version |-> v, outcome |-> o, check |-> None] \in Requests
        BY <2>1 DEF Requests
    <2>. QED
        BY <1>1, <1>5, <2>2
<1>6. ASSUME NEW c \in Callers, NEW v \in versions, NEW check \in {"True", "False"},
             UpdateStatus(c, [version |-> v, outcome |-> None, check |-> check])
      PROVE  StatusInv'
    <2>1. v \in Versions
        BY DEF StatusInv, TypeOK
    <2>2. [version |-> v, outcome |-> None, check |-> check] \in Requests
        BY <2>1 DEF Requests
    <2>. QED
        BY <1>1, <1>6, <2>2
<1>. QED
    BY <1>2, <1>3, <1>4, <1>5, <1>6 DEF Agent

(* Every step keeps the inductive invariant.                               *)
LEMMA NextInv == StatusInv /\ [Next]_vars => StatusInv'
<1> SUFFICES ASSUME StatusInv, [Next]_vars PROVE StatusInv'
    OBVIOUS
<1>1. CASE UNCHANGED vars
    <2>1. queued \in BOOLEAN /\ timer \in BOOLEAN
        BY DEF StatusInv, TypeOK
    <2>. QED
        BY <1>1, <2>1, QuietInv DEF vars
<1>. QED
    BY <1>1, UserInv, AgentInv, ReconcileInv, OperatorWritesInv, OperatorFailsInv, TickInv
       DEF Next

(* Whoever is about to write to a VirtualIP's status has the status as it  *)
(* is stored, up to what it writes itself, or will be refused: the         *)
(* invariant that every other property of the status rests on.             *)
THEOREM StatusInvHolds == Spec => []StatusInv
BY InitInv, NextInv, PTL DEF Spec

(* The stored status and what agents and operator are about to write are   *)
(* always of their types.                                                  *)
THEOREM StatusTypes == Spec => []TypeOK
<1>1. StatusInv => TypeOK
    BY DEF StatusInv
<1>. QED
    BY <1>1, StatusInvHolds, PTL

(* What the status says of a generation is about that generation, with any *)
(* number of agents that report on versions that are out of date.          *)
THEOREM StatusAboutItsGeneration == Spec => []AboutItsGeneration
<1>1. StatusInv => AboutItsGeneration
    BY DEF StatusInv, Stored, Fits, AboutItsGeneration
<1>. QED
    BY <1>1, StatusInvHolds, PTL

(* A VirtualIP is serving, and a backend is healthy, only if a report that *)
(* is still there says so, whatever the TTLs and the retention.            *)
THEOREM StatusBacked == Spec => []Backed
<1>1. StatusInv => Backed
    <2> SUFFICES ASSUME StatusInv, object # None, object.status.observed = object.gen, Roomy
                 PROVE  LET reports == object.status.reports
                        IN  /\ Green =>
                                  \E a \in Reporting(reports) :
                                      reports[a].gen = object.gen /\ reports[a].serving = "True"
                            /\ \A b \in object.status.healthy :
                                  \E a \in Reporting(reports) :
                                      reports[a].gen = object.gen /\ b \in reports[a].healthy
        BY DEF Backed, Roomy
    <2>. QED
        BY DEF StatusInv, Stored, Supported, Green
<1>. QED
    BY <1>1, StatusInvHolds, PTL

(* No writer loses a report of another agent on the object's generation    *)
(* that is not older than the retention.                                   *)
THEOREM StatusReportsKept == Spec => ReportsKept
<1>1. ASSUME StatusInv, [Next]_vars PROVE [KeepsReports]_vars
    <2> SUFFICES ASSUME NEW a \in Agents, Roomy, object # None, object' # None,
                        object'.uid = object.uid, object'.gen = object.gen,
                        Kept(object.status.reports[a], object.gen)
                 PROVE  \/ object'.status.reports[a] = object.status.reports[a]
                        \/ object'.status.reports[a] = OlderReport(object.status.reports[a])
                        \/ Writes(a)
        BY DEF KeepsReports, Roomy, Kept
    <2> DEFINE same == object'.status.reports[a] = object.status.reports[a]
    <2>1. object \in Objects /\ object.gen \in Nat /\ object.status \in Status
        BY <1>1 DEF StatusInv, TypeOK, Objects
    <2>2. CASE UNCHANGED object
        BY <2>2
    <2>3. CASE UserWrites
        <3>1. ASSUME NEW spec \in Specs, Edit(spec) PROVE FALSE
            BY <2>1, <3>1, SMTT(60) DEF Edit, Store, Objects
        <3>2. ASSUME Delete PROVE FALSE
            BY <2>1, <3>2, SMTT(60) DEF Delete, Store, Objects
        <3>. QED
            BY <2>3, <3>1, <3>2 DEF UserWrites, Create
    <2>4. ASSUME NEW c \in Callers, WriteStatus(c) PROVE same \/ Writes(a)
        <3>1. CASE AgentOf[c] = a
            BY <2>4, <3>1 DEF Writes
        <3>2. CASE AgentOf[c] # a
            <4>1. object'.status = call[c].status
                BY <2>1, <2>4 DEF WriteStatus, Store, Objects
            <4>2. Held(object, call[c].status, Agents \ {AgentOf[c]})
                BY <1>1, <2>4 DEF WriteStatus, StatusInv, Copies
            <4>. QED
                BY <3>2, <4>1, <4>2 DEF Held, Copied
        <3>. QED
            BY <3>1, <3>2
    <2>5. CASE Agent
        BY <2>2, <2>4, <2>5 DEF Agent, UpdateStatus, Retry, GiveUp, Attempt
    <2>6. ASSUME OperatorWrites PROVE same
        <3>1. /\ operator.status # None /\ operator.step # "idle"
              /\ operator.step \in {"idle", "add finalizer", "remove finalizer", "status"}
              /\ operator.step = "status" => Held(object, operator.status, Agents)
            BY <1>1, <2>6 DEF OperatorWrites, StatusInv, TypeOK, Copies
        <3>2. CASE operator.step = "remove finalizer"
            BY <2>6, <3>2 DEF OperatorWrites, Store
        <3>3. CASE operator.step = "add finalizer"
            BY <2>1, <2>6, <3>3 DEF OperatorWrites, Store, Objects
        <3>4. CASE operator.step = "status"
            <4>1. object'.status = operator.status
                BY <2>1, <2>6, <3>4 DEF OperatorWrites, Store, Objects
            <4>. QED
                BY <3>1, <3>4, <4>1 DEF Held, Copied
        <3>. QED
            BY <3>1, <3>2, <3>3, <3>4
    <2>7. CASE Tick
        <3>1. object'.status = Older(object.status)
            BY <2>1, <2>7 DEF Tick, Objects
        <3>. QED
            BY <2>1, <3>1, OlderFields
    <2>. QED
        BY <1>1, <2>2, <2>3, <2>5, <2>6, <2>7
           DEF Next, Reconcile, OperatorRefused, RequeueAfter, OperatorFails, vars
<1>. QED
    BY <1>1, StatusInvHolds, PTL DEF Spec, ReportsKept
=============================================================================
