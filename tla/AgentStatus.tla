----------------------------- MODULE AgentStatus -----------------------------
(***************************************************************************)
(* The status of a VirtualIP: the reports of its agents and what           *)
(* internal/agent/status/updater.go makes of them.  A report counts its    *)
(* age in ticks instead of carrying the time of its update.                *)
(*                                                                         *)
(* The addresses of the healthy backends stand for the bitmap, the counts  *)
(* and the details of the backends that the code keeps of them; reasons    *)
(* and messages of conditions are left out.                                *)
(***************************************************************************)
EXTENDS Naturals, FiniteSets

CONSTANTS
    Agents,
    Backends,
    TTL,         \* AgentStatusTTL of each agent, in ticks
    Retention,   \* DefaultExpiredAgentStatusRetention
    MaxReports,  \* MaxVirtualIPStatusAgentStatuses
    None

ASSUME AgeAssumption ==
    Retention \in Nat /\ TTL \in [Agents -> Nat] /\ \A a \in Agents : TTL[a] <= Retention
ASSUME CapAssumption == IsFiniteSet(Agents) /\ IsFiniteSet(Backends) /\ MaxReports \in Nat \ {0}

States == {"True", "False", "Unknown"}
Conditions == [state : States, gen : Nat] \cup {None}
Report == [gen : Nat, healthy : SUBSET Backends, serving : States, route : States,
           dataPlane : {"True", "False", None}, age : Nat]
Reports == [Agents -> Report \cup {None}]
Status == [observed : Nat, total : Nat, healthy : SUBSET Backends, reports : Reports,
           serving : Conditions, route : Conditions, dataPlane : Conditions,
           check : Conditions, ready : Conditions]

ASSUME NoneAssumption ==
    None \notin States \cup Report \cup [state : States, gen : Nat] \cup Status

EmptyStatus ==
    [observed |-> 0, total |-> 0, healthy |-> {}, reports |-> [a \in Agents |-> None],
     serving |-> None, route |-> None, dataPlane |-> None, check |-> None, ready |-> None]

-----------------------------------------------------------------------------

\* An age beyond the retention makes no further difference.
OlderReport(r) == IF r = None \/ r.age > Retention THEN r ELSE [r EXCEPT !.age = @ + 1]

Older(status) ==
    IF status = None THEN None
    ELSE [status EXCEPT !.reports = [a \in Agents |-> OlderReport(status.reports[a])]]

Reporting(reports) == {a \in Agents : reports[a] # None}

\* The newest reports, if there are too many.
Newest(S, reports) ==
    IF Cardinality(S) <= MaxReports THEN S
    ELSE CHOOSE K \in SUBSET S :
            /\ Cardinality(K) = MaxReports
            /\ \A a \in K, b \in S \ K : reports[a].age <= reports[b].age

Retain(S, reports) ==
    [a \in Agents |-> IF a \in Newest(S, reports) THEN reports[a] ELSE None]

SanitizeVirtualIPStatus(status) ==
    [status EXCEPT !.reports = Retain(Reporting(status.reports), status.reports)]

\* Mutant: the reports of the other agents are dropped.
MutantupsertAgentStatus(reports, agent, report, gen) ==
    [a \in Agents |-> IF a = agent THEN report ELSE None]

\* The other agents' reports for another generation are dropped.
upsertAgentStatus(reports, agent, report, gen) ==
    [a \in Agents |-> IF a = agent THEN report
                      ELSE IF reports[a] # None /\ reports[a].gen = gen THEN reports[a]
                      ELSE None]

-----------------------------------------------------------------------------
(* splitAgentStatuses                                                      *)

Fresh(reports, gen) ==
    {a \in Reporting(reports) : reports[a].gen = gen /\ reports[a].age <= TTL[a]}

Expired(reports, gen) ==
    {a \in Reporting(reports) :
        reports[a].gen = gen /\ reports[a].age > TTL[a] /\ reports[a].age <= Retention}

\* The aggregate conditions, of the fresh and the expired reports.
aggregateServing(reports, fresh, expired) ==
    LET states == {reports[a].serving : a \in fresh}
    IN  IF "True" \in states THEN "True"
        ELSE IF fresh = {} \/ "Unknown" \in states \/ expired # {} THEN "Unknown"
        ELSE "False"

aggregateRouteAdvertised(reports, fresh, expired) ==
    LET states == {reports[a].route : a \in fresh}
    IN  IF fresh = {} \/ "Unknown" \in states THEN "Unknown"
        ELSE IF "True" \in states THEN "True"
        ELSE IF expired # {} THEN "Unknown"
        ELSE "False"

\* An agent that got as far as the data plane reported True or False, so that the
\* order of the reports makes no difference.
aggregateDataPlaneReady(reports, fresh, expired) ==
    LET states == {reports[a].dataPlane : a \in fresh}
    IN  IF "False" \in states THEN "False"
        ELSE IF None \in states THEN "Unknown"
        ELSE IF fresh # {} THEN "True"
        ELSE IF \E a \in expired : reports[a].dataPlane # None THEN "Unknown"
        ELSE None

Condition(state, gen) == IF state = None THEN None ELSE [state |-> state, gen |-> gen]

\* The reports of a generation are about the backends of that generation, so the
\* bitmaps decode to the addresses that they were made of.
RefreshAggregateStatus(status, vip, gen) ==
    LET reports == status.reports
        fresh == Fresh(reports, gen)
        expired == Expired(reports, gen)
    IN  [status EXCEPT
            !.observed = gen,
            !.total = Cardinality(vip.spec.backends),
            !.healthy = UNION {reports[a].healthy : a \in fresh},
            !.reports = Retain(fresh \cup expired, reports),
            !.serving = Condition(aggregateServing(reports, fresh, expired), vip.gen),
            !.route = Condition(aggregateRouteAdvertised(reports, fresh, expired), vip.gen),
            !.dataPlane = Condition(aggregateDataPlaneReady(reports, fresh, expired), vip.gen)]
=============================================================================
