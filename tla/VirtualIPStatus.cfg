CONSTANTS
 a = a
 b = b
 c = c
 d = d
 s1 = s1
 s2 = s2
 None = None
 Agents = {a, b}
 Backends = {s1, s2}
 Callers = {c, d}
 AgentOf <- MCAgentOf
 TTL <- MCTTL
 Retention = 1
 MaxReports = 2
 Specs <- MCSpecs
 Outcomes <- MCOutcomes
 MaxVersions = 2
 MaxCalls = 2
SPECIFICATION FairSpec
INVARIANTS Backed AboutItsGeneration
PROPERTIES ReportsKept GreenEnds Goes
CHECK_DEADLOCK FALSE
