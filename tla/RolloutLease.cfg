CONSTANTS
    a = a
    b = b
    g = g
    h = h
    None = None
    Agents <- MCAgents
    Goroutines <- MCGoroutines
    AgentOf <- MCAgentOf
    Keys = {1, 2}
    KeySets = {{1, 2}}
    Duration = 1
    Unreliable = {a}
    Crashing = {b}
SPECIFICATION FairSpec
INVARIANTS Exclusive
PROPERTY SomeoneRuns
