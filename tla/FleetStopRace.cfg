\* A node is drained while a claim of one of its ready servers is in flight.
CONSTANTS
    s1 = s1  s2 = s2  s3 = s3  s4 = s4  n1 = n1  n2 = n2
    v1 = v1  v2 = v2  m1 = m1  m2 = m2  r1 = r1  r2 = r2  r3 = r3
    NoServer = NoServer  NoNode = NoNode  NoVersion = NoVersion  NoMatch = NoMatch
    Versions = {v1, v2}
    Servers = {s1}
    Nodes = {n1}
    Matches = {m1}
    Requests = {r1}
    MatchOf <- OwnMatches
    Durable = {}
    BufferReady = 1
    MaxServers = 2
    Capacity <- TwoSlots
    PausedChoices = {{}}
    Reports = {}
    Inputs = {"reconcile", "drain"}
    MaxAge = 0
    MaxVersionOps = 0
    WarmNode <- OldOneOn
    WarmVersion <- OldOneOf
    WarmWindow <- OpenWindow
    WarmFleet = v2
SPECIFICATION Spec
INVARIANTS StopNeverHitsLiveMatch
CHECK_DEADLOCK FALSE
