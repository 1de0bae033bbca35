\* Passes fill, evict and stop while servers come up, fail and get stuck and a rollback flips the window.
CONSTANTS
    s1 = s1  s2 = s2  s3 = s3  s4 = s4  n1 = n1  n2 = n2
    v1 = v1  v2 = v2  m1 = m1  m2 = m2  r1 = r1  r2 = r2  r3 = r3
    NoServer = NoServer  NoNode = NoNode  NoVersion = NoVersion  NoMatch = NoMatch
    Versions = {v1, v2}
    Servers = {s1, s2, s3, s4}
    Nodes = {n1, n2}
    Matches = {m1}
    Requests = {}
    MatchOf <- OwnMatches
    Durable = {}
    BufferReady = 1
    MaxServers = 2
    Capacity <- Uneven
    PausedChoices = {{}, {n1}, {n1, n2}}
    Reports = {}
    Inputs = {"reconcile", "ready", "failed", "stuck"}
    MaxAge = 0
    MaxVersionOps = 2
    WarmNode <- TwoOn
    WarmVersion <- BothOldOf
    WarmWindow <- OpenWindow
    WarmFleet = v2
SYMMETRY SpareRows
SPECIFICATION Spec
INVARIANTS FleetWithinMax NodeWithinCapacity
PROPERTIES EvictionsServeActive
CHECK_DEADLOCK FALSE
