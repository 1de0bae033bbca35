\* A node falls silent for good or comes back; the lease pass runs against claims and reports.
CONSTANTS
    s1 = s1  s2 = s2  s3 = s3  s4 = s4  n1 = n1  n2 = n2
    v1 = v1  v2 = v2  m1 = m1  m2 = m2  r1 = r1  r2 = r2  r3 = r3
    NoServer = NoServer  NoNode = NoNode  NoVersion = NoVersion  NoMatch = NoMatch
    Versions = {v1, v2}
    Servers = {s1, s2}
    Nodes = {n1}
    Matches = {m1}
    Requests = {r1}
    MatchOf <- OwnMatches
    Durable = {}
    BufferReady = 0
    MaxServers = 2
    Capacity <- TwoSlots
    PausedChoices = {{}}
    Reports = {"ready", "allocated", "draining"}
    Inputs = {"lease", "heartbeat", "hello"}
    MaxAge = 3
    MaxVersionOps = 0
    WarmNode <- TwoOn
    WarmVersion <- BothNewOf
    WarmWindow <- OpenWindow
    WarmFleet = v2
SPECIFICATION FairSpec
PROPERTIES SilentServersFail
CHECK_DEADLOCK FALSE
