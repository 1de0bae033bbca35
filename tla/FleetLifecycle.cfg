\* Durable matches live through heartbeats, Hellos, events, silence, revocation and recovery.
CONSTANTS
    s1 = s1  s2 = s2  s3 = s3  s4 = s4  n1 = n1  n2 = n2
    v1 = v1  v2 = v2  m1 = m1  m2 = m2  r1 = r1  r2 = r2  r3 = r3
    NoServer = NoServer  NoNode = NoNode  NoVersion = NoVersion  NoMatch = NoMatch
    Versions = {v1, v2}
    Servers = {s1, s2}
    Nodes = {n1}
    Matches = {m1, m2}
    Requests = {r1}
    MatchOf <- OwnMatches
    Durable = {r1}
    BufferReady = 0
    MaxServers = 2
    Capacity <- TwoSlots
    PausedChoices = {{}}
    Reports = {"ready", "allocated", "failed", "reaped"}
    Inputs = {"lease", "heartbeat", "hello", "failed", "match_start", "match_end", "revoke", "drain", "undrain"}
    MaxAge = 3
    MaxVersionOps = 0
    WarmNode <- TwoOn
    WarmVersion <- BothNewOf
    WarmWindow <- OpenWindow
    WarmFleet = v2
SPECIFICATION Spec
INVARIANTS FailedServerHasNoOpenMatch DownNodeHasNoLive
PROPERTIES OnlyHelloRevives FinishedIsFinal
CHECK_DEADLOCK FALSE
