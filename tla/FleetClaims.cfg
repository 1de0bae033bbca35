\* REST and durable claims race one another, the reconcile pass and master crashes.
CONSTANTS
    s1 = s1  s2 = s2  s3 = s3  s4 = s4  n1 = n1  n2 = n2
    v1 = v1  v2 = v2  m1 = m1  m2 = m2  r1 = r1  r2 = r2  r3 = r3
    NoServer = NoServer  NoNode = NoNode  NoVersion = NoVersion  NoMatch = NoMatch
    Versions = {v1, v2}
    Servers = {s1, s2, s3}
    Nodes = {n1}
    Matches = {m1, m2}
    Requests = {r1, r2, r3}
    MatchOf <- PairedMatches
    Durable = {r2}
    BufferReady = 2
    MaxServers = 3
    Capacity <- Roomy3
    PausedChoices = {{}}
    Reports = {}
    Inputs = {"reconcile", "crash", "drain", "undrain"}
    MaxAge = 0
    MaxVersionOps = 0
    WarmNode <- TwoOn
    WarmVersion <- MixedOf
    WarmWindow <- OpenWindow
    WarmFleet = v2
SPECIFICATION Spec
INVARIANTS SameMatchSameServer OneServerPerMatch EvictionTakesNoMatch
CHECK_DEADLOCK FALSE
