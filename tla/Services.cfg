\* The services of the master, each with one failure of its own.
CONSTANTS
    Parts = {"images", "silences", "backups", "creds", "feed", "stats", "tenants", "certs", "probe"}
    Nodes = {n1, n2}
    Versions = {v1}
    MaxImageFaults = 1
    Callers = {"c1"}
    MaxMutes = 2
    MaxSilences = 4
    MaxMuteOps = 2
    MaxSilenceFaults = 1
    Masters = {"m1", "m2"}
    MaxRuns = 3
    MaxManual = 1
    MaxBackupFaults = 1
    RetentionLocal = 1
    KeepRuns = 2
    Keys = {"a", "k"}
    Admins = {"a"}
    BoundKeys = {"k"}
    MaxAccessFaults = 1
    MaxId = 3
    Batch = 2
    SentCap = 2
    MaxFeedFaults = 1
    KeysOf <- TwoProjects
    DayLen = 2
    LastTick = 4
    MaxRollupFaults = 1
    Envs = {"dev", "prod"}
    Machines = {"m"}
    BoundTo = {"k"}
    Servants = {"m1", "m2"}
    Life = 2
    LastDay = 3
    MaxIssued = 4
    MaxLinkFaults = 1
    Paths <- TwoPaths
    OkTicks = 1
    Queriers = {"q1", "q2"}
    MaxSwaps = 1
SPECIFICATION FairSpec
INVARIANTS NothingLivePassedOver RecordsAreTrue CredentialsHold TenantsAreWhole
PROPERTIES ServicesSettle
CHECK_DEADLOCK FALSE
