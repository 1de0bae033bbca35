\* A command and the registries snapshots of one node across cuts, crashes, failed reads and replaced sessions.
CONSTANTS
    MaxCommands = 1
    MaxChanges = 1
    MaxSessions = 3
    MaxFaults = 1
    ChannelCap = 2
    SeenCap = 2
SPECIFICATION FairSpec
INVARIANTS LatestRegistriesHeld
PROPERTIES ImplementsDelivery NoReExecution CommandTaken
CHECK_DEADLOCK FALSE
