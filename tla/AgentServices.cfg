\* The services of the agent, each with one failure of its own.
CONSTANTS
    Parts = {"game", "outbox", "logs", "upgrade"}
    MaxSeats = 2
    MaxConns = 2
    MaxGameFaults = 1
    Cap = 2
    MaxPushes = 4
    MaxBreaks = 2
    RotateAt = 1
    ChunkCap = 1
    RouteCap = 1
    MaxLines = 2
    MaxLogFaults = 1
    Releases = {"v2"}
    MaxOrders = 3
    MaxUpgradeFaults = 1
SPECIFICATION FairSpec
INVARIANTS OnceAndInOrder
PROPERTIES AgentSettles
CHECK_DEADLOCK FALSE
