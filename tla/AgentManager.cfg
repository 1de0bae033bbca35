\* Commands, liba frames, exits, failed launches and agent restarts over two servers.
CONSTANTS
    Servers = {s1, s2}
    Linked = {s1}
    Matches = {m1}
    NoMatch = NoMatch
    Ports = {1}
    MaxFaults = 1
SPECIFICATION FairSpec
INVARIANTS PortsAccounted LabelFollowsState
PROPERTIES StopEnds ReadinessSettled
CHECK_DEADLOCK FALSE
