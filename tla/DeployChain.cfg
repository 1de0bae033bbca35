\* CI registers builds while operators deploy, nodes report late, timers fire and the master dies.
CONSTANTS
    Newest = 2
    Nodes = {n1, n2}
    AllLanes = {p1, p2}
    MaxEvents = 1
SPECIFICATION FairSpec
INVARIANTS MarkerCoversAttempts
PROPERTIES AutoStartsForward SerialImplementsWindow PrepullEnds NewestIsTried
CHECK_DEADLOCK FALSE
