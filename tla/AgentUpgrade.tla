---------------------------- MODULE AgentUpgrade ----------------------------
(***************************************************************************)
(* The self-upgrade of an agent: POST agent-upgrade and its watchdog       *)
(* (httpapi/ops.go), UpgradeAgent (daemon/manager.go), the download, its   *)
(* check and the rename (agent/internal/upgrade), the exit and the restart *)
(* by systemd (cmd/birdman-agent).                                         *)
(*                                                                         *)
(* Each command downloads in a goroutine of its own; the ack of a command  *)
(* may lose the race with the exit, and the command is then replayed to    *)
(* the new process.  One node.  MaxOrders bounds the commands,             *)
(* MaxUpgradeFaults the downloads that fail, the agents killed and the     *)
(* masters restarted.                                                      *)
(***************************************************************************)
EXTENDS Integers, FiniteSets, Sequences

CONSTANTS Releases,   \* the versions asked for
          MaxOrders, MaxUpgradeFaults

VARIABLES
    orders,      \* accepted commands: the release each asks for, by its number
    unacked,     \* numbers of the commands the hub keeps
    taken,       \* commands this process has seen
    acks,        \* acks on their way
    fetches,     \* downloads of this process: release, and verified or not yet
    disk,        \* the binary: a release, or "torn"
    running,     \* the version of the process, "none" between two
    exiting,     \* onUpgraded was called
    linked,      \* the session said Hello
    helloed,     \* agent_version of the node
    watches,     \* watchdogs that sleep, by release
    swapped,     \* exits for an upgrade
    upgradeFaults

upgradeVars == <<orders, unacked, taken, acks, fetches, disk, running, exiting, linked, helloed,
                 watches, swapped, upgradeFaults>>
processVars == <<taken, acks, fetches, exiting, linked>>

First == "v1"

UpgradeTypeOK ==
    /\ unacked \subseteq DOMAIN orders /\ taken \subseteq DOMAIN orders /\ acks \subseteq unacked
    /\ running \in Releases \cup {First, "none"} /\ helloed \in Releases \cup {First}
    /\ watches \subseteq Releases

Init ==
    /\ orders = <<>> /\ unacked = {} /\ taken = {} /\ acks = {} /\ fetches = {}
    /\ disk = First /\ running = First /\ exiting = FALSE /\ linked = TRUE
    /\ helloed = First /\ watches = {} /\ swapped = 0 /\ upgradeFaults = 0

Fault == upgradeFaults < MaxUpgradeFaults /\ upgradeFaults' = upgradeFaults + 1

-----------------------------------------------------------------------------
(* The master.                                                             *)

\* handleAgentUpgrade: the command, the event, the watchdog.
Order(v) ==
    /\ Len(orders) < MaxOrders /\ orders' = Append(orders, v)
    /\ unacked' = unacked \cup {Len(orders')} /\ watches' = watches \cup {v}
    /\ UNCHANGED <<processVars, disk, running, helloed, swapped, upgradeFaults>>

\* watchAgentUpgrade: compares what the node last said in its Hello.
Watch(v) ==
    /\ v \in watches /\ watches' = watches \ {v}
    /\ UNCHANGED <<orders, unacked, processVars, disk, running, helloed, swapped, upgradeFaults>>

MasterRestarts ==
    /\ Fault /\ unacked' = {} /\ watches' = {} /\ acks' = {} /\ linked' = FALSE
    /\ UNCHANGED <<orders, taken, fetches, disk, running, exiting, helloed, swapped>>

\* Attach replays what is not acked.
Hello ==
    /\ running # "none" /\ ~exiting /\ ~linked /\ linked' = TRUE /\ helloed' = running
    /\ UNCHANGED <<orders, unacked, taken, acks, fetches, disk, running, exiting, watches,
                   swapped, upgradeFaults>>

Ack(n) ==
    /\ linked /\ n \in acks /\ acks' = acks \ {n} /\ unacked' = unacked \ {n}
    /\ UNCHANGED <<orders, taken, fetches, disk, running, exiting, linked, helloed, watches,
                   swapped, upgradeFaults>>

-----------------------------------------------------------------------------
(* The agent.                                                              *)

\* Mutant: a command is not compared with the version that runs.
Needed_Always(v) == TRUE
Needed(v) == v # running

\* Upgrade, and the ack the receive loop owes in any case.
Take(n) ==
    /\ linked /\ running # "none" /\ n \in unacked \ acks
    /\ \A m \in unacked \ (acks \cup taken) : n <= m
    /\ acks' = acks \cup {n} /\ taken' = taken \cup {n}
    /\ fetches' = IF n \notin taken /\ Needed(orders[n])
                  THEN fetches \cup {[n |-> n, v |-> orders[n], whole |-> FALSE]} ELSE fetches
    /\ UNCHANGED <<orders, unacked, disk, running, exiting, linked, helloed, watches, swapped,
                   upgradeFaults>>

\* Apply: a download that fails or has another hash leaves the binary alone.
Fetched(f) ==
    /\ f \in fetches /\ ~f.whole
    /\ \/ fetches' = (fetches \ {f}) \cup {[f EXCEPT !.whole = TRUE]} /\ UNCHANGED upgradeFaults
       \/ Fault /\ fetches' = fetches \ {f}
    /\ UNCHANGED <<orders, unacked, taken, acks, disk, running, exiting, linked, helloed,
                   watches, swapped>>

\* Mutant: the binary is written in place.
Installable_Early(f) == TRUE
\* The temporary file is complete and has the hash that was asked for.
Installable(f) == f.whole

\* The rename, then onUpgraded.
Install(f) ==
    /\ f \in fetches /\ Installable(f)
    /\ disk' = IF f.whole THEN f.v ELSE "torn"
    /\ fetches' = fetches \ {f} /\ exiting' = TRUE
    /\ UNCHANGED <<orders, unacked, taken, acks, running, linked, helloed, watches, swapped,
                   upgradeFaults>>

\* What the process remembers goes with it, acks it has not sent included.
Gone ==
    /\ running' = "none" /\ exiting' = FALSE /\ linked' = FALSE
    /\ taken' = {} /\ fetches' = {} /\ acks' = {}
    /\ UNCHANGED <<orders, unacked, disk, helloed, watches>>

Exit == exiting /\ Gone /\ swapped' = swapped + 1 /\ UNCHANGED upgradeFaults
Killed == running # "none" /\ Fault /\ Gone /\ UNCHANGED swapped

Boot ==
    /\ running = "none" /\ disk # "torn" /\ running' = disk
    /\ UNCHANGED <<orders, unacked, processVars, disk, helloed, watches, swapped, upgradeFaults>>

-----------------------------------------------------------------------------
AgentSteps ==
    \/ Exit \/ Boot \/ Hello
    \/ \E n \in unacked : Take(n) \/ Ack(n)
    \/ \E f \in fetches : Fetched(f) \/ Install(f)

Next ==
    \/ AgentSteps \/ MasterRestarts \/ Killed
    \/ \E v \in Releases : Order(v) \/ Watch(v)

Spec == Init /\ [][Next]_upgradeVars

\* The agent, its link and systemd go on.
FairSpec == Spec /\ WF_upgradeVars(AgentSteps)

-----------------------------------------------------------------------------
(* Properties.                                                             *)

\* However often a release is asked for and its command replayed, the agent
\* restarts for it once, always into a whole binary.
UpgradedOnce == disk # "torn" /\ swapped <= Cardinality(Releases)

\* The agent comes back and says what it runs; without failures that is what
\* was asked for, and nothing of it is left to replay.
Upgraded ==
    /\ running = disk /\ linked /\ helloed = running /\ unacked = {}
    /\ upgradeFaults = 0 /\ orders # <<>> => running \in Releases

=============================================================================
