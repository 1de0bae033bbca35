---------------------------- MODULE AgentServices ----------------------------
(***************************************************************************)
(* What the agent runs beside its server manager: the socket of a game,    *)
(* the event outbox, the logs and the self-upgrade.  As in Services, no    *)
(* state has two of them for writers and one behaviour follows one part.   *)
(***************************************************************************)
EXTENDS Integers, FiniteSets, Sequences

CONSTANTS
    Parts,   \* the parts followed, of those Next names
    MaxSeats, MaxConns, MaxGameFaults,
    Cap, MaxPushes, MaxBreaks,
    RotateAt, ChunkCap, RouteCap, MaxLines, MaxLogFaults,
    Releases, MaxOrders, MaxUpgradeFaults

ASSUME AgentServicesAssumption ==
    /\ Cap \in Nat \ {0} /\ MaxConns \in Nat /\ MaxBreaks \in Nat
    /\ Releases \cap {"none", "torn"} = {}

VARIABLES
    part,
    target, inbound, drainAsk, lastAllocated, lastDrain, newest, libaConn, accepting, writes,
    wire, dialled, gconn, told, drained, match, outq, heard, gameFaults,
    queue, pushed, notify, session, at, peeked, flight, outSent, evicted, received, breaks,
    lines, file, alive, rotating, zips, zipping, cmds, tail, chunks, routed, client, shown,
    logFaults,
    orders, unacked, taken, acks, fetches, disk, process, exiting, helloDone, helloed,
    watches, swapped, upgradeFaults

Game     == INSTANCE GameLink WITH last <- lastAllocated, conn <- libaConn
Events   == INSTANCE Outbox WITH sent <- outSent
Logs     == INSTANCE ServerLogs
Upgrades == INSTANCE AgentUpgrade WITH running <- process, linked <- helloDone

gameVars == <<target, inbound, drainAsk, lastAllocated, lastDrain, newest, libaConn, accepting,
              writes, wire, dialled, gconn, told, drained, match, outq, heard, gameFaults>>
outboxVars == <<queue, pushed, notify, session, at, peeked, flight, outSent, evicted, received,
                breaks>>
logVars == <<lines, file, alive, rotating, zips, zipping, cmds, tail, chunks, routed, client,
             shown, logFaults>>
upgradeVars == <<orders, unacked, taken, acks, fetches, disk, process, exiting, helloDone,
                 helloed, watches, swapped, upgradeFaults>>
services == <<part, gameVars, outboxVars, logVars, upgradeVars>>

Init == part \in Parts /\ Game!Init /\ Events!Init /\ Logs!Init /\ Upgrades!Init

\* Nothing but the part followed moves.
Frame ==
    /\ part' = part
    /\ part # "game"    => UNCHANGED gameVars
    /\ part # "outbox"  => UNCHANGED outboxVars
    /\ part # "logs"    => UNCHANGED logVars
    /\ part # "upgrade" => UNCHANGED upgradeVars

Next ==
    /\ \/ part = "game"    /\ Game!Next
       \/ part = "outbox"  /\ Events!Next
       \/ part = "logs"    /\ Logs!Next
       \/ part = "upgrade" /\ Upgrades!Next
    /\ Frame

Spec == Init /\ [][Next]_services

\* The fairness of each part, its first and its second condition together: part
\* does not change, so each is that of the part a behaviour follows.
First ==
    /\ \/ part = "game"    /\ Game!AgentSteps
       \/ part = "logs"    /\ Logs!FileSteps
       \/ part = "upgrade" /\ Upgrades!AgentSteps
    /\ Frame

Second ==
    /\ \/ part = "game" /\ Game!GameSteps
       \/ part = "logs" /\ Logs!TailSteps
    /\ Frame

FairSpec == Spec /\ WF_services(First) /\ WF_services(Second)

-----------------------------------------------------------------------------
(* Properties.                                                             *)

\* What is queued, replayed, re-sent or read again takes effect at most once and in
\* order: the rosters a game is told, the events of an agent but for those of a
\* stream a newer one has replaced, the lines of a followed log, an upgrade.
OnceAndInOrder ==
    /\ part = "game" => Game!RostersGrow
    /\ part = "outbox" => Events!QueuedUntilSent /\ Events!EventsInOrder
    /\ part = "logs" => Logs!FollowedOnce
    /\ part = "upgrade" => Upgrades!UpgradedOnce

\* When requests and failures stop, the game knows its roster, the tails have
\* ended and the agent runs what it was asked to run, each as its own module
\* states it.
AgentSettles ==
    <>[](/\ part = "game" => Game!Remembered
         /\ part = "logs" => Logs!LogsSettled
         /\ part = "upgrade" => Upgrades!Upgraded)
=============================================================================
