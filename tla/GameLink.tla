------------------------------ MODULE GameLink ------------------------------
(***************************************************************************)
(* The unix socket between the agent and one game server: the allocated    *)
(* and drain frames the agent remembers and replays, and the match frames  *)
(* the game sends back (agent/internal/uds/server.go, the listenSocket of  *)
(* daemon/manager.go, sdk/core/src/link.cpp).                              *)
(*                                                                         *)
(* A command is remembered under the lock and written after it, the replay *)
(* of the accept loop is collected under the lock and written after it,    *)
(* and a replaced connection keeps its reader until what it has buffered   *)
(* is dispatched.  One match; a roster is its number of players.  hello,   *)
(* ready, players, metrics, logs and pings are left out: AgentManager has  *)
(* the readiness.  MaxGameFaults bounds hang-ups, stuck writes, redelivered *)
(* commands and agent restarts; MaxConns the connections.                  *)
(***************************************************************************)
EXTENDS Integers, Sequences, FiniteSetsExt, SequencesExt

CONSTANTS MaxSeats, MaxConns, MaxGameFaults

VARIABLES
    target,      \* the newest roster the master has sent
    inbound,     \* the rosters on their way to SendAllocated
    drainAsk,    \* the DrainServer command: none, on its way or taken
    last,        \* lastAllocated, 0 before the first
    lastDrain,   \* lastDrain is set
    newest,      \* the largest roster this agent process was given
    conn,        \* the connection of the agent, 0 for none
    accepting,   \* what the accept loop has still to replay, and where
    writes,      \* the frames SendAllocated and SendDrain are about to write
    wire,        \* per connection: frames in flight, and the state of its ends
    dialled,     \* connections the game has made
    gconn,       \* its connection, 0 for none
    told,        \* the rosters the callback of the game was given
    drained,     \* on_drain_requested was called
    match,       \* the match of the game
    outq,        \* match frames the game has not written
    heard,       \* match frames the agent has dispatched
    gameFaults

gameVars == <<target, inbound, drainAsk, last, lastDrain, newest, conn, accepting, writes,
              wire, dialled, gconn, told, drained, match, outq, heard, gameFaults>>
agentVars == <<last, lastDrain, newest, conn, accepting, writes, heard>>
masterVars == <<target, inbound, drainAsk>>
sdkVars == <<dialled, gconn, told, drained, match, outq>>

Conns == 1..MaxConns
Kinds == {"allocated", "drain"}
Drain == 0          \* the drain frame; an allocated frame is its roster
Idle == [c |-> 0, todo |-> <<>>]
Unused == [down |-> <<>>, up |-> <<>>, agent |-> "none", game |-> FALSE]

GameTypeOK ==
    /\ target \in 0..MaxSeats /\ inbound \subseteq 1..target
    /\ last \in 0..target /\ conn \in 0..MaxConns /\ gconn \in 0..MaxConns
    /\ \A c \in Conns : wire[c].agent \in {"none", "unread", "reading", "stale", "closed"}
    /\ told \in Seq(1..target) /\ match \in {"idle", "playing", "over"}

Init ==
    /\ target = 0 /\ inbound = {} /\ drainAsk = "none"
    /\ last = 0 /\ lastDrain = FALSE /\ newest = 0 /\ conn = 0 /\ accepting = Idle
    /\ writes = [k \in Kinds |-> Idle] /\ wire = [c \in Conns |-> Unused]
    /\ dialled = 0 /\ gconn = 0 /\ told = <<>> /\ drained = FALSE /\ match = "idle"
    /\ outq = <<>> /\ heard = <<>> /\ gameFaults = 0

-----------------------------------------------------------------------------
(* Helpers.                                                                *)

Fault == gameFaults < MaxGameFaults /\ gameFaults' = gameFaults + 1
Roster == IF told = <<>> THEN 0 ELSE Last(told)

\* The agent closes a connection: its reader has only what it has buffered.
Closed(w) ==
    IF w.agent # "reading" THEN {[w EXCEPT !.agent = "closed"]}
    ELSE {[w EXCEPT !.agent = "stale", !.up = SubSeq(@, 1, n)] : n \in 0..Len(w.up)}

\* writeTo: the frame is on the wire, or the connection is closed, which is
\* sure for one that is closed already and a fault for a healthy one.
WriteTo(c, f) ==
    \/ /\ wire[c].agent \in {"unread", "reading"}
       /\ wire' = [wire EXCEPT ![c].down = Append(@, f)]
       /\ UNCHANGED <<conn, gameFaults>>
    \/ /\ \/ (wire[c].agent \in {"stale", "closed"} \/ ~wire[c].game) /\ UNCHANGED gameFaults
          \/ (wire[c].agent \in {"unread", "reading"} /\ wire[c].game) /\ Fault
       /\ IF wire[c].agent = "stale" THEN UNCHANGED wire
          ELSE \E w \in Closed(wire[c]) : wire' = [wire EXCEPT ![c] = w]
       /\ conn' = IF conn = c THEN 0 ELSE conn

-----------------------------------------------------------------------------
(* The master.                                                             *)

\* A first roster, then backfills.
Allocate ==
    /\ target < MaxSeats /\ target' = target + 1 /\ inbound' = inbound \cup {target + 1}
    /\ UNCHANGED <<drainAsk, agentVars, wire, sdkVars, gameFaults>>

DrainServer ==
    /\ drainAsk = "none" /\ target > 0 /\ drainAsk' = "sent"
    /\ UNCHANGED <<target, inbound, agentVars, wire, sdkVars, gameFaults>>

\* A command whose ack was lost comes again.
Redelivered(n) ==
    /\ n \in (1..target) \ inbound /\ Fault /\ inbound' = inbound \cup {n}
    /\ UNCHANGED <<target, drainAsk, agentVars, wire, sdkVars>>

-----------------------------------------------------------------------------
(* The agent.                                                              *)

\* Mutant: an older command replaces the newer roster.
Stale_Never(n) == FALSE
Stale(n) == n < last

\* SendAllocated up to the unlock of mu; allocationMu is held until the write.
Remember(n) ==
    /\ n \in inbound /\ writes["allocated"] = Idle
    /\ inbound' = inbound \ {n}
    /\ last' = (IF Stale(n) THEN last ELSE n) /\ newest' = Max({newest, n})
    /\ writes' = IF Stale(n) \/ conn = 0 THEN writes
                 ELSE [writes EXCEPT !["allocated"] = [c |-> conn, todo |-> <<n>>]]
    /\ UNCHANGED <<target, drainAsk, lastDrain, conn, accepting, wire, heard, sdkVars, gameFaults>>

RememberDrain ==
    /\ drainAsk = "sent" /\ drainAsk' = "taken" /\ lastDrain' = TRUE
    /\ writes' = IF conn = 0 THEN writes
                 ELSE [writes EXCEPT !["drain"] = [c |-> conn, todo |-> <<Drain>>]]
    /\ UNCHANGED <<target, inbound, last, newest, conn, accepting, wire, heard, sdkVars, gameFaults>>

\* The frame goes to the connection that was current then.
Write(k) ==
    /\ writes[k] # Idle /\ WriteTo(writes[k].c, Head(writes[k].todo))
    /\ writes' = [writes EXCEPT ![k] = Idle]
    /\ UNCHANGED <<masterVars, last, lastDrain, newest, accepting, heard, sdkVars>>

\* Mutant: nothing is replayed.
Replay_None == <<>>
Replay == (IF last > 0 THEN <<last>> ELSE <<>>) \o (IF lastDrain THEN <<Drain>> ELSE <<>>)

\* acceptLoop: the new connection takes the place of the old one.
Accept(c) ==
    /\ accepting = Idle /\ c <= dialled /\ wire[c].agent = "none"
    /\ \A b \in Conns : b < c => wire[b].agent # "none"
    /\ conn' = c /\ accepting' = [c |-> c, todo |-> Replay]
    /\ IF conn = 0 THEN wire' = [wire EXCEPT ![c].agent = "unread"]
       ELSE \E w \in Closed(wire[conn]) :
              wire' = [wire EXCEPT ![c].agent = "unread", ![conn] = w]
    /\ UNCHANGED <<masterVars, last, lastDrain, newest, writes, heard, sdkVars, gameFaults>>

ReplayNext ==
    /\ accepting.todo # <<>> /\ WriteTo(accepting.c, Head(accepting.todo))
    /\ accepting' = [accepting EXCEPT !.todo = Tail(@)]
    /\ UNCHANGED <<masterVars, last, lastDrain, newest, writes, heard, sdkVars>>

\* The reader starts once the replay is written.
ReplayDone ==
    /\ accepting # Idle /\ accepting.todo = <<>> /\ accepting' = Idle
    /\ wire' = [wire EXCEPT ![accepting.c].agent = IF @ = "unread" THEN "reading" ELSE @]
    /\ UNCHANGED <<masterVars, last, lastDrain, newest, conn, writes, heard, sdkVars, gameFaults>>

\* readLoop and dispatch; OnMatchStart and OnMatchEnd queue the event.
Read(c) ==
    /\ wire[c].agent \in {"reading", "stale"} /\ wire[c].up # <<>>
    /\ heard' = Append(heard, Head(wire[c].up))
    /\ wire' = [wire EXCEPT ![c].up = Tail(@)]
    /\ UNCHANGED <<masterVars, last, lastDrain, newest, conn, accepting, writes, sdkVars, gameFaults>>

ReadEnds(c) ==
    /\ wire[c].up = <<>>
    /\ wire[c].agent = "stale" \/ (wire[c].agent = "reading" /\ ~wire[c].game)
    /\ wire' = [wire EXCEPT ![c].agent = "closed"]
    /\ conn' = IF conn = c THEN 0 ELSE conn
    /\ UNCHANGED <<masterVars, last, lastDrain, newest, accepting, writes, heard, sdkVars, gameFaults>>

\* A restarted agent listens again and remembers nothing.
AgentRestarts ==
    /\ Fault /\ last' = 0 /\ lastDrain' = FALSE /\ newest' = 0 /\ conn' = 0
    /\ accepting' = Idle /\ writes' = [k \in Kinds |-> Idle]
    /\ wire' = [c \in Conns |-> IF c > dialled THEN Unused
                                ELSE [wire[c] EXCEPT !.agent = "closed", !.up = <<>>]]
    /\ UNCHANGED <<masterVars, heard, sdkVars>>

-----------------------------------------------------------------------------
(* The game.                                                               *)

Dial ==
    /\ gconn = 0 /\ dialled < MaxConns
    /\ dialled' = dialled + 1 /\ gconn' = dialled'
    /\ wire' = [wire EXCEPT ![dialled'].game = TRUE]
    /\ UNCHANGED <<masterVars, agentVars, told, drained, match, outq, gameFaults>>

\* Mutant: the SDK hands every frame to the game.
Fresh_All(n) == TRUE
\* HandleAllocated: the replays and the older snapshots of a match are dropped.
Fresh(n) == n > Roster

Receive ==
    /\ gconn # 0 /\ wire[gconn].down # <<>>
    /\ LET f == Head(wire[gconn].down) IN
       /\ told' = IF f # Drain /\ Fresh(f) THEN Append(told, f) ELSE told
       /\ drained' = (drained \/ f = Drain)
    /\ wire' = [wire EXCEPT ![gconn].down = Tail(@)]
    /\ UNCHANGED <<masterVars, agentVars, dialled, gconn, match, outq, gameFaults>>

\* NotifyMatchStart and NotifyMatchEnd.
Play ==
    /\ \/ /\ match = "idle" /\ told # <<>>
          /\ match' = "playing" /\ outq' = Append(outq, "start")
       \/ match = "playing" /\ match' = "over" /\ outq' = Append(outq, "end")
    /\ UNCHANGED <<masterVars, agentVars, wire, dialled, gconn, told, drained, gameFaults>>

\* What is written to a closed connection is lost.
Flush ==
    /\ gconn # 0 /\ outq # <<>> /\ outq' = <<>>
    /\ wire' = IF wire[gconn].agent \in {"stale", "closed"} THEN wire
               ELSE [wire EXCEPT ![gconn].up = @ \o outq]
    /\ UNCHANGED <<masterVars, agentVars, dialled, gconn, told, drained, match, gameFaults>>

\* The end of a session, with or without the bytes it was about to write: the
\* agent has closed the connection, or a write has stalled.
HangUp ==
    /\ gconn' = 0 /\ wire' = [wire EXCEPT ![gconn].game = FALSE, ![gconn].down = <<>>]
    /\ outq' \in {outq, <<>>}
    /\ UNCHANGED <<masterVars, agentVars, dialled, told, drained, match>>

Eof == gconn # 0 /\ wire[gconn].agent \in {"stale", "closed"} /\ HangUp /\ UNCHANGED gameFaults
Stalls == gconn # 0 /\ Fault /\ HangUp

-----------------------------------------------------------------------------
AgentSteps ==
    \/ \E n \in inbound : Remember(n)
    \/ RememberDrain
    \/ \E k \in Kinds : Write(k)
    \/ ReplayNext \/ ReplayDone
    \/ \E c \in Conns : Accept(c) \/ Read(c) \/ ReadEnds(c)

GameSteps == Dial \/ Receive \/ Flush \/ Eof
MasterSteps == Allocate \/ DrainServer \/ \E n \in 1..target : Redelivered(n)

Next == AgentSteps \/ GameSteps \/ MasterSteps \/ Play \/ Stalls \/ AgentRestarts

Spec == Init /\ [][Next]_gameVars

\* The goroutines of the agent and the I/O thread of the SDK run; nothing is
\* assumed of the master, the game and the faults.
FairSpec == Spec /\ WF_gameVars(AgentSteps) /\ WF_gameVars(GameSteps)

-----------------------------------------------------------------------------
(* Properties.                                                             *)

\* The game hears of a match in growing rosters only, whatever is replayed,
\* redelivered or written late, and the agent hears of each match frame once.
RostersGrow ==
    /\ \A i, j \in DOMAIN told : i < j => told[i] < told[j]
    /\ IsInjective(heard)

\* What the agent remembers reaches a game that stays connected.
Remembered == gconn # 0 => Roster >= newest /\ (lastDrain => drained)

=============================================================================
