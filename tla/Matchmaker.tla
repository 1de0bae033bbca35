----------------------------- MODULE Matchmaker ----------------------------
(***************************************************************************)
(* The matchmaker (src/master/internal/matchmaker) over its durable tables *)
(* (src/master/internal/store): tickets, matches with their reserved seats,*)
(* one outbox row per server, and the way of a roster from that row over   *)
(* the agent to the game.                                                  *)
(*                                                                         *)
(* Every ticket operation runs under the process mutex and the advisory    *)
(* transaction lock, reads the tables first and forgets the cache when its *)
(* commit fails, so the tables are the state.  What is stale is the tick's *)
(* snapshot of the queue and the commands a dispatch has selected but not  *)
(* sent.  One match per server; the versions and regions that make groups  *)
(* fit are a choice.  A roster is the set of its tickets; a command is     *)
(* <<server, roster>>: each command id of a match has a larger roster.     *)
(***************************************************************************)
EXTENDS Integers, FiniteSets

CONSTANTS
    Tickets,         \* the requests clients may send, one ticket each
    Servers,
    MembersOf,       \* [Tickets -> set of players]
    PartyOf,         \* [Tickets -> party]; a solo ticket has NoParty
    RevOf,           \* [Tickets -> Nat], the party revision
    NoParty, NoServer,
    MatchSize,       \* projects.match_size
    MaxFaults        \* bound: failed commits and ack writes, cuts, crashes

\* Finitely many requests reach one master; an empty ticket is refused
\* (partyPlayerKeys; a solo request is one player).
ASSUME MatchmakerAssumption ==
    /\ IsFiniteSet(Tickets) /\ NoServer \notin Servers
    /\ \A t \in Tickets : IsFiniteSet(MembersOf[t]) /\ MembersOf[t] # {}
    /\ RevOf \in [Tickets -> Nat] /\ MatchSize \in Nat /\ MaxFaults \in Nat

VARIABLES
    status, seat,    \* per ticket: its status, the server of its match
    srv, seats,      \* per server: its state, matches.reserved_size
    roster, acked,   \* per server: allocation_outbox row
    tick,            \* the tick: its position and its snapshot of the queue
    carry,           \* commands selected by a dispatch and not sent yet
    hub, acks, stray,\* unacked commands; acks of this and of ended sessions
    session,         \* the agent's session: down, hello, up
    frame, game,     \* per server: lastAllocated, the roster the SDK keeps
    conn,            \* servers whose game has the socket open
    late, faults     \* a stray ack was written; how many of MaxFaults

tables == <<status, seat, srv, seats, roster>>
sched  == <<tick, carry>>
agent  == <<frame, game, conn>>
vars   == <<tables, acked, sched, hub, acks, stray, session, agent, late, faults>>

Carriers == {"tick", "hello"}
Active == {"allocated", "draining"}

Players(g) == UNION {MembersOf[t] : t \in g}
\* One seat for each member of each ticket.
Seats(g) == Cardinality(UNION {{t} \X MembersOf[t] : t \in g})
Queued == {t \in Tickets : status[t] = "queued"}
Assigned(s) == {t \in Tickets : seat[t] = s}
Commands == Servers \X SUBSET Tickets

\* "closed" is cancelled, expired or update_required.
TypeOK ==
    /\ status \in [Tickets -> {"none", "queued", "matched", "closed"}]
    /\ seat \in [Tickets -> Servers \cup {NoServer}]
    /\ srv \in [Servers -> {"ready", "allocated", "draining", "over"}]
    /\ seats \in [Servers -> Nat] /\ roster \in [Servers -> SUBSET Tickets]
    /\ acked \in [Servers -> BOOLEAN]
    /\ tick \in [pc : {"idle", "send", "match"}, pool : SUBSET Tickets]
    /\ carry \in [Carriers -> SUBSET Commands]
    /\ hub \subseteq Commands /\ acks \subseteq Commands /\ stray \subseteq Commands
    /\ session \in {"down", "hello", "up"}
    /\ frame \in [Servers -> SUBSET Tickets] /\ game \in [Servers -> SUBSET Tickets]
    /\ conn \subseteq Servers /\ late \in BOOLEAN
    /\ faults \in 0 .. MaxFaults

Init ==
    /\ status = [t \in Tickets |-> "none"] /\ seat = [t \in Tickets |-> NoServer]
    /\ srv = [s \in Servers |-> "ready"]
    /\ seats = [s \in Servers |-> 0] /\ roster = [s \in Servers |-> {}]
    /\ acked = [s \in Servers |-> TRUE]
    /\ tick = [pc |-> "idle", pool |-> {}] /\ carry = [k \in Carriers |-> {}]
    /\ hub = {} /\ acks = {} /\ stray = {} /\ session = "up"
    /\ frame = [s \in Servers |-> {}] /\ game = [s \in Servers |-> {}] /\ conn = {}
    /\ late = FALSE /\ faults = 0

Fault == faults < MaxFaults /\ faults' = faults + 1

-----------------------------------------------------------------------------
(* Tickets.                                                                *)

\* Mutant: a ticket that has left the queue is forgotten.
LatestParty_Queued(t) == {u \in Queued : PartyOf[u] = PartyOf[t]}

\* LatestParty asks the table: the retention of Load and the janitor of the
\* cache, both left out, cannot make it forget.
LatestParty(t) == {u \in Tickets : status[u] # "none" /\ PartyOf[u] = PartyOf[t]}

\* Mutant: only the party's previous ticket leaves the queue.
Superseded_PartyOnly(t) == {u \in Queued : PartyOf[t] # NoParty /\ PartyOf[u] = PartyOf[t]}

\* The queued tickets a new one cancels.
Superseded(t) ==
    {u \in Queued : \/ PartyOf[t] # NoParty /\ PartyOf[u] = PartyOf[t]
                    \/ MembersOf[u] \cap MembersOf[t] # {}}

\* Submit of a new request; a known one is answered as it stands.  stale: no
\* candidate version fits the client, the ticket is terminal at birth.
Submit(t, stale) ==
    /\ status[t] = "none" /\ Cardinality(MembersOf[t]) <= MatchSize
    /\ PartyOf[t] # NoParty => \A u \in LatestParty(t) : RevOf[u] < RevOf[t]
    /\ status' = [u \in Tickets |-> IF u = t THEN IF stale THEN "closed" ELSE "queued"
                                    ELSE IF u \in Superseded(t) THEN "closed" ELSE status[u]]
    /\ UNCHANGED <<seat, srv, seats, roster, acked, sched, hub, acks, stray,
                   session, agent, late, faults>>

CancelContext(t) ==
    /\ status[t] = "queued" /\ status' = [status EXCEPT ![t] = "closed"]
    /\ UNCHANGED <<seat, srv, seats, roster, acked, sched, hub, acks, stray,
                   session, agent, late, faults>>

-----------------------------------------------------------------------------
(* Dispatch: select the due rows, send each to the hub later.              *)

Command(s) == <<s, roster[s]>>
Due == {s \in Servers : ~acked[s] /\ srv[s] \in Active}
Select(k) == carry' = [carry EXCEPT ![k] = {Command(s) : s \in Due}']

\* SendDurable: a command id the hub holds is queued once.
SendDurable(k, c) ==
    /\ c \in carry[k] /\ hub' = hub \cup {c}
    /\ carry' = [carry EXCEPT ![k] = @ \ {c}]
    /\ UNCHANGED <<tables, acked, tick, acks, stray, session, agent, late, faults>>

-----------------------------------------------------------------------------
(* The tick.                                                               *)

\* Pass 1: the expired leave, the others are the snapshot of pass 2.
RunOnce(old) ==
    /\ tick.pc = "idle" /\ old \subseteq Queued
    /\ status' = [t \in Tickets |-> IF t \in old THEN "closed" ELSE status[t]]
    /\ tick' = [pc |-> "send", pool |-> Queued \ old]
    /\ UNCHANGED <<seat, srv, seats, roster, acked, hub, acks, stray,
                   session, agent, late, faults>> /\ Select("tick")

\* The dispatch is through; the tick goes on with what is left of its pool.
Dispatched ==
    /\ tick.pc = "send" /\ carry["tick"] = {}
    /\ tick' = IF tick.pool = {} THEN [pc |-> "idle", pool |-> {}] ELSE [tick EXCEPT !.pc = "match"]
    /\ UNCHANGED <<tables, acked, carry, hub, acks, stray, session, agent, late, faults>>

\* Compatible with no candidate any more: finalize, unless no longer queued.
Outdated(t) ==
    /\ tick.pc = "match" /\ t \in tick.pool
    /\ status' = IF status[t] = "queued" THEN [status EXCEPT ![t] = "closed"] ELSE status
    /\ tick' = [tick EXCEPT !.pool = @ \ {t}]
    /\ UNCHANGED <<seat, srv, seats, roster, acked, carry, hub, acks, stray,
                   session, agent, late, faults>>

\* Mutant: the snapshot is trusted.
Revalidated_Trusted(g) == TRUE

\* Every member of the group is still queued under the fence.
Revalidated(g) == g \subseteq Queued

\* The commit's answer arrived and the tick goes on to dispatch, or it was lost
\* and the tick ends; the cache it drops is read again next time.
Committed(g, answered) ==
    IF answered
    THEN /\ tick' = [pc |-> "send", pool |-> tick.pool \ g]
         /\ Select("tick") /\ UNCHANGED faults
    ELSE tick' = [pc |-> "idle", pool |-> {}] /\ Fault /\ UNCHANGED carry

\* The roster grows by the group and a new command replaces the row's.
QueueAllocation(g, s) ==
    /\ seats' = [seats EXCEPT ![s] = @ + Seats(g)]
    /\ roster' = [roster EXCEPT ![s] = @ \cup g] /\ acked' = [acked EXCEPT ![s] = FALSE]

\* The members that are queued get their result.
Deliver(g, s) ==
    /\ status' = [t \in Tickets |-> IF t \in g \cap Queued THEN "matched" ELSE status[t]]
    /\ seat' = [t \in Tickets |-> IF t \in g \cap Queued THEN s ELSE seat[t]]

\* pack: some group of the pool within the free seats (MatchGroups has which).
Fits(g, free) == g # {} /\ g \subseteq tick.pool /\ Seats(g) <= free

\* A group of the pool gets a ready server, all in one transaction.
Allocate(g, s, answered) ==
    /\ tick.pc = "match" /\ Fits(g, MatchSize) /\ Revalidated(g)
    /\ srv[s] = "ready" /\ srv' = [srv EXCEPT ![s] = "allocated"]
    /\ QueueAllocation(g, s) /\ Deliver(g, s) /\ Committed(g, answered)
    /\ UNCHANGED <<hub, acks, stray, session, agent, late>>

\* It no longer is a group: those who left the queue leave the pool.
Regroup(g) ==
    /\ tick.pc = "match" /\ g \subseteq tick.pool /\ g # {} /\ ~Revalidated(g)
    /\ tick' = [tick EXCEPT !.pool = @ \ (g \ Queued)]
    /\ UNCHANGED <<tables, acked, carry, hub, acks, stray, session, agent, late, faults>>

\* Mutant: a player who is in the match already is not looked for.
Disjoint_Unchecked(g, s) == TRUE

\* The match holds none of the group's players.
Disjoint(g, s) == Players(g) \cap Players(roster[s]) = {}

\* A match that is open on an allocated server takes a group of the pool that
\* is still queued.
Backfill(g, s, answered) ==
    /\ tick.pc = "match" /\ Fits(g, MatchSize - seats[s]) /\ g \subseteq Queued
    /\ srv[s] = "allocated" /\ Disjoint(g, s) /\ UNCHANGED srv
    /\ QueueAllocation(g, s) /\ Deliver(g, s) /\ Committed(g, answered)
    /\ UNCHANGED <<hub, acks, stray, session, agent, late>>

\* No group is left that fits a server.
TickEnds ==
    /\ tick.pc = "match" /\ tick' = [pc |-> "idle", pool |-> {}]
    /\ UNCHANGED <<tables, acked, carry, hub, acks, stray, session, agent, late, faults>>

\* The server's life goes on outside: it drains or its match ends.
ServerMoves(s, to) ==
    /\ <<srv[s], to>> \in {<<"allocated", "draining">>, <<"allocated", "over">>, <<"draining", "over">>}
    /\ srv' = [srv EXCEPT ![s] = to]
    /\ UNCHANGED <<status, seat, seats, roster, acked, sched, hub, acks, stray,
                   session, agent, late, faults>>

-----------------------------------------------------------------------------
(* The agent and the game.                                                 *)

\* Mutant: a delayed command of the match is taken as it comes.
Newer_Any(c) == TRUE

\* SendAllocated: a smaller player count of the same match is an old command.
Newer(c) == Seats(c[2]) >= Seats(frame[c[1]])

Larger(a, b) == IF Seats(a) >= Seats(b) THEN a ELSE b

\* Allocate at the agent; a command id seen before changes nothing (neither
\* would taking it again), and it is acknowledged every time.
Receive(c) ==
    /\ session = "up" /\ c \in hub \ acks /\ acks' = acks \cup {c}
    /\ frame' = IF Newer(c) THEN [frame EXCEPT ![c[1]] = c[2]] ELSE frame
    /\ game' = IF c[1] \in conn THEN [game EXCEPT ![c[1]] = Larger(frame'[c[1]], @)] ELSE game
    /\ UNCHANGED <<tables, acked, sched, hub, stray, session, conn, late, faults>>

\* Mutant: the ack is matched by server, not by command id.
AckAllocation_ByServer(c) == [acked EXCEPT ![c[1]] = TRUE]

\* AckAllocation: only the row that still has this command id.
AckAllocation(c) == IF Command(c[1]) = c THEN [acked EXCEPT ![c[1]] = TRUE] ELSE acked

\* hub.Ack and the observer's write, which may fail.
Ack(c, written) ==
    /\ c \in acks /\ hub' = hub \ {c} /\ acks' = acks \ {c}
    /\ IF written THEN acked' = AckAllocation(c) /\ UNCHANGED faults
                  ELSE Fault /\ UNCHANGED acked
    /\ UNCHANGED <<tables, sched, stray, session, agent, late>>

\* The read loop of a session that has ended finishes an ack it holds.
AckLate(c) ==
    /\ c \in stray /\ stray' = stray \ {c} /\ hub' = hub \ {c}
    /\ acked' = AckAllocation(c) /\ late' = TRUE
    /\ UNCHANGED <<tables, sched, acks, session, agent, faults>>

\* acceptLoop: the game connects and is replayed the last frame.
GameConnects(s) ==
    /\ srv[s] \in Active /\ s \notin conn /\ conn' = conn \cup {s}
    /\ game' = [game EXCEPT ![s] = Larger(frame[s], @)]
    /\ UNCHANGED <<tables, acked, sched, hub, acks, stray, session, frame, late, faults>>

GameDisconnects(s) ==
    /\ s \in conn /\ Fault /\ conn' = conn \ {s}
    /\ UNCHANGED <<tables, acked, sched, hub, acks, stray, session, frame, game, late>>

-----------------------------------------------------------------------------
(* Sessions and crashes.                                                   *)

\* Mutant: a Hello does not re-arm.
Rearmed_None == acked

Rearmed == [s \in Servers |-> acked[s] /\ srv[s] \notin Active]

\* Session after Hello: re-arm, dispatch, and only then write to the stream.
Hello ==
    /\ session = "down" /\ session' = "hello" /\ acked' = Rearmed
    /\ UNCHANGED <<tables, tick, hub, acks, stray, agent, late, faults>> /\ Select("hello")

HelloDone ==
    /\ session = "hello" /\ carry["hello"] = {} /\ session' = "up"
    /\ UNCHANGED <<tables, acked, sched, hub, acks, stray, agent, late, faults>>

\* The stream breaks: the acks on it are lost or finished late.
SessionEnds(kept) ==
    /\ kept \subseteq acks /\ stray' = stray \cup kept /\ acks' = {}
    /\ session' = "down" /\ carry' = [carry EXCEPT !["hello"] = {}]

Cut(kept) ==
    /\ session = "up" /\ Fault /\ SessionEnds(kept)
    /\ UNCHANGED <<tables, acked, tick, hub, agent, late>>

\* The frames are in the agent's memory; the games live on.
AgentCrash(kept) ==
    /\ Fault /\ SessionEnds(kept)
    /\ frame' = [s \in Servers |-> {}] /\ conn' = {}
    /\ UNCHANGED <<tables, acked, tick, hub, game, late>>

MasterCrash ==
    /\ Fault /\ tick' = [pc |-> "idle", pool |-> {}] /\ carry' = [k \in Carriers |-> {}]
    /\ hub' = {} /\ acks' = {} /\ stray' = {} /\ session' = "down"
    /\ UNCHANGED <<tables, acked, agent, late>>

\* A transaction cannot begin or is rolled back: the tick gives up.
TickFails ==
    /\ tick.pc # "idle" /\ Fault /\ tick' = [pc |-> "idle", pool |-> {}]
    /\ carry' = [carry EXCEPT !["tick"] = {}]
    /\ UNCHANGED <<tables, acked, hub, acks, stray, session, agent, late>>

-----------------------------------------------------------------------------
TickSteps == Dispatched \/ TickEnds
HelloSteps == Hello \/ HelloDone
Carries(s) == \E c \in hub \cup acks : c[1] = s /\ (Receive(c) \/ Ack(c, TRUE))
Sends(k) == \E c \in carry[k] : SendDurable(k, c)

Next ==
    \/ \E t \in Tickets, b \in BOOLEAN : Submit(t, b)
    \/ \E t \in Tickets : CancelContext(t) \/ Outdated(t)
    \/ \E old \in SUBSET Tickets : RunOnce(old)
    \/ TickSteps \/ HelloSteps \/ TickFails \/ MasterCrash
    \/ \E g \in SUBSET Tickets, s \in Servers, b \in BOOLEAN : Allocate(g, s, b) \/ Backfill(g, s, b)
    \/ \E g \in SUBSET Tickets : Regroup(g)
    \/ \E s \in Servers : GameConnects(s) \/ GameDisconnects(s)
    \/ \E s \in Servers, to \in Active \cup {"over"} : ServerMoves(s, to)
    \/ \E k \in Carriers, c \in Commands : SendDurable(k, c)
    \/ \E c \in Commands : Receive(c) \/ AckLate(c) \/ \E b \in BOOLEAN : Ack(c, b)
    \/ \E kept \in SUBSET acks : Cut(kept) \/ AgentCrash(kept)

Spec == Init /\ [][Next]_vars

\* The ticker, the dispatch loops, the session's reconnect, the link and the
\* game's own reconnect all run for ever.
FairSpec ==
    /\ Spec
    /\ WF_vars(RunOnce({}) \/ TickSteps \/ Sends("tick"))
    /\ WF_vars(HelloSteps \/ Sends("hello"))
    /\ \A s \in Servers : WF_vars(GameConnects(s)) /\ WF_vars(Carries(s))

-----------------------------------------------------------------------------
(* Properties.                                                             *)

\* A server's reserved seats are the players of the tickets matched to it, all
\* different and at most match_size; a ticket is matched exactly when it has a
\* server: no snapshot, lost answer or retry seats a ticket twice or halfway.
SeatsAccounted ==
    /\ \A s \in Servers : /\ seats[s] = Cardinality(Players(Assigned(s))) /\ seats[s] <= MatchSize
                          /\ roster[s] = Assigned(s)
    /\ \A t \in Tickets : status[t] = "matched" <=> seat[t] # NoServer

\* No player waits in two queued tickets, whichever party or solo request
\* brought it there.
OneQueuedPerPlayer == \A t, u \in Queued : t # u => MembersOf[t] \cap MembersOf[u] = {}

\* A party is queued with the newest revision it ever submitted, however long
\* ago that was.
NewestRevisionQueued ==
    \A t \in Queued, u \in Tickets :
        PartyOf[t] # NoParty /\ PartyOf[u] = PartyOf[t] /\ status[u] # "none" => RevOf[u] <= RevOf[t]

\* Within one agent process the frame a reconnecting game is given never loses
\* a ticket, though commands of a match may arrive in any order.
FrameNeverShrinks ==
    [][\A s \in Servers : frame[s] \subseteq frame'[s] \/ (frame'[s] = {} /\ conn' = {})]_vars

\* The game of a matched ticket learns of it, through lost hubs, frames and
\* streams, unless its server ends first or an ack of an ended session is
\* written after the Hello that re-armed the row.
RosterReachesGame ==
    \A t \in Tickets, s \in Servers :
        seat[t] = s ~> (t \in game[s] \/ srv[s] = "over" \/ late)
=============================================================================
