------------------------- MODULE MatchmakerProofs --------------------------
(***************************************************************************)
(* Proofs about the matchmaker, for every set of tickets, parties, players *)
(* and servers, any match size and any number of faults.                   *)
(*                                                                         *)
(* The invariant has four parts.  The queue holds a player once and a      *)
(* party's newest revision: inductive with the types, because Submit asks  *)
(* the table and not a cache.  The seats of a server are the players of    *)
(* the tickets matched to it: this needs the queue's part, since a group's *)
(* seats are its players only while no two queued tickets share one.  The  *)
(* rosters of a server that are under way form a chain: a command smaller  *)
(* in seats than the frame is then smaller as a set, which is all that the *)
(* agent's comparison of two numbers relies on.                            *)
(***************************************************************************)
EXTENDS Matchmaker, FiniteSetTheorems, TLAPS

\* The commands on their way from the outbox rows to the agent.
UnderWay == hub \cup carry["tick"] \cup carry["hello"]

Comparable(a, b) == a \subseteq b \/ b \subseteq a

\* The reserved seats, roster and result of each server and ticket agree, and
\* a server that is ready has no match yet.
SeatsOf(s) ==
    /\ roster[s] = Assigned(s)
    /\ seats[s] = Cardinality(Players(roster[s])) /\ seats[s] <= MatchSize
    /\ (srv[s] = "ready" => roster[s] = {})

SeatInv ==
    /\ \A t \in Tickets : status[t] = "matched" <=> seat[t] # NoServer
    /\ \A s \in Servers : SeatsOf(s)

\* All rosters of a server that are under way or with the agent are comparable
\* and none has a ticket the row has not.
RostersGrow ==
    \A s \in Servers :
        /\ frame[s] \subseteq roster[s]
        /\ \A c \in UnderWay : c[1] = s =>
             /\ c[2] \subseteq roster[s] /\ Comparable(c[2], frame[s])
             /\ \A d \in UnderWay : d[1] = s => Comparable(c[2], d[2])

MatchmakerInv ==
    TypeOK /\ OneQueuedPerPlayer /\ NewestRevisionQueued /\ SeatInv /\ RostersGrow

-----------------------------------------------------------------------------
(* Seats and players of a set of tickets.                                  *)

\* A set of tickets has finitely many players and a number of seats.
LEMMA PlayersFinite ==
    ASSUME NEW g \in SUBSET Tickets
    PROVE  /\ IsFiniteSet(g) /\ IsFiniteSet(Players(g)) /\ Cardinality(Players(g)) \in Nat
           /\ IsFiniteSet(UNION {{t} \X MembersOf[t] : t \in g}) /\ Seats(g) \in Nat
<1>. DEFINE P == UNION {{t} \X MembersOf[t] : t \in g}
<1>1. IsFiniteSet(g)
  BY MatchmakerAssumption, FS_Subset
<1>2. IsFiniteSet({MembersOf[t] : t \in g})
  <2>. DEFINE S == {MembersOf[t] : t \in g}
              f == [t \in g |-> MembersOf[t]]
  <2>1. f \in Surjection(g, S)
    BY DEF Surjection
  <2>. QED
    BY <1>1, <2>1, FS_Surjection
<1>3. IsFiniteSet(Players(g))
  BY <1>2, FS_UNION, MatchmakerAssumption DEF Players
<1>4. IsFiniteSet(g \X Players(g))
  BY <1>1, <1>3, FS_Product
<1>5. P \subseteq g \X Players(g)
  BY DEF Players
<1>6. IsFiniteSet(P)
  BY <1>4, <1>5, FS_Subset
<1>. QED
  BY <1>1, <1>3, <1>6, FS_CardinalityType DEF Seats

\* While no player is in two of the tickets, a group's seats are its players.
LEMMA SeatsArePlayers ==
    ASSUME NEW g \in SUBSET Tickets,
           \A t, u \in g : t # u => MembersOf[t] \cap MembersOf[u] = {}
    PROVE  Seats(g) = Cardinality(Players(g))
<1>. DEFINE P == UNION {{t} \X MembersOf[t] : t \in g}
            f == [x \in P |-> x[2]]
<1>1. IsFiniteSet(P)
  BY PlayersFinite
<1>2. \A x \in P : \E t \in g : x = <<t, x[2]>> /\ x[2] \in MembersOf[t]
  OBVIOUS
<1>3. f \in [P -> Players(g)]
  BY <1>2 DEF Players
<1>4. \A x, y \in P : x[2] = y[2] => x = y
  <2>. SUFFICES ASSUME NEW x \in P, NEW y \in P, x[2] = y[2] PROVE x = y
    OBVIOUS
  <2>1. PICK t \in g : x = <<t, x[2]>> /\ x[2] \in MembersOf[t]
    BY <1>2
  <2>2. PICK u \in g : y = <<u, y[2]>> /\ y[2] \in MembersOf[u]
    BY <1>2
  <2>. QED
    BY <2>1, <2>2
<1>5. \A p \in Players(g) : \E x \in P : f[x] = p
  <2>. SUFFICES ASSUME NEW p \in Players(g) PROVE \E x \in P : f[x] = p
    OBVIOUS
  <2>1. PICK t \in g : p \in MembersOf[t]
    BY DEF Players
  <2>2. <<t, p>> \in P
    BY <2>1
  <2>. QED
    BY <2>2
<1>6. f \in Bijection(P, Players(g))
  <2>. HIDE DEF P
  <2>1. f \in Injection(P, Players(g))
    BY <1>3, <1>4 DEF Injection, IsInjective
  <2>2. f \in Surjection(P, Players(g))
    BY <1>3, <1>5 DEF Surjection
  <2>. QED
    BY <2>1, <2>2 DEF Bijection
<1>7. Cardinality(Players(g)) = Cardinality(P)
  <2>. HIDE DEF P, f
  <2>. QED
    BY <1>1, <1>6, FS_Bijection DEF ExistsBijection
<1>. QED
  BY <1>7 DEF Seats

\* A group that grows has more seats, for every ticket has a member.
LEMMA SeatsGrow ==
    ASSUME NEW g \in SUBSET Tickets, NEW h \in SUBSET g, Seats(h) >= Seats(g)
    PROVE  h = g
<1>. DEFINE Pairs(k) == UNION {{t} \X MembersOf[t] : t \in k}
<1>1. IsFiniteSet(Pairs(g)) /\ Seats(g) \in Nat /\ Seats(h) \in Nat
  BY PlayersFinite
<1>2. Pairs(h) \subseteq Pairs(g)
  OBVIOUS
<1>3. Cardinality(Pairs(h)) <= Cardinality(Pairs(g))
  <2>. HIDE DEF Pairs
  <2>. QED BY <1>1, <1>2, FS_Subset
<1>4. Cardinality(Pairs(g)) = Cardinality(Pairs(h))
  BY <1>1, <1>3 DEF Seats
<1>5. Pairs(h) = Pairs(g)
  <2>. HIDE DEF Pairs
  <2>. QED BY <1>1, <1>2, <1>4, FS_Subset
<1>6. ASSUME NEW t \in g PROVE t \in h
  <2>1. PICK p : p \in MembersOf[t]
    BY MatchmakerAssumption
  <2>2. <<t, p>> \in Pairs(h)
    BY <2>1, <1>5
  <2>. QED
    BY <2>2
<1>. QED
  BY <1>6

-----------------------------------------------------------------------------
(* Types.                                                                  *)

LEMMA InitTypes == Init => TypeOK
<1>. SUFFICES ASSUME Init PROVE TypeOK
  OBVIOUS
<1>1. 0 \in 0 .. MaxFaults
  BY MatchmakerAssumption
<1>2. /\ carry \in [Carriers -> SUBSET Commands]
      /\ tick \in [pc : {"idle", "send", "match"}, pool : SUBSET Tickets]
  BY DEF Init
<1>3. /\ status \in [Tickets -> {"none", "queued", "matched", "closed"}]
      /\ seat \in [Tickets -> Servers \cup {NoServer}]
  BY DEF Init
<1>4. /\ srv \in [Servers -> {"ready", "allocated", "draining", "over"}]
      /\ seats \in [Servers -> Nat] /\ roster \in [Servers -> SUBSET Tickets]
      /\ acked \in [Servers -> BOOLEAN]
  BY DEF Init
<1>. QED
  BY <1>1, <1>2, <1>3, <1>4 DEF Init, TypeOK

\* The commands a dispatch selects are commands.
LEMMA SelectTypes ==
    ASSUME NEW k \in Carriers, carry \in [Carriers -> SUBSET Commands],
           roster' \in [Servers -> SUBSET Tickets], Select(k)
    PROVE  carry' \in [Carriers -> SUBSET Commands]
<1>1. {Command(s) : s \in Due}' \subseteq Commands
  BY DEF Command, Due, Commands
<1>. QED
  BY <1>1 DEF Select

LEMMA StepTypes ==
    ASSUME TypeOK, [Next]_vars
    PROVE  TypeOK'
<1>. USE DEF TypeOK
<1>1. ASSUME NEW t \in Tickets, NEW b \in BOOLEAN, Submit(t, b) PROVE TypeOK'
  BY <1>1 DEF Submit, sched, agent
<1>2. ASSUME NEW t \in Tickets, CancelContext(t) PROVE TypeOK'
  BY <1>2 DEF CancelContext, sched, agent
<1>3. ASSUME NEW t \in Tickets, Outdated(t) PROVE TypeOK'
  BY <1>3 DEF Outdated, agent
<1>4. ASSUME NEW old \in SUBSET Tickets, RunOnce(old) PROVE TypeOK'
  <2>1. carry' \in [Carriers -> SUBSET Commands]
    BY <1>4, SelectTypes DEF RunOnce, Carriers
  <2>. QED
    BY <1>4, <2>1 DEF RunOnce, agent, Queued
<1>5. CASE TickSteps
  BY <1>5 DEF TickSteps, Dispatched, TickEnds, tables, agent
<1>6. CASE HelloSteps
  <2>1. CASE Hello
    <3>1. carry' \in [Carriers -> SUBSET Commands]
      BY <2>1, SelectTypes DEF Hello, Carriers, tables
    <3>2. Rearmed \in [Servers -> BOOLEAN]
      BY DEF Rearmed
    <3>. QED
      BY <2>1, <3>1, <3>2 DEF Hello, tables, agent
  <2>2. CASE HelloDone
    BY <2>2 DEF HelloDone, tables, agent, sched
  <2>. QED
    BY <1>6, <2>1, <2>2 DEF HelloSteps
<1>7. CASE TickFails
  BY <1>7, MatchmakerAssumption DEF TickFails, Fault, tables, agent, Carriers
<1>8. CASE MasterCrash
  BY <1>8, MatchmakerAssumption DEF MasterCrash, Fault, tables, agent, Carriers
<1>9. ASSUME NEW g \in SUBSET Tickets, NEW s \in Servers, NEW b \in BOOLEAN,
             Allocate(g, s, b) \/ Backfill(g, s, b)
      PROVE  TypeOK'
  <2>1. srv' \in [Servers -> {"ready", "allocated", "draining", "over"}]
    BY <1>9 DEF Allocate, Backfill
  <2>2. /\ seats' \in [Servers -> Nat] /\ roster' \in [Servers -> SUBSET Tickets]
        /\ acked' \in [Servers -> BOOLEAN]
    <3>1. QueueAllocation(g, s)
      BY <1>9 DEF Allocate, Backfill
    <3>2. Seats(g) \in Nat
      BY PlayersFinite
    <3>. QED
      BY <3>1, <3>2 DEF QueueAllocation
  <2>3. /\ status' \in [Tickets -> {"none", "queued", "matched", "closed"}]
        /\ seat' \in [Tickets -> Servers \cup {NoServer}]
    BY <1>9 DEF Allocate, Backfill, Deliver
  <2>4. Committed(g, b)
    BY <1>9 DEF Allocate, Backfill
  <2>5. carry' \in [Carriers -> SUBSET Commands]
    BY <2>2, <2>4, SelectTypes DEF Committed, Carriers
  <2>6. /\ tick' \in [pc : {"idle", "send", "match"}, pool : SUBSET Tickets]
        /\ faults' \in 0 .. MaxFaults
    BY <2>4, MatchmakerAssumption DEF Committed, Fault
  <2>7. UNCHANGED <<hub, acks, stray, session, agent, late>>
    BY <1>9 DEF Allocate, Backfill
  <2>. QED
    BY <2>1, <2>2, <2>3, <2>5, <2>6, <2>7 DEF agent
<1>10. ASSUME NEW g \in SUBSET Tickets, Regroup(g) PROVE TypeOK'
  BY <1>10 DEF Regroup, tables, agent
<1>11. ASSUME NEW s \in Servers, GameConnects(s) PROVE TypeOK'
  BY <1>11 DEF GameConnects, tables, sched, Larger
<1>12. ASSUME NEW s \in Servers, GameDisconnects(s) PROVE TypeOK'
  BY <1>12, MatchmakerAssumption DEF GameDisconnects, Fault, tables, sched
<1>13. ASSUME NEW s \in Servers, NEW to \in Active \cup {"over"}, ServerMoves(s, to) PROVE TypeOK'
  BY <1>13 DEF ServerMoves, sched, agent, Active
<1>14. ASSUME NEW k \in Carriers, NEW c \in Commands, SendDurable(k, c) PROVE TypeOK'
  BY <1>14 DEF SendDurable, tables, agent
<1>15. ASSUME NEW c \in Commands, Receive(c) PROVE TypeOK'
  <2>1. c[1] \in Servers /\ c[2] \in SUBSET Tickets
    BY DEF Commands
  <2>2. frame' \in [Servers -> SUBSET Tickets]
    BY <1>15, <2>1 DEF Receive
  <2>3. game' \in [Servers -> SUBSET Tickets]
    BY <1>15, <2>1, <2>2 DEF Receive, Larger
  <2>. QED
    BY <1>15, <2>2, <2>3 DEF Receive, tables, sched
<1>16. ASSUME NEW c \in Commands, AckLate(c) \/ \E b \in BOOLEAN : Ack(c, b) PROVE TypeOK'
  <2>1. AckAllocation(c) \in [Servers -> BOOLEAN]
    BY DEF AckAllocation
  <2>. QED
    <3>1. CASE AckLate(c)
      BY <2>1, <3>1 DEF AckLate, tables, sched, agent
    <3>2. ASSUME NEW b \in BOOLEAN, Ack(c, b) PROVE TypeOK'
      <4>1. acked' \in [Servers -> BOOLEAN] /\ faults' \in 0 .. MaxFaults
        BY <2>1, <3>2, MatchmakerAssumption DEF Ack, Fault
      <4>. QED
        BY <3>2, <4>1 DEF Ack, tables, sched, agent
    <3>. QED
      BY <1>16, <3>1, <3>2
<1>17. ASSUME NEW kept \in SUBSET acks, Cut(kept) \/ AgentCrash(kept) PROVE TypeOK'
  BY <1>17, MatchmakerAssumption DEF Cut, AgentCrash, SessionEnds, Fault, tables, agent, Carriers
<1>18. CASE UNCHANGED vars
  BY <1>18 DEF vars, tables, sched, agent
<1>. HIDE DEF TypeOK
<1>. QED
  BY <1>1, <1>2, <1>3, <1>4, <1>5, <1>6, <1>7, <1>8, <1>9, <1>10, <1>11, <1>12, <1>13,
     <1>14, <1>15, <1>16, <1>17, <1>18 DEF Next


-----------------------------------------------------------------------------
(* The queue.                                                              *)

\* Tickets only leave the queue, and none becomes known.
LeavesQueue ==
    \A t \in Tickets : /\ status'[t] = "queued" => status[t] = "queued"
                       /\ status'[t] # "none" => status[t] # "none"

\* Only a Submit queues a ticket or makes one known.
LEMMA OnlySubmitQueues ==
    ASSUME TypeOK, [Next]_vars
    PROVE  (\E t \in Tickets, b \in BOOLEAN : Submit(t, b)) \/ LeavesQueue
<1>. USE DEF LeavesQueue, TypeOK
<1>1. ASSUME UNCHANGED status PROVE LeavesQueue
  BY <1>1
<1>2. ASSUME NEW t \in Tickets, CancelContext(t) \/ Outdated(t) PROVE LeavesQueue
  BY <1>2 DEF CancelContext, Outdated
<1>3. ASSUME NEW old \in SUBSET Tickets, RunOnce(old) PROVE LeavesQueue
  BY <1>3 DEF RunOnce, Queued
<1>4. ASSUME NEW g \in SUBSET Tickets, NEW s \in Servers, NEW b \in BOOLEAN,
             Allocate(g, s, b) \/ Backfill(g, s, b)
      PROVE  LeavesQueue
  BY <1>4 DEF Allocate, Backfill, Deliver, Queued
<1>5. TickSteps \/ HelloSteps \/ TickFails \/ MasterCrash \/ UNCHANGED vars => UNCHANGED status
  BY DEF TickSteps, Dispatched, TickEnds, HelloSteps, Hello, HelloDone, TickFails, MasterCrash,
         tables, vars
<1>6. ASSUME NEW s \in Servers, NEW to,
             GameConnects(s) \/ GameDisconnects(s) \/ ServerMoves(s, to)
      PROVE  UNCHANGED status
  BY <1>6 DEF GameConnects, GameDisconnects, ServerMoves, tables
<1>7. ASSUME NEW k, NEW c, NEW b,
             SendDurable(k, c) \/ Receive(c) \/ AckLate(c) \/ Ack(c, b)
      PROVE  UNCHANGED status
  BY <1>7 DEF SendDurable, Receive, AckLate, Ack, tables
<1>8. ASSUME NEW g, Regroup(g) \/ Cut(g) \/ AgentCrash(g) PROVE UNCHANGED status
  BY <1>8 DEF Regroup, Cut, AgentCrash, tables
<1>. HIDE DEF LeavesQueue, TypeOK
<1>. QED
  BY <1>1, <1>2, <1>3, <1>4, <1>5, <1>6, <1>7, <1>8 DEF Next

\* Both queue properties survive every step.
LEMMA StepQueue ==
    ASSUME TypeOK, OneQueuedPerPlayer, NewestRevisionQueued, [Next]_vars
    PROVE  OneQueuedPerPlayer' /\ NewestRevisionQueued'
<1>1. CASE LeavesQueue
  BY <1>1 DEF LeavesQueue, OneQueuedPerPlayer, NewestRevisionQueued, Queued
<1>2. ASSUME NEW t \in Tickets, NEW b \in BOOLEAN, Submit(t, b)
      PROVE  OneQueuedPerPlayer' /\ NewestRevisionQueued'
  <2>1. \A u \in Queued' : u = t \/ u \in Queued \ Superseded(t)
    BY <1>2 DEF Submit, Queued
  <2>2. ASSUME NEW u \in Queued', u # t
        PROVE  /\ MembersOf[u] \cap MembersOf[t] = {} /\ MembersOf[t] \cap MembersOf[u] = {}
               /\ PartyOf[t] # NoParty => PartyOf[u] # PartyOf[t]
    BY <2>1, <2>2 DEF Superseded
  <2>3. OneQueuedPerPlayer'
    <3>1. ASSUME NEW u \in Queued', NEW w \in Queued', u # w
          PROVE  MembersOf[u] \cap MembersOf[w] = {}
      <4>1. CASE u = t \/ w = t
        BY <2>2, <3>1, <4>1
      <4>2. CASE u # t /\ w # t
        BY <2>1, <3>1, <4>2 DEF OneQueuedPerPlayer
      <4>. QED
        BY <4>1, <4>2
    <3>. QED
      BY <3>1 DEF OneQueuedPerPlayer
  <2>4. \A u \in Tickets : status'[u] # "none" => u = t \/ status[u] # "none"
    BY <1>2 DEF Submit, Superseded, Queued
  <2>5. ASSUME NEW u \in Queued', NEW w \in Tickets,
               PartyOf[u] # NoParty, PartyOf[w] = PartyOf[u], status'[w] # "none"
        PROVE  RevOf[w] <= RevOf[u]
    <3>1. RevOf[u] \in Nat /\ RevOf[w] \in Nat
      BY MatchmakerAssumption DEF Queued
    <3>2. CASE u = t /\ w # t
      <4>1. RevOf[w] < RevOf[u]
        BY <1>2, <2>4, <2>5, <3>2 DEF Submit, LatestParty
      <4>. QED
        BY <3>1, <4>1
    <3>3. CASE u = t /\ w = t
      BY <3>1, <3>3
    <3>4. CASE u # t
      <4>1. w # t
        <5>1. PartyOf[t] # NoParty => PartyOf[u] # PartyOf[t]
          BY <2>2, <3>4
        <5>. QED
          BY <2>5, <5>1
      <4>. QED
        BY <2>1, <2>4, <2>5, <3>4, <4>1 DEF NewestRevisionQueued
    <3>. QED
      BY <3>2, <3>3, <3>4
  <2>. QED
    BY <2>3, <2>5 DEF NewestRevisionQueued
<1>. QED
  BY <1>1, <1>2, OnlySubmitQueues

-----------------------------------------------------------------------------
(* Seats.                                                                  *)

\* A step that seats nobody: results and rosters stay, no ticket becomes or
\* ceases to be matched, no server becomes ready.
SeatsNobody ==
    /\ UNCHANGED <<seat, seats, roster>>
    /\ \A t \in Tickets : status'[t] = "matched" <=> status[t] = "matched"
    /\ \A s \in Servers : srv'[s] = "ready" => srv[s] = "ready"

LEMMA OnlyTheTickSeats ==
    ASSUME TypeOK, [Next]_vars
    PROVE  \/ \E g \in SUBSET Tickets, s \in Servers, b \in BOOLEAN :
                 Allocate(g, s, b) \/ Backfill(g, s, b)
           \/ SeatsNobody
<1>. USE DEF SeatsNobody, TypeOK
<1>1. ASSUME UNCHANGED <<status, seat, seats, roster, srv>> PROVE SeatsNobody
  BY <1>1
<1>2. ASSUME NEW t \in Tickets, CancelContext(t) \/ Outdated(t) PROVE SeatsNobody
  BY <1>2 DEF CancelContext, Outdated
<1>3. ASSUME NEW old \in SUBSET Tickets, RunOnce(old) PROVE SeatsNobody
  BY <1>3 DEF RunOnce, Queued
<1>4. ASSUME NEW t \in Tickets, NEW b \in BOOLEAN, Submit(t, b) PROVE SeatsNobody
  BY <1>4 DEF Submit, Superseded, Queued
<1>5. TickSteps \/ HelloSteps \/ TickFails \/ MasterCrash \/ UNCHANGED vars
        => UNCHANGED <<status, seat, seats, roster, srv>>
  BY DEF TickSteps, Dispatched, TickEnds, HelloSteps, Hello, HelloDone, TickFails, MasterCrash,
         tables, vars
<1>6. ASSUME NEW s \in Servers, GameConnects(s) \/ GameDisconnects(s)
      PROVE  UNCHANGED <<status, seat, seats, roster, srv>>
  BY <1>6 DEF GameConnects, GameDisconnects, tables
<1>7. ASSUME NEW k, NEW c, NEW b,
             SendDurable(k, c) \/ Receive(c) \/ AckLate(c) \/ Ack(c, b)
      PROVE  UNCHANGED <<status, seat, seats, roster, srv>>
  BY <1>7 DEF SendDurable, Receive, AckLate, Ack, tables
<1>8. ASSUME NEW g, Regroup(g) \/ Cut(g) \/ AgentCrash(g)
      PROVE  UNCHANGED <<status, seat, seats, roster, srv>>
  BY <1>8 DEF Regroup, Cut, AgentCrash, tables
<1>9. ASSUME NEW s \in Servers, NEW to \in Active \cup {"over"}, ServerMoves(s, to)
      PROVE  SeatsNobody
  BY <1>9 DEF ServerMoves
<1>. HIDE DEF SeatsNobody, TypeOK
<1>. QED
  BY <1>1, <1>2, <1>3, <1>4, <1>5, <1>6, <1>7, <1>8, <1>9 DEF Next

\* A queued group that fits and shares no player with the roster keeps the
\* books of every server; a new match is the case of an empty roster.
LEMMA SeatingStep ==
    ASSUME TypeOK, OneQueuedPerPlayer, SeatInv,
           NEW g \in SUBSET Tickets, NEW s \in Servers,
           g \subseteq Queued, Seats(g) <= MatchSize - seats[s], Disjoint(g, s),
           QueueAllocation(g, s), Deliver(g, s),
           srv'[s] # "ready", \A r \in Servers \ {s} : srv'[r] = srv[r]
    PROVE  SeatInv'
<1>. USE DEF TypeOK
<1>1. /\ status' = [t \in Tickets |-> IF t \in g THEN "matched" ELSE status[t]]
      /\ seat' = [t \in Tickets |-> IF t \in g THEN s ELSE seat[t]]
  BY DEF Deliver
<1>2. \A t \in g : seat[t] = NoServer
  BY DEF SeatInv, Queued
<1>3. s # NoServer
  BY MatchmakerAssumption
<1>4. \A t \in Tickets : (status[t] = "matched" <=> seat[t] # NoServer)'
  BY <1>1, <1>3 DEF SeatInv
<1>5. Assigned(s)' = Assigned(s) \cup g
  BY <1>1 DEF Assigned
<1>6. \A r \in Servers \ {s} : Assigned(r)' = Assigned(r)
  BY <1>1, <1>2, MatchmakerAssumption DEF Assigned
<1>7. ASSUME NEW r \in Servers \ {s} PROVE SeatsOf(r)'
  <2>1. roster'[r] = roster[r] /\ seats'[r] = seats[r] /\ srv'[r] = srv[r]
    BY DEF QueueAllocation
  <2>. QED
    BY <1>6, <2>1 DEF SeatInv, SeatsOf
<1>8. SeatsOf(s)'
  <2>1. roster'[s] = roster[s] \cup g /\ seats'[s] = seats[s] + Seats(g)
    BY DEF QueueAllocation
  <2>2. roster[s] \in SUBSET Tickets /\ seats[s] = Cardinality(Players(roster[s]))
    BY DEF SeatInv, SeatsOf
  <2>3. Seats(g) = Cardinality(Players(g))
    BY SeatsArePlayers DEF OneQueuedPerPlayer
  <2>4. Players(roster'[s]) = Players(roster[s]) \cup Players(g)
    BY <2>1 DEF Players
  <2>5. Players(roster[s]) \cap Players(g) = {}
    BY DEF Disjoint
  <2>6. /\ IsFiniteSet(Players(g)) /\ IsFiniteSet(Players(roster[s]))
        /\ Cardinality(Players(g)) \in Nat /\ Cardinality(Players(roster[s])) \in Nat
    BY <2>2, PlayersFinite
  <2>7. Cardinality(Players(roster'[s])) = Cardinality(Players(roster[s])) + Cardinality(Players(g))
    <3>. DEFINE A == Players(roster[s])
                B == Players(g)
    <3>1. /\ IsFiniteSet(A) /\ IsFiniteSet(B) /\ A \cap B = {}
          /\ Cardinality(A) \in Nat /\ Cardinality(B) \in Nat
      BY <2>5, <2>6
    <3>. HIDE DEF A, B
    <3>2. Cardinality(A \cup B) = Cardinality(A) + Cardinality(B) - Cardinality(A \cap B)
      BY <3>1, FS_Union
    <3>3. Cardinality(A \cap B) = 0
      BY <3>1, FS_EmptySet
    <3>4. Cardinality(A \cup B) = Cardinality(A) + Cardinality(B)
      BY <3>1, <3>2, <3>3
    <3>. QED
      BY <2>4, <3>4 DEF A, B
  <2>8. seats'[s] = Cardinality(Players(roster'[s]))
    BY <2>1, <2>2, <2>3, <2>7
  <2>9. seats'[s] <= MatchSize
    BY <2>1, <2>2, <2>3, <2>6, MatchmakerAssumption
  <2>10. roster'[s] = Assigned(s)'
    BY <1>5, <2>1 DEF SeatInv, SeatsOf
  <2>11. (Players(roster[s]))' = Players(roster'[s])
    BY DEF Players
  <2>. QED
    BY <2>8, <2>9, <2>10, <2>11 DEF SeatsOf
<1>. QED
  BY <1>4, <1>7, <1>8 DEF SeatInv

LEMMA StepSeats ==
    ASSUME TypeOK, OneQueuedPerPlayer, SeatInv, [Next]_vars
    PROVE  SeatInv'
<1>1. CASE SeatsNobody
  BY <1>1 DEF SeatsNobody, SeatInv, SeatsOf, Assigned, Players
<1>2. ASSUME NEW g \in SUBSET Tickets, NEW s \in Servers, NEW b \in BOOLEAN, Allocate(g, s, b)
      PROVE  SeatInv'
  <2>1. roster[s] = {} /\ seats[s] = Cardinality(Players(roster[s]))
    BY <1>2 DEF Allocate, SeatInv, SeatsOf
  <2>2. Players({}) = {}
    BY DEF Players
  <2>3. seats[s] = 0
    BY <2>1, <2>2, FS_EmptySet
  <2>4. Disjoint(g, s)
    BY <2>1, <2>2 DEF Disjoint
  <2>5. Seats(g) <= MatchSize - seats[s]
    BY <1>2, <2>3, PlayersFinite, MatchmakerAssumption DEF Allocate, Fits
  <2>6. /\ g \subseteq Queued /\ QueueAllocation(g, s) /\ Deliver(g, s)
        /\ srv'[s] # "ready" /\ \A r \in Servers \ {s} : srv'[r] = srv[r]
    BY <1>2 DEF Allocate, Revalidated, TypeOK
  <2>. QED
    BY <2>4, <2>5, <2>6, SeatingStep
<1>3. ASSUME NEW g \in SUBSET Tickets, NEW s \in Servers, NEW b \in BOOLEAN, Backfill(g, s, b)
      PROVE  SeatInv'
  <2>1. /\ g \subseteq Queued /\ QueueAllocation(g, s) /\ Deliver(g, s) /\ Disjoint(g, s)
        /\ srv'[s] # "ready" /\ \A r \in Servers \ {s} : srv'[r] = srv[r]
        /\ Seats(g) <= MatchSize - seats[s]
    BY <1>3 DEF Backfill, Fits, TypeOK
  <2>. QED
    BY <2>1, SeatingStep
<1>. QED
  BY <1>1, <1>2, <1>3, OnlyTheTickSeats

-----------------------------------------------------------------------------
(* The rosters under way.                                                  *)

\* Rosters only grow; what sets out is the roster of its row; a frame stays,
\* goes with the agent, or is a roster that was under way.
OnlyNewestSetsOut ==
    /\ \A s \in Servers : roster[s] \subseteq roster'[s]
    /\ \A c \in UnderWay' : c \in UnderWay \/ c[2] = roster'[c[1]]

FrameStep ==
    \A s \in Servers : \/ frame'[s] \in {frame[s], {}}
                       \/ \E c \in UnderWay : c[1] = s /\ c[2] = frame'[s]

LEMMA SelectSetsOut ==
    ASSUME NEW k \in Carriers, carry \in [Carriers -> SUBSET Commands], Select(k),
           UNCHANGED hub
    PROVE  \A c \in UnderWay' : c \in UnderWay \/ c[2] = roster'[c[1]]
<1>1. \A c \in {Command(s) : s \in Due}' : c[2] = roster'[c[1]]
  BY DEF Command
<1>. QED
  BY <1>1 DEF Select, UnderWay, Carriers

LEMMA StepSetsOut ==
    ASSUME TypeOK, [Next]_vars
    PROVE  OnlyNewestSetsOut
<1>. USE DEF OnlyNewestSetsOut, TypeOK
<1>1. ASSUME UNCHANGED roster, UnderWay' \subseteq UnderWay PROVE OnlyNewestSetsOut
  BY <1>1
<1>2. ASSUME UNCHANGED <<roster, hub, carry>> PROVE OnlyNewestSetsOut
  BY <1>2 DEF UnderWay
<1>3. ASSUME UNCHANGED <<roster, hub>>, NEW k \in Carriers, Select(k) PROVE OnlyNewestSetsOut
  BY <1>3, SelectSetsOut
<1>4. ASSUME NEW t \in Tickets, NEW b \in BOOLEAN,
             Submit(t, b) \/ CancelContext(t) \/ Outdated(t)
      PROVE  OnlyNewestSetsOut
  BY <1>2, <1>4 DEF Submit, CancelContext, Outdated, sched
<1>5. ASSUME NEW old \in SUBSET Tickets, RunOnce(old) PROVE OnlyNewestSetsOut
  BY <1>3, <1>5 DEF RunOnce, Carriers
<1>6. CASE TickSteps
  BY <1>2, <1>6 DEF TickSteps, Dispatched, TickEnds, tables
<1>7. CASE HelloSteps
  BY <1>2, <1>3, <1>7 DEF HelloSteps, Hello, HelloDone, tables, sched, Carriers
<1>8. CASE TickFails \/ MasterCrash
  <2>1. UnderWay' \subseteq UnderWay /\ UNCHANGED roster
    BY <1>8 DEF TickFails, MasterCrash, tables, UnderWay, Carriers
  <2>. QED
    BY <1>1, <2>1
<1>9. ASSUME NEW g \in SUBSET Tickets, NEW s \in Servers, NEW b \in BOOLEAN,
             Allocate(g, s, b) \/ Backfill(g, s, b)
      PROVE  OnlyNewestSetsOut
  <2>1. QueueAllocation(g, s) /\ Committed(g, b) /\ UNCHANGED hub
    BY <1>9 DEF Allocate, Backfill
  <2>2. \A r \in Servers : roster[r] \subseteq roster'[r]
    BY <2>1 DEF QueueAllocation
  <2>3. \A c \in UnderWay' : c \in UnderWay \/ c[2] = roster'[c[1]]
    <3>1. CASE b
      BY <2>1, <3>1, SelectSetsOut DEF Committed, Carriers
    <3>2. CASE ~b
      BY <2>1, <3>2 DEF Committed, UnderWay
    <3>. QED
      BY <3>1, <3>2
  <2>. QED
    BY <2>2, <2>3
<1>10. ASSUME NEW g, Regroup(g) PROVE OnlyNewestSetsOut
  BY <1>2, <1>10 DEF Regroup, tables
<1>11. ASSUME NEW s \in Servers, NEW to,
              GameConnects(s) \/ GameDisconnects(s) \/ ServerMoves(s, to)
       PROVE  OnlyNewestSetsOut
  BY <1>2, <1>11 DEF GameConnects, GameDisconnects, ServerMoves, tables, sched
<1>12. ASSUME NEW k \in Carriers, NEW c \in Commands, SendDurable(k, c) PROVE OnlyNewestSetsOut
  <2>1. UnderWay' \subseteq UnderWay /\ UNCHANGED roster
    BY <1>12 DEF SendDurable, tables, UnderWay, Carriers
  <2>. QED
    BY <1>1, <2>1
<1>13. ASSUME NEW c \in Commands, NEW b \in BOOLEAN, Receive(c) \/ AckLate(c) \/ Ack(c, b)
       PROVE  OnlyNewestSetsOut
  <2>1. UnderWay' \subseteq UnderWay /\ UNCHANGED roster
    BY <1>13 DEF Receive, AckLate, Ack, tables, sched, UnderWay
  <2>. QED
    BY <1>1, <2>1
<1>14. ASSUME NEW kept \in SUBSET acks, Cut(kept) \/ AgentCrash(kept) PROVE OnlyNewestSetsOut
  <2>1. UnderWay' \subseteq UnderWay /\ UNCHANGED roster
    BY <1>14 DEF Cut, AgentCrash, SessionEnds, tables, UnderWay, Carriers
  <2>. QED
    BY <1>1, <2>1
<1>15. CASE UNCHANGED vars
  BY <1>2, <1>15 DEF vars, tables, sched
<1>. HIDE DEF OnlyNewestSetsOut, TypeOK
<1>. QED
  BY <1>4, <1>5, <1>6, <1>7, <1>8, <1>9, <1>10, <1>11, <1>12, <1>13, <1>14, <1>15 DEF Next

\* Frames change by Receive and die by AgentCrash; nothing else touches them.
LEMMA OnlyReceiveFrames ==
    ASSUME [Next]_vars
    PROVE  \/ UNCHANGED frame
           \/ \E c \in Commands : Receive(c)
           \/ frame' = [s \in Servers |-> {}] /\ conn' = {}
<1>1. ASSUME NEW t, NEW b, Submit(t, b) \/ CancelContext(t) \/ Outdated(t) PROVE UNCHANGED frame
  BY <1>1 DEF Submit, CancelContext, Outdated, agent
<1>2. ASSUME NEW g, RunOnce(g) \/ Regroup(g) \/ Cut(g) PROVE UNCHANGED frame
  BY <1>2 DEF RunOnce, Regroup, Cut, agent
<1>3. TickSteps \/ HelloSteps \/ TickFails \/ MasterCrash \/ UNCHANGED vars => UNCHANGED frame
  BY DEF TickSteps, Dispatched, TickEnds, HelloSteps, Hello, HelloDone, TickFails, MasterCrash,
         agent, vars
<1>4. ASSUME NEW g, NEW s, NEW b, Allocate(g, s, b) \/ Backfill(g, s, b) PROVE UNCHANGED frame
  BY <1>4 DEF Allocate, Backfill, agent
<1>5. ASSUME NEW s, NEW to, GameConnects(s) \/ GameDisconnects(s) \/ ServerMoves(s, to)
      PROVE  UNCHANGED frame
  BY <1>5 DEF GameConnects, GameDisconnects, ServerMoves, agent
<1>6. ASSUME NEW k, NEW c, NEW b, SendDurable(k, c) \/ AckLate(c) \/ Ack(c, b)
      PROVE  UNCHANGED frame
  BY <1>6 DEF SendDurable, AckLate, Ack, agent
<1>7. ASSUME NEW kept, AgentCrash(kept) PROVE frame' = [s \in Servers |-> {}] /\ conn' = {}
  BY <1>7 DEF AgentCrash
<1>. QED
  BY <1>1, <1>2, <1>3, <1>4, <1>5, <1>6, <1>7 DEF Next

LEMMA StepFrames ==
    ASSUME TypeOK, [Next]_vars
    PROVE  FrameStep
<1>1. CASE UNCHANGED frame
  BY <1>1 DEF FrameStep
<1>2. CASE frame' = [s \in Servers |-> {}]
  BY <1>2 DEF FrameStep
<1>3. ASSUME NEW c \in Commands, Receive(c) PROVE FrameStep
  <2>1. c \in UnderWay /\ c[1] \in Servers
    BY <1>3 DEF Receive, UnderWay, Commands
  <2>2. \A s \in Servers : frame'[s] = frame[s] \/ (s = c[1] /\ frame'[s] = c[2])
    BY <1>3 DEF Receive, TypeOK
  <2>. QED
    BY <2>1, <2>2 DEF FrameStep
<1>. QED
  BY <1>1, <1>2, <1>3, OnlyReceiveFrames

\* The chain survives: what sets out is the largest of its chain, and a frame
\* comes from the chain or is empty.
LEMMA StepGrow ==
    ASSUME TypeOK, RostersGrow, [Next]_vars
    PROVE  RostersGrow'
<1>. SUFFICES ASSUME NEW s \in Servers
              PROVE  /\ frame'[s] \subseteq roster'[s]
                     /\ \A c \in UnderWay' : c[1] = s =>
                          /\ c[2] \subseteq roster'[s] /\ Comparable(c[2], frame'[s])
                          /\ \A d \in UnderWay' : d[1] = s => Comparable(c[2], d[2])
  BY DEF RostersGrow, Comparable
<1>. DEFINE Old == {frame[s], {}} \cup {c[2] : c \in {d \in UnderWay : d[1] = s}}
<1>1. \A a \in Old : a \subseteq roster[s]
  BY DEF RostersGrow
<1>2. \A a, b \in Old : Comparable(a, b)
  BY DEF RostersGrow, Comparable
<1>3. roster[s] \subseteq roster'[s]
  BY StepSetsOut DEF OnlyNewestSetsOut
<1>4. frame'[s] \in Old
  BY StepFrames DEF FrameStep
<1>5. \A c \in UnderWay' : c[1] = s => c[2] \in Old \/ c[2] = roster'[s]
  BY StepSetsOut DEF OnlyNewestSetsOut
<1>. HIDE DEF Old
<1>6. \A a \in Old : a \subseteq roster'[s]
  BY <1>1, <1>3
<1>7. \A a, b \in Old \cup {roster'[s]} : Comparable(a, b)
  BY <1>2, <1>6 DEF Comparable
<1>. QED
  BY <1>4, <1>5, <1>6, <1>7

-----------------------------------------------------------------------------
(* The theorems.                                                           *)

LEMMA InitInv == Init => MatchmakerInv
<1>. SUFFICES ASSUME Init PROVE MatchmakerInv
  OBVIOUS
<1>1. TypeOK
  BY InitTypes
<1>2. OneQueuedPerPlayer /\ NewestRevisionQueued
  BY DEF Init, OneQueuedPerPlayer, NewestRevisionQueued, Queued
<1>3. ASSUME NEW s \in Servers PROVE SeatsOf(s)
  <2>1. Players({}) = {} /\ Cardinality({}) = 0
    BY FS_EmptySet DEF Players
  <2>2. roster[s] = {} /\ seats[s] = 0 /\ Assigned(s) = {}
    BY MatchmakerAssumption DEF Init, Assigned
  <2>3. 0 <= MatchSize
    BY MatchmakerAssumption
  <2>4. Players(roster[s]) = {}
    BY <2>1, <2>2
  <2>. QED
    BY <2>1, <2>2, <2>3, <2>4 DEF SeatsOf
<1>4. SeatInv
  BY <1>3 DEF Init, SeatInv
<1>5. RostersGrow
  BY DEF Init, RostersGrow, UnderWay, Carriers
<1>. QED
  BY <1>1, <1>2, <1>4, <1>5 DEF MatchmakerInv

LEMMA StepInv == MatchmakerInv /\ [Next]_vars => MatchmakerInv'
BY StepTypes, StepQueue, StepSeats, StepGrow DEF MatchmakerInv

\* Every variable of the matchmaker keeps its type.
THEOREM TypeCorrect == Spec => []TypeOK
<1>1. MatchmakerInv => TypeOK
  BY DEF MatchmakerInv
<1>. QED
  BY InitInv, StepInv, <1>1, PTL DEF Spec

\* No player waits in two tickets, for any parties that share players and any
\* order of their requests: Submit closes every ticket it overlaps with.
THEOREM NoPlayerWaitsTwice == Spec => []OneQueuedPerPlayer
<1>1. MatchmakerInv => OneQueuedPerPlayer
  BY DEF MatchmakerInv
<1>. QED
  BY InitInv, StepInv, <1>1, PTL DEF Spec

\* A party's queued ticket has the newest revision the party ever sent: a
\* delayed request of an older one is refused, also after the newer is gone.
THEOREM NoStaleRevisionWaits == Spec => []NewestRevisionQueued
<1>1. MatchmakerInv => NewestRevisionQueued
  BY DEF MatchmakerInv
<1>. QED
  BY InitInv, StepInv, <1>1, PTL DEF Spec

\* Seats, rosters and results agree in every state: whatever is stale in the
\* tick's snapshot and whichever answers of commits are lost, no ticket is
\* seated twice and no match holds more than match_size players.
THEOREM SeatsAreAccounted == Spec => []SeatsAccounted
<1>1. MatchmakerInv => SeatsAccounted
  BY DEF MatchmakerInv, SeatInv, SeatsOf, SeatsAccounted
<1>. QED
  BY InitInv, StepInv, <1>1, PTL DEF Spec

\* The frame kept for a reconnecting game never loses a ticket while the agent
\* runs: comparing player counts is enough to order the commands of a match.
THEOREM FramesOnlyGrow == Spec => FrameNeverShrinks
<1>. DEFINE Step == \A s \in Servers : frame[s] \subseteq frame'[s] \/ (frame'[s] = {} /\ conn' = {})
<1>1. MatchmakerInv /\ [Next]_vars => [Step]_vars
  <2>. SUFFICES ASSUME MatchmakerInv, [Next]_vars PROVE Step
    OBVIOUS
  <2>. USE DEF MatchmakerInv
  <2>1. CASE UNCHANGED frame
    BY <2>1
  <2>2. CASE frame' = [s \in Servers |-> {}] /\ conn' = {}
    BY <2>2
  <2>3. ASSUME NEW c \in Commands, Receive(c) PROVE Step
    <3>. SUFFICES ASSUME NEW s \in Servers PROVE frame[s] \subseteq frame'[s]
      OBVIOUS
    <3>1. CASE frame'[s] = frame[s]
      BY <3>1
    <3>2. CASE frame'[s] # frame[s]
      <4>1. c[1] = s /\ frame'[s] = c[2] /\ Newer(c)
        BY <2>3, <3>2 DEF Receive, TypeOK, Commands
      <4>2. c \in UnderWay /\ Comparable(c[2], frame[s])
        BY <2>3, <4>1 DEF Receive, UnderWay, RostersGrow
      <4>3. CASE c[2] \subseteq frame[s]
        <5>1. frame[s] \in SUBSET Tickets /\ Seats(c[2]) >= Seats(frame[s])
          BY <4>1 DEF TypeOK, Newer
        <5>2. c[2] = frame[s]
          BY <4>3, <5>1, SeatsGrow
        <5>. QED
          BY <4>1, <5>2
      <4>. QED
        BY <4>1, <4>2, <4>3 DEF Comparable
    <3>. QED
      BY <3>1, <3>2
  <2>. QED
    BY <2>1, <2>2, <2>3, OnlyReceiveFrames
<1>. QED
  BY InitInv, StepInv, <1>1, PTL DEF Spec, FrameNeverShrinks
=============================================================================
