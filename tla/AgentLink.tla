------------------------------ MODULE AgentLink -----------------------------
(***************************************************************************)
(* The agent link of one node: the master's command queue and sessions     *)
(* (src/master/internal/agentlink), the agent's session loop, its cmd_id   *)
(* window (src/agent/internal/link).                                      *)
(*                                                                         *)
(* Sessions are numbered in the order the agent opens them.  A session's   *)
(* channel, the stream and the agent's receive buffer are one queue; what  *)
(* a cut stream still held may be read until that side notices the cut.    *)
(* A command is a pair: a plain one <<cmd_id, -1>>, a SetRegistries        *)
(* <<cmd_id, v>> with the version v of the registries table that was read. *)
(***************************************************************************)
EXTENDS Integers, FiniteSets, Sequences, SequencesExt

CONSTANTS
    MaxCommands,     \* plain commands 1 .. MaxCommands may be sent
    MaxChanges,      \* bound on changes of the registries table
    MaxSessions,     \* sessions 1 .. MaxSessions may be opened
    MaxFaults,       \* bound: cuts, crashes, failed reads together
    ChannelCap,      \* capacity of a session's channel (256 in the code)
    SeenCap          \* size of the agent's cmd_id window (1024)

ASSUME AgentLinkAssumption ==
    /\ MaxCommands \in Nat /\ MaxChanges \in Nat /\ MaxSessions \in Nat /\ MaxFaults \in Nat
    /\ ChannelCap \in Nat \ {0} /\ SeenCap \in Nat \ {0}

Sessions == 1 .. MaxSessions
Commands == (1 .. MaxCommands) \X {-1}
Snapshots == (1 .. MaxSessions + MaxChanges) \X (0 .. MaxChanges)
None == 0
NoCommand == <<0, -1>>

\* Readers under regMu: attach by its session, the broadcast by 0.
Broadcast == 0

VARIABLES
    regs, owing,     \* version of the table, changes still to be broadcast
    reader,          \* under regMu: who read which version, per reader
    pending, sess,   \* nodeQueue: unacked commands oldest first, live session
    chan, up,        \* per session: commands on their way, acks on their way
    trusted, serve,  \* per session: certAuth or loopback; the handler's position
    cut,             \* sessions whose connection is broken
    opened, stream,  \* sessions opened so far, the agent's current one
    seen, hand,      \* cmdCache.ring; per session: command being dispatched
    agentRegs,       \* version of the credentials the agent holds
    sent, taken, ran,           \* history: commands sent, taken by any agent
                                \* process, taken by this one
    queued, spoiled,            \* last snapshot queued; a read failed or a
                                \* lost stream's loop dispatched late
    deferred,                   \* plain commands the live session's full
                                \* channel turned away
    faults                      \* how many of MaxFaults happened

master  == <<regs, owing, reader, pending, sess>>
links   == <<chan, up, trusted, serve, cut, opened>>
agent   == <<stream, seen, hand, agentRegs>>
history == <<sent, taken, ran, queued, spoiled, deferred>>
vars    == <<master, links, agent, history, faults>>

\* The elements of q that are in T, in their order.
Only(q, T) ==
    LET f[n \in 0 .. Len(q)] ==
            IF n = 0 THEN <<>>
            ELSE IF q[n] \in T THEN Append(f[n - 1], q[n]) ELSE f[n - 1]
    IN  f[Len(q)]

IsSetRegistries(c) == c[2] >= 0
RemoveSetRegistries(q) == Only(q, {c \in ToSet(q) : ~IsSetRegistries(c)})

\* What the link promises, over the queue of unacked commands.
Delivery == INSTANCE CommandDelivery WITH owed <- ToSet(pending)

Wire == Commands \cup Snapshots

TypeOK ==
    /\ regs \in 0 .. MaxChanges /\ owing \in 0 .. MaxChanges
    /\ reader \in [0 .. MaxSessions -> -1 .. MaxChanges]
    /\ pending \in Seq(Wire) /\ sess \in {None} \cup Sessions
    /\ chan \in [Sessions -> Seq(Wire)] /\ up \in [Sessions -> Seq(Wire)]
    /\ \A s \in Sessions : Len(chan[s]) <= ChannelCap
    /\ trusted \in [Sessions -> BOOLEAN]
    /\ serve \in [Sessions -> {"none", "hello", "attached", "replaced", "gone"}]
    /\ cut \subseteq Sessions /\ opened \in 0 .. MaxSessions
    /\ stream \in {None} \cup Sessions /\ seen \in Seq(Wire) /\ Len(seen) <= SeenCap
    /\ hand \in [Sessions -> Wire \cup {NoCommand}] /\ agentRegs \in 0 .. MaxChanges
    /\ sent \in 0 .. MaxCommands /\ taken \subseteq Wire /\ ran \subseteq Wire
    /\ queued \in (0 .. MaxSessions + MaxChanges) \X (0 .. MaxChanges)
    /\ spoiled \in BOOLEAN /\ deferred \subseteq Commands /\ faults \in 0 .. MaxFaults

Init ==
    /\ regs = 0 /\ owing = 0
    /\ reader = [r \in 0 .. MaxSessions |-> -1]
    /\ pending = <<>> /\ sess = None
    /\ chan = [s \in Sessions |-> <<>>] /\ up = [s \in Sessions |-> <<>>]
    /\ trusted = [s \in Sessions |-> FALSE]
    /\ serve = [s \in Sessions |-> "none"] /\ cut = {}
    /\ opened = 0 /\ stream = None /\ seen = <<>>
    /\ hand = [s \in Sessions |-> NoCommand] /\ agentRegs = 0
    /\ sent = 0 /\ taken = {} /\ ran = {} /\ queued = <<0, 0>> /\ spoiled = FALSE
    /\ deferred = {} /\ faults = 0

Fault == faults < MaxFaults /\ faults' = faults + 1

-----------------------------------------------------------------------------
(* Hub: one critical section per operation.                                *)

\* push never blocks: a full channel turns the command away.
Push(q, c) == IF Len(q) < ChannelCap THEN Append(q, c) ELSE q

\* Mutant: nothing is replayed into the channel of a new session.
PushAll_Nothing(q) == <<>>
\* One by one into a new channel: what comes after it is full is turned away.
PushAll(q) == SubSeq(q, 1, IF Len(q) < ChannelCap THEN Len(q) ELSE ChannelCap)

\* `deferred` looks at the room in the channel, not at what push made of it.
PushLive(c) ==
    /\ chan' = IF sess = None THEN chan ELSE [chan EXCEPT ![sess] = Push(@, c)]
    /\ deferred' = IF sess # None /\ Len(chan[sess]) >= ChannelCap
                   THEN deferred \cup ({c} \cap Commands) ELSE deferred \ {c}

\* Send of a plain command, under a cmd_id of its own.
Send ==
    /\ sent < MaxCommands /\ sent' = sent + 1
    /\ pending' = Append(pending, <<sent', -1>>) /\ PushLive(<<sent', -1>>)
    /\ UNCHANGED <<regs, owing, reader, sess, up, trusted, serve, cut, opened,
                   agent, taken, ran, queued, spoiled, faults>>

\* SendDurable of a known cmd_id: only pushed again while it is pending, and
\* queued again when the ack overtook the sender.
SendDurable(c) ==
    /\ c[1] <= sent
    /\ pending' = IF Contains(pending, c) THEN pending ELSE Append(pending, c)
    /\ PushLive(c)
    /\ UNCHANGED <<regs, owing, reader, sess, up, trusted, serve, cut, opened,
                   agent, sent, taken, ran, queued, spoiled, faults>>

\* Ack, read by a session's readLoop.
Ack(s) ==
    /\ serve[s] \in {"attached", "replaced"} /\ up[s] # <<>>
    /\ pending' = Only(pending, ToSet(pending) \ {Head(up[s])})
    /\ up' = [up EXCEPT ![s] = Tail(@)] /\ deferred' = deferred \ {Head(up[s])}
    /\ UNCHANGED <<regs, owing, reader, sess, chan, trusted, serve, cut, opened,
                   agent, sent, taken, ran, queued, spoiled, faults>>

-----------------------------------------------------------------------------
(* Registries: the read and the enqueue are one step under regMu.          *)

\* An operator changes the table; the handler's broadcast follows.
ChangeRegistries ==
    /\ regs < MaxChanges /\ regs' = regs + 1 /\ owing' = owing + 1
    /\ UNCHANGED <<reader, pending, sess, links, agent, history, faults>>

\* Mutant: nothing holds the read and the enqueue together.
RegMuFree_Always == TRUE
RegMuFree == \A r \in DOMAIN reader : reader[r] = -1

Snapshot(v) == <<queued[1] + 1, v>>

ReadForBroadcast ==
    /\ owing > 0 /\ RegMuFree /\ reader[Broadcast] = -1
    /\ owing' = owing - 1 /\ reader' = [reader EXCEPT ![Broadcast] = regs]
    /\ UNCHANGED <<regs, pending, sess, links, agent, history, faults>>

BroadcastFails ==
    /\ owing > 0 /\ RegMuFree /\ owing' = owing - 1 /\ spoiled' = TRUE /\ Fault
    /\ UNCHANGED <<regs, reader, pending, sess, links, agent,
                   sent, taken, ran, queued, deferred>>

\* BroadcastRegistries: coalesced into the queue of a trusted session, and
\* withheld from every other.
BroadcastRegistries ==
    LET c == Snapshot(reader[Broadcast]) IN
    /\ reader[Broadcast] # -1 /\ reader' = [reader EXCEPT ![Broadcast] = -1]
    /\ IF sess # None /\ trusted[sess]
       THEN /\ pending' = Append(RemoveSetRegistries(pending), c)
            /\ PushLive(c) /\ queued' = c
       ELSE UNCHANGED <<pending, chan, queued, deferred>>
    /\ UNCHANGED <<regs, owing, sess, up, trusted, serve, cut, opened, agent,
                   sent, taken, ran, spoiled, faults>>

-----------------------------------------------------------------------------
(* Sessions.                                                               *)

\* The agent dials and says Hello; Session authenticates it and runs HelloSync.
Connect(s, cert) ==
    /\ stream = None /\ s = opened + 1 /\ opened' = s /\ stream' = s
    /\ trusted' = [trusted EXCEPT ![s] = cert]
    /\ serve' = [serve EXCEPT ![s] = "hello"]
    /\ UNCHANGED <<master, chan, up, cut, seen, hand, agentRegs, history, faults>>

\* registriesSnapshot for the preface; a trusted session only.
ReadForAttach(s) ==
    /\ serve[s] = "hello" /\ trusted[s] /\ RegMuFree /\ reader[s] = -1
    /\ reader' = [reader EXCEPT ![s] = regs]
    /\ UNCHANGED <<regs, owing, pending, sess, links, agent, history, faults>>

\* The session replaces the one there was, and is handed everything pending.
AttachWith(s, backlog) ==
    /\ pending' = backlog /\ sess' = s
    /\ serve' = [t \in Sessions |-> IF t = s THEN "attached"
                                    ELSE IF t = sess THEN "replaced" ELSE serve[t]]
    /\ chan' = [chan EXCEPT ![s] = PushAll(backlog)]
    /\ deferred' = {backlog[i] : i \in {j \in DOMAIN backlog : j > ChannelCap}} \cap Commands

\* Mutant: the snapshot takes the place of the whole backlog.
Prefaced_Only(c) == <<c>>
Prefaced(c)      == <<c>> \o RemoveSetRegistries(pending)

\* attach with a fresh preface, in front of the backlog.
AttachTrusted(s) ==
    LET c == Snapshot(reader[s]) IN
    /\ serve[s] = "hello" /\ reader[s] # -1
    /\ AttachWith(s, Prefaced(c)) /\ queued' = c
    /\ reader' = [reader EXCEPT ![s] = -1]
    /\ UNCHANGED <<regs, owing, up, trusted, cut, opened, agent,
                   sent, taken, ran, spoiled, faults>>

\* The read failed, with the database or because the stream was gone already:
\* the backlog goes without a preface.
AttachUnprefaced(s) ==
    /\ serve[s] = "hello" /\ trusted[s] /\ RegMuFree
    /\ AttachWith(s, pending) /\ spoiled' = TRUE
    /\ IF s \in cut THEN UNCHANGED faults ELSE Fault
    /\ UNCHANGED <<regs, owing, reader, up, trusted, cut, opened, agent,
                   sent, taken, ran, queued>>

\* An untrusted session gets no snapshot, not even one an earlier session left.
AttachUntrusted(s) ==
    /\ serve[s] = "hello" /\ ~trusted[s] /\ RegMuFree
    /\ AttachWith(s, RemoveSetRegistries(pending))
    /\ UNCHANGED <<regs, owing, reader, up, trusted, cut, opened, agent,
                   sent, taken, ran, queued, spoiled, faults>>

Cut(s) ==
    /\ serve[s] \notin {"none", "gone"} /\ s \notin cut /\ Fault /\ cut' = cut \cup {s}
    /\ UNCHANGED <<master, chan, up, trusted, serve, opened, agent, history>>

\* Mutant: detach drops the session whoever holds the node by now.
Detached_Any(s) == None
Detached(s) == IF sess = s THEN None ELSE sess

\* The handler notices its broken stream, or that it was replaced, and detaches.
Detach(s) ==
    /\ serve[s] = "replaced" \/ (s \in cut /\ serve[s] = "attached")
    /\ serve' = [serve EXCEPT ![s] = "gone"] /\ sess' = Detached(s)
    /\ up' = [up EXCEPT ![s] = <<>>] /\ cut' = cut \ {s}
    /\ trusted' = [trusted EXCEPT ![s] = FALSE]
    /\ chan' = IF stream = s THEN chan ELSE [chan EXCEPT ![s] = <<>>]
    /\ deferred' = IF sess' = None THEN {} ELSE deferred
    /\ UNCHANGED <<regs, owing, reader, pending, opened,
                   agent, sent, taken, ran, queued, spoiled, faults>>

\* The agent notices: its acks end with the stream.
LoseStream ==
    /\ stream # None /\ (stream \in cut \/ serve[stream] \in {"replaced", "gone"})
    /\ stream' = None
    /\ chan' = [chan EXCEPT ![stream] = <<>>]
    /\ UNCHANGED <<master, up, trusted, serve, cut, opened, seen, hand, agentRegs,
                   history, faults>>

-----------------------------------------------------------------------------
(* The agent's receive loops.  The loop of a lost stream may still have a  *)
(* command in hand when the next one runs.                                 *)

Remember(c) == IF Len(seen) < SeenCap THEN Append(seen, c) ELSE Append(Tail(seen), c)

\* Mutant: a command that was handled already is not looked up.
Known_Never(c) == FALSE
Known(c) == Contains(seen, c)

\* The acks channel of a lost stream is read by nobody.
Acknowledge(s, c) ==
    up' = IF stream = s /\ serve[s] # "gone" THEN [up EXCEPT ![s] = Append(@, c)] ELSE up

Receive(s) ==
    LET c == Head(chan[s]) IN
    /\ stream = s /\ chan[s] # <<>> /\ hand[s] = NoCommand /\ Len(up[s]) < ChannelCap
    /\ chan' = [chan EXCEPT ![s] = Tail(@)]
    /\ IF Known(c)
       THEN Acknowledge(s, c) /\ UNCHANGED <<seen, hand, taken, ran>>
       ELSE /\ seen' = Remember(c) /\ hand' = [hand EXCEPT ![s] = c]
            /\ taken' = taken \cup {c} /\ UNCHANGED up
            /\ ran' = ran \cup {c}
    /\ UNCHANGED <<master, trusted, serve, cut, opened, stream, agentRegs,
                   sent, queued, spoiled, deferred, faults>>

\* dispatch, then the ack.
Dispatch(s) ==
    LET c == hand[s] IN
    /\ c # NoCommand /\ hand' = [hand EXCEPT ![s] = NoCommand]
    /\ agentRegs' = IF IsSetRegistries(c) THEN c[2] ELSE agentRegs
    /\ Acknowledge(s, c)
    /\ spoiled' = (spoiled \/ stream # s)
    /\ UNCHANGED <<master, chan, trusted, serve, cut, opened, stream, seen,
                   sent, taken, ran, queued, deferred, faults>>

-----------------------------------------------------------------------------
(* Crashes.                                                                *)

MasterCrash ==
    /\ Fault /\ pending' = <<>> /\ sess' = None
    /\ owing' = 0 /\ reader' = [r \in DOMAIN reader |-> -1]
    /\ chan' = [s \in Sessions |-> IF s = stream THEN chan[s] ELSE <<>>]
    /\ up' = [s \in Sessions |-> <<>>] /\ cut' = {}
    /\ trusted' = [s \in Sessions |-> FALSE]
    /\ serve' = [s \in Sessions |-> IF s <= opened THEN "gone" ELSE "none"]
    /\ deferred' = {}
    /\ UNCHANGED <<regs, opened, agent, sent, taken, ran, queued, spoiled>>

AgentCrash ==
    /\ Fault /\ seen' = <<>> /\ agentRegs' = 0 /\ stream' = None
    /\ hand' = [s \in Sessions |-> NoCommand]
    /\ cut' = {s \in Sessions : serve[s] \notin {"none", "gone"}}
    /\ ran' = {}
    /\ UNCHANGED <<master, chan, up, trusted, serve, opened,
                   sent, taken, queued, spoiled, deferred>>

-----------------------------------------------------------------------------
LinkStep(s) ==
    \/ Connect(s, TRUE) \/ Connect(s, FALSE)
    \/ ReadForAttach(s) \/ AttachTrusted(s) \/ AttachUnprefaced(s) \/ AttachUntrusted(s)
    \/ Detach(s) \/ Receive(s) \/ Dispatch(s) \/ Ack(s)

Next ==
    \/ Send \/ ChangeRegistries
    \/ \E c \in Commands : SendDurable(c)
    \/ ReadForBroadcast \/ BroadcastFails \/ BroadcastRegistries
    \/ \E s \in Sessions : LinkStep(s) \/ Cut(s)
    \/ LoseStream \/ MasterCrash \/ AgentCrash

Spec == Init /\ [][Next]_vars

\* Both ends keep their loops running and the agent dials again; nothing is
\* assumed of the network and of the operators.
FairSpec ==
    /\ Spec
    /\ WF_vars(LoseStream)
    /\ WF_vars(ReadForBroadcast \/ BroadcastRegistries)
    /\ \A s \in Sessions : WF_vars(LinkStep(s))

-----------------------------------------------------------------------------
(* Properties.                                                             *)

\* At-least-once: whatever is cut, replaced, replayed or refused by a full
\* channel, a command leaves the queue only once an agent process took it, or
\* as a snapshot that is replaced, or with the master.
ImplementsDelivery == Delivery!Spec

\* At most once per agent process, replays and re-sends included, as long as
\* the process has not taken more commands than its cmd_id window holds.
NoReExecution ==
    [][\A s \in Sessions :
        (hand[s] = NoCommand /\ hand'[s] # NoCommand)
        => hand'[s] \notin ran \/ Cardinality(ran) > SeenCap]_vars

\* "whichever caller reads last is also delivered last": once nothing about the
\* registries is on its way, a trusted node has the table as it is.
LatestRegistriesHeld ==
    (/\ stream # None /\ stream = sess /\ trusted[sess]
     /\ owing = 0 /\ RegMuFree /\ RemoveSetRegistries(pending) = pending
     /\ ~spoiled)
    => agentRegs = regs

\* "an untrusted session's queue never holds a SetRegistries".
UntrustedCarriesNone ==
    \A s \in Sessions : (serve[s] = "attached" /\ ~trusted[s]) =>
        /\ \A c \in ToSet(chan[s]) : ~IsSetRegistries(c)
        /\ s = sess => \A c \in ToSet(pending) : ~IsSetRegistries(c)

\* "session channel full, command deferred to reconnect": the channel had no
\* room when the hub pushed the command last, and that session goes on.
Deferred(c) == sess # None /\ stream = sess /\ c \in deferred

\* A command is taken in the end, across cuts, replaced sessions and agent
\* restarts: every session it is pending in has it pushed or replayed.  Only the
\* master's death, or a channel that was full when it was pushed, of a session
\* that is never replaced, keeps it from the agent.
CommandTaken ==
    \A c \in Commands :
        Contains(pending, c) ~> c \in taken \/ ~Contains(pending, c) \/ Deferred(c)
=============================================================================
