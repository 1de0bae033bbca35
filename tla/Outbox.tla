------------------------------- MODULE Outbox -------------------------------
(***************************************************************************)
(* The event outbox of the agent and the session loop that drains it       *)
(* (agent/internal/link/outbox.go, the select loop of link/client.go).     *)
(*                                                                         *)
(* A push leaves a token in notify, a channel of one; the loop takes the   *)
(* token, sends a heartbeat and then the queue, message by message: peek,  *)
(* send, pop, with pushes in between.  A session that has died may accept  *)
(* sends before one of them or the receiver tells, and what it accepted    *)
(* then is lost.  What a stream held when it was cut the master may still  *)
(* handle, beside the streams that follow, until its read loop ends        *)
(* (Session and readLoop of master/internal/agentlink/service.go).         *)
(*                                                                         *)
(* Messages are numbered as they are pushed, streams as they are opened:   *)
(* breaks of them are cut.  Acks, heartbeats on the ticker and log chunks  *)
(* are the other cases of the select and change nothing here.  Cap is      *)
(* outboxCap; MaxPushes and MaxBreaks are bounds.                          *)
(***************************************************************************)
EXTENDS Integers, Sequences, SequencesExt

CONSTANTS Cap, MaxPushes, MaxBreaks

VARIABLES
    queue,      \* numbers of the queued messages
    pushed,
    notify,     \* the token
    session,    \* "down", "up", or "dead": not noticed yet
    at,         \* the loop: its select, the heartbeat, the peek, the send, the pop
    peeked,     \* the message it sends
    flight,     \* messages on each stream
    sent,       \* messages a send took
    evicted,    \* messages an overflow dropped
    received,   \* by the master: messages and the streams they came over
    breaks      \* streams that were cut; the next one is the one in use

outboxVars == <<queue, pushed, notify, session, at, peeked, flight, sent, evicted, received,
                breaks>>

Streams == 1..MaxBreaks + 1

OutboxTypeOK ==
    /\ Len(queue) <= Cap /\ pushed \in 0..MaxPushes /\ peeked \in 0..pushed
    /\ session \in {"down", "up", "dead"} /\ at \in {"select", "beat", "peek", "send", "pop"}

Init ==
    /\ queue = <<>> /\ pushed = 0 /\ notify = FALSE
    /\ session = "down" /\ at = "select" /\ peeked = 0
    /\ flight = [s \in Streams |-> <<>>] /\ sent = {} /\ evicted = {} /\ received = <<>>
    /\ breaks = 0

-----------------------------------------------------------------------------
\* push: the oldest message makes room.
Push ==
    /\ pushed < MaxPushes /\ pushed' = pushed + 1 /\ notify' = TRUE
    /\ LET full == Len(queue) >= Cap IN
       /\ queue' = Append(IF full THEN Tail(queue) ELSE queue, pushed')
       /\ evicted' = IF full THEN evicted \cup {Head(queue)} ELSE evicted
    /\ UNCHANGED <<session, at, peeked, flight, sent, received, breaks>>

Connect ==
    /\ session = "down" /\ session' = "up" /\ at' = "select"
    /\ UNCHANGED <<queue, pushed, notify, peeked, flight, sent, evicted, received, breaks>>

\* The stream dies under the loop.
Break ==
    /\ session = "up" /\ breaks < MaxBreaks /\ breaks' = breaks + 1 /\ session' = "dead"
    /\ UNCHANGED <<queue, pushed, notify, at, peeked, flight, sent, evicted, received>>

\* The read loop of a cut stream ends, with what is left on it.
Lose(s) ==
    /\ s <= breaks /\ flight[s] # <<>> /\ flight' = [flight EXCEPT ![s] = <<>>]
    /\ UNCHANGED <<queue, pushed, notify, session, at, peeked, sent, evicted, received, breaks>>

Take ==
    /\ session # "down" /\ at = "select" /\ notify
    /\ notify' = FALSE /\ at' = "beat"
    /\ UNCHANGED <<queue, pushed, session, peeked, flight, sent, evicted, received, breaks>>

\* A send, or the receiver at the select, finds the stream dead.
End ==
    /\ session = "dead" /\ at \in {"select", "beat", "send"} /\ session' = "down"
    /\ UNCHANGED <<queue, pushed, notify, at, peeked, flight, sent, evicted, received, breaks>>

Beat ==
    /\ session # "down" /\ at = "beat" /\ at' = "peek"
    /\ UNCHANGED <<queue, pushed, notify, session, peeked, flight, sent, evicted, received,
                   breaks>>

Peek ==
    /\ session # "down" /\ at = "peek"
    /\ IF queue = <<>> THEN at' = "select" /\ peeked' = 0
       ELSE at' = "send" /\ peeked' = Head(queue)
    /\ UNCHANGED <<queue, pushed, notify, session, flight, sent, evicted, received, breaks>>

Send ==
    /\ session # "down" /\ at = "send" /\ at' = "pop" /\ sent' = sent \cup {peeked}
    /\ flight' = IF session = "up" THEN [flight EXCEPT ![breaks + 1] = Append(@, peeked)]
                 ELSE flight
    /\ UNCHANGED <<queue, pushed, notify, session, peeked, evicted, received, breaks>>

\* Mutant: the head goes, whatever it is by now.
Popped_Head == IF queue # <<>> THEN Tail(queue) ELSE queue

\* pop: the message sent goes if it is still the head.
Popped == IF queue # <<>> /\ Head(queue) = peeked THEN Tail(queue) ELSE queue

Pop ==
    /\ session # "down" /\ at = "pop" /\ at' = "peek" /\ queue' = Popped
    /\ UNCHANGED <<pushed, notify, session, peeked, flight, sent, evicted, received, breaks>>

\* readLoop, of any stream: in its order, whatever the others do.
Receive(s) ==
    /\ flight[s] # <<>> /\ flight' = [flight EXCEPT ![s] = Tail(@)]
    /\ received' = Append(received, [m |-> Head(flight[s]), stream |-> s])
    /\ UNCHANGED <<queue, pushed, notify, session, at, peeked, sent, evicted, breaks>>

-----------------------------------------------------------------------------
SessionSteps ==
    \/ Connect \/ Take \/ End \/ Beat \/ Peek \/ Send \/ Pop
    \/ \E s \in Streams : Receive(s)

Next == Push \/ Break \/ (\E s \in Streams : Lose(s)) \/ SessionSteps

Spec == Init /\ [][Next]_outboxVars

\* The link client runs and reconnects; nothing is assumed of the events.
FairSpec == Spec /\ WF_outboxVars(SessionSteps)

-----------------------------------------------------------------------------
(* Properties.                                                             *)

\* A message leaves the queue sent or dropped by an overflow, even when the
\* overflow comes between the send of a message and its pop.
QueuedUntilSent == \A m \in 1..pushed : m \in sent \cup evicted \cup Range(queue)

\* Of two events handled one after the other the later one is the younger, unless
\* it came over an older stream, which a new one has replaced: then it is older.
Follows(e, d) == IF d.stream <= e.stream THEN d.m < e.m ELSE e.m < d.m

\* The master handles each event at most once, those of a stream in their order,
\* and none is older than one of a stream before its own.
EventsInOrder == \A i, j \in DOMAIN received : i < j => Follows(received[j], received[i])

\* What survives a session is drained by a later one (outbox.go: "messages
\* survive reconnects and are drained in order once a stream is available").
DrainedOnceAvailable == \A m \in 1..MaxPushes : (m \in Range(queue)) ~> (m \notin Range(queue))

=============================================================================
