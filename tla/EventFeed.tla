----------------------------- MODULE EventFeed -----------------------------
(***************************************************************************)
(* The live event feed: src/master/internal/httpapi/sse.go over the events *)
(* table (store/events.go).                                                *)
(*                                                                         *)
(* A transaction takes its event's id from the sequence when it inserts    *)
(* and shows it when it commits, so a smaller id may become visible after  *)
(* a greater one.  A connection reads the table from a cursor that trails  *)
(* what it has sent: it passes an id only when one not smaller was seen    *)
(* sseSettle ago.  Time is one step, Age: an observation has ripened, and  *)
(* the transactions that held ids up to it have ended (sse.go says they    *)
(* are short); one that outlasts sseSettle is outside the promise.         *)
(***************************************************************************)
EXTENDS Integers, Sequences, FiniteSetsExt

CONSTANTS
    MaxId,           \* bound: events written
    Batch, SentCap,  \* sseBatchLimit, sseSentCap
    MaxFeedFaults    \* bound: disconnects and failed reads

VARIABLES
    nextId,      \* the sequence's next value
    event,       \* per id: none, open (inserted, not committed), mine or
                 \* foreign (to the key that listens), gone (rolled back)
    feed,        \* the connection: down, idle, or between the poll's reads
    cursor, read, settled, seen, sent,   \* locals of handleEventsStream
    hi, rows,    \* what the poll has read
    start,       \* the cursor the connection began with
    got, last,   \* the client: frames of this connection, last id it received
    twice,       \* history: ids framed twice on one connection
    guarded,     \* the connection has not given up the commit-race guard
    shorter,     \* history: a later window of the connection ended below an earlier one
    feedFaults

connVars == <<cursor, read, settled, seen, sent, hi, rows, start, got, last, twice, guarded, shorter>>
feedVars == <<nextId, event, feed, connVars, feedFaults>>

Ids == 1..MaxId
Visible == {i \in Ids : event[i] \in {"mine", "foreign"}}
MaxOf(S, default) == Max(S \cup {default})
MaxEventID == MaxOf(Visible, 0)

Init ==
    /\ nextId = 1 /\ event = [i \in Ids |-> "none"] /\ feed = "down"
    /\ cursor = 0 /\ read = 0 /\ settled = 0 /\ seen = <<>> /\ sent = {}
    /\ hi = 0 /\ rows = {} /\ start = 0
    /\ got = {} /\ last = 0 /\ twice = {} /\ guarded = TRUE
    /\ shorter = FALSE /\ feedFaults = 0

-----------------------------------------------------------------------------
(* The writers.                                                            *)

InsertEvent ==
    /\ nextId \in Ids /\ nextId' = nextId + 1
    /\ event' = [event EXCEPT ![nextId] = "open"]
    /\ UNCHANGED <<feed, connVars, feedFaults>>

EndTransaction(i) ==
    /\ event[i] = "open"
    /\ \E fate \in {"mine", "foreign", "gone"} : event' = [event EXCEPT ![i] = fate]
    /\ UNCHANGED <<nextId, feed, connVars, feedFaults>>

-----------------------------------------------------------------------------
(* The connection.                                                         *)

\* sseCursor: after_id, Last-Event-ID, or the head of the feed.
Connect ==
    /\ feed = "down" /\ feed' = "idle"
    /\ \E from \in {0, MaxEventID} \cup ({last} \ {0}) :
        start' = from /\ cursor' = from /\ read' = from /\ settled' = from
    /\ seen' = <<>> /\ sent' = {} /\ hi' = 0 /\ rows' = {}
    /\ got' = {} /\ twice' = {} /\ guarded' = TRUE /\ shorter' = FALSE
    /\ UNCHANGED <<nextId, event, last, feedFaults>>

Fault == feedFaults < MaxFeedFaults /\ feedFaults' = feedFaults + 1

Disconnect ==
    /\ feed # "down" /\ Fault /\ feed' = "down"
    /\ UNCHANGED <<nextId, event, connVars>>

ListFails ==
    /\ feed \in {"mark", "rows"} /\ Fault /\ feed' = "idle" /\ hi' = 0 /\ rows' = {}
    /\ UNCHANGED <<nextId, event, cursor, read, settled, seen, sent, start, got, last, twice,
                   guarded, shorter>>

\* The first Batch visible ids beyond the cursor, whosever they are.
Window == LET S == {i \in Visible : i > cursor} IN
    {i \in S : Cardinality({j \in S : j <= i}) <= Batch}

\* ListEventsAfter is two queries: the window's end first,
PollWatermark ==
    /\ feed = "idle" /\ feed' = "mark" /\ hi' = MaxOf(Window, cursor)
    /\ UNCHANGED <<nextId, event, cursor, read, settled, seen, sent, rows, start, got, last,
                   twice, guarded, shorter, feedFaults>>

\* then the key's own rows within it, as they are by now.
PollRows ==
    /\ feed = "mark" /\ feed' = "rows"
    /\ rows' = {i \in cursor + 1 .. hi : event[i] = "mine"}
    /\ UNCHANGED <<nextId, event, cursor, read, settled, seen, sent, hi, start, got, last,
                   twice, guarded, shorter, feedFaults>>

\* The id the poll has observed: the head, asked for when the window may have
\* been cut short; the window's end when not, or when the lookup fails.
Heads == {hi} \cup (IF hi - cursor >= Batch THEN {MaxOf(Visible, hi)} ELSE {})

\* One observation per new head is queued; a ripe one leaves for settled.
Queued(head) ==
    LET newest == IF seen = <<>> THEN settled ELSE seen[Len(seen)].id
    IN  IF head > newest THEN Append(seen, [id |-> head, ripe |-> FALSE]) ELSE seen

Ripe(q) == {k \in 1..Len(q) : \A j \in 1..k : q[j].ripe}

Reached == MaxOf({hi}, read)

\* Mutant: what was read is passed at once.
NextCursor_Read(r, s) == MaxOf({r}, cursor)

NextCursor(r, s) == MaxOf({IF s < r THEN s ELSE r}, cursor)

\* Mutant: what was read is forgotten, though the cursor is still behind it.
StillSent_Read(S, c) == {i \in S : i > read}

StillSent(S, c) == {i \in S : i > c}

PollDone ==
    /\ feed = "rows" /\ feed' = "idle" /\ hi' = 0 /\ rows' = {}
    /\ LET fresh == rows \ sent
           all == sent \cup rows
           over == Cardinality(all) > SentCap
       IN  /\ read' = Reached
           /\ \E head \in Heads :
                LET q == Queued(head)
                    ripe == Ripe(q)
                IN  IF over THEN settled' = read' /\ seen' = <<>>
                    ELSE /\ settled' = MaxOf({q[k].id : k \in ripe}, settled)
                         /\ seen' = SubSeq(q, Cardinality(ripe) + 1, Len(q))
           /\ guarded' = (guarded /\ ~over) /\ shorter' = (shorter \/ hi < read)
           /\ cursor' = NextCursor(read', settled')
           /\ sent' = StillSent(all, cursor')
           /\ got' = got \cup fresh /\ twice' = twice \cup (fresh \cap got)
           /\ last' = IF fresh = {} THEN last ELSE Max(fresh)
    /\ UNCHANGED <<nextId, event, start, feedFaults>>

\* sseSettle has passed since the oldest observation that is not ripe.
Age ==
    /\ feed = "idle"
    /\ \E k \in 1..Len(seen) :
        /\ ~seen[k].ripe /\ \A j \in 1..k - 1 : seen[j].ripe
        /\ \A i \in 1..seen[k].id : event[i] # "open"
        /\ seen' = [seen EXCEPT ![k].ripe = TRUE]
    /\ UNCHANGED <<nextId, event, feed, cursor, read, settled, sent, hi, rows, start, got, last,
                   twice, guarded, shorter, feedFaults>>

-----------------------------------------------------------------------------
Next ==
    \/ InsertEvent
    \/ \E i \in Ids : EndTransaction(i)
    \/ Connect \/ Disconnect \/ ListFails
    \/ PollWatermark \/ PollRows \/ PollDone \/ Age

Spec == Init /\ [][Next]_feedVars

Commits == \E i \in Ids : EndTransaction(i)
PollSteps == PollWatermark \/ PollRows \/ PollDone

\* Transactions end, time passes, and the ticker polls (an idle poll is a round
\* of steps, so the poll cannot hold up the rest).
FairSpec ==
    /\ Spec
    /\ WF_feedVars(Commits)
    /\ WF_feedVars(PollSteps)
    /\ SF_feedVars(Age)

-----------------------------------------------------------------------------
(* Properties.                                                             *)

Framed == \A i \in start + 1 .. cursor : event[i] = "mine" => i \in got

\* Until a connection gives up the guard its cursor passes no event of the
\* key's own that it has not framed, in whatever order they were committed,
\* while its windows do not shrink.
NothingSkipped == feed # "down" /\ guarded /\ ~shorter => Framed

\* The comment's promise has no such condition: nothing committed within
\* sseSettle is lost (sse.go).
CommitRaceGuarded == feed # "down" /\ guarded => Framed

\* Reading a window again frames nothing twice.
FrameOnce == guarded => twice = {}

\* The open connection has framed every visible event of the key's own.
Delivered ==
    feed # "down" /\ guarded /\ ~shorter =>
        \A i \in Ids : event[i] = "mine" /\ i > start => i \in got

\* When nothing is written any more, the open connection has framed it all.
FeedDelivers == <>[]Delivered
=============================================================================
