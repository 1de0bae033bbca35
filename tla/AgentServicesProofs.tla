------------------------ MODULE AgentServicesProofs ------------------------
(***************************************************************************)
(* Proofs about the services of the agent.  A behaviour follows one part,  *)
(* so an invariant of AgentServices is one invariant per part, proved      *)
(* about the part's own steps.                                             *)
(***************************************************************************)
EXTENDS AgentServices, FiniteSetTheorems, SequenceTheorems, TLAPS

Rising(s) == \A i, j \in 1 .. Len(s) : i < j => s[i] < s[j]
Below(S, T) == \A x \in S, y \in T : x < y

\* What joins a queue is its last.
LEMMA Joined ==
    ASSUME NEW S, NEW s \in Seq(S), NEW e \in S
    PROVE  /\ Append(s, e) \in Seq(S) /\ Append(s, e) # <<>>
           /\ Range(Append(s, e)) = Range(s) \cup {e}
<1>. DEFINE t == Append(s, e)
<1>1. /\ t \in Seq(S) /\ t # <<>> /\ Len(s) \in Nat /\ Len(t) = Len(s) + 1
      /\ \A i \in 1 .. Len(s) : t[i] = s[i]
      /\ t[Len(s) + 1] = e
  BY AppendProperties, LenProperties
<1>2. DOMAIN s = 1 .. Len(s) /\ DOMAIN t = 1 .. Len(t)
  BY <1>1, LenProperties
<1>. HIDE DEF t
<1>3. 1 .. Len(t) = (1 .. Len(s)) \cup {Len(s) + 1}
  BY <1>1
<1>4. Range(t) = Range(s) \cup {e}
  BY <1>1, <1>2, <1>3 DEF Range
<1>. QED
  BY <1>1, <1>4 DEF t

\* What leaves a queue was its first.
LEMMA LeftFirst ==
    ASSUME NEW S, NEW s \in Seq(S), s # <<>>
    PROVE  /\ Tail(s) \in Seq(S) /\ Head(s) \in S /\ Len(s) \in Nat \ {0}
           /\ Len(Tail(s)) = Len(s) - 1 /\ Head(s) = s[1]
           /\ \A i \in 1 .. Len(s) - 1 : Tail(s)[i] = s[i + 1]
           /\ Range(s) = Range(Tail(s)) \cup {Head(s)}
<1>. DEFINE t == Tail(s)
            h == Head(s)
<1>1. /\ t \in Seq(S) /\ h \in S /\ Len(s) \in Nat \ {0} /\ Len(t) = Len(s) - 1
      /\ \A i \in 1 .. Len(s) - 1 : t[i] = s[i + 1]
  BY HeadTailProperties, EmptySeq
<1>2. h = s[1]
  BY DEF Head
<1>3. DOMAIN s = 1 .. Len(s) /\ DOMAIN t = 1 .. Len(t)
  BY <1>1, LenProperties
<1>. HIDE DEF t, h
<1>4. \A i \in 1 .. Len(s) : i = 1 \/ (i - 1 \in 1 .. Len(t) /\ s[i] = t[i - 1])
  BY <1>1
<1>5. \A i \in 1 .. Len(t) : i + 1 \in 1 .. Len(s) /\ t[i] = s[i + 1]
  BY <1>1
<1>6. Range(s) = Range(t) \cup {h}
  <2>1. \A x \in Range(s) : x \in Range(t) \cup {h}
    BY <1>2, <1>3, <1>4 DEF Range
  <2>2. \A x \in Range(t) : x \in Range(s)
    BY <1>3, <1>5 DEF Range
  <2>3. h \in Range(s)
    BY <1>1, <1>2, <1>3 DEF Range
  <2>. QED
    BY <2>1, <2>2, <2>3
<1>. QED
  BY <1>1, <1>2, <1>6 DEF t, h

LEMMA StillRising ==
    ASSUME NEW s \in Seq(Nat), NEW e \in Nat, Rising(s), Below(Range(s), {e})
    PROVE  Rising(Append(s, e))
<1>1. /\ Append(s, e) \in Seq(Nat) /\ Len(s) \in Nat /\ Len(Append(s, e)) = Len(s) + 1
      /\ \A i \in 1 .. Len(s) : Append(s, e)[i] = s[i]
      /\ Append(s, e)[Len(s) + 1] = e
  BY AppendProperties, LenProperties
<1>2. \A i \in 1 .. Len(s) : s[i] < e
  BY LenProperties DEF Range, Below
<1>. QED
  BY <1>1, <1>2 DEF Rising

LEMMA RestRises ==
    ASSUME NEW s \in Seq(Nat), s # <<>>, Rising(s)
    PROVE  Rising(Tail(s)) /\ Below({Head(s)}, Range(Tail(s)))
<1>1. /\ Tail(s) \in Seq(Nat) /\ Len(s) \in Nat \ {0} /\ Len(Tail(s)) = Len(s) - 1
      /\ Head(s) = s[1] /\ \A i \in 1 .. Len(s) - 1 : Tail(s)[i] = s[i + 1]
  BY LeftFirst
<1>2. Rising(Tail(s))
  BY <1>1 DEF Rising
<1>3. \A i \in 1 .. Len(Tail(s)) : s[1] < Tail(s)[i]
  BY <1>1 DEF Rising
<1>4. DOMAIN Tail(s) = 1 .. Len(Tail(s))
  BY <1>1, LenProperties
<1>. QED
  BY <1>1, <1>2, <1>3, <1>4 DEF Range, Below

LEMMA Elements ==
    ASSUME NEW S, NEW s \in Seq(S)
    PROVE  /\ Range(s) \in SUBSET S /\ Range(<<>>) = {}
           /\ Len(s) \in Nat /\ DOMAIN s = 1 .. Len(s)
           /\ \A i \in 1 .. Len(s) : s[i] \in Range(s)
BY LenProperties DEF Range

-----------------------------------------------------------------------------
(* The event outbox.                                                       *)

Handled == [m : Nat, stream : Nat]

OutboxTypes ==
    /\ queue \in Seq(Nat) /\ flight \in [Events!Streams -> Seq(Nat)]
    /\ received \in Seq(Handled)
    /\ pushed \in Nat /\ peeked \in Nat /\ outSent \in SUBSET Nat /\ breaks \in 0 .. MaxBreaks
    /\ at \in {"select", "beat", "peek", "send", "pop"}
    /\ session = "down" => at # "pop"

QueueInOrder == Rising(queue) /\ \A m \in Range(queue) : m <= pushed

\* What the streams hold was sent, each stream's in order, and all of it before
\* what a later stream holds; nothing is on a stream that was not opened.
StreamsInOrder ==
    /\ \A s \in Events!Streams : Rising(flight[s]) /\ Range(flight[s]) \subseteq outSent
    /\ \A s, t \in Events!Streams : s < t => Below(Range(flight[s]), Range(flight[t]))
    /\ \A s \in Events!Streams : flight[s] # <<>> => s <= breaks + 1

\* What a stream still holds may follow all that was handled.
HandledInOrder ==
    /\ \A i, j \in 1 .. Len(received) : i < j => Events!Follows(received[j], received[i])
    /\ \A r \in Range(received) : r.m \in outSent /\ r.stream <= breaks + 1
    /\ \A r \in Range(received), s \in Events!Streams : \A x \in Range(flight[s]) :
          Events!Follows([m |-> x, stream |-> s], r)

\* What was sent is behind the queue but for the message between its send and
\* its pop.
SentIsBehind ==
    /\ \A m \in outSent : m <= pushed
    /\ at \in {"select", "beat", "peek"} => Below(outSent, Range(queue))
    /\ at = "send" => /\ Below(outSent, {peeked}) /\ peeked <= pushed
                      /\ \A m \in Range(queue) : peeked <= m
    /\ at = "pop" => /\ peeked \in outSent /\ \A m \in outSent : m <= peeked
                     /\ \A m \in Range(queue) : peeked <= m

AllAccounted == \A m \in 1 .. pushed : m \in outSent \cup evicted \cup Range(queue)

OutboxInv ==
    /\ OutboxTypes /\ QueueInOrder /\ StreamsInOrder /\ HandledInOrder /\ SentIsBehind
    /\ AllAccounted

OnTheWay == StreamsInOrder /\ HandledInOrder

LEMMA OutboxStart == Events!Init => OutboxInv
<1>. SUFFICES ASSUME Events!Init PROVE OutboxInv
  OBVIOUS
<1>1. /\ queue = <<>> /\ flight = [s \in Events!Streams |-> <<>>] /\ received = <<>>
      /\ outSent = {} /\ pushed = 0 /\ at = "select" /\ peeked = 0 /\ breaks = 0
  BY DEF Events!Init
<1>2. Range(<<>>) = {} /\ Rising(<<>>) /\ <<>> \in Seq(Nat) /\ <<>> \in Seq(Handled) /\ Len(<<>>) = 0
  BY DEF Range, Rising
<1>3. OutboxTypes
  BY <1>1, <1>2, AgentServicesAssumption DEF OutboxTypes
<1>4. StreamsInOrder
  BY <1>1, <1>2 DEF StreamsInOrder, Below
<1>5. HandledInOrder
  BY <1>1, <1>2 DEF HandledInOrder
<1>. QED
  BY <1>1, <1>2, <1>3, <1>4, <1>5
     DEF OutboxInv, QueueInOrder, SentIsBehind, AllAccounted, Below

\* What is on its way stays in order when neither it nor the sends change.
LEMMA WayUnchanged ==
    ASSUME OutboxInv, UNCHANGED <<flight, received, outSent>>, breaks' \in {breaks, breaks + 1}
    PROVE  OnTheWay'
<1>1. StreamsInOrder /\ HandledInOrder /\ breaks \in Nat /\ received \in Seq(Handled)
  BY DEF OutboxInv, OutboxTypes
<1>2. Events!Streams' = Events!Streams /\ Events!Streams \in SUBSET Int
  BY DEF Events!Streams
<1>3. \A n \in Int : n <= breaks + 1 => n <= breaks' + 1
  <2>1. breaks' = breaks \/ breaks' = breaks + 1
    OBVIOUS
  <2>2. CASE breaks' = breaks
    BY <1>1, <2>2
  <2>3. CASE breaks' = breaks + 1
    <3>1. \A n \in Int : n <= breaks + 1 => n <= (breaks + 1) + 1
      BY <1>1
    <3>. QED
      BY <2>3, <3>1
  <2>. QED
    BY <2>1, <2>2, <2>3
<1>4. StreamsInOrder'
  BY <1>1, <1>2, <1>3 DEF StreamsInOrder
<1>5. \A r \in Range(received) : r.m \in outSent /\ r.stream <= breaks' + 1
  <2>1. \A r \in Range(received) : r.stream \in Int
    <3>1. Range(received) \in SUBSET Handled
      BY <1>1, Elements
    <3>. QED
      BY <3>1 DEF Handled
  <2>. QED
    BY <1>1, <1>3, <2>1 DEF HandledInOrder
<1>6. HandledInOrder'
  BY <1>1, <1>2, <1>5 DEF HandledInOrder, Events!Follows
<1>. QED
  BY <1>4, <1>6 DEF OnTheWay

\* So it does when a stream loses some of what it holds.
LEMMA StreamLoses ==
    ASSUME OutboxInv, NEW s \in Events!Streams, NEW rest \in Seq(Nat), flight[s] # <<>>,
           Rising(rest), Range(rest) \subseteq Range(flight[s]),
           flight' = [flight EXCEPT ![s] = rest], UNCHANGED <<outSent, breaks>>
    PROVE  /\ flight' \in [Events!Streams -> Seq(Nat)] /\ StreamsInOrder'
           /\ \A t \in Events!Streams : Range(flight'[t]) \subseteq Range(flight[t])
<1>1. StreamsInOrder /\ flight \in [Events!Streams -> Seq(Nat)]
  BY DEF OutboxInv, OutboxTypes
<1>2. /\ flight' \in [Events!Streams -> Seq(Nat)] /\ flight'[s] = rest
      /\ \A t \in Events!Streams : t # s => flight'[t] = flight[t]
  BY <1>1
<1>3. \A t \in Events!Streams : Range(flight'[t]) \subseteq Range(flight[t])
  BY <1>2
<1>4. Events!Streams' = Events!Streams
  BY DEF Events!Streams
<1>5. \A t \in Events!Streams : Rising(flight'[t]) /\ Range(flight'[t]) \subseteq outSent
  BY <1>1, <1>2, <1>3 DEF StreamsInOrder
<1>6. \A t, u \in Events!Streams : t < u => Below(Range(flight'[t]), Range(flight'[u]))
  BY <1>1, <1>3 DEF StreamsInOrder, Below
<1>7. \A t \in Events!Streams : flight'[t] # <<>> => t <= breaks + 1
  BY <1>1, <1>2 DEF StreamsInOrder
<1>. QED
  BY <1>2, <1>3, <1>4, <1>5, <1>6, <1>7 DEF StreamsInOrder

LEMMA PushKeeps == ASSUME OutboxInv, Events!Push PROVE OutboxInv'
<1>0. OutboxTypes /\ QueueInOrder /\ SentIsBehind /\ AllAccounted
  BY DEF OutboxInv
<1>. DEFINE kept == IF Len(queue) >= Cap THEN Tail(queue) ELSE queue
            gone == IF Len(queue) >= Cap THEN {Head(queue)} ELSE {}
<1>1. /\ pushed' = pushed + 1 /\ queue' = Append(kept, pushed + 1)
      /\ evicted' = evicted \cup gone
      /\ UNCHANGED <<session, at, peeked, flight, outSent, received, breaks>>
  BY DEF Events!Push
<1>2. /\ kept \in Seq(Nat) /\ Rising(kept) /\ Range(queue) = Range(kept) \cup gone
  <2>1. CASE Len(queue) >= Cap
    <3>1. queue # <<>>
      BY <2>1, AgentServicesAssumption
    <3>. QED
      BY <1>0, <2>1, <3>1, LeftFirst, RestRises DEF OutboxTypes, QueueInOrder
  <2>2. CASE ~(Len(queue) >= Cap)
    BY <1>0, <2>2 DEF OutboxTypes, QueueInOrder
  <2>. QED
    BY <2>1, <2>2
<1>. HIDE DEF kept, gone
<1>3. pushed \in Nat /\ pushed + 1 \in Nat /\ \A m \in Nat : m <= pushed => m < pushed + 1
  BY <1>0 DEF OutboxTypes
<1>4. Range(kept) \in SUBSET Nat /\ \A m \in Range(kept) : m <= pushed
  BY <1>0, <1>2, Elements DEF QueueInOrder
<1>5. /\ queue' \in Seq(Nat) /\ Range(queue') = Range(kept) \cup {pushed'}
      /\ Rising(queue')
  <2>1. Below(Range(kept), {pushed + 1})
    BY <1>3, <1>4 DEF Below
  <2>. QED
    BY <1>1, <1>2, <1>3, <2>1, Joined, StillRising
<1>6. OutboxTypes'
  BY <1>0, <1>1, <1>3, <1>5 DEF OutboxTypes, Events!Streams
<1>7. QueueInOrder'
  <2>1. \A m \in Range(queue') : m <= pushed'
    BY <1>1, <1>3, <1>4, <1>5
  <2>. QED
    BY <1>5, <2>1 DEF QueueInOrder
<1>8. SentIsBehind'
  <2>1. outSent \in SUBSET Nat /\ peeked \in Nat
    BY <1>0 DEF OutboxTypes
  <2>2. \A m \in outSent : m < pushed + 1 /\ m <= pushed + 1
    BY <1>0, <1>3, <2>1 DEF SentIsBehind
  <2>3. at \in {"send", "pop"} => peeked <= pushed + 1
    BY <1>0, <1>3, <2>1 DEF SentIsBehind
  <2>. QED
    BY <1>0, <1>1, <1>2, <1>5, <2>2, <2>3 DEF SentIsBehind, Below
<1>9. AllAccounted'
  <2>1. 1 .. pushed + 1 = (1 .. pushed) \cup {pushed + 1}
    BY <1>3
  <2>. QED
    BY <1>0, <1>1, <1>2, <1>5, <2>1 DEF AllAccounted
<1>10. OnTheWay'
  BY <1>1, WayUnchanged
<1>. QED
  BY <1>6, <1>7, <1>8, <1>9, <1>10 DEF OutboxInv, OnTheWay

\* The message sent joins the stream in use, the last that holds anything.
LEMMA SentOnStream ==
    ASSUME OutboxInv, Events!Send
    PROVE  flight' \in [Events!Streams -> Seq(Nat)] /\ OnTheWay'
<1>. DEFINE live == breaks + 1
            longer == Append(flight[live], peeked)
<1>0. OutboxTypes /\ StreamsInOrder /\ HandledInOrder /\ SentIsBehind
  BY DEF OutboxInv
<1>1. /\ at = "send" /\ outSent' = outSent \cup {peeked} /\ UNCHANGED <<received, breaks>>
      /\ flight' \in {flight, [flight EXCEPT ![live] = longer]}
  BY DEF Events!Send
<1>2. live \in Events!Streams /\ live \in Nat /\ Events!Streams \in SUBSET Nat
      /\ Events!Streams' = Events!Streams
  BY <1>0, AgentServicesAssumption DEF OutboxTypes, Events!Streams
<1>3. /\ peeked \in Nat /\ flight \in [Events!Streams -> Seq(Nat)] /\ flight[live] \in Seq(Nat)
      /\ outSent \in SUBSET Nat /\ Below(outSent, {peeked}) /\ received \in Seq(Handled)
  BY <1>0, <1>1, <1>2 DEF OutboxTypes, SentIsBehind
<1>4. /\ longer \in Seq(Nat) /\ longer # <<>> /\ Rising(longer)
      /\ Range(longer) = Range(flight[live]) \cup {peeked}
  <2>1. Rising(flight[live]) /\ Below(Range(flight[live]), {peeked})
    BY <1>0, <1>2, <1>3 DEF StreamsInOrder, Below
  <2>. QED
    BY <1>3, <2>1, Joined, StillRising
<1>. HIDE DEF live, longer
<1>5. /\ flight' \in [Events!Streams -> Seq(Nat)]
      /\ flight'[live] \in {flight[live], longer}
      /\ \A s \in Events!Streams : s # live => flight'[s] = flight[s]
  BY <1>1, <1>2, <1>3, <1>4
<1>6. \A s \in Events!Streams : /\ Rising(flight'[s])
                                /\ Range(flight'[s]) \subseteq outSent'
                                /\ flight'[s] # <<>> => s <= breaks + 1
  <2>1. \A s \in Events!Streams : s # live => /\ Rising(flight'[s])
                                              /\ Range(flight'[s]) \subseteq outSent'
                                              /\ flight'[s] # <<>> => s <= breaks + 1
    BY <1>0, <1>1, <1>5 DEF StreamsInOrder
  <2>2. Rising(flight'[live]) /\ Range(flight'[live]) \subseteq outSent'
    BY <1>0, <1>1, <1>2, <1>4, <1>5 DEF StreamsInOrder
  <2>3. live <= breaks + 1
    BY <1>2 DEF live
  <2>. QED
    BY <2>1, <2>2, <2>3
<1>7. \A s \in Events!Streams : Range(flight'[s]) \subseteq Range(flight[s]) \cup {peeked}
  BY <1>4, <1>5
<1>8. \A s \in Events!Streams : s > live => flight'[s] = <<>>
  <2>1. \A s \in Events!Streams : s > live => s # live /\ ~(s <= breaks + 1)
    BY <1>0, <1>2 DEF live, OutboxTypes
  <2>. QED
    BY <1>0, <1>5, <2>1 DEF StreamsInOrder
<1>9. \A s, t \in Events!Streams : s < t => Below(Range(flight'[s]), Range(flight'[t]))
  <2>. SUFFICES ASSUME NEW s \in Events!Streams, NEW t \in Events!Streams, s < t
                PROVE  Below(Range(flight'[s]), Range(flight'[t]))
    OBVIOUS
  <2>1. CASE t > live
    <3>1. flight'[t] = <<>> /\ Range(<<>>) = {}
      BY <1>8, <2>1 DEF Range
    <3>. QED
      BY <3>1 DEF Below
  <2>2. CASE t <= live
    <3>1. s # live
      BY <1>2, <2>2
    <3>2. flight'[s] = flight[s] /\ Range(flight[s]) \subseteq outSent
      BY <1>0, <1>5, <3>1 DEF StreamsInOrder
    <3>3. Below(Range(flight[s]), Range(flight[t]))
      BY <1>0 DEF StreamsInOrder
    <3>. QED
      BY <1>3, <1>7, <3>2, <3>3 DEF Below
  <2>. QED
    BY <1>2, <2>1, <2>2
<1>10. StreamsInOrder'
  BY <1>1, <1>2, <1>6, <1>9 DEF StreamsInOrder
<1>11. \A r \in Range(received), s \in Events!Streams : \A x \in Range(flight'[s]) :
          Events!Follows([m |-> x, stream |-> s], r)
  <2>. SUFFICES ASSUME NEW r \in Range(received), NEW s \in Events!Streams,
                       NEW x \in Range(flight'[s])
                PROVE  Events!Follows([m |-> x, stream |-> s], r)
    OBVIOUS
  <2>1. CASE x \in Range(flight[s])
    BY <1>0, <2>1 DEF HandledInOrder
  <2>2. CASE x \notin Range(flight[s])
    <3>1. x = peeked /\ s = live
      BY <1>5, <1>7, <2>2
    <3>2. r.stream <= s /\ r.m \in outSent
      BY <1>0, <3>1 DEF HandledInOrder, live
    <3>3. r.m < x
      BY <1>3, <3>1, <3>2 DEF Below
    <3>. QED
      BY <3>2, <3>3 DEF Events!Follows
  <2>. QED
    BY <2>1, <2>2
<1>12. HandledInOrder'
  BY <1>0, <1>1, <1>2, <1>11 DEF HandledInOrder, Events!Follows
<1>. QED
  BY <1>5, <1>10, <1>12 DEF OnTheWay

LEMMA SendKeeps == ASSUME OutboxInv, Events!Send PROVE OutboxInv'
<1>0. OutboxTypes /\ QueueInOrder /\ SentIsBehind /\ AllAccounted
  BY DEF OutboxInv
<1>1. /\ at = "send" /\ at' = "pop" /\ session # "down" /\ outSent' = outSent \cup {peeked}
      /\ UNCHANGED <<queue, pushed, session, peeked, evicted, received, breaks>>
  BY DEF Events!Send
<1>2. /\ peeked \in Nat /\ Below(outSent, {peeked}) /\ outSent \in SUBSET Nat
      /\ peeked <= pushed
  BY <1>0, <1>1 DEF OutboxTypes, SentIsBehind
<1>3. flight' \in [Events!Streams -> Seq(Nat)] /\ OnTheWay'
  BY SentOnStream
<1>4. OutboxTypes'
  BY <1>0, <1>1, <1>2, <1>3 DEF OutboxTypes, Events!Streams
<1>5. QueueInOrder'
  BY <1>0, <1>1 DEF QueueInOrder
<1>6. SentIsBehind'
  <2>1. \A m \in outSent' : m <= peeked
    BY <1>1, <1>2 DEF Below
  <2>. QED
    BY <1>0, <1>1, <1>2, <2>1 DEF SentIsBehind
<1>7. AllAccounted'
  BY <1>0, <1>1 DEF AllAccounted
<1>. QED
  BY <1>3, <1>4, <1>5, <1>6, <1>7 DEF OutboxInv, OnTheWay

LEMMA PeekKeeps == ASSUME OutboxInv, Events!Peek PROVE OutboxInv'
<1>0. OutboxTypes /\ QueueInOrder /\ SentIsBehind /\ AllAccounted
  BY DEF OutboxInv
<1>1. /\ at = "peek"
      /\ UNCHANGED <<queue, pushed, session, flight, outSent, evicted, received, breaks>>
  BY DEF Events!Peek
<1>2. OnTheWay' /\ QueueInOrder' /\ AllAccounted'
  BY <1>0, <1>1, WayUnchanged DEF QueueInOrder, AllAccounted
<1>3. CASE at' = "select" /\ peeked' = 0
  <2>1. OutboxTypes'
    BY <1>0, <1>1, <1>3 DEF OutboxTypes, Events!Streams
  <2>. QED
    BY <1>0, <1>1, <1>2, <1>3, <2>1 DEF OutboxInv, OnTheWay, SentIsBehind
<1>4. CASE queue # <<>> /\ at' = "send" /\ peeked' = Head(queue)
  <2>1. /\ Head(queue) \in Nat /\ Range(queue) = Range(Tail(queue)) \cup {Head(queue)}
        /\ Below({Head(queue)}, Range(Tail(queue))) /\ Tail(queue) \in Seq(Nat)
    BY <1>0, <1>4, LeftFirst, RestRises DEF OutboxTypes, QueueInOrder
  <2>2. Range(Tail(queue)) \in SUBSET Nat
    BY <2>1, Elements
  <2>3. \A m \in Range(queue) : Head(queue) <= m
    BY <2>1, <2>2 DEF Below
  <2>4. Head(queue) <= pushed /\ Below(outSent, {Head(queue)})
    BY <1>0, <1>1, <2>1 DEF QueueInOrder, SentIsBehind, Below
  <2>5. OutboxTypes'
    BY <1>0, <1>1, <1>4, <2>1 DEF OutboxTypes, Events!Streams
  <2>6. SentIsBehind'
    BY <1>0, <1>1, <1>4, <2>3, <2>4 DEF SentIsBehind
  <2>. QED
    BY <1>2, <2>5, <2>6 DEF OutboxInv, OnTheWay
<1>. QED
  BY <1>3, <1>4 DEF Events!Peek

LEMMA PopKeeps == ASSUME OutboxInv, Events!Pop PROVE OutboxInv'
<1>0. OutboxTypes /\ QueueInOrder /\ SentIsBehind /\ AllAccounted
  BY DEF OutboxInv
<1>1. /\ at = "pop" /\ at' = "peek" /\ queue' = Events!Popped
      /\ UNCHANGED <<pushed, session, peeked, flight, outSent, evicted, received, breaks>>
  BY DEF Events!Pop
<1>2. /\ queue \in Seq(Nat) /\ Rising(queue) /\ peeked \in outSent /\ outSent \in SUBSET Nat
      /\ \A m \in outSent : m <= peeked
      /\ \A m \in Range(queue) : peeked <= m
  BY <1>0, <1>1 DEF OutboxTypes, QueueInOrder, SentIsBehind
<1>3. /\ queue' \in Seq(Nat) /\ Rising(queue') /\ Range(queue') \subseteq Range(queue)
      /\ Range(queue) \subseteq Range(queue') \cup {peeked}
      /\ Below({peeked}, Range(queue'))
  <2>1. CASE queue = <<>>
    BY <1>1, <1>2, <2>1, Elements DEF Events!Popped, Below
  <2>2. CASE queue # <<>>
    <3>1. /\ Tail(queue) \in Seq(Nat) /\ Rising(Tail(queue)) /\ Head(queue) \in Nat
          /\ Range(queue) = Range(Tail(queue)) \cup {Head(queue)}
          /\ Below({Head(queue)}, Range(Tail(queue)))
      BY <1>2, <2>2, LeftFirst, RestRises
    <3>2. CASE Head(queue) = peeked
      BY <1>1, <2>2, <3>1, <3>2 DEF Events!Popped
    <3>3. CASE Head(queue) # peeked
      <4>1. peeked < Head(queue) /\ peeked \in Nat
        <5>1. peeked \in Nat /\ peeked <= Head(queue)
          BY <1>2, <3>1
        <5>. QED
          BY <3>1, <3>3, <5>1
      <4>2. Range(Tail(queue)) \in SUBSET Nat
        BY <3>1, Elements
      <4>3. Below({peeked}, Range(queue))
        BY <3>1, <4>1, <4>2 DEF Below
      <4>. QED
        BY <1>1, <1>2, <2>2, <3>3, <4>3 DEF Events!Popped
    <3>. QED
      BY <3>2, <3>3
  <2>. QED
    BY <2>1, <2>2
<1>4. Range(queue') \in SUBSET Nat
  BY <1>3, Elements
<1>5. OutboxTypes'
  BY <1>0, <1>1, <1>3 DEF OutboxTypes, Events!Streams
<1>6. QueueInOrder'
  BY <1>0, <1>1, <1>3 DEF QueueInOrder
<1>7. SentIsBehind'
  <2>1. Below(outSent, Range(queue'))
    BY <1>2, <1>3, <1>4 DEF Below
  <2>. QED
    BY <1>0, <1>1, <2>1 DEF SentIsBehind
<1>8. AllAccounted'
  BY <1>0, <1>1, <1>2, <1>3 DEF AllAccounted
<1>9. OnTheWay'
  BY <1>1, WayUnchanged
<1>. QED
  BY <1>5, <1>6, <1>7, <1>8, <1>9 DEF OutboxInv, OnTheWay

\* What is handled next was ahead of all its stream holds still, of all on later
\* streams, and behind what is left on older ones.
LEMMA ReceiveKeeps ==
    ASSUME OutboxInv, NEW s \in Events!Streams, Events!Receive(s) PROVE OutboxInv'
<1>. DEFINE h == Head(flight[s])
            e == [m |-> h, stream |-> s]
<1>0. OutboxTypes /\ QueueInOrder /\ StreamsInOrder /\ HandledInOrder /\ SentIsBehind
      /\ AllAccounted
  BY DEF OutboxInv
<1>1. /\ flight[s] # <<>> /\ received' = Append(received, e)
      /\ flight' = [flight EXCEPT ![s] = Tail(flight[s])]
      /\ UNCHANGED <<queue, pushed, session, at, peeked, outSent, evicted, breaks>>
  BY DEF Events!Receive
<1>2. /\ flight[s] \in Seq(Nat) /\ received \in Seq(Handled) /\ Rising(flight[s])
      /\ flight \in [Events!Streams -> Seq(Nat)] /\ Range(flight[s]) \subseteq outSent
      /\ s \in Nat /\ s <= breaks + 1 /\ outSent \in SUBSET Nat
  <2>1. /\ flight \in [Events!Streams -> Seq(Nat)] /\ received \in Seq(Handled)
        /\ outSent \in SUBSET Nat
    BY <1>0 DEF OutboxTypes
  <2>2. s \in Nat
    BY DEF Events!Streams
  <2>3. Rising(flight[s]) /\ Range(flight[s]) \subseteq outSent /\ s <= breaks + 1
    BY <1>0, <1>1 DEF StreamsInOrder
  <2>. QED
    BY <2>1, <2>2, <2>3
<1>3. /\ Tail(flight[s]) \in Seq(Nat) /\ h \in Nat /\ Rising(Tail(flight[s]))
      /\ Range(flight[s]) = Range(Tail(flight[s])) \cup {h}
      /\ Below({h}, Range(Tail(flight[s])))
  BY <1>1, <1>2, LeftFirst, RestRises
<1>4. e \in Handled /\ e.m = h /\ e.stream = s
  BY <1>2, <1>3 DEF Handled
<1>. HIDE DEF h, e
<1>5. /\ flight' \in [Events!Streams -> Seq(Nat)] /\ StreamsInOrder'
      /\ \A t \in Events!Streams : Range(flight'[t]) \subseteq Range(flight[t])
  BY <1>1, <1>2, <1>3, StreamLoses
<1>6. received' \in Seq(Handled) /\ Range(received') = Range(received) \cup {e}
  BY <1>1, <1>2, <1>4, Joined
<1>7. OutboxTypes'
  BY <1>0, <1>1, <1>5, <1>6 DEF OutboxTypes, Events!Streams
<1>8. \A r \in Range(received) : Events!Follows(e, r)
  BY <1>0, <1>3 DEF HandledInOrder, e
<1>9. \A i, j \in 1 .. Len(received') : i < j => Events!Follows(received'[j], received'[i])
  <2>1. /\ Len(received) \in Nat /\ Len(received') = Len(received) + 1
        /\ \A i \in 1 .. Len(received) : received'[i] = received[i]
        /\ received'[Len(received) + 1] = e
    BY <1>1, <1>2, <1>4, AppendProperties, LenProperties
  <2>2. \A i \in 1 .. Len(received) : received[i] \in Range(received)
    BY <1>2, Elements
  <2>. SUFFICES ASSUME NEW i \in 1 .. Len(received'), NEW j \in 1 .. Len(received'), i < j
                PROVE  Events!Follows(received'[j], received'[i])
    OBVIOUS
  <2>3. i \in 1 .. Len(received) /\ (j \in 1 .. Len(received) \/ j = Len(received) + 1)
    BY <2>1
  <2>4. CASE j \in 1 .. Len(received)
    BY <1>0, <2>1, <2>3, <2>4 DEF HandledInOrder
  <2>5. CASE j = Len(received) + 1
    BY <1>8, <2>1, <2>2, <2>3, <2>5
  <2>. QED
    BY <2>3, <2>4, <2>5
<1>10. \A r \in Range(received') : r.m \in outSent /\ r.stream <= breaks + 1
  BY <1>0, <1>2, <1>3, <1>4, <1>6 DEF HandledInOrder
<1>11. \A r \in Range(received'), t \in Events!Streams : \A x \in Range(flight'[t]) :
          Events!Follows([m |-> x, stream |-> t], r)
  <2>. SUFFICES ASSUME NEW r \in Range(received'), NEW t \in Events!Streams,
                       NEW x \in Range(flight'[t])
                PROVE  Events!Follows([m |-> x, stream |-> t], r)
    OBVIOUS
  <2>1. CASE r \in Range(received)
    BY <1>0, <1>5, <2>1 DEF HandledInOrder
  <2>2. CASE r = e
    <3>1. t \in Nat /\ x \in Range(flight[t])
      BY <1>5 DEF Events!Streams
    <3>2. CASE t = s
      <4>1. h < x
        BY <1>1, <1>2, <1>3, <3>2 DEF Below
      <4>. QED
        BY <1>2, <1>4, <2>2, <3>2, <4>1 DEF Events!Follows
    <3>3. CASE s < t
      <4>1. h < x
        BY <1>0, <1>3, <3>1, <3>3 DEF StreamsInOrder, Below
      <4>2. s <= t
        BY <1>2, <3>1, <3>3
      <4>. QED
        BY <1>4, <2>2, <4>1, <4>2 DEF Events!Follows
    <3>4. CASE t < s
      <4>1. x < h
        BY <1>0, <1>3, <3>1, <3>4 DEF StreamsInOrder, Below
      <4>2. ~(s <= t)
        BY <1>2, <3>1, <3>4
      <4>. QED
        BY <1>4, <2>2, <4>1, <4>2 DEF Events!Follows
    <3>. QED
      BY <1>2, <3>1, <3>2, <3>3, <3>4
  <2>. QED
    BY <1>6, <2>1, <2>2
<1>12. HandledInOrder'
  BY <1>1, <1>9, <1>10, <1>11 DEF HandledInOrder, Events!Follows, Events!Streams
<1>. QED
  BY <1>0, <1>1, <1>5, <1>7, <1>12 DEF OutboxInv, QueueInOrder, SentIsBehind, AllAccounted

LEMMA LoseKeeps ==
    ASSUME OutboxInv, NEW s \in Events!Streams, Events!Lose(s) PROVE OutboxInv'
<1>0. OutboxTypes /\ QueueInOrder /\ StreamsInOrder /\ HandledInOrder /\ SentIsBehind
      /\ AllAccounted
  BY DEF OutboxInv
<1>1. /\ flight[s] # <<>> /\ flight' = [flight EXCEPT ![s] = <<>>]
      /\ UNCHANGED <<queue, pushed, session, at, peeked, outSent, evicted, received, breaks>>
  BY DEF Events!Lose
<1>2. <<>> \in Seq(Nat) /\ Rising(<<>>) /\ Range(<<>>) = {}
  BY DEF Range, Rising
<1>3. /\ flight' \in [Events!Streams -> Seq(Nat)] /\ StreamsInOrder'
      /\ \A t \in Events!Streams : Range(flight'[t]) \subseteq Range(flight[t])
  BY <1>1, <1>2, StreamLoses
<1>4. OutboxTypes'
  BY <1>0, <1>1, <1>3 DEF OutboxTypes, Events!Streams
<1>5. HandledInOrder'
  BY <1>0, <1>1, <1>3 DEF HandledInOrder, Events!Follows, Events!Streams
<1>. QED
  BY <1>0, <1>1, <1>3, <1>4, <1>5 DEF OutboxInv, QueueInOrder, SentIsBehind, AllAccounted

LEMMA OutboxStep == ASSUME OutboxInv, Events!Next PROVE OutboxInv'
<1>0. OutboxTypes /\ QueueInOrder /\ SentIsBehind /\ AllAccounted
  BY DEF OutboxInv
<1>1. CASE Events!Connect
  <2>1. /\ session = "down" /\ at' = "select"
        /\ UNCHANGED <<queue, pushed, peeked, flight, outSent, evicted, received, breaks>>
    BY <1>1 DEF Events!Connect
  <2>2. at \in {"select", "beat", "peek", "send"} /\ outSent \in SUBSET Nat
    BY <1>0, <2>1 DEF OutboxTypes
  <2>3. Below(outSent, Range(queue))
    <3>1. CASE at = "send"
      <4>1. Range(queue) \in SUBSET Nat /\ peeked \in Nat
        BY <1>0, Elements DEF OutboxTypes
      <4>. QED
        BY <1>0, <2>2, <3>1, <4>1 DEF SentIsBehind, Below
    <3>. QED
      BY <1>0, <2>2, <3>1 DEF SentIsBehind
  <2>4. OutboxTypes'
    BY <1>0, <2>1 DEF OutboxTypes, Events!Streams
  <2>5. QueueInOrder' /\ SentIsBehind'
    BY <1>0, <2>1, <2>3 DEF QueueInOrder, SentIsBehind
  <2>6. OnTheWay'
    BY <2>1, WayUnchanged
  <2>. QED
    BY <1>0, <2>1, <2>4, <2>5, <2>6 DEF OutboxInv, OnTheWay, AllAccounted
<1>2. CASE Events!Break
  <2>1. /\ session' = "dead" /\ breaks < MaxBreaks /\ breaks' = breaks + 1
        /\ UNCHANGED <<queue, pushed, at, peeked, flight, outSent, evicted, received>>
    BY <1>2 DEF Events!Break
  <2>2. breaks' \in 0 .. MaxBreaks
    BY <1>0, <2>1, AgentServicesAssumption DEF OutboxTypes
  <2>3. OutboxTypes'
    BY <1>0, <2>1, <2>2 DEF OutboxTypes, Events!Streams
  <2>4. OnTheWay'
    BY <2>1, WayUnchanged
  <2>. QED
    BY <1>0, <2>1, <2>3, <2>4 DEF OutboxInv, OnTheWay, QueueInOrder, SentIsBehind, AllAccounted
<1>3. CASE Events!Take \/ Events!Beat \/ Events!End
  <2>1. /\ UNCHANGED <<queue, pushed, peeked, flight, outSent, evicted, received, breaks>>
        /\ \/ at \in {"select", "beat"} /\ at' \in {"beat", "peek"} /\ session' = session
           \/ at \in {"select", "beat", "send"} /\ at' = at /\ session' = "down"
    BY <1>3 DEF Events!Take, Events!Beat, Events!End
  <2>2. OutboxTypes'
    BY <1>0, <2>1 DEF OutboxTypes, Events!Streams
  <2>3. OnTheWay'
    BY <2>1, WayUnchanged
  <2>. QED
    BY <1>0, <2>1, <2>2, <2>3
       DEF OutboxInv, OnTheWay, QueueInOrder, SentIsBehind, AllAccounted
<1>. QED
  BY <1>1, <1>2, <1>3, PushKeeps, SendKeeps, PeekKeeps, PopKeeps, ReceiveKeeps, LoseKeeps
     DEF Events!Next, Events!SessionSteps

LEMMA OutboxHolds == OutboxInv => Events!QueuedUntilSent /\ Events!EventsInOrder
<1>. SUFFICES ASSUME OutboxInv PROVE Events!QueuedUntilSent /\ Events!EventsInOrder
  OBVIOUS
<1>1. Events!Range(queue) = Range(queue)
  BY DEF Events!Range, Range
<1>2. DOMAIN received = 1 .. Len(received)
  BY LenProperties DEF OutboxInv, OutboxTypes
<1>. QED
  BY <1>1, <1>2
     DEF OutboxInv, HandledInOrder, AllAccounted, Events!QueuedUntilSent, Events!EventsInOrder

-----------------------------------------------------------------------------
(* The self-upgrade.                                                       *)

Download == [n : Nat, v : Releases, whole : BOOLEAN]

UpgradeTypes ==
    /\ orders \in Seq(Releases) /\ unacked \subseteq DOMAIN orders
    /\ fetches \in SUBSET Download
    /\ disk \in Releases \cup {Upgrades!First}
    /\ process \in Releases \cup {Upgrades!First, "none"}

OneRelease == \A v, w \in Releases : v = w

\* A process that runs the release fetches nothing, so only one that does not
\* will ever exit for it, and no process comes after that one without it.
SwapsOnce ==
    /\ swapped \in {0, 1}
    /\ swapped = 1 => disk \in Releases /\ process \in Releases \cup {"none"}
    /\ process \in Releases => disk \in Releases
    /\ process = "none" => ~exiting /\ fetches = {}
    /\ fetches # {} => process \notin Releases
    /\ exiting => process \notin Releases /\ disk \in Releases

UpgradeInv == UpgradeTypes /\ (OneRelease => SwapsOnce)

LEMMA UpgradeStart == Upgrades!Init => UpgradeInv
BY AgentServicesAssumption
   DEF Upgrades!Init, Upgrades!First, UpgradeInv, UpgradeTypes, SwapsOnce, OneRelease

\* The orders and the downloads of a step keep their types.
LEMMA OrderKeeps == ASSUME UpgradeInv, NEW v \in Releases, Upgrades!Order(v) PROVE UpgradeInv'
<1>1. /\ orders' = Append(orders, v) /\ unacked' = unacked \cup {Len(orders')}
      /\ UNCHANGED <<fetches, disk, process, exiting, swapped>>
  BY DEF Upgrades!Order, Upgrades!processVars
<1>2. orders \in Seq(Releases) /\ unacked \subseteq DOMAIN orders
  BY DEF UpgradeInv, UpgradeTypes
<1>3. /\ orders' \in Seq(Releases) /\ Len(orders) \in Nat /\ Len(orders') = Len(orders) + 1
      /\ DOMAIN orders = 1 .. Len(orders) /\ DOMAIN orders' = 1 .. Len(orders')
  BY <1>1, <1>2, AppendProperties, LenProperties
<1>4. unacked' \subseteq DOMAIN orders'
  BY <1>1, <1>2, <1>3
<1>. QED
  BY <1>1, <1>3, <1>4 DEF UpgradeInv, UpgradeTypes, OneRelease, SwapsOnce, Download

LEMMA TakeKeeps == ASSUME UpgradeInv, NEW n \in unacked, Upgrades!Take(n) PROVE UpgradeInv'
<1>. DEFINE d == [n |-> n, v |-> orders[n], whole |-> FALSE]
<1>1. /\ process # "none" /\ UNCHANGED <<orders, unacked, disk, process, exiting, swapped>>
      /\ \/ fetches' = fetches
         \/ Upgrades!Needed(orders[n]) /\ fetches' = fetches \cup {d}
  BY DEF Upgrades!Take
<1>2. UpgradeTypes
  BY DEF UpgradeInv
<1>3. orders[n] \in Releases /\ n \in Nat
  BY <1>2, LenProperties DEF UpgradeTypes
<1>4. UpgradeTypes'
  <2>1. d \in Download
    BY <1>3 DEF Download
  <2>. HIDE DEF d
  <2>2. fetches' \in SUBSET Download
    BY <1>1, <1>2, <2>1 DEF UpgradeTypes
  <2>. QED
    BY <1>1, <1>2, <2>2 DEF UpgradeTypes, Download
<1>5. ASSUME OneRelease, SwapsOnce PROVE SwapsOnce'
  <2>1. Upgrades!Needed(orders[n]) => process \notin Releases
    BY <1>3, <1>5 DEF OneRelease, Upgrades!Needed
  <2>. QED
    BY <1>1, <1>5, <2>1 DEF SwapsOnce
<1>. QED
  BY <1>1, <1>4, <1>5 DEF UpgradeInv, OneRelease

LEMMA FetchedKeeps ==
    ASSUME UpgradeInv, NEW f \in fetches, Upgrades!Fetched(f) PROVE UpgradeInv'
<1>. DEFINE g == [f EXCEPT !.whole = TRUE]
<1>1. /\ fetches' = (fetches \ {f}) \cup {g} \/ fetches' = fetches \ {f}
      /\ UNCHANGED <<orders, unacked, disk, process, exiting, swapped>>
  BY DEF Upgrades!Fetched
<1>2. UpgradeTypes
  BY DEF UpgradeInv
<1>3. f \in Download /\ g \in Download
  BY <1>2 DEF UpgradeTypes, Download
<1>. HIDE DEF g
<1>4. fetches' \in SUBSET Download
  BY <1>1, <1>2, <1>3 DEF UpgradeTypes
<1>5. UpgradeTypes'
  BY <1>1, <1>2, <1>4 DEF UpgradeTypes, Download
<1>6. SwapsOnce => SwapsOnce'
  BY <1>1 DEF SwapsOnce
<1>. QED
  BY <1>5, <1>6 DEF UpgradeInv, OneRelease

LEMMA InstallKeeps ==
    ASSUME UpgradeInv, NEW f \in fetches, Upgrades!Install(f) PROVE UpgradeInv'
<1>1. /\ disk' = f.v /\ fetches' = fetches \ {f} /\ exiting' = TRUE
      /\ UNCHANGED <<orders, unacked, process, swapped>>
  BY DEF Upgrades!Install, Upgrades!Installable
<1>2. UpgradeTypes
  BY DEF UpgradeInv
<1>3. f.v \in Releases
  BY <1>2 DEF UpgradeTypes, Download
<1>4. UpgradeTypes'
  BY <1>1, <1>2, <1>3 DEF UpgradeTypes, Download
<1>5. SwapsOnce => SwapsOnce'
  BY <1>1, <1>3 DEF SwapsOnce
<1>. QED
  BY <1>4, <1>5 DEF UpgradeInv, OneRelease

LEMMA UpgradeStep == ASSUME UpgradeInv, Upgrades!Next PROVE UpgradeInv'
<1>0. UpgradeTypes
  BY DEF UpgradeInv
<1>1. CASE Upgrades!Exit \/ Upgrades!Killed
  <2>1. /\ process' = "none" /\ exiting' = FALSE /\ fetches' = {}
        /\ UNCHANGED <<orders, unacked, disk>>
    BY <1>1 DEF Upgrades!Exit, Upgrades!Killed, Upgrades!Gone
  <2>2. swapped' = swapped \/ (exiting /\ swapped' = swapped + 1)
    BY <1>1 DEF Upgrades!Exit, Upgrades!Killed
  <2>3. UpgradeTypes'
    BY <1>0, <2>1 DEF UpgradeTypes, Download
  <2>4. SwapsOnce => SwapsOnce'
    BY <2>1, <2>2, AgentServicesAssumption DEF SwapsOnce
  <2>. QED
    BY <2>3, <2>4 DEF UpgradeInv, OneRelease
<1>2. CASE Upgrades!Boot
  <2>1. /\ process = "none" /\ process' = disk
        /\ UNCHANGED <<orders, unacked, fetches, disk, exiting, swapped>>
    BY <1>2 DEF Upgrades!Boot, Upgrades!processVars
  <2>2. UpgradeTypes'
    BY <1>0, <2>1 DEF UpgradeTypes, Download
  <2>3. process' # "none"
    BY <1>0, <2>1, AgentServicesAssumption DEF UpgradeTypes, Upgrades!First
  <2>4. SwapsOnce => SwapsOnce'
    BY <2>1, <2>3 DEF SwapsOnce
  <2>. QED
    BY <2>2, <2>4 DEF UpgradeInv, OneRelease
<1>3. CASE \/ Upgrades!Hello \/ \E n \in unacked : Upgrades!Ack(n)
           \/ Upgrades!MasterRestarts \/ \E v \in Releases : Upgrades!Watch(v)
  <2>1. unacked' \subseteq unacked /\ UNCHANGED <<orders, fetches, disk, process, exiting, swapped>>
    BY <1>3 DEF Upgrades!Hello, Upgrades!Ack, Upgrades!MasterRestarts, Upgrades!Watch,
                Upgrades!processVars
  <2>2. UpgradeTypes'
    BY <1>0, <2>1 DEF UpgradeTypes, Download
  <2>3. SwapsOnce => SwapsOnce'
    BY <2>1 DEF SwapsOnce
  <2>. QED
    BY <2>2, <2>3 DEF UpgradeInv, OneRelease
<1>. QED
  BY <1>1, <1>2, <1>3, OrderKeeps, TakeKeeps, FetchedKeeps, InstallKeeps
     DEF Upgrades!Next, Upgrades!AgentSteps

LEMMA UpgradeHolds == UpgradeInv => disk # "torn" /\ (OneRelease => Upgrades!UpgradedOnce)
<1>. SUFFICES ASSUME UpgradeInv
              PROVE  disk # "torn" /\ (OneRelease => Upgrades!UpgradedOnce)
  OBVIOUS
<1>1. disk # "torn"
  BY AgentServicesAssumption DEF UpgradeInv, UpgradeTypes, Upgrades!First
<1>2. ASSUME OneRelease PROVE swapped <= Cardinality(Releases)
  <2>1. CASE Releases = {}
    BY <1>2, <2>1, FS_EmptySet DEF UpgradeInv, SwapsOnce
  <2>2. CASE Releases # {}
    <3>1. PICK v : Releases = {v}
      BY <1>2, <2>2 DEF OneRelease
    <3>2. Cardinality(Releases) = 1
      BY <3>1, FS_Singleton
    <3>. QED
      BY <1>2, <3>2 DEF UpgradeInv, SwapsOnce
  <2>. QED
    BY <2>1, <2>2
<1>3. \A S : Upgrades!Cardinality(S) = Cardinality(S)
  BY DEF Upgrades!Cardinality, Cardinality
<1>. QED
  BY <1>1, <1>2, <1>3 DEF Upgrades!UpgradedOnce

-----------------------------------------------------------------------------
(* The log of a server.                                                    *)

LogNames == {"old.gz", "old", "log.gz", "log"}
LogFile == [there : BOOLEAN, lines : Seq(Nat), whole : BOOLEAN]
LogChunk == [lines : Seq(Nat), followed : BOOLEAN, eof : BOOLEAN]
LogCommand == [cancel : BOOLEAN, follow : BOOLEAN, lastOnly : BOOLEAN]
TailState ==
    [st : {"none", "list", "read", "follow", "grown", "eof", "done"}, follow : BOOLEAN,
     lastOnly : BOOLEAN, todo : SUBSET (1 .. 4), ring : Seq(Nat), offset : Nat \cup {-1},
     backlog : Nat, cancelled : BOOLEAN]

\* The lines a chunk, or a queue of chunks, hands on to a client that follows.
Followed(c) == IF c.followed THEN Range(c.lines) ELSE {}
FollowedIn(s) == UNION {Followed(c) : c \in Range(s)}

ChunksRise(s) ==
    /\ \A c \in Range(s) : c.followed => Rising(c.lines)
    /\ \A i, j \in 1 .. Len(s) : i < j => Below(Followed(s[i]), Followed(s[j]))

LEMMA ChunkJoins ==
    ASSUME NEW s \in Seq(LogChunk), NEW c \in LogChunk
    PROVE  /\ Append(s, c) \in Seq(LogChunk)
           /\ FollowedIn(Append(s, c)) = FollowedIn(s) \cup Followed(c)
           /\ /\ ChunksRise(s) /\ (c.followed => Rising(c.lines))
              /\ Below(FollowedIn(s), Followed(c))
              => ChunksRise(Append(s, c))
<1>. DEFINE u == Append(s, c)
<1>1. u \in Seq(LogChunk) /\ Range(u) = Range(s) \cup {c}
  BY Joined
<1>2. /\ Len(s) \in Nat /\ Len(u) = Len(s) + 1 /\ u[Len(s) + 1] = c
      /\ \A i \in 1 .. Len(s) : u[i] = s[i]
  BY AppendProperties, LenProperties
<1>. HIDE DEF u
<1>3. FollowedIn(u) = FollowedIn(s) \cup Followed(c)
  BY <1>1 DEF FollowedIn
<1>4. ASSUME ChunksRise(s), c.followed => Rising(c.lines), Below(FollowedIn(s), Followed(c))
      PROVE  ChunksRise(u)
  <2>1. \A k \in Range(u) : k.followed => Rising(k.lines)
    BY <1>1, <1>4 DEF ChunksRise
  <2>2. ASSUME NEW i \in 1 .. Len(u), NEW j \in 1 .. Len(u), i < j
        PROVE  Below(Followed(u[i]), Followed(u[j]))
    <3>1. i \in 1 .. Len(s) /\ (j \in 1 .. Len(s) \/ j = Len(s) + 1)
      BY <1>2, <2>2
    <3>2. CASE j \in 1 .. Len(s)
      BY <1>2, <1>4, <2>2, <3>1, <3>2 DEF ChunksRise
    <3>3. CASE j = Len(s) + 1
      <4>1. s[i] \in Range(s)
        BY <3>1, Elements
      <4>2. Followed(s[i]) \subseteq FollowedIn(s)
        BY <4>1 DEF FollowedIn
      <4>. QED
        BY <1>2, <1>4, <3>1, <3>3, <4>2 DEF Below
    <3>. QED
      BY <3>1, <3>2, <3>3
  <2>. QED
    BY <2>1, <2>2 DEF ChunksRise
<1>. QED
  BY <1>1, <1>3, <1>4 DEF u

LEMMA ChunkLeaves ==
    ASSUME NEW s \in Seq(LogChunk), s # <<>>
    PROVE  /\ Tail(s) \in Seq(LogChunk) /\ Head(s) \in LogChunk
           /\ FollowedIn(s) = Followed(Head(s)) \cup FollowedIn(Tail(s))
           /\ ChunksRise(s) => /\ ChunksRise(Tail(s))
                               /\ Head(s).followed => Rising(Head(s).lines)
                               /\ Below(Followed(Head(s)), FollowedIn(Tail(s)))
<1>. DEFINE u == Tail(s)
            h == Head(s)
<1>1. /\ u \in Seq(LogChunk) /\ h \in LogChunk /\ Len(s) \in Nat \ {0}
      /\ Len(u) = Len(s) - 1 /\ h = s[1] /\ \A i \in 1 .. Len(s) - 1 : u[i] = s[i + 1]
      /\ Range(s) = Range(u) \cup {h}
  BY LeftFirst
<1>. HIDE DEF u, h
<1>2. FollowedIn(s) = Followed(h) \cup FollowedIn(u)
  BY <1>1 DEF FollowedIn
<1>3. ASSUME ChunksRise(s)
      PROVE  ChunksRise(u) /\ (h.followed => Rising(h.lines)) /\ Below(Followed(h), FollowedIn(u))
  <2>1. \A k \in Range(u) \cup {h} : k.followed => Rising(k.lines)
    BY <1>1, <1>3 DEF ChunksRise
  <2>2. \A i, j \in 1 .. Len(u) : i < j => Below(Followed(u[i]), Followed(u[j]))
    <3>1. \A i \in 1 .. Len(u) : i + 1 \in 1 .. Len(s) /\ u[i] = s[i + 1]
      BY <1>1
    <3>2. \A i, j \in 1 .. Len(u) : i < j => i + 1 < j + 1
      BY <1>1
    <3>. QED
      BY <1>3, <3>1, <3>2 DEF ChunksRise
  <2>3. \A i \in 1 .. Len(u) : Below(Followed(h), Followed(u[i]))
    <3>1. \A i \in 1 .. Len(u) : /\ i + 1 \in 1 .. Len(s) /\ 1 \in 1 .. Len(s) /\ 1 < i + 1
                                 /\ u[i] = s[i + 1]
      BY <1>1
    <3>. QED
      BY <1>1, <1>3, <3>1 DEF ChunksRise
  <2>4. Below(Followed(h), FollowedIn(u))
    <3>1. \A k \in Range(u) : Below(Followed(h), Followed(k))
      BY <1>1, <2>3, LenProperties DEF Range
    <3>. QED
      BY <3>1 DEF FollowedIn, Below
  <2>. QED
    BY <2>1, <2>2, <2>4 DEF ChunksRise
<1>. QED
  BY <1>1, <1>2, <1>3 DEF u, h

LEMMA Concatenated ==
    ASSUME NEW S, NEW s \in Seq(S), NEW t \in Seq(S)
    PROVE  /\ s \o t \in Seq(S) /\ Range(s \o t) = Range(s) \cup Range(t)
           /\ Len(s) \in Nat /\ Len(t) \in Nat /\ Len(s \o t) = Len(s) + Len(t)
           /\ \A i \in 1 .. Len(s) : (s \o t)[i] = s[i]
           /\ \A i \in 1 .. Len(s \o t) :
                \/ i \in 1 .. Len(s) /\ (s \o t)[i] = s[i]
                \/ i > Len(s) /\ i - Len(s) \in 1 .. Len(t) /\ (s \o t)[i] = t[i - Len(s)]
<1>. DEFINE u == s \o t
<1>1. /\ u \in Seq(S) /\ Len(s) \in Nat /\ Len(t) \in Nat /\ Len(u) = Len(s) + Len(t)
      /\ \A i \in 1 .. Len(s) + Len(t) : u[i] = IF i <= Len(s) THEN s[i] ELSE t[i - Len(s)]
  BY ConcatProperties, LenProperties
<1>. HIDE DEF u
<1>2. \A i \in 1 .. Len(s) : i \in 1 .. Len(u) /\ u[i] = s[i]
  BY <1>1
<1>3. ASSUME NEW i \in 1 .. Len(t)
      PROVE  i + Len(s) \in 1 .. Len(u) /\ u[i + Len(s)] = t[i]
  <2>1. /\ i + Len(s) \in 1 .. Len(s) + Len(t) /\ ~(i + Len(s) <= Len(s))
        /\ (i + Len(s)) - Len(s) = i
    BY <1>1
  <2>. QED
    BY <1>1, <2>1
<1>4. \A i \in 1 .. Len(u) : \/ i \in 1 .. Len(s) /\ u[i] = s[i]
                             \/ i > Len(s) /\ i - Len(s) \in 1 .. Len(t) /\ u[i] = t[i - Len(s)]
  BY <1>1
<1>5. DOMAIN s = 1 .. Len(s) /\ DOMAIN t = 1 .. Len(t) /\ DOMAIN u = 1 .. Len(u)
  BY <1>1, LenProperties
<1>6. Range(u) = Range(s) \cup Range(t)
  <2>1. \A x \in Range(u) : x \in Range(s) \cup Range(t)
    BY <1>4, <1>5 DEF Range
  <2>2. \A x \in Range(s) : x \in Range(u)
    BY <1>2, <1>5 DEF Range
  <2>3. \A x \in Range(t) : x \in Range(u)
    BY <1>3, <1>5 DEF Range
  <2>. QED
    BY <2>1, <2>2, <2>3
<1>. QED
  BY <1>1, <1>2, <1>4, <1>6 DEF u

LEMMA Joining ==
    ASSUME NEW s \in Seq(Nat), NEW t \in Seq(Nat), Rising(s), Rising(t),
           Below(Range(s), Range(t))
    PROVE  Rising(s \o t)
<1>. DEFINE u == s \o t
<1>1. /\ Len(s) \in Nat /\ Len(t) \in Nat /\ Len(u) = Len(s) + Len(t)
      /\ \A i \in 1 .. Len(s) : u[i] = s[i]
      /\ \A i \in 1 .. Len(u) : \/ i \in 1 .. Len(s) /\ u[i] = s[i]
                               \/ /\ i > Len(s) /\ i - Len(s) \in 1 .. Len(t)
                                  /\ u[i] = t[i - Len(s)]
  BY Concatenated
<1>. HIDE DEF u
<1>2. ASSUME NEW i \in 1 .. Len(u), NEW j \in 1 .. Len(u), i < j PROVE u[i] < u[j]
  <2>1. CASE j \in 1 .. Len(s)
    <3>1. i \in 1 .. Len(s)
      BY <1>1, <1>2, <2>1
    <3>2. s[i] < s[j]
      BY <1>2, <2>1, <3>1 DEF Rising
    <3>. QED
      BY <1>1, <2>1, <3>1, <3>2
  <2>2. CASE i \in 1 .. Len(s) /\ j > Len(s)
    <3>1. /\ s[i] \in Range(s) /\ t[j - Len(s)] \in Range(t)
          /\ u[i] = s[i] /\ u[j] = t[j - Len(s)]
      BY <1>1, <2>2, Elements
    <3>. QED
      BY <3>1 DEF Below
  <2>3. CASE i > Len(s) /\ j > Len(s)
    <3>1. /\ i - Len(s) \in 1 .. Len(t) /\ j - Len(s) \in 1 .. Len(t)
          /\ u[i] = t[i - Len(s)] /\ u[j] = t[j - Len(s)]
      <4>1. i \notin 1 .. Len(s) /\ j \notin 1 .. Len(s)
        BY <1>1, <2>3
      <4>. QED
        BY <1>1, <1>2, <4>1
    <3>2. i - Len(s) < j - Len(s)
      BY <1>1, <1>2, <2>3
    <3>. QED
      BY <3>1, <3>2 DEF Rising
  <2>. QED
    BY <1>1, <1>2, <2>1, <2>2, <2>3
<1>. QED
  BY <1>2 DEF Rising, u

\* A finite set has its elements in some order.
LEMMA Ordered ==
    ASSUME NEW S, IsFiniteSet(S)
    PROVE  Logs!SetToSeq(S) \in Seq(S)
<1>1. Logs!Cardinality(S) = Cardinality(S)
  BY DEF Logs!Cardinality, Cardinality
<1>2. Cardinality(S) \in Nat /\ ExistsBijection(1 .. Cardinality(S), S)
  BY FS_CardinalityType
<1>3. PICK f \in Bijection(1 .. Cardinality(S), S) : TRUE
  BY <1>2 DEF ExistsBijection
<1>4. f \in [1 .. Cardinality(S) -> S] /\ Logs!IsInjective(f)
  BY <1>3 DEF Bijection, Injection, IsInjective, Logs!IsInjective
<1>5. Logs!SetToSeq(S) \in [1 .. Cardinality(S) -> S]
  BY <1>1, <1>4 DEF Logs!SetToSeq
<1>. QED
  BY <1>2, <1>5, SeqDef

\* The lines are numbered as they are written, and the files hold none else.
FilesHold ==
    /\ lines \in Nat /\ file \in [LogNames -> LogFile] /\ zips \in Seq({"old", "log"})
    /\ zipping \in BOOLEAN /\ (zipping => zips # <<>>)
    /\ \A n \in LogNames : \A x \in Range(file[n].lines) : x >= 1 /\ x <= lines
    /\ Rising(file["log"].lines)

\* What a step may do to the active log: grow by the newest line, or be emptied.
\* It may go, and does not come back.
LogMoves ==
    /\ file'["log"].there => file["log"].there
    /\ \/ lines' = lines /\ file'["log"].lines \in {file["log"].lines, <<>>}
       \/ lines' = lines + 1 /\ file'["log"].lines = Append(file["log"].lines, lines + 1)

LEMMA FilesStart == Logs!Init => FilesHold
<1>. SUFFICES ASSUME Logs!Init PROVE FilesHold
  OBVIOUS
<1>1. Logs!Range(Logs!Names) = LogNames
  BY DEF Logs!Range, Logs!Names, LogNames
<1>2. /\ lines = 0 /\ zips = <<>> /\ zipping = FALSE
      /\ file = [n \in LogNames |-> IF n = "log" THEN Logs!File(<<>>) ELSE Logs!Absent]
  BY <1>1 DEF Logs!Init
<1>3. Logs!File(<<>>) \in LogFile /\ Logs!Absent \in LogFile
  BY DEF Logs!File, Logs!Absent, LogFile
<1>4. \A n \in LogNames : file[n] \in LogFile /\ file[n].lines = <<>>
  BY <1>2, <1>3 DEF Logs!File, Logs!Absent
<1>5. Range(<<>>) = {} /\ Rising(<<>>) /\ "log" \in LogNames
  BY DEF Range, Rising, LogNames
<1>6. file \in [LogNames -> LogFile]
  BY <1>2, <1>3
<1>7. \A n \in LogNames : Range(file[n].lines) = {}
  BY <1>4, <1>5
<1>8. Rising(file["log"].lines) /\ <<>> \in Seq({"old", "log"})
  BY <1>4, <1>5
<1>. QED
  BY <1>2, <1>6, <1>7, <1>8 DEF FilesHold

\* One file is replaced by another with lines of the server.
LEMMA FileReplaced ==
    ASSUME FilesHold, NEW n \in LogNames, NEW g \in LogFile,
           \A x \in Range(g.lines) : x >= 1 /\ x <= lines,
           n = "log" => /\ g.lines \in {file["log"].lines, <<>>}
                        /\ g.there => file["log"].there,
           NEW h \in [LogNames -> LogFile], h = [file EXCEPT ![n] = g]
    PROVE  /\ \A k \in LogNames : \A x \in Range(h[k].lines) : x >= 1 /\ x <= lines
           /\ Rising(h["log"].lines) /\ (h["log"].there => file["log"].there)
           /\ h["log"].lines \in {file["log"].lines, <<>>}
<1>1. \A k \in LogNames : h[k] = IF k = n THEN g ELSE file[k]
  BY DEF FilesHold
<1>2. \A k \in LogNames : \A x \in Range(file[k].lines) : x >= 1 /\ x <= lines
  BY DEF FilesHold
<1>3. Rising(<<>>) /\ Rising(file["log"].lines) /\ "log" \in LogNames
  BY DEF Rising, FilesHold, LogNames
<1>. QED
  BY <1>1, <1>2, <1>3

LEMMA WriteLineKeeps == ASSUME FilesHold, Logs!WriteLine PROVE FilesHold' /\ LogMoves
<1>. DEFINE g == [file["log"] EXCEPT !.lines = Append(@, lines + 1)]
<1>1. /\ lines' = lines + 1 /\ file' = [file EXCEPT !["log"] = g]
      /\ UNCHANGED <<zips, zipping>>
  BY DEF Logs!WriteLine
<1>2. lines \in Nat /\ lines + 1 \in Nat /\ "log" \in LogNames /\ file["log"] \in LogFile
  BY DEF FilesHold, LogNames
<1>3. file["log"].lines \in Seq(Nat)
  BY <1>2 DEF LogFile
<1>4. /\ Append(file["log"].lines, lines + 1) \in Seq(Nat)
      /\ Range(Append(file["log"].lines, lines + 1)) = Range(file["log"].lines) \cup {lines + 1}
  BY <1>2, <1>3, Joined
<1>5. /\ g \in LogFile /\ g.lines = Append(file["log"].lines, lines + 1)
      /\ g.there = file["log"].there
  BY <1>2, <1>4 DEF LogFile
<1>. HIDE DEF g
<1>6. /\ file' \in [LogNames -> LogFile]
      /\ \A k \in LogNames : file'[k] = IF k = "log" THEN g ELSE file[k]
  BY <1>1, <1>5 DEF FilesHold
<1>7. \A k \in LogNames : \A x \in Range(file[k].lines) : x >= 1 /\ x <= lines
  BY DEF FilesHold
<1>8. \A k \in LogNames : Range(file[k].lines) \in SUBSET Nat
  <2>1. \A k \in LogNames : file[k].lines \in Seq(Nat)
    BY DEF FilesHold, LogFile
  <2>. QED
    BY <2>1, Elements
<1>9. \A k \in LogNames : \A x \in Range(file'[k].lines) : x >= 1 /\ x <= lines + 1
  <2>1. \A x \in Nat : x <= lines => x <= lines + 1
    BY <1>2
  <2>2. lines + 1 >= 1 /\ lines + 1 <= lines + 1
    BY <1>2
  <2>. QED
    BY <1>2, <1>4, <1>5, <1>6, <1>7, <1>8, <2>1, <2>2
<1>10. Rising(file'["log"].lines)
  <2>1. \A x \in Nat : x <= lines => x < lines + 1
    BY <1>2
  <2>2. Below(Range(file["log"].lines), {lines + 1})
    BY <1>2, <1>7, <1>8, <2>1 DEF Below
  <2>3. Rising(file["log"].lines)
    BY DEF FilesHold
  <2>. QED
    BY <1>2, <1>3, <1>5, <1>6, <2>2, <2>3, StillRising
<1>11. FilesHold'
  BY <1>1, <1>2, <1>6, <1>9, <1>10 DEF FilesHold
<1>. QED
  BY <1>1, <1>2, <1>5, <1>6, <1>11 DEF LogMoves

LEMMA RotationKeeps ==
    ASSUME FilesHold, Logs!RotateCopy \/ Logs!RotateTruncate PROVE FilesHold' /\ LogMoves
<1>0. /\ lines \in Nat /\ "log" \in LogNames /\ "old" \in LogNames /\ "old" # "log"
      /\ file \in [LogNames -> LogFile]
      /\ \A x \in Range(file["log"].lines) : x >= 1 /\ x <= lines
  BY DEF FilesHold, LogNames
<1>1. file["log"].lines \in Seq(Nat) /\ <<>> \in Seq(Nat) /\ Range(<<>>) = {}
  BY <1>0 DEF LogFile, Range
<1>2. CASE Logs!RotateCopy
  <2>. DEFINE g == Logs!File(file["log"].lines)
  <2>1. file' = [file EXCEPT !["old"] = g] /\ UNCHANGED <<lines, zips, zipping>>
    BY <1>2 DEF Logs!RotateCopy
  <2>2. g \in LogFile /\ g.lines = file["log"].lines
    BY <1>1 DEF Logs!File, LogFile
  <2>. HIDE DEF g
  <2>3. file' \in [LogNames -> LogFile]
    BY <1>0, <2>1, <2>2
  <2>4. /\ \A k \in LogNames : \A x \in Range(file'[k].lines) : x >= 1 /\ x <= lines
        /\ Rising(file'["log"].lines) /\ (file'["log"].there => file["log"].there)
        /\ file'["log"].lines \in {file["log"].lines, <<>>}
    BY <1>0, <2>1, <2>2, <2>3, FileReplaced
  <2>. QED
    BY <2>1, <2>3, <2>4 DEF FilesHold, LogMoves
<1>3. CASE Logs!RotateTruncate /\ file["log"].there
  <2>. DEFINE g == [file["log"] EXCEPT !.lines = <<>>]
  <2>1. file' = [file EXCEPT !["log"] = g] /\ UNCHANGED <<lines, zips, zipping>>
    BY <1>3 DEF Logs!RotateTruncate
  <2>2. g \in LogFile /\ g.lines = <<>>
    BY <1>0, <1>1 DEF LogFile
  <2>. HIDE DEF g
  <2>3. file' \in [LogNames -> LogFile]
    BY <1>0, <2>1, <2>2
  <2>4. /\ \A k \in LogNames : \A x \in Range(file'[k].lines) : x >= 1 /\ x <= lines
        /\ Rising(file'["log"].lines) /\ (file'["log"].there => file["log"].there)
        /\ file'["log"].lines \in {file["log"].lines, <<>>}
    BY <1>0, <1>1, <1>3, <2>1, <2>2, <2>3, FileReplaced
  <2>. QED
    BY <2>1, <2>3, <2>4 DEF FilesHold, LogMoves
<1>4. CASE Logs!RotateTruncate /\ ~file["log"].there
  BY <1>4 DEF Logs!RotateTruncate, FilesHold, LogMoves
<1>. QED
  BY <1>2, <1>3, <1>4

LEMMA ZipKeeps ==
    ASSUME FilesHold, Logs!ZipStart \/ Logs!ZipEnd PROVE FilesHold' /\ LogMoves
<1>0. /\ lines \in Nat /\ "log" \in LogNames /\ file \in [LogNames -> LogFile]
      /\ \A k \in LogNames : \A x \in Range(file[k].lines) : x >= 1 /\ x <= lines
      /\ zips \in Seq({"old", "log"}) /\ zips # <<>>
  BY DEF FilesHold, LogNames, Logs!ZipStart, Logs!ZipEnd
<1>. DEFINE n == Head(zips)
            z == Logs!Gz(n)
<1>1. n \in {"old", "log"} /\ Tail(zips) \in Seq({"old", "log"})
  BY <1>0, LeftFirst
<1>2. n \in LogNames /\ z \in {"old.gz", "log.gz"} /\ z \in LogNames /\ z # "log" /\ n # z
  BY <1>1 DEF Logs!Gz, LogNames
<1>3. \A k \in LogNames : file[k] \in LogFile /\ file[k].lines \in Seq(Nat)
  BY <1>0 DEF LogFile
<1>4. CASE Logs!ZipStart /\ file[n].there
  <2>. DEFINE g == [Logs!File(file[n].lines) EXCEPT !.whole = FALSE]
  <2>1. file' = [file EXCEPT ![z] = g] /\ zips' = zips /\ zipping' = TRUE /\ lines' = lines
    BY <1>4 DEF Logs!ZipStart
  <2>2. g \in LogFile /\ g.lines = file[n].lines
    BY <1>2, <1>3 DEF Logs!File, LogFile
  <2>. HIDE DEF g, n, z
  <2>3. file' \in [LogNames -> LogFile]
    BY <1>0, <1>2, <2>1, <2>2
  <2>4. /\ \A k \in LogNames : \A x \in Range(file'[k].lines) : x >= 1 /\ x <= lines
        /\ Rising(file'["log"].lines) /\ (file'["log"].there => file["log"].there)
        /\ file'["log"].lines \in {file["log"].lines, <<>>}
    BY <1>0, <1>2, <2>1, <2>2, <2>3, FileReplaced
  <2>. QED
    BY <1>0, <2>1, <2>3, <2>4 DEF FilesHold, LogMoves
<1>5. CASE Logs!ZipStart /\ ~file[n].there
  BY <1>1, <1>5 DEF Logs!ZipStart, FilesHold, LogMoves
<1>6. CASE Logs!ZipEnd
  <2>. DEFINE g == [file[z] EXCEPT !.whole = TRUE]
              f == [file EXCEPT ![n] = Logs!Absent]
  <2>1. /\ file' = [file EXCEPT ![n] = Logs!Absent, ![z].whole = TRUE]
        /\ zips' = Tail(zips) /\ zipping' = FALSE /\ lines' = lines
    BY <1>6 DEF Logs!ZipEnd
  <2>2. /\ g \in LogFile /\ g.lines = file[z].lines
        /\ Logs!Absent \in LogFile /\ Logs!Absent.lines = <<>> /\ ~Logs!Absent.there
    <3>1. file[z] \in LogFile /\ <<>> \in Seq(Nat)
      BY <1>2, <1>3, EmptySeq
    <3>2. g \in LogFile /\ g.lines = file[z].lines
      <4>. HIDE DEF z
      <4>. QED
        BY <3>1 DEF LogFile
    <3>3. Logs!Absent \in LogFile /\ Logs!Absent.lines = <<>> /\ ~Logs!Absent.there
      BY <3>1 DEF Logs!Absent, LogFile
    <3>. QED
      BY <3>2, <3>3
  <2>3. \A k \in LogNames : file'[k] = IF k = z THEN g ELSE IF k = n THEN Logs!Absent ELSE file[k]
    <3>. HIDE DEF n, z
    <3>. QED
      BY <1>0, <1>2, <2>1
  <2>4. file' \in [LogNames -> LogFile]
    <3>1. file' = [f EXCEPT ![z] = [f[z] EXCEPT !.whole = TRUE]] /\ f[z] = file[z]
      <4>. HIDE DEF n, z
      <4>. QED
        BY <1>0, <1>2, <2>1
    <3>2. f \in [LogNames -> LogFile]
      <4>. HIDE DEF n
      <4>. QED
        BY <1>0, <1>2, <2>2
    <3>. HIDE DEF f, z
    <3>. QED
      BY <1>2, <2>2, <3>1, <3>2
  <2>. HIDE DEF g, n, z
  <2>5. Range(<<>>) = {} /\ Rising(<<>>) /\ Rising(file["log"].lines)
    BY DEF Range, Rising, FilesHold
  <2>6. \A k \in LogNames : \A x \in Range(file'[k].lines) : x >= 1 /\ x <= lines
    BY <1>0, <1>2, <2>2, <2>3, <2>5
  <2>7. /\ Rising(file'["log"].lines) /\ (file'["log"].there => file["log"].there)
        /\ file'["log"].lines \in {file["log"].lines, <<>>}
    BY <1>0, <1>2, <2>2, <2>3, <2>5
  <2>. QED
    BY <1>1, <2>1, <2>4, <2>6, <2>7 DEF FilesHold, LogMoves
<1>. QED
  BY <1>4, <1>5, <1>6

LEMMA RestOfFilesKeeps ==
    ASSUME FilesHold, Logs!Stop \/ Logs!Sweep \/ Logs!Expire \/ Logs!AgentRestarts
    PROVE  FilesHold' /\ LogMoves
<1>1. CASE Logs!Stop \/ Logs!Sweep \/ Logs!AgentRestarts
  <2>1. /\ UNCHANGED <<lines, file>> /\ zipping' \in {zipping, FALSE}
        /\ zipping' => zips' # <<>>
    <3>1. CASE Logs!Stop
      <4>1. zips' = <<"old", "log">> /\ UNCHANGED <<lines, file, zipping>>
        BY <3>1 DEF Logs!Stop
      <4>2. <<"old", "log">> # <<>>
        OBVIOUS
      <4>. QED
        BY <4>1, <4>2
    <3>2. CASE Logs!Sweep
      BY <3>2 DEF Logs!Sweep, FilesHold
    <3>3. CASE Logs!AgentRestarts
      BY <3>3 DEF Logs!AgentRestarts
    <3>. QED
      BY <1>1, <3>1, <3>2, <3>3
  <2>2. zips' \in Seq({"old", "log"})
    <3>1. CASE Logs!Stop
      <4>1. zips' = <<"old", "log">>
        BY <3>1 DEF Logs!Stop
      <4>. QED
        BY <4>1
    <3>2. CASE Logs!Sweep
      <4>1. zips' = Logs!SetToSeq(Logs!Unswept)
        BY <3>2 DEF Logs!Sweep
      <4>2. IsFiniteSet(Logs!Unswept) /\ Logs!Unswept \subseteq {"old", "log"}
        <5>1. IsFiniteSet({"old", "log"})
          <6>1. IsFiniteSet({"old"}) /\ {"old", "log"} = {"old"} \cup {"log"}
            BY FS_Singleton
          <6>. QED
            BY <6>1, FS_AddElement
        <5>. QED
          BY <5>1, FS_Subset DEF Logs!Unswept
      <4>. QED
        BY <4>1, <4>2, Ordered, SeqMonotonic
    <3>3. CASE Logs!AgentRestarts
      BY <3>3, EmptySeq DEF Logs!AgentRestarts
    <3>. QED
      BY <1>1, <3>1, <3>2, <3>3
  <2>. QED
    BY <2>1, <2>2 DEF FilesHold, LogMoves
<1>2. CASE Logs!Expire
  <2>1. Logs!Range(Logs!Names) = LogNames
    BY DEF Logs!Range, Logs!Names, LogNames
  <2>2. file' = [n \in LogNames |-> Logs!Absent] /\ UNCHANGED <<lines, zips, zipping>>
    BY <1>2, <2>1 DEF Logs!Expire
  <2>3. Logs!Absent \in LogFile /\ Logs!Absent.lines = <<>> /\ ~Logs!Absent.there
    BY DEF Logs!Absent, LogFile
  <2>4. Range(<<>>) = {} /\ Rising(<<>>) /\ "log" \in LogNames
    BY DEF Range, Rising, LogNames
  <2>5. file' \in [LogNames -> LogFile] /\ \A n \in LogNames : file'[n] = Logs!Absent
    BY <2>2, <2>3
  <2>6. /\ \A n \in LogNames : \A x \in Range(file'[n].lines) : x >= 1 /\ x <= lines
        /\ Rising(file'["log"].lines) /\ ~file'["log"].there /\ file'["log"].lines = <<>>
    BY <2>3, <2>4, <2>5
  <2>. QED
    BY <2>2, <2>5, <2>6 DEF FilesHold, LogMoves
<1>. QED
  BY <1>1, <1>2

\* What is yet to be read of a log of which the first o lines are read, or which
\* has shrunk since, comes after the numbers of S.
Ahead(s, o, S) == \A i \in 1 .. Len(s) : i > o \/ Len(s) < o => \A y \in S : y < s[i]

LEMMA AheadStays ==
    ASSUME NEW s \in Seq(Nat), NEW o \in Nat, NEW S \in SUBSET Nat, NEW l \in Nat,
           \A y \in S : y <= l, Ahead(s, o, S)
    PROVE  Ahead(<<>>, o, S) /\ Ahead(Append(s, l + 1), o, S)
<1>1. Ahead(<<>>, o, S)
  BY DEF Ahead
<1>. DEFINE u == Append(s, l + 1)
<1>2. /\ Len(s) \in Nat /\ Len(u) = Len(s) + 1 /\ u[Len(s) + 1] = l + 1
      /\ \A i \in 1 .. Len(s) : u[i] = s[i]
  BY AppendProperties, LenProperties
<1>. HIDE DEF u
<1>3. \A y \in S : y < l + 1
  OBVIOUS
<1>4. \A i \in 1 .. Len(u) : i \in 1 .. Len(s) \/ i = Len(s) + 1
  BY <1>2
<1>5. Len(u) < o => Len(s) < o
  BY <1>2
<1>6. Ahead(u, o, S)
  BY <1>2, <1>3, <1>4, <1>5 DEF Ahead
<1>. QED
  BY <1>1, <1>6 DEF u

\* The followed lines that have left the tail.
Seen == Range(shown) \cup FollowedIn(routed) \cup FollowedIn(chunks)

PathRises ==
    /\ chunks \in Seq(LogChunk) /\ routed \in Seq(LogChunk) /\ shown \in Seq(Nat)
    /\ ChunksRise(chunks) /\ ChunksRise(routed) /\ Rising(shown)
    /\ Below(Range(shown), FollowedIn(routed))
    /\ Below(Range(shown) \cup FollowedIn(routed), FollowedIn(chunks))

\* One tail is ever asked for.
CommandsHold ==
    /\ cmds \in Seq(LogCommand)
    /\ \A i \in 1 .. Len(cmds) : ~cmds[i].cancel => i = 1 /\ tail.st = "none"
    /\ client = "idle" => cmds = <<>> /\ tail.st = "none"

\* Nothing is followed before the backlog is out.  The active log is the last of
\* the backlog; it was there if it is there, and what it holds beyond the offset
\* comes after all that was handed on.
TailHolds ==
    /\ tail \in TailState
    /\ tail.backlog <= lines /\ \A x \in Range(tail.ring) : x <= lines
    /\ \A y \in Seen : 1 <= y /\ y <= lines /\ tail.backlog < y
    /\ tail.st \in {"none", "list", "read"} => Seen = {}
    /\ tail.st = "list" => tail.offset = -1
    /\ tail.st = "read" /\ tail.offset # -1 =>
         ~tail.lastOnly /\ tail.todo = {} /\ Ahead(file["log"].lines, tail.offset, {tail.backlog})
    /\ tail.st = "read" /\ tail.offset = -1 /\ ~tail.lastOnly /\ file["log"].there =>
         4 \in tail.todo
    /\ tail.st = "grown" => tail.offset # -1
    /\ tail.st \in {"follow", "grown"} /\ file["log"].there =>
         /\ tail.offset # -1
         /\ Ahead(file["log"].lines, tail.offset, Seen \cup {tail.backlog})

LogInv == FilesHold /\ PathRises /\ CommandsHold /\ TailHolds

LEMMA LogsStart == Logs!Init => LogInv
<1>. SUFFICES ASSUME Logs!Init PROVE LogInv
  OBVIOUS
<1>1. /\ lines = 0 /\ cmds = <<>> /\ tail = Logs!NoTail /\ chunks = <<>> /\ routed = <<>>
      /\ client = "idle" /\ shown = <<>>
  BY DEF Logs!Init
<1>2. /\ tail \in TailState /\ tail.st = "none" /\ tail.backlog = 0 /\ tail.ring = <<>>
  BY <1>1 DEF Logs!NoTail, TailState
<1>3. /\ Range(<<>>) = {} /\ Rising(<<>>) /\ FollowedIn(<<>>) = {} /\ ChunksRise(<<>>)
  BY DEF Range, Rising, FollowedIn, ChunksRise
<1>4. Seen = {}
  BY <1>1, <1>3 DEF Seen
<1>5. PathRises
  BY <1>1, <1>3, EmptySeq DEF PathRises, Below
<1>6. CommandsHold
  BY <1>1, <1>2, EmptySeq DEF CommandsHold
<1>7. TailHolds
  BY <1>1, <1>2, <1>3, <1>4 DEF TailHolds
<1>. QED
  BY <1>5, <1>6, <1>7, FilesStart DEF LogInv

LEMMA SeenNumbers == ASSUME PathRises PROVE Seen \in SUBSET Nat
<1>1. \A c \in LogChunk : Followed(c) \in SUBSET Nat
  <2>1. \A c \in LogChunk : c.lines \in Seq(Nat)
    BY DEF LogChunk
  <2>. QED
    BY <2>1, Elements DEF Followed
<1>2. Range(chunks) \subseteq LogChunk /\ Range(routed) \subseteq LogChunk
  BY Elements DEF PathRises
<1>3. Range(shown) \in SUBSET Nat
  BY Elements DEF PathRises
<1>. QED
  BY <1>1, <1>2, <1>3 DEF Seen, FollowedIn

\* The files go their way.
LEMMA FilesMove ==
    ASSUME LogInv, FilesHold', LogMoves,
           UNCHANGED <<cmds, tail, chunks, routed, client, shown>>
    PROVE  LogInv'
<1>0. FilesHold /\ PathRises /\ CommandsHold /\ TailHolds
  BY DEF LogInv
<1>1. PathRises' /\ CommandsHold' /\ Seen' = Seen
  BY <1>0 DEF PathRises, CommandsHold, Seen
<1>2. lines \in Nat /\ lines' \in {lines, lines + 1} /\ Seen \in SUBSET Nat
  BY <1>0, SeenNumbers DEF FilesHold, LogMoves
<1>3. tail \in TailState /\ tail.backlog \in Nat /\ tail.ring \in Seq(Nat)
  BY <1>0 DEF TailHolds, TailState
<1>4. \A y \in Nat : y <= lines => y <= lines'
  BY <1>2
<1>5. file["log"].lines \in Seq(Nat)
  BY <1>0 DEF FilesHold, LogFile, LogNames
<1>6. ASSUME NEW S \in SUBSET Nat, \A y \in S : y <= lines, tail.offset # -1,
             Ahead(file["log"].lines, tail.offset, S)
      PROVE  Ahead(file'["log"].lines, tail.offset, S)
  <2>1. tail.offset \in Nat
    BY <1>3, <1>6 DEF TailState
  <2>2. /\ Ahead(<<>>, tail.offset, S)
        /\ Ahead(Append(file["log"].lines, lines + 1), tail.offset, S)
    BY <1>2, <1>5, <1>6, <2>1, AheadStays
  <2>. QED
    BY <1>6, <2>2 DEF LogMoves
<1>7. \A x \in Range(tail.ring) : x <= lines'
  <2>1. Range(tail.ring) \in SUBSET Nat
    BY <1>3, Elements
  <2>. QED
    BY <1>0, <1>4, <2>1 DEF TailHolds
<1>8. file'["log"].there => file["log"].there
  BY DEF LogMoves
<1>9. /\ tail.st = "read" /\ tail.offset # -1 =>
           Ahead(file'["log"].lines, tail.offset, {tail.backlog})
      /\ tail.st \in {"follow", "grown"} /\ file'["log"].there =>
           Ahead(file'["log"].lines, tail.offset, Seen \cup {tail.backlog})
  <2>1. /\ {tail.backlog} \in SUBSET Nat /\ Seen \cup {tail.backlog} \in SUBSET Nat
        /\ \A y \in Seen \cup {tail.backlog} : y <= lines
    BY <1>0, <1>2, <1>3 DEF TailHolds
  <2>. QED
    BY <1>0, <1>6, <1>8, <2>1 DEF TailHolds
<1>10. TailHolds'
  BY <1>0, <1>1, <1>2, <1>3, <1>4, <1>7, <1>8, <1>9 DEF TailHolds
<1>. QED
  BY <1>1, <1>10 DEF LogInv

LEMMA Emitted ==
    ASSUME PathRises, NEW ls \in Seq(Nat), NEW f \in BOOLEAN, Logs!Emits(ls, f),
           UNCHANGED <<routed, shown>>, f => Rising(ls) /\ Below(Seen, Range(ls))
    PROVE  PathRises' /\ Seen' = Seen \cup (IF f THEN Range(ls) ELSE {})
<1>. DEFINE c == Logs!Chunk(ls, f)
<1>1. c \in LogChunk /\ c.followed = f /\ c.lines = ls
  BY DEF Logs!Chunk, LogChunk
<1>. HIDE DEF c
<1>2. Followed(c) = IF f THEN Range(ls) ELSE {}
  BY <1>1 DEF Followed
<1>3. CASE ls = <<>> /\ chunks' = chunks
  <2>1. Range(ls) = {}
    BY <1>3 DEF Range
  <2>. QED
    BY <1>3, <2>1 DEF PathRises, Seen
<1>4. CASE chunks' = Append(chunks, c)
  <2>1. /\ chunks' \in Seq(LogChunk)
        /\ FollowedIn(chunks') = FollowedIn(chunks) \cup Followed(c)
        /\ /\ ChunksRise(chunks) /\ (c.followed => Rising(c.lines))
           /\ Below(FollowedIn(chunks), Followed(c))
           => ChunksRise(chunks')
    BY <1>1, <1>4, ChunkJoins DEF PathRises
  <2>2. Below(Seen, Followed(c))
    BY <1>2 DEF Below
  <2>3. ChunksRise(chunks')
    BY <1>1, <2>1, <2>2 DEF PathRises, Seen, Below
  <2>4. Below(Range(shown) \cup FollowedIn(routed), FollowedIn(chunks'))
    BY <2>1, <2>2 DEF PathRises, Seen, Below
  <2>5. Seen' = Seen \cup Followed(c)
    BY <2>1 DEF Seen
  <2>. QED
    BY <1>2, <2>1, <2>3, <2>4, <2>5 DEF PathRises
<1>. QED
  BY <1>3, <1>4 DEF Logs!Emits, c

\* The tail moves, what has left it does not.
LEMMA TailMoves ==
    ASSUME LogInv, UNCHANGED <<lines, file, zips, zipping, cmds, chunks, routed, client, shown>>,
           tail' \in TailState, tail.st # "none", tail'.st # "none",
           tail'.backlog = tail.backlog, tail'.ring \in {tail.ring, <<>>},
           \/ tail'.st \in {"eof", "done"}
           \/ /\ tail'.st = tail.st /\ tail'.offset = tail.offset /\ tail'.todo = tail.todo
              /\ tail'.lastOnly = tail.lastOnly
    PROVE  LogInv'
<1>0. FilesHold /\ PathRises /\ CommandsHold /\ TailHolds
  BY DEF LogInv
<1>1. UNCHANGED <<lines, file, zips, zipping>>
  OBVIOUS
<1>2. FilesHold' /\ PathRises' /\ Seen' = Seen
  BY <1>0, <1>1 DEF FilesHold, PathRises, Seen
<1>3. CommandsHold'
  BY <1>0 DEF CommandsHold
<1>4. Range(<<>>) = {}
  BY DEF Range
<1>5. /\ tail' \in TailState /\ tail'.backlog <= lines' /\ \A x \in Range(tail'.ring) : x <= lines'
      /\ \A y \in Seen' : 1 <= y /\ y <= lines' /\ tail'.backlog < y
  BY <1>0, <1>1, <1>2, <1>4 DEF TailHolds
<1>6. ASSUME tail'.st \in {"eof", "done"} PROVE TailHolds'
  BY <1>5, <1>6 DEF TailHolds
<1>7. ASSUME tail'.st = tail.st /\ tail'.offset = tail.offset /\ tail'.todo = tail.todo,
             tail'.lastOnly = tail.lastOnly
      PROVE  TailHolds'
  BY <1>0, <1>1, <1>2, <1>5, <1>7 DEF TailHolds
<1>8. TailHolds'
  BY <1>6, <1>7
<1>. QED
  BY <1>2, <1>3, <1>8 DEF LogInv

LEMMA TakeCommandKeeps == ASSUME LogInv, Logs!TakeCommand PROVE LogInv'
<1>0. FilesHold /\ PathRises /\ CommandsHold /\ TailHolds /\ tail \in TailState
  BY DEF LogInv, TailHolds
<1>1. /\ cmds # <<>> /\ cmds' = Tail(cmds)
      /\ UNCHANGED <<lines, file, zips, zipping, chunks, routed, client, shown>>
  BY DEF Logs!TakeCommand, Logs!fileVars, Logs!pathVars
<1>. DEFINE c == Head(cmds)
<1>2. /\ Tail(cmds) \in Seq(LogCommand) /\ c \in LogCommand /\ c = cmds[1]
      /\ Len(cmds) \in Nat \ {0} /\ Len(Tail(cmds)) = Len(cmds) - 1
      /\ \A i \in 1 .. Len(cmds) - 1 : Tail(cmds)[i] = cmds[i + 1]
  BY <1>0, <1>1, LeftFirst DEF CommandsHold
<1>3. \A i \in 1 .. Len(cmds') : cmds'[i].cancel
  <2>1. \A i \in 1 .. Len(cmds') : /\ i + 1 \in 1 .. Len(cmds) /\ i + 1 # 1
                                   /\ cmds'[i] = cmds[i + 1]
    BY <1>1, <1>2
  <2>. QED
    BY <1>0, <2>1 DEF CommandsHold
<1>4. client # "idle" /\ client' = client
  BY <1>0, <1>1 DEF CommandsHold
<1>5. CommandsHold'
  BY <1>1, <1>2, <1>3, <1>4 DEF CommandsHold
<1>6. FilesHold' /\ PathRises' /\ Seen' = Seen
  BY <1>0, <1>1 DEF FilesHold, PathRises, Seen
<1>7. CASE c.cancel
  <2>1. tail' = [tail EXCEPT !.cancelled = tail.cancelled \/ Logs!Tailing]
    BY <1>7 DEF Logs!TakeCommand
  <2>2. (tail.cancelled \/ Logs!Tailing) \in BOOLEAN
    OBVIOUS
  <2>3. /\ tail' \in TailState /\ tail'.st = tail.st /\ tail'.offset = tail.offset
        /\ tail'.todo = tail.todo /\ tail'.lastOnly = tail.lastOnly /\ tail'.ring = tail.ring
        /\ tail'.backlog = tail.backlog
    BY <1>0, <2>1, <2>2 DEF TailState
  <2>4. TailHolds'
    BY <1>0, <1>1, <1>6, <2>3 DEF TailHolds
  <2>. QED
    BY <1>5, <1>6, <2>4 DEF LogInv
<1>8. CASE ~c.cancel
  <2>1. tail' = [Logs!NoTail EXCEPT !.st = "list", !.follow = c.follow, !.lastOnly = c.lastOnly]
    BY <1>8 DEF Logs!TakeCommand
  <2>2. /\ tail' \in TailState /\ tail'.st = "list" /\ tail'.offset = -1
        /\ tail'.ring = <<>> /\ tail'.backlog = 0
    <3>1. c.follow \in BOOLEAN /\ c.lastOnly \in BOOLEAN
      BY <1>2 DEF LogCommand
    <3>. HIDE DEF c
    <3>2. Logs!NoTail \in TailState /\ Logs!NoTail.offset = -1 /\ Logs!NoTail.backlog = 0
      BY EmptySeq DEF TailState, Logs!NoTail
    <3>3. Logs!NoTail.ring = <<>>
      BY DEF Logs!NoTail
    <3>. QED
      BY <2>1, <3>1, <3>2, <3>3 DEF TailState
  <2>3. tail.st = "none" /\ Seen = {}
    BY <1>0, <1>2, <1>8 DEF CommandsHold, TailHolds
  <2>4. Range(<<>>) = {} /\ 0 <= lines
    BY <1>0 DEF Range, FilesHold
  <2>5. TailHolds'
    BY <1>1, <1>6, <2>2, <2>3, <2>4 DEF TailHolds
  <2>. QED
    BY <1>5, <1>6, <2>5 DEF LogInv
<1>. QED
  BY <1>7, <1>8

LEMMA Places ==
    /\ DOMAIN Logs!Names = 1 .. 4 /\ Logs!Names[4] = "log"
    /\ \A i \in 1 .. 4 : Logs!Names[i] \in LogNames /\ (Logs!Names[i] = "log" => i = 4)
<1>1. 1 .. 4 = {1, 2, 3, 4}
  OBVIOUS
<1>2. /\ DOMAIN Logs!Names = 1 .. 4
      /\ Logs!Names[1] = "old.gz" /\ Logs!Names[2] = "old" /\ Logs!Names[3] = "log.gz"
      /\ Logs!Names[4] = "log"
  BY DEF Logs!Names
<1>. QED
  BY <1>1, <1>2 DEF LogNames

LEMMA FirstPlace ==
    ASSUME NEW S \in SUBSET (1 .. 4), S # {}
    PROVE  Logs!Min(S) \in S /\ (Logs!Min(S) = 4 => S = {4})
<1>1. \E x \in S : \A y \in S : x <= y
  <2>1. CASE 1 \in S
    BY <2>1
  <2>2. CASE 1 \notin S /\ 2 \in S
    <3>1. \A y \in S : 2 <= y
      BY <2>2
    <3>. QED
      BY <2>2, <3>1
  <2>3. CASE 1 \notin S /\ 2 \notin S /\ 3 \in S
    <3>1. \A y \in S : 3 <= y
      BY <2>3
    <3>. QED
      BY <2>3, <3>1
  <2>4. CASE 1 \notin S /\ 2 \notin S /\ 3 \notin S
    <3>1. \A y \in S : y = 4
      BY <2>4
    <3>2. PICK x \in S : TRUE
      OBVIOUS
    <3>3. 4 \in S /\ \A y \in S : 4 <= y
      BY <3>1, <3>2
    <3>. QED
      BY <3>3
  <2>. QED
    BY <2>1, <2>2, <2>3, <2>4
<1>2. Logs!Min(S) \in S /\ \A y \in S : Logs!Min(S) <= y
  BY <1>1 DEF Logs!Min
<1>3. \A y \in 1 .. 4 : 4 <= y => y = 4
  OBVIOUS
<1>. QED
  BY <1>2, <1>3

LEMMA ListKeeps == ASSUME LogInv, Logs!List PROVE LogInv'
<1>0. FilesHold /\ PathRises /\ CommandsHold /\ TailHolds /\ tail \in TailState
  BY DEF LogInv, TailHolds
<1>. DEFINE found == {i \in DOMAIN Logs!Names : file[Logs!Names[i]].there}
            st == IF found = {} /\ ~tail.follow THEN "eof" ELSE "read"
<1>1. /\ tail.st = "list" /\ tail' = [tail EXCEPT !.st = st, !.todo = found]
      /\ UNCHANGED <<lines, file, zips, zipping, cmds, chunks, routed, client, shown>>
  BY DEF Logs!List, Logs!fileVars, Logs!pathVars
<1>2. found \in SUBSET (1 .. 4) /\ (file["log"].there => 4 \in found)
  BY Places
<1>3. st \in {"eof", "read"}
  OBVIOUS
<1>. HIDE DEF found, st
<1>4. /\ tail' \in TailState /\ tail'.st = st /\ tail'.todo = found
      /\ tail'.offset = tail.offset /\ tail'.lastOnly = tail.lastOnly
      /\ tail'.ring = tail.ring /\ tail'.backlog = tail.backlog
  BY <1>0, <1>1, <1>2, <1>3 DEF TailState
<1>5. FilesHold' /\ PathRises' /\ CommandsHold' /\ Seen' = Seen
  BY <1>0, <1>1, <1>3, <1>4 DEF FilesHold, PathRises, CommandsHold, Seen
<1>6. TailHolds'
  BY <1>0, <1>1, <1>2, <1>3, <1>4, <1>5 DEF TailHolds
<1>. QED
  BY <1>5, <1>6 DEF LogInv

LEMMA LastLine ==
    ASSUME FilesHold, NEW n \in LogNames, file[n].lines # <<>>
    PROVE  /\ Logs!Last(file[n].lines) \in Nat /\ Logs!Last(file[n].lines) <= lines
           /\ <<Logs!Last(file[n].lines)>> \in Seq(Nat)
           /\ Range(<<Logs!Last(file[n].lines)>>) = {Logs!Last(file[n].lines)}
<1>. DEFINE s == file[n].lines
            x == Logs!Last(s)
<1>1. s \in Seq(Nat)
  BY DEF FilesHold, LogFile
<1>2. Len(s) \in 1 .. Len(s)
  BY <1>1, EmptySeq
<1>3. x \in Range(s) /\ x \in Nat
  BY <1>1, <1>2, Elements, ElementOfSeq DEF Logs!Last
<1>4. x <= lines
  BY <1>3 DEF FilesHold
<1>. HIDE DEF x, s
<1>5. <<x>> \in Seq(Nat) /\ Range(<<x>>) = {x}
  BY <1>3 DEF Range
<1>. QED
  BY <1>3, <1>4, <1>5 DEF x, s

LEMMA ReadSourceKeeps == ASSUME LogInv, Logs!ReadSource PROVE LogInv'
<1>0. FilesHold /\ PathRises /\ CommandsHold /\ TailHolds /\ tail \in TailState
  BY DEF LogInv, TailHolds
<1>. DEFINE i == Logs!Min(tail.todo)
            n == Logs!Names[i]
            f == file[n]
<1>1. /\ tail.st = "read" /\ tail.todo # {}
      /\ UNCHANGED <<lines, file, zips, zipping, cmds, routed, client, shown>>
  BY DEF Logs!ReadSource, Logs!fileVars
<1>2. /\ i \in tail.todo /\ i \in 1 .. 4 /\ (i = 4 => tail.todo = {4})
      /\ n \in LogNames /\ (n = "log" <=> i = 4)
  BY <1>0, <1>1, Places, FirstPlace DEF TailState
<1>3. /\ f \in LogFile /\ f.lines \in Seq(Nat) /\ Len(f.lines) \in Nat
  BY <1>0, <1>2, LenProperties DEF FilesHold, LogFile
<1>4. CASE ~f.there \/ ~f.whole
  <2>1. tail' = [tail EXCEPT !.st = "eof"] /\ chunks' = chunks
    BY <1>4 DEF Logs!ReadSource
  <2>2. /\ tail' \in TailState /\ tail'.st = "eof" /\ tail'.ring = tail.ring
        /\ tail'.backlog = tail.backlog
    BY <1>0, <2>1 DEF TailState
  <2>. QED
    BY <1>1, <2>1, <2>2, TailMoves
<1>5. CASE f.there /\ f.whole
  <2>. DEFINE ring == IF f.lines = <<>> THEN tail.ring ELSE <<Logs!Last(f.lines)>>
              back == IF tail.lastOnly \/ f.lines = <<>> THEN tail.backlog
                      ELSE Logs!Last(f.lines)
              off == IF n = "log" /\ ~tail.lastOnly THEN Len(f.lines) ELSE tail.offset
  <2>1. /\ tail' = [tail EXCEPT !.todo = tail.todo \ {i}, !.ring = ring, !.backlog = back,
                                !.offset = off]
        /\ chunks' = chunks \/ Logs!Emits(f.lines, FALSE)
    BY <1>5 DEF Logs!ReadSource
  <2>2. /\ ring \in Seq(Nat) /\ \A x \in Range(ring) : x <= lines
        /\ back \in Nat /\ back <= lines
    <3>1. /\ tail.ring \in Seq(Nat) /\ \A x \in Range(tail.ring) : x <= lines
          /\ tail.backlog \in Nat /\ tail.backlog <= lines
      BY <1>0 DEF TailHolds, TailState
    <3>2. f.lines # <<>> =>
            /\ Logs!Last(f.lines) \in Nat /\ Logs!Last(f.lines) <= lines
            /\ <<Logs!Last(f.lines)>> \in Seq(Nat)
            /\ Range(<<Logs!Last(f.lines)>>) = {Logs!Last(f.lines)}
      <4>. HIDE DEF n
      <4>. QED
        BY <1>0, <1>2, LastLine
    <3>. HIDE DEF f, n
    <3>. QED
      BY <3>1, <3>2
  <2>3. off \in Nat \cup {-1}
    BY <1>0, <1>3 DEF TailState
  <2>4. Seen = {} /\ PathRises' /\ Seen' = Seen
    <3>1. Seen = {}
      BY <1>0, <1>1 DEF TailHolds
    <3>2. CASE chunks' = chunks
      BY <1>0, <1>1, <3>1, <3>2 DEF PathRises, Seen
    <3>3. CASE Logs!Emits(f.lines, FALSE)
      <4>. HIDE DEF f
      <4>. QED
        BY <1>0, <1>1, <1>3, <3>1, <3>3, Emitted
    <3>. QED
      BY <2>1, <3>1, <3>2, <3>3
  <2>5. tail.offset = -1
    BY <1>0, <1>1 DEF TailHolds
  <2>6. /\ off # -1 => i = 4 /\ ~tail.lastOnly /\ off = Len(file["log"].lines)
        /\ off = -1 /\ ~tail.lastOnly => i # 4
    BY <1>2, <1>3, <2>5
  <2>. HIDE DEF ring, back, off, i, f, n
  <2>7. /\ tail' \in TailState /\ tail'.st = "read" /\ tail'.todo = tail.todo \ {i}
        /\ tail'.ring = ring /\ tail'.backlog = back /\ tail'.offset = off
        /\ tail'.lastOnly = tail.lastOnly
    BY <1>0, <1>1, <2>1, <2>2, <2>3 DEF TailState
  <2>8. Ahead(file["log"].lines, Len(file["log"].lines), {back})
    <3>1. file["log"].lines \in Seq(Nat)
      BY <1>0 DEF FilesHold, LogFile, LogNames
    <3>. QED
      BY <3>1, LenProperties DEF Ahead
  <2>9. TailHolds'
    BY <1>0, <1>1, <1>2, <2>2, <2>4, <2>6, <2>7, <2>8 DEF TailHolds
  <2>10. FilesHold' /\ CommandsHold'
    BY <1>0, <1>1, <2>7 DEF FilesHold, CommandsHold
  <2>. QED
    BY <2>4, <2>9, <2>10 DEF LogInv
<1>. QED
  BY <1>3, <1>4, <1>5 DEF LogFile

LEMMA BacklogDoneKeeps == ASSUME LogInv, Logs!BacklogDone PROVE LogInv'
<1>0. FilesHold /\ PathRises /\ CommandsHold /\ TailHolds /\ tail \in TailState
  BY DEF LogInv, TailHolds
<1>. DEFINE st == IF tail.follow THEN "follow" ELSE "eof"
            back == IF tail.lastOnly /\ tail.ring # <<>> THEN tail.ring[1] ELSE tail.backlog
            off == IF tail.lastOnly /\ file["log"].there THEN Len(file["log"].lines)
                   ELSE tail.offset
<1>1. /\ tail.st = "read" /\ tail.todo = {}
      /\ tail' = [tail EXCEPT !.st = st, !.backlog = back, !.offset = off]
      /\ chunks' = chunks \/ Logs!Emits(tail.ring, FALSE)
      /\ UNCHANGED <<lines, file, zips, zipping, cmds, routed, client, shown>>
  BY DEF Logs!BacklogDone, Logs!fileVars
<1>2. file["log"].lines \in Seq(Nat) /\ Len(file["log"].lines) \in Nat
  BY <1>0, LenProperties DEF FilesHold, LogFile, LogNames
<1>3. back \in Nat /\ back <= lines
  <2>1. CASE tail.ring = <<>>
    BY <1>0, <2>1 DEF TailHolds, TailState
  <2>2. CASE tail.ring # <<>>
    <3>1. tail.ring \in Seq(Nat) /\ 1 \in 1 .. Len(tail.ring)
      BY <1>0, <2>2, EmptySeq DEF TailState
    <3>2. tail.ring[1] \in Range(tail.ring) /\ tail.ring[1] \in Nat
      BY <3>1, Elements, ElementOfSeq
    <3>. QED
      BY <1>0, <3>2 DEF TailHolds, TailState
  <2>. QED
    BY <2>1, <2>2
<1>4. off \in Nat \cup {-1}
  BY <1>0, <1>2 DEF TailState
<1>5. Seen = {} /\ PathRises' /\ Seen' = Seen
  <2>1. Seen = {}
    BY <1>0, <1>1 DEF TailHolds
  <2>2. CASE chunks' = chunks
    BY <1>0, <1>1, <2>1, <2>2 DEF PathRises, Seen
  <2>3. CASE Logs!Emits(tail.ring, FALSE)
    <3>1. tail.ring \in Seq(Nat)
      BY <1>0 DEF TailState
    <3>. QED
      BY <1>0, <1>1, <2>1, <2>3, <3>1, Emitted
  <2>. QED
    BY <1>1, <2>1, <2>2, <2>3
<1>6. file["log"].there => off # -1 /\ Ahead(file["log"].lines, off, {back})
  <2>1. CASE tail.lastOnly /\ file["log"].there
    <3>1. off = Len(file["log"].lines)
      BY <2>1
    <3>. HIDE DEF off
    <3>. QED
      BY <1>2, <3>1 DEF Ahead
  <2>2. CASE ~tail.lastOnly /\ file["log"].there
    BY <1>0, <1>1, <2>2 DEF TailHolds
  <2>. QED
    BY <2>1, <2>2
<1>7. st \in {"follow", "eof"}
  OBVIOUS
<1>. HIDE DEF st, back, off
<1>8. /\ tail' \in TailState /\ tail'.st = st /\ tail'.ring = tail.ring
      /\ tail'.backlog = back /\ tail'.offset = off
  BY <1>0, <1>1, <1>3, <1>4, <1>7 DEF TailState
<1>9. {} \cup {back} = {back}
  OBVIOUS
<1>10. TailHolds'
  BY <1>0, <1>1, <1>3, <1>5, <1>6, <1>7, <1>8, <1>9 DEF TailHolds
<1>11. FilesHold' /\ CommandsHold'
  BY <1>0, <1>1, <1>7, <1>8 DEF FilesHold, CommandsHold
<1>. QED
  BY <1>5, <1>10, <1>11 DEF LogInv

LEMMA RestOfLog ==
    ASSUME NEW s \in Seq(Nat), Rising(s), NEW m \in 0 .. Len(s)
    PROVE  LET t == SubSeq(s, m + 1, Len(s)) IN
           /\ t \in Seq(Nat) /\ Rising(t)
           /\ \A x \in Range(t) : \E i \in 1 .. Len(s) : i > m /\ x = s[i]
<1>. DEFINE t == SubSeq(s, m + 1, Len(s))
<1>1. Len(s) \in Nat /\ m \in Nat /\ m <= Len(s) /\ \A i \in 1 .. Len(s) : s[i] \in Nat
  BY LenProperties, ElementOfSeq
<1>2. \A i \in m + 1 .. Len(s) : s[i] \in Nat
  BY <1>1
<1>3. /\ t \in Seq(Nat) /\ Len(t) = IF m + 1 <= Len(s) THEN Len(s) - (m + 1) + 1 ELSE 0
      /\ \A i \in 1 .. Len(s) - (m + 1) + 1 : t[i] = s[m + 1 + i - 1]
  BY <1>1, <1>2, SubSeqProperties
<1>. HIDE DEF t
<1>4. ASSUME NEW i \in 1 .. Len(t)
      PROVE  m + i \in 1 .. Len(s) /\ m + i > m /\ t[i] = s[m + i]
  <2>1. i \in 1 .. Len(s) - (m + 1) + 1 /\ m + 1 + i - 1 = m + i
    BY <1>1, <1>3
  <2>2. t[i] = s[m + i]
    BY <1>3, <2>1
  <2>. QED
    BY <1>1, <2>1, <2>2
<1>5. Rising(t)
  <2>1. \A i, j \in 1 .. Len(t) : i < j => m + i < m + j
    BY <1>1, <1>3
  <2>. QED
    BY <1>4, <2>1 DEF Rising
<1>6. \A x \in Range(t) : \E i \in 1 .. Len(s) : i > m /\ x = s[i]
  <2>1. DOMAIN t = 1 .. Len(t)
    BY <1>3, LenProperties
  <2>. QED
    BY <1>4, <2>1 DEF Range
<1>. QED
  BY <1>3, <1>5, <1>6 DEF t

\* Looking at the log moves the offset at most back to its beginning, and then
\* all of the log is ahead.
LEMMA PollKeeps == ASSUME LogInv, Logs!Poll PROVE LogInv'
<1>0. FilesHold /\ PathRises /\ CommandsHold /\ TailHolds /\ tail \in TailState
  BY DEF LogInv, TailHolds
<1>. DEFINE s == file["log"].lines
            m == Logs!From(Len(s))
<1>1. /\ tail.st = "follow"
      /\ UNCHANGED <<lines, file, zips, zipping, cmds, chunks, routed, client, shown>>
  BY DEF Logs!Poll, Logs!fileVars, Logs!pathVars
<1>2. CASE ~file["log"].there
  <2>1. tail' = [tail EXCEPT !.st = "eof"]
    BY <1>2 DEF Logs!Poll
  <2>2. /\ tail' \in TailState /\ tail'.st = "eof" /\ tail'.ring = tail.ring
        /\ tail'.backlog = tail.backlog
    BY <1>0, <2>1 DEF TailState
  <2>. QED
    BY <1>1, <2>2, TailMoves
<1>3. CASE file["log"].there
  <2>1. \/ tail' = [tail EXCEPT !.offset = m, !.st = "follow"]
        \/ tail' = [tail EXCEPT !.offset = m, !.st = "grown"]
    BY <1>0, <1>1, <1>3 DEF Logs!Poll, TailState
  <2>2. tail.offset \in Nat /\ Ahead(s, tail.offset, Seen \cup {tail.backlog})
    BY <1>0, <1>1, <1>3 DEF TailHolds, TailState
  <2>3. s \in Seq(Nat) /\ Len(s) \in Nat
    BY <1>0, LenProperties DEF FilesHold, LogFile, LogNames
  <2>4. m = IF Len(s) < tail.offset THEN 0 ELSE tail.offset
    BY <2>2 DEF Logs!From
  <2>. HIDE DEF m, s
  <2>5. m \in Nat /\ Ahead(s, m, Seen \cup {tail.backlog})
    <3>1. CASE Len(s) < tail.offset
      BY <2>2, <2>3, <2>4, <3>1 DEF Ahead
    <3>2. CASE ~(Len(s) < tail.offset)
      BY <2>2, <2>4, <3>2
    <3>. QED
      BY <3>1, <3>2
  <2>6. /\ tail' \in TailState /\ tail'.st \in {"follow", "grown"} /\ tail'.offset = m
        /\ tail'.ring = tail.ring /\ tail'.backlog = tail.backlog
    BY <1>0, <1>1, <2>1, <2>5 DEF TailState
  <2>7. FilesHold' /\ PathRises' /\ CommandsHold' /\ Seen' = Seen
    BY <1>0, <1>1, <2>6 DEF FilesHold, PathRises, CommandsHold, Seen
  <2>8. file'["log"].lines = s
    BY <1>1 DEF s
  <2>9. m # -1
    BY <2>5
  <2>10. TailHolds'
    BY <1>0, <1>1, <2>5, <2>6, <2>7, <2>8, <2>9 DEF TailHolds
  <2>. QED
    BY <2>7, <2>10 DEF LogInv
<1>. QED
  BY <1>2, <1>3

\* What is read on comes after all that was handed on, whatever the log became
\* since the look at it: shorter than the offset, it has nothing to read.
LEMMA ReadOnKeeps == ASSUME LogInv, Logs!ReadOn PROVE LogInv'
<1>0. FilesHold /\ PathRises /\ CommandsHold /\ TailHolds /\ tail \in TailState
  BY DEF LogInv, TailHolds
<1>. DEFINE s == file["log"].lines
            o == tail.offset
            t == SubSeq(s, o + 1, Len(s))
<1>1. /\ tail.st = "grown"
      /\ UNCHANGED <<lines, file, zips, zipping, cmds, routed, client, shown>>
  BY DEF Logs!ReadOn, Logs!fileVars
<1>2. o \in Nat /\ s \in Seq(Nat) /\ Len(s) \in Nat /\ Rising(s)
  BY <1>0, <1>1, LenProperties DEF TailHolds, TailState, FilesHold, LogFile, LogNames
<1>3. CASE ~file["log"].there
  <2>1. tail' = [tail EXCEPT !.st = "follow"] /\ chunks' = chunks
    BY <1>3 DEF Logs!ReadOn
  <2>2. /\ tail' \in TailState /\ tail'.st = "follow" /\ tail'.ring = tail.ring
        /\ tail'.backlog = tail.backlog
    BY <1>0, <2>1 DEF TailState
  <2>3. FilesHold' /\ PathRises' /\ CommandsHold' /\ Seen' = Seen
    BY <1>0, <1>1, <2>1, <2>2 DEF FilesHold, PathRises, CommandsHold, Seen
  <2>4. ~file'["log"].there
    BY <1>1, <1>3
  <2>5. TailHolds'
    BY <1>0, <1>1, <2>2, <2>3, <2>4 DEF TailHolds
  <2>. QED
    BY <2>3, <2>5 DEF LogInv
<1>4. CASE file["log"].there
  <2>1. tail' = [tail EXCEPT !.st = "follow", !.offset = @ + Len(t)] /\ Logs!Emits(t, TRUE)
    BY <1>4 DEF Logs!ReadOn
  <2>2. Ahead(s, o, Seen \cup {tail.backlog})
    BY <1>0, <1>1, <1>4 DEF TailHolds
  <2>3. file'["log"].lines = s
    BY <1>1
  <2>4. \A x \in Range(s) : x >= 1 /\ x <= lines
    BY <1>0 DEF FilesHold, LogNames
  <2>. HIDE DEF s
  <2>5. /\ t \in Seq(Nat) /\ Rising(t) /\ Below(Seen \cup {tail.backlog}, Range(t))
        /\ Range(t) \subseteq Range(s)
        /\ o + Len(t) \in Nat
        /\ Len(s) = o + Len(t) \/ (o + Len(t) = o /\ Range(t) = {})
    <3>1. CASE Len(s) < o
      <4>1. t = <<>>
        BY <1>2, <3>1, SubSeqEmpty
      <4>2. <<>> \in Seq(Nat) /\ Rising(<<>>) /\ Range(<<>>) = {} /\ Len(<<>>) = 0
        BY DEF Range, Rising
      <4>. HIDE DEF t, o
      <4>. QED
        BY <1>2, <3>1, <4>1, <4>2 DEF Below
    <3>2. CASE ~(Len(s) < o)
      <4>1. o \in 0 .. Len(s)
        BY <1>2, <3>2
      <4>2. /\ t \in Seq(Nat) /\ Rising(t)
            /\ \A x \in Range(t) : \E i \in 1 .. Len(s) : i > o /\ x = s[i]
        BY <1>2, <4>1, RestOfLog
      <4>3. Len(t) = Len(s) - o
        <5>1. \A i \in o + 1 .. Len(s) : s[i] \in Nat
          BY <1>2, ElementOfSeq
        <5>2. Len(t) = IF o + 1 <= Len(s) THEN Len(s) - (o + 1) + 1 ELSE 0
          BY <1>2, <5>1, SubSeqProperties
        <5>. QED
          BY <1>2, <4>1, <5>2
      <4>. HIDE DEF t, o
      <4>4. Below(Seen \cup {tail.backlog}, Range(t))
        BY <1>2, <2>2, <3>2, <4>2 DEF Ahead, Below
      <4>5. Range(t) \subseteq Range(s)
        <5>1. \A i \in 1 .. Len(s) : s[i] \in Range(s)
          BY <1>2, Elements
        <5>. QED
          BY <4>2, <5>1
      <4>. QED
        BY <1>2, <4>1, <4>2, <4>3, <4>4, <4>5
    <3>. QED
      BY <3>1, <3>2
  <2>6. /\ tail' \in TailState /\ tail'.st = "follow" /\ tail'.offset = o + Len(t)
        /\ tail'.ring = tail.ring /\ tail'.backlog = tail.backlog
    BY <1>0, <2>1, <2>5 DEF TailState
  <2>. HIDE DEF t, o
  <2>7. PathRises' /\ Seen' = Seen \cup Range(t)
    <3>1. Below(Seen, Range(t))
      BY <2>5 DEF Below
    <3>2. /\ PathRises'
          /\ Seen' = Seen \cup (IF TRUE THEN Range(t) ELSE {})
      BY <1>0, <1>1, <2>1, <2>5, <3>1, Emitted
    <3>. QED
      BY <3>2
  <2>8. \A y \in Seen' : 1 <= y /\ y <= lines /\ tail.backlog < y
    <3>1. \A y \in Range(t) : 1 <= y /\ y <= lines /\ tail.backlog < y
      <4>1. Range(t) \in SUBSET Nat
        BY <2>5, Elements
      <4>. QED
        BY <2>4, <2>5, <4>1 DEF Below
    <3>. QED
      BY <1>0, <2>7, <3>1 DEF TailHolds
  <2>9. Ahead(s, o + Len(t), Seen' \cup {tail.backlog})
    <3>1. CASE Len(s) = o + Len(t)
      BY <1>2, <3>1 DEF Ahead
    <3>2. CASE o + Len(t) = o /\ Range(t) = {}
      <4>1. Seen' = Seen
        BY <2>7, <3>2
      <4>. QED
        BY <2>2, <3>2, <4>1
    <3>. QED
      BY <2>5, <3>1, <3>2
  <2>10. o + Len(t) # -1
    BY <2>5
  <2>11. TailHolds'
    BY <1>0, <1>1, <2>3, <2>6, <2>8, <2>9, <2>10 DEF TailHolds
  <2>12. FilesHold' /\ CommandsHold'
    BY <1>0, <1>1, <2>6 DEF FilesHold, CommandsHold
  <2>. QED
    BY <2>7, <2>11, <2>12 DEF LogInv
<1>. QED
  BY <1>3, <1>4

LEMMA GiveUpKeeps == ASSUME LogInv, Logs!GiveUp PROVE LogInv'
<1>1. /\ tail' = [tail EXCEPT !.st = "eof"] /\ tail.st # "none"
      /\ UNCHANGED <<lines, file, zips, zipping, cmds, chunks, routed, client, shown>>
  BY DEF Logs!GiveUp, Logs!Tailing, Logs!fileVars, Logs!pathVars
<1>2. /\ tail' \in TailState /\ tail'.st = "eof" /\ tail'.ring = tail.ring
      /\ tail'.backlog = tail.backlog
  BY <1>1 DEF LogInv, TailHolds, TailState
<1>. QED
  BY <1>1, <1>2, TailMoves

\* What has left the tail moves on or is lost.
LEMMA PathMoves ==
    ASSUME LogInv, UNCHANGED <<lines, file, zips, zipping, tail>>,
           PathRises', CommandsHold', Seen' \subseteq Seen
    PROVE  LogInv'
<1>0. FilesHold /\ PathRises /\ CommandsHold /\ TailHolds
  BY DEF LogInv
<1>1. FilesHold'
  BY <1>0 DEF FilesHold
<1>2. Ahead(file["log"].lines, tail.offset, Seen \cup {tail.backlog}) =>
        Ahead(file["log"].lines, tail.offset, Seen' \cup {tail.backlog})
  BY DEF Ahead
<1>3. Seen = {} => Seen' = {}
  OBVIOUS
<1>4. TailHolds'
  BY <1>0, <1>2, <1>3 DEF TailHolds
<1>. QED
  BY <1>1, <1>4 DEF LogInv

LEMMA NothingFollowed ==
    /\ Range(<<>>) = {} /\ FollowedIn(<<>>) = {} /\ ChunksRise(<<>>)
    /\ <<>> \in Seq(LogChunk) /\ <<>> \in Seq(LogCommand)
BY EmptySeq DEF Range, FollowedIn, ChunksRise

LEMMA EndKeeps == ASSUME LogInv, Logs!End PROVE LogInv'
<1>0. FilesHold /\ PathRises /\ CommandsHold /\ TailHolds /\ tail \in TailState
  BY DEF LogInv, TailHolds
<1>1. /\ tail.st = "eof" /\ tail' = [Logs!NoTail EXCEPT !.st = "done", !.backlog = tail.backlog]
      /\ chunks' = chunks \/ chunks' = Append(chunks, Logs!Eof)
      /\ UNCHANGED <<lines, file, zips, zipping, cmds, routed, client, shown>>
  BY DEF Logs!End, Logs!fileVars
<1>2. /\ tail' \in TailState /\ tail'.st = "done" /\ tail'.ring = <<>>
      /\ tail'.backlog = tail.backlog
  <2>1. Logs!NoTail \in TailState /\ Logs!NoTail.ring = <<>>
    BY EmptySeq DEF TailState, Logs!NoTail
  <2>2. tail.backlog \in Nat
    BY <1>0 DEF TailState
  <2>. QED
    BY <1>1, <2>1, <2>2 DEF TailState
<1>3. PathRises' /\ Seen' = Seen
  <2>1. CASE chunks' = chunks
    BY <1>0, <1>1, <2>1 DEF PathRises, Seen
  <2>2. CASE chunks' = Append(chunks, Logs!Eof)
    <3>1. Logs!Eof \in LogChunk /\ Followed(Logs!Eof) = {} /\ ~Logs!Eof.followed
      BY EmptySeq DEF Logs!Eof, LogChunk, Followed
    <3>2. Below(FollowedIn(chunks), {})
      BY DEF Below
    <3>3. /\ chunks' \in Seq(LogChunk) /\ ChunksRise(chunks')
          /\ FollowedIn(chunks') = FollowedIn(chunks)
      BY <1>0, <2>2, <3>1, <3>2, ChunkJoins DEF PathRises
    <3>. QED
      BY <1>0, <1>1, <3>3 DEF PathRises, Seen
  <2>. QED
    BY <1>1, <2>1, <2>2
<1>4. CommandsHold' /\ FilesHold'
  BY <1>0, <1>1, <1>2 DEF CommandsHold, FilesHold
<1>5. TailHolds'
  BY <1>0, <1>1, <1>2, <1>3, NothingFollowed DEF TailHolds
<1>. QED
  BY <1>3, <1>4, <1>5 DEF LogInv

LEMMA AgentRestartKeeps == ASSUME LogInv, Logs!AgentRestarts PROVE LogInv'
<1>0. FilesHold /\ PathRises /\ CommandsHold /\ TailHolds /\ tail \in TailState
  BY DEF LogInv, TailHolds
<1>1. /\ chunks' = <<>> /\ UNCHANGED <<lines, file, cmds, routed, client, shown>>
      /\ tail' = IF tail.st = "none" THEN tail ELSE [Logs!NoTail EXCEPT !.st = "done"]
  BY DEF Logs!AgentRestarts
<1>2. FilesHold'
  BY <1>0, RestOfFilesKeeps
<1>3. PathRises' /\ Seen' \subseteq Seen
  BY <1>0, <1>1, NothingFollowed DEF PathRises, Seen, Below
<1>4. CASE tail.st = "none"
  <2>1. Seen' = {} /\ tail' = tail
    BY <1>0, <1>1, <1>3, <1>4 DEF TailHolds
  <2>2. CommandsHold'
    BY <1>0, <1>1, <2>1 DEF CommandsHold
  <2>3. TailHolds'
    BY <1>0, <1>1, <1>4, <2>1 DEF TailHolds
  <2>. QED
    BY <1>2, <1>3, <2>2, <2>3 DEF LogInv
<1>5. CASE tail.st # "none"
  <2>1. Logs!NoTail \in TailState /\ Logs!NoTail.ring = <<>> /\ Logs!NoTail.backlog = 0
    BY EmptySeq DEF TailState, Logs!NoTail
  <2>2. /\ tail' \in TailState /\ tail'.st = "done" /\ tail'.ring = <<>> /\ tail'.backlog = 0
    BY <1>1, <1>5, <2>1 DEF TailState
  <2>3. CommandsHold'
    BY <1>0, <1>1, <1>5, <2>2 DEF CommandsHold
  <2>4. \A y \in Seen' : 1 <= y /\ y <= lines /\ 0 < y
    <3>1. \A y \in Nat : 1 <= y => 0 < y
      OBVIOUS
    <3>. QED
      BY <1>0, <1>3, <3>1, SeenNumbers DEF TailHolds
  <2>5. 0 <= lines
    BY <1>0 DEF FilesHold
  <2>6. TailHolds'
    BY <1>1, <2>2, <2>4, <2>5, NothingFollowed DEF TailHolds
  <2>. QED
    BY <1>2, <1>3, <2>3, <2>6 DEF LogInv
<1>. QED
  BY <1>4, <1>5

LEMMA ClientKeeps ==
    ASSUME LogInv, \/ \E follow, lastOnly \in BOOLEAN : Logs!OpenTail(follow, lastOnly)
                   \/ Logs!ClientLeaves
    PROVE  LogInv'
<1>0. FilesHold /\ PathRises /\ CommandsHold /\ TailHolds
  BY DEF LogInv
<1>1. ASSUME NEW follow \in BOOLEAN, NEW lastOnly \in BOOLEAN, Logs!OpenTail(follow, lastOnly)
      PROVE  LogInv'
  <2>. DEFINE c == [cancel |-> FALSE, follow |-> follow, lastOnly |-> lastOnly]
  <2>1. /\ client = "idle" /\ client' = "open" /\ cmds' = <<c>>
        /\ UNCHANGED <<lines, file, zips, zipping, tail, chunks, routed, shown>>
    BY <1>1 DEF Logs!OpenTail, Logs!fileVars
  <2>2. c \in LogCommand
    BY DEF LogCommand
  <2>. HIDE DEF c
  <2>3. cmds' \in Seq(LogCommand) /\ Len(cmds') = 1
    BY <2>1, <2>2
  <2>4. CommandsHold'
    BY <1>0, <2>1, <2>3 DEF CommandsHold
  <2>5. PathRises' /\ Seen' = Seen
    BY <1>0, <2>1 DEF PathRises, Seen
  <2>. QED
    BY <2>1, <2>4, <2>5, PathMoves
<1>2. CASE Logs!ClientLeaves
  <2>. DEFINE c == [cancel |-> TRUE, follow |-> FALSE, lastOnly |-> FALSE]
  <2>1. /\ client' = "closed" /\ routed' = <<>> /\ cmds' = Append(cmds, c)
        /\ UNCHANGED <<lines, file, zips, zipping, tail, chunks, shown>>
    BY <1>2 DEF Logs!ClientLeaves, Logs!Cancelled, Logs!fileVars
  <2>2. c \in LogCommand /\ c.cancel
    BY DEF LogCommand
  <2>. HIDE DEF c
  <2>3. /\ cmds' \in Seq(LogCommand) /\ Len(cmds) \in Nat /\ Len(cmds') = Len(cmds) + 1
        /\ cmds'[Len(cmds) + 1] = c /\ \A i \in 1 .. Len(cmds) : cmds'[i] = cmds[i]
    BY <1>0, <2>1, <2>2, AppendProperties, LenProperties DEF CommandsHold
  <2>4. \A i \in 1 .. Len(cmds') : i \in 1 .. Len(cmds) \/ i = Len(cmds) + 1
    BY <2>3
  <2>5. CommandsHold'
    BY <1>0, <2>1, <2>2, <2>3, <2>4 DEF CommandsHold
  <2>6. PathRises' /\ Seen' \subseteq Seen
    BY <1>0, <2>1, NothingFollowed DEF PathRises, Seen, Below
  <2>. QED
    BY <2>1, <2>5, <2>6, PathMoves
<1>. QED
  BY <1>1, <1>2

LEMMA DispatchKeeps == ASSUME LogInv, Logs!Dispatch PROVE LogInv'
<1>0. FilesHold /\ PathRises /\ CommandsHold /\ TailHolds
  BY DEF LogInv
<1>. DEFINE c == Head(chunks)
<1>1. /\ chunks # <<>> /\ chunks' = Tail(chunks)
      /\ routed' = routed \/ routed' = Append(routed, c)
      /\ UNCHANGED <<lines, file, zips, zipping, cmds, tail, client, shown>>
  BY DEF Logs!Dispatch, Logs!fileVars
<1>2. /\ chunks' \in Seq(LogChunk) /\ c \in LogChunk
      /\ FollowedIn(chunks) = Followed(c) \cup FollowedIn(chunks')
      /\ ChunksRise(chunks') /\ (c.followed => Rising(c.lines))
      /\ Below(Followed(c), FollowedIn(chunks'))
  BY <1>0, <1>1, ChunkLeaves DEF PathRises
<1>. HIDE DEF c
<1>3. /\ routed' \in Seq(LogChunk) /\ ChunksRise(routed')
      /\ FollowedIn(routed') \in {FollowedIn(routed), FollowedIn(routed) \cup Followed(c)}
  <2>1. CASE routed' = routed
    BY <1>0, <2>1 DEF PathRises
  <2>2. CASE routed' = Append(routed, c)
    <3>1. Below(FollowedIn(routed), Followed(c))
      BY <1>0, <1>2 DEF PathRises, Below
    <3>. QED
      BY <1>0, <1>2, <2>2, <3>1, ChunkJoins DEF PathRises
  <2>. QED
    BY <1>1, <2>1, <2>2
<1>4. Below(Range(shown), FollowedIn(routed'))
  BY <1>0, <1>2, <1>3 DEF PathRises, Below
<1>5. Below(Range(shown) \cup FollowedIn(routed'), FollowedIn(chunks'))
  BY <1>0, <1>2, <1>3 DEF PathRises, Below
<1>6. PathRises' /\ Seen' \subseteq Seen
  BY <1>0, <1>1, <1>2, <1>3, <1>4, <1>5 DEF PathRises, Seen
<1>7. CommandsHold'
  BY <1>0, <1>1 DEF CommandsHold
<1>. QED
  BY <1>1, <1>6, <1>7, PathMoves

LEMMA ClientReadsKeeps == ASSUME LogInv, Logs!ClientReads PROVE LogInv'
<1>0. FilesHold /\ PathRises /\ CommandsHold /\ TailHolds
  BY DEF LogInv
<1>. DEFINE c == Head(routed)
<1>1. /\ routed # <<>> /\ routed' \in {<<>>, Tail(routed)}
      /\ shown' = IF c.followed THEN shown \o c.lines ELSE shown
      /\ client = "open" /\ client' \in {"open", "closed"}
      /\ UNCHANGED <<lines, file, zips, zipping, cmds, tail, chunks>>
  BY DEF Logs!ClientReads, Logs!fileVars
<1>2. /\ Tail(routed) \in Seq(LogChunk) /\ c \in LogChunk
      /\ FollowedIn(routed) = Followed(c) \cup FollowedIn(Tail(routed))
      /\ ChunksRise(Tail(routed)) /\ (c.followed => Rising(c.lines))
      /\ Below(Followed(c), FollowedIn(Tail(routed)))
  BY <1>0, <1>1, ChunkLeaves DEF PathRises
<1>. HIDE DEF c
<1>3. /\ routed' \in Seq(LogChunk) /\ ChunksRise(routed')
      /\ FollowedIn(routed') \subseteq FollowedIn(Tail(routed))
  BY <1>1, <1>2, NothingFollowed
<1>4. /\ shown' \in Seq(Nat) /\ Rising(shown') /\ Range(shown') = Range(shown) \cup Followed(c)
  <2>1. CASE c.followed
    <3>1. c.lines \in Seq(Nat) /\ Followed(c) = Range(c.lines)
      BY <1>2, <2>1 DEF LogChunk, Followed
    <3>2. Below(Range(shown), Range(c.lines))
      BY <1>0, <1>2, <3>1 DEF PathRises, Below
    <3>. QED
      BY <1>0, <1>1, <1>2, <2>1, <3>1, <3>2, Joining, Concatenated DEF PathRises
  <2>2. CASE ~c.followed
    BY <1>0, <1>1, <2>2 DEF PathRises, Followed
  <2>. QED
    BY <2>1, <2>2
<1>5. Below(Range(shown'), FollowedIn(routed'))
  BY <1>0, <1>2, <1>3, <1>4 DEF PathRises, Below
<1>6. Below(Range(shown') \cup FollowedIn(routed'), FollowedIn(chunks))
  BY <1>0, <1>2, <1>3, <1>4 DEF PathRises, Below
<1>7. PathRises' /\ Seen' \subseteq Seen
  BY <1>0, <1>1, <1>2, <1>3, <1>4, <1>5, <1>6 DEF PathRises, Seen
<1>8. CommandsHold'
  BY <1>0, <1>1 DEF CommandsHold
<1>. QED
  BY <1>1, <1>7, <1>8, PathMoves

LEMMA LogStep == ASSUME LogInv, Logs!Next PROVE LogInv'
<1>1. FilesHold
  BY DEF LogInv
<1>2. CASE Logs!WriteLine \/ Logs!RotateCopy \/ Logs!Stop \/ Logs!Expire \/ Logs!FileSteps
  <2>1. UNCHANGED <<cmds, tail, chunks, routed, client, shown>>
    BY <1>2 DEF Logs!WriteLine, Logs!RotateCopy, Logs!Stop, Logs!Expire, Logs!FileSteps,
                Logs!RotateTruncate, Logs!Sweep, Logs!ZipStart, Logs!ZipEnd, Logs!pathVars
  <2>2. FilesHold' /\ LogMoves
    BY <1>1, <1>2, WriteLineKeeps, RotationKeeps, ZipKeeps, RestOfFilesKeeps DEF Logs!FileSteps
  <2>. QED
    BY <2>1, <2>2, FilesMove
<1>. QED
  BY <1>2, AgentRestartKeeps, ClientKeeps, TakeCommandKeeps, ListKeeps, ReadSourceKeeps,
     BacklogDoneKeeps, PollKeeps, ReadOnKeeps, GiveUpKeeps, EndKeeps, DispatchKeeps,
     ClientReadsKeeps
     DEF Logs!Next, Logs!TailSteps

LEMMA LogsHold == LogInv => Logs!FollowedOnce
<1>. SUFFICES ASSUME LogInv PROVE Logs!FollowedOnce
  OBVIOUS
<1>1. shown \in Seq(Nat) /\ Rising(shown) /\ DOMAIN shown = 1 .. Len(shown)
  BY LenProperties DEF LogInv, PathRises
<1>2. \A i \in DOMAIN shown : shown[i] > tail.backlog
  <2>1. \A i \in 1 .. Len(shown) : shown[i] \in Seen
    BY <1>1, Elements DEF Seen
  <2>2. \A i \in 1 .. Len(shown) : shown[i] \in Nat
    BY <1>1, ElementOfSeq
  <2>. QED
    BY <1>1, <2>1, <2>2 DEF LogInv, TailHolds, TailState
<1>. QED
  BY <1>1, <1>2 DEF Rising, Logs!FollowedOnce

-----------------------------------------------------------------------------
(* The socket of a game.                                                   *)

Conns == 1 .. MaxConns
MatchFrames == {"start", "end"}
Wire == [down : Seq(Nat), up : Seq(MatchFrames),
         agent : {"none", "unread", "reading", "stale", "closed"}, game : BOOLEAN]

Distinct(s) == \A i, j \in 1 .. Len(s) : s[i] = s[j] => i = j

LEMMA StillDistinct ==
    ASSUME NEW S, NEW s \in Seq(S), Distinct(s), NEW e \in S, e \notin Range(s)
    PROVE  Distinct(Append(s, e))
<1>. DEFINE u == Append(s, e)
<1>1. /\ Len(s) \in Nat /\ Len(u) = Len(s) + 1 /\ u[Len(s) + 1] = e
      /\ \A i \in 1 .. Len(s) : u[i] = s[i]
  BY AppendProperties, LenProperties
<1>2. \A i \in 1 .. Len(s) : s[i] # e
  BY Elements
<1>. HIDE DEF u
<1>3. \A i \in 1 .. Len(u) : i \in 1 .. Len(s) \/ i = Len(s) + 1
  BY <1>1
<1>4. Distinct(u)
  BY <1>1, <1>2, <1>3 DEF Distinct
<1>. QED
  BY <1>4 DEF u

LEMMA RestDistinct ==
    ASSUME NEW S, NEW s \in Seq(S), s # <<>>, Distinct(s)
    PROVE  Distinct(Tail(s)) /\ Head(s) \notin Range(Tail(s))
<1>. DEFINE t == Tail(s)
            h == Head(s)
<1>1. /\ t \in Seq(S) /\ Len(s) \in Nat \ {0} /\ Len(t) = Len(s) - 1 /\ h = s[1]
      /\ \A i \in 1 .. Len(s) - 1 : t[i] = s[i + 1]
  BY LeftFirst
<1>. HIDE DEF t, h
<1>2. \A i \in 1 .. Len(t) : /\ i + 1 \in 1 .. Len(s) /\ 1 \in 1 .. Len(s) /\ i + 1 # 1
                             /\ t[i] = s[i + 1]
  BY <1>1
<1>3. Distinct(t)
  <2>1. \A i, j \in 1 .. Len(t) : i + 1 = j + 1 => i = j
    BY <1>1
  <2>. QED
    BY <1>2, <2>1 DEF Distinct
<1>4. \A i \in 1 .. Len(t) : t[i] # h
  BY <1>1, <1>2 DEF Distinct
<1>5. h \notin Range(t)
  BY <1>1, <1>4, LenProperties DEF Range
<1>. QED
  BY <1>3, <1>5 DEF t, h

LEMMA JoinDistinct ==
    ASSUME NEW S, NEW s \in Seq(S), NEW t \in Seq(S), Distinct(s), Distinct(t),
           Range(s) \cap Range(t) = {}
    PROVE  Distinct(s \o t)
<1>. DEFINE u == s \o t
<1>1. /\ Len(s) \in Nat /\ Len(t) \in Nat /\ Len(u) = Len(s) + Len(t)
      /\ \A i \in 1 .. Len(u) : \/ i \in 1 .. Len(s) /\ u[i] = s[i]
                               \/ /\ i > Len(s) /\ i - Len(s) \in 1 .. Len(t)
                                  /\ u[i] = t[i - Len(s)]
  BY Concatenated
<1>. HIDE DEF u
<1>2. \A k \in 1 .. Len(s), l \in 1 .. Len(t) : s[k] # t[l]
  BY Elements
<1>3. ASSUME NEW i \in 1 .. Len(u), NEW j \in 1 .. Len(u), u[i] = u[j] PROVE i = j
  <2>1. CASE i \in 1 .. Len(s) /\ j \in 1 .. Len(s)
    BY <1>1, <1>3, <2>1 DEF Distinct
  <2>2. CASE i > Len(s) /\ j > Len(s)
    <3>1. /\ i - Len(s) \in 1 .. Len(t) /\ j - Len(s) \in 1 .. Len(t)
          /\ t[i - Len(s)] = t[j - Len(s)]
      BY <1>1, <1>3, <2>2
    <3>2. i - Len(s) = j - Len(s)
      BY <3>1 DEF Distinct
    <3>. QED
      BY <1>1, <3>2
  <2>. QED
    BY <1>1, <1>2, <1>3, <2>1, <2>2
<1>. QED
  BY <1>3 DEF Distinct, u

\* What a closed connection has buffered is the beginning of what was on it.
LEMMA Closes ==
    ASSUME NEW w \in Wire, Distinct(w.up), NEW v \in Game!Closed(w)
    PROVE  v \in Wire /\ Distinct(v.up) /\ Range(v.up) \subseteq Range(w.up)
<1>1. CASE w.agent # "reading"
  <2>1. v = [w EXCEPT !.agent = "closed"]
    BY <1>1 DEF Game!Closed
  <2>. QED
    BY <2>1 DEF Wire
<1>2. CASE w.agent = "reading"
  <2>1. PICK n \in 0 .. Len(w.up) :
               v = [w EXCEPT !.agent = "stale", !.up = SubSeq(w.up, 1, n)]
    <3>1. Game!Closed(w) = {[w EXCEPT !.agent = "stale", !.up = SubSeq(w.up, 1, n)] :
                            n \in 0 .. Len(w.up)}
      BY <1>2, Zenon DEF Game!Closed
    <3>. QED
      BY <3>1, Zenon
  <2>. DEFINE s == w.up
              u == SubSeq(s, 1, n)
  <2>2. s \in Seq(MatchFrames) /\ Len(s) \in Nat /\ DOMAIN s = 1 .. Len(s) /\ n \in Nat
    BY LenProperties DEF Wire
  <2>3. \A i \in 1 .. n : i \in 1 .. Len(s) /\ s[i] \in MatchFrames
    <3>1. \A i \in 1 .. n : i \in 1 .. Len(s)
      BY <2>2
    <3>. QED
      BY <2>2, <3>1, ElementOfSeq
  <2>. HIDE DEF s
  <2>4. /\ u \in Seq(MatchFrames) /\ Len(u) = IF 1 <= n THEN n - 1 + 1 ELSE 0
        /\ \A i \in 1 .. n - 1 + 1 : u[i] = s[1 + i - 1]
    BY <2>2, <2>3, SubSeqProperties
  <2>. HIDE DEF u
  <2>5. \A i \in 1 .. Len(u) : i \in 1 .. Len(s) /\ u[i] = s[i]
    <3>1. \A i \in 1 .. Len(u) : i \in 1 .. n /\ i \in 1 .. n - 1 + 1 /\ 1 + i - 1 = i
      BY <2>2, <2>4
    <3>. QED
      BY <2>3, <2>4, <3>1
  <2>6. Distinct(u) /\ Range(u) \subseteq Range(s)
    <3>1. Distinct(u)
      BY <2>5 DEF Distinct, s
    <3>2. DOMAIN u = 1 .. Len(u)
      BY <2>4, LenProperties
    <3>. QED
      BY <2>2, <2>5, <3>1, <3>2 DEF Range
  <2>7. v = [w EXCEPT !.agent = "stale", !.up = u]
    BY <2>1 DEF u, s
  <2>8. v \in Wire /\ v.up = u
    BY <2>4, <2>7 DEF Wire
  <2>. QED
    BY <2>6, <2>8 DEF s
<1>. QED
  BY <1>1, <1>2

GameTypes ==
    /\ target \in Nat /\ inbound \in SUBSET Nat /\ lastAllocated \in Nat
    /\ accepting.todo \in Seq(Nat)
    /\ DOMAIN writes = Game!Kinds
    /\ \A k \in Game!Kinds : writes[k] # Game!Idle => Head(writes[k].todo) \in Nat
    /\ wire \in [Conns -> Wire] /\ dialled \in 0 .. MaxConns /\ gconn \in 0 .. MaxConns
    /\ match \in {"idle", "playing", "over"}
    /\ outq \in Seq(MatchFrames) /\ heard \in Seq(MatchFrames)

\* What a connection carries to the agent.
Up(c) == Range(wire[c].up)
Used == Range(outq) \cup Range(heard) \cup UNION {Up(c) : c \in Conns}

\* A match frame is in one place at most.
FramesOnce ==
    /\ Distinct(outq) /\ Distinct(heard) /\ \A c \in Conns : Distinct(wire[c].up)
    /\ Range(outq) \cap Range(heard) = {}
    /\ \A c \in Conns : Up(c) \cap (Range(outq) \cup Range(heard)) = {}
    /\ \A b, c \in Conns : b # c => Up(b) \cap Up(c) = {}
    /\ match = "idle" => Used = {}
    /\ match = "playing" => "end" \notin Used

GameInv == GameTypes /\ FramesOnce /\ told \in Seq(Nat) /\ Rising(told)

\* A step that takes match frames off the connections at most.
UpShrinks ==
    /\ wire' \in [Conns -> Wire]
    /\ \A c \in Conns : Distinct(wire'[c].up) /\ Range(wire'[c].up) \subseteq Range(wire[c].up)

LEMMA OneWire ==
    ASSUME GameInv, NEW c, NEW w,
           c \in Conns => w \in Wire /\ Distinct(w.up) /\ Range(w.up) \subseteq Up(c),
           wire' = [wire EXCEPT ![c] = w]
    PROVE  UpShrinks
<1>1. wire \in [Conns -> Wire] /\ \A b \in Conns : Distinct(wire[b].up)
  BY DEF GameInv, GameTypes, FramesOnce
<1>2. wire' \in [Conns -> Wire] /\ \A b \in Conns : wire'[b] = IF b = c THEN w ELSE wire[b]
  BY <1>1
<1>. QED
  BY <1>1, <1>2 DEF UpShrinks, Up

LEMMA FramesStay ==
    ASSUME FramesOnce, UpShrinks, outq' \in {outq, <<>>}, UNCHANGED <<heard, match>>
    PROVE  FramesOnce'
<1>1. Range(<<>>) = {} /\ Distinct(<<>>)
  BY DEF Range, Distinct
<1>2. Distinct(outq') /\ Range(outq') \subseteq Range(outq)
  BY <1>1 DEF FramesOnce
<1>3. \A c \in Conns : Up(c)' \subseteq Up(c) /\ Distinct(wire'[c].up)
  BY DEF UpShrinks, Up
<1>4. Used' \subseteq Used
  BY <1>2, <1>3 DEF Used
<1>. QED
  BY <1>2, <1>3, <1>4 DEF FramesOnce

LEMMA GameStart == Game!Init => GameInv
<1>. SUFFICES ASSUME Game!Init PROVE GameInv
  OBVIOUS
<1>1. /\ target = 0 /\ inbound = {} /\ lastAllocated = 0 /\ accepting = Game!Idle
      /\ writes = [k \in Game!Kinds |-> Game!Idle] /\ wire = [c \in Conns |-> Game!Unused]
      /\ dialled = 0 /\ gconn = 0 /\ told = <<>> /\ match = "idle" /\ outq = <<>> /\ heard = <<>>
  BY DEF Game!Init, Game!Conns, Conns
<1>2. Range(<<>>) = {} /\ Distinct(<<>>) /\ Rising(<<>>)
  BY DEF Range, Distinct, Rising
<1>3. /\ <<>> \in Seq(Nat) /\ <<>> \in Seq(MatchFrames) /\ Game!Idle.todo = <<>>
      /\ Game!Unused \in Wire /\ Game!Unused.up = <<>>
  BY EmptySeq DEF Game!Idle, Game!Unused, Wire
<1>4. wire \in [Conns -> Wire] /\ \A c \in Conns : wire[c].up = <<>>
  BY <1>1, <1>3
<1>5. GameTypes
  BY <1>1, <1>3, <1>4, AgentServicesAssumption DEF GameTypes
<1>6. Used = {} /\ \A c \in Conns : Up(c) = {}
  BY <1>1, <1>2, <1>4 DEF Used, Up
<1>7. FramesOnce
  BY <1>1, <1>2, <1>4, <1>6 DEF FramesOnce
<1>. QED
  BY <1>1, <1>2, <1>3, <1>5, <1>7 DEF GameInv

\* writeTo puts a frame on a connection or closes it.
LEMMA WriteToShrinks ==
    ASSUME GameInv, NEW c, NEW f \in Nat, Game!WriteTo(c, f) PROVE UpShrinks
<1>1. \A b \in Conns : wire[b] \in Wire /\ Distinct(wire[b].up)
  BY DEF GameInv, GameTypes, FramesOnce
<1>2. CASE wire' = [wire EXCEPT ![c].down = Append(@, f)]
  <2>. DEFINE w == [wire[c] EXCEPT !.down = Append(@, f)]
  <2>1. wire' = [wire EXCEPT ![c] = w]
    BY <1>2
  <2>2. c \in Conns => w \in Wire /\ w.up = wire[c].up
    <3>1. ASSUME c \in Conns PROVE Append(wire[c].down, f) \in Seq(Nat) /\ wire[c] \in Wire
      <4>1. wire[c] \in Wire /\ wire[c].down \in Seq(Nat)
        BY <1>1, <3>1 DEF Wire
      <4>. QED
        BY <4>1, Joined
    <3>. QED
      BY <3>1 DEF Wire
  <2>. HIDE DEF w
  <2>. QED
    BY <1>1, <2>1, <2>2, OneWire DEF Up
<1>3. CASE wire' = wire
  BY <1>1, <1>3 DEF GameInv, GameTypes, UpShrinks
<1>4. CASE \E w \in Game!Closed(wire[c]) : wire' = [wire EXCEPT ![c] = w]
  <2>1. PICK w \in Game!Closed(wire[c]) : wire' = [wire EXCEPT ![c] = w]
    BY <1>4
  <2>. QED
    BY <1>1, <2>1, Closes, OneWire DEF Up
<1>. QED
  BY <1>2, <1>3, <1>4 DEF Game!WriteTo

\* The rest of the invariant where no match frame is made or heard.
LEMMA Otherwise ==
    ASSUME GameInv, UpShrinks, GameTypes', outq' \in {outq, <<>>}, UNCHANGED <<heard, match>>,
           told' \in Seq(Nat), Rising(told')
    PROVE  GameInv'
BY FramesStay DEF GameInv

LEMMA SameWires == ASSUME GameInv, wire' = wire PROVE UpShrinks
BY DEF GameInv, GameTypes, FramesOnce, UpShrinks

LEMMA MasterKeeps ==
    ASSUME GameInv, \/ Game!Allocate \/ Game!DrainServer
                    \/ \E n \in 1 .. target : Game!Redelivered(n)
    PROVE  GameInv'
<1>1. /\ target' \in {target, target + 1}
      /\ inbound' \subseteq inbound \cup {target + 1} \cup 1 .. target
      /\ UNCHANGED <<lastAllocated, accepting, writes, wire, dialled, gconn, told, match, outq,
                     heard>>
  BY DEF Game!Allocate, Game!DrainServer, Game!Redelivered, Game!agentVars, Game!sdkVars
<1>2. GameTypes'
  <2>1. GameTypes
    BY DEF GameInv
  <2>2. target' \in Nat /\ inbound' \in SUBSET Nat
    BY <1>1, <2>1 DEF GameTypes
  <2>. QED
    BY <1>1, <2>1, <2>2 DEF GameTypes
<1>. QED
  BY <1>1, <1>2, SameWires, Otherwise DEF GameInv

LEMMA RememberKeeps ==
    ASSUME GameInv, Game!RememberDrain \/ \E n \in inbound : Game!Remember(n) PROVE GameInv'
<1>0. GameTypes
  BY DEF GameInv
<1>1. CASE Game!RememberDrain
  <2>. DEFINE w == [c |-> libaConn, todo |-> <<Game!Drain>>]
  <2>1. /\ writes' = writes \/ writes' = [writes EXCEPT !["drain"] = w]
        /\ UNCHANGED <<target, inbound, lastAllocated, accepting, wire, dialled, gconn, told,
                       match, outq, heard>>
    BY <1>1 DEF Game!RememberDrain, Game!sdkVars
  <2>2. Head(w.todo) \in Nat
    BY DEF Game!Drain
  <2>. HIDE DEF w
  <2>3. \A k \in Game!Kinds : writes'[k] # Game!Idle => Head(writes'[k].todo) \in Nat
    <3>1. \A k \in Game!Kinds : writes'[k] \in {writes[k], w}
      BY <1>0, <2>1 DEF GameTypes
    <3>. QED
      BY <1>0, <2>2, <3>1 DEF GameTypes
  <2>4. GameTypes'
    BY <1>0, <2>1, <2>3 DEF GameTypes
  <2>. QED
    BY <2>1, <2>4, SameWires, Otherwise DEF GameInv
<1>2. ASSUME NEW n \in inbound, Game!Remember(n) PROVE GameInv'
  <2>. DEFINE w == [c |-> libaConn, todo |-> <<n>>]
  <2>1. /\ writes' = writes \/ writes' = [writes EXCEPT !["allocated"] = w]
        /\ inbound' = inbound \ {n} /\ lastAllocated' \in {lastAllocated, n}
        /\ UNCHANGED <<target, accepting, wire, dialled, gconn, told, match, outq, heard>>
    BY <1>2 DEF Game!Remember, Game!sdkVars
  <2>2. Head(w.todo) \in Nat /\ n \in Nat
    BY <1>0 DEF GameTypes
  <2>. HIDE DEF w
  <2>3. \A k \in Game!Kinds : writes'[k] # Game!Idle => Head(writes'[k].todo) \in Nat
    <3>1. \A k \in Game!Kinds : writes'[k] \in {writes[k], w}
      BY <1>0, <2>1 DEF GameTypes
    <3>. QED
      BY <1>0, <2>2, <3>1 DEF GameTypes
  <2>4. GameTypes'
    BY <1>0, <2>1, <2>2, <2>3 DEF GameTypes
  <2>. QED
    BY <2>1, <2>4, SameWires, Otherwise DEF GameInv
<1>. QED
  BY <1>1, <1>2

LEMMA WriteKeeps == ASSUME GameInv, NEW k \in Game!Kinds, Game!Write(k) PROVE GameInv'
<1>0. GameTypes
  BY DEF GameInv
<1>. DEFINE f == Head(writes[k].todo)
<1>1. /\ writes[k] # Game!Idle /\ Game!WriteTo(writes[k].c, f)
      /\ writes' = [writes EXCEPT ![k] = Game!Idle]
      /\ UNCHANGED <<target, inbound, lastAllocated, accepting, dialled, gconn, told, match,
                     outq, heard>>
  BY DEF Game!Write, Game!masterVars, Game!sdkVars
<1>2. f \in Nat
  BY <1>0, <1>1 DEF GameTypes
<1>. HIDE DEF f
<1>3. UpShrinks
  BY <1>1, <1>2, WriteToShrinks
<1>4. /\ DOMAIN writes' = Game!Kinds
      /\ \A l \in Game!Kinds : writes'[l] # Game!Idle => Head(writes'[l].todo) \in Nat
  BY <1>0, <1>1 DEF GameTypes
<1>5. GameTypes'
  BY <1>0, <1>1, <1>3, <1>4 DEF GameTypes, UpShrinks
<1>. QED
  BY <1>1, <1>3, <1>5, Otherwise DEF GameInv

LEMMA ReplayKeeps == ASSUME GameInv, Game!ReplayNext \/ Game!ReplayDone PROVE GameInv'
<1>0. GameTypes
  BY DEF GameInv
<1>1. CASE Game!ReplayNext
  <2>. DEFINE f == Head(accepting.todo)
              t == Tail(accepting.todo)
  <2>1. /\ accepting.todo # <<>> /\ Game!WriteTo(accepting.c, f)
        /\ accepting' = [accepting EXCEPT !.todo = t]
        /\ UNCHANGED <<target, inbound, lastAllocated, writes, dialled, gconn, told, match,
                       outq, heard>>
    BY <1>1 DEF Game!ReplayNext, Game!masterVars, Game!sdkVars
  <2>2. f \in Nat /\ t \in Seq(Nat)
    BY <1>0, <2>1, LeftFirst DEF GameTypes
  <2>. HIDE DEF f, t
  <2>3. UpShrinks
    BY <2>1, <2>2, WriteToShrinks
  <2>4. accepting'.todo \in Seq(Nat)
    BY <1>0, <2>1, <2>2 DEF GameTypes
  <2>5. GameTypes'
    BY <1>0, <2>1, <2>3, <2>4 DEF GameTypes, UpShrinks
  <2>. QED
    BY <2>1, <2>3, <2>5, Otherwise DEF GameInv
<1>2. CASE Game!ReplayDone
  <2>. DEFINE c == accepting.c
              w == [wire[c] EXCEPT !.agent = IF @ = "unread" THEN "reading" ELSE @]
  <2>1. /\ accepting' = Game!Idle /\ wire' = [wire EXCEPT ![c] = w]
        /\ UNCHANGED <<target, inbound, lastAllocated, writes, dialled, gconn, told, match,
                       outq, heard>>
    BY <1>2 DEF Game!ReplayDone, Game!masterVars, Game!sdkVars
  <2>2. c \in Conns => w \in Wire /\ w.up = wire[c].up /\ Distinct(wire[c].up)
    <3>. HIDE DEF c
    <3>. QED
      BY <1>0 DEF GameTypes, Wire, GameInv, FramesOnce
  <2>. HIDE DEF c, w
  <2>3. UpShrinks
    BY <2>1, <2>2, OneWire DEF Up
  <2>4. accepting'.todo \in Seq(Nat)
    BY <2>1, EmptySeq DEF Game!Idle
  <2>5. GameTypes'
    BY <1>0, <2>1, <2>3, <2>4 DEF GameTypes, UpShrinks
  <2>. QED
    BY <2>1, <2>3, <2>5, Otherwise DEF GameInv
<1>. QED
  BY <1>1, <1>2

LEMMA AcceptKeeps == ASSUME GameInv, NEW c \in Conns, Game!Accept(c) PROVE GameInv'
<1>0. GameTypes /\ \A b \in Conns : wire[b] \in Wire /\ Distinct(wire[b].up)
  BY DEF GameInv, GameTypes, FramesOnce
<1>1. /\ accepting' = [c |-> c, todo |-> Game!Replay] /\ wire[c].agent = "none"
      /\ IF libaConn = 0 THEN wire' = [wire EXCEPT ![c].agent = "unread"]
         ELSE \E w \in Game!Closed(wire[libaConn]) :
                wire' = [wire EXCEPT ![c].agent = "unread", ![libaConn] = w]
      /\ UNCHANGED <<target, inbound, lastAllocated, writes, dialled, gconn, told, match,
                     outq, heard>>
  BY DEF Game!Accept, Game!masterVars, Game!sdkVars
<1>. DEFINE v == [wire[c] EXCEPT !.agent = "unread"]
<1>2. v \in Wire /\ v.up = wire[c].up
  BY <1>0 DEF Wire
<1>3. UpShrinks
  <2>1. CASE libaConn = 0
    <3>1. wire' = [wire EXCEPT ![c] = v]
      BY <1>1, <2>1
    <3>. HIDE DEF v
    <3>. QED
      BY <1>0, <1>2, <3>1, OneWire DEF Up
  <2>2. CASE libaConn # 0
    <3>1. PICK w \in Game!Closed(wire[libaConn]) :
                 wire' = [wire EXCEPT ![c].agent = "unread", ![libaConn] = w]
      BY <1>1, <2>2
    <3>2. libaConn \in Conns =>
            /\ w \in Wire /\ Distinct(w.up) /\ Range(w.up) \subseteq Range(wire[libaConn].up)
      BY <1>0, <3>1, Closes
    <3>3. wire \in [Conns -> Wire]
      BY <1>0 DEF GameTypes
    <3>4. \A b \in Conns : wire'[b] = IF b = libaConn THEN w ELSE IF b = c THEN v ELSE wire[b]
      BY <3>1, <3>3
    <3>5. DOMAIN wire' = Conns /\ wire' = [b \in DOMAIN wire' |-> wire'[b]]
      BY <3>1, <3>3
    <3>. HIDE DEF v
    <3>6. \A b \in Conns : /\ wire'[b] \in Wire /\ Distinct(wire'[b].up)
                           /\ Range(wire'[b].up) \subseteq Range(wire[b].up)
      BY <1>0, <1>2, <3>2, <3>4
    <3>. QED
      BY <3>5, <3>6 DEF UpShrinks
  <2>. QED
    BY <2>1, <2>2
<1>4. accepting'.todo \in Seq(Nat)
  <2>1. lastAllocated \in Nat /\ Game!Drain \in Nat
    BY <1>0 DEF GameTypes, Game!Drain
  <2>2. /\ (IF lastAllocated > 0 THEN <<lastAllocated>> ELSE <<>>) \in Seq(Nat)
        /\ (IF lastDrain THEN <<Game!Drain>> ELSE <<>>) \in Seq(Nat)
    BY <2>1, EmptySeq
  <2>3. Game!Replay \in Seq(Nat)
    BY <2>2, Concatenated DEF Game!Replay
  <2>. QED
    BY <1>1, <2>3
<1>5. GameTypes'
  BY <1>0, <1>1, <1>3, <1>4 DEF GameTypes, UpShrinks
<1>. QED
  BY <1>1, <1>3, <1>5, Otherwise DEF GameInv

LEMMA ReadEndsKeeps == ASSUME GameInv, NEW c \in Conns, Game!ReadEnds(c) PROVE GameInv'
<1>0. GameTypes /\ \A b \in Conns : wire[b] \in Wire /\ Distinct(wire[b].up)
  BY DEF GameInv, GameTypes, FramesOnce
<1>. DEFINE w == [wire[c] EXCEPT !.agent = "closed"]
<1>1. /\ wire' = [wire EXCEPT ![c] = w]
      /\ UNCHANGED <<target, inbound, lastAllocated, accepting, writes, dialled, gconn, told,
                     match, outq, heard>>
  BY DEF Game!ReadEnds, Game!masterVars, Game!sdkVars
<1>2. w \in Wire /\ w.up = wire[c].up
  BY <1>0 DEF Wire
<1>. HIDE DEF w
<1>3. UpShrinks
  BY <1>0, <1>1, <1>2, OneWire DEF Up
<1>4. GameTypes'
  BY <1>0, <1>1, <1>3 DEF GameTypes, UpShrinks
<1>. QED
  BY <1>1, <1>3, <1>4, Otherwise DEF GameInv

LEMMA SocketRestartKeeps == ASSUME GameInv, Game!AgentRestarts PROVE GameInv'
<1>0. GameTypes /\ \A b \in Conns : wire[b] \in Wire /\ Distinct(wire[b].up)
  BY DEF GameInv, GameTypes, FramesOnce
<1>. DEFINE W(c) == IF c > dialled THEN Game!Unused
                    ELSE [wire[c] EXCEPT !.agent = "closed", !.up = <<>>]
<1>1. /\ lastAllocated' = 0 /\ accepting' = Game!Idle
      /\ writes' = [k \in Game!Kinds |-> Game!Idle]
      /\ UNCHANGED <<target, inbound, dialled, gconn, told, match, outq, heard>>
  BY Zenon DEF Game!AgentRestarts, Game!masterVars, Game!sdkVars
<1>2. wire' = [c \in Conns |-> W(c)]
  <2>1. Game!Conns = Conns
    BY DEF Game!Conns, Conns
  <2>2. wire' = [c \in Game!Conns |-> W(c)]
    BY Zenon DEF Game!AgentRestarts
  <2>. QED
    BY <2>1, <2>2, Zenon
<1>3. \A c \in Conns : W(c) \in Wire /\ W(c).up = <<>>
  BY <1>0, EmptySeq DEF Wire, Game!Unused
<1>. HIDE DEF W
<1>4. Range(<<>>) = {} /\ Distinct(<<>>)
  BY DEF Range, Distinct
<1>5. UpShrinks
  BY <1>2, <1>3, <1>4 DEF UpShrinks
<1>6. accepting'.todo \in Seq(Nat)
  BY <1>1, EmptySeq DEF Game!Idle
<1>7. GameTypes'
  BY <1>0, <1>1, <1>5, <1>6 DEF GameTypes, UpShrinks
<1>. QED
  BY <1>1, <1>5, <1>7, Otherwise DEF GameInv

LEMMA DialKeeps == ASSUME GameInv, Game!Dial PROVE GameInv'
<1>0. GameTypes /\ \A b \in Conns : wire[b] \in Wire /\ Distinct(wire[b].up)
  BY DEF GameInv, GameTypes, FramesOnce
<1>. DEFINE c == dialled + 1
            w == [wire[c] EXCEPT !.game = TRUE]
<1>1. /\ dialled < MaxConns /\ dialled' = c /\ gconn' = c /\ wire' = [wire EXCEPT ![c] = w]
      /\ UNCHANGED <<target, inbound, lastAllocated, accepting, writes, told, match, outq, heard>>
  BY DEF Game!Dial, Game!masterVars, Game!agentVars
<1>2. c \in Conns
  BY <1>0, <1>1, AgentServicesAssumption DEF GameTypes, Conns
<1>3. w \in Wire /\ w.up = wire[c].up
  <2>. HIDE DEF c
  <2>. QED
    BY <1>0, <1>2 DEF Wire
<1>. HIDE DEF w, c
<1>4. UpShrinks
  BY <1>0, <1>1, <1>2, <1>3, OneWire DEF Up
<1>5. c \in 0 .. MaxConns
  BY <1>2, AgentServicesAssumption DEF Conns
<1>6. GameTypes'
  BY <1>0, <1>1, <1>4, <1>5 DEF GameTypes, UpShrinks
<1>. QED
  BY <1>1, <1>4, <1>6, Otherwise DEF GameInv

LEMMA GameHears == ASSUME GameInv, Game!Receive PROVE GameInv'
<1>0. GameTypes /\ told \in Seq(Nat) /\ Rising(told)
      /\ \A b \in Conns : wire[b] \in Wire /\ Distinct(wire[b].up)
  BY DEF GameInv, GameTypes, FramesOnce
<1>. DEFINE f == Head(wire[gconn].down)
            w == [wire[gconn] EXCEPT !.down = Tail(@)]
<1>1. /\ gconn # 0 /\ wire[gconn].down # <<>> /\ wire' = [wire EXCEPT ![gconn] = w]
      /\ told' = told \/ (Game!Fresh(f) /\ told' = Append(told, f))
      /\ UNCHANGED <<target, inbound, lastAllocated, accepting, writes, dialled, gconn, match,
                     outq, heard>>
  BY DEF Game!Receive, Game!masterVars, Game!agentVars
<1>2. gconn \in Conns
  BY <1>0, <1>1, AgentServicesAssumption DEF GameTypes, Conns
<1>3. wire[gconn] \in Wire /\ wire[gconn].down \in Seq(Nat)
  BY <1>0, <1>2 DEF Wire
<1>4. f \in Nat /\ Tail(wire[gconn].down) \in Seq(Nat)
  BY <1>1, <1>3, LeftFirst
<1>5. w \in Wire /\ w.up = wire[gconn].up
  BY <1>3, <1>4 DEF Wire
<1>. HIDE DEF f, w
<1>6. UpShrinks
  BY <1>0, <1>1, <1>2, <1>5, OneWire DEF Up
<1>7. told' \in Seq(Nat) /\ Rising(told')
  <2>1. CASE told' = told
    BY <1>0, <2>1
  <2>2. CASE Game!Fresh(f) /\ told' = Append(told, f)
    <3>1. \A i \in 1 .. Len(told) : told[i] < f
      <4>1. /\ Len(told) \in Nat /\ \A i \in 1 .. Len(told) : told[i] \in Nat
            /\ \A i \in 1 .. Len(told) : i = Len(told) \/ told[i] < told[Len(told)]
        <5>1. Len(told) \in Nat /\ \A i \in 1 .. Len(told) : told[i] \in Nat
          BY <1>0, LenProperties, ElementOfSeq
        <5>2. \A i \in 1 .. Len(told) :
                i = Len(told) \/ (i < Len(told) /\ Len(told) \in 1 .. Len(told))
          BY <5>1
        <5>. QED
          BY <1>0, <5>1, <5>2 DEF Rising
      <4>2. told # <<>> => told[Len(told)] < f
        BY <1>4, <2>2 DEF Game!Fresh, Game!Roster, Game!Last
      <4>3. Len(told) # 0 => told # <<>>
        OBVIOUS
      <4>4. \A i \in 1 .. Len(told) : Len(told) # 0 /\ Len(told) \in 1 .. Len(told)
        BY <4>1
      <4>5. \A x, y \in Nat : x < y /\ y < f => x < f
        BY <1>4
      <4>. QED
        BY <1>4, <4>1, <4>2, <4>3, <4>4, <4>5
    <3>2. Below(Range(told), {f})
      BY <1>0, <3>1, LenProperties DEF Range, Below
    <3>. QED
      BY <1>0, <1>4, <2>2, <3>2, Joined, StillRising
  <2>. QED
    BY <1>1, <2>1, <2>2
<1>8. GameTypes'
  BY <1>0, <1>1, <1>6 DEF GameTypes, UpShrinks
<1>. QED
  BY <1>1, <1>6, <1>7, <1>8, Otherwise

LEMMA HangUpKeeps == ASSUME GameInv, Game!Eof \/ Game!Stalls PROVE GameInv'
<1>0. GameTypes /\ \A b \in Conns : wire[b] \in Wire /\ Distinct(wire[b].up)
  BY DEF GameInv, GameTypes, FramesOnce
<1>. DEFINE w == [wire[gconn] EXCEPT !.game = FALSE, !.down = <<>>]
<1>1. /\ gconn # 0 /\ gconn' = 0 /\ outq' \in {outq, <<>>}
      /\ wire' = [wire EXCEPT ![gconn].game = FALSE, ![gconn].down = <<>>]
      /\ UNCHANGED <<target, inbound, lastAllocated, accepting, writes, dialled, told, match,
                     heard>>
  BY DEF Game!Eof, Game!Stalls, Game!HangUp, Game!masterVars, Game!agentVars
<1>2. gconn \in Conns
  BY <1>0, <1>1, AgentServicesAssumption DEF GameTypes, Conns
<1>3. wire' = [wire EXCEPT ![gconn] = w]
  <2>1. wire \in [Conns -> Wire]
    BY <1>0 DEF GameTypes
  <2>. QED
    BY <1>1, <1>2, <2>1 DEF Wire
<1>4. w \in Wire /\ w.up = wire[gconn].up
  <2>1. wire[gconn] \in Wire /\ <<>> \in Seq(Nat)
    BY <1>0, <1>2, EmptySeq
  <2>. QED
    BY <2>1 DEF Wire
<1>. HIDE DEF w
<1>5. UpShrinks
  BY <1>0, <1>2, <1>3, <1>4, OneWire DEF Up
<1>6. outq' \in Seq(MatchFrames) /\ 0 \in 0 .. MaxConns
  <2>1. outq \in Seq(MatchFrames) /\ <<>> \in Seq(MatchFrames)
    BY <1>0, EmptySeq DEF GameTypes
  <2>2. 0 \in 0 .. MaxConns
    BY AgentServicesAssumption
  <2>. QED
    BY <1>1, <2>1, <2>2
<1>7. GameTypes'
  BY <1>0, <1>1, <1>5, <1>6 DEF GameTypes, UpShrinks
<1>. QED
  BY <1>1, <1>5, <1>7, Otherwise DEF GameInv
\* A match frame is dispatched: it leaves the connection for the agent.
LEMMA ReadKeeps == ASSUME GameInv, NEW c \in Conns, Game!Read(c) PROVE GameInv'
<1>0. GameTypes /\ FramesOnce /\ wire[c] \in Wire /\ wire[c].up \in Seq(MatchFrames)
  BY DEF GameInv, GameTypes, Wire
<1>. DEFINE h == Head(wire[c].up)
            t == Tail(wire[c].up)
            w == [wire[c] EXCEPT !.up = t]
<1>1. /\ wire[c].up # <<>> /\ heard' = Append(heard, h) /\ wire' = [wire EXCEPT ![c] = w]
      /\ UNCHANGED <<target, inbound, lastAllocated, accepting, writes, dialled, gconn, told,
                     match, outq>>
  BY DEF Game!Read, Game!masterVars, Game!sdkVars
<1>2. /\ h \in MatchFrames /\ t \in Seq(MatchFrames) /\ Up(c) = Range(t) \cup {h}
      /\ Distinct(t) /\ h \notin Range(t)
  BY <1>0, <1>1, LeftFirst, RestDistinct DEF FramesOnce, Up
<1>. HIDE DEF h, t
<1>3. w \in Wire /\ w.up = t
  BY <1>0, <1>2 DEF Wire
<1>. HIDE DEF w
<1>4. wire' \in [Conns -> Wire] /\ \A b \in Conns : wire'[b] = IF b = c THEN w ELSE wire[b]
  BY <1>0, <1>1, <1>3 DEF GameTypes
<1>5. h \notin Range(heard) /\ h \notin Range(outq)
      /\ \A b \in Conns : b # c => h \notin Up(b)
  BY <1>0, <1>2 DEF FramesOnce
<1>6. /\ heard' \in Seq(MatchFrames) /\ Range(heard') = Range(heard) \cup {h}
      /\ Distinct(heard')
  BY <1>0, <1>1, <1>2, <1>5, Joined, StillDistinct DEF GameTypes, FramesOnce
<1>7. \A b \in Conns : /\ Up(b)' = IF b = c THEN Range(t) ELSE Up(b)
                       /\ Distinct(wire'[b].up)
  BY <1>0, <1>2, <1>3, <1>4 DEF Up, FramesOnce
<1>8. Used' = Used
  BY <1>1, <1>2, <1>6, <1>7 DEF Used
<1>9. FramesOnce'
  <2>1. Distinct(outq') /\ Distinct(heard') /\ \A b \in Conns : Distinct(wire'[b].up)
    BY <1>0, <1>1, <1>6, <1>7 DEF FramesOnce
  <2>2. Range(outq') \cap Range(heard') = {}
    BY <1>0, <1>1, <1>5, <1>6 DEF FramesOnce
  <2>3. \A b \in Conns : Up(b)' \subseteq Up(b) /\ h \notin Up(b)'
    BY <1>2, <1>5, <1>7
  <2>4. \A b \in Conns : Up(b)' \cap (Range(outq') \cup Range(heard')) = {}
    BY <1>0, <1>1, <1>6, <2>3 DEF FramesOnce
  <2>5. \A a, b \in Conns : a # b => Up(a)' \cap Up(b)' = {}
    BY <1>0, <2>3 DEF FramesOnce
  <2>6. (match' = "idle" => Used' = {}) /\ (match' = "playing" => "end" \notin Used')
    BY <1>0, <1>1, <1>8 DEF FramesOnce
  <2>. QED
    BY <2>1, <2>2, <2>4, <2>5, <2>6 DEF FramesOnce
<1>10. GameTypes'
  BY <1>0, <1>1, <1>4, <1>6 DEF GameTypes
<1>. QED
  BY <1>1, <1>9, <1>10 DEF GameInv

\* A match starts once and ends once, each with a frame of its own.
LEMMA PlayKeeps == ASSUME GameInv, Game!Play PROVE GameInv'
<1>0. GameTypes /\ FramesOnce
  BY DEF GameInv
<1>1. PICK e \in MatchFrames :
        /\ e \notin Used /\ outq' = Append(outq, e) /\ match' \in {"playing", "over"}
        /\ match' = "playing" => Used = {} /\ e = "start"
  <2>1. CASE /\ match = "idle" /\ match' = "playing" /\ outq' = Append(outq, "start")
    BY <1>0, <2>1 DEF FramesOnce, MatchFrames
  <2>2. CASE /\ match = "playing" /\ match' = "over" /\ outq' = Append(outq, "end")
    BY <1>0, <2>2 DEF FramesOnce, MatchFrames
  <2>. QED
    BY <2>1, <2>2 DEF Game!Play
<1>2. UNCHANGED <<target, inbound, lastAllocated, accepting, writes, wire, dialled, gconn, told,
                  heard>>
  BY DEF Game!Play, Game!masterVars, Game!agentVars
<1>3. e \notin Range(outq) /\ e \notin Range(heard) /\ \A c \in Conns : e \notin Up(c)
  BY <1>1 DEF Used
<1>4. outq' \in Seq(MatchFrames) /\ Range(outq') = Range(outq) \cup {e} /\ Distinct(outq')
  BY <1>0, <1>1, <1>3, Joined, StillDistinct DEF GameTypes, FramesOnce
<1>5. \A c \in Conns : Up(c)' = Up(c) /\ Distinct(wire'[c].up)
  BY <1>0, <1>2 DEF Up, FramesOnce
<1>6. Used' = Used \cup {e}
  BY <1>2, <1>4, <1>5 DEF Used
<1>7. FramesOnce'
  <2>1. Range(outq') \cap Range(heard') = {} /\ Distinct(heard')
    BY <1>0, <1>2, <1>3, <1>4 DEF FramesOnce
  <2>2. \A c \in Conns : Up(c)' \cap (Range(outq') \cup Range(heard')) = {}
    BY <1>0, <1>2, <1>3, <1>4, <1>5 DEF FramesOnce
  <2>3. \A b, c \in Conns : b # c => Up(b)' \cap Up(c)' = {}
    BY <1>0, <1>5 DEF FramesOnce
  <2>4. match' # "idle" /\ (match' = "playing" => "end" \notin Used')
    BY <1>1, <1>6
  <2>. QED
    BY <1>4, <1>5, <2>1, <2>2, <2>3, <2>4 DEF FramesOnce
<1>8. GameTypes'
  BY <1>0, <1>1, <1>2, <1>4 DEF GameTypes
<1>. QED
  BY <1>2, <1>7, <1>8 DEF GameInv

\* What the game has queued goes out on its connection, or is lost with it.
LEMMA FlushKeeps == ASSUME GameInv, Game!Flush PROVE GameInv'
<1>0. GameTypes /\ FramesOnce
  BY DEF GameInv
<1>1. /\ gconn # 0 /\ outq' = <<>>
      /\ UNCHANGED <<target, inbound, lastAllocated, accepting, writes, dialled, gconn, told,
                     match, heard>>
  BY DEF Game!Flush, Game!masterVars, Game!agentVars
<1>2. outq' \in Seq(MatchFrames) /\ Range(outq') = {} /\ Distinct(outq')
  BY <1>1, EmptySeq DEF Range, Distinct
<1>3. CASE wire' = wire
  <2>1. GameTypes'
    BY <1>0, <1>1, <1>2, <1>3 DEF GameTypes
  <2>. QED
    BY <1>1, <1>3, <2>1, SameWires, Otherwise DEF GameInv
<1>4. CASE wire' = [wire EXCEPT ![gconn].up = @ \o outq]
  <2>. DEFINE s == wire[gconn].up
              u == s \o outq
              w == [wire[gconn] EXCEPT !.up = u]
  <2>1. gconn \in Conns /\ wire[gconn] \in Wire /\ s \in Seq(MatchFrames)
    <3>1. gconn \in Conns
      BY <1>0, <1>1, AgentServicesAssumption DEF GameTypes, Conns
    <3>. QED
      BY <1>0, <3>1 DEF GameTypes, Wire
  <2>2. wire' = [wire EXCEPT ![gconn] = w]
    BY <1>4
  <2>3. /\ Distinct(s) /\ Distinct(outq) /\ Range(s) \cap Range(outq) = {}
        /\ outq \in Seq(MatchFrames)
    BY <1>0, <2>1 DEF FramesOnce, Up, GameTypes
  <2>. HIDE DEF s
  <2>4. u \in Seq(MatchFrames) /\ Range(u) = Range(s) \cup Range(outq) /\ Distinct(u)
    BY <2>1, <2>3, Concatenated, JoinDistinct
  <2>. HIDE DEF u
  <2>5. w \in Wire /\ w.up = u
    BY <2>1, <2>4 DEF Wire
  <2>. HIDE DEF w
  <2>6. wire' \in [Conns -> Wire] /\ \A b \in Conns : wire'[b] = IF b = gconn THEN w ELSE wire[b]
    BY <1>0, <2>2, <2>5 DEF GameTypes
  <2>7. \A b \in Conns : /\ Up(b)' = IF b = gconn THEN Up(b) \cup Range(outq) ELSE Up(b)
                         /\ Distinct(wire'[b].up)
    BY <1>0, <2>4, <2>5, <2>6 DEF Up, FramesOnce, s
  <2>8. Used' = Used
    BY <1>1, <1>2, <2>1, <2>7 DEF Used
  <2>9. FramesOnce'
    <3>1. Distinct(heard') /\ Range(outq') \cap Range(heard') = {}
      BY <1>0, <1>1, <1>2 DEF FramesOnce
    <3>2. \A b \in Conns : Up(b)' \cap (Range(outq') \cup Range(heard')) = {}
      BY <1>0, <1>1, <1>2, <2>7 DEF FramesOnce
    <3>3. \A a, b \in Conns : a # b => Up(a)' \cap Up(b)' = {}
      BY <1>0, <2>7 DEF FramesOnce
    <3>4. (match' = "idle" => Used' = {}) /\ (match' = "playing" => "end" \notin Used')
      BY <1>0, <1>1, <2>8 DEF FramesOnce
    <3>. QED
      BY <1>2, <2>7, <3>1, <3>2, <3>3, <3>4 DEF FramesOnce
  <2>10. GameTypes'
    BY <1>0, <1>1, <1>2, <2>6 DEF GameTypes
  <2>. QED
    BY <1>1, <2>9, <2>10 DEF GameInv
<1>. QED
  BY <1>3, <1>4 DEF Game!Flush

LEMMA GameStep == ASSUME GameInv, Game!Next PROVE GameInv'
<1>1. Game!Conns = Conns
  BY DEF Game!Conns, Conns
<1>2. CASE Game!AgentSteps
  BY <1>1, <1>2, RememberKeeps, WriteKeeps, ReplayKeeps, AcceptKeeps, ReadKeeps, ReadEndsKeeps
     DEF Game!AgentSteps
<1>3. CASE Game!GameSteps
  BY <1>3, DialKeeps, GameHears, FlushKeeps, HangUpKeeps DEF Game!GameSteps
<1>4. CASE Game!MasterSteps
  BY <1>4, MasterKeeps DEF Game!MasterSteps
<1>. QED
  BY <1>2, <1>3, <1>4, PlayKeeps, HangUpKeeps, SocketRestartKeeps DEF Game!Next

LEMMA GameHolds == GameInv => Game!RostersGrow
<1>. SUFFICES ASSUME GameInv PROVE Game!RostersGrow
  OBVIOUS
<1>1. /\ told \in Seq(Nat) /\ Rising(told) /\ heard \in Seq(MatchFrames) /\ Distinct(heard)
  BY DEF GameInv, GameTypes, FramesOnce
<1>2. DOMAIN told = 1 .. Len(told) /\ DOMAIN heard = 1 .. Len(heard)
  BY <1>1, LenProperties
<1>3. Game!IsInjective(heard)
  BY <1>1, <1>2 DEF Game!IsInjective, Distinct
<1>. QED
  BY <1>1, <1>2, <1>3 DEF Game!RostersGrow, Rising

-----------------------------------------------------------------------------
(* The services together.                                                  *)

AgentInv ==
    /\ part = "game" => GameInv
    /\ part = "outbox" => OutboxInv
    /\ part = "logs" => LogInv
    /\ part = "upgrade" => UpgradeInv

LEMMA AgentStart == Init => AgentInv
BY GameStart, OutboxStart, LogsStart, UpgradeStart DEF Init, AgentInv

\* Where nothing moves, the invariant of the part stays as it was.
LEMMA GameStutter == ASSUME GameInv, UNCHANGED gameVars PROVE GameInv'
<1>1. GameTypes'
  BY DEF gameVars, GameInv, GameTypes
<1>. QED
  BY <1>1, SameWires, Otherwise DEF gameVars, GameInv

LEMMA OutboxStutter == ASSUME OutboxInv, UNCHANGED outboxVars PROVE OutboxInv'
BY DEF outboxVars, OutboxInv, OutboxTypes, QueueInOrder, StreamsInOrder, HandledInOrder,
       SentIsBehind, AllAccounted, Events!Streams, Events!Follows

LEMMA LogsStutter == ASSUME LogInv, UNCHANGED logVars PROVE LogInv'
BY DEF logVars, LogInv, FilesHold, PathRises, CommandsHold, TailHolds, Seen

LEMMA UpgradeStutter == ASSUME UpgradeInv, UNCHANGED upgradeVars PROVE UpgradeInv'
BY DEF upgradeVars, UpgradeInv, UpgradeTypes, SwapsOnce

LEMMA AgentStep == ASSUME AgentInv, [Next]_services PROVE AgentInv'
<1>. USE DEF AgentInv
<1>1. CASE UNCHANGED services
  <2>1. part' = part /\ UNCHANGED <<gameVars, outboxVars, logVars, upgradeVars>>
    BY <1>1 DEF services
  <2>. QED
    BY <2>1, GameStutter, OutboxStutter, LogsStutter, UpgradeStutter
<1>2. CASE Next
  <2>1. part' = part
    BY <1>2 DEF Next, Frame
  <2>2. /\ part = "game" => Game!Next
        /\ part = "outbox" => Events!Next
        /\ part = "logs" => Logs!Next
        /\ part = "upgrade" => Upgrades!Next
    BY <1>2 DEF Next
  <2>. QED
    BY <2>1, <2>2, GameStep, OutboxStep, LogStep, UpgradeStep
<1>. QED
  BY <1>1, <1>2

THEOREM AgentServicesSafe == Spec => []AgentInv
<1>. QED
  BY AgentStart, AgentStep, PTL DEF Spec

LEMMA AllButUpgradesHold ==
    AgentInv => /\ part = "game" => Game!RostersGrow
                /\ part = "outbox" => Events!QueuedUntilSent /\ Events!EventsInOrder
                /\ part = "logs" => Logs!FollowedOnce
BY GameHolds, OutboxHolds, LogsHold DEF AgentInv

\* Where one release is asked for, however often: a game is told its rosters in
\* growing order and its match frames are heard once (uds/server.go, the SDK's
\* link.cpp), the events of the agent arrive in order and leave its queue sent
\* or evicted only (link/outbox.go), a client that follows a log sees each line
\* once, after the backlog (daemon/manager.go, logrot/stream.go), and the agent
\* restarts for the release once (upgrade/upgrade.go), whatever is replayed,
\* redelivered, rotated, restarted or broken off between.
THEOREM ArrivesOnceAndInOrder == ASSUME OneRelease PROVE Spec => []OnceAndInOrder
<1>1. AgentInv => OnceAndInOrder
  <2>1. UpgradeInv => Upgrades!UpgradedOnce
    BY UpgradeHolds DEF Upgrades!UpgradedOnce
  <2>. QED
    BY <2>1, AllButUpgradesHold DEF AgentInv, OnceAndInOrder
<1>. QED
  BY <1>1, AgentServicesSafe, PTL

\* The same of the socket, the outbox and the logs for any releases: only the
\* upgrade needs that one is asked for, for a command that is replayed is
\* compared with what runs and not with what was asked for last.
THEOREM SocketOutboxAndLogsKeepOrder == Spec => [](part # "upgrade" => OnceAndInOrder)
<1>1. AgentInv => (part # "upgrade" => OnceAndInOrder)
  BY AllButUpgradesHold DEF OnceAndInOrder
<1>. QED
  BY <1>1, AgentServicesSafe, PTL

\* Whatever releases are asked for, and wherever the agent is killed, the binary
\* it starts from is whole (upgrade/upgrade.go: a rename of a verified file).
THEOREM BinaryIsWhole == Spec => [](part = "upgrade" => disk # "torn")
<1>1. AgentInv => (part = "upgrade" => disk # "torn")
  BY UpgradeHolds DEF AgentInv
<1>. QED
  BY <1>1, AgentServicesSafe, PTL


=============================================================================
