-------------------------- MODULE AgentLinkProofs --------------------------
(***************************************************************************)
(* Proofs about the agent link, for any number of commands, sessions and   *)
(* faults, any capacity of the channels and any size of the cmd_id window. *)
(*                                                                         *)
(* The inductive invariant, by what needs it:                              *)
(*   - types: the cmd_id of a snapshot stays in its range because each     *)
(*     attach and each change of the table queues one at most (Budget);    *)
(*   - delivery: acks, the window and the commands in hand were taken      *)
(*     (AcksAreTaken), so an ack settles only what was delivered;          *)
(*   - at most once: the window holds all this process took until there    *)
(*     are more than it has room for (WindowCovers);                       *)
(*   - the registries: the last snapshot queued is the table as it is      *)
(*     (ReadersCurrent), is new on the wire (IdsBounded), is the last on   *)
(*     its session's channel, and stays pending until it is held           *)
(*     (NewestArrives).                                                    *)
(***************************************************************************)
EXTENDS AgentLink, FiniteSetTheorems, SequenceTheorems, TLAPS

-----------------------------------------------------------------------------
(* Sequences.                                                              *)

\* A set of indices has a least element.
LEMMA Least ==
    ASSUME NEW n \in Nat, NEW S \in SUBSET (0 .. n), S # {}
    PROVE  \E m \in S : \A y \in S : m <= y
<1>. DEFINE Below(x) == {y \in S : y < x}
            T == {Below(x) : x \in S}
            R == StrictSubsetOrdering(S)
<1>1. IsFiniteSet(S)
  <2>1. IsFiniteSet(0 .. n)
    BY FS_Interval
  <2>. QED
    BY <2>1, FS_Subset
<1>2. S \subseteq Int
  OBVIOUS
<1>3. IsWellFoundedOn(R, FiniteSubsetsOf(S))
  BY FS_StrictSubsetOrderingWellFounded
<1>4. T \subseteq FiniteSubsetsOf(S) /\ T # {}
  <2>1. T \subseteq SUBSET S /\ T # {}
    OBVIOUS
  <2>2. FiniteSubsetsOf(S) = SUBSET S
    BY <1>1, FS_FiniteSubsetsOfFinite
  <2>. QED
    BY <2>1, <2>2
<1>5. PICK m \in T : \A k \in T : <<k, m>> \notin R
  <2>. HIDE DEF T, R
  <2>. QED BY <1>3, <1>4, WFMin
<1>6. PICK x \in S : m = Below(x)
  OBVIOUS
<1>7. ASSUME NEW y \in S, y < x PROVE FALSE
  <2>1. Below(y) \subseteq Below(x) /\ y \in Below(x) /\ y \notin Below(y)
    <3>1. \A z \in S : z < y => z < x
      BY <1>2, <1>7
    <3>2. ~(y < y)
      BY <1>2
    <3>. QED
      BY <1>7, <3>1, <3>2
  <2>2. <<Below(y), Below(x)>> \in R
    BY <2>1 DEF StrictSubsetOrdering
  <2>. QED
    BY <1>5, <1>6, <2>2
<1>. QED
  BY <1>2, <1>7

\* The elements of a sequence that grows or shrinks at its ends.
LEMMA Elements ==
    ASSUME NEW W, NEW s \in Seq(W)
    PROVE  /\ ToSet(s) \subseteq W /\ ToSet(<<>>) = {}
           /\ \A x \in W : /\ Append(s, x) \in Seq(W)
                           /\ ToSet(Append(s, x)) = ToSet(s) \cup {x}
           /\ s # <<>> => /\ Head(s) \in ToSet(s) /\ Tail(s) \in Seq(W)
                         /\ ToSet(Tail(s)) \subseteq ToSet(s)
           /\ \A c : Contains(s, c) <=> c \in ToSet(s)
<1>. USE DEF ToSet
<1>1. ToSet(s) \subseteq W /\ ToSet(<<>>) = {}
  OBVIOUS
<1>2. ASSUME NEW x \in W
      PROVE  Append(s, x) \in Seq(W) /\ ToSet(Append(s, x)) = ToSet(s) \cup {x}
  <2>1. /\ Append(s, x) \in Seq(W) /\ DOMAIN Append(s, x) = 1 .. Len(s) + 1
        /\ \A i \in 1 .. Len(s) : Append(s, x)[i] = s[i]
        /\ Append(s, x)[Len(s) + 1] = x
    BY AppendProperties
  <2>2. DOMAIN s = 1 .. Len(s) /\ Len(s) \in Nat
    OBVIOUS
  <2>3. \A i \in 1 .. Len(s) + 1 : i \in 1 .. Len(s) \/ i = Len(s) + 1
    BY <2>2
  <2>4. Len(s) + 1 \in 1 .. Len(s) + 1 /\ 1 .. Len(s) \subseteq 1 .. Len(s) + 1
    BY <2>2
  <2>. QED
    BY <2>1, <2>2, <2>3, <2>4
<1>3. ASSUME s # <<>>
      PROVE  Head(s) \in ToSet(s) /\ Tail(s) \in Seq(W) /\ ToSet(Tail(s)) \subseteq ToSet(s)
  <2>1. /\ Head(s) = s[1] /\ Tail(s) \in Seq(W) /\ Len(Tail(s)) = Len(s) - 1
        /\ \A i \in 1 .. Len(Tail(s)) : Tail(s)[i] = s[i + 1]
    BY <1>3, HeadTailProperties
  <2>2. Len(s) \in Nat /\ Len(s) # 0 /\ DOMAIN s = 1 .. Len(s) /\ DOMAIN Tail(s) = 1 .. Len(Tail(s))
    BY <1>3, <2>1
  <2>3. \A i \in 1 .. Len(s) - 1 : i + 1 \in 1 .. Len(s)
    BY <2>2
  <2>. QED
    BY <2>1, <2>2, <2>3
<1>4. \A c : Contains(s, c) <=> c \in ToSet(s)
  BY DEF Contains
<1>. QED
  BY <1>1, <1>2, <1>3, <1>4

\* What Only keeps: a sequence of the elements of q that are in T.
LEMMA OnlyKeeps ==
    ASSUME NEW W, NEW q \in Seq(W), NEW T
    PROVE  Only(q, T) \in Seq(W) /\ ToSet(Only(q, T)) = ToSet(q) \cap T
<1>. DEFINE Body(f, i) == IF i = 0 THEN <<>>
                          ELSE IF q[i] \in T THEN Append(f[i - 1], q[i]) ELSE f[i - 1]
            Solves(f, n) == f = [i \in 0 .. n |-> Body(f, i)]
            Upto(n) == {q[j] : j \in 1 .. n}
<1>0. Len(q) \in Nat
  OBVIOUS
<1>1. ASSUME NEW n \in 0 .. Len(q) PROVE \E f : Solves(f, n)
  <2>. DEFINE Bad == {k \in 0 .. Len(q) : ~ \E f : Solves(f, k)}
  <2>. SUFFICES ASSUME Bad # {} PROVE FALSE
    OBVIOUS
  <2>1. PICK k \in Bad : \A y \in Bad : k <= y
    <3>. HIDE DEF Bad
    <3>1. Bad \in SUBSET (0 .. Len(q))
      BY DEF Bad
    <3>. QED BY <1>0, <3>1, Least
  <2>2. k # 0
    <3>1. Solves([i \in 0 .. 0 |-> <<>>], 0)
      OBVIOUS
    <3>. QED BY <3>1
  <2>3. k - 1 \in 0 .. Len(q) /\ k - 1 \notin Bad
    <3>1. k \in 1 .. Len(q) /\ k - 1 \in 0 .. Len(q) /\ ~(k <= k - 1)
      BY <1>0, <2>2
    <3>. QED
      BY <2>1, <3>1
  <2>4. PICK f : Solves(f, k - 1)
    BY <2>3
  <2>. DEFINE g == [i \in 0 .. k |-> IF i = k THEN Body(f, k) ELSE f[i]]
  <2>5. \A i \in 0 .. k - 1 : g[i] = f[i]
    OBVIOUS
  <2>6. \A i \in 0 .. k : g[i] = Body(g, i)
    <3>1. ASSUME NEW i \in 0 .. k, i # k PROVE g[i] = Body(g, i)
      <4>1. i \in 0 .. k - 1 /\ (i # 0 => i - 1 \in 0 .. k - 1)
        BY <3>1
      <4>2. g[i] = Body(f, i)
        BY <2>4, <2>5, <4>1
      <4>. QED
        BY <2>5, <4>1, <4>2
    <3>2. g[k] = Body(g, k)
      <4>1. k - 1 \in 0 .. k - 1 /\ k \in 0 .. k
        BY <2>2
      <4>. QED
        BY <2>5, <4>1
    <3>. QED
      BY <3>1, <3>2
  <2>7. Solves(g, k)
    BY <2>6
  <2>. QED
    BY <2>1, <2>7
<1>. DEFINE only == CHOOSE f : Solves(f, Len(q))
<1>2. Only(q, T) = only[Len(q)]
  BY DEF Only
<1>3. Solves(only, Len(q))
  <2>1. \E f : Solves(f, Len(q))
    <3>. HIDE DEF Solves
    <3>1. Len(q) \in 0 .. Len(q)
      BY <1>0
    <3>. QED BY <1>1, <3>1
  <2>. HIDE DEF Solves
  <2>. QED BY <2>1
<1>4. \A i \in 0 .. Len(q) : only[i] = Body(only, i)
  <2>. HIDE DEF only
  <2>. QED BY <1>3
<1>. DEFINE Good(i) == only[i] \in Seq(W) /\ ToSet(only[i]) = Upto(i) \cap T
<1>5. ASSUME NEW n \in 0 .. Len(q) PROVE Good(n)
  <2>. HIDE DEF only
  <2>. DEFINE Bad == {k \in 0 .. Len(q) : ~Good(k)}
  <2>. SUFFICES ASSUME Bad # {} PROVE FALSE
    OBVIOUS
  <2>1. PICK k \in Bad : \A y \in Bad : k <= y
    <3>. HIDE DEF Bad
    <3>1. Bad \in SUBSET (0 .. Len(q))
      BY DEF Bad
    <3>. QED BY <1>0, <3>1, Least
  <2>2. k # 0
    <3>1. only[0] = <<>>
      BY <1>0, <1>4
    <3>2. Upto(0) = {}
      OBVIOUS
    <3>3. Good(0)
      BY <3>1, <3>2 DEF ToSet
    <3>. QED BY <3>3
  <2>3. k - 1 \in 0 .. Len(q) /\ k - 1 \notin Bad /\ k \in 1 .. Len(q)
    <3>1. k \in 1 .. Len(q) /\ k - 1 \in 0 .. Len(q) /\ ~(k <= k - 1)
      BY <1>0, <2>2
    <3>. QED
      BY <2>1, <3>1
  <2>4. only[k - 1] \in Seq(W) /\ ToSet(only[k - 1]) = Upto(k - 1) \cap T
    BY <2>3
  <2>5. Upto(k) = Upto(k - 1) \cup {q[k]}
    BY <2>3
  <2>6. only[k] = IF q[k] \in T THEN Append(only[k - 1], q[k]) ELSE only[k - 1]
    BY <1>4, <2>2, <2>3
  <2>7. q[k] \in W
    BY <2>3
  <2>8. ToSet(Append(only[k - 1], q[k])) = ToSet(only[k - 1]) \cup {q[k]}
    BY <2>4, <2>7, Elements
  <2>9. Good(k)
    <3>. HIDE DEF Upto
    <3>. QED BY <2>4, <2>5, <2>6, <2>7, <2>8
  <2>. QED
    BY <2>1, <2>9
<1>6. Upto(Len(q)) = ToSet(q)
  BY DEF ToSet
<1>. QED
  <2>. HIDE DEF only, Upto
  <2>. QED BY <1>0, <1>2, <1>5, <1>6

\* The registries are taken out of a queue; everything else stays.
LEMMA PlainKept ==
    ASSUME NEW q \in Seq(Wire)
    PROVE  /\ RemoveSetRegistries(q) \in Seq(Wire)
           /\ ToSet(RemoveSetRegistries(q)) = {c \in ToSet(q) : ~IsSetRegistries(c)}
<1>. DEFINE T == {c \in ToSet(q) : ~IsSetRegistries(c)}
<1>1. Only(q, T) \in Seq(Wire) /\ ToSet(Only(q, T)) = ToSet(q) \cap T
  <2>. HIDE DEF T
  <2>. QED BY OnlyKeeps
<1>. QED
  BY <1>1 DEF RemoveSetRegistries

\* The backlog that is pushed into a new channel.
LEMMA PushedAll ==
    ASSUME NEW q \in Seq(Wire)
    PROVE  /\ PushAll(q) \in Seq(Wire) /\ Len(PushAll(q)) <= ChannelCap
           /\ DOMAIN PushAll(q) \subseteq DOMAIN q
           /\ \A i \in DOMAIN PushAll(q) : PushAll(q)[i] = q[i]
           /\ ToSet(PushAll(q)) \subseteq ToSet(q)
<1>. DEFINE n == IF Len(q) < ChannelCap THEN Len(q) ELSE ChannelCap
<1>1. n \in Nat /\ n <= Len(q) /\ n <= ChannelCap /\ Len(q) \in Nat
  BY AgentLinkAssumption
<1>2. \A i \in 1 .. n : q[i] \in Wire /\ i \in DOMAIN q
  BY <1>1
<1>3. PushAll(q) = SubSeq(q, 1, n)
  BY DEF PushAll
<1>. HIDE DEF n
<1>4. /\ SubSeq(q, 1, n) \in Seq(Wire)
      /\ Len(SubSeq(q, 1, n)) = IF 1 <= n THEN n - 1 + 1 ELSE 0
      /\ \A i \in 1 .. n - 1 + 1 : SubSeq(q, 1, n)[i] = q[1 + i - 1]
  BY <1>1, <1>2, SubSeqProperties
<1>5. Len(SubSeq(q, 1, n)) = n /\ DOMAIN SubSeq(q, 1, n) = 1 .. n
  BY <1>1, <1>4
<1>6. \A i \in 1 .. n : SubSeq(q, 1, n)[i] = q[i]
  BY <1>1, <1>4
<1>. QED
  BY <1>1, <1>2, <1>3, <1>4, <1>5, <1>6, AgentLinkAssumption DEF ToSet

\* A command that is put in front of a queue.
LEMMA InFront ==
    ASSUME NEW q \in Seq(Wire), NEW c \in Wire
    PROVE  /\ <<c>> \o q \in Seq(Wire) /\ ToSet(<<c>> \o q) = {c} \cup ToSet(q)
           /\ (<<c>> \o q)[1] = c
           /\ \A i \in DOMAIN (<<c>> \o q) : i > 1 => (<<c>> \o q)[i] \in ToSet(q)
<1>1. <<c>> \in Seq(Wire) /\ Len(<<c>>) = 1 /\ <<c>>[1] = c
  OBVIOUS
<1>2. /\ <<c>> \o q \in Seq(Wire) /\ Len(<<c>> \o q) = 1 + Len(q)
      /\ \A i \in 1 .. 1 + Len(q) : (<<c>> \o q)[i] = IF i <= 1 THEN c ELSE q[i - 1]
  BY <1>1, ConcatProperties
<1>3. Len(q) \in Nat /\ DOMAIN q = 1 .. Len(q) /\ DOMAIN (<<c>> \o q) = 1 .. 1 + Len(q)
  BY <1>2
<1>4. \A i \in 1 .. Len(q) : i + 1 \in 1 .. 1 + Len(q) /\ ~(i + 1 <= 1) /\ i + 1 - 1 = i
  BY <1>3
<1>5. 1 \in 1 .. 1 + Len(q) /\ \A i \in 1 .. 1 + Len(q) : i > 1 => i - 1 \in 1 .. Len(q) /\ ~(i <= 1)
  BY <1>3
<1>6. \A i \in 1 .. 1 + Len(q) : i <= 1 \/ i > 1
  BY <1>3
<1>. DEFINE p == <<c>> \o q
<1>7. p[1] = c
  BY <1>2, <1>5
<1>8. \A i \in 1 .. Len(q) : p[i + 1] = q[i]
  BY <1>2, <1>4
<1>9. \A i \in DOMAIN p : i > 1 => p[i] \in ToSet(q)
  BY <1>2, <1>3, <1>5 DEF ToSet
<1>10. ToSet(p) = {c} \cup ToSet(q)
  <2>1. ASSUME NEW x \in ToSet(p) PROVE x \in {c} \cup ToSet(q)
    <3>1. PICK i \in DOMAIN p : x = p[i]
      BY <2>1 DEF ToSet
    <3>2. i \in 1 .. 1 + Len(q)
      BY <1>3, <3>1
    <3>. HIDE DEF p
    <3>3. CASE i <= 1
      <4>1. i = 1
        BY <1>3, <3>2, <3>3
      <4>. QED
        BY <1>7, <3>1, <4>1
    <3>4. CASE i > 1
      BY <1>9, <3>1, <3>4
    <3>. QED
      BY <1>6, <3>2, <3>3, <3>4
  <2>2. c \in ToSet(p)
    <3>1. 1 \in DOMAIN p
      BY <1>3, <1>5
    <3>. QED
      BY <1>7, <3>1 DEF ToSet
  <2>3. \A x \in ToSet(q) : x \in ToSet(p)
    <3>1. \A i \in 1 .. Len(q) : i + 1 \in DOMAIN p
      BY <1>3, <1>4
    <3>. HIDE DEF p
    <3>. QED
      BY <1>3, <1>8, <3>1 DEF ToSet
  <2>. QED
    BY <2>1, <2>2, <2>3
<1>. QED
  BY <1>2, <1>7, <1>9, <1>10

-----------------------------------------------------------------------------
(* The invariant.                                                          *)

\* Sessions whose handler has not attached yet.
Unattached == {s \in Sessions : serve[s] \in {"none", "hello"}}

\* A broadcast that has read the table and not queued what it read.
Reading == IF reader[Broadcast] # -1 THEN 1 ELSE 0

\* One snapshot for each attach and each change is all there can be.
Budget ==
    /\ \A s \in Sessions : s > opened => serve[s] = "none"
    /\ owing + Reading <= regs
    /\ queued[1] + Cardinality(Unattached) + owing + Reading <= MaxSessions + regs

LEMMA BudgetLeft ==
    ASSUME TypeOK, Budget
    PROVE  /\ IsFiniteSet(Unattached) /\ Cardinality(Unattached) \in Nat
           /\ Reading \in {0, 1}
           /\ \A s \in Unattached : queued[1] + 1 <= MaxSessions + MaxChanges
           /\ reader[Broadcast] # -1 => queued[1] + 1 <= MaxSessions + MaxChanges
<1>1. IsFiniteSet(Unattached) /\ Cardinality(Unattached) \in Nat
  <2>1. IsFiniteSet(Sessions)
    BY FS_Interval, AgentLinkAssumption DEF Sessions
  <2>. QED
    BY <2>1, FS_Subset, FS_CardinalityType DEF Unattached
<1>2. \A s \in Unattached : Cardinality(Unattached) >= 1
  BY <1>1, FS_EmptySet
<1>3. queued[1] \in Int /\ owing \in Nat /\ regs \in Int /\ regs <= MaxChanges
  BY AgentLinkAssumption DEF TypeOK
<1>4. Reading \in {0, 1} /\ (reader[Broadcast] # -1 => Reading = 1)
  BY DEF Reading
<1>. QED
  BY <1>1, <1>2, <1>3, <1>4, AgentLinkAssumption DEF Budget

\* The snapshot of an attach or of a broadcast is on the wire's alphabet.
LEMMA SnapshotTypes ==
    ASSUME TypeOK, Budget, NEW r \in 0 .. MaxSessions, reader[r] # -1,
           queued[1] + 1 <= MaxSessions + MaxChanges
    PROVE  /\ Snapshot(reader[r]) \in Snapshots /\ Snapshot(reader[r]) \in Wire
           /\ Snapshot(reader[r]) \in (0 .. MaxSessions + MaxChanges) \X (0 .. MaxChanges)
           /\ IsSetRegistries(Snapshot(reader[r]))
<1>1. reader[r] \in 0 .. MaxChanges
  BY AgentLinkAssumption DEF TypeOK
<1>2. queued[1] + 1 \in 1 .. MaxSessions + MaxChanges /\ queued[1] + 1 \in 0 .. MaxSessions + MaxChanges
  <2>1. queued \in (0 .. MaxSessions + MaxChanges) \X (0 .. MaxChanges)
    BY DEF TypeOK
  <2>2. queued[1] \in 0 .. MaxSessions + MaxChanges
    BY <2>1
  <2>. QED
    BY <2>2, AgentLinkAssumption
<1>. QED
  BY <1>1, <1>2, AgentLinkAssumption DEF Snapshot, Snapshots, Wire, IsSetRegistries

\* Plain commands carry no registries, snapshots do.
LEMMA Kinds ==
    /\ \A c \in Commands : ~IsSetRegistries(c)
    /\ \A c \in Snapshots : IsSetRegistries(c)
    /\ \A c \in Wire : c \in Snapshots <=> IsSetRegistries(c)
    /\ ~IsSetRegistries(NoCommand) /\ NoCommand \notin Wire
BY AgentLinkAssumption DEF Commands, Snapshots, Wire, IsSetRegistries, NoCommand

LEMMA PushTypes ==
    ASSUME NEW q \in Seq(Wire), Len(q) <= ChannelCap, NEW c \in Wire
    PROVE  Push(q, c) \in Seq(Wire) /\ Len(Push(q, c)) <= ChannelCap
BY AppendProperties, AgentLinkAssumption DEF Push

LEMMA PushLiveTypes ==
    ASSUME TypeOK, NEW c \in Wire, PushLive(c)
    PROVE  /\ chan' \in [Sessions -> Seq(Wire)] /\ \A s \in Sessions : Len(chan'[s]) <= ChannelCap
           /\ \A s \in Sessions : chan'[s] = IF sess = s /\ sess # None THEN Push(chan[s], c) ELSE chan[s]
           /\ deferred' \subseteq Commands
<1>1. chan' = IF sess = None THEN chan ELSE [chan EXCEPT ![sess] = Push(chan[sess], c)]
  BY DEF PushLive
<1>2. deferred' \subseteq Commands
  BY DEF PushLive, TypeOK
<1>. QED
  BY <1>1, <1>2, PushTypes DEF TypeOK, None

\* Both kinds of attach hand a backlog to the new session's channel.
LEMMA AttachTypes ==
    ASSUME TypeOK, NEW s \in Sessions, NEW backlog \in Seq(Wire), AttachWith(s, backlog)
    PROVE  /\ pending' \in Seq(Wire) /\ sess' \in {None} \cup Sessions
           /\ serve' \in [Sessions -> {"none", "hello", "attached", "replaced", "gone"}]
           /\ chan' \in [Sessions -> Seq(Wire)] /\ \A t \in Sessions : Len(chan'[t]) <= ChannelCap
           /\ deferred' \subseteq Commands
<1>1. PushAll(backlog) \in Seq(Wire) /\ Len(PushAll(backlog)) <= ChannelCap
  BY PushedAll
<1>2. /\ pending' = backlog /\ sess' = s
      /\ chan' = [chan EXCEPT ![s] = PushAll(backlog)]
  BY DEF AttachWith
<1>3. serve' \in [Sessions -> {"none", "hello", "attached", "replaced", "gone"}]
  BY DEF AttachWith, TypeOK
<1>4. chan' \in [Sessions -> Seq(Wire)] /\ \A t \in Sessions : Len(chan'[t]) <= ChannelCap
  BY <1>1, <1>2 DEF TypeOK
<1>5. deferred' \subseteq Commands
  BY DEF AttachWith
<1>. QED
  BY <1>2, <1>3, <1>4, <1>5

\* The channel and the ack queue of a session whose loop acknowledges.
LEMMA AckTypes ==
    ASSUME TypeOK, NEW s \in Sessions, NEW c \in Wire, Acknowledge(s, c)
    PROVE  /\ up' \in [Sessions -> Seq(Wire)]
           /\ \A t \in Sessions : ToSet(up'[t]) \subseteq ToSet(up[t]) \cup {c}
<1>1. Append(up[s], c) \in Seq(Wire) /\ ToSet(Append(up[s], c)) = ToSet(up[s]) \cup {c}
  BY Elements DEF TypeOK
<1>2. up' = up \/ up' = [up EXCEPT ![s] = Append(up[s], c)]
  BY DEF Acknowledge
<1>. QED
  BY <1>1, <1>2 DEF TypeOK

\* The window after a command is remembered.
LEMMA WindowTypes ==
    ASSUME TypeOK, NEW c \in Wire
    PROVE  /\ Remember(c) \in Seq(Wire) /\ Len(Remember(c)) <= SeenCap
           /\ ToSet(Remember(c)) \subseteq ToSet(seen) \cup {c}
<1>1. seen \in Seq(Wire) /\ Len(seen) <= SeenCap
  BY DEF TypeOK
<1>2. CASE Len(seen) < SeenCap
  <2>1. Append(seen, c) \in Seq(Wire) /\ ToSet(Append(seen, c)) = ToSet(seen) \cup {c}
    BY <1>1, Elements
  <2>2. Len(Append(seen, c)) = Len(seen) + 1
    BY <1>1, AppendProperties
  <2>. QED
    BY <1>1, <1>2, <2>1, <2>2, AgentLinkAssumption DEF Remember
<1>3. CASE ~(Len(seen) < SeenCap)
  <2>1. seen # <<>>
    BY <1>1, <1>3, AgentLinkAssumption
  <2>2. Tail(seen) \in Seq(Wire) /\ ToSet(Tail(seen)) \subseteq ToSet(seen)
    BY <1>1, <2>1, Elements
  <2>3. Append(Tail(seen), c) \in Seq(Wire) /\ ToSet(Append(Tail(seen), c)) = ToSet(Tail(seen)) \cup {c}
    <3>. DEFINE rest == Tail(seen)
    <3>1. rest \in Seq(Wire)
      BY <2>2
    <3>. HIDE DEF rest
    <3>2. Append(rest, c) \in Seq(Wire) /\ ToSet(Append(rest, c)) = ToSet(rest) \cup {c}
      BY <3>1, Elements
    <3>. QED
      BY <3>2 DEF rest
  <2>4. Len(Tail(seen)) = Len(seen) - 1 /\ Len(Append(Tail(seen), c)) = Len(Tail(seen)) + 1
    BY <1>1, <2>1, <2>2, HeadTailProperties, AppendProperties
  <2>5. Len(Append(Tail(seen), c)) <= SeenCap
    BY <1>1, <2>4, AgentLinkAssumption
  <2>6. Remember(c) = Append(Tail(seen), c)
    BY <1>3 DEF Remember
  <2>. QED
    BY <2>2, <2>3, <2>5, <2>6
<1>. QED
  BY <1>2, <1>3

\* The backlogs of the three kinds of attach.
LEMMA BacklogTypes ==
    ASSUME TypeOK, Budget
    PROVE  /\ pending \in Seq(Wire) /\ RemoveSetRegistries(pending) \in Seq(Wire)
           /\ \A s \in Sessions : AttachTrusted(s) =>
                /\ Snapshot(reader[s]) \in Snapshots /\ Snapshot(reader[s]) \in Wire
                /\ Snapshot(reader[s]) \in (0 .. MaxSessions + MaxChanges) \X (0 .. MaxChanges)
                /\ IsSetRegistries(Snapshot(reader[s]))
                /\ Prefaced(Snapshot(reader[s])) \in Seq(Wire)
<1>1. pending \in Seq(Wire)
  BY DEF TypeOK
<1>2. RemoveSetRegistries(pending) \in Seq(Wire)
  BY <1>1, PlainKept
<1>3. ASSUME NEW s \in Sessions, AttachTrusted(s)
      PROVE  /\ Snapshot(reader[s]) \in Snapshots /\ Snapshot(reader[s]) \in Wire
             /\ Snapshot(reader[s]) \in (0 .. MaxSessions + MaxChanges) \X (0 .. MaxChanges)
             /\ IsSetRegistries(Snapshot(reader[s]))
             /\ Prefaced(Snapshot(reader[s])) \in Seq(Wire)
  <2>1. s \in Unattached /\ reader[s] # -1 /\ s \in 0 .. MaxSessions
    BY <1>3, AgentLinkAssumption DEF AttachTrusted, Unattached, Sessions
  <2>2. queued[1] + 1 <= MaxSessions + MaxChanges
    BY <2>1, BudgetLeft
  <2>3. /\ Snapshot(reader[s]) \in Snapshots /\ Snapshot(reader[s]) \in Wire
        /\ Snapshot(reader[s]) \in (0 .. MaxSessions + MaxChanges) \X (0 .. MaxChanges)
        /\ IsSetRegistries(Snapshot(reader[s]))
    BY <2>1, <2>2, SnapshotTypes
  <2>4. Prefaced(Snapshot(reader[s])) \in Seq(Wire)
    BY <1>2, <2>3, InFront DEF Prefaced
  <2>. QED
    BY <2>3, <2>4
<1>. QED
  BY <1>1, <1>2, <1>3


\* A fault and a change of one reader stay within their bounds.
LEMMA FaultTypes ==
    ASSUME TypeOK
    PROVE  /\ Fault => faults' \in 0 .. MaxFaults
           /\ \A r \in 0 .. MaxSessions : \A v \in {-1, regs} :
                [reader EXCEPT ![r] = v] \in [0 .. MaxSessions -> -1 .. MaxChanges]
           /\ 0 \in 0 .. MaxSessions /\ Sessions \subseteq 0 .. MaxSessions
<1>1. Fault => faults' \in 0 .. MaxFaults
  <2>1. faults \in 0 .. MaxFaults /\ MaxFaults \in Nat
    BY AgentLinkAssumption DEF TypeOK
  <2>. QED
    BY <2>1 DEF Fault
<1>2. reader \in [0 .. MaxSessions -> -1 .. MaxChanges] /\ \A v \in {-1, regs} : v \in -1 .. MaxChanges
  <2>1. regs \in 0 .. MaxChanges /\ reader \in [0 .. MaxSessions -> -1 .. MaxChanges]
    BY DEF TypeOK
  <2>2. MaxChanges \in Nat
    BY AgentLinkAssumption
  <2>. QED
    BY <2>1, <2>2
<1>3. 0 \in 0 .. MaxSessions /\ Sessions \subseteq 0 .. MaxSessions
  BY AgentLinkAssumption DEF Sessions
<1>. QED
  BY <1>1, <1>2, <1>3

\* The link's state keeps its types.
LEMMA StepTypes ==
    ASSUME TypeOK, Budget, [Next]_vars
    PROVE  TypeOK'
<1>. USE DEF vars, master, links, agent, history
<1>1. CASE Send
  <2>1. <<sent', -1>> \in Wire /\ sent' \in 0 .. MaxCommands /\ Append(pending, <<sent', -1>>) \in Seq(Wire)
    <3>1. sent' \in 1 .. MaxCommands /\ sent' \in 0 .. MaxCommands
      BY <1>1, AgentLinkAssumption DEF Send, TypeOK
    <3>2. <<sent', -1>> \in Wire
      BY <3>1 DEF Wire, Commands
    <3>3. Append(pending, <<sent', -1>>) \in Seq(Wire)
      BY <3>2, Elements DEF TypeOK
    <3>. QED
      BY <3>1, <3>2, <3>3
  <2>2. /\ chan' \in [Sessions -> Seq(Wire)] /\ \A s \in Sessions : Len(chan'[s]) <= ChannelCap
        /\ deferred' \subseteq Commands
    BY <1>1, <2>1, PushLiveTypes DEF Send
  <2>. QED
    BY <1>1, <2>1, <2>2 DEF Send, TypeOK
<1>2. ASSUME NEW c \in Commands, SendDurable(c) PROVE TypeOK'
  <2>1. c \in Wire
    BY DEF Wire
  <2>2. Append(pending, c) \in Seq(Wire)
    BY <2>1, Elements DEF TypeOK
  <2>3. /\ chan' \in [Sessions -> Seq(Wire)] /\ \A s \in Sessions : Len(chan'[s]) <= ChannelCap
        /\ deferred' \subseteq Commands
    BY <1>2, <2>1, PushLiveTypes DEF SendDurable
  <2>4. pending' \in Seq(Wire)
    BY <1>2, <2>2 DEF SendDurable, TypeOK
  <2>. QED
    BY <1>2, <2>3, <2>4 DEF SendDurable, TypeOK
<1>3. ASSUME NEW s \in Sessions, Ack(s) PROVE TypeOK'
  <2>1. pending' \in Seq(Wire)
    BY <1>3, OnlyKeeps DEF Ack, TypeOK
  <2>2. Tail(up[s]) \in Seq(Wire)
    BY <1>3, Elements DEF Ack, TypeOK
  <2>3. up' \in [Sessions -> Seq(Wire)]
    BY <1>3, <2>2 DEF Ack, TypeOK
  <2>. QED
    BY <1>3, <2>1, <2>3 DEF Ack, TypeOK
<1>4. CASE ChangeRegistries
  <2>1. regs' \in 0 .. MaxChanges /\ owing' \in 0 .. MaxChanges
    <3>1. owing <= regs
      BY DEF Budget, Reading, TypeOK
    <3>. QED
      BY <1>4, <3>1, AgentLinkAssumption DEF ChangeRegistries, TypeOK
  <2>. QED
    BY <1>4, <2>1 DEF ChangeRegistries, TypeOK
<1>5. CASE ReadForBroadcast
  <2>1. owing' \in 0 .. MaxChanges
    BY <1>5, AgentLinkAssumption DEF ReadForBroadcast, TypeOK
  <2>2. reader' \in [0 .. MaxSessions -> -1 .. MaxChanges]
    BY <1>5, FaultTypes DEF ReadForBroadcast, Broadcast
  <2>. QED
    BY <1>5, <2>1, <2>2 DEF ReadForBroadcast, TypeOK
<1>6. CASE BroadcastFails
  <2>1. owing' \in 0 .. MaxChanges
    BY <1>6, AgentLinkAssumption DEF BroadcastFails, TypeOK
  <2>2. faults' \in 0 .. MaxFaults
    BY <1>6, AgentLinkAssumption DEF BroadcastFails, Fault, TypeOK
  <2>. QED
    BY <1>6, <2>1, <2>2 DEF BroadcastFails, TypeOK
<1>7. CASE BroadcastRegistries
  <2>. DEFINE c == Snapshot(reader[Broadcast])
  <2>1. c \in Wire /\ c \in (0 .. MaxSessions + MaxChanges) \X (0 .. MaxChanges)
    <3>1. Broadcast \in 0 .. MaxSessions /\ reader[Broadcast] # -1
      BY <1>7, AgentLinkAssumption DEF Broadcast, BroadcastRegistries
    <3>2. queued[1] + 1 <= MaxSessions + MaxChanges
      BY <3>1, BudgetLeft
    <3>. QED
      BY <3>1, <3>2, SnapshotTypes
  <2>. HIDE DEF c
  <2>2. reader' \in [0 .. MaxSessions -> -1 .. MaxChanges]
    BY <1>7, FaultTypes DEF BroadcastRegistries, Broadcast
  <2>3. CASE sess # None /\ trusted[sess]
    <3>1. /\ pending' = Append(RemoveSetRegistries(pending), c)
          /\ PushLive(c) /\ queued' = c
      BY <1>7, <2>3 DEF BroadcastRegistries, c
    <3>2. /\ chan' \in [Sessions -> Seq(Wire)] /\ \A s \in Sessions : Len(chan'[s]) <= ChannelCap
          /\ deferred' \subseteq Commands
      BY <2>1, <3>1, PushLiveTypes
    <3>3. pending' \in Seq(Wire)
      <4>. DEFINE plain == RemoveSetRegistries(pending)
      <4>1. plain \in Seq(Wire)
        BY BacklogTypes
      <4>. HIDE DEF plain
      <4>2. Append(plain, c) \in Seq(Wire)
        BY <2>1, <4>1, Elements
      <4>. QED
        BY <3>1, <4>2 DEF plain
    <3>. QED
      BY <1>7, <2>1, <2>2, <3>1, <3>2, <3>3 DEF BroadcastRegistries, TypeOK
  <2>4. CASE ~(sess # None /\ trusted[sess])
    BY <1>7, <2>2, <2>4 DEF BroadcastRegistries, TypeOK
  <2>. QED
    BY <2>3, <2>4
<1>8. ASSUME NEW s \in Sessions, NEW b \in BOOLEAN, Connect(s, b) PROVE TypeOK'
  <2>1. opened' \in 0 .. MaxSessions /\ stream' \in {None} \cup Sessions
    BY <1>8, AgentLinkAssumption DEF Connect, TypeOK, Sessions
  <2>. QED
    BY <1>8, <2>1 DEF Connect, TypeOK
<1>9. ASSUME NEW s \in Sessions, ReadForAttach(s) PROVE TypeOK'
  <2>1. reader' \in [0 .. MaxSessions -> -1 .. MaxChanges]
    BY <1>9, FaultTypes DEF ReadForAttach
  <2>. QED
    BY <1>9, <2>1 DEF ReadForAttach, TypeOK
<1>10. ASSUME NEW s \in Sessions, AttachTrusted(s) PROVE TypeOK'
  <2>. DEFINE c == Snapshot(reader[s])
  <2>1. c \in (0 .. MaxSessions + MaxChanges) \X (0 .. MaxChanges) /\ Prefaced(c) \in Seq(Wire)
    BY <1>10, BacklogTypes
  <2>. HIDE DEF c
  <2>2. AttachWith(s, Prefaced(c)) /\ queued' = c
    BY <1>10 DEF AttachTrusted, c
  <2>3. /\ pending' \in Seq(Wire) /\ sess' \in {None} \cup Sessions
        /\ serve' \in [Sessions -> {"none", "hello", "attached", "replaced", "gone"}]
        /\ chan' \in [Sessions -> Seq(Wire)] /\ \A t \in Sessions : Len(chan'[t]) <= ChannelCap
        /\ deferred' \subseteq Commands
    BY <2>1, <2>2, AttachTypes
  <2>4. reader' \in [0 .. MaxSessions -> -1 .. MaxChanges]
    BY <1>10, FaultTypes DEF AttachTrusted
  <2>. QED
    BY <1>10, <2>1, <2>2, <2>3, <2>4 DEF AttachTrusted, TypeOK
<1>11. ASSUME NEW s \in Sessions, AttachUnprefaced(s) PROVE TypeOK'
  <2>1. AttachWith(s, pending) /\ pending \in Seq(Wire)
    BY <1>11 DEF AttachUnprefaced, TypeOK
  <2>2. /\ pending' \in Seq(Wire) /\ sess' \in {None} \cup Sessions
        /\ serve' \in [Sessions -> {"none", "hello", "attached", "replaced", "gone"}]
        /\ chan' \in [Sessions -> Seq(Wire)] /\ \A t \in Sessions : Len(chan'[t]) <= ChannelCap
        /\ deferred' \subseteq Commands
    BY <2>1, AttachTypes
  <2>3. faults' \in 0 .. MaxFaults
    BY <1>11, FaultTypes DEF AttachUnprefaced, TypeOK
  <2>. QED
    BY <1>11, <2>2, <2>3 DEF AttachUnprefaced, TypeOK
<1>12. ASSUME NEW s \in Sessions, AttachUntrusted(s) PROVE TypeOK'
  <2>1. AttachWith(s, RemoveSetRegistries(pending)) /\ RemoveSetRegistries(pending) \in Seq(Wire)
    BY <1>12, BacklogTypes DEF AttachUntrusted
  <2>2. /\ pending' \in Seq(Wire) /\ sess' \in {None} \cup Sessions
        /\ serve' \in [Sessions -> {"none", "hello", "attached", "replaced", "gone"}]
        /\ chan' \in [Sessions -> Seq(Wire)] /\ \A t \in Sessions : Len(chan'[t]) <= ChannelCap
        /\ deferred' \subseteq Commands
    BY <2>1, AttachTypes
  <2>. QED
    BY <1>12, <2>2 DEF AttachUntrusted, TypeOK
<1>13. ASSUME NEW s \in Sessions, Cut(s) PROVE TypeOK'
  BY <1>13, FaultTypes DEF Cut, TypeOK
<1>14. ASSUME NEW s \in Sessions, Detach(s) PROVE TypeOK'
  <2>1. <<>> \in Seq(Wire) /\ Len(<<>>) = 0
    OBVIOUS
  <2>2. up' \in [Sessions -> Seq(Wire)] /\ chan' \in [Sessions -> Seq(Wire)]
    BY <1>14, <2>1 DEF Detach, TypeOK
  <2>3. \A t \in Sessions : Len(chan'[t]) <= ChannelCap
    BY <1>14, <2>1, AgentLinkAssumption DEF Detach, TypeOK
  <2>. QED
    BY <1>14, <2>2, <2>3 DEF Detach, Detached, TypeOK
<1>15. CASE LoseStream
  <2>1. <<>> \in Seq(Wire) /\ Len(<<>>) = 0
    OBVIOUS
  <2>2. chan' = [chan EXCEPT ![stream] = <<>>] /\ stream' = None
    BY <1>15 DEF LoseStream
  <2>3. chan \in [Sessions -> Seq(Wire)] /\ \A t \in Sessions : Len(chan[t]) <= ChannelCap
    BY DEF TypeOK
  <2>4. chan' \in [Sessions -> Seq(Wire)]
    BY <2>1, <2>2, <2>3
  <2>5. \A t \in Sessions : Len(chan'[t]) <= ChannelCap
    BY <2>1, <2>2, <2>3, AgentLinkAssumption
  <2>. QED
    BY <1>15, <2>2, <2>4, <2>5 DEF LoseStream, TypeOK
<1>16. ASSUME NEW s \in Sessions, Receive(s) PROVE TypeOK'
  <2>. DEFINE c == Head(chan[s])
  <2>1. /\ c \in Wire /\ Tail(chan[s]) \in Seq(Wire)
        /\ Len(Tail(chan[s])) = Len(chan[s]) - 1
    <3>1. chan[s] \in Seq(Wire) /\ chan[s] # <<>>
      BY <1>16 DEF Receive, TypeOK
    <3>. QED
      BY <3>1, Elements, HeadTailProperties
  <2>. HIDE DEF c
  <2>2. chan' \in [Sessions -> Seq(Wire)] /\ \A t \in Sessions : Len(chan'[t]) <= ChannelCap
    <3>1. chan' = [chan EXCEPT ![s] = Tail(chan[s])]
      BY <1>16 DEF Receive
    <3>2. Len(Tail(chan[s])) <= ChannelCap /\ chan \in [Sessions -> Seq(Wire)]
      BY <2>1, AgentLinkAssumption DEF TypeOK
    <3>. QED
      BY <2>1, <3>1, <3>2 DEF TypeOK
  <2>3. CASE Known(c)
    <3>1. Acknowledge(s, c)
      BY <1>16, <2>3 DEF Receive, c
    <3>2. up' \in [Sessions -> Seq(Wire)]
      BY <2>1, <3>1, AckTypes
    <3>. QED
      BY <1>16, <2>2, <2>3, <3>2 DEF Receive, c, TypeOK
  <2>4. CASE ~Known(c)
    <3>1. /\ seen' = Remember(c) /\ hand' = [hand EXCEPT ![s] = c]
          /\ taken' = taken \cup {c} /\ ran' = ran \cup {c} /\ UNCHANGED up
      BY <1>16, <2>4 DEF Receive, c
    <3>2. seen' \in Seq(Wire) /\ Len(seen') <= SeenCap
      BY <2>1, <3>1, WindowTypes
    <3>. QED
      BY <1>16, <2>1, <2>2, <3>1, <3>2 DEF Receive, TypeOK
  <2>. QED
    BY <2>3, <2>4
<1>17. ASSUME NEW s \in Sessions, Dispatch(s) PROVE TypeOK'
  <2>1. hand[s] \in Wire
    BY <1>17 DEF Dispatch, TypeOK
  <2>2. up' \in [Sessions -> Seq(Wire)]
    BY <1>17, <2>1, AckTypes DEF Dispatch
  <2>3. agentRegs' \in 0 .. MaxChanges
    <3>1. IsSetRegistries(hand[s]) => hand[s] \in Snapshots
      BY <2>1, Kinds
    <3>2. IsSetRegistries(hand[s]) => hand[s][2] \in 0 .. MaxChanges
      BY <3>1 DEF Snapshots
    <3>. QED
      BY <1>17, <3>2 DEF Dispatch, TypeOK
  <2>. QED
    BY <1>17, <2>2, <2>3 DEF Dispatch, TypeOK
<1>18. CASE MasterCrash
  <2>1. <<>> \in Seq(Wire) /\ Len(<<>>) = 0
    OBVIOUS
  <2>2. chan' \in [Sessions -> Seq(Wire)] /\ \A t \in Sessions : Len(chan'[t]) <= ChannelCap
    BY <1>18, <2>1, AgentLinkAssumption DEF MasterCrash, TypeOK
  <2>3. reader' \in [0 .. MaxSessions -> -1 .. MaxChanges] /\ faults' \in 0 .. MaxFaults
    <3>1. reader' = [r \in 0 .. MaxSessions |-> -1] /\ -1 \in -1 .. MaxChanges
      BY <1>18, AgentLinkAssumption DEF MasterCrash, TypeOK
    <3>. QED
      BY <1>18, <3>1, FaultTypes DEF MasterCrash
  <2>4. serve' \in [Sessions -> {"none", "hello", "attached", "replaced", "gone"}]
    BY <1>18 DEF MasterCrash
  <2>5. /\ pending' \in Seq(Wire) /\ sess' \in {None} \cup Sessions /\ owing' \in 0 .. MaxChanges
        /\ up' \in [Sessions -> Seq(Wire)] /\ cut' \subseteq Sessions
        /\ trusted' \in [Sessions -> BOOLEAN]
    BY <1>18, <2>1, AgentLinkAssumption DEF MasterCrash, None
  <2>. QED
    BY <1>18, <2>2, <2>3, <2>4, <2>5 DEF MasterCrash, TypeOK
<1>19. CASE AgentCrash
  <2>1. faults' \in 0 .. MaxFaults /\ agentRegs' \in 0 .. MaxChanges
    BY <1>19, AgentLinkAssumption DEF AgentCrash, Fault, TypeOK
  <2>2. seen' \in Seq(Wire) /\ Len(seen') <= SeenCap
    BY <1>19, AgentLinkAssumption DEF AgentCrash
  <2>. QED
    BY <1>19, <2>1, <2>2 DEF AgentCrash, TypeOK
<1>20. CASE UNCHANGED vars
  BY <1>20 DEF TypeOK
<1>. HIDE DEF TypeOK
<1>. QED
  BY <1>1, <1>2, <1>3, <1>4, <1>5, <1>6, <1>7, <1>8, <1>9, <1>10, <1>11, <1>12, <1>13,
     <1>14, <1>15, <1>16, <1>17, <1>18, <1>19, <1>20 DEF Next, LinkStep


\* The session commands are pushed to is one whose handler has attached.
SessionAttached == sess # None => serve[sess] = "attached"

LEMMA StepSession ==
    ASSUME TypeOK, Budget, SessionAttached, [Next]_vars
    PROVE  SessionAttached'
<1>. USE DEF SessionAttached, vars, master, links, agent, history
<1>1. ASSUME UNCHANGED <<sess, serve>> PROVE SessionAttached'
  BY <1>1
<1>2. ASSUME NEW s \in Sessions, NEW b \in BOOLEAN, Connect(s, b) PROVE SessionAttached'
  <2>1. serve[s] = "none"
    BY <1>2 DEF Connect, Budget, TypeOK, Sessions
  <2>. QED
    BY <1>2, <2>1 DEF Connect, TypeOK
<1>3. ASSUME NEW s \in Sessions, NEW b, AttachWith(s, b) PROVE SessionAttached'
  BY <1>3 DEF AttachWith
<1>4. ASSUME NEW s \in Sessions, Detach(s) PROVE SessionAttached'
  BY <1>4 DEF Detach, Detached, TypeOK
<1>5. CASE MasterCrash
  BY <1>5 DEF MasterCrash
<1>. HIDE DEF SessionAttached
<1>. QED
  BY <1>1, <1>2, <1>3, <1>4, <1>5 DEF Next, LinkStep, Send, SendDurable, Ack, ChangeRegistries,
     ReadForBroadcast, BroadcastFails, BroadcastRegistries, ReadForAttach, AttachTrusted,
     AttachUnprefaced, AttachUntrusted, Cut, LoseStream, Receive, Dispatch, AgentCrash

LEMMA StepBudget ==
    ASSUME TypeOK, Budget, SessionAttached, [Next]_vars
    PROVE  Budget'
<1>. USE DEF vars, master, links, agent, history
<1>. DEFINE n == Cardinality(Unattached)
            m == Cardinality(Unattached')
<1>1. IsFiniteSet(Unattached) /\ n \in Nat /\ Reading \in {0, 1}
  BY BudgetLeft
<1>2. ASSUME NEW S \in SUBSET Unattached, Unattached' \subseteq S
      PROVE  m \in Nat /\ m <= Cardinality(S)
  <2>1. IsFiniteSet(S)
    BY <1>1, FS_Subset
  <2>2. IsFiniteSet(Unattached') /\ m <= Cardinality(S)
    BY <1>2, <2>1, FS_Subset
  <2>. QED
    BY <2>2, FS_CardinalityType
<1>3. \A s \in Unattached : Cardinality(Unattached \ {s}) = n - 1
  BY <1>1, FS_RemoveElement
<1>4. Unattached' \subseteq Unattached => m \in Nat /\ m <= n
  BY <1>2
<1>5. /\ queued[1] \in Nat /\ owing \in Nat /\ regs \in Nat /\ MaxSessions \in Nat /\ opened \in Nat
  BY AgentLinkAssumption DEF TypeOK
<1>. HIDE DEF n, m
<1>6. m = Cardinality(Unattached)'
  BY DEF m
<1>7. n = Cardinality(Unattached)
  BY DEF n
<1>8. ASSUME UNCHANGED <<serve, opened, owing, reader, regs, queued>> PROVE Budget'
  BY <1>8 DEF Budget, Unattached, Reading
<1>9. ASSUME UNCHANGED serve PROVE Unattached' = Unattached /\ m = n
  BY <1>9, <1>6, <1>7 DEF Unattached
<1>10. CASE ChangeRegistries
  <2>1. Reading' = Reading /\ m = n
    BY <1>10, <1>9 DEF ChangeRegistries, Reading
  <2>. QED
    BY <1>1, <1>5, <1>6, <1>7, <1>10, <2>1 DEF ChangeRegistries, Budget
<1>11. CASE ReadForBroadcast
  <2>1. Reading = 0 /\ Reading' \in {0, 1} /\ m = n
    BY <1>11, <1>9 DEF ReadForBroadcast, Reading
  <2>2. UNCHANGED <<serve, opened, regs, queued>> /\ owing' = owing - 1
    BY <1>11 DEF ReadForBroadcast
  <2>3. Reading' = 0 \/ Reading' = 1
    BY <2>1
  <2>4. \A s \in Sessions : s > opened' => serve'[s] = "none"
    BY <2>2 DEF Budget
  <2>5. owing' + Reading' <= regs'
    <3>1. owing <= regs /\ owing' = owing - 1 /\ regs' = regs
      BY <1>5, <2>1, <2>2 DEF Budget
    <3>. QED
      BY <1>5, <2>3, <3>1
  <2>6. queued'[1] + m + owing' + Reading' <= MaxSessions + regs'
    BY <1>1, <1>5, <1>7, <2>1, <2>2, <2>3 DEF Budget
  <2>. QED
    BY <1>6, <2>4, <2>5, <2>6 DEF Budget
<1>12. CASE BroadcastFails
  <2>1. Reading' = Reading /\ m = n
    BY <1>12, <1>9 DEF BroadcastFails, Reading
  <2>. QED
    BY <1>1, <1>5, <1>6, <1>7, <1>12, <2>1 DEF BroadcastFails, Budget
<1>13. CASE BroadcastRegistries
  <2>1. Reading = 1 /\ Reading' = 0 /\ m = n
    BY <1>13, <1>9, FaultTypes DEF BroadcastRegistries, Reading, TypeOK, Broadcast
  <2>2. queued'[1] \in {queued[1], queued[1] + 1}
    BY <1>13 DEF BroadcastRegistries, Snapshot
  <2>. QED
    BY <1>1, <1>5, <1>6, <1>7, <1>13, <2>1, <2>2 DEF BroadcastRegistries, Budget
<1>14. ASSUME NEW s \in Sessions, NEW b \in BOOLEAN, Connect(s, b) PROVE Budget'
  <2>1. serve[s] = "none" /\ s = opened + 1 /\ opened' = s
    BY <1>14 DEF Connect, Budget, TypeOK, Sessions
  <2>2. Unattached' = Unattached
    BY <1>14, <2>1 DEF Connect, Unattached, TypeOK
  <2>3. Reading' = Reading
    BY <1>14 DEF Connect, Reading
  <2>4. \A t \in Sessions : t > opened' => serve'[t] = "none"
    BY <1>5, <1>14, <2>1 DEF Connect, Budget, TypeOK, Sessions
  <2>. QED
    BY <1>14, <2>2, <2>3, <2>4 DEF Connect, Budget
<1>15. ASSUME NEW s \in Sessions, ReadForAttach(s) PROVE Budget'
  <2>1. s # Broadcast
    BY DEF Sessions, Broadcast
  <2>2. Reading' = Reading /\ m = n
    BY <1>15, <1>9, <2>1 DEF ReadForAttach, Reading, TypeOK
  <2>. QED
    BY <1>6, <1>7, <1>15, <2>2 DEF ReadForAttach, Budget
<1>16. ASSUME NEW s \in Sessions, NEW b, serve[s] = "hello", AttachWith(s, b)
       PROVE  /\ m \in Nat /\ m <= n - 1
              /\ \A t \in Sessions : t > opened => serve'[t] = "none"
  <2>1. s \in Unattached /\ Unattached' \subseteq Unattached \ {s}
    BY <1>16 DEF AttachWith, Unattached
  <2>2. m \in Nat /\ m <= n - 1
    BY <1>2, <1>3, <2>1
  <2>3. ~(s > opened) /\ (sess # None => ~(sess > opened))
    BY <1>16 DEF Budget, SessionAttached, TypeOK
  <2>4. \A t \in Sessions : t > opened => serve'[t] = "none"
    BY <1>16, <2>3 DEF AttachWith, Budget, SessionAttached, Sessions, None
  <2>. QED
    BY <2>2, <2>4
<1>17. ASSUME NEW s \in Sessions, AttachTrusted(s) PROVE Budget'
  <2>1. s # Broadcast /\ queued'[1] = queued[1] + 1
    BY <1>17 DEF Sessions, Broadcast, AttachTrusted, Snapshot
  <2>2. Reading' = Reading
    BY <1>17, <2>1 DEF AttachTrusted, Reading, TypeOK
  <2>3. m \in Nat /\ m <= n - 1 /\ \A t \in Sessions : t > opened => serve'[t] = "none"
    BY <1>16, <1>17 DEF AttachTrusted
  <2>. QED
    BY <1>1, <1>5, <1>6, <1>7, <1>17, <2>1, <2>2, <2>3 DEF AttachTrusted, Budget
<1>18. ASSUME NEW s \in Sessions, AttachUnprefaced(s) \/ AttachUntrusted(s) PROVE Budget'
  <2>1. Reading' = Reading
    BY <1>18 DEF AttachUnprefaced, AttachUntrusted, Reading
  <2>2. m \in Nat /\ m <= n - 1 /\ \A t \in Sessions : t > opened => serve'[t] = "none"
    BY <1>16, <1>18 DEF AttachUnprefaced, AttachUntrusted
  <2>3. UNCHANGED <<regs, owing, queued, opened>>
    BY <1>18 DEF AttachUnprefaced, AttachUntrusted
  <2>. QED
    BY <1>1, <1>5, <1>6, <1>7, <2>1, <2>2, <2>3 DEF Budget
<1>19. ASSUME NEW s \in Sessions, Detach(s) PROVE Budget'
  <2>1. Reading' = Reading /\ Unattached' \subseteq Unattached
    BY <1>19 DEF Detach, Reading, Unattached, TypeOK
  <2>2. \A t \in Sessions : t > opened => serve'[t] = "none"
    BY <1>19 DEF Detach, Budget, TypeOK
  <2>. QED
    BY <1>1, <1>4, <1>5, <1>6, <1>7, <1>19, <2>1, <2>2 DEF Detach, Budget
<1>20. CASE MasterCrash
  <2>1. Reading' = 0 /\ owing' = 0
    BY <1>20, FaultTypes DEF MasterCrash, Reading, TypeOK, Broadcast
  <2>2. \A t \in Sessions : t > opened => serve'[t] = "none"
    BY <1>5, <1>20 DEF MasterCrash, Sessions
  <2>3. Unattached' \subseteq Unattached
    <3>1. \A t \in Sessions : serve'[t] \in {"none", "hello"} => serve[t] = "none"
      BY <1>5, <1>20 DEF MasterCrash, Sessions, Budget
    <3>. QED
      BY <3>1 DEF Unattached
  <2>4. opened' = opened /\ regs' = regs /\ queued' = queued
    BY <1>20 DEF MasterCrash
  <2>. QED
    BY <1>1, <1>4, <1>5, <1>6, <1>7, <2>1, <2>2, <2>3, <2>4 DEF Budget
<1>. HIDE DEF Budget
<1>. QED
  BY <1>8, <1>10, <1>11, <1>12, <1>13, <1>14, <1>15, <1>17, <1>18, <1>19, <1>20
     DEF Next, LinkStep, Send, SendDurable, Ack, Cut, LoseStream, Receive, Dispatch, AgentCrash

\* The types, the budget and the session's handler hold at all times.
LEMMA Kept == Spec => [](TypeOK /\ Budget /\ SessionAttached)
<1>. DEFINE Inv == TypeOK /\ Budget /\ SessionAttached
<1>1. ASSUME Init PROVE Inv
  <2>1. TypeOK
    <3>1. <<>> \in Seq(Wire) /\ Len(<<>>) = 0
      OBVIOUS
    <3>2. /\ chan \in [Sessions -> Seq(Wire)] /\ \A s \in Sessions : Len(chan[s]) <= ChannelCap
          /\ up \in [Sessions -> Seq(Wire)] /\ hand \in [Sessions -> Wire \cup {NoCommand}]
      BY <1>1, <3>1, AgentLinkAssumption DEF Init
    <3>3. reader \in [0 .. MaxSessions -> -1 .. MaxChanges]
      <4>1. -1 \in -1 .. MaxChanges
        BY AgentLinkAssumption
      <4>. QED
        BY <1>1, <4>1 DEF Init
    <3>4. queued \in (0 .. MaxSessions + MaxChanges) \X (0 .. MaxChanges) /\ Len(seen) <= SeenCap
      BY <1>1, <3>1, AgentLinkAssumption DEF Init
    <3>5. /\ regs \in 0 .. MaxChanges /\ owing \in 0 .. MaxChanges /\ agentRegs \in 0 .. MaxChanges
          /\ opened \in 0 .. MaxSessions /\ sent \in 0 .. MaxCommands /\ faults \in 0 .. MaxFaults
      BY <1>1, AgentLinkAssumption DEF Init
    <3>. QED
      BY <1>1, <3>1, <3>2, <3>3, <3>4, <3>5 DEF Init, TypeOK
  <2>2. SessionAttached
    BY <1>1 DEF Init, SessionAttached
  <2>3. Budget
    <3>1. Unattached = Sessions
      BY <1>1 DEF Init, Unattached
    <3>2. Cardinality(Sessions) = MaxSessions
      BY FS_Interval, AgentLinkAssumption DEF Sessions
    <3>3. Reading = 0
      BY <1>1, AgentLinkAssumption DEF Init, Reading, Broadcast
    <3>. QED
      BY <1>1, <3>1, <3>2, <3>3, AgentLinkAssumption DEF Init, Budget
  <2>. QED
    BY <2>1, <2>2, <2>3
<1>2. Inv /\ [Next]_vars => Inv'
  BY StepTypes, StepSession, StepBudget
<1>. QED
  BY <1>1, <1>2, PTL DEF Spec


\* Type correctness: a session's channel never holds more than its capacity,
\* the window never more than its size, and every command on either side is
\* one the master queued.
THEOREM TypeCorrect == Spec => []TypeOK
BY Kept, PTL

-----------------------------------------------------------------------------
(* Delivery.                                                               *)

\* What the agent acknowledges, dispatches or remembers, some agent process
\* has taken.
AcksAreTaken ==
    /\ \A s \in Sessions : ToSet(up[s]) \subseteq taken /\ hand[s] \in taken \cup {NoCommand}
    /\ ToSet(seen) \subseteq taken

LEMMA StepAcks ==
    ASSUME TypeOK, AcksAreTaken, [Next]_vars
    PROVE  AcksAreTaken'
<1>. USE DEF AcksAreTaken, vars, master, links, agent, history
<1>1. ToSet(<<>>) = {}
  BY DEF ToSet
<1>2. ASSUME UNCHANGED <<up, hand, seen, taken>> PROVE AcksAreTaken'
  BY <1>2
<1>3. ASSUME NEW s \in Sessions, Ack(s) PROVE AcksAreTaken'
  <2>1. ToSet(Tail(up[s])) \subseteq ToSet(up[s])
    BY <1>3, Elements DEF Ack, TypeOK
  <2>. QED
    BY <1>3, <2>1 DEF Ack, TypeOK
<1>4. ASSUME NEW s \in Sessions, Detach(s) PROVE AcksAreTaken'
  BY <1>1, <1>4 DEF Detach, TypeOK
<1>5. ASSUME NEW s \in Sessions, Receive(s) PROVE AcksAreTaken'
  <2>. DEFINE c == Head(chan[s])
  <2>1. c \in Wire
    BY <1>5, Elements DEF Receive, TypeOK
  <2>. HIDE DEF c
  <2>2. CASE Known(c)
    <3>1. c \in taken
      BY <2>2, Elements DEF Known, TypeOK
    <3>2. Acknowledge(s, c) /\ UNCHANGED <<seen, hand, taken>>
      BY <1>5, <2>2 DEF Receive, c
    <3>3. \A t \in Sessions : ToSet(up'[t]) \subseteq ToSet(up[t]) \cup {c}
      BY <2>1, <3>2, AckTypes
    <3>. QED
      BY <3>1, <3>2, <3>3
  <2>3. CASE ~Known(c)
    <3>1. /\ seen' = Remember(c) /\ hand' = [hand EXCEPT ![s] = c]
          /\ taken' = taken \cup {c} /\ UNCHANGED up
      BY <1>5, <2>3 DEF Receive, c
    <3>2. ToSet(seen') \subseteq ToSet(seen) \cup {c}
      BY <2>1, <3>1, WindowTypes
    <3>. QED
      BY <3>1, <3>2 DEF TypeOK
  <2>. QED
    BY <2>2, <2>3
<1>6. ASSUME NEW s \in Sessions, Dispatch(s) PROVE AcksAreTaken'
  <2>1. hand[s] \in Wire /\ hand[s] \in taken /\ Acknowledge(s, hand[s])
    BY <1>6 DEF Dispatch, TypeOK
  <2>2. \A t \in Sessions : ToSet(up'[t]) \subseteq ToSet(up[t]) \cup {hand[s]}
    BY <2>1, AckTypes
  <2>. QED
    BY <1>6, <2>1, <2>2 DEF Dispatch, TypeOK
<1>7. CASE MasterCrash
  BY <1>1, <1>7 DEF MasterCrash
<1>8. CASE AgentCrash
  BY <1>1, <1>8 DEF AgentCrash
<1>. HIDE DEF AcksAreTaken
<1>. QED
  BY <1>2, <1>3, <1>4, <1>5, <1>6, <1>7, <1>8 DEF Next, LinkStep, Send, SendDurable,
     ChangeRegistries, ReadForBroadcast, BroadcastFails, BroadcastRegistries, Connect, ReadForAttach,
     AttachTrusted, AttachUnprefaced, AttachUntrusted, AttachWith, Cut, LoseStream

\* The queue without its snapshots, and with a new one put in.
LEMMA Coalesced ==
    ASSUME TypeOK, NEW c \in Snapshots
    PROVE  /\ ToSet(RemoveSetRegistries(pending)) = ToSet(pending) \ Snapshots
           /\ ToSet(Prefaced(c)) = (ToSet(pending) \ Snapshots) \cup {c}
           /\ ToSet(Append(RemoveSetRegistries(pending), c)) = (ToSet(pending) \ Snapshots) \cup {c}
<1>. DEFINE plain == RemoveSetRegistries(pending)
<1>1. plain \in Seq(Wire) /\ ToSet(plain) = {d \in ToSet(pending) : ~IsSetRegistries(d)}
  BY PlainKept DEF TypeOK
<1>2. ToSet(pending) \subseteq Wire /\ c \in Wire
  BY Elements DEF TypeOK, Wire
<1>3. ToSet(plain) = ToSet(pending) \ Snapshots
  <2>. HIDE DEF plain
  <2>. QED BY <1>1, <1>2, Kinds
<1>4. ToSet(<<c>> \o plain) = {c} \cup ToSet(plain)
  <2>. HIDE DEF plain
  <2>. QED BY <1>1, <1>2, InFront
<1>5. ToSet(Append(plain, c)) = ToSet(plain) \cup {c}
  <2>. HIDE DEF plain
  <2>. QED BY <1>1, <1>2, Elements
<1>. QED
  BY <1>3, <1>4, <1>5 DEF Prefaced

\* A step of the abstract delivery, or none.
DeliveryStep == [Delivery!Next]_<<ToSet(pending), taken>>

\* Every step of the link is one of the abstract delivery, or none.
LEMMA StepDelivers ==
    ASSUME TypeOK, Budget, AcksAreTaken, [Next]_vars
    PROVE  DeliveryStep
<1>. USE DEF vars, master, links, agent, history
<1>1. ASSUME UNCHANGED <<pending, taken>> PROVE DeliveryStep
  BY <1>1 DEF DeliveryStep
<1>2. ASSUME NEW c \in Wire, NEW old \in SUBSET (ToSet(pending) \cap Snapshots),
             ToSet(pending') = (ToSet(pending) \ old) \cup {c}, UNCHANGED taken
      PROVE  DeliveryStep
  BY <1>2 DEF DeliveryStep, Delivery!Next, Delivery!Send, Wire
<1>3. ASSUME NEW c \in Wire, pending' = Append(pending, c), UNCHANGED taken PROVE DeliveryStep
  <2>1. ToSet(pending') = (ToSet(pending) \ {}) \cup {c}
    <3>1. pending \in Seq(Wire)
      BY DEF TypeOK
    <3>2. ToSet(Append(pending, c)) = ToSet(pending) \cup {c}
      BY <3>1, Elements
    <3>. QED
      BY <1>3, <3>2
  <2>2. {} \in SUBSET (ToSet(pending) \cap Snapshots) /\ UNCHANGED taken
    BY <1>3
  <2>3. \A old \in SUBSET (ToSet(pending) \cap Snapshots) :
          ToSet(pending') = (ToSet(pending) \ old) \cup {c} => DeliveryStep
    BY <1>2, <2>2
  <2>. QED
    BY <2>1, <2>2, <2>3
<1>4. CASE Send
  <2>1. sent' \in 1 .. MaxCommands
    BY <1>4, AgentLinkAssumption DEF Send, TypeOK
  <2>2. <<sent', -1>> \in Wire
    BY <2>1 DEF Wire, Commands
  <2>3. pending' = Append(pending, <<sent', -1>>) /\ UNCHANGED taken
    BY <1>4 DEF Send
  <2>. QED
    BY <1>3, <2>2, <2>3
<1>5. ASSUME NEW c \in Commands, SendDurable(c) PROVE DeliveryStep
  <2>1. c \in Wire /\ UNCHANGED taken /\ (pending' = pending \/ pending' = Append(pending, c))
    BY <1>5 DEF Wire, SendDurable
  <2>. QED
    BY <1>1, <1>3, <2>1
<1>6. ASSUME NEW s \in Sessions, Ack(s) PROVE DeliveryStep
  <2>. DEFINE h == Head(up[s])
  <2>1. h \in taken /\ h \in Wire
    BY <1>6, Elements DEF Ack, TypeOK, AcksAreTaken
  <2>2. ToSet(pending') = ToSet(pending) \ {h}
    <3>1. ToSet(Only(pending, ToSet(pending) \ {h})) = ToSet(pending) \cap (ToSet(pending) \ {h})
      BY OnlyKeeps DEF TypeOK
    <3>. QED
      BY <1>6, <3>1 DEF Ack
  <2>3. UNCHANGED taken
    BY <1>6 DEF Ack
  <2>. HIDE DEF h
  <2>. QED
    BY <2>1, <2>2, <2>3 DEF DeliveryStep, Delivery!Next, Delivery!Settle, Wire
<1>7. CASE BroadcastRegistries
  <2>. DEFINE c == Snapshot(reader[Broadcast])
  <2>1. c \in Snapshots
    <3>1. Broadcast \in 0 .. MaxSessions /\ reader[Broadcast] # -1
      BY <1>7, AgentLinkAssumption DEF Broadcast, BroadcastRegistries
    <3>2. queued[1] + 1 <= MaxSessions + MaxChanges
      BY <3>1, BudgetLeft
    <3>. QED
      BY <3>1, <3>2, SnapshotTypes
  <2>2. UNCHANGED taken /\ (pending' = pending \/ pending' = Append(RemoveSetRegistries(pending), c))
    BY <1>7 DEF BroadcastRegistries
  <2>. HIDE DEF c
  <2>3. c \in Wire
    BY <2>1 DEF Wire
  <2>4. ToSet(Append(RemoveSetRegistries(pending), c)) = (ToSet(pending) \ (ToSet(pending) \cap Snapshots)) \cup {c}
    BY <2>1, Coalesced
  <2>5. CASE pending' = pending
    BY <1>1, <2>2, <2>5
  <2>6. CASE pending' = Append(RemoveSetRegistries(pending), c)
    <3>1. ToSet(pending') = (ToSet(pending) \ (ToSet(pending) \cap Snapshots)) \cup {c}
      BY <2>4, <2>6
    <3>. QED
      BY <1>2, <2>2, <2>3, <3>1
  <2>. QED
    BY <2>2, <2>5, <2>6
<1>8. ASSUME NEW s \in Sessions, AttachTrusted(s) PROVE DeliveryStep
  <2>. DEFINE c == Snapshot(reader[s])
  <2>1. c \in Snapshots /\ c \in Wire
    BY <1>8, BacklogTypes
  <2>2. UNCHANGED taken /\ pending' = Prefaced(c)
    BY <1>8 DEF AttachTrusted, AttachWith
  <2>. HIDE DEF c
  <2>3. ToSet(pending') = (ToSet(pending) \ (ToSet(pending) \cap Snapshots)) \cup {c}
    BY <2>1, <2>2, Coalesced
  <2>. QED
    BY <1>2, <2>1, <2>2, <2>3
<1>9. ASSUME NEW s \in Sessions, AttachUntrusted(s) PROVE DeliveryStep
  <2>1. ToSet(pending') = ToSet(pending) \ Snapshots /\ UNCHANGED taken
    <3>1. pending' = RemoveSetRegistries(pending) /\ UNCHANGED taken
      BY <1>9 DEF AttachUntrusted, AttachWith
    <3>2. ToSet(RemoveSetRegistries(pending)) = {d \in ToSet(pending) : ~IsSetRegistries(d)}
      BY PlainKept DEF TypeOK
    <3>3. ToSet(pending) \subseteq Wire
      BY Elements DEF TypeOK
    <3>. QED
      BY <3>1, <3>2, <3>3, Kinds
  <2>. QED
    BY <2>1 DEF DeliveryStep, Delivery!Next, Delivery!Withdraw
<1>10. ASSUME NEW s \in Sessions, AttachUnprefaced(s) PROVE DeliveryStep
  BY <1>1, <1>10 DEF AttachUnprefaced, AttachWith
<1>11. ASSUME NEW s \in Sessions, Receive(s) PROVE DeliveryStep
  <2>. DEFINE c == Head(chan[s])
  <2>1. c \in Wire
    BY <1>11, Elements DEF Receive, TypeOK
  <2>2. UNCHANGED pending /\ (taken' = taken \/ taken' = taken \cup {c})
    BY <1>11 DEF Receive
  <2>. HIDE DEF c
  <2>. QED
    BY <2>1, <2>2 DEF DeliveryStep, Delivery!Next, Delivery!Take, Wire
<1>12. CASE MasterCrash
  <2>1. ToSet(pending') = {} /\ UNCHANGED taken
    BY <1>12 DEF MasterCrash, ToSet
  <2>. QED
    BY <2>1 DEF DeliveryStep, Delivery!Next, Delivery!Forget
<1>. QED
  BY <1>1, <1>4, <1>5, <1>6, <1>7, <1>8, <1>9, <1>10, <1>11, <1>12 DEF Next, LinkStep,
     ChangeRegistries, ReadForBroadcast, BroadcastFails, Connect, ReadForAttach, Detach, Dispatch,
     Cut, LoseStream, AgentCrash

\* At-least-once: the link implements the abstract delivery.  Whatever is cut,
\* crashed, replaced or turned away by a full channel, a command leaves the
\* queue only when an agent process took it, as a snapshot that a newer one or
\* an untrusted session displaces, or with the master.
THEOREM DeliveryIsImplemented == Spec => ImplementsDelivery
<1>. DEFINE Inv == TypeOK /\ Budget /\ SessionAttached /\ AcksAreTaken
<1>1. Init => AcksAreTaken
  BY DEF Init, AcksAreTaken, ToSet
<1>2. Spec => []Inv
  <2>1. Spec => [](TypeOK /\ Budget /\ SessionAttached)
    BY Kept
  <2>2. TypeOK /\ Budget /\ SessionAttached /\ AcksAreTaken /\ [Next]_vars => AcksAreTaken'
    BY StepAcks
  <2>. QED
    BY <1>1, <2>1, <2>2, PTL DEF Spec
<1>3. Init => Delivery!Init
  BY DEF Init, Delivery!Init, ToSet
<1>4. Inv /\ [Next]_vars => [Delivery!Next]_<<ToSet(pending), taken>>
  BY StepDelivers DEF DeliveryStep
<1>. QED
  BY <1>2, <1>3, <1>4, PTL DEF Spec, ImplementsDelivery, Delivery!Spec


-----------------------------------------------------------------------------
(* No command runs twice.                                                  *)

\* The window holds every command once, and all the agent process has taken
\* until there are more of them than it has room for.
WindowCovers ==
    /\ \A i, j \in DOMAIN seen : seen[i] = seen[j] => i = j
    /\ ran = ToSet(seen) \/ Cardinality(ran) > SeenCap

\* A full window without repetition holds as many commands as it has places.
LEMMA WindowFull ==
    ASSUME TypeOK, WindowCovers
    PROVE  Cardinality(ToSet(seen)) = Len(seen)
<1>1. seen \in Seq(Wire) /\ Len(seen) \in Nat /\ DOMAIN seen = 1 .. Len(seen)
  BY DEF TypeOK
<1>2. seen \in [1 .. Len(seen) -> ToSet(seen)]
  BY <1>1 DEF ToSet
<1>3. seen \in Surjection(1 .. Len(seen), ToSet(seen))
  BY <1>1, <1>2 DEF Surjection, ToSet
<1>4. seen \in Injection(1 .. Len(seen), ToSet(seen))
  BY <1>1, <1>2 DEF Injection, IsInjective, WindowCovers
<1>5. ExistsBijection(1 .. Len(seen), ToSet(seen))
  BY <1>3, <1>4 DEF Bijection, ExistsBijection
<1>. QED
  BY <1>1, <1>5, FS_CountingElements

\* A sequence without repetition stays one when a new element is appended,
\* and when its head goes.
LEMMA Distinct ==
    ASSUME NEW W, NEW s \in Seq(W), \A i, j \in DOMAIN s : s[i] = s[j] => i = j
    PROVE  /\ \A x \in W : x \notin ToSet(s) =>
                \A i, j \in DOMAIN Append(s, x) : Append(s, x)[i] = Append(s, x)[j] => i = j
           /\ s # <<>> => \A i, j \in DOMAIN Tail(s) : Tail(s)[i] = Tail(s)[j] => i = j
<1>1. ASSUME NEW x \in W, x \notin ToSet(s), NEW i \in DOMAIN Append(s, x), NEW j \in DOMAIN Append(s, x),
             Append(s, x)[i] = Append(s, x)[j]
      PROVE  i = j
  <2>1. /\ DOMAIN Append(s, x) = 1 .. Len(s) + 1 /\ DOMAIN s = 1 .. Len(s) /\ Len(s) \in Nat
        /\ \A k \in 1 .. Len(s) : Append(s, x)[k] = s[k]
        /\ Append(s, x)[Len(s) + 1] = x
    BY AppendProperties
  <2>2. \A k \in 1 .. Len(s) + 1 : k \in 1 .. Len(s) \/ k = Len(s) + 1
    BY <2>1
  <2>3. \A k \in 1 .. Len(s) : s[k] # x
    BY <1>1, <2>1 DEF ToSet
  <2>. QED
    BY <1>1, <2>1, <2>2, <2>3
<1>2. ASSUME s # <<>>, NEW i \in DOMAIN Tail(s), NEW j \in DOMAIN Tail(s), Tail(s)[i] = Tail(s)[j]
      PROVE  i = j
  <2>1. /\ Tail(s) \in Seq(W) /\ Len(Tail(s)) = Len(s) - 1
        /\ \A k \in 1 .. Len(Tail(s)) : Tail(s)[k] = s[k + 1]
    BY <1>2, HeadTailProperties
  <2>2. Len(s) \in Nat /\ DOMAIN s = 1 .. Len(s) /\ DOMAIN Tail(s) = 1 .. Len(Tail(s))
    BY <2>1
  <2>3. i \in Int /\ j \in Int /\ i + 1 \in DOMAIN s /\ j + 1 \in DOMAIN s /\ s[i + 1] = s[j + 1]
    BY <1>2, <2>1, <2>2
  <2>4. i + 1 = j + 1
    BY <2>3
  <2>. QED
    BY <2>3, <2>4
<1>. QED
  BY <1>1, <1>2

LEMMA RanFinite == ASSUME TypeOK PROVE IsFiniteSet(ran)
<1>1. IsFiniteSet(1 .. MaxCommands) /\ IsFiniteSet({-1})
  <2>1. IsFiniteSet(1 .. MaxCommands)
    BY FS_Interval, AgentLinkAssumption
  <2>2. IsFiniteSet({-1})
    BY FS_Singleton
  <2>. QED
    BY <2>1, <2>2
<1>2. IsFiniteSet(1 .. MaxSessions + MaxChanges) /\ IsFiniteSet(0 .. MaxChanges)
  BY FS_Interval, AgentLinkAssumption
<1>3. IsFiniteSet(Commands) /\ IsFiniteSet(Snapshots)
  BY <1>1, <1>2, FS_Product DEF Commands, Snapshots
<1>4. IsFiniteSet(Wire)
  BY <1>3, FS_Union DEF Wire
<1>. QED
  BY <1>4, FS_Subset DEF TypeOK

\* The window after a command that was not in it: nothing twice in it, and
\* what is not in it any more was pushed out by more than it holds.
LEMMA WindowMoves ==
    ASSUME TypeOK, WindowCovers, NEW c \in Wire, c \notin ToSet(seen),
           seen' = Remember(c), ran' = ran \cup {c}
    PROVE  WindowCovers'
<1>1. seen \in Seq(Wire) /\ Len(seen) \in Nat /\ Len(seen) <= SeenCap
  BY DEF TypeOK
<1>2. /\ IsFiniteSet(ran) /\ Cardinality(ran) \in Nat /\ SeenCap \in Nat \ {0}
      /\ Cardinality(ran \cup {c}) = IF c \in ran THEN Cardinality(ran) ELSE Cardinality(ran) + 1
  BY RanFinite, FS_AddElement, FS_CardinalityType, AgentLinkAssumption
<1>3. Cardinality(ran) > SeenCap => Cardinality(ran') > SeenCap
  BY <1>2
<1>4. CASE Len(seen) < SeenCap
  <2>1. seen' = Append(seen, c)
    BY <1>4 DEF Remember
  <2>2. \A i, j \in DOMAIN seen' : seen'[i] = seen'[j] => i = j
    BY <1>1, <2>1, Distinct DEF WindowCovers
  <2>3. ToSet(seen') = ToSet(seen) \cup {c}
    BY <1>1, <2>1, Elements
  <2>. QED
    BY <1>3, <2>2, <2>3 DEF WindowCovers
<1>5. CASE ~(Len(seen) < SeenCap)
  <2>1. seen' = Append(Tail(seen), c) /\ seen # <<>>
    BY <1>1, <1>2, <1>5 DEF Remember
  <2>2. \A i, j \in DOMAIN seen' : seen'[i] = seen'[j] => i = j
    <3>. DEFINE rest == Tail(seen)
    <3>1. rest \in Seq(Wire) /\ ToSet(rest) \subseteq ToSet(seen)
      BY <1>1, <2>1, Elements
    <3>2. \A i, j \in DOMAIN rest : rest[i] = rest[j] => i = j
      BY <1>1, <2>1, Distinct DEF WindowCovers
    <3>. HIDE DEF rest
    <3>3. \A i, j \in DOMAIN Append(rest, c) : Append(rest, c)[i] = Append(rest, c)[j] => i = j
      BY <3>1, <3>2, Distinct
    <3>. QED
      BY <2>1, <3>3 DEF rest
  <2>3. CASE ran = ToSet(seen)
    <3>1. Cardinality(ran) = SeenCap
      BY <1>1, <1>2, <1>5, <2>3, WindowFull
    <3>. QED
      BY <1>2, <2>2, <2>3, <3>1 DEF WindowCovers
  <2>. QED
    BY <1>3, <2>2, <2>3 DEF WindowCovers
<1>. QED
  BY <1>4, <1>5

LEMMA StepWindow ==
    ASSUME TypeOK, WindowCovers, [Next]_vars
    PROVE  WindowCovers'
<1>. USE DEF vars, master, links, agent, history
<1>1. ASSUME UNCHANGED <<seen, ran>> PROVE WindowCovers'
  BY <1>1 DEF WindowCovers
<1>2. ASSUME NEW s \in Sessions, Receive(s) PROVE WindowCovers'
  <2>. DEFINE c == Head(chan[s])
  <2>1. c \in Wire
    BY <1>2, Elements DEF Receive, TypeOK
  <2>2. CASE Known(c)
    BY <1>1, <1>2, <2>2 DEF Receive
  <2>3. CASE ~Known(c)
    <3>1. c \notin ToSet(seen)
      BY <2>3, Elements DEF Known, TypeOK
    <3>2. seen' = Remember(c) /\ ran' = ran \cup {c}
      BY <1>2, <2>3 DEF Receive
    <3>. HIDE DEF c
    <3>. QED
      BY <2>1, <3>1, <3>2, WindowMoves
  <2>. QED
    BY <2>2, <2>3
<1>3. CASE AgentCrash
  BY <1>3 DEF AgentCrash, WindowCovers, ToSet
<1>. HIDE DEF WindowCovers
<1>. QED
  BY <1>1, <1>2, <1>3 DEF Next, LinkStep, Send, SendDurable, Ack, ChangeRegistries, ReadForBroadcast,
     BroadcastFails, BroadcastRegistries, Connect, ReadForAttach, AttachTrusted, AttachUnprefaced,
     AttachUntrusted, Detach, Cut, LoseStream, Dispatch, MasterCrash

\* At most once per agent process: a command is dispatched a second time, be
\* it replayed by a reconnect or sent again, only after the process has taken
\* more commands than its cmd_id window holds.
THEOREM NothingRunsTwice == Spec => NoReExecution
<1>. DEFINE Once == \A s \in Sessions : (hand[s] = NoCommand /\ hand'[s] # NoCommand)
                      => hand'[s] \notin ran \/ Cardinality(ran) > SeenCap
<1>1. Init => WindowCovers
  BY DEF Init, WindowCovers, ToSet
<1>2. ASSUME TypeOK, WindowCovers, [Next]_vars PROVE [Once]_vars
  <2>. USE DEF vars, master, links, agent, history
  <2>1. ASSUME UNCHANGED hand PROVE Once
    BY <2>1
  <2>2. ASSUME NEW s \in Sessions, Receive(s) PROVE Once
    <3>. DEFINE c == Head(chan[s])
    <3>1. CASE Known(c)
      BY <2>2, <3>1 DEF Receive
    <3>2. CASE ~Known(c)
      <4>1. c \notin ToSet(seen)
        <5>1. seen \in Seq(Wire)
          BY <1>2 DEF TypeOK
        <5>. HIDE DEF c
        <5>2. Contains(seen, c) <=> c \in ToSet(seen)
          BY <5>1, Elements
        <5>. QED
          BY <3>2, <5>2 DEF Known
      <4>2. hand' = [hand EXCEPT ![s] = c]
        BY <2>2, <3>2 DEF Receive
      <4>3. c \notin ran \/ Cardinality(ran) > SeenCap
        BY <1>2, <4>1 DEF WindowCovers
      <4>. QED
        BY <4>2, <4>3 DEF TypeOK
    <3>. QED
      BY <3>1, <3>2
  <2>3. ASSUME NEW s \in Sessions, Dispatch(s) PROVE Once
    BY <2>3 DEF Dispatch, TypeOK
  <2>4. CASE AgentCrash
    BY <2>4 DEF AgentCrash
  <2>. HIDE DEF Once
  <2>. QED
    BY <1>2, <2>1, <2>2, <2>3, <2>4 DEF Next, LinkStep, Send, SendDurable, Ack, ChangeRegistries,
       ReadForBroadcast, BroadcastFails, BroadcastRegistries, Connect, ReadForAttach, AttachTrusted,
       AttachUnprefaced, AttachUntrusted, Detach, Cut, LoseStream, MasterCrash
<1>. QED
  BY <1>1, <1>2, StepWindow, TypeCorrect, PTL DEF Spec, NoReExecution


-----------------------------------------------------------------------------
(* The newest snapshot arrives last.                                       *)

\* Snapshots are numbered as they are queued: none anywhere is ahead of the
\* last one.
IdsBounded ==
    \A c \in taken \cup ToSet(pending) \cup UNION {ToSet(chan[t]) : t \in Sessions} :
        IsSetRegistries(c) => c[1] <= queued[1]

\* Under regMu nobody holds an old read once every change has been broadcast,
\* and a trusted session's last snapshot is then the table as it is.
ReadersCurrent ==
    /\ owing = 0 => \A r \in 0 .. MaxSessions : reader[r] \in {-1, regs}
    /\ (sess # None /\ trusted[sess] /\ ~spoiled /\ owing = 0 /\ reader[Broadcast] = -1)
         => queued[2] = regs

NoSnapshotIn(q) == \A c \in ToSet(q) : ~IsSetRegistries(c)

\* Nothing but plain commands follows c in q.
LastSnapshot(q, c) == \A i, j \in DOMAIN q : i < j /\ q[i] = c => ~IsSetRegistries(q[j])

\* The agent holds the last snapshot and nothing older can reach it.
Held == agentRegs = queued[2] /\ ~IsSetRegistries(hand[sess]) /\ NoSnapshotIn(chan[sess])

\* Nobody has acknowledged c, so that the next attach replays it.
InFlight(c) == c \in ToSet(pending) /\ \A t \in Sessions : c \notin ToSet(up[t])

\* The last snapshot is the last the agent's session loop gets.
Arriving ==
    /\ InFlight(queued) \/ Held
    /\ queued \in ToSet(chan[sess]) => InFlight(queued) /\ queued \notin ToSet(seen)
    /\ hand[sess] = queued => InFlight(queued) /\ NoSnapshotIn(chan[sess])
    /\ LastSnapshot(chan[sess], queued)

\* The agent's stream is the trusted session commands are pushed to, no read
\* failed and no loop of a lost stream dispatched late.
Live == sess # None /\ stream = sess /\ trusted[sess] /\ ~spoiled

NewestArrives == Live => Arriving

\* What a queue holds behind a snapshot when it grows, shrinks or is built.
LEMMA LastStays ==
    ASSUME NEW q \in Seq(Wire), NEW x, LastSnapshot(q, x)
    PROVE  /\ \A c \in Wire : ~IsSetRegistries(c) => LastSnapshot(Append(q, c), x)
           /\ q # <<>> => /\ LastSnapshot(Tail(q), x)
                          /\ Head(q) = x => NoSnapshotIn(Tail(q))
<1>1. Len(q) \in Nat /\ DOMAIN q = 1 .. Len(q)
  OBVIOUS
<1>2. ASSUME NEW c \in Wire, ~IsSetRegistries(c) PROVE LastSnapshot(Append(q, c), x)
  <2>1. /\ DOMAIN Append(q, c) = 1 .. Len(q) + 1 /\ Append(q, c)[Len(q) + 1] = c
        /\ \A k \in 1 .. Len(q) : Append(q, c)[k] = q[k]
    BY AppendProperties
  <2>2. ASSUME NEW i \in 1 .. Len(q) + 1, NEW j \in 1 .. Len(q) + 1, i < j, Append(q, c)[i] = x
        PROVE  ~IsSetRegistries(Append(q, c)[j])
    <3>1. i \in 1 .. Len(q) /\ (j \in 1 .. Len(q) \/ j = Len(q) + 1)
      BY <1>1, <2>2
    <3>2. CASE j \in 1 .. Len(q)
      BY <1>1, <2>1, <2>2, <3>1, <3>2 DEF LastSnapshot
    <3>3. CASE j = Len(q) + 1
      BY <1>2, <2>1, <3>3
    <3>. QED
      BY <3>1, <3>2, <3>3
  <2>. QED
    BY <2>1, <2>2 DEF LastSnapshot
<1>3. ASSUME q # <<>> PROVE LastSnapshot(Tail(q), x) /\ (Head(q) = x => NoSnapshotIn(Tail(q)))
  <2>1. /\ Head(q) = q[1] /\ DOMAIN Tail(q) = 1 .. Len(q) - 1 /\ 1 \in 1 .. Len(q)
        /\ \A k \in 1 .. Len(q) - 1 : Tail(q)[k] = q[k + 1]
    BY <1>1, <1>3, HeadTailProperties
  <2>2. \A k \in 1 .. Len(q) - 1 : k + 1 \in 1 .. Len(q) /\ 1 < k + 1
    BY <1>1
  <2>3. ASSUME NEW i \in 1 .. Len(q) - 1, NEW j \in 1 .. Len(q) - 1, i < j, Tail(q)[i] = x
        PROVE  ~IsSetRegistries(Tail(q)[j])
    <3>1. i + 1 < j + 1
      BY <2>3
    <3>. QED
      BY <1>1, <2>1, <2>2, <2>3, <3>1 DEF LastSnapshot
  <2>4. ASSUME Head(q) = x, NEW k \in 1 .. Len(q) - 1 PROVE ~IsSetRegistries(Tail(q)[k])
    BY <1>1, <2>1, <2>2, <2>4 DEF LastSnapshot
  <2>5. LastSnapshot(Tail(q), x)
    BY <2>1, <2>3 DEF LastSnapshot
  <2>6. Head(q) = x => NoSnapshotIn(Tail(q))
    BY <2>1, <2>4 DEF NoSnapshotIn, ToSet
  <2>. QED
    BY <2>5, <2>6
<1>. QED
  BY <1>2, <1>3

LEMMA LastIsNew ==
    ASSUME NEW q \in Seq(Wire), NEW c \in Wire, c \notin ToSet(q)
    PROVE  LastSnapshot(q, c) /\ LastSnapshot(Append(q, c), c)
<1>1. Len(q) \in Nat /\ DOMAIN q = 1 .. Len(q) /\ \A k \in 1 .. Len(q) : q[k] # c
  BY DEF ToSet
<1>2. /\ DOMAIN Append(q, c) = 1 .. Len(q) + 1
      /\ \A k \in 1 .. Len(q) : Append(q, c)[k] = q[k]
  BY AppendProperties
<1>3. \A i, j \in 1 .. Len(q) + 1 : i < j => i \in 1 .. Len(q)
  BY <1>1
<1>. QED
  BY <1>1, <1>2, <1>3 DEF LastSnapshot

\* A preface goes in front of a backlog that has no snapshot.
LEMMA LastIsPreface ==
    ASSUME TypeOK, NEW c \in Snapshots
    PROVE  LastSnapshot(PushAll(Prefaced(c)), c) /\ PushAll(Prefaced(c)) \in Seq(Wire)
<1>. DEFINE plain == RemoveSetRegistries(pending)
            q == <<c>> \o plain
<1>1. plain \in Seq(Wire) /\ \A d \in ToSet(plain) : ~IsSetRegistries(d)
  BY PlainKept DEF TypeOK
<1>2. c \in Wire
  BY DEF Wire
<1>3. q \in Seq(Wire) /\ \A i \in DOMAIN q : i > 1 => q[i] \in ToSet(plain)
  <2>. HIDE DEF plain
  <2>. QED BY <1>1, <1>2, InFront
<1>. HIDE DEF q, plain
<1>4. /\ PushAll(q) \in Seq(Wire) /\ DOMAIN PushAll(q) \subseteq DOMAIN q
      /\ \A i \in DOMAIN PushAll(q) : PushAll(q)[i] = q[i]
  BY <1>3, PushedAll
<1>5. \A i, j \in DOMAIN PushAll(q) : i < j => j > 1
  BY <1>4
<1>6. LastSnapshot(PushAll(q), c)
  BY <1>1, <1>3, <1>4, <1>5 DEF LastSnapshot
<1>7. Prefaced(c) = q
  BY DEF Prefaced, q, plain
<1>. QED
  BY <1>4, <1>6, <1>7

\* The next snapshot is nowhere yet.
LEMMA Fresh ==
    ASSUME TypeOK, AcksAreTaken, IdsBounded, NEW c, c[1] = queued[1] + 1, IsSetRegistries(c)
    PROVE  /\ c \notin taken /\ c \notin ToSet(pending) /\ c \notin ToSet(seen)
           /\ \A t \in Sessions : c \notin ToSet(chan[t]) /\ c \notin ToSet(up[t]) /\ hand[t] # c
<1>1. queued[1] \in Int
  BY DEF TypeOK
<1>2. ~(c[1] <= queued[1])
  BY <1>1
<1>3. c \notin taken /\ c \notin ToSet(pending) /\ \A t \in Sessions : c \notin ToSet(chan[t])
  BY <1>2 DEF IdsBounded
<1>4. c # NoCommand
  BY Kinds
<1>. QED
  BY <1>3, <1>4 DEF AcksAreTaken

\* What a push leaves in the channels.
LEMMA Pushed ==
    ASSUME TypeOK, NEW c \in Wire, PushLive(c)
    PROVE  /\ \A t \in Sessions : ToSet(chan'[t]) \subseteq ToSet(chan[t]) \cup {c}
           /\ sess # None => chan'[sess] = chan[sess] \/ chan'[sess] = Append(chan[sess], c)
<1>1. \A t \in Sessions : chan[t] \in Seq(Wire)
  BY DEF TypeOK
<1>2. \A t \in Sessions : chan'[t] = IF sess = t /\ sess # None THEN Push(chan[t], c) ELSE chan[t]
  BY PushLiveTypes
<1>3. \A t \in Sessions : Push(chan[t], c) = chan[t] \/ Push(chan[t], c) = Append(chan[t], c)
  BY DEF Push
<1>4. \A t \in Sessions : ToSet(Append(chan[t], c)) = ToSet(chan[t]) \cup {c}
  <2>. TAKE t \in Sessions
  <2>. DEFINE q == chan[t]
  <2>1. q \in Seq(Wire)
    BY <1>1
  <2>. HIDE DEF q
  <2>2. ToSet(Append(q, c)) = ToSet(q) \cup {c}
    BY <2>1, Elements
  <2>. QED
    BY <2>2 DEF q
<1>5. sess # None => sess \in Sessions
  BY DEF TypeOK
<1>. QED
  BY <1>2, <1>3, <1>4, <1>5


LEMMA StepIds ==
    ASSUME TypeOK, Budget, IdsBounded, [Next]_vars
    PROVE  IdsBounded'
<1>. USE DEF vars, master, links, agent, history
<1>. DEFINE Known0 == taken \cup ToSet(pending) \cup UNION {ToSet(chan[t]) : t \in Sessions}
<1>1. ToSet(<<>>) = {}
  BY DEF ToSet
<1>2. queued[1] \in Int
  BY DEF TypeOK
<1>3. ASSUME NEW c, IsSetRegistries(c) => c[1] <= queued'[1],
             queued[1] <= queued'[1], queued'[1] \in Int,
             taken' \subseteq Known0 \cup {c}, ToSet(pending') \subseteq Known0 \cup {c},
             \A t \in Sessions : ToSet(chan'[t]) \subseteq Known0 \cup {c}
      PROVE  IdsBounded'
  <2>1. \A d \in Known0 : IsSetRegistries(d) => d[1] \in Int /\ d[1] <= queued[1]
    <3>1. Known0 \subseteq Wire
      BY Elements DEF TypeOK
    <3>2. \A d \in Wire : d[1] \in Int
      BY DEF Wire, Commands, Snapshots
    <3>. QED
      BY <3>1, <3>2 DEF IdsBounded
  <2>2. \A d \in Known0 \cup {c} : IsSetRegistries(d) => d[1] <= queued'[1]
    <3>. HIDE DEF Known0
    <3>. QED BY <1>2, <1>3, <2>1
  <2>3. taken' \cup ToSet(pending') \cup UNION {ToSet(chan'[t]) : t \in Sessions} \subseteq Known0 \cup {c}
    <3>. HIDE DEF Known0
    <3>. QED BY <1>3
  <2>. HIDE DEF Known0
  <2>. QED
    BY <2>2, <2>3 DEF IdsBounded
<1>4. ASSUME NEW c \in Commands, UNCHANGED <<queued, taken>>, PushLive(c),
             pending' = pending \/ pending' = Append(pending, c)
      PROVE  IdsBounded'
  <2>1. c \in Wire /\ ~IsSetRegistries(c)
    BY Kinds DEF Wire
  <2>2. ToSet(pending') \subseteq ToSet(pending) \cup {c}
    <3>1. pending \in Seq(Wire)
      BY DEF TypeOK
    <3>2. ToSet(Append(pending, c)) = ToSet(pending) \cup {c}
      BY <2>1, <3>1, Elements
    <3>. QED
      BY <1>4, <3>2
  <2>3. \A t \in Sessions : ToSet(chan'[t]) \subseteq ToSet(chan[t]) \cup {c}
    BY <1>4, <2>1, Pushed
  <2>4. /\ taken' \subseteq Known0 \cup {c} /\ ToSet(pending') \subseteq Known0 \cup {c}
        /\ \A t \in Sessions : ToSet(chan'[t]) \subseteq Known0 \cup {c}
    BY <1>4, <2>2, <2>3
  <2>5. queued' = queued /\ queued[1] <= queued[1]
    BY <1>2, <1>4
  <2>. HIDE DEF Known0
  <2>. QED
    BY <1>2, <1>3, <2>1, <2>4, <2>5
<1>5. ASSUME UNCHANGED queued,
             taken' \subseteq Known0, ToSet(pending') \subseteq Known0,
             \A t \in Sessions : ToSet(chan'[t]) \subseteq Known0
      PROVE  IdsBounded'
  <2>1. ~IsSetRegistries(NoCommand)
    BY Kinds
  <2>. HIDE DEF Known0
  <2>. QED
    BY <1>2, <1>3, <1>5, <2>1
<1>6. CASE Send
  <2>1. sent' \in 1 .. MaxCommands
    BY <1>6, AgentLinkAssumption DEF Send, TypeOK
  <2>2. <<sent', -1>> \in Commands
    BY <2>1 DEF Commands
  <2>3. UNCHANGED <<queued, taken>> /\ PushLive(<<sent', -1>>) /\ pending' = Append(pending, <<sent', -1>>)
    BY <1>6 DEF Send
  <2>. QED
    BY <1>4, <2>2, <2>3
<1>7. ASSUME NEW c \in Commands, SendDurable(c) PROVE IdsBounded'
  BY <1>4, <1>7 DEF SendDurable
<1>8. ASSUME NEW s \in Sessions, Ack(s) PROVE IdsBounded'
  <2>1. ToSet(pending') \subseteq ToSet(pending)
    BY <1>8, OnlyKeeps DEF Ack, TypeOK
  <2>. QED
    BY <1>5, <1>8, <2>1 DEF Ack
<1>9. CASE BroadcastRegistries
  <2>. DEFINE c == Snapshot(reader[Broadcast])
  <2>1. c \in Snapshots /\ c \in Wire /\ c[1] = queued[1] + 1
    <3>1. Broadcast \in 0 .. MaxSessions /\ reader[Broadcast] # -1
      BY <1>9, AgentLinkAssumption DEF Broadcast, BroadcastRegistries
    <3>2. queued[1] + 1 <= MaxSessions + MaxChanges
      BY <3>1, BudgetLeft
    <3>. QED
      BY <3>1, <3>2, SnapshotTypes DEF Snapshot
  <2>. HIDE DEF c
  <2>2. CASE sess # None /\ trusted[sess]
    <3>1. /\ pending' = Append(RemoveSetRegistries(pending), c)
          /\ PushLive(c) /\ queued' = c /\ UNCHANGED taken
      BY <1>9, <2>2 DEF BroadcastRegistries, c
    <3>2. ToSet(pending') \subseteq ToSet(pending) \cup {c}
      BY <2>1, <3>1, Coalesced
    <3>3. \A t \in Sessions : ToSet(chan'[t]) \subseteq ToSet(chan[t]) \cup {c}
      BY <2>1, <3>1, Pushed
    <3>4. c[1] <= queued'[1] /\ queued[1] <= queued'[1] /\ queued'[1] \in Int
      BY <1>2, <2>1, <3>1
    <3>5. /\ taken' \subseteq Known0 \cup {c} /\ ToSet(pending') \subseteq Known0 \cup {c}
          /\ \A t \in Sessions : ToSet(chan'[t]) \subseteq Known0 \cup {c}
      BY <3>1, <3>2, <3>3
    <3>. HIDE DEF Known0
    <3>. QED
      BY <1>3, <3>4, <3>5
  <2>3. CASE ~(sess # None /\ trusted[sess])
    BY <1>5, <1>9, <2>3 DEF BroadcastRegistries
  <2>. QED
    BY <2>2, <2>3
<1>10. ASSUME NEW s \in Sessions, NEW b \in Seq(Wire), AttachWith(s, b)
       PROVE  pending' = b /\ \A t \in Sessions : ToSet(chan'[t]) \subseteq ToSet(chan[t]) \cup ToSet(b)
  <2>1. ToSet(PushAll(b)) \subseteq ToSet(b)
    BY PushedAll
  <2>. QED
    BY <1>10, <2>1 DEF AttachWith, TypeOK
<1>11. ASSUME NEW s \in Sessions, AttachTrusted(s) PROVE IdsBounded'
  <2>. DEFINE c == Snapshot(reader[s])
  <2>1. c \in Snapshots /\ Prefaced(c) \in Seq(Wire) /\ c[1] = queued[1] + 1
    BY <1>11, BacklogTypes DEF Snapshot
  <2>2. AttachWith(s, Prefaced(c)) /\ queued' = c /\ UNCHANGED taken
    BY <1>11 DEF AttachTrusted
  <2>. HIDE DEF c
  <2>3. ToSet(Prefaced(c)) \subseteq ToSet(pending) \cup {c}
    BY <2>1, Coalesced
  <2>4. pending' = Prefaced(c) /\ \A t \in Sessions : ToSet(chan'[t]) \subseteq ToSet(chan[t]) \cup ToSet(Prefaced(c))
    BY <1>10, <2>1, <2>2
  <2>5. c[1] <= queued'[1] /\ queued[1] <= queued'[1] /\ queued'[1] \in Int
    BY <1>2, <2>1, <2>2
  <2>. QED
    BY <1>3, <2>2, <2>3, <2>4, <2>5
<1>12. ASSUME NEW s \in Sessions, AttachUnprefaced(s) PROVE IdsBounded'
  <2>1. pending \in Seq(Wire) /\ AttachWith(s, pending) /\ UNCHANGED <<queued, taken>>
    BY <1>12 DEF AttachUnprefaced, TypeOK
  <2>2. pending' = pending /\ \A t \in Sessions : ToSet(chan'[t]) \subseteq ToSet(chan[t]) \cup ToSet(pending)
    BY <1>10, <2>1
  <2>. QED
    BY <1>5, <2>1, <2>2
<1>13. ASSUME NEW s \in Sessions, AttachUntrusted(s) PROVE IdsBounded'
  <2>. DEFINE b == RemoveSetRegistries(pending)
  <2>1. b \in Seq(Wire) /\ ToSet(b) \subseteq ToSet(pending)
    BY PlainKept DEF TypeOK
  <2>2. AttachWith(s, b) /\ UNCHANGED <<queued, taken>>
    BY <1>13 DEF AttachUntrusted
  <2>. HIDE DEF b
  <2>3. pending' = b /\ \A t \in Sessions : ToSet(chan'[t]) \subseteq ToSet(chan[t]) \cup ToSet(b)
    BY <1>10, <2>1, <2>2
  <2>. QED
    BY <1>5, <2>1, <2>2, <2>3
<1>14. ASSUME NEW s \in Sessions, Detach(s) PROVE IdsBounded'
  <2>1. \A t \in Sessions : ToSet(chan'[t]) \subseteq ToSet(chan[t])
    BY <1>1, <1>14 DEF Detach, TypeOK
  <2>. QED
    BY <1>5, <1>14, <2>1 DEF Detach
<1>15. CASE LoseStream
  <2>1. \A t \in Sessions : ToSet(chan'[t]) \subseteq ToSet(chan[t])
    BY <1>1, <1>15 DEF LoseStream, TypeOK
  <2>. QED
    BY <1>5, <1>15, <2>1 DEF LoseStream
<1>16. ASSUME NEW s \in Sessions, Receive(s) PROVE IdsBounded'
  <2>1. Head(chan[s]) \in ToSet(chan[s]) /\ ToSet(Tail(chan[s])) \subseteq ToSet(chan[s])
    BY <1>16, Elements DEF Receive, TypeOK
  <2>2. \A t \in Sessions : ToSet(chan'[t]) \subseteq ToSet(chan[t])
    BY <1>16, <2>1 DEF Receive, TypeOK
  <2>3. taken' \subseteq taken \cup ToSet(chan[s]) /\ UNCHANGED <<pending, queued>>
    BY <1>16, <2>1 DEF Receive
  <2>. QED
    BY <1>5, <2>2, <2>3
<1>17. CASE MasterCrash
  <2>1. \A t \in Sessions : ToSet(chan'[t]) \subseteq ToSet(chan[t])
    BY <1>1, <1>17 DEF MasterCrash, TypeOK
  <2>. QED
    BY <1>1, <1>5, <1>17, <2>1 DEF MasterCrash
<1>18. ASSUME UNCHANGED <<taken, pending, chan, queued>> PROVE IdsBounded'
  BY <1>18 DEF IdsBounded
<1>. HIDE DEF IdsBounded
<1>. QED
  BY <1>6, <1>7, <1>8, <1>9, <1>11, <1>12, <1>13, <1>14, <1>15, <1>16, <1>17, <1>18
     DEF Next, LinkStep, ChangeRegistries, ReadForBroadcast, BroadcastFails, Connect, ReadForAttach,
         Cut, Dispatch, AgentCrash

LEMMA StepReaders ==
    ASSUME TypeOK, Budget, SessionAttached, ReadersCurrent, [Next]_vars
    PROVE  ReadersCurrent'
<1>. USE DEF vars, master, links, agent, history
<1>1. /\ Broadcast \in 0 .. MaxSessions /\ Broadcast \notin Sessions /\ DOMAIN reader = 0 .. MaxSessions
      /\ regs # -1 /\ owing \in Nat /\ Sessions \subseteq 0 .. MaxSessions
  <2>1. regs \in 0 .. MaxChanges /\ MaxChanges \in Nat /\ owing \in 0 .. MaxChanges
    BY AgentLinkAssumption DEF TypeOK
  <2>2. regs # -1 /\ owing \in Nat
    BY <2>1
  <2>3. Broadcast \notin Sessions
    BY DEF Broadcast, Sessions
  <2>. QED
    BY <2>2, <2>3, FaultTypes DEF TypeOK, Broadcast
<1>2. ASSUME UNCHANGED <<regs, owing, reader, sess, trusted, spoiled, queued>> PROVE ReadersCurrent'
  BY <1>2 DEF ReadersCurrent
<1>3. CASE ChangeRegistries
  <2>1. owing' # 0
    BY <1>1, <1>3 DEF ChangeRegistries
  <2>. QED
    BY <2>1 DEF ReadersCurrent
<1>4. CASE ReadForBroadcast
  <2>1. /\ \A r \in 0 .. MaxSessions : reader[r] = -1
        /\ reader' = [reader EXCEPT ![Broadcast] = regs] /\ regs' = regs
    BY <1>1, <1>4 DEF ReadForBroadcast, RegMuFree
  <2>2. /\ reader'[Broadcast] # -1 /\ \A r \in 0 .. MaxSessions : reader'[r] \in {-1, regs'}
    BY <1>1, <2>1
  <2>. QED
    BY <2>2 DEF ReadersCurrent
<1>5. CASE BroadcastFails
  <2>1. \A r \in 0 .. MaxSessions : reader'[r] = -1
    BY <1>1, <1>5 DEF BroadcastFails, RegMuFree
  <2>2. spoiled'
    BY <1>5 DEF BroadcastFails
  <2>. QED
    BY <2>1, <2>2 DEF ReadersCurrent
<1>6. CASE BroadcastRegistries
  <2>1. /\ reader[Broadcast] # -1 /\ reader' = [reader EXCEPT ![Broadcast] = -1]
        /\ UNCHANGED <<regs, owing, sess, trusted, spoiled>>
        /\ sess # None /\ trusted[sess] => queued' = Snapshot(reader[Broadcast])
    BY <1>6 DEF BroadcastRegistries
  <2>2. owing' = 0 => \A r \in 0 .. MaxSessions : reader'[r] \in {-1, regs'}
    BY <2>1 DEF ReadersCurrent, TypeOK
  <2>3. owing' = 0 => Snapshot(reader[Broadcast])[2] = regs'
    BY <1>1, <2>1 DEF ReadersCurrent, Snapshot
  <2>. QED
    BY <2>1, <2>2, <2>3 DEF ReadersCurrent
<1>7. ASSUME NEW s \in Sessions, NEW b \in BOOLEAN, Connect(s, b) PROVE ReadersCurrent'
  <2>1. serve[s] = "none"
    BY <1>7 DEF Connect, Budget, TypeOK, Sessions
  <2>2. sess # None => sess # s
    BY <2>1 DEF SessionAttached
  <2>3. /\ trusted' = [trusted EXCEPT ![s] = b]
        /\ UNCHANGED <<regs, owing, reader, sess, spoiled, queued>>
    BY <1>7 DEF Connect
  <2>4. sess # None => trusted'[sess] = trusted[sess]
    BY <2>2, <2>3 DEF TypeOK
  <2>. QED
    BY <2>3, <2>4 DEF ReadersCurrent
<1>8. ASSUME NEW s \in Sessions, ReadForAttach(s) PROVE ReadersCurrent'
  <2>1. /\ \A r \in 0 .. MaxSessions : reader[r] = -1
        /\ reader' = [reader EXCEPT ![s] = regs]
        /\ UNCHANGED <<regs, owing, sess, trusted, spoiled, queued>>
    BY <1>1, <1>8 DEF ReadForAttach, RegMuFree
  <2>2. /\ reader'[Broadcast] = reader[Broadcast] /\ \A r \in 0 .. MaxSessions : reader'[r] \in {-1, regs'}
    BY <1>1, <2>1
  <2>. QED
    BY <2>1, <2>2 DEF ReadersCurrent
<1>9. ASSUME NEW s \in Sessions, AttachTrusted(s) PROVE ReadersCurrent'
  <2>1. /\ reader[s] # -1 /\ reader' = [reader EXCEPT ![s] = -1]
        /\ queued' = Snapshot(reader[s]) /\ UNCHANGED <<regs, owing>>
    BY <1>9 DEF AttachTrusted
  <2>2. owing' = 0 => \A r \in 0 .. MaxSessions : reader'[r] \in {-1, regs'}
    BY <2>1 DEF ReadersCurrent, TypeOK
  <2>3. owing' = 0 => queued'[2] = regs'
    BY <1>1, <2>1 DEF ReadersCurrent, Snapshot
  <2>. QED
    BY <2>2, <2>3 DEF ReadersCurrent
<1>10. ASSUME NEW s \in Sessions, AttachUnprefaced(s) PROVE ReadersCurrent'
  BY <1>10 DEF AttachUnprefaced, ReadersCurrent
<1>11. ASSUME NEW s \in Sessions, AttachUntrusted(s) PROVE ReadersCurrent'
  <2>1. sess' = s /\ trusted' = trusted /\ ~trusted[s] /\ UNCHANGED <<regs, owing, reader>>
    BY <1>11 DEF AttachUntrusted, AttachWith
  <2>. QED
    BY <2>1 DEF ReadersCurrent
<1>12. ASSUME NEW s \in Sessions, Detach(s) PROVE ReadersCurrent'
  <2>1. sess' # None => sess' = sess /\ trusted'[sess] = trusted[sess]
    BY <1>12 DEF Detach, Detached, TypeOK
  <2>2. UNCHANGED <<regs, owing, reader, spoiled, queued>>
    BY <1>12 DEF Detach
  <2>. QED
    BY <2>1, <2>2 DEF ReadersCurrent
<1>13. ASSUME NEW s \in Sessions, Dispatch(s) PROVE ReadersCurrent'
  <2>1. (spoiled => spoiled') /\ UNCHANGED <<regs, owing, reader, sess, trusted, queued>>
    BY <1>13 DEF Dispatch
  <2>. QED
    BY <2>1 DEF ReadersCurrent
<1>14. CASE MasterCrash
  <2>1. sess' = None /\ \A r \in 0 .. MaxSessions : reader'[r] = -1
    BY <1>1, <1>14 DEF MasterCrash
  <2>. QED
    BY <2>1 DEF ReadersCurrent
<1>. HIDE DEF ReadersCurrent
<1>. QED
  BY <1>2, <1>3, <1>4, <1>5, <1>6, <1>7, <1>8, <1>9, <1>10, <1>11, <1>12, <1>13, <1>14
     DEF Next, LinkStep, Send, SendDurable, Ack, Cut, LoseStream, Receive, AgentCrash


LEMMA StepNewest ==
    ASSUME TypeOK, Budget, SessionAttached, AcksAreTaken, IdsBounded, NewestArrives, [Next]_vars
    PROVE  NewestArrives'
<1>. USE DEF vars, master, links, agent, history
<1>. SUFFICES ASSUME Live' PROVE Arriving'
  BY DEF NewestArrives
<1>1. IsSetRegistries(queued) /\ queued # NoCommand
  BY Kinds, AgentLinkAssumption DEF TypeOK, IsSetRegistries
<1>2. sess # None => sess \in Sessions /\ chan[sess] \in Seq(Wire)
  BY DEF TypeOK
<1>3. ASSUME Live, UNCHANGED <<sess, queued, agentRegs, seen>>, hand'[sess] = hand[sess],
             InFlight(queued) => InFlight(queued)', chan'[sess] = chan[sess]
      PROVE  Arriving'
  <2>1. Arriving
    BY <1>3 DEF NewestArrives
  <2>. QED
    BY <1>3, <2>1 DEF Arriving, Held
<1>4. ASSUME NEW c \in Commands, Live, UNCHANGED <<sess, queued, agentRegs, seen, hand, up>>,
             pending' = pending \/ pending' = Append(pending, c), PushLive(c)
      PROVE  Arriving'
  <2>1. c \in Wire /\ ~IsSetRegistries(c)
    BY Kinds DEF Wire
  <2>2. InFlight(queued) => InFlight(queued)'
    <3>1. pending \in Seq(Wire)
      BY DEF TypeOK
    <3>2. ToSet(Append(pending, c)) = ToSet(pending) \cup {c}
      BY <2>1, <3>1, Elements
    <3>3. ToSet(pending) \subseteq ToSet(pending')
      BY <1>4, <3>2
    <3>. QED
      BY <1>4, <3>3 DEF InFlight
  <2>3. CASE chan'[sess] = chan[sess]
    BY <1>3, <1>4, <2>2, <2>3
  <2>4. CASE chan'[sess] = Append(chan[sess], c)
    <3>. DEFINE q == chan[sess]
    <3>1. q \in Seq(Wire) /\ Arriving
      BY <1>2, <1>4 DEF Live, NewestArrives
    <3>. HIDE DEF q
    <3>2. ToSet(Append(q, c)) = ToSet(q) \cup {c}
      BY <2>1, <3>1, Elements
    <3>3. LastSnapshot(Append(q, c), queued)
      BY <2>1, <3>1, LastStays DEF Arriving, q
    <3>4. NoSnapshotIn(q) => NoSnapshotIn(Append(q, c))
      BY <2>1, <3>2 DEF NoSnapshotIn
    <3>5. queued # c
      BY <1>1, <2>1
    <3>6. /\ sess' = sess /\ queued' = queued /\ agentRegs' = agentRegs /\ seen' = seen /\ hand' = hand
          /\ chan'[sess] = Append(q, c) /\ q = chan[sess]
      BY <1>4, <2>4 DEF q
    <3>7. InFlight(queued)' \/ Held'
      BY <2>2, <3>1, <3>4, <3>6 DEF Arriving, Held
    <3>8. queued \in ToSet(chan'[sess]) => InFlight(queued)' /\ queued \notin ToSet(seen)
      BY <2>2, <3>1, <3>2, <3>5, <3>6 DEF Arriving
    <3>9. hand'[sess] = queued => InFlight(queued)' /\ NoSnapshotIn(chan'[sess])
      BY <2>2, <3>1, <3>4, <3>6 DEF Arriving
    <3>. QED
      BY <3>3, <3>6, <3>7, <3>8, <3>9 DEF Arriving
  <2>. QED
    BY <1>4, <2>1, <2>3, <2>4, Pushed DEF Live
<1>5. ASSUME NEW c, c[1] = queued[1] + 1, IsSetRegistries(c), queued' = c, c \in ToSet(pending'),
             UNCHANGED <<up, seen, hand>>, LastSnapshot(chan'[sess'], c)
      PROVE  Arriving'
  <2>1. /\ c \notin ToSet(seen)
        /\ \A t \in Sessions : c \notin ToSet(up[t]) /\ hand[t] # c
    BY <1>5, Fresh
  <2>2. sess' \in Sessions
    BY StepTypes DEF TypeOK, Live
  <2>. QED
    BY <1>5, <2>1, <2>2 DEF Arriving, InFlight
<1>6. CASE Send
  <2>1. sent' \in 1 .. MaxCommands
    BY <1>6, AgentLinkAssumption DEF Send, TypeOK
  <2>2. <<sent', -1>> \in Commands
    BY <2>1 DEF Commands
  <2>3. /\ UNCHANGED <<sess, queued, agentRegs, seen, hand, up>> /\ PushLive(<<sent', -1>>)
        /\ pending' = Append(pending, <<sent', -1>>)
    BY <1>6 DEF Send
  <2>4. Live
    BY <1>6 DEF Send, Live
  <2>. QED
    BY <1>4, <2>2, <2>3, <2>4
<1>7. ASSUME NEW c \in Commands, SendDurable(c) PROVE Arriving'
  <2>1. Live
    BY <1>7 DEF SendDurable, Live
  <2>. QED
    BY <1>4, <1>7, <2>1 DEF SendDurable
<1>8. ASSUME NEW s \in Sessions, Ack(s) PROVE Arriving'
  <2>. DEFINE h == Head(up[s])
  <2>1. Live
    BY <1>8 DEF Ack, Live
  <2>2. h \in ToSet(up[s]) /\ ToSet(Tail(up[s])) \subseteq ToSet(up[s])
    BY <1>8, Elements DEF Ack, TypeOK
  <2>3. ToSet(pending') = ToSet(pending) \ {h}
    <3>1. ToSet(Only(pending, ToSet(pending) \ {h})) = ToSet(pending) \cap (ToSet(pending) \ {h})
      BY OnlyKeeps DEF TypeOK
    <3>. QED
      BY <1>8, <3>1 DEF Ack
  <2>4. \A t \in Sessions : ToSet(up'[t]) \subseteq ToSet(up[t])
    BY <1>8, <2>2 DEF Ack, TypeOK
  <2>. HIDE DEF h
  <2>5. UNCHANGED <<sess, queued, agentRegs, seen, hand, chan>>
    BY <1>8 DEF Ack
  <2>6. InFlight(queued) => InFlight(queued)'
    BY <2>2, <2>3, <2>4, <2>5 DEF InFlight
  <2>. QED
    BY <1>3, <2>1, <2>5, <2>6
<1>9. CASE BroadcastRegistries
  <2>. DEFINE c == Snapshot(reader[Broadcast])
  <2>0. UNCHANGED <<sess, trusted, stream, spoiled, up, seen, hand>> /\ Live
    BY <1>9 DEF BroadcastRegistries, Live
  <2>1. c \in Snapshots /\ c \in Wire /\ c[1] = queued[1] + 1 /\ IsSetRegistries(c)
    <3>1. Broadcast \in 0 .. MaxSessions /\ reader[Broadcast] # -1
      BY <1>9, AgentLinkAssumption DEF Broadcast, BroadcastRegistries
    <3>2. queued[1] + 1 <= MaxSessions + MaxChanges
      BY <3>1, BudgetLeft
    <3>. QED
      BY <3>1, <3>2, SnapshotTypes DEF Snapshot
  <2>2. /\ pending' = Append(RemoveSetRegistries(pending), c)
        /\ PushLive(c) /\ queued' = c
    BY <1>9, <2>0 DEF BroadcastRegistries, Live
  <2>. HIDE DEF c
  <2>3. c \in ToSet(pending')
    BY <2>1, <2>2, Coalesced
  <2>4. LastSnapshot(chan'[sess], c)
    <3>1. c \notin ToSet(chan[sess]) /\ chan[sess] \in Seq(Wire)
      BY <1>2, <2>0, <2>1, Fresh DEF Live
    <3>2. LastSnapshot(chan[sess], c) /\ LastSnapshot(Append(chan[sess], c), c)
      <4>. DEFINE q == chan[sess]
      <4>1. q \in Seq(Wire) /\ c \notin ToSet(q)
        BY <3>1
      <4>. HIDE DEF q
      <4>2. LastSnapshot(q, c) /\ LastSnapshot(Append(q, c), c)
        BY <2>1, <4>1, LastIsNew
      <4>. QED
        BY <4>2 DEF q
    <3>3. chan'[sess] = chan[sess] \/ chan'[sess] = Append(chan[sess], c)
      BY <2>0, <2>1, <2>2, Pushed DEF Live
    <3>. QED
      BY <3>2, <3>3
  <2>. QED
    BY <1>5, <2>0, <2>1, <2>2, <2>3, <2>4
<1>10. ASSUME NEW s \in Sessions, AttachTrusted(s) PROVE Arriving'
  <2>. DEFINE c == Snapshot(reader[s])
  <2>1. c \in Snapshots /\ IsSetRegistries(c) /\ c[1] = queued[1] + 1
    BY <1>10, BacklogTypes DEF Snapshot
  <2>2. /\ sess' = s /\ pending' = Prefaced(c) /\ queued' = c /\ UNCHANGED <<up, seen, hand>>
        /\ chan' = [chan EXCEPT ![s] = PushAll(Prefaced(c))]
    BY <1>10 DEF AttachTrusted, AttachWith
  <2>. HIDE DEF c
  <2>3. c \in ToSet(pending')
    BY <2>1, <2>2, Coalesced
  <2>4. chan'[sess'] = PushAll(Prefaced(c))
    BY <2>2 DEF TypeOK
  <2>5. LastSnapshot(PushAll(Prefaced(c)), c)
    BY <2>1, LastIsPreface
  <2>. QED
    BY <1>5, <2>1, <2>2, <2>3, <2>4, <2>5
<1>11. ASSUME NEW s \in Sessions, AttachUnprefaced(s) PROVE Arriving'
  BY <1>11 DEF AttachUnprefaced, Live
<1>12. ASSUME NEW s \in Sessions, AttachUntrusted(s) PROVE Arriving'
  BY <1>12 DEF AttachUntrusted, AttachWith, Live
<1>13. ASSUME NEW s \in Sessions, NEW b \in BOOLEAN, Connect(s, b) PROVE Arriving'
  <2>1. serve[s] = "none"
    BY <1>13 DEF Connect, Budget, TypeOK, Sessions
  <2>2. sess # s
    BY <2>1 DEF SessionAttached, Sessions, None
  <2>3. sess' = sess /\ stream' = s
    BY <1>13 DEF Connect
  <2>. QED
    BY <2>2, <2>3 DEF Live
<1>14. ASSUME NEW s \in Sessions, Detach(s) PROVE Arriving'
  <2>1. sess' = sess /\ sess # s /\ sess # None
    BY <1>14 DEF Detach, Detached, Live, Sessions, None
  <2>2. UNCHANGED <<queued, agentRegs, seen, hand, stream, pending, spoiled>>
    BY <1>14 DEF Detach
  <2>3. trusted'[sess] = trusted[sess] /\ chan'[sess] = chan[sess]
    BY <1>14, <1>2, <2>1 DEF Detach, TypeOK
  <2>4. \A t \in Sessions : ToSet(up'[t]) \subseteq ToSet(up[t])
    <3>1. ToSet(<<>>) = {}
      BY DEF ToSet
    <3>. QED
      BY <1>14, <3>1 DEF Detach, TypeOK
  <2>5. Live
    BY <2>1, <2>2, <2>3 DEF Live
  <2>6. InFlight(queued) => InFlight(queued)'
    BY <2>2, <2>4 DEF InFlight
  <2>. QED
    BY <1>3, <2>1, <2>2, <2>3, <2>5, <2>6
<1>15. CASE LoseStream
  BY <1>15 DEF LoseStream, Live
<1>16. ASSUME NEW s \in Sessions, NEW c \in Wire, Acknowledge(s, c), c # queued,
              queued' = queued, pending' = pending
       PROVE  InFlight(queued) => InFlight(queued)'
  <2>1. \A t \in Sessions : ToSet(up'[t]) \subseteq ToSet(up[t]) \cup {c}
    BY <1>16, AckTypes
  <2>. QED
    BY <1>16, <2>1 DEF InFlight
<1>17. ASSUME NEW s \in Sessions, Receive(s) PROVE Arriving'
  <2>. DEFINE q == chan[s]
              c == Head(q)
  <2>1. /\ sess' = sess /\ queued' = queued /\ agentRegs' = agentRegs /\ pending' = pending /\ stream' = stream
        /\ stream = s /\ hand[s] = NoCommand /\ chan' = [chan EXCEPT ![s] = Tail(q)] /\ q # <<>>
    BY <1>17 DEF Receive
  <2>2. Live /\ sess = s /\ Arriving /\ s # None
    BY <1>17, <2>1 DEF Receive, Live, NewestArrives
  <2>3. q \in Seq(Wire) /\ chan'[s] = Tail(q)
    BY <2>1 DEF TypeOK
  <2>4. CASE Known(c)
    <3>1. Acknowledge(s, c) /\ UNCHANGED <<seen, hand>>
      BY <1>17, <2>4 DEF Receive
    <3>. HIDE DEF q
    <3>2. c \in Wire /\ c \in ToSet(q) /\ ToSet(Tail(q)) \subseteq ToSet(q)
      BY <2>1, <2>3, Elements
    <3>3. c \in ToSet(seen)
      BY <2>4, Elements DEF Known, TypeOK
    <3>. HIDE DEF c
    <3>4. c # queued
      BY <2>2, <3>2, <3>3 DEF Arriving, q
    <3>5. InFlight(queued) => InFlight(queued)'
      BY <1>16, <2>1, <3>1, <3>2, <3>4
    <3>6. LastSnapshot(Tail(q), queued)
      BY <2>1, <2>2, <2>3, LastStays DEF Arriving, q
    <3>7. NoSnapshotIn(q) => NoSnapshotIn(Tail(q))
      BY <3>2 DEF NoSnapshotIn
    <3>8. q = chan[sess] /\ chan'[sess'] = Tail(q) /\ hand' = hand /\ seen' = seen
      BY <2>1, <2>2, <2>3, <3>1 DEF q
    <3>9. InFlight(queued)' \/ Held'
      BY <2>1, <2>2, <3>5, <3>7, <3>8 DEF Arriving, Held
    <3>10. queued \in ToSet(chan'[sess']) => InFlight(queued)' /\ queued \notin ToSet(seen')
      BY <2>2, <3>2, <3>5, <3>8 DEF Arriving
    <3>11. hand'[sess'] # queued
      BY <1>1, <2>1, <2>2, <3>8
    <3>. QED
      BY <2>1, <3>6, <3>8, <3>9, <3>10, <3>11 DEF Arriving
  <2>5. CASE ~Known(c)
    <3>1. seen' = Remember(c) /\ hand' = [hand EXCEPT ![s] = c] /\ UNCHANGED up
      BY <1>17, <2>5 DEF Receive
    <3>. HIDE DEF q
    <3>2. c \in Wire /\ c \in ToSet(q) /\ ToSet(Tail(q)) \subseteq ToSet(q)
      BY <2>1, <2>3, Elements
    <3>3. LastSnapshot(Tail(q), queued) /\ (c = queued => NoSnapshotIn(Tail(q)))
      BY <2>1, <2>2, <2>3, LastStays DEF Arriving, q
    <3>. HIDE DEF c
    <3>4. ToSet(seen') \subseteq ToSet(seen) \cup {c}
      BY <3>1, <3>2, WindowTypes
    <3>5. InFlight(queued) => InFlight(queued)'
      BY <2>1, <3>1 DEF InFlight
    <3>6. q = chan[sess] /\ chan'[sess'] = Tail(q) /\ hand'[sess'] = c
      BY <2>1, <2>2, <2>3, <3>1 DEF q, TypeOK
    <3>7. c = queued => InFlight(queued) /\ queued \notin ToSet(Tail(q))
      <4>1. c = queued => queued \notin ToSet(Tail(q))
        BY <1>1, <3>3 DEF NoSnapshotIn
      <4>. QED
        BY <2>2, <3>2, <3>6, <4>1 DEF Arriving
    <3>8. InFlight(queued)' \/ Held'
      <4>1. CASE InFlight(queued)
        BY <3>5, <4>1
      <4>2. CASE Held
        <5>1. ~IsSetRegistries(c) /\ NoSnapshotIn(Tail(q))
          BY <3>2, <3>6, <4>2 DEF Held, NoSnapshotIn
        <5>. QED
          BY <2>1, <3>6, <4>2, <5>1 DEF Held
      <4>. QED
        BY <2>2, <4>1, <4>2 DEF Arriving
    <3>9. queued \in ToSet(chan'[sess']) => InFlight(queued)' /\ queued \notin ToSet(seen')
      BY <2>2, <3>2, <3>4, <3>5, <3>6, <3>7 DEF Arriving
    <3>10. hand'[sess'] = queued => InFlight(queued)' /\ NoSnapshotIn(chan'[sess'])
      BY <3>3, <3>5, <3>6, <3>7
    <3>. QED
      BY <2>1, <3>3, <3>6, <3>8, <3>9, <3>10 DEF Arriving
  <2>. QED
    BY <2>4, <2>5
<1>18. ASSUME NEW s \in Sessions, Dispatch(s) PROVE Arriving'
  <2>. DEFINE c == hand[s]
  <2>1. /\ sess' = sess /\ queued' = queued /\ pending' = pending /\ chan' = chan /\ seen' = seen
        /\ agentRegs' = IF IsSetRegistries(c) THEN c[2] ELSE agentRegs
        /\ hand' = [hand EXCEPT ![s] = NoCommand] /\ Acknowledge(s, c) /\ c # NoCommand
    BY <1>18 DEF Dispatch
  <2>2. Live /\ sess = s /\ Arriving
    BY <1>18 DEF Dispatch, Live, NewestArrives
  <2>3. c \in Wire /\ hand'[s] = NoCommand
    BY <2>1 DEF TypeOK
  <2>4. ~IsSetRegistries(NoCommand)
    BY Kinds
  <2>5. CASE c = queued
    <3>1. NoSnapshotIn(chan[s])
      BY <2>2, <2>5 DEF Arriving
    <3>2. Held'
      BY <1>1, <2>1, <2>2, <2>3, <2>4, <2>5, <3>1 DEF Held
    <3>3. queued \notin ToSet(chan[s])
      BY <1>1, <3>1 DEF NoSnapshotIn
    <3>. QED
      BY <1>1, <2>1, <2>2, <2>3, <3>2, <3>3 DEF Arriving
  <2>6. CASE c # queued
    <3>1. InFlight(queued) => InFlight(queued)'
      BY <1>16, <2>1, <2>3, <2>6
    <3>2. Held => Held'
      BY <2>1, <2>2, <2>3, <2>4 DEF Held
    <3>. QED
      BY <1>1, <2>1, <2>2, <2>3, <3>1, <3>2 DEF Arriving
  <2>. QED
    BY <2>5, <2>6
<1>19. CASE MasterCrash
  BY <1>19 DEF MasterCrash, Live
<1>20. CASE AgentCrash
  BY <1>20 DEF AgentCrash, Live
<1>21. ASSUME UNCHANGED <<sess, stream, trusted, spoiled, queued, agentRegs, seen, hand, chan, pending, up>>
       PROVE  Arriving'
  <2>1. Live
    BY <1>21 DEF Live
  <2>2. InFlight(queued) => InFlight(queued)'
    BY <1>21 DEF InFlight
  <2>. QED
    BY <1>3, <1>21, <2>1, <2>2
<1>22. CASE BroadcastFails
  BY <1>22 DEF BroadcastFails, Live
<1>. HIDE DEF Arriving, Live
<1>. QED
  BY <1>6, <1>7, <1>8, <1>9, <1>10, <1>11, <1>12, <1>13, <1>14, <1>15, <1>17, <1>18, <1>19, <1>20,
     <1>21, <1>22 DEF Next, LinkStep, ChangeRegistries, ReadForBroadcast, ReadForAttach, Cut

\* Whichever caller reads last is also delivered last: once no change waits to
\* be broadcast, nobody is between reading and queueing, and no snapshot waits
\* to be acknowledged, an agent on a trusted session has the credentials as
\* they are in the table, unless a read failed or a lost stream's loop
\* dispatched late.
THEOREM TheLastReadIsHeld == Spec => []LatestRegistriesHeld
<1>. DEFINE Base == TypeOK /\ Budget /\ SessionAttached
            Inv == AcksAreTaken /\ IdsBounded /\ ReadersCurrent /\ NewestArrives
<1>1. ASSUME Init PROVE Inv
  <2>1. AcksAreTaken
    BY <1>1 DEF Init, AcksAreTaken, ToSet
  <2>2. IdsBounded
    BY <1>1 DEF Init, IdsBounded, ToSet
  <2>3. ReadersCurrent /\ NewestArrives
    BY <1>1 DEF Init, ReadersCurrent, NewestArrives, Live
  <2>. QED
    BY <2>1, <2>2, <2>3
<1>2. Base /\ Inv /\ [Next]_vars => Inv'
  BY StepAcks, StepIds, StepReaders, StepNewest
<1>3. Base /\ Inv => LatestRegistriesHeld
  <2>. SUFFICES ASSUME Base, Inv, stream # None, stream = sess, trusted[sess], owing = 0, RegMuFree,
                       RemoveSetRegistries(pending) = pending, ~spoiled
                PROVE  agentRegs = regs
    BY DEF LatestRegistriesHeld
  <2>1. queued[2] = regs
    <3>1. reader[Broadcast] = -1
      BY FaultTypes DEF RegMuFree, TypeOK, Broadcast
    <3>. QED
      BY <3>1 DEF ReadersCurrent
  <2>2. queued \notin ToSet(pending)
    <3>1. ToSet(pending) = {c \in ToSet(pending) : ~IsSetRegistries(c)}
      BY PlainKept DEF TypeOK
    <3>2. IsSetRegistries(queued)
      BY AgentLinkAssumption DEF TypeOK, IsSetRegistries
    <3>. QED
      BY <3>1, <3>2
  <2>3. Held
    BY <2>2 DEF NewestArrives, Live, Arriving, InFlight
  <2>. QED
    BY <2>1, <2>3 DEF Held
<1>4. Spec => []Base
  BY Kept
<1>. HIDE DEF Base, Inv
<1>. QED
  BY <1>1, <1>2, <1>3, <1>4, PTL DEF Spec


-----------------------------------------------------------------------------
(* Credentials stay off untrusted sessions.                                *)

\* Only a trusted session that has not attached yet has read the table.
ReadersTrusted == \A s \in Sessions : reader[s] # -1 => serve[s] = "hello" /\ trusted[s]

LEMMA StepReadersTrusted ==
    ASSUME TypeOK, Budget, SessionAttached, ReadersTrusted, [Next]_vars
    PROVE  ReadersTrusted'
<1>. USE DEF vars, master, links, agent, history
<1>1. ASSUME UNCHANGED <<reader, serve, trusted>> PROVE ReadersTrusted'
  BY <1>1 DEF ReadersTrusted
<1>2. Sessions \subseteq DOMAIN reader /\ Broadcast \notin Sessions
  BY FaultTypes DEF TypeOK, Broadcast, Sessions
<1>3. ASSUME RegMuFree, UNCHANGED reader PROVE ReadersTrusted'
  BY <1>2, <1>3 DEF ReadersTrusted, RegMuFree
<1>4. CASE ReadForBroadcast
  <2>1. \A s \in Sessions : reader'[s] = reader[s]
    BY <1>2, <1>4 DEF ReadForBroadcast, TypeOK
  <2>. QED
    BY <1>4, <2>1 DEF ReadForBroadcast, ReadersTrusted
<1>5. CASE BroadcastRegistries
  <2>1. \A s \in Sessions : reader'[s] = reader[s]
    BY <1>2, <1>5 DEF BroadcastRegistries, TypeOK
  <2>. QED
    BY <1>5, <2>1 DEF BroadcastRegistries, ReadersTrusted
<1>6. ASSUME NEW s \in Sessions, NEW b \in BOOLEAN, Connect(s, b) PROVE ReadersTrusted'
  <2>1. serve[s] = "none"
    BY <1>6 DEF Connect, Budget, TypeOK, Sessions
  <2>2. reader[s] = -1
    BY <2>1 DEF ReadersTrusted
  <2>. QED
    BY <1>6, <2>2 DEF Connect, ReadersTrusted, TypeOK
<1>7. ASSUME NEW s \in Sessions, ReadForAttach(s) PROVE ReadersTrusted'
  <2>1. \A t \in Sessions : t # s => reader'[t] = reader[t]
    BY <1>7 DEF ReadForAttach, TypeOK
  <2>. QED
    BY <1>7, <2>1 DEF ReadForAttach, ReadersTrusted
<1>8. ASSUME NEW s \in Sessions, AttachTrusted(s) PROVE ReadersTrusted'
  <2>1. /\ reader'[s] = -1 /\ \A t \in Sessions : t # s => reader'[t] = reader[t]
    BY <1>2, <1>8 DEF AttachTrusted, TypeOK
  <2>2. \A t \in Sessions : t # s /\ serve[t] = "hello" => serve'[t] = "hello"
    BY <1>8 DEF AttachTrusted, AttachWith, SessionAttached, None, Sessions
  <2>3. trusted' = trusted
    BY <1>8 DEF AttachTrusted
  <2>. QED
    BY <2>1, <2>2, <2>3 DEF ReadersTrusted
<1>9. ASSUME NEW s \in Sessions, Detach(s) PROVE ReadersTrusted'
  BY <1>9 DEF Detach, ReadersTrusted, TypeOK
<1>10. CASE MasterCrash
  BY <1>2, <1>10 DEF MasterCrash, ReadersTrusted
<1>. HIDE DEF ReadersTrusted
<1>. QED
  BY <1>1, <1>3, <1>4, <1>5, <1>6, <1>7, <1>8, <1>9, <1>10 DEF Next, LinkStep, Send, SendDurable, Ack,
     ChangeRegistries, BroadcastFails, AttachUnprefaced, AttachUntrusted, Cut, LoseStream, Receive,
     Dispatch, AgentCrash

LEMMA StepUntrusted ==
    ASSUME TypeOK, Budget, SessionAttached, ReadersTrusted, UntrustedCarriesNone, [Next]_vars
    PROVE  UntrustedCarriesNone'
<1>. USE DEF vars, master, links, agent, history
<1>1. ToSet(<<>>) = {}
  BY DEF ToSet
<1>2. ASSUME UNCHANGED <<serve, trusted, sess>>, ToSet(pending') \subseteq ToSet(pending),
             \A s \in Sessions : ToSet(chan'[s]) \subseteq ToSet(chan[s])
      PROVE  UntrustedCarriesNone'
  BY <1>2 DEF UntrustedCarriesNone
<1>3. ASSUME NEW c \in Commands, UNCHANGED <<serve, trusted, sess>>, PushLive(c),
             pending' = pending \/ pending' = Append(pending, c)
      PROVE  UntrustedCarriesNone'
  <2>1. c \in Wire /\ ~IsSetRegistries(c)
    BY Kinds DEF Wire
  <2>2. ToSet(pending') \subseteq ToSet(pending) \cup {c}
    <3>1. pending \in Seq(Wire)
      BY DEF TypeOK
    <3>2. ToSet(Append(pending, c)) = ToSet(pending) \cup {c}
      BY <2>1, <3>1, Elements
    <3>. QED
      BY <1>3, <3>2
  <2>3. \A t \in Sessions : ToSet(chan'[t]) \subseteq ToSet(chan[t]) \cup {c}
    BY <1>3, <2>1, Pushed
  <2>. QED
    BY <1>3, <2>1, <2>2, <2>3 DEF UntrustedCarriesNone
<1>4. CASE Send
  <2>1. sent' \in 1 .. MaxCommands
    BY <1>4, AgentLinkAssumption DEF Send, TypeOK
  <2>2. <<sent', -1>> \in Commands
    BY <2>1 DEF Commands
  <2>3. UNCHANGED <<serve, trusted, sess>> /\ PushLive(<<sent', -1>>) /\ pending' = Append(pending, <<sent', -1>>)
    BY <1>4 DEF Send
  <2>. QED
    BY <1>3, <2>2, <2>3
<1>5. ASSUME NEW c \in Commands, SendDurable(c) PROVE UntrustedCarriesNone'
  BY <1>3, <1>5 DEF SendDurable
<1>6. ASSUME NEW s \in Sessions, Ack(s) PROVE UntrustedCarriesNone'
  <2>1. ToSet(pending') \subseteq ToSet(pending)
    BY <1>6, OnlyKeeps DEF Ack, TypeOK
  <2>. QED
    BY <1>2, <1>6, <2>1 DEF Ack
<1>7. CASE BroadcastRegistries
  <2>. DEFINE c == Snapshot(reader[Broadcast])
  <2>1. CASE sess # None /\ trusted[sess]
    <3>1. PushLive(c) /\ UNCHANGED <<serve, trusted, sess>>
      BY <1>7, <2>1 DEF BroadcastRegistries
    <3>. HIDE DEF c
    <3>2. \A t \in Sessions : t # sess => chan'[t] = chan[t]
      BY <2>1, <3>1 DEF PushLive, TypeOK
    <3>. QED
      BY <2>1, <3>1, <3>2 DEF UntrustedCarriesNone
  <2>2. CASE ~(sess # None /\ trusted[sess])
    BY <1>2, <1>7, <2>2 DEF BroadcastRegistries
  <2>. QED
    BY <2>1, <2>2
<1>8. ASSUME NEW s \in Sessions, NEW b \in BOOLEAN, Connect(s, b) PROVE UntrustedCarriesNone'
  BY <1>8 DEF Connect, UntrustedCarriesNone, TypeOK
<1>9. ASSUME NEW s \in Sessions, NEW b \in Seq(Wire), AttachWith(s, b), UNCHANGED trusted,
             trusted[s] \/ \A c \in ToSet(b) : ~IsSetRegistries(c)
      PROVE  UntrustedCarriesNone'
  <2>1. ToSet(PushAll(b)) \subseteq ToSet(b)
    BY PushedAll
  <2>2. /\ pending' = b /\ sess' = s /\ chan'[s] = PushAll(b)
        /\ \A t \in Sessions : t # s => chan'[t] = chan[t]
        /\ \A t \in Sessions : t # s /\ serve'[t] = "attached" => serve[t] = "attached"
    BY <1>9 DEF AttachWith, TypeOK
  <2>. QED
    BY <1>9, <2>1, <2>2 DEF UntrustedCarriesNone
<1>10. ASSUME NEW s \in Sessions, AttachTrusted(s) PROVE UntrustedCarriesNone'
  <2>1. /\ AttachWith(s, Prefaced(Snapshot(reader[s]))) /\ UNCHANGED trusted /\ reader[s] # -1
        /\ Prefaced(Snapshot(reader[s])) \in Seq(Wire)
    BY <1>10, BacklogTypes DEF AttachTrusted
  <2>. QED
    BY <1>9, <2>1 DEF ReadersTrusted
<1>11. ASSUME NEW s \in Sessions, AttachUnprefaced(s) PROVE UntrustedCarriesNone'
  BY <1>9, <1>11, BacklogTypes DEF AttachUnprefaced
<1>12. ASSUME NEW s \in Sessions, AttachUntrusted(s) PROVE UntrustedCarriesNone'
  <2>. DEFINE b == RemoveSetRegistries(pending)
  <2>1. b \in Seq(Wire) /\ \A c \in ToSet(b) : ~IsSetRegistries(c)
    BY PlainKept DEF TypeOK
  <2>2. AttachWith(s, b) /\ UNCHANGED trusted
    BY <1>12 DEF AttachUntrusted
  <2>. HIDE DEF b
  <2>. QED
    BY <1>9, <2>1, <2>2
<1>13. ASSUME NEW s \in Sessions, Detach(s) PROVE UntrustedCarriesNone'
  <2>1. \A t \in Sessions : ToSet(chan'[t]) \subseteq ToSet(chan[t])
    BY <1>1, <1>13 DEF Detach, TypeOK
  <2>2. /\ serve'[s] = "gone" /\ \A t \in Sessions : t # s => serve'[t] = serve[t] /\ trusted'[t] = trusted[t]
        /\ pending' = pending /\ (sess' = sess \/ sess' = None)
    BY <1>13 DEF Detach, Detached, TypeOK
  <2>3. None \notin Sessions
    BY DEF None, Sessions
  <2>. QED
    BY <2>1, <2>2, <2>3 DEF UntrustedCarriesNone
<1>14. CASE LoseStream
  <2>1. \A t \in Sessions : ToSet(chan'[t]) \subseteq ToSet(chan[t])
    BY <1>1, <1>14 DEF LoseStream, TypeOK
  <2>. QED
    BY <1>2, <1>14, <2>1 DEF LoseStream
<1>15. ASSUME NEW s \in Sessions, Receive(s) PROVE UntrustedCarriesNone'
  <2>1. ToSet(Tail(chan[s])) \subseteq ToSet(chan[s])
    BY <1>15, Elements DEF Receive, TypeOK
  <2>2. \A t \in Sessions : ToSet(chan'[t]) \subseteq ToSet(chan[t])
    BY <1>15, <2>1 DEF Receive, TypeOK
  <2>. QED
    BY <1>2, <1>15, <2>2 DEF Receive
<1>16. CASE MasterCrash
  BY <1>16 DEF MasterCrash, UntrustedCarriesNone
<1>17. ASSUME UNCHANGED <<serve, trusted, sess, pending, chan>> PROVE UntrustedCarriesNone'
  BY <1>17 DEF UntrustedCarriesNone
<1>. HIDE DEF UntrustedCarriesNone
<1>. QED
  BY <1>4, <1>5, <1>6, <1>7, <1>8, <1>10, <1>11, <1>12, <1>13, <1>14, <1>15, <1>16, <1>17
     DEF Next, LinkStep, ChangeRegistries, ReadForBroadcast, BroadcastFails, ReadForAttach, Cut,
         Dispatch, AgentCrash

\* An untrusted session's queue never holds a SetRegistries, neither what is
\* on its way nor what the next attach would replay.
THEOREM CredentialsStayOff == Spec => []UntrustedCarriesNone
<1>1. Init => ReadersTrusted /\ UntrustedCarriesNone
  <2>1. Init => ReadersTrusted
    BY FS_Interval, AgentLinkAssumption DEF Init, ReadersTrusted, Sessions
  <2>. QED
    BY <2>1 DEF Init, UntrustedCarriesNone
<1>2. /\ TypeOK /\ Budget /\ SessionAttached /\ ReadersTrusted /\ UntrustedCarriesNone /\ [Next]_vars
      => ReadersTrusted' /\ UntrustedCarriesNone'
  BY StepReadersTrusted, StepUntrusted
<1>. QED
  BY <1>1, <1>2, Kept, PTL DEF Spec

=============================================================================
