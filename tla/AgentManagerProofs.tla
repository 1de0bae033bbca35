-------------------------- MODULE AgentManagerProofs -------------------------
(***************************************************************************)
(* Proofs about AgentManager: the port pool and the labels are right for   *)
(* any number of servers, ports, crashes and failed kills.  The inductive  *)
(* invariant ties the record of each server, the position of its goroutine *)
(* included, to its container and to the labels that are on their way.     *)
(***************************************************************************)
EXTENDS AgentManager, TLAPS

Positions == {"launch", "run", "started", "watch", "over", "done"}
MatchLabels == Matches \cup {NoMatch}
Labels == {<<>>} \cup (States \X MatchLabels)

Record ==
    [st : States, loop : Positions, port : {0} \cup Ports, match : MatchLabels,
     stop : BOOLEAN, stopped : BOOLEAN, kill : BOOLEAN, survived : BOOLEAN,
     ready : BOOLEAN, grace : BOOLEAN,
     store : [Writers -> Labels], overlap : BOOLEAN]

Container ==
    [run : {"none", "running", "clean", "crashed"}, port : {0} \cup Ports,
     st : States \cup {"none"}, match : MatchLabels]

TypeInv ==
    /\ srv \in [Servers -> {Unknown} \cup Record]
    /\ cont \in [Servers -> Container]
    /\ pool \subseteq Ports /\ handled \subseteq Servers
    /\ link \in {<<>>} \cup {<<s>> : s \in Servers}
    /\ up \in BOOLEAN

\* A server has its port from Acquire until its goroutine is through.
Holds(r) == r # Unknown /\ r.loop \in {"run", "started", "watch", "over"}

\* No two servers are given the same port, nor two containers that run.
PortsDistinct ==
    \A s, t \in Servers : s # t =>
        /\ Holds(srv[s]) /\ Holds(srv[t]) => srv[s].port # srv[t].port
        /\ cont[s].run = "running" /\ cont[t].run = "running"
             => cont[s].port # cont[t].port

\* What runs has a port of the pool.
RunningOnPort == \A s \in Servers : cont[s].run = "running" => cont[s].port \in Ports

\* The pool is exactly what the servers hold.
PoolExact ==
    up => /\ \A s \in Servers : Holds(srv[s]) => srv[s].port \in pool
          /\ \A p \in pool : \E s \in Servers : Holds(srv[s]) /\ srv[s].port = p

\* The goroutine's position says what there is of the container; a container
\* that runs is in the hands of a goroutine that knows its port.
Attended(r, c) ==
    /\ c.run = "running"
         => r # Unknown /\ r.loop \in {"started", "watch"} /\ r.port = c.port
    /\ r # Unknown /\ r.loop \in {"started", "watch", "over"} => c.run # "none"

\* What a restart would make of the label l is what the record says.
Agrees(l, r) ==
    /\ RestoredState(l[1]) = IF r.st = "pulling" THEN "starting" ELSE r.st
    /\ r.st = "allocated" => l[2] = r.match

\* The newest label, on its way or stored, is that of the record, unless two
\* goroutines stored at once.
LabelCurrent(r, c) ==
    /\ r.loop \in {"launch", "run"} => r.st = "pulling" /\ r.store = Quiet
    /\ r.loop = "watch" => r.st # "pulling"
    /\ ~r.overlap =>
        /\ \A w, x \in Writers : r.store[w] # <<>> /\ r.store[x] # <<>> => w = x
        /\ r.loop \in {"started", "watch"} /\ ~Terminal(r.st)
             => /\ \A w \in Writers : r.store[w] # <<>> => Agrees(r.store[w], r)
                /\ (\A w \in Writers : r.store[w] = <<>>) => Agrees(<<c.st, c.match>>, r)

ServerInv(r, c, u) ==
    /\ u => Attended(r, c)
    /\ ~u => r = Unknown
    /\ r # Unknown => LabelCurrent(r, c)

ManagerInv ==
    /\ TypeInv /\ PortsDistinct /\ RunningOnPort /\ PoolExact
    /\ \A s \in Servers : ServerInv(srv[s], cont[s], up)

-----------------------------------------------------------------------------
(* Lemmas about the operators on records.                                  *)

\* What LabelCurrent says of the record alone.
Fit(r) ==
    /\ r.loop \in {"launch", "run"} => r.st = "pulling" /\ r.store = Quiet
    /\ r.loop = "watch" => r.st # "pulling"
    /\ ~r.overlap =>
        \A w, x \in Writers : r.store[w] # <<>> /\ r.store[x] # <<>> => w = x

LEMMA NewServerType ==
    ASSUME NEW at \in States, NEW pos \in Positions
    PROVE  /\ NewServer(at, pos) \in Record
           /\ NewServer(at, pos).st = at /\ NewServer(at, pos).loop = pos
           /\ NewServer(at, pos).store = Quiet /\ ~NewServer(at, pos).overlap
<1>1. Quiet \in [Writers -> Labels]
  BY DEF Quiet, Labels
<1> QED
  BY <1>1 DEF NewServer, Record, MatchLabels

\* A stored state and match is the record's own: whoever stores last is right.
LEMMA StoreStateFacts ==
    ASSUME NEW r \in Record, NEW w \in Writers
    PROVE  /\ StoreState(r, w) \in Record
           /\ StoreState(r, w).st = r.st /\ StoreState(r, w).loop = r.loop
           /\ StoreState(r, w).port = r.port /\ StoreState(r, w).match = r.match
<1>1. <<r.st, r.match>> \in Labels /\ r.store \in [Writers -> Labels] /\ r.overlap \in BOOLEAN
  BY DEF Record, Labels
<1>2. [r EXCEPT !.store[w] = <<r.st, r.match>>,
                !.overlap = @ \/ \E x \in Writers \ {w} : r.store[x] # <<>>] \in Record
  BY <1>1 DEF Record
<1>3. CASE Terminal(r.st) \/ ~HasHandle(r)
  BY <1>3 DEF StoreState
<1>4. CASE ~(Terminal(r.st) \/ ~HasHandle(r))
  <2>1. StoreState(r, w) =
          [r EXCEPT !.store[w] = <<r.st, r.match>>,
                    !.overlap = @ \/ \E x \in Writers \ {w} : r.store[x] # <<>>]
    BY <1>4 DEF StoreState
  <2> QED
    BY <1>2, <2>1 DEF Record
<1> QED
  BY <1>3, <1>4

LEMMA StoreKeepsLabel ==
    ASSUME NEW r \in Record, NEW w \in Writers, NEW c \in Container, Fit(r)
    PROVE  LabelCurrent(StoreState(r, w), c)
<1>1. CASE Terminal(r.st) \/ ~HasHandle(r)
  BY <1>1 DEF StoreState, LabelCurrent, Fit, HasHandle
<1>2. CASE ~Terminal(r.st) /\ HasHandle(r)
  <2> DEFINE q == StoreState(r, w)
             busy == \E x \in Writers \ {w} : r.store[x] # <<>>
  <2>1. /\ q.st = r.st /\ q.match = r.match /\ q.loop = r.loop
        /\ q.store = [r.store EXCEPT ![w] = <<r.st, r.match>>]
        /\ q.overlap = (r.overlap \/ busy)
        /\ r.store \in [Writers -> Labels]
    BY <1>2 DEF StoreState, Record
  <2>2. q.store[w] = <<r.st, r.match>> /\ \A x \in Writers \ {w} : q.store[x] = r.store[x]
    BY <2>1
  <2>3. ~q.overlap => \A x \in Writers \ {w} : q.store[x] = <<>>
    BY <2>1, <2>2
  <2>4. Agrees(<<r.st, r.match>>, q)
    BY <1>2, <2>1 DEF Agrees, RestoredState, Terminal, Record, States
  <2>5. q.store[w] # <<>>
    BY <2>2
  <2> HIDE DEF q, busy
  <2>6. r.loop \notin {"launch", "run"}
    BY <1>2 DEF HasHandle
  <2> QED
    BY <2>1, <2>2, <2>3, <2>4, <2>5, <2>6 DEF LabelCurrent, Fit, q
<1> QED
  BY <1>1, <1>2

LEMMA ToFacts ==
    ASSUME NEW r \in Record, NEW to \in States, NEW w \in Writers
    PROVE  /\ To(r, to, w) \in Record
           /\ To(r, to, w).loop = r.loop /\ To(r, to, w).port = r.port
           /\ To(r, to, w).st \in {r.st, to}
<1>1. [r EXCEPT !.st = to] \in Record
  BY DEF Record
<1>2. /\ [r EXCEPT !.st = to].loop = r.loop /\ [r EXCEPT !.st = to].port = r.port
      /\ [r EXCEPT !.st = to].st = to
  BY DEF Record
<1> QED
  BY <1>1, <1>2, StoreStateFacts DEF To

LEMMA ToKeepsLabel ==
    ASSUME NEW r \in Record, NEW to \in States \ {"pulling"}, NEW w \in Writers,
           NEW c \in Container,
           LabelCurrent(r, c), r.loop \notin {"launch", "run"}
    PROVE  LabelCurrent(To(r, to, w), c)
<1>1. [r EXCEPT !.st = to] \in Record /\ Fit([r EXCEPT !.st = to])
  BY DEF Record, Fit, LabelCurrent
<1> QED
  BY <1>1, StoreKeepsLabel DEF To

\* What no label speaks of may change.
LEMMA FlagsKeepLabel ==
    ASSUME NEW r \in Record, NEW q \in Record, NEW c \in Container, LabelCurrent(r, c),
           q.st = r.st, q.loop = r.loop, q.store = r.store, q.overlap = r.overlap,
           r.st = "allocated" => q.match = r.match
    PROVE  LabelCurrent(q, c)
BY DEF LabelCurrent, Agrees

-----------------------------------------------------------------------------
(* A step changes the record and the container of one server, and the pool *)
(* as the server's hold on its port changes.                               *)

\* r and c are what s and its container become.
Becomes(s, r, c) ==
    /\ srv' = [srv EXCEPT ![s] = r] /\ cont' = [cont EXCEPT ![s] = c]
    /\ up /\ up' = up
    /\ link' \in {<<>>} \cup {<<t>> : t \in Servers} /\ handled' \subseteq Servers

KeepsPort(s, r) ==
    /\ pool' = pool /\ (Holds(r) <=> Holds(srv[s]))
    /\ Holds(r) => r.port = srv[s].port

TakesPort(s, r) ==
    /\ ~Holds(srv[s]) /\ Holds(r) /\ r.port \in Ports \ pool
    /\ pool' = pool \cup {r.port}

FreesPort(s, r) == ~Holds(r) /\ Holds(srv[s]) /\ pool' = pool \ {srv[s].port}

LEMMA ServerStep ==
    ASSUME ManagerInv, NEW s \in Servers, NEW r \in {Unknown} \cup Record,
           NEW c \in Container, Becomes(s, r, c),
           Attended(r, c), r # Unknown => LabelCurrent(r, c),
           KeepsPort(s, r) \/ TakesPort(s, r) \/ FreesPort(s, r)
    PROVE  ManagerInv'
<1>0. TypeInv /\ up /\ up'
  BY DEF ManagerInv, Becomes
<1>1. /\ srv'[s] = r /\ cont'[s] = c
      /\ \A t \in Servers \ {s} : srv'[t] = srv[t] /\ cont'[t] = cont[t]
  BY <1>0 DEF Becomes, TypeInv
<1>2. pool' \subseteq Ports
  BY <1>0 DEF KeepsPort, TakesPort, FreesPort, TypeInv
<1>3. TypeInv'
  BY <1>0, <1>2 DEF TypeInv, Becomes
<1>4. \A t \in Servers : ServerInv(srv'[t], cont'[t], up')
  BY <1>0, <1>1 DEF ManagerInv, ServerInv
<1>5. \A t \in Servers \ {s} : Holds(r) /\ Holds(srv[t]) => r.port # srv[t].port
  <2>1. CASE KeepsPort(s, r)
    BY <2>1 DEF ManagerInv, PortsDistinct, KeepsPort
  <2>2. CASE TakesPort(s, r)
    BY <1>0, <2>2 DEF ManagerInv, PoolExact, TakesPort
  <2>3. CASE FreesPort(s, r)
    BY <2>3 DEF FreesPort
  <2> QED
    BY <2>1, <2>2, <2>3
<1>6. \A t, u \in Servers : t # u /\ Holds(srv'[t]) /\ Holds(srv'[u])
                              => srv'[t].port # srv'[u].port
  BY <1>1, <1>5 DEF ManagerInv, PortsDistinct
<1>7. \A t \in Servers : cont'[t].run = "running"
                           => Holds(srv'[t]) /\ srv'[t].port = cont'[t].port
  BY <1>0, <1>4 DEF ServerInv, Attended, Holds
<1>8. PortsDistinct'
  BY <1>6, <1>7 DEF PortsDistinct
<1>9. PoolExact'
  <2>1. CASE KeepsPort(s, r)
    BY <1>0, <1>1, <2>1 DEF ManagerInv, PoolExact, KeepsPort
  <2>2. CASE TakesPort(s, r)
    BY <1>0, <1>1, <2>2 DEF ManagerInv, PoolExact, TakesPort
  <2>3. CASE FreesPort(s, r)
    BY <1>0, <1>1, <2>3 DEF ManagerInv, PoolExact, FreesPort, PortsDistinct
  <2> QED
    BY <2>1, <2>2, <2>3
<1>10. RunningOnPort'
  BY <1>0, <1>2, <1>7, <1>9 DEF RunningOnPort, PoolExact
<1> QED
  BY <1>3, <1>4, <1>8, <1>9, <1>10 DEF ManagerInv

\* What is known of a server that has a record.
LEMMA KnownServer ==
    ASSUME ManagerInv, NEW s \in Servers, Known(s)
    PROVE  /\ srv[s] \in Record /\ srv[s] # Unknown /\ cont[s] \in Container
           /\ up /\ Attended(srv[s], cont[s]) /\ LabelCurrent(srv[s], cont[s])
           /\ link \in {<<>>} \cup {<<t>> : t \in Servers} /\ handled \subseteq Servers
<1>1. TypeInv /\ ServerInv(srv[s], cont[s], up)
  BY DEF ManagerInv
<1>2. srv[s] \in Record /\ srv[s] # Unknown
  BY <1>1 DEF TypeInv, Known, Unknown
<1> QED
  BY <1>1, <1>2 DEF TypeInv, ServerInv

\* A record whose goroutine stays where it is keeps what it holds.
LEMMA RecordStep ==
    ASSUME ManagerInv, NEW s \in Servers, up, Known(s), NEW r \in Record,
           r.loop = srv[s].loop, r.port = srv[s].port,
           LabelCurrent(r, cont[s]),
           srv' = [srv EXCEPT ![s] = r],
           UNCHANGED <<pool, up, cont>>,
           link' \in {<<>>} \cup {<<t>> : t \in Servers}, handled' \subseteq Servers
    PROVE  ManagerInv'
<1>0. /\ TypeInv /\ srv[s] \in Record /\ srv[s] # Unknown /\ cont[s] \in Container
      /\ Attended(srv[s], cont[s])
  BY KnownServer DEF ManagerInv
<1>1. r # Unknown
  BY DEF Record, States, Unknown
<1>2. Attended(r, cont[s])
  BY <1>0, <1>1 DEF Attended
<1>3. cont' = [cont EXCEPT ![s] = cont[s]]
  BY <1>0 DEF TypeInv
<1>4. Becomes(s, r, cont[s]) /\ KeepsPort(s, r)
  BY <1>0, <1>1, <1>3 DEF Becomes, KeepsPort, Holds
<1> QED
  BY <1>0, <1>2, <1>4, ServerStep

-----------------------------------------------------------------------------
(* Commands of the link and frames of liba.                                *)

LEMMA StartKeepsInv ==
    ASSUME ManagerInv, NEW s \in Servers, NEW refuse \in BOOLEAN, Start(s, refuse)
    PROVE  ManagerInv'
<1> DEFINE new == NewServer("pulling", "launch")
           r == IF refuse THEN Tombstone(To(new, "failed", "link")) ELSE new
<1>1. new \in Record /\ new.st = "pulling" /\ new.loop = "launch" /\ new.store = Quiet
  BY NewServerType DEF States, Positions
<1>2. TypeInv /\ up /\ ServerInv(srv[s], cont[s], up) /\ cont[s] \in Container
  BY DEF Start, LinkFree, ManagerInv, TypeInv
<1>3. srv[s] = Unknown /\ Attended(srv[s], cont[s])
  BY <1>2 DEF Start, Known, ServerInv, TypeInv, Record, States
<1>4. To(new, "failed", "link").st \in States
  BY <1>1, ToFacts DEF States, Writers
<1>5. r \in Record /\ r.loop \in {"launch", "done"} /\ LabelCurrent(r, cont[s])
  <2>1. CASE refuse
    <3>1. /\ r \in Record /\ r.loop = "done" /\ r.store = Quiet
      BY <1>4, <2>1, NewServerType DEF Tombstone, Positions
    <3> QED
      BY <3>1 DEF LabelCurrent, Quiet
  <2>2. CASE ~refuse
    BY <1>1, <2>2 DEF LabelCurrent, Quiet
  <2> QED
    BY <2>1, <2>2
<1>6. srv' = [srv EXCEPT ![s] = r] /\ UNCHANGED <<pool, link, up, cont>>
      /\ handled' = handled \cup {s}
  BY DEF Start, Set
<1> HIDE DEF r
<1>7. Attended(r, cont[s]) /\ ~Holds(r) /\ ~Holds(srv[s])
  BY <1>3, <1>5 DEF Attended, Holds
<1>8. Becomes(s, r, cont[s])
  BY <1>2, <1>6 DEF Becomes, TypeInv
<1>9. KeepsPort(s, r)
  BY <1>6, <1>7 DEF KeepsPort
<1> QED
  BY <1>2, <1>5, <1>7, <1>8, <1>9, ServerStep

LEMMA StopKeepsInv ==
    ASSUME ManagerInv, NEW s \in Servers, Stop(s) PROVE ManagerInv'
<1> DEFINE r == [srv[s] EXCEPT !.stop = TRUE]
<1>1. Known(s)
  BY DEF Stop
<1>2. /\ r \in Record /\ r.st = srv[s].st /\ r.loop = srv[s].loop /\ r.store = srv[s].store
      /\ r.overlap = srv[s].overlap /\ r.match = srv[s].match /\ r.port = srv[s].port
  BY <1>1, KnownServer DEF Record
<1>3. LabelCurrent(r, cont[s])
  BY <1>1, <1>2, KnownServer, FlagsKeepLabel
<1> QED
  BY <1>1, <1>2, <1>3, KnownServer, RecordStep DEF Stop, Set

LEMMA AllocateKeepsInv ==
    ASSUME ManagerInv, NEW s \in Servers, NEW m \in Matches, Allocate(s, m)
    PROVE  ManagerInv'
<1> DEFINE r == [srv[s] EXCEPT !.match = m]
           q == CASE r.st = "ready"     -> To(r, "allocated", "link")
                  [] r.st = "allocated" -> StoreState(r, "link")
                  [] OTHER              -> r
<1>1. /\ Known(s) /\ srv' = [srv EXCEPT ![s] = q] /\ "link" \in Writers
      /\ UNCHANGED <<pool, up, cont, handled>>
      /\ link' \in {<<>>} \cup {<<t>> : t \in Servers}
  BY DEF Allocate, Set, Writers
<1>2. /\ srv[s] \in Record /\ cont[s] \in Container /\ LabelCurrent(srv[s], cont[s])
      /\ up /\ handled \subseteq Servers
  BY <1>1, KnownServer
<1>3. /\ r \in Record /\ r.st = srv[s].st /\ r.loop = srv[s].loop /\ r.store = srv[s].store
      /\ r.overlap = srv[s].overlap /\ r.port = srv[s].port
  BY <1>2 DEF Record, MatchLabels
<1>4. Fit(r)
  BY <1>2, <1>3 DEF Fit, LabelCurrent
<1>5. r.st # "allocated" => LabelCurrent(r, cont[s])
  BY <1>2, <1>3, FlagsKeepLabel
<1>6. /\ r.st = "ready" => q = To(r, "allocated", "link")
      /\ r.st = "allocated" => q = StoreState(r, "link")
      /\ r.st \notin {"ready", "allocated"} => q = r
  OBVIOUS
<1>7. r.st = "ready" => r.loop \notin {"launch", "run"}
  BY <1>4 DEF Fit
<1>8. "allocated" \in States \ {"pulling"}
  BY DEF States
<1> HIDE DEF r, q
<1>9. q \in Record /\ q.loop = r.loop /\ q.port = r.port /\ LabelCurrent(q, cont[s])
  <2>1. CASE r.st = "ready"
    BY <1>1, <1>2, <1>3, <1>5, <1>6, <1>7, <1>8, <2>1, ToFacts, ToKeepsLabel
  <2>2. CASE r.st = "allocated"
    BY <1>1, <1>2, <1>3, <1>4, <1>6, <2>2, StoreStateFacts, StoreKeepsLabel
  <2>3. CASE r.st \notin {"ready", "allocated"}
    BY <1>3, <1>5, <1>6, <2>3
  <2> QED
    BY <2>1, <2>2, <2>3
<1> QED
  BY <1>1, <1>2, <1>3, <1>9, RecordStep

LEMMA DrainServerKeepsInv ==
    ASSUME ManagerInv, NEW s \in Servers, DrainServer(s) PROVE ManagerInv'
<1> DEFINE q == To(srv[s], "draining", "link")
<1>1. /\ Known(s) /\ srv' = [srv EXCEPT ![s] = q]
      /\ "link" \in Writers /\ "draining" \in States \ {"pulling"}
      /\ srv[s].st # "pulling"
      /\ UNCHANGED <<pool, up, cont, handled>>
      /\ link' \in {<<>>} \cup {<<t>> : t \in Servers}
  BY DEF DrainServer, Set, Writers, States
<1>2. /\ srv[s] \in Record /\ cont[s] \in Container /\ LabelCurrent(srv[s], cont[s])
      /\ up /\ handled \subseteq Servers
  BY <1>1, KnownServer
<1>3. srv[s].loop \notin {"launch", "run"}
  BY <1>1, <1>2 DEF LabelCurrent
<1>4. q \in Record /\ q.loop = srv[s].loop /\ q.port = srv[s].port /\ LabelCurrent(q, cont[s])
  BY <1>1, <1>2, <1>3, ToFacts, ToKeepsLabel
<1> HIDE DEF q
<1> QED
  BY <1>1, <1>2, <1>4, RecordStep

LEMMA LibaReadyKeepsInv ==
    ASSUME ManagerInv, NEW s \in Servers, LibaReady(s) PROVE ManagerInv'
<1> DEFINE r == [srv[s] EXCEPT !.ready = TRUE]
<1>1. Known(s)
  BY DEF LibaReady, Running
<1>2. /\ r \in Record /\ r.st = srv[s].st /\ r.loop = srv[s].loop /\ r.store = srv[s].store
      /\ r.overlap = srv[s].overlap /\ r.match = srv[s].match /\ r.port = srv[s].port
  BY <1>1, KnownServer DEF Record
<1>3. LabelCurrent(r, cont[s])
  BY <1>1, <1>2, KnownServer, FlagsKeepLabel
<1> QED
  BY <1>1, <1>2, <1>3, KnownServer, RecordStep DEF LibaReady, Set

\* The match of a server that runs is stored with the label; one that is only
\* being launched is not allocated and has no label yet.
LEMMA LibaMatchStartKeepsInv ==
    ASSUME ManagerInv, NEW s \in Servers, NEW m \in Matches, LibaMatchStart(s, m)
    PROVE  ManagerInv'
<1> DEFINE r == [srv[s] EXCEPT !.match = m]
           q == StoreState(r, "liba")
<1>1. /\ Known(s) /\ srv' = [srv EXCEPT ![s] = q] /\ "liba" \in Writers
      /\ UNCHANGED <<pool, up, cont, handled, link>>
  BY DEF LibaMatchStart, Running, Set, Writers
<1>2. /\ srv[s] \in Record /\ cont[s] \in Container /\ LabelCurrent(srv[s], cont[s])
      /\ up /\ handled \subseteq Servers /\ link \in {<<>>} \cup {<<t>> : t \in Servers}
  BY <1>1, KnownServer
<1>3. /\ r \in Record /\ r.st = srv[s].st /\ r.loop = srv[s].loop /\ r.store = srv[s].store
      /\ r.overlap = srv[s].overlap /\ r.port = srv[s].port
  BY <1>2 DEF Record, MatchLabels
<1> HIDE DEF r
<1>4. Fit(r)
  BY <1>2, <1>3 DEF Fit, LabelCurrent
<1>5. q \in Record /\ q.loop = r.loop /\ q.port = r.port /\ LabelCurrent(q, cont[s])
  BY <1>1, <1>2, <1>3, <1>4, StoreStateFacts, StoreKeepsLabel
<1> HIDE DEF q
<1> QED
  BY <1>1, <1>2, <1>3, <1>5, RecordStep

\* SetState: what was on its way becomes the label, whatever is on its way
\* besides it.
LEMMA StoreWriteKeepsInv ==
    ASSUME ManagerInv, NEW s \in Servers, NEW w \in Writers, StoreWrite(s, w)
    PROVE  ManagerInv'
<1> DEFINE r == [srv[s] EXCEPT !.store[w] = <<>>]
           l == srv[s].store[w]
           c == IF cont[s].run = "none" THEN cont[s]
                ELSE [cont[s] EXCEPT !.st = l[1], !.match = l[2]]
<1>1. /\ Known(s) /\ l # <<>> /\ srv' = [srv EXCEPT ![s] = r]
      /\ UNCHANGED <<pool, up, handled, link>>
  BY DEF StoreWrite, Set, Idle
<1>2. /\ srv[s] \in Record /\ srv[s] # Unknown /\ cont[s] \in Container
      /\ LabelCurrent(srv[s], cont[s]) /\ Attended(srv[s], cont[s])
      /\ up /\ handled \subseteq Servers /\ link \in {<<>>} \cup {<<t>> : t \in Servers}
  BY <1>1, KnownServer
<1>3. l \in States \X MatchLabels /\ srv[s].store \in [Writers -> Labels]
  BY <1>1, <1>2 DEF Record, Labels
<1>4. /\ c \in Container /\ c.run = cont[s].run /\ c.port = cont[s].port
      /\ cont[s].run # "none" => c.st = l[1] /\ c.match = l[2]
  BY <1>2, <1>3 DEF Container
<1>5. /\ r \in Record /\ r.st = srv[s].st /\ r.loop = srv[s].loop
      /\ r.store = [srv[s].store EXCEPT ![w] = <<>>]
      /\ r.overlap = srv[s].overlap /\ r.match = srv[s].match /\ r.port = srv[s].port
  BY <1>2, <1>3 DEF Record, Labels
<1>6. cont' = [cont EXCEPT ![s] = c]
  BY DEF StoreWrite, ManagerInv, TypeInv
<1>7. LabelCurrent(r, c)
  <2>1. r.store[w] = <<>> /\ \A x \in Writers \ {w} : r.store[x] = srv[s].store[x]
    BY <1>3, <1>5
  <2>2. r.loop \notin {"launch", "run"}
    BY <1>1, <1>2, <1>5 DEF LabelCurrent, Quiet
  <2>3. ~r.overlap => \A x \in Writers : r.store[x] = <<>>
    BY <1>1, <1>2, <1>5, <2>1 DEF LabelCurrent
  <2>4. r.loop \in {"started", "watch"} => c.st = l[1] /\ c.match = l[2]
    BY <1>2, <1>4, <1>5 DEF Attended
  <2>5. r.loop = "watch" => r.st # "pulling"
    BY <1>2, <1>5 DEF LabelCurrent
  <2>6. ~r.overlap /\ r.loop \in {"started", "watch"} /\ ~Terminal(r.st) => Agrees(l, srv[s])
    BY <1>1, <1>2, <1>5 DEF LabelCurrent
  <2> HIDE DEF r, c, l
  <2>7. ~r.overlap /\ r.loop \in {"started", "watch"} /\ ~Terminal(r.st)
          => Agrees(<<c.st, c.match>>, r)
    BY <1>5, <2>4, <2>6 DEF Agrees
  <2> QED
    BY <2>2, <2>3, <2>5, <2>7 DEF LabelCurrent
<1> HIDE DEF r, c, l
<1>8. r # Unknown
  BY <1>5 DEF Unknown, Record, States
<1>9. Attended(r, c)
  BY <1>2, <1>4, <1>5, <1>8 DEF Attended
<1>10. Becomes(s, r, c)
  BY <1>1, <1>2, <1>6 DEF Becomes
<1>11. KeepsPort(s, r)
  BY <1>1, <1>2, <1>5, <1>8 DEF KeepsPort, Holds
<1> QED
  BY <1>4, <1>5, <1>7, <1>9, <1>10, <1>11, ServerStep

-----------------------------------------------------------------------------
(* The server's goroutine, the container and the map.                      *)

LEMMA ContainerExitsKeepsInv ==
    ASSUME ManagerInv, NEW s \in Servers, NEW how \in {"clean", "crashed"},
           ContainerExits(s, how)
    PROVE  ManagerInv'
<1> DEFINE c == [cont[s] EXCEPT !.run = how]
<1>1. /\ TypeInv /\ cont[s] \in Container /\ cont[s].run = "running"
      /\ cont' = [cont EXCEPT ![s] = c]
      /\ UNCHANGED <<srv, pool, link, up, handled>>
  BY DEF ManagerInv, TypeInv, ContainerExits
<1>2. /\ c \in Container /\ c.run \in {"clean", "crashed"} /\ c.st = cont[s].st
      /\ c.match = cont[s].match
  BY <1>1 DEF Container
<1> HIDE DEF c
<1>3. cont'[s] = c /\ \A t \in Servers \ {s} : cont'[t] = cont[t]
  BY <1>1 DEF TypeInv
<1>4. TypeInv'
  BY <1>1, <1>2 DEF TypeInv
<1>5. ServerInv(srv[s], c, up)
  <2>1. ServerInv(srv[s], cont[s], up)
    BY DEF ManagerInv
  <2> QED
    BY <1>2, <2>1 DEF ServerInv, Attended, LabelCurrent
<1>6. \A t \in Servers : ServerInv(srv'[t], cont'[t], up')
  BY <1>1, <1>3, <1>5 DEF ManagerInv
<1>7. PortsDistinct' /\ RunningOnPort' /\ PoolExact'
  BY <1>1, <1>2, <1>3 DEF ManagerInv, PortsDistinct, RunningOnPort, PoolExact
<1> QED
  BY <1>4, <1>6, <1>7 DEF ManagerInv

LEMMA TombstoneFacts ==
    ASSUME NEW r \in Record, NEW c \in Container
    PROVE  /\ Tombstone(r) \in Record /\ ~Holds(Tombstone(r))
           /\ Tombstone(r).loop = "done" /\ LabelCurrent(Tombstone(r), c)
<1>1. r.st \in States
  BY DEF Record
<1>2. /\ Tombstone(r) \in Record /\ Tombstone(r).loop = "done"
      /\ Tombstone(r).store = Quiet
  BY <1>1, NewServerType DEF Tombstone, Positions
<1> QED
  BY <1>2 DEF Holds, LabelCurrent, Quiet

\* A launch that ends early leaves a tombstone, and nothing that runs.
LEMMA LaunchEnds ==
    ASSUME ManagerInv, NEW s \in Servers, Known(s), srv[s].loop \in {"launch", "run"},
           UNCHANGED <<link, up, cont, handled>>,
           srv' = [srv EXCEPT ![s] = Tombstone(To(srv[s], "failed", "loop"))],
           IF srv[s].loop = "launch" THEN pool' = pool ELSE pool' = pool \ {srv[s].port}
    PROVE  ManagerInv'
<1> DEFINE r == Tombstone(To(srv[s], "failed", "loop"))
<1>1. /\ srv[s] \in Record /\ srv[s] # Unknown /\ cont[s] \in Container
      /\ Attended(srv[s], cont[s])
      /\ up /\ handled \subseteq Servers /\ link \in {<<>>} \cup {<<t>> : t \in Servers}
  BY KnownServer
<1>2. To(srv[s], "failed", "loop") \in Record
  BY <1>1, ToFacts DEF States, Writers
<1>3. r \in Record /\ ~Holds(r) /\ r.loop = "done" /\ LabelCurrent(r, cont[s])
  BY <1>1, <1>2, TombstoneFacts
<1>4. srv' = [srv EXCEPT ![s] = r] /\ cont' = [cont EXCEPT ![s] = cont[s]]
  BY DEF ManagerInv, TypeInv
<1> HIDE DEF r
<1>5. Attended(r, cont[s])
  BY <1>1, <1>3 DEF Attended
<1>6. Becomes(s, r, cont[s])
  BY <1>1, <1>4 DEF Becomes
<1>7. KeepsPort(s, r) \/ FreesPort(s, r)
  BY <1>1, <1>3 DEF KeepsPort, FreesPort, Holds
<1> QED
  BY <1>1, <1>3, <1>5, <1>6, <1>7, ServerStep

LEMMA LaunchPortKeepsInv ==
    ASSUME ManagerInv, NEW s \in Servers, LaunchPort(s) PROVE ManagerInv'
<1>0. /\ Known(s) /\ srv[s].loop = "launch" /\ UNCHANGED <<link, up, cont, handled>>
  BY DEF LaunchPort, Loop
<1>1. CASE /\ pool' = pool
           /\ Set(s, Tombstone(To(srv[s], "failed", "loop")))
  BY <1>0, <1>1, LaunchEnds DEF Set
<1>2. ASSUME NEW p \in Free, pool' = pool \cup {p},
             Set(s, [srv[s] EXCEPT !.port = p, !.loop = "run"])
      PROVE  ManagerInv'
  <2> DEFINE r == [srv[s] EXCEPT !.port = p, !.loop = "run"]
  <2>1. /\ srv[s] \in Record /\ srv[s] # Unknown /\ cont[s] \in Container
        /\ Attended(srv[s], cont[s]) /\ LabelCurrent(srv[s], cont[s])
        /\ up /\ handled \subseteq Servers /\ link \in {<<>>} \cup {<<t>> : t \in Servers}
        /\ p \in Ports \ pool
    BY <1>0, KnownServer DEF Free
  <2>2. /\ r \in Record /\ r.st = srv[s].st /\ r.store = srv[s].store
        /\ r.overlap = srv[s].overlap /\ r.loop = "run" /\ r.port = p
    BY <2>1 DEF Record, Positions
  <2>3. srv' = [srv EXCEPT ![s] = r] /\ cont' = [cont EXCEPT ![s] = cont[s]]
    BY <1>0, <1>2 DEF Set, ManagerInv, TypeInv
  <2> HIDE DEF r
  <2>4. LabelCurrent(r, cont[s])
    BY <1>0, <2>1, <2>2 DEF LabelCurrent
  <2>5. r # Unknown
    BY <2>2 DEF Unknown, Record, States
  <2>6. Attended(r, cont[s]) /\ Becomes(s, r, cont[s])
    BY <1>0, <2>1, <2>2, <2>3 DEF Attended, Becomes
  <2>7. TakesPort(s, r)
    BY <1>0, <1>2, <2>1, <2>2, <2>5 DEF TakesPort, Holds
  <2> QED
    BY <2>1, <2>2, <2>4, <2>6, <2>7, ServerStep
<1> QED
  BY <1>1, <1>2 DEF LaunchPort

LEMMA LaunchRunKeepsInv ==
    ASSUME ManagerInv, NEW s \in Servers, LaunchRun(s) PROVE ManagerInv'
<1> DEFINE r == [srv[s] EXCEPT !.loop = "started"]
           c == [run |-> "running", port |-> srv[s].port,
                 st |-> "starting", match |-> NoMatch]
<1>1. /\ Known(s) /\ srv[s].loop = "run" /\ cont' = [cont EXCEPT ![s] = c]
      /\ srv' = [srv EXCEPT ![s] = r] /\ UNCHANGED <<pool, link, up, handled>>
  BY DEF LaunchRun, Loop, Set
<1>2. /\ srv[s] \in Record /\ srv[s] # Unknown /\ LabelCurrent(srv[s], cont[s])
      /\ up /\ handled \subseteq Servers /\ link \in {<<>>} \cup {<<t>> : t \in Servers}
  BY <1>1, KnownServer
<1>3. /\ r \in Record /\ r.st = srv[s].st /\ r.store = srv[s].store
      /\ r.overlap = srv[s].overlap /\ r.loop = "started" /\ r.port = srv[s].port
  BY <1>2 DEF Record, Positions
<1>4. /\ c \in Container /\ c.run = "running" /\ c.port = srv[s].port /\ c.st = "starting"
      /\ c.match = NoMatch
  BY <1>2 DEF Container, Record, MatchLabels, States
<1> HIDE DEF r, c
<1>5. r.st = "pulling" /\ r.store = Quiet
  BY <1>1, <1>2, <1>3 DEF LabelCurrent
<1>6. Agrees(<<c.st, c.match>>, r)
  BY <1>4, <1>5 DEF Agrees, RestoredState
<1>7. LabelCurrent(r, c)
  BY <1>3, <1>5, <1>6 DEF LabelCurrent, Quiet
<1>8. r # Unknown
  BY <1>3 DEF Unknown, Record, States
<1>9. Attended(r, c) /\ Becomes(s, r, c)
  BY <1>1, <1>2, <1>3, <1>4, <1>8 DEF Attended, Becomes
<1>10. KeepsPort(s, r)
  BY <1>1, <1>2, <1>3, <1>8 DEF KeepsPort, Holds
<1> QED
  BY <1>3, <1>4, <1>7, <1>9, <1>10, ServerStep

\* A launch that got its container is supervised from now on.
LEMMA LaunchDoneKeepsInv ==
    ASSUME ManagerInv, NEW s \in Servers, LaunchDone(s) PROVE ManagerInv'
<1> DEFINE r == Supervise(srv[s])
<1>1. /\ Known(s) /\ srv[s].loop = "started" /\ UNCHANGED <<pool, link, up, cont, handled>>
  BY DEF LaunchDone, Loop
<1>2. /\ srv[s] \in Record /\ srv[s] # Unknown /\ cont[s] \in Container
      /\ LabelCurrent(srv[s], cont[s]) /\ Attended(srv[s], cont[s])
      /\ up /\ handled \subseteq Servers /\ link \in {<<>>} \cup {<<t>> : t \in Servers}
  BY <1>1, KnownServer
<1>3. CASE srv[s].st = "pulling"
  <2> DEFINE q == To(srv[s], "starting", "loop")
  <2>1. srv' = [srv EXCEPT ![s] = q]
    BY <1>3 DEF LaunchDone, Set
  <2>2. "starting" \in States \ {"pulling"} /\ "loop" \in Writers
    BY DEF States, Writers
  <2>3. q \in Record /\ q.loop = srv[s].loop /\ q.port = srv[s].port /\ LabelCurrent(q, cont[s])
    BY <1>1, <1>2, <2>2, ToFacts, ToKeepsLabel
  <2> HIDE DEF q
  <2> QED
    BY <1>1, <1>2, <2>1, <2>3, RecordStep
<1>4. CASE srv[s].st # "pulling"
  <2>1. srv' = [srv EXCEPT ![s] = r] /\ cont' = [cont EXCEPT ![s] = cont[s]]
    BY <1>1, <1>4 DEF LaunchDone, Set, ManagerInv, TypeInv
  <2>2. /\ r \in Record /\ r.st = srv[s].st /\ r.store = srv[s].store
        /\ r.overlap = srv[s].overlap /\ r.loop = "watch" /\ r.port = srv[s].port
        /\ r.match = srv[s].match
    BY <1>2 DEF Supervise, Record, Positions
  <2> HIDE DEF r
  <2>3. LabelCurrent(r, cont[s])
    BY <1>1, <1>2, <1>4, <2>2 DEF LabelCurrent, Agrees
  <2>4. r # Unknown
    BY <2>2 DEF Unknown, Record, States
  <2>5. Attended(r, cont[s]) /\ Becomes(s, r, cont[s])
    BY <1>1, <1>2, <2>1, <2>2, <2>4 DEF Attended, Becomes
  <2>6. KeepsPort(s, r)
    BY <1>1, <1>2, <2>2, <2>4 DEF KeepsPort, Holds
  <2> QED
    BY <1>2, <2>2, <2>3, <2>5, <2>6, ServerStep
<1> QED
  BY <1>3, <1>4

LEMMA TakeReadyKeepsInv ==
    ASSUME ManagerInv, NEW s \in Servers, TakeReady(s) PROVE ManagerInv'
<1> DEFINE a == [srv[s] EXCEPT !.ready = FALSE]
           b == [a EXCEPT !.grace = FALSE]
           q == IF a.st = "starting" THEN To(b, "ready", "loop") ELSE a
<1>1. /\ Known(s) /\ srv[s].loop = "watch" /\ UNCHANGED <<pool, link, up, cont, handled>>
      /\ srv' = [srv EXCEPT ![s] = q]
  BY DEF TakeReady, Loop, Set
<1>2. /\ srv[s] \in Record /\ cont[s] \in Container /\ LabelCurrent(srv[s], cont[s])
      /\ up /\ handled \subseteq Servers /\ link \in {<<>>} \cup {<<t>> : t \in Servers}
  BY <1>1, KnownServer
<1>3. /\ a \in Record /\ a.st = srv[s].st /\ a.loop = srv[s].loop /\ a.store = srv[s].store
      /\ a.overlap = srv[s].overlap /\ a.match = srv[s].match /\ a.port = srv[s].port
  BY <1>2 DEF Record
<1>4. /\ b \in Record /\ b.st = srv[s].st /\ b.loop = srv[s].loop /\ b.store = srv[s].store
      /\ b.overlap = srv[s].overlap /\ b.match = srv[s].match /\ b.port = srv[s].port
  BY <1>2, <1>3 DEF Record
<1>5. LabelCurrent(a, cont[s]) /\ LabelCurrent(b, cont[s])
  BY <1>2, <1>3, <1>4, FlagsKeepLabel
<1>6. q = To(b, "ready", "loop") \/ q = a
  OBVIOUS
<1>7. "ready" \in States \ {"pulling"} /\ "loop" \in Writers
  BY DEF States, Writers
<1> HIDE DEF a, b, q
<1>8. q \in Record /\ q.loop = srv[s].loop /\ q.port = srv[s].port /\ LabelCurrent(q, cont[s])
  BY <1>1, <1>2, <1>3, <1>4, <1>5, <1>6, <1>7, ToFacts, ToKeepsLabel
<1> QED
  BY <1>1, <1>2, <1>8, RecordStep

LEMMA TakeStopKeepsInv ==
    ASSUME ManagerInv, NEW s \in Servers, TakeStop(s) PROVE ManagerInv'
<1> DEFINE t == [srv[s] EXCEPT !.stop = FALSE, !.stopped = TRUE, !.kill = KillArmed]
           q == IF srv[s].st \in {"ready", "allocated"} THEN To(t, "draining", "loop") ELSE t
<1>1. /\ Known(s) /\ srv[s].loop = "watch" /\ UNCHANGED <<pool, link, up, cont, handled>>
  BY DEF TakeStop, Loop
<1>2. /\ srv[s] \in Record /\ cont[s] \in Container /\ LabelCurrent(srv[s], cont[s])
      /\ up /\ handled \subseteq Servers /\ link \in {<<>>} \cup {<<u>> : u \in Servers}
  BY <1>1, KnownServer
<1>3. srv' = [srv EXCEPT ![s] = q]
  BY <1>2 DEF TakeStop, Set, Record
<1>4. /\ t \in Record /\ t.st = srv[s].st /\ t.loop = srv[s].loop /\ t.store = srv[s].store
      /\ t.overlap = srv[s].overlap /\ t.match = srv[s].match /\ t.port = srv[s].port
  BY <1>2 DEF Record, KillArmed
<1>5. LabelCurrent(t, cont[s])
  BY <1>2, <1>4, FlagsKeepLabel
<1>6. q = To(t, "draining", "loop") \/ q = t
  OBVIOUS
<1>7. "draining" \in States \ {"pulling"} /\ "loop" \in Writers
  BY DEF States, Writers
<1> HIDE DEF t, q
<1>8. q \in Record /\ q.loop = srv[s].loop /\ q.port = srv[s].port /\ LabelCurrent(q, cont[s])
  BY <1>1, <1>2, <1>4, <1>5, <1>6, <1>7, ToFacts, ToKeepsLabel
<1> QED
  BY <1>1, <1>2, <1>3, <1>8, RecordStep

\* A kill, whether it succeeds or not, changes neither label nor port.
LEMMA KilledKeepsInv ==
    ASSUME ManagerInv, NEW s \in Servers, Known(s), srv[s].loop = "watch",
           NEW r \in Record, r.loop = "watch", r.port = srv[s].port,
           LabelCurrent(r, cont[s]), Killed(s, r),
           UNCHANGED <<pool, link, up, handled>>
    PROVE  ManagerInv'
<1>1. /\ srv[s] # Unknown /\ cont[s] \in Container /\ Attended(srv[s], cont[s])
      /\ up /\ handled \subseteq Servers /\ link \in {<<>>} \cup {<<t>> : t \in Servers}
  BY KnownServer
<1> DEFINE c == IF cont[s].run = "running" THEN [cont[s] EXCEPT !.run = "crashed"] ELSE cont[s]
           q == [r EXCEPT !.survived = TRUE]
<1>2. /\ q \in Record /\ q.st = r.st /\ q.loop = r.loop /\ q.store = r.store
      /\ q.overlap = r.overlap /\ q.match = r.match /\ q.port = r.port
  BY DEF Record
<1>3. LabelCurrent(q, cont[s])
  BY <1>1, <1>2, FlagsKeepLabel
<1>4. /\ c \in Container /\ c.st = cont[s].st /\ c.match = cont[s].match
      /\ c.port = cont[s].port /\ c.run # "running" /\ (c.run = "none" <=> cont[s].run = "none")
  BY <1>1 DEF Container
<1>5. r # Unknown
  BY DEF Unknown, Record, States
<1>6. CASE /\ cont' = IF cont[s].run = "running" THEN [cont EXCEPT ![s].run = "crashed"] ELSE cont
           /\ Set(s, r)
  <2>1. srv' = [srv EXCEPT ![s] = r] /\ cont' = [cont EXCEPT ![s] = c]
    BY <1>6 DEF Set, ManagerInv, TypeInv
  <2> HIDE DEF c
  <2>2. LabelCurrent(r, c)
    BY <1>4 DEF LabelCurrent
  <2>3. Attended(r, c) /\ Becomes(s, r, c)
    BY <1>1, <1>4, <1>5, <2>1 DEF Attended, Becomes
  <2>4. KeepsPort(s, r)
    BY <1>1, <1>5 DEF KeepsPort, Holds
  <2> QED
    BY <1>4, <2>2, <2>3, <2>4, ServerStep
<1>7. CASE cont' = cont /\ Set(s, q)
  <2> HIDE DEF q
  <2> QED
    BY <1>1, <1>2, <1>3, <1>7, RecordStep DEF Set
<1> QED
  BY <1>6, <1>7 DEF Killed

LEMMA GraceExpiresKeepsInv ==
    ASSUME ManagerInv, NEW s \in Servers, GraceExpires(s) PROVE ManagerInv'
<1> DEFINE b == [srv[s] EXCEPT !.grace = FALSE]
           q == To(b, "failed", "loop")
<1>1. /\ Known(s) /\ srv[s].loop = "watch" /\ UNCHANGED <<pool, link, up, handled>>
      /\ Killed(s, q)
  BY DEF GraceExpires, Loop
<1>2. srv[s] \in Record /\ cont[s] \in Container /\ LabelCurrent(srv[s], cont[s])
  BY <1>1, KnownServer
<1>3. /\ b \in Record /\ b.st = srv[s].st /\ b.loop = srv[s].loop /\ b.store = srv[s].store
      /\ b.overlap = srv[s].overlap /\ b.match = srv[s].match /\ b.port = srv[s].port
  BY <1>2 DEF Record
<1>4. LabelCurrent(b, cont[s])
  BY <1>2, <1>3, FlagsKeepLabel
<1>5. "failed" \in States \ {"pulling"} /\ "loop" \in Writers
  BY DEF States, Writers
<1> HIDE DEF b
<1>6. q \in Record /\ q.loop = "watch" /\ q.port = srv[s].port /\ LabelCurrent(q, cont[s])
  BY <1>1, <1>2, <1>3, <1>4, <1>5, ToFacts, ToKeepsLabel
<1> HIDE DEF q
<1> QED
  BY <1>1, <1>6, KilledKeepsInv

LEMMA KillTimerKeepsInv ==
    ASSUME ManagerInv, NEW s \in Servers, KillTimer(s) PROVE ManagerInv'
<1> DEFINE b == [srv[s] EXCEPT !.kill = FALSE]
<1>1. /\ Known(s) /\ srv[s].loop = "watch" /\ UNCHANGED <<pool, link, up, handled>>
      /\ Killed(s, b)
  BY DEF KillTimer, Loop
<1>2. srv[s] \in Record /\ cont[s] \in Container /\ LabelCurrent(srv[s], cont[s])
  BY <1>1, KnownServer
<1>3. /\ b \in Record /\ b.st = srv[s].st /\ b.loop = srv[s].loop /\ b.store = srv[s].store
      /\ b.overlap = srv[s].overlap /\ b.match = srv[s].match /\ b.port = srv[s].port
  BY <1>2 DEF Record
<1>4. LabelCurrent(b, cont[s])
  BY <1>2, <1>3, FlagsKeepLabel
<1> HIDE DEF b
<1> QED
  BY <1>1, <1>3, <1>4, KilledKeepsInv

\* The exit of a container ends the watch; the port is held until Finish.
LEMMA TakeExitKeepsInv ==
    ASSUME ManagerInv, NEW s \in Servers, TakeExit(s) PROVE ManagerInv'
<1> DEFINE b == [srv[s] EXCEPT !.grace = FALSE, !.kill = FALSE, !.stop = FALSE,
                               !.ready = FALSE, !.survived = FALSE, !.loop = "over"]
           q == IF b.stopped \/ cont[s].run = "clean" THEN To(b, "stopped", "loop")
                ELSE To(b, "failed", "loop")
<1>1. /\ Known(s) /\ srv[s].loop = "watch" /\ UNCHANGED <<pool, link, up, cont, handled>>
      /\ cont[s].run \in {"clean", "crashed"} /\ srv' = [srv EXCEPT ![s] = q]
  BY DEF TakeExit, Loop, Set
<1>2. /\ srv[s] \in Record /\ srv[s] # Unknown /\ cont[s] \in Container
      /\ LabelCurrent(srv[s], cont[s])
      /\ up /\ handled \subseteq Servers /\ link \in {<<>>} \cup {<<t>> : t \in Servers}
  BY <1>1, KnownServer
<1>3. /\ b \in Record /\ b.loop = "over" /\ b.store = srv[s].store
      /\ b.overlap = srv[s].overlap /\ b.port = srv[s].port
  BY <1>2 DEF Record, Positions
<1>4. q = To(b, "stopped", "loop") \/ q = To(b, "failed", "loop")
  OBVIOUS
<1>5. {"stopped", "failed"} \subseteq States \ {"pulling"} /\ "loop" \in Writers
  BY DEF States, Writers
<1> HIDE DEF b, q
<1>6. LabelCurrent(b, cont[s])
  BY <1>1, <1>2, <1>3 DEF LabelCurrent
<1>7. q \in Record /\ q.loop = "over" /\ q.port = srv[s].port /\ LabelCurrent(q, cont[s])
  BY <1>2, <1>3, <1>4, <1>5, <1>6, ToFacts, ToKeepsLabel
<1>8. q # Unknown
  BY <1>7 DEF Unknown, Record, States
<1>9. cont' = [cont EXCEPT ![s] = cont[s]]
  BY <1>1 DEF ManagerInv, TypeInv
<1>10. Attended(q, cont[s]) /\ Becomes(s, q, cont[s])
  BY <1>1, <1>2, <1>7, <1>9 DEF Attended, Becomes
<1>11. KeepsPort(s, q)
  BY <1>1, <1>2, <1>7, <1>8 DEF KeepsPort, Holds
<1> QED
  BY <1>2, <1>7, <1>10, <1>11, ServerStep

LEMMA FinishKeepsInv ==
    ASSUME ManagerInv, NEW s \in Servers, Finish(s) PROVE ManagerInv'
<1> DEFINE r == Tombstone(srv[s])
<1>1. /\ Known(s) /\ srv[s].loop = "over" /\ UNCHANGED <<link, up, handled>>
      /\ pool' = pool \ {srv[s].port}
      /\ srv' = [srv EXCEPT ![s] = r] /\ cont' = [cont EXCEPT ![s] = Gone]
  BY DEF Finish, Loop, Set
<1>2. /\ srv[s] \in Record /\ srv[s] # Unknown
      /\ up /\ handled \subseteq Servers /\ link \in {<<>>} \cup {<<t>> : t \in Servers}
  BY <1>1, KnownServer
<1>3. Gone \in Container /\ Gone.run = "none"
  BY DEF Gone, Container, MatchLabels
<1>4. r \in Record /\ ~Holds(r) /\ r.loop = "done" /\ LabelCurrent(r, Gone)
  BY <1>2, <1>3, TombstoneFacts
<1> HIDE DEF r
<1>5. Attended(r, Gone)
  BY <1>3, <1>4 DEF Attended
<1>6. Becomes(s, r, Gone)
  BY <1>1, <1>2 DEF Becomes
<1>7. FreesPort(s, r)
  BY <1>1, <1>2, <1>4 DEF FreesPort, Holds
<1> QED
  BY <1>3, <1>4, <1>5, <1>6, <1>7, ServerStep

LEMMA EvictKeepsInv ==
    ASSUME ManagerInv, NEW s \in Servers, Evict(s) PROVE ManagerInv'
<1>1. /\ Known(s) /\ srv[s].loop = "done" /\ UNCHANGED <<pool, link, up, cont, handled>>
      /\ srv' = [srv EXCEPT ![s] = Unknown]
  BY DEF Evict, Set
<1>2. /\ srv[s] # Unknown /\ cont[s] \in Container /\ Attended(srv[s], cont[s])
      /\ up /\ handled \subseteq Servers /\ link \in {<<>>} \cup {<<t>> : t \in Servers}
  BY <1>1, KnownServer
<1>3. cont' = [cont EXCEPT ![s] = cont[s]]
  BY <1>1 DEF ManagerInv, TypeInv
<1>4. Attended(Unknown, cont[s]) /\ Becomes(s, Unknown, cont[s])
  BY <1>1, <1>2, <1>3 DEF Attended, Becomes
<1>5. KeepsPort(s, Unknown)
  BY <1>1, <1>2 DEF KeepsPort, Holds
<1> QED
  BY <1>2, <1>4, <1>5, ServerStep

-----------------------------------------------------------------------------
(* Crash and Restore.                                                      *)

\* The containers outlive the agent and still have ports of their own.
LEMMA CrashKeepsInv ==
    ASSUME ManagerInv, Crash PROVE ManagerInv'
<1>1. /\ up /\ ~up' /\ cont' = cont /\ TypeInv
      /\ srv' = [s \in Servers |-> Unknown] /\ pool' = {} /\ link' = <<>> /\ handled' = {}
  BY DEF Crash, ManagerInv, TypeInv
<1>2. TypeInv'
  BY <1>1 DEF Crash, TypeInv
<1>3. \A s \in Servers : srv'[s] = Unknown
  BY <1>1
<1>4. \A s \in Servers : ServerInv(srv'[s], cont'[s], up')
  BY <1>1, <1>3 DEF ServerInv
<1>5. PortsDistinct'
  BY <1>1, <1>3 DEF ManagerInv, PortsDistinct, Holds
<1>6. PoolExact' /\ RunningOnPort'
  BY <1>1 DEF ManagerInv, PoolExact, RunningOnPort
<1> QED
  BY <1>2, <1>4, <1>5, <1>6 DEF ManagerInv

\* Every adopted container brings its port and its label with it.
LEMMA RestoreKeepsInv ==
    ASSUME ManagerInv, Restore PROVE ManagerInv'
<1> DEFINE running == {s \in Servers : cont[s].run = "running"}
           b(s) == [NewServer(RestoredState(cont[s].st), "started")
                      EXCEPT !.port = cont[s].port, !.match = cont[s].match]
           r(s) == Supervise(b(s))
<1>1. /\ ~up /\ up' /\ TypeInv /\ pool' = {cont[s].port : s \in running}
      /\ link' = link /\ handled' = handled
      /\ cont' = [s \in Servers |-> IF s \in running THEN cont[s] ELSE Gone]
      /\ srv' = [s \in Servers |-> IF s \notin running THEN Unknown ELSE r(s)]
  BY DEF Restore, Adopted, ManagerInv
<1>2. /\ \A s \in running : srv'[s] = r(s) /\ cont'[s] = cont[s]
      /\ \A s \in Servers \ running : srv'[s] = Unknown /\ cont'[s] = Gone
  BY <1>1
<1>3. Gone \in Container /\ Gone.run = "none"
  BY DEF Gone, Container, MatchLabels
<1>4. ASSUME NEW s \in running
      PROVE  /\ r(s) \in Record /\ r(s).loop = "watch" /\ r(s).port = cont[s].port
             /\ r(s).st = RestoredState(cont[s].st) /\ r(s).st # "pulling"
             /\ r(s).match = cont[s].match /\ r(s).store = Quiet
  <2>1. cont[s] \in Container /\ cont[s].port \in {0} \cup Ports /\ cont[s].match \in MatchLabels
    BY <1>1 DEF TypeInv, Container
  <2>2. RestoredState(cont[s].st) \in States \ {"pulling"}
    BY DEF RestoredState, States
  <2>3. /\ NewServer(RestoredState(cont[s].st), "started") \in Record
        /\ NewServer(RestoredState(cont[s].st), "started").st = RestoredState(cont[s].st)
        /\ NewServer(RestoredState(cont[s].st), "started").store = Quiet
    BY <2>2, NewServerType DEF Positions
  <2>4. /\ b(s) \in Record /\ b(s).port = cont[s].port /\ b(s).match = cont[s].match
        /\ b(s).st = RestoredState(cont[s].st) /\ b(s).store = Quiet
    BY <2>1, <2>3 DEF Record
  <2> HIDE DEF b
  <2> QED
    BY <2>2, <2>4 DEF Supervise, Record, Positions
<1> HIDE DEF r
<1>5. TypeInv'
  <2>1. pool' \subseteq Ports
    BY <1>1 DEF ManagerInv, RunningOnPort
  <2> QED
    BY <1>1, <1>3, <1>4, <2>1 DEF TypeInv
<1>6. \A s \in Servers : ServerInv(srv'[s], cont'[s], up')
  <2>1. ASSUME NEW s \in running PROVE ServerInv(srv'[s], cont'[s], up')
    <3>1. r(s) # Unknown
      BY <1>4 DEF Unknown, Record, States
    <3>2. Attended(r(s), cont[s])
      BY <1>4, <3>1 DEF Attended
    <3>3. Agrees(<<cont[s].st, cont[s].match>>, r(s))
      BY <1>4 DEF Agrees
    <3>4. LabelCurrent(r(s), cont[s])
      BY <1>4, <3>3 DEF LabelCurrent, Quiet
    <3> QED
      BY <1>1, <1>2, <3>2, <3>4 DEF ServerInv
  <2>2. ASSUME NEW s \in Servers \ running PROVE ServerInv(srv'[s], cont'[s], up')
    BY <1>1, <1>2, <1>3 DEF ServerInv, Attended
  <2> QED
    BY <2>1, <2>2
<1>7. \A s \in Servers : Holds(srv'[s]) <=> s \in running
  BY <1>2, <1>4 DEF Holds, Unknown, Record, States
<1>8. \A s \in Servers : cont'[s].run = "running" <=> s \in running
  BY <1>2, <1>3
<1>9. PortsDistinct' /\ RunningOnPort'
  BY <1>2, <1>4, <1>7, <1>8 DEF ManagerInv, PortsDistinct, RunningOnPort
<1>10. PoolExact'
  BY <1>1, <1>2, <1>4, <1>7 DEF PoolExact
<1> QED
  BY <1>5, <1>6, <1>9, <1>10 DEF ManagerInv

-----------------------------------------------------------------------------
(* The theorems.                                                           *)

LEMMA InitEstablishesInv == Init => ManagerInv
<1> SUFFICES ASSUME Init PROVE ManagerInv
  OBVIOUS
<1>1. Gone \in Container /\ Gone.run = "none"
  BY DEF Gone, Container, MatchLabels
<1>2. TypeInv
  BY <1>1 DEF Init, TypeInv
<1>3. \A s \in Servers : srv[s] = Unknown /\ cont[s] = Gone
  BY DEF Init
<1>4. PortsDistinct /\ RunningOnPort
  BY <1>1, <1>3 DEF PortsDistinct, RunningOnPort, Holds
<1>5. PoolExact
  BY <1>3 DEF Init, PoolExact, Holds
<1>6. \A s \in Servers : ServerInv(srv[s], cont[s], up)
  BY <1>1, <1>3 DEF Init, ServerInv, Attended
<1> QED
  BY <1>2, <1>4, <1>5, <1>6 DEF ManagerInv

LEMMA CommandDoneKeepsInv ==
    ASSUME ManagerInv, CommandDone PROVE ManagerInv'
BY DEF CommandDone, ManagerInv, TypeInv, PortsDistinct, RunningOnPort, PoolExact

LEMMA StepKeepsInv ==
    ASSUME ManagerInv, [Next]_vars PROVE ManagerInv'
<1>1. CASE UNCHANGED vars
  BY <1>1 DEF vars, ManagerInv, TypeInv, PortsDistinct, RunningOnPort, PoolExact
<1>2. ASSUME NEW s \in Servers, Command(s) PROVE ManagerInv'
  BY <1>2, StartKeepsInv, StopKeepsInv, DrainServerKeepsInv, AllocateKeepsInv DEF Command
<1>3. ASSUME NEW s \in Servers, Environment(s) PROVE ManagerInv'
  BY <1>3, LibaReadyKeepsInv, EvictKeepsInv, LibaMatchStartKeepsInv, ContainerExitsKeepsInv
     DEF Environment
<1>4. ASSUME NEW s \in Servers, LoopStep(s) PROVE ManagerInv'
  <2>1. CASE LaunchFails(s)
    BY <2>1, LaunchEnds DEF LaunchFails, Loop, Set
  <2> QED
    BY <1>4, <2>1, LaunchPortKeepsInv, LaunchRunKeepsInv, LaunchDoneKeepsInv,
       TakeReadyKeepsInv, GraceExpiresKeepsInv, TakeStopKeepsInv, KillTimerKeepsInv,
       TakeExitKeepsInv, FinishKeepsInv DEF LoopStep
<1>5. ASSUME NEW s \in Servers, NEW w \in Writers, StoreWrite(s, w) PROVE ManagerInv'
  BY <1>5, StoreWriteKeepsInv
<1>6. CASE CommandDone \/ Crash \/ Restore
  BY <1>6, CommandDoneKeepsInv, CrashKeepsInv, RestoreKeepsInv
<1> QED
  BY <1>1, <1>2, <1>3, <1>4, <1>5, <1>6 DEF Next

LEMMA ManagerInvariant == Spec => []ManagerInv
BY InitEstablishesInv, StepKeepsInv, PTL DEF Spec

\* The server map, the pool and the containers keep their types: a record is in
\* a state the lifecycle machine has, ports come from the pool.
THEOREM TypeCorrect == Spec => []TypeOK
<1>1. ManagerInv => TypeOK
  BY DEF ManagerInv, TypeInv, TypeOK, Known, Unknown, Record, Container
<1> QED
  BY <1>1, ManagerInvariant, PTL

\* Ports are never shared between containers that run and never leak from the
\* pool, through failed launches, exits, kills that fail and agent restarts.
THEOREM PortsAreAccounted == Spec => []PortsAccounted
<1>1. ManagerInv => PortsAccounted
  <2> SUFFICES ASSUME ManagerInv PROVE PortsAccounted
    OBVIOUS
  <2>1. \A s \in Servers : Holds(srv[s]) <=>
          Known(s) /\ srv[s].loop \in {"run", "started", "watch", "over"}
    BY DEF ManagerInv, TypeInv, Holds, Known, Unknown, Record, States
  <2> QED
    BY <2>1 DEF ManagerInv, PortsDistinct, PoolExact, PortsAccounted
<1> QED
  BY <1>1, ManagerInvariant, PTL

\* A restart of the agent finds a supervised server in the state and with the
\* match it had, unless two goroutines were storing its label at once.
THEOREM LabelIsState == Spec => []LabelFollowsState
<1>1. ManagerInv => LabelFollowsState
  <2> SUFFICES ASSUME ManagerInv, NEW s \in Servers,
                      Known(s), srv[s].loop = "watch", ~Terminal(srv[s].st),
                      ~srv[s].overlap, \A w \in Writers : Idle(s, w)
               PROVE  /\ RestoredState(cont[s].st) = srv[s].st
                      /\ srv[s].st = "allocated" => cont[s].match = srv[s].match
    BY DEF LabelFollowsState
  <2>1. LabelCurrent(srv[s], cont[s])
    BY KnownServer
  <2>2. \A w \in Writers : srv[s].store[w] = <<>>
    BY DEF Idle
  <2>3. Agrees(<<cont[s].st, cont[s].match>>, srv[s]) /\ srv[s].st # "pulling"
    BY <2>1, <2>2 DEF LabelCurrent
  <2> QED
    BY <2>3 DEF Agrees
<1> QED
  BY <1>1, ManagerInvariant, PTL
=============================================================================
