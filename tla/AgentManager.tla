---------------------------- MODULE AgentManager ----------------------------
(***************************************************************************)
(* The agent's server manager (src/agent/internal/daemon): the server map, *)
(* one launch-then-supervise goroutine per server, the link's commands,    *)
(* the liba callbacks, the port pool, the lifecycle machine with its       *)
(* readiness grace, and the restart that rebuilds the map from the labels  *)
(* of the containers, which outlive the agent.                             *)
(*                                                                         *)
(* The link hands over one command at a time and no cmd_id twice to one    *)
(* process (AgentLink); a restarted agent may see a Start again.  Heartbeats*)
(* only read.  A label is stored in two steps, the state it was read in and*)
(* the write, because another goroutine may store in between.  The node's  *)
(* drain flag is one of the reasons for which Start refuses.               *)
(***************************************************************************)
EXTENDS Integers, FiniteSets

CONSTANTS
    Servers, Matches,
    Linked,          \* the servers whose game links liba; the others never get ready
    Ports,           \* the port pool, a set of numbers
    NoMatch,
    MaxFaults        \* bound: agent crashes and failed kills together

VARIABLES
    srv,             \* m.servers: the record of each known server
    pool,            \* ports.Pool.inUse
    link,            \* the server whose command the receive loop is storing
    up,              \* the agent runs
    cont,            \* the containers: running, exited, their port and labels
    handled,         \* servers whose Start this process has had
    faults

vars == <<srv, pool, link, up, cont, handled, faults>>

States == {"pulling", "starting", "ready", "allocated", "draining", "stopped", "failed"}
Terminal(st) == st \in {"stopped", "failed"}

\* lifecycle.next.
Legal == [pulling   |-> {"starting", "stopped", "failed"},
          starting  |-> {"ready", "stopped", "failed"},
          ready     |-> {"allocated", "draining", "stopped", "failed"},
          allocated |-> {"draining", "stopped", "failed"},
          draining  |-> {"stopped", "failed"},
          stopped   |-> {}, failed |-> {}]

\* Goroutines that store labels: the server's own, the link's, liba's.
Writers == {"loop", "link", "liba"}
Quiet   == [w \in Writers |-> <<>>]

Unknown == [st |-> "none"]
Gone    == [run |-> "none", port |-> 0, st |-> "none", match |-> NoMatch]

\* loop: launch -> run -> started -> watch -> over -> done, fail on the way.
NewServer(at, pos) ==
    [st |-> at, loop |-> pos, port |-> 0, match |-> NoMatch, stop |-> FALSE,
     stopped |-> FALSE, kill |-> FALSE, survived |-> FALSE, ready |-> FALSE,
     grace |-> FALSE,
     store |-> Quiet, overlap |-> FALSE]   \* overlap: two goroutines stored at once

Known(s) == srv[s].st # "none"

TypeOK ==
    /\ \A s \in Servers :
        /\ Known(s) => srv[s].st \in States /\ srv[s].port \in {0} \cup Ports
        /\ cont[s].run \in {"none", "running", "clean", "crashed"}
        /\ cont[s].port \in {0} \cup Ports
    /\ pool \subseteq Ports /\ handled \subseteq Servers
    /\ link \in {<<>>} \cup {<<s>> : s \in Servers}

Init ==
    /\ srv = [s \in Servers |-> Unknown] /\ cont = [s \in Servers |-> Gone]
    /\ pool = {} /\ link = <<>> /\ up = TRUE
    /\ handled = {} /\ faults = 0

-----------------------------------------------------------------------------
(* Helpers.                                                                *)

Fault == faults < MaxFaults /\ faults' = faults + 1
Idle(s, w) == srv[s].store[w] = <<>>

\* storeState reads the state and the match and then writes them as the label;
\* there is no label before the handle, nor for a terminal state.
HasHandle(r) == r.loop \in {"started", "watch", "over"}
StoreState(r, w) ==
    IF Terminal(r.st) \/ ~HasHandle(r) THEN r
    ELSE [r EXCEPT !.store[w] = <<r.st, r.match>>,
                   !.overlap = @ \/ \E x \in Writers \ {w} : r.store[x] # <<>>]

\* Mutant: a transition is not stored.
To_Unstored(r, to, w) == IF to \in Legal[r.st] THEN [r EXCEPT !.st = to] ELSE r

\* transition: the machine refuses what lifecycle.next does not list.
To(r, to, w) == IF to \in Legal[r.st] THEN StoreState([r EXCEPT !.st = to], w) ELSE r

Set(s, r) == srv' = [srv EXCEPT ![s] = r]

\* What its goroutine leaves of a server: a tombstone Snapshot will evict.
Tombstone(r) == NewServer(r.st, "done")

-----------------------------------------------------------------------------
(* Commands.                                                               *)

LinkFree == up /\ link = <<>>

\* Start: nothing for a known server, a refusal on a draining node or a full
\* disk, else its goroutine.
Start(s, refuse) ==
    /\ LinkFree /\ s \notin handled /\ ~Known(s)
    /\ handled' = handled \cup {s}
    /\ Set(s, IF refuse THEN Tombstone(To(NewServer("pulling", "launch"), "failed", "link"))
              ELSE NewServer("pulling", "launch"))
    /\ UNCHANGED <<pool, link, up, cont, faults>>

\* Stop leaves a request its goroutine will find; it ignores a second one.
Stop(s) ==
    /\ LinkFree /\ Known(s) /\ srv[s].loop \notin {"over", "done"} /\ ~srv[s].stopped
    /\ Set(s, [srv[s] EXCEPT !.stop = TRUE])
    /\ UNCHANGED <<pool, link, up, cont, handled, faults>>

\* Allocate and DrainServer: the state it finds decides, and may have moved
\* on when the machine is asked, which then refuses.
Allocate(s, m) ==
    LET r == [srv[s] EXCEPT !.match = m] IN
    /\ LinkFree /\ Known(s)
    /\ Set(s, CASE r.st = "ready"     -> To(r, "allocated", "link")
                [] r.st = "allocated" -> StoreState(r, "link")
                [] OTHER              -> r)
    /\ link' = IF r.st \in {"ready", "allocated"} THEN <<s>> ELSE <<>>
    /\ UNCHANGED <<pool, up, cont, handled, faults>>

DrainServer(s) ==
    /\ LinkFree /\ Known(s) /\ srv[s].st \in {"ready", "allocated"}
    /\ Set(s, To(srv[s], "draining", "link")) /\ link' = <<s>>
    /\ UNCHANGED <<pool, up, cont, handled, faults>>

\* The receive loop takes its next command once the label is stored.
CommandDone ==
    /\ link # <<>> /\ Idle(link[1], "link") /\ link' = <<>>
    /\ UNCHANGED <<srv, pool, up, cont, handled, faults>>

-----------------------------------------------------------------------------
(* SetState, the write of storeState.                                      *)

StoreWrite(s, w) ==
    /\ up /\ Known(s) /\ ~Idle(s, w)
    /\ Set(s, [srv[s] EXCEPT !.store[w] = <<>>])
    /\ cont' = IF cont[s].run = "none" THEN cont
               ELSE [cont EXCEPT ![s].st = srv[s].store[w][1], ![s].match = srv[s].store[w][2]]
    /\ UNCHANGED <<pool, link, up, handled, faults>>

-----------------------------------------------------------------------------
(* liba.                                                                   *)

Running(s) == up /\ Known(s) /\ cont[s].run = "running"

\* The ready frame may come before the goroutine that started the container;
\* later ones are ignored.
LibaReady(s) ==
    /\ s \in Linked /\ Running(s) /\ ~srv[s].ready /\ srv[s].st \in {"pulling", "starting"}
    /\ Set(s, [srv[s] EXCEPT !.ready = TRUE])
    /\ UNCHANGED <<pool, link, up, cont, handled, faults>>

LibaMatchStart(s, m) ==
    /\ s \in Linked /\ Running(s) /\ Idle(s, "liba") /\ srv[s].loop # "done"
    /\ Set(s, StoreState([srv[s] EXCEPT !.match = m], "liba"))
    /\ UNCHANGED <<pool, link, up, cont, handled, faults>>

\* The game process ends by itself, cleanly or not.
ContainerExits(s, how) ==
    /\ cont[s].run = "running" /\ cont' = [cont EXCEPT ![s].run = how]
    /\ UNCHANGED <<srv, pool, link, up, handled, faults>>

-----------------------------------------------------------------------------
(* launch.                                                                 *)

Loop(s, pos) == up /\ Known(s) /\ srv[s].loop = pos /\ Idle(s, "loop")
Free == Ports \ pool

\* Acquire takes the lowest free port, AcquireSpecific the one asked for.
LaunchPort(s) ==
    /\ Loop(s, "launch")
    /\ \/ /\ Free = {} /\ pool' = pool
          /\ Set(s, Tombstone(To(srv[s], "failed", "loop")))
       \/ \E p \in Free :
            /\ \A q \in Free : p <= q
            /\ pool' = pool \cup {p}
            /\ Set(s, [srv[s] EXCEPT !.port = p, !.loop = "run"])
    /\ UNCHANGED <<link, up, cont, handled, faults>>

\* rt.Start: the container runs from here on, labelled starting.
LaunchRun(s) ==
    /\ Loop(s, "run") /\ cont[s].run = "none"
    /\ cont' = [cont EXCEPT ![s] = [run |-> "running", port |-> srv[s].port,
                                    st |-> "starting", match |-> NoMatch]]
    /\ Set(s, [srv[s] EXCEPT !.loop = "started"])
    /\ UNCHANGED <<pool, link, up, handled, faults>>

\* The socket, the pull or the container fails: whatever was taken goes back.
LaunchFails(s) ==
    /\ Loop(s, "run") /\ pool' = pool \ {srv[s].port}
    /\ Set(s, Tombstone(To(srv[s], "failed", "loop")))
    /\ UNCHANGED <<link, up, cont, handled, faults>>

\* supervise arms the grace of a server that is starting.
Supervise(r) == [r EXCEPT !.loop = "watch", !.grace = r.st = "starting"]

LaunchDone(s) ==
    /\ Loop(s, "started")
    /\ IF srv[s].st = "pulling" THEN Set(s, To(srv[s], "starting", "loop"))
       ELSE Set(s, Supervise(srv[s]))
    /\ UNCHANGED <<pool, link, up, cont, handled, faults>>

-----------------------------------------------------------------------------
(* supervise.                                                              *)

TakeReady(s) ==
    /\ Loop(s, "watch") /\ srv[s].ready
    /\ LET r == [srv[s] EXCEPT !.ready = FALSE] IN
       Set(s, IF r.st = "starting" THEN To([r EXCEPT !.grace = FALSE], "ready", "loop") ELSE r)
    /\ UNCHANGED <<pool, link, up, cont, handled, faults>>

\* Kill ends the container, or fails and is not tried again.
Killed(s, r) ==
    \/ /\ cont' = IF cont[s].run = "running" THEN [cont EXCEPT ![s].run = "crashed"] ELSE cont
       /\ Set(s, r) /\ UNCHANGED faults
    \/ cont[s].run = "running" /\ Fault /\ UNCHANGED cont /\ Set(s, [r EXCEPT !.survived = TRUE])

GraceExpires(s) ==
    /\ Loop(s, "watch") /\ srv[s].grace /\ srv[s].st = "starting"
    /\ Killed(s, To([srv[s] EXCEPT !.grace = FALSE], "failed", "loop"))
    /\ UNCHANGED <<pool, link, up, handled>>

\* Mutant: SIGTERM is all the process gets.
KillArmed_Never == FALSE
KillArmed == TRUE

\* The first stop request: draining, SIGTERM and the kill timer.
TakeStop(s) ==
    LET r == [srv[s] EXCEPT !.stop = FALSE] IN
    /\ Loop(s, "watch") /\ srv[s].stop
    /\ LET t == [r EXCEPT !.stopped = TRUE, !.kill = KillArmed]
       IN Set(s, IF r.st \in {"ready", "allocated"} THEN To(t, "draining", "loop") ELSE t)
    /\ UNCHANGED <<pool, link, up, cont, handled, faults>>

KillTimer(s) ==
    /\ Loop(s, "watch") /\ srv[s].kill
    /\ Killed(s, [srv[s] EXCEPT !.kill = FALSE])
    /\ UNCHANGED <<pool, link, up, handled>>

\* finish: stopped when it was asked for or the exit is clean, else failed.
TakeExit(s) ==
    LET r == [srv[s] EXCEPT !.grace = FALSE, !.kill = FALSE, !.stop = FALSE,
                            !.ready = FALSE, !.survived = FALSE, !.loop = "over"] IN
    /\ Loop(s, "watch") /\ cont[s].run \in {"clean", "crashed"}
    /\ Set(s, IF r.stopped \/ cont[s].run = "clean" THEN To(r, "stopped", "loop")
              ELSE To(r, "failed", "loop"))
    /\ UNCHANGED <<pool, link, up, cont, handled, faults>>

\* The container is deleted, its port released, a tombstone left.
Finish(s) ==
    /\ Loop(s, "over")
    /\ cont' = [cont EXCEPT ![s] = Gone] /\ pool' = pool \ {srv[s].port}
    /\ Set(s, Tombstone(srv[s]))
    /\ UNCHANGED <<link, up, handled, faults>>

\* Snapshot drops a tombstone after its TTL.
Evict(s) ==
    /\ up /\ Known(s) /\ srv[s].loop = "done" /\ link # <<s>>
    /\ \A w \in Writers : Idle(s, w)
    /\ Set(s, Unknown)
    /\ UNCHANGED <<pool, link, up, cont, handled, faults>>

-----------------------------------------------------------------------------
(* Crash and Restore.                                                      *)

Crash ==
    /\ up /\ Fault /\ up' = FALSE
    /\ srv' = [s \in Servers |-> Unknown] /\ pool' = {}
    /\ link' = <<>> /\ handled' = {}
    /\ UNCHANGED cont

\* Mutant: the label is taken as it is.
RestoredState_AsLabelled(label) == label

\* Unknown and early states start over with the readiness grace.
RestoredState(label) ==
    IF label \in {"ready", "allocated", "draining"} THEN label ELSE "starting"

\* Mutant: the ports of adopted containers are not taken from the pool.
Adopted_None(ss) == {}
Adopted(ss) == {cont[s].port : s \in ss}

\* Running containers are adopted as labelled, dead ones deleted.
Restore ==
    LET running == {s \in Servers : cont[s].run = "running"} IN
    /\ ~up /\ up' = TRUE
    /\ pool' = Adopted(running)
    /\ cont' = [s \in Servers |-> IF s \in running THEN cont[s] ELSE Gone]
    /\ srv' = [s \in Servers |->
         IF s \notin running THEN Unknown
         ELSE Supervise([NewServer(RestoredState(cont[s].st), "started")
                           EXCEPT !.port = cont[s].port, !.match = cont[s].match])]
    /\ UNCHANGED <<link, handled, faults>>

-----------------------------------------------------------------------------
LoopStep(s) ==
    \/ LaunchPort(s) \/ LaunchRun(s) \/ LaunchFails(s) \/ LaunchDone(s)
    \/ TakeReady(s) \/ GraceExpires(s) \/ TakeStop(s) \/ KillTimer(s)
    \/ TakeExit(s) \/ Finish(s)

Command(s) ==
    \/ \E refuse \in BOOLEAN : Start(s, refuse)
    \/ Stop(s) \/ DrainServer(s)
    \/ \E m \in Matches : Allocate(s, m)

Environment(s) ==
    \/ LibaReady(s) \/ Evict(s)
    \/ \E m \in Matches : LibaMatchStart(s, m)
    \/ \E how \in {"clean", "crashed"} : ContainerExits(s, how)

Next ==
    \/ \E s \in Servers :
        \/ Command(s) \/ Environment(s) \/ LoopStep(s)
        \/ \E w \in Writers : StoreWrite(s, w)
    \/ CommandDone \/ Crash \/ Restore

Spec == Init /\ [][Next]_vars

\* Each server's goroutine runs and systemd restarts the agent; nothing is
\* assumed of the games, the master and the disk.
FairSpec ==
    /\ Spec /\ WF_vars(Restore)
    /\ \A s \in Servers : WF_vars(LoopStep(s)) /\ WF_vars(StoreWrite(s, "loop"))

-----------------------------------------------------------------------------
(* Properties.                                                             *)

\* Ports, across launches that fail, exits and restarts: containers that run
\* never share one, and the pool holds those of the servers that have one.
PortsAccounted ==
    /\ \A s, t \in Servers :
        (s # t /\ cont[s].run = "running" /\ cont[t].run = "running")
        => cont[s].port # cont[t].port
    /\ up => pool = {srv[s].port : s \in {t \in Servers :
                        Known(t) /\ srv[t].loop \in {"run", "started", "watch", "over"}}}

\* "an agent restart keeps the match": with no label on its way, a restart
\* would find a supervised server as it is.  Two goroutines that stored at once
\* may leave the older label.
LabelFollowsState ==
    \A s \in Servers :
        (/\ Known(s) /\ srv[s].loop = "watch" /\ ~Terminal(srv[s].st)
         /\ ~srv[s].overlap /\ \A w \in Writers : Idle(s, w))
        => /\ RestoredState(cont[s].st) = srv[s].st
           /\ srv[s].st = "allocated" => cont[s].match = srv[s].match

\* A stop ends the container, also one that came before there was one, unless
\* the agent dies with the request or a kill fails.
StopEnds ==
    \A s \in Servers :
        (Known(s) /\ srv[s].stop)
        ~> cont[s].run = "none" \/ ~up \/ (Known(s) /\ srv[s].survived)

\* No container stays unready for ever, also when the agent restarts meanwhile:
\* its server becomes ready, or it is killed when its grace ends.
Unready(s) == cont[s].run = "running" /\ Known(s) /\ srv[s].st = "starting"
Settled(s) ==
    \/ cont[s].run # "running"
    \/ Known(s) /\ (srv[s].survived \/ srv[s].st \notin {"pulling", "starting"})
ReadinessSettled == \A s \in Servers : Unready(s) ~> Settled(s)
=============================================================================
