--------------------------- MODULE DeployManager ---------------------------
(***************************************************************************)
(* The deploy manager of the master (src/master/internal/deploy) over the  *)
(* versions table of one auto_deploy environment: prepull jobs and their   *)
(* timers in memory, pull reports, the orphan sweep, rollback, the         *)
(* forward-only auto-deploy chain, and Resume after a crash.               *)
(*                                                                         *)
(* A lane is a goroutine: an API call, a pull report, a fired timer, the   *)
(* sweep.  Its record holds the code position and what it has read.        *)
(* BeginDeploy and ActivateVersion are open transactions between their two *)
(* actions: they hold the lock of their own version row, and what they     *)
(* write is seen when they commit.  Versions are numbered in created_at    *)
(* order; every one has an image of its own.                               *)
(***************************************************************************)
EXTENDS Integers, FiniteSets, FiniteSetsExt

CONSTANTS
    Newest,          \* versions 1 .. Newest may be registered
    Nodes,           \* nodes of the environment's fleet regions
    AllLanes,        \* goroutines that may run at once
    MaxEvents        \* bound: operator requests, store errors, node changes
                     \* and crashes together

ASSUME DeployAssumption ==
    Newest \in Nat /\ MaxEvents \in Nat /\ IsFiniteSet(AllLanes) /\ AllLanes # {}

Versions == 1 .. Newest

VARIABLES
    vstate, fleet,   \* versions.state and fleet_configs.active_version
    hasFleet,        \* the environment has a fleet_configs row
    attempted,       \* versions with a deploy_started event
    live,            \* nodes PrePullTargets returns: active, fresh heartbeat
    jobs,            \* Manager.jobs: the nodes still pending, NoJob: no entry
    fired,           \* versions whose timer fired: expire waits for the mutex
    marker,          \* Manager.lastAttempted
    lane,            \* what each goroutine is doing
    lanes,           \* the goroutines of this behaviour
    boot, rearm,     \* progress of Resume, versions it has still to re-arm
    dropped,         \* history: a store error ended a chain, none has run since
    spent            \* how many of MaxEvents happened

tables == <<vstate, fleet>>
store  == <<vstate, fleet, hasFleet, attempted>>
memory == <<jobs, fired, marker>>
start  == <<boot, rearm>>
vars   == <<store, memory, start, live, lane, lanes, dropped, spent>>

Window == INSTANCE VersionWindow WITH NoVersion <- 0, Features <- {}

NoJob == {-1}

Positions == {"idle", "begin", "beginning", "begun", "start", "activate",
              "flipping", "abort", "chain", "lookup", "sweep"}

Idle == [pc |-> "idle", v |-> 0, how |-> "manual", seen |-> 0,
         res |-> "new", snap |-> {}, over |-> FALSE]

LaneRecords ==
    [pc : Positions, v : 0 .. Newest, how : {"manual", "auto", "rollback"},
     seen : 0 .. Newest, res : {"new", "active", "prepulling"},
     snap : SUBSET Versions, over : BOOLEAN]

\* A goroutine has a version except before its chain has found one.
TypeOK ==
    /\ Window!TypeOK /\ hasFleet \in BOOLEAN
    /\ attempted \subseteq Versions /\ fired \subseteq Versions
    /\ live \subseteq Nodes /\ marker \in 0 .. Newest
    /\ jobs \in [Versions -> {NoJob} \cup SUBSET Nodes]
    /\ lanes \subseteq AllLanes /\ lanes # {} /\ lane \in [lanes -> LaneRecords]
    /\ \A p \in lanes : lane[p].pc \notin {"idle", "chain", "lookup"} => lane[p].v # 0
    /\ boot \in {"down", "rearm", "kick", "up"} /\ rearm \subseteq Versions
    /\ dropped \in BOOLEAN /\ spent \in 0 .. MaxEvents

Init ==
    /\ Window!Init
    /\ hasFleet = FALSE /\ attempted = {} /\ live \in {{}, Nodes}
    /\ jobs = [v \in Versions |-> NoJob] /\ fired = {} /\ marker = 0
    /\ lanes \in {{CHOOSE p \in AllLanes : TRUE}, AllLanes}
    /\ lane = [p \in lanes |-> Idle]
    /\ boot = "up" /\ rearm = {}
    /\ dropped = FALSE /\ spent = 0

-----------------------------------------------------------------------------
(* State formulae.                                                         *)

First == CHOOSE p \in lanes : TRUE

Free(p) == p \in lanes /\ boot = "up" /\ lane[p].pc = "idle"

At(p, pos) == p \in lanes /\ lane[p].pc = pos

\* Row locks of open transactions: SELECT .. FOR UPDATE OF v.
HeldBy(q, v) == lane[q].pc \in {"beginning", "flipping"} /\ lane[q].v = v
Locked(p, v) == \E q \in lanes \ {p} : HeldBy(q, v)

Spend == spent < MaxEvents /\ spent' = spent + 1

Goto(p, rec) == lane' = [lane EXCEPT ![p] = rec]
Move(p, pos) == lane' = [lane EXCEPT ![p].pc = pos]
Finish(p)    == Goto(p, Idle)

\* The row state a flip starts from: a prepull that finished, or a rollback.
FromState(p) == IF lane[p].how = "rollback" THEN "deprecated" ELSE "prepulling"

-----------------------------------------------------------------------------
(* BeginDeploy, shared by the manual and the automatic path.               *)

\* Mutant: the environment-wide busy check is lost.
BeginDeploy_NotBusyChecked(p) ==
    LET v == lane[p].v st == vstate[v] IN
    /\ At(p, "begin") /\ ~Locked(p, v)
    /\ CASE st \in {"active", "prepulling"} ->
              Goto(p, [lane[p] EXCEPT !.pc = "begun", !.res = st])
         [] st \in {"registered", "deprecated"} /\ hasFleet -> Move(p, "beginning")
         [] OTHER -> Finish(p)
    /\ UNCHANGED <<store, memory, start, live, lanes, dropped, spent>>

BeginDeploy(p) ==
    LET v == lane[p].v st == vstate[v] IN
    /\ At(p, "begin") /\ ~Locked(p, v)
    /\ CASE st \in {"active", "prepulling"} ->
              Goto(p, [lane[p] EXCEPT !.pc = "begun", !.res = st])
         [] /\ st \in {"registered", "deprecated"}
            /\ Window!InState("prepulling") = {} /\ hasFleet -> Move(p, "beginning")
         [] OTHER -> Finish(p)
    /\ UNCHANGED <<store, memory, start, live, lanes, dropped, spent>>

\* The update, the deploy_started event and the commit.  `over` notes for the
\* others that a deploy began after they read the marker.
BeginCommit(p) ==
    LET v == lane[p].v IN
    /\ At(p, "beginning")
    /\ vstate' = [vstate EXCEPT ![v] = "prepulling"]
    /\ attempted' = attempted \cup {v}
    /\ lane' = [q \in lanes |->
         IF q = p THEN [lane[p] EXCEPT !.pc = "begun", !.res = "new"]
         ELSE [lane[q] EXCEPT !.over = @ \/ lane[q].pc \in {"lookup", "begin", "beginning"}]]
    /\ UNCHANGED <<fleet, hasFleet, memory, start, live, lanes, dropped, spent>>

\* recordAttempt, then what Deploy and TryAutoDeploy do with the result: an
\* in-flight job is reported, a prepulling row without one is adopted.
RecordAttempt(p) ==
    LET v == lane[p].v IN
    /\ At(p, "begun")
    /\ marker' = Max({marker, v})
    /\ IF \/ lane[p].res = "active"
          \/ lane[p].res = "prepulling" /\ jobs[v] # NoJob
       THEN Finish(p) ELSE Goto(p, [Idle EXCEPT !.pc = "start", !.v = v])
    /\ UNCHANGED <<store, jobs, fired, start, live, lanes, dropped, spent>>

-----------------------------------------------------------------------------
(* Prepull jobs.                                                           *)

\* startJob: no live node to warm flips at once; otherwise a job replaces any
\* older one of the version and its timer is armed.
StartJob(p) ==
    /\ At(p, "start")
    /\ IF live = {}
       THEN Move(p, "activate") /\ UNCHANGED jobs
       ELSE jobs' = [jobs EXCEPT ![lane[p].v] = live] /\ Finish(p)
    /\ UNCHANGED <<store, fired, marker, start, live, lanes, dropped, spent>>

\* PrePullTargets fails after BeginDeploy: the row stays prepulling.
StartJobFails(p) ==
    /\ At(p, "start") /\ Spend /\ Finish(p)
    /\ UNCHANGED <<store, memory, start, live, lanes, dropped>>

\* A `pulled` report that is not the last only shrinks the pending set.
NodePulled(n, v) ==
    /\ boot = "up" /\ n \in jobs[v] /\ jobs[v] # {n}
    /\ jobs' = [jobs EXCEPT ![v] = @ \ {n}]
    /\ UNCHANGED <<store, fired, marker, start, live, lane, lanes, dropped, spent>>

\* The last `pulled` or the first `failed` report takes the job out of the map
\* and stops its timer; the store is called after the unlock.
HandlePullReport(p, n, v) ==
    /\ Free(p) /\ n \in jobs[v]
    /\ \/ jobs[v] = {n} /\ Goto(p, [Idle EXCEPT !.pc = "activate", !.v = v])
       \/ Goto(p, [Idle EXCEPT !.pc = "abort", !.v = v])
    /\ jobs' = [jobs EXCEPT ![v] = NoJob]
    /\ UNCHANGED <<store, fired, marker, start, live, lanes, dropped, spent>>

\* The timer of a job fires; a Stop that comes later does not take it back.
TimerFires(v) ==
    /\ boot = "up" /\ jobs[v] # NoJob /\ v \notin fired
    /\ fired' = fired \cup {v}
    /\ UNCHANGED <<store, jobs, marker, start, live, lane, lanes, dropped, spent>>

\* Mutant: the expired job is forgotten and its version never aborted.
Expire_ForgetsAbort(p, v) ==
    /\ Free(p) /\ v \in fired /\ fired' = fired \ {v}
    /\ jobs' = [jobs EXCEPT ![v] = NoJob]
    /\ UNCHANGED <<store, marker, start, live, lane, lanes, dropped, spent>>

\* expire looks its job up by version: whichever job is there now goes.
Expire(p, v) ==
    /\ Free(p) /\ v \in fired /\ fired' = fired \ {v}
    /\ jobs' = [jobs EXCEPT ![v] = NoJob]
    /\ IF jobs[v] = NoJob THEN UNCHANGED lane
       ELSE Goto(p, [Idle EXCEPT !.pc = "abort", !.v = v])
    /\ UNCHANGED <<store, marker, start, live, lanes, dropped, spent>>

\* AbortDeploy rolls the row back unless it left prepulling meanwhile; a store
\* error is logged.  Either way the chain runs.
Abort(p) ==
    LET v == lane[p].v IN
    /\ At(p, "abort") /\ ~Locked(p, v)
    /\ vstate' = IF vstate[v] = "prepulling"
                 THEN [vstate EXCEPT ![v] = "registered"] ELSE vstate
    /\ Move(p, "chain")
    /\ UNCHANGED <<fleet, hasFleet, attempted, memory, start, live, lanes, dropped, spent>>

AbortFails(p) ==
    /\ At(p, "abort") /\ Spend /\ Move(p, "chain")
    /\ UNCHANGED <<store, memory, start, live, lanes, dropped>>

-----------------------------------------------------------------------------
(* Flips.                                                                  *)

\* ActivateVersion locks its row and checks its state; `snap` is what its
\* demote statement finds.
ActivateBegin(p) ==
    LET v == lane[p].v IN
    /\ At(p, "activate") /\ ~Locked(p, v)
    /\ IF vstate[v] = FromState(p)
       THEN Goto(p, [lane[p] EXCEPT !.pc = "flipping", !.snap = Window!Demoted(v)])
       ELSE Finish(p)
    /\ UNCHANGED <<store, memory, start, live, lanes, dropped, spent>>

\* Mutant: the chain is not run after a flip.
AfterFlip_Nothing(p) == "idle"

\* A finished deploy runs the chain; a rollback does not.
AfterFlip(p) == IF lane[p].how = "rollback" THEN "idle" ELSE "chain"

\* The rows the demote statement found are rechecked, the supersede statement
\* has a snapshot of its own and waits for rows others hold.
ActivateCommit(p) ==
    LET v          == lane[p].v
        demoted    == {u \in lane[p].snap : vstate[u] \in {"active", "registered"}}
        superseded == Window!InState("deprecated") \ (demoted \cup {v})
    IN
    /\ At(p, "flipping") /\ \A u \in superseded : ~Locked(p, u)
    /\ vstate' = [u \in Versions |->
                    CASE u = v           -> "active"
                      [] u \in demoted    -> "deprecated"
                      [] u \in superseded -> "disabled"
                      [] OTHER            -> vstate[u]]
    /\ fleet' = v
    /\ Goto(p, [Idle EXCEPT !.pc = AfterFlip(p)])
    /\ UNCHANGED <<hasFleet, attempted, memory, start, live, lanes, dropped, spent>>

\* The flip fails after its job is gone: the row stays prepulling.
ActivateFails(p) ==
    /\ At(p, "flipping") /\ Spend /\ Finish(p)
    /\ UNCHANGED <<store, memory, start, live, lanes, dropped>>

-----------------------------------------------------------------------------
(* The forward-only chain.                                                 *)

\* TryAutoDeploy reads the marker under the mutex ...
Chain(p) ==
    /\ At(p, "chain") /\ dropped' = FALSE
    /\ Goto(p, [Idle EXCEPT !.pc = "lookup", !.seen = marker,
                            !.over = \E q \in lanes : At(q, "begun")])
    /\ UNCHANGED <<store, memory, start, live, lanes, spent>>

\* Mutant: the chain rolls the newest registered version, tried or not.
NewestRegisteredAfter_Any(seen) == Window!InState("registered")

\* ... then asks the store for the newest registered version after it.
NewestRegisteredAfter(seen) == {v \in Window!InState("registered") : v > seen}

TryAutoDeploy(p) ==
    LET newer == NewestRegisteredAfter(lane[p].seen) IN
    /\ At(p, "lookup")
    /\ IF newer = {} THEN Finish(p)
       ELSE Goto(p, [lane[p] EXCEPT !.pc = "begin", !.how = "auto", !.seen = 0,
                                    !.v = Max(newer)])
    /\ UNCHANGED <<store, memory, start, live, lanes, dropped, spent>>

\* A store error in the environment, the lookup or the count ends the chain:
\* it is logged and nothing runs the chain again for it.
ChainFails(p) ==
    /\ At(p, "chain") \/ At(p, "lookup")
    /\ Spend /\ Finish(p) /\ dropped' = TRUE
    /\ UNCHANGED <<store, memory, start, live, lanes>>

\* So does one in BeginDeploy; a manual deploy answers it to the operator.
BeginFails(p) ==
    /\ At(p, "begin") \/ At(p, "beginning")
    /\ Spend /\ Finish(p) /\ dropped' = (dropped \/ lane[p].how = "auto")
    /\ UNCHANGED <<store, memory, start, live, lanes>>

-----------------------------------------------------------------------------
(* Where goroutines come from.                                             *)

\* POST /v1/versions: the row, then the chain.
Register(p) ==
    LET v == Cardinality(Versions \ Window!InState("none")) + 1 IN
    /\ Free(p) /\ v \in Versions /\ Window!CreateVersion(v)
    /\ Goto(p, [Idle EXCEPT !.pc = "chain"])
    /\ UNCHANGED <<hasFleet, attempted, memory, start, live, lanes, dropped, spent>>

\* The environment's first fleet unblocks its chain.
CreateFleet(p) ==
    /\ Free(p) /\ ~hasFleet /\ hasFleet' = TRUE
    /\ Goto(p, [Idle EXCEPT !.pc = "chain"])
    /\ UNCHANGED <<vstate, fleet, attempted, memory, start, live, lanes, dropped, spent>>

Deploy(p, v) ==
    /\ Free(p) /\ vstate[v] # "none" /\ Spend
    /\ Goto(p, [Idle EXCEPT !.pc = "begin", !.v = v])
    /\ UNCHANGED <<store, memory, start, live, lanes, dropped>>

\* Rollback reads its target, then flips to it without a prepull.
Rollback(p, v) ==
    /\ Free(p) /\ vstate[v] = "deprecated" /\ Spend
    /\ Goto(p, [Idle EXCEPT !.pc = "activate", !.v = v, !.how = "rollback"])
    /\ UNCHANGED <<store, memory, start, live, lanes, dropped>>

\* SweepOrphans: a prepulling row without a job, looked at once more; it does
\* not run the chain ...
SweepOrphans(p, v) ==
    /\ Free(p) /\ vstate[v] = "prepulling" /\ jobs[v] = NoJob
    /\ Goto(p, [Idle EXCEPT !.pc = "sweep", !.v = v])
    /\ UNCHANGED <<store, memory, start, live, lanes, dropped, spent>>

\* ... and re-armed if it is still prepulling.
SweepRecheck(p) ==
    /\ At(p, "sweep")
    /\ IF vstate[lane[p].v] = "prepulling" THEN Move(p, "start") ELSE Finish(p)
    /\ UNCHANGED <<store, memory, start, live, lanes, dropped, spent>>

\* Heartbeats come and go.
NodesChange(n) ==
    /\ Spend
    /\ live' = IF n \in live THEN live \ {n} ELSE live \cup {n}
    /\ UNCHANGED <<store, memory, start, lane, lanes, dropped>>

-----------------------------------------------------------------------------
(* Crash and Resume.                                                       *)

Crash ==
    /\ boot # "down" /\ Spend
    /\ boot' = "down" /\ rearm' = {}
    /\ jobs' = [v \in Versions |-> NoJob] /\ fired' = {} /\ marker' = 0
    /\ lane' = [p \in lanes |-> Idle]
    /\ UNCHANGED <<store, live, lanes, dropped>>

\* Mutant: the marker is rebuilt from the versions that left registered.
Resumed_ByState == {v \in Versions : vstate[v] \notin {"none", "registered"}}

\* NewestAttemptedMarker looks at the deploy_started events.
Resumed == attempted

\* Phase A: the marker, before any job is re-armed.
Resume ==
    /\ boot = "down" /\ boot' = "rearm"
    /\ marker' = Max(Resumed \cup {0})
    /\ rearm' = Window!InState("prepulling")
    /\ UNCHANGED <<store, jobs, fired, live, lane, lanes, dropped, spent>>

\* Phase B, one version after the other; errors are logged by startJob.
ResumeRearm(v) ==
    /\ boot = "rearm" /\ v \in rearm /\ At(First, "idle")
    /\ rearm' = rearm \ {v}
    /\ Goto(First, [Idle EXCEPT !.pc = "start", !.v = v])
    /\ UNCHANGED <<store, memory, boot, live, lanes, dropped, spent>>

\* Phase C: the chain, then the master serves.
ResumeKick ==
    /\ boot = "rearm" /\ rearm = {} /\ At(First, "idle")
    /\ boot' = "kick" /\ Goto(First, [Idle EXCEPT !.pc = "chain"])
    /\ UNCHANGED <<store, memory, rearm, live, lanes, dropped, spent>>

Serve ==
    /\ boot = "kick" /\ At(First, "idle") /\ boot' = "up"
    /\ UNCHANGED <<store, memory, rearm, live, lane, lanes, dropped, spent>>

-----------------------------------------------------------------------------
LaneStep(p) ==
    \/ BeginDeploy(p) \/ BeginCommit(p) \/ RecordAttempt(p) \/ StartJob(p)
    \/ Abort(p) \/ ActivateBegin(p) \/ ActivateCommit(p)
    \/ Chain(p) \/ TryAutoDeploy(p) \/ SweepRecheck(p)

LaneFails(p) ==
    \/ ChainFails(p) \/ BeginFails(p)
    \/ StartJobFails(p) \/ AbortFails(p) \/ ActivateFails(p)

Boot == Resume \/ ResumeKick \/ Serve \/ \E v \in Versions : ResumeRearm(v)

Next ==
    \/ \E p \in AllLanes :
        \/ LaneStep(p) \/ LaneFails(p) \/ Register(p) \/ CreateFleet(p)
        \/ \E v \in Versions :
            \/ Deploy(p, v) \/ Rollback(p, v) \/ SweepOrphans(p, v) \/ Expire(p, v)
            \/ \E n \in Nodes : HandlePullReport(p, n, v)
    \/ \E v \in Versions : TimerFires(v) \/ \E n \in Nodes : NodePulled(n, v)
    \/ \E n \in Nodes : NodesChange(n)
    \/ Boot \/ Crash

Spec == Init /\ [][Next]_vars

\* What the master does by itself: goroutines that run go on, timers fire, a
\* fired timer and the sweep of every reconcile pass get a goroutine, a dead
\* master is restarted.
Progress ==
    \/ \E p \in AllLanes :
        \/ LaneStep(p)
        \/ \E v \in Versions : SweepOrphans(p, v) \/ Expire(p, v)
    \/ \E v \in Versions : TimerFires(v)
    \/ Boot

\* Nothing is assumed of agents, operators and nodes.
FairSpec == Spec /\ WF_vars(Progress)

-----------------------------------------------------------------------------
(* Properties.                                                             *)

\* No deploy hangs: whatever reports, timers, store errors and crashes do, a
\* prepulling version is activated or rolled back in the end.
PrepullEnds ==
    \A v \in Versions :
        vstate[v] = "prepulling" ~> vstate[v] # "prepulling"

\* Only a store error loses a wakeup of the chain: once there is a fleet, the
\* newest registered build is tried, also when it was queued behind a deploy
\* that was just finishing or behind a crash, unless the last chain was ended by
\* a store error.  Then the build waits for the next registration, fleet, deploy
\* end or restart: the sweep re-arms prepulling rows only.
NewestIsTried ==
    (vstate[Newest] = "registered" /\ hasFleet)
        ~> (Newest \in attempted \/ dropped)

\* The forward-only memory outlives crashes: while the master serves, every
\* attempt is behind the marker or is just being recorded.
MarkerCoversAttempts ==
    boot = "up" =>
        \A u \in attempted :
            u <= marker \/ \E q \in lanes : At(q, "begun") /\ lane[q].v = u

\* "a failed build is never auto-retried and the chain never goes backwards":
\* true of every automatic deploy that no other one overtook between its look
\* at the marker and its BeginDeploy.
AutoStartsForward ==
    [][\A p \in lanes :
        (/\ At(p, "beginning") /\ lane'[p].pc = "begun"
         /\ lane[p].how = "auto" /\ ~lane[p].over)
        => \A u \in attempted : u < lane[p].v]_vars

\* One goroutine at a time, the manager drives the version window by its own
\* transactions only, crashes and store errors included.
SerialImplementsWindow ==
    [][Cardinality(lanes) = 1 => Window!Next \/ UNCHANGED tables]_vars

\* "Only one version per (project, env) may be prepulling" (BeginDeploy).
OnePrepulling == Window!OnePrepulling
=============================================================================
