----------------------------- MODULE FleetStore -----------------------------
(***************************************************************************)
(* The servers, nodes and matches tables of one (project, env, region) and *)
(* every store transaction that moves them: allocation claims, agent       *)
(* heartbeats and Hellos, server events, the lease pass, the reconcile     *)
(* pass (PlanFleet) and the operator's node commands.                      *)
(*                                                                         *)
(* Postgres runs these under READ COMMITTED, so what matters is kept: a    *)
(* transaction's writes are invisible and its rows locked until it         *)
(* commits, every statement sees the rows committed when it starts, and an *)
(* UPDATE that waited for a row lock rechecks only its own target row.     *)
(* Claims, agent reports, the lease's fail statement and PlanFleet take    *)
(* several steps here; every other transaction is one.                     *)
(*                                                                         *)
(* Time is the age of a node's last heartbeat: 0 fresh (10s), 1 stale,     *)
(* 2 silent (30s), 3 long silent (node_down_after_min).  ORDER BY          *)
(* created_at with LIMIT k is any k rows.  Wording of events, ports,       *)
(* players and image references are left out.                              *)
(***************************************************************************)
EXTENDS Integers, Sequences, FiniteSetsExt

CONSTANTS
    Servers, Nodes, Versions, Matches, Requests,
    NoServer, NoNode, NoVersion, NoMatch,
    MatchOf,         \* Requests -> Matches: the match_id a request names
    Durable,         \* requests made by the durable matchmaker, not by REST
    BufferReady, MaxServers, Capacity,    \* fleet_configs, capacity_slots
    PausedChoices,   \* node sets a crash-loop pause may name in a pass
    Reports,         \* states agents report (servers.state vocabulary)
    Inputs,          \* which of AllInputs the run lets in
    MaxAge,          \* bound: the oldest heartbeat age considered
    MaxVersionOps,   \* bound: version transactions in a behaviour
    WarmNode, WarmVersion, WarmWindow, WarmFleet   \* the fleet at the start

AllInputs ==
    {"reconcile", "lease", "crash", "heartbeat", "hello", "failed", "ready",
     "match_start", "match_end", "stuck", "drain", "undrain", "revoke"}

ServerStates ==
    {"none", "creating", "ready", "allocated", "draining", "failed", "reaped"}
NodeStates   == {"active", "draining", "quarantine", "down", "dead"}
MatchStates  == {"none", "pending", "running", "finished", "aborted"}
AgentStates  == ServerStates \ {"none"}
Live         == {"creating", "ready", "allocated", "draining"}
Serving      == {"ready", "allocated", "draining"}    \* liveState
OpenMatch    == {"pending", "running"}
PlanPcs      == {"idle", "window", "nodes", "nodesLock", "evict", "version",
                 "fill", "surplusLock", "outside", "outsideLock", "live",
                 "commit"}
LeasePcs     == {"idle", "fail", "failing", "abort", "down"}
RequestPcs   == {"new", "missed", "claimed", "done"}

ASSUME FleetAssumption ==
    /\ NoServer \notin Servers /\ NoNode \notin Nodes
    /\ NoVersion \notin Versions /\ NoMatch \notin Matches
    /\ MatchOf \in [Requests -> Matches] /\ Durable \subseteq Requests
    /\ \A r \in Durable, q \in Requests : MatchOf[r] = MatchOf[q] => r = q
    /\ BufferReady \in Nat /\ MaxServers \in Nat /\ Capacity \in [Nodes -> Nat]
    /\ PausedChoices \subseteq SUBSET Nodes
    /\ Reports \subseteq AgentStates /\ Inputs \subseteq AllInputs
    /\ MaxAge \in 0..3 /\ MaxVersionOps \in Nat
    /\ IsFiniteSet(Servers) /\ IsFiniteSet(Nodes)

VARIABLES
    sstate, snode, sver, smatch,   \* servers: state, node_id, version_id, match_id
    revived,                       \* servers with a server_recovered event
    nstate, age,                   \* nodes: state, age of last_heartbeat_at
    mstate, ended,                 \* matches: state; those a match_end closed
    vstate, fleet, vops,           \* versions and the active pointer; bound
    req,                           \* allocation requests: progress and server
    touched, held,                 \* open report transactions: node, row locks
    lease,                         \* the lease pass
    plan                           \* the reconcile pass and its transaction

serverVars == <<sstate, snode, sver, smatch, revived>>
nodeVars   == <<nstate, age>>
matchVars  == <<mstate, ended>>
windowVars == <<vstate, fleet, vops>>
reportVars == <<touched, held>>
vars == <<serverVars, nodeVars, matchVars, windowVars, req, reportVars,
          lease, plan>>

Window == INSTANCE VersionWindow WITH Features <- {"override"}

ASSUME WarmAssumption ==
    /\ WarmNode \in [Servers -> Nodes \cup {NoNode}]
    /\ WarmVersion \in [Servers -> Versions \cup {NoVersion}]
    /\ WarmWindow \in [Versions -> Window!VersionStates]
    /\ WarmFleet \in Versions \cup {NoVersion}

RequestType == [pc : RequestPcs, row : Servers \cup {NoServer}]

PlanType ==
    [pc : PlanPcs, act : Versions \cup {NoVersion}, dep : Versions \cup {NoVersion},
     pausedAct : SUBSET Nodes, pausedDep : SUBSET Nodes,
     cand : SUBSET Servers, stops : SUBSET Servers, evicted : SUBSET Servers,
     drains : SUBSET Servers, ins : SUBSET Servers,
     total : Int, todo : Seq(Versions \cup {NoVersion}), left : Int, surplus : Int]

IdlePlan ==
    [pc |-> "idle", act |-> NoVersion, dep |-> NoVersion,
     pausedAct |-> {}, pausedDep |-> {}, cand |-> {},
     stops |-> {}, evicted |-> {}, drains |-> {}, ins |-> {},
     total |-> 0, todo |-> <<>>, left |-> 0, surplus |-> 0]

IdleLease == [pc |-> "idle", hit |-> {}]

\* The columns hold what the check constraints allow, and a
\* row exists exactly when it is placed on a node with a version.
TypeOK ==
    /\ sstate \in [Servers -> ServerStates]
    /\ snode \in [Servers -> Nodes \cup {NoNode}]
    /\ sver \in [Servers -> Versions \cup {NoVersion}]
    /\ smatch \in [Servers -> Matches \cup {NoMatch}]
    /\ revived \subseteq Servers
    /\ nstate \in [Nodes -> NodeStates]
    /\ age \in [Nodes -> 0..3]
    /\ mstate \in [Matches -> MatchStates]
    /\ ended \subseteq Matches
    /\ vstate \in [Versions -> Window!VersionStates]
    /\ fleet \in Versions \cup {NoVersion}
    /\ vops \in Nat
    /\ req \in [Requests -> RequestType]
    /\ touched \subseteq Nodes
    /\ held \in [Nodes -> SUBSET Servers]
    /\ lease \in [pc : LeasePcs, hit : SUBSET Servers]
    /\ plan \in PlanType
    /\ \A s \in Servers :
        (snode[s] = NoNode) <=> (sstate[s] = "none" /\ s \notin plan.ins)

Init ==
    /\ sstate = [s \in Servers |-> IF WarmNode[s] = NoNode THEN "none" ELSE "ready"]
    /\ snode = WarmNode
    /\ sver = WarmVersion
    /\ smatch = [s \in Servers |-> NoMatch]
    /\ revived = {}
    /\ nstate = [n \in Nodes |-> "active"]
    /\ age = [n \in Nodes |-> 0]
    /\ mstate = [m \in Matches |-> "none"]
    /\ ended = {}
    /\ vstate = WarmWindow /\ fleet = WarmFleet /\ vops = 0
    /\ req = [r \in Requests |-> [pc |-> "new", row |-> NoServer]]
    /\ touched = {} /\ held = [n \in Nodes |-> {}]
    /\ lease = IdleLease
    /\ plan = IdlePlan

-----------------------------------------------------------------------------
(* Row locks.                                                              *)

Claimed == {req[r].row : r \in {q \in Requests : req[q].pc = "claimed"}}

PlanLocked == plan.stops \cup plan.drains

ReportLocked == UNION {held[n] : n \in Nodes}

Locked == Claimed \cup PlanLocked \cup ReportLocked

\* The nodes row can be taken FOR UPDATE: no report transaction has written
\* it and no uncommitted servers row references it.
NodeFree(n) == n \notin touched /\ \A s \in plan.ins : snode[s] # n

RowsOn(n) == {s \in Servers : sstate[s] # "none" /\ snode[s] = n}

-----------------------------------------------------------------------------
(* Allocation: Store.Allocate (REST) and MatchmakingTx.Allocate (durable). *)

HolderOf(m) == {s \in Servers : sstate[s] # "none" /\ smatch[s] = m}

Claimable ==
    {s \in Servers \ Locked :
        sstate[s] = "ready" /\ nstate[snode[s]] = "active" /\ age[snode[s]] = 0}

AllocUnchanged ==
    UNCHANGED <<snode, sver, revived, nodeVars, ended, windowVars, reportVars,
                lease, plan>>

\* findByMatch, the fast path; the matchmaker mints a fresh id and skips it.
LookUp(r) ==
    /\ req[r].pc = "new"
    /\ IF r \in Durable \/ HolderOf(MatchOf[r]) = {}
       THEN req' = [req EXCEPT ![r].pc = "missed"]
       ELSE \E s \in HolderOf(MatchOf[r]) :
                req' = [req EXCEPT ![r] = [pc |-> "done", row |-> s]]
    /\ UNCHANGED <<sstate, smatch, mstate>> /\ AllocUnchanged

\* The claim statement: FOR UPDATE SKIP LOCKED takes a ready row; its update
\* is invisible until the commit.  No row is ErrNoCapacity: ask again.
Claim(r) ==
    /\ req[r].pc = "missed"
    /\ \/ \E s \in Claimable :
            req' = [req EXCEPT ![r] = [pc |-> "claimed", row |-> s]]
       \/ Claimable = {} /\ req' = [req EXCEPT ![r].pc = "new"]
    /\ UNCHANGED <<sstate, smatch, mstate>> /\ AllocUnchanged

\* Mutant: match_id is not unique.
ClaimCommit_NotUnique(r) ==
    /\ req[r].pc = "claimed"
    /\ sstate' = [sstate EXCEPT ![req[r].row] = "allocated"]
    /\ smatch' = [smatch EXCEPT ![req[r].row] = MatchOf[r]]
    /\ req' = [req EXCEPT ![r].pc = "done"]
    /\ UNCHANGED mstate /\ AllocUnchanged

\* The commit, when the unique index on match_id lets it pass; the durable
\* claim carries the match row with it.
ClaimCommit(r) ==
    LET s == req[r].row  m == MatchOf[r] IN
    /\ req[r].pc = "claimed"
    /\ HolderOf(m) \subseteq {s}
    /\ sstate' = [sstate EXCEPT ![s] = "allocated"]
    /\ smatch' = [smatch EXCEPT ![s] = m]
    /\ mstate' = IF r \in Durable THEN [mstate EXCEPT ![m] = "pending"] ELSE mstate
    /\ req' = [req EXCEPT ![r].pc = "done"]
    /\ AllocUnchanged

\* Mutant: the loser answers with the row it failed to claim.
ClaimLost_KeepsRow(r) ==
    /\ req[r].pc = "claimed"
    /\ HolderOf(MatchOf[r]) \ {req[r].row} # {}
    /\ req' = [req EXCEPT ![r].pc = "done"]
    /\ UNCHANGED <<sstate, smatch, mstate>> /\ AllocUnchanged

\* 23505: another request of the same match committed first; its server is
\* looked up and returned.
ClaimLost(r) ==
    /\ req[r].pc = "claimed"
    /\ \E s \in HolderOf(MatchOf[r]) \ {req[r].row} :
            req' = [req EXCEPT ![r] = [pc |-> "done", row |-> s]]
    /\ UNCHANGED <<sstate, smatch, mstate>> /\ AllocUnchanged

-----------------------------------------------------------------------------
(* Agent reports: ApplyHeartbeat and HelloSync, one transaction each.  It  *)
(* writes the node row, locks the reported rows, and commits.              *)

\* transitionAllowed: terminal states stick, an allocation is not downgraded.
TransitionAllowed(cur, next) ==
    /\ cur # next /\ cur \notin {"failed", "reaped"}
    /\ CASE next \in {"failed", "reaped"} -> TRUE
         [] next = "ready"     -> cur = "creating"
         [] next = "allocated" -> cur \in {"creating", "ready"}
         [] next = "draining"  -> cur \in {"creating", "ready", "allocated"}
         [] OTHER              -> FALSE

ReportBegin(n, rows) ==
    /\ Inputs \cap {"heartbeat", "hello"} # {}
    /\ nstate[n] # "dead" /\ n \notin touched
    /\ rows \subseteq RowsOn(n) \ Locked
    /\ touched' = touched \cup {n}
    /\ held' = [held EXCEPT ![n] = rows]
    /\ UNCHANGED <<serverVars, nodeVars, matchVars, windowVars, req, lease, plan>>

\* Mutant: a match that has not started yet is left open.
Aborted_RunningOnly(failed) ==
    [m \in Matches |->
        IF mstate[m] = "running" /\ \E s \in failed : smatch[s] = m
        THEN "aborted" ELSE mstate[m]]

\* Open matches of the given servers are closed as aborted (abortServerMatch).
Aborted(failed) ==
    [m \in Matches |->
        IF mstate[m] \in OpenMatch /\ \E s \in failed : smatch[s] = m
        THEN "aborted" ELSE mstate[m]]

\* The branch of applyReports that writes server_recovered.
Resurrected(s, rep, resurrect) ==
    /\ ~TransitionAllowed(sstate[s], rep[s]) /\ resurrect
    /\ sstate[s] = "failed" /\ rep[s] \in Serving

\* What a reported row becomes.
Reconciled(s, rep, resurrect) ==
    IF TransitionAllowed(sstate[s], rep[s]) \/ Resurrected(s, rep, resurrect)
    THEN rep[s] ELSE sstate[s]

\* applyReports and the node touch; a draining row of the node that the agent
\* does not report any more is reaped.
ReportCommit(n, rep, resurrect) ==
    LET rows   == held[n]
        back   == {s \in rows : Resurrected(s, rep, resurrect)}
        lost   == {s \in rows : sstate[s] # "failed"
                                /\ Reconciled(s, rep, resurrect) = "failed"}
        reopen == {smatch[s] : s \in {t \in back : rep[t] = "allocated"}}
    IN
    /\ n \in touched
    /\ \A s \in PlanLocked : snode[s] = n => sstate[s] # "draining"
    /\ nstate' = IF nstate[n] \in {"quarantine", "down"}
                 THEN [nstate EXCEPT ![n] = "active"] ELSE nstate
    /\ age' = [age EXCEPT ![n] = 0]
    /\ sstate' = [s \in Servers |->
                    IF s \in rows THEN Reconciled(s, rep, resurrect)
                    ELSE IF snode[s] = n /\ sstate[s] = "draining" THEN "reaped"
                    ELSE sstate[s]]
    /\ revived' = revived \cup back
    /\ mstate' = [m \in Matches |->
                    IF m \in reopen /\ mstate[m] = "aborted" THEN "running"
                    ELSE Aborted(lost)[m]]
    /\ touched' = touched \ {n}
    /\ held' = [held EXCEPT ![n] = {}]
    /\ UNCHANGED <<snode, sver, smatch, ended, windowVars, req, lease, plan>>

\* Mutant: a heartbeat reconciles the map like a Hello.
ApplyHeartbeat_Resurrects(n) ==
    /\ "heartbeat" \in Inputs
    /\ \E rep \in [held[n] -> Reports] : ReportCommit(n, rep, TRUE)

ApplyHeartbeat(n) ==
    /\ "heartbeat" \in Inputs
    /\ \E rep \in [held[n] -> Reports] : ReportCommit(n, rep, FALSE)

HelloSync(n) ==
    /\ "hello" \in Inputs
    /\ \E rep \in [held[n] -> Reports] : ReportCommit(n, rep, TRUE)

-----------------------------------------------------------------------------
(* ApplyServerEvent: ServerEvents of an agent, one transaction each.       *)

EventRow(kind, s) ==
    kind \in Inputs /\ sstate[s] # "none" /\ s \notin Locked

EventUnchanged ==
    UNCHANGED <<snode, sver, smatch, revived, nodeVars, windowVars, req,
                reportVars, lease, plan>>

\* "failed" and "oom".
ServerFailedEvent(s) ==
    /\ EventRow("failed", s)
    /\ TransitionAllowed(sstate[s], "failed")
    /\ sstate' = [sstate EXCEPT ![s] = "failed"]
    /\ mstate' = Aborted({s})
    /\ UNCHANGED ended /\ EventUnchanged

ServerReadyEvent(s) ==
    /\ EventRow("ready", s)
    /\ TransitionAllowed(sstate[s], "ready")
    /\ sstate' = [sstate EXCEPT ![s] = "ready"]
    /\ UNCHANGED matchVars /\ EventUnchanged

\* Mutant: the upsert forgets its WHERE matches.state = 'pending'.
MatchStart_AnyState(s) ==
    /\ EventRow("match_start", s)
    /\ smatch[s] # NoMatch
    /\ mstate' = [mstate EXCEPT ![smatch[s]] = "running"]
    /\ UNCHANGED <<sstate, ended>> /\ EventUnchanged

\* Upsert: a pending match starts, a match REST allocated gets its row here.
MatchStart(s) ==
    /\ EventRow("match_start", s)
    /\ smatch[s] # NoMatch /\ mstate[smatch[s]] \in {"none", "pending"}
    /\ mstate' = [mstate EXCEPT ![smatch[s]] = "running"]
    /\ UNCHANGED <<sstate, ended>> /\ EventUnchanged

MatchEnd(s, result) ==
    /\ EventRow("match_end", s)
    /\ smatch[s] # NoMatch /\ mstate[smatch[s]] \in OpenMatch
    /\ mstate' = [mstate EXCEPT ![smatch[s]] = result]
    /\ ended' = ended \cup {smatch[s]}
    /\ UNCHANGED sstate /\ EventUnchanged

-----------------------------------------------------------------------------
(* The lease pass (LeaseChecker.RunOnce) and the silence it watches.       *)

\* A heartbeat does not come.  Past 10s a store transaction or a lease pass in
\* flight is over long before the next threshold, 20s or minutes away.
Tick(n) ==
    /\ age[n] < MaxAge /\ n \notin touched
    /\ age[n] > 0 => lease = IdleLease /\ plan = IdlePlan /\ Claimed = {}
    /\ age' = [age EXCEPT ![n] = @ + 1]
    /\ UNCHANGED <<serverVars, nstate, matchVars, windowVars, req, reportVars,
                   lease, plan>>

\* Nodes a lease statement moves from one state to the next.
SilentNodes(st, min) ==
    {n \in Nodes : nstate[n] = st /\ age[n] >= min}

MoveNodes(from, min, to) ==
    /\ SilentNodes(from, min) \cap touched = {}
    /\ nstate' = [n \in Nodes |->
                    IF n \in SilentNodes(from, min) THEN to ELSE nstate[n]]

\* Mutant: nodes are marked down before their servers are failed.
QuarantineStaleNodes_ThenDown ==
    /\ "lease" \in Inputs /\ lease.pc = "idle"
    /\ MoveNodes("active", 1, "quarantine")
    /\ lease' = [IdleLease EXCEPT !.pc = "down"]
    /\ UNCHANGED <<serverVars, age, matchVars, windowVars, req, reportVars, plan>>

QuarantineStaleNodes ==
    /\ "lease" \in Inputs /\ lease.pc = "idle"
    /\ MoveNodes("active", 1, "quarantine")
    /\ lease' = [IdleLease EXCEPT !.pc = "fail"]
    /\ UNCHANGED <<serverVars, age, matchVars, windowVars, req, reportVars, plan>>

\* Mutant: draining servers of a lost node are overlooked.
FailQuarantinedSelect_NotDraining ==
    /\ lease.pc = "fail"
    /\ lease' = [pc |-> "failing",
                 hit |-> {s \in Servers : sstate[s] \in Live \ {"draining"}
                            /\ snode[s] \in SilentNodes("quarantine", 2)}]
    /\ UNCHANGED <<serverVars, nodeVars, matchVars, windowVars, req,
                   reportVars, plan>>

\* UPDATE servers FROM nodes: the statement's snapshot picks the rows ...
FailQuarantinedSelect ==
    /\ lease.pc = "fail"
    /\ lease' = [pc |-> "failing",
                 hit |-> {s \in Servers : sstate[s] \in Live
                            /\ snode[s] \in SilentNodes("quarantine", 2)}]
    /\ UNCHANGED <<serverVars, nodeVars, matchVars, windowVars, req,
                   reportVars, plan>>

\* ... and once their locks are had only the servers row is looked at again.
FailQuarantinedServers ==
    LET failed == {s \in lease.hit : sstate[s] \in Live} IN
    /\ lease.pc = "failing" /\ lease.hit \cap Locked = {}
    /\ sstate' = [s \in Servers |-> IF s \in failed THEN "failed" ELSE sstate[s]]
    /\ lease' = [pc |-> "abort", hit |-> failed]
    /\ UNCHANGED <<snode, sver, smatch, revived, nodeVars, matchVars,
                   windowVars, req, reportVars, plan>>

\* Their matches are closed by statements of their own, after the commit.
AbortLostMatches ==
    /\ lease.pc = "abort"
    /\ mstate' = Aborted(lease.hit)
    /\ lease' = [pc |-> "down", hit |-> {}]
    /\ UNCHANGED <<serverVars, nodeVars, ended, windowVars, req, reportVars, plan>>

MarkDownNodes ==
    /\ lease.pc = "down"
    /\ MoveNodes("quarantine", 3, "down")
    /\ lease' = IdleLease
    /\ UNCHANGED <<serverVars, age, matchVars, windowVars, req, reportVars, plan>>

-----------------------------------------------------------------------------
(* Operator commands on a node.                                            *)

NodeUnchanged ==
    UNCHANGED <<serverVars, age, matchVars, windowVars, req, reportVars,
                lease, plan>>

DrainNode(n) ==
    /\ "drain" \in Inputs /\ NodeFree(n)
    /\ nstate[n] \notin {"dead", "draining"}
    /\ nstate' = [nstate EXCEPT ![n] = "draining"]
    /\ NodeUnchanged

UndrainNode(n) ==
    /\ "undrain" \in Inputs /\ NodeFree(n) /\ nstate[n] = "draining"
    /\ nstate' = [nstate EXCEPT ![n] = "active"]
    /\ NodeUnchanged

RevokeNode(n) ==
    /\ "revoke" \in Inputs /\ NodeFree(n) /\ nstate[n] # "dead"
    /\ \A s \in RowsOn(n) : sstate[s] \notin Live
    /\ nstate' = [nstate EXCEPT ![n] = "dead"]
    /\ NodeUnchanged

-----------------------------------------------------------------------------
(* The reconcile pass over the fleet: Reconciler.RunOnce, reconcileFleet   *)
(* and PlanFleet.  The plan record is what the pass has read and what its  *)
(* open transaction has written: stops and drains are rows it has set to   *)
(* draining (evicted: those stopDeprecated took), ins the rows it has      *)
(* inserted.                                                               *)

PlanUnchanged ==
    UNCHANGED <<sstate, smatch, revived, nodeVars, matchVars, windowVars, req,
                reportVars, lease>>

\* FailStuckCreating: rows nothing has touched for the start timeout.
FailStuckCreating(stuck) ==
    /\ "stuck" \in Inputs /\ plan.pc = "idle"
    /\ stuck # {} /\ stuck \cap Locked = {}
    /\ \A s \in stuck : sstate[s] = "creating"
    /\ sstate' = [s \in Servers |-> IF s \in stuck THEN "failed" ELSE sstate[s]]
    /\ UNCHANGED <<snode, sver, smatch, revived, nodeVars, matchVars,
                   windowVars, req, reportVars, lease, plan>>

\* ListFleetConfigs: the pass works with the active version of this moment.
ListFleet ==
    /\ "reconcile" \in Inputs /\ plan.pc = "idle" /\ fleet # NoVersion
    /\ plan' = [IdlePlan EXCEPT !.pc = "window", !.act = fleet]
    /\ UNCHANGED <<snode, sver>> /\ PlanUnchanged

Deprecated == {v \in Versions : vstate[v] = "deprecated"}

\* DeprecatedWindowVersion and the crash-loop pauses, read one after another.
ReadWindow ==
    /\ plan.pc = "window"
    /\ \E dep \in IF Deprecated = {} THEN {NoVersion} ELSE Deprecated,
          pa, pd \in PausedChoices :
         plan' = [plan EXCEPT !.pc = "nodes", !.pausedAct = pa,
                    !.dep = IF dep = plan.act THEN NoVersion ELSE dep,
                    !.pausedDep = IF dep \in {plan.act, NoVersion} THEN {} ELSE pd]
    /\ UNCHANGED <<snode, sver>> /\ PlanUnchanged

\* A row as the pass's own transaction sees it.
View(s) ==
    IF s \in PlanLocked THEN "draining"
    ELSE IF s \in plan.ins THEN "creating" ELSE sstate[s]

Viewed(states) == {s \in Servers : View(s) \in states}

OfVersion(v) == {s \in Servers : sver[s] = v}

\* UPDATE .. WHERE id IN (SELECT ready rows ..): the subselect's snapshot.
SelectStops(rows, locking, next) ==
    plan' = [plan EXCEPT !.cand = rows, !.pc = IF rows = {} THEN next ELSE locking]

\* The update itself, when every row's lock is had.  The rows are not looked
\* at again: the recheck after a lock wait is of id, not of the subselect.
TakeStops(locking, next) ==
    /\ plan.pc = locking
    /\ plan.cand \cap (Claimed \cup ReportLocked) = {}
    /\ plan' = [plan EXCEPT !.pc = next, !.cand = {}, !.stops = @ \cup plan.cand]
    /\ UNCHANGED <<snode, sver>> /\ PlanUnchanged

\* Ready servers of nodes leaving the fleet.
StopOnLeavingNodes ==
    /\ plan.pc = "nodes"
    /\ SelectStops({s \in Viewed({"ready"}) : nstate[snode[s]] # "active"},
                   "nodesLock", "evict")
    /\ UNCHANGED <<snode, sver>> /\ PlanUnchanged

TakeOnLeavingNodes == TakeStops("nodesLock", "evict")

SmallerOf(a, b) == IF a < b THEN a ELSE b
AtLeast0(a) == IF a < 0 THEN 0 ELSE a

\* ORDER BY created_at LIMIT k.
AnyOf(S, k) ==
    IF k <= 0 THEN {{}} ELSE kSubset(SmallerOf(k, Cardinality(S)), S)

\* Mutant: the crash-loop pause is ignored.
Placeable_NotPaused(paused) == {n \in Nodes : nstate[n] = "active" /\ age[n] = 0}

Placeable(paused) == {n \in Nodes \ paused : nstate[n] = "active" /\ age[n] = 0}

UsedBy(n, states) == Cardinality({s \in Viewed(states) : snode[s] = n})

\* The slots the nodes will have free once the stops already sent are through.
RoomAfterDrain(nodes) ==
    Cardinality(UNION {{n} \X (1..(Capacity[n] - UsedBy(n, Live \ {"draining"})))
                       : n \in nodes})

ActiveWarm == Cardinality(Viewed({"creating", "ready"}) \cap OfVersion(plan.act))

\* Mutant: the subselect neither locks nor skips locked rows.
Evictable_NotLocking(eligibleOnly) ==
    {s \in Viewed({"ready"}) \cap OfVersion(plan.dep) :
        /\ smatch[s] = NoMatch
        /\ snode[s] \in Placeable(IF eligibleOnly THEN plan.pausedAct ELSE {})}

\* stopDeprecated's subselect: FOR UPDATE SKIP LOCKED, so never a row that is
\* being claimed or reported.
Evictable(eligibleOnly) ==
    {s \in Viewed({"ready"}) \cap OfVersion(plan.dep) :
        /\ smatch[s] = NoMatch /\ s \notin Claimed \cup ReportLocked
        /\ snode[s] \in Placeable(IF eligibleOnly THEN plan.pausedAct ELSE {})}

Missing == BufferReady - ActiveWarm

Occupied == Cardinality(Viewed(Live \ {"draining"}))

NodeRoom == RoomAfterDrain(Placeable(plan.pausedAct))

\* Missing active servers that fleet and node room cannot take.
Blocked ==
    IF plan.dep = NoVersion \/ Missing <= 0 THEN 0
    ELSE AtLeast0(Missing - AtLeast0(SmallerOf(MaxServers - Occupied, NodeRoom)))

\* Fleet slots still lacking for what the eligible nodes can replace: paused
\* nodes' rows may go for them.
StillNeeded(freed) ==
    IF Blocked = 0 THEN 0
    ELSE SmallerOf(Missing, NodeRoom + freed) - AtLeast0(MaxServers - Occupied + freed)

\* The counts, and the two stopDeprecated calls they ask for.
EvictDeprecated ==
    /\ plan.pc = "evict"
    /\ \E first \in AnyOf(Evictable(TRUE), Blocked) :
       \E more \in AnyOf(Evictable(FALSE) \ first, StillNeeded(Cardinality(first))) :
         plan' = [plan EXCEPT !.pc = "version",
                    !.total = Cardinality(Viewed(Live)),
                    !.stops = @ \cup first \cup more, !.evicted = first \cup more,
                    !.todo = IF plan.dep = NoVersion THEN <<plan.act>>
                             ELSE <<plan.act, plan.dep>>]
    /\ UNCHANGED <<snode, sver>> /\ PlanUnchanged

DeprecatedBuffer == SmallerOf(2, BufferReady)
BufferOf(v) == IF v = plan.act THEN BufferReady ELSE DeprecatedBuffer

\* Mutant: the deficit is not capped by the room left under max_servers.
CountVersion_NoRoom ==
    /\ plan.pc = "version" /\ plan.todo # <<>>
    /\ plan' = [plan EXCEPT !.pc = "fill", !.surplus = 0,
                  !.left = BufferOf(Head(plan.todo))
                    - Cardinality(Viewed({"creating", "ready"})
                                  \cap OfVersion(Head(plan.todo)))]
    /\ UNCHANGED <<snode, sver>> /\ PlanUnchanged

\* Deficit and surplus of the next window version.
CountVersion ==
    /\ plan.pc = "version" /\ plan.todo # <<>>
    /\ LET v == Head(plan.todo)
           warm == Cardinality(Viewed({"creating", "ready"}) \cap OfVersion(v))
       IN plan' = [plan EXCEPT !.pc = "fill",
                    !.left = SmallerOf(BufferOf(v) - warm, MaxServers - plan.total),
                    !.surplus = Cardinality(Viewed({"ready"}) \cap OfVersion(v))
                                - BufferOf(v)]
    /\ UNCHANGED <<snode, sver>> /\ PlanUnchanged

\* Mutant: slots of draining servers count as free.
Roomy_DrainingFree ==
    {n \in Placeable(IF Head(plan.todo) = plan.act
                     THEN plan.pausedAct ELSE plan.pausedDep) :
        UsedBy(n, Live \ {"draining"}) < Capacity[n]}

Roomy ==
    {n \in Placeable(IF Head(plan.todo) = plan.act
                     THEN plan.pausedAct ELSE plan.pausedDep) :
        UsedBy(n, Live) < Capacity[n]}

\* One servers(creating) row on a least busy node with room.
InsertServer(s, n) ==
    /\ plan.pc = "fill" /\ plan.left > 0
    /\ sstate[s] = "none" /\ s \notin plan.ins
    /\ n \in Roomy /\ \A o \in Roomy : UsedBy(n, Live) <= UsedBy(o, Live)
    /\ snode' = [snode EXCEPT ![s] = n]
    /\ sver' = [sver EXCEPT ![s] = Head(plan.todo)]
    /\ plan' = [plan EXCEPT !.ins = @ \cup {s}, !.total = @ + 1, !.left = @ - 1]
    /\ PlanUnchanged

\* The version is filled, or no node has room: on to its surplus.
StopSurplus ==
    /\ plan.pc = "fill" /\ (plan.left <= 0 \/ Roomy = {})
    /\ \E rows \in AnyOf(Viewed({"ready"}) \cap OfVersion(Head(plan.todo)),
                         plan.surplus) :
         plan' = [plan EXCEPT !.cand = rows, !.left = 0, !.surplus = 0,
                    !.pc = IF rows = {} THEN "version" ELSE "surplusLock",
                    !.todo = Tail(@)]
    /\ UNCHANGED <<snode, sver>> /\ PlanUnchanged

TakeSurplus == TakeStops("surplusLock", "version")

OutsideWindow == {s \in Servers : sver[s] \notin {plan.act, plan.dep}}

StopOutside ==
    /\ plan.pc = "version" /\ plan.todo = <<>>
    /\ SelectStops(Viewed({"ready"}) \cap OutsideWindow, "outsideLock", "live")
    /\ UNCHANGED <<snode, sver>> /\ PlanUnchanged

TakeOutside == TakeStops("outsideLock", "live")

\* Live matches outside the window: the update's own WHERE names the state, so
\* it holds of the row it locks.
DrainLiveOutside ==
    LET rows == Viewed({"allocated"}) \cap OutsideWindow IN
    /\ plan.pc = "live" /\ rows \cap ReportLocked = {}
    /\ plan' = [plan EXCEPT !.pc = "commit", !.drains = rows]
    /\ UNCHANGED <<snode, sver>> /\ PlanUnchanged

\* Commit; the start, stop and drain commands go out right after it.
PlanCommit ==
    /\ plan.pc = "commit"
    /\ sstate' = [s \in Servers |-> View(s)]
    /\ plan' = IdlePlan
    /\ UNCHANGED <<snode, sver, smatch, revived, nodeVars, matchVars,
                   windowVars, req, reportVars, lease>>

-----------------------------------------------------------------------------
(* Versions change under the pass, and the master may die at any point.    *)

VersionStep ==
    /\ vops < MaxVersionOps /\ vops' = vops + 1
    /\ \E v \in Versions :
        \/ Window!BeginDeploy(v) \/ Window!AbortDeploy(v)
        \/ \E from \in Window!FlipSources : Window!ActivateVersion(v, from)
    /\ UNCHANGED <<serverVars, nodeVars, matchVars, req, reportVars, lease, plan>>

\* The reconcile pass closes expired windows before it lists the fleets.
DisableExpired ==
    /\ vops < MaxVersionOps /\ vops' = vops + 1 /\ plan.pc = "idle"
    /\ \E S \in SUBSET Versions : Window!DisableExpiredDeprecated(S)
    /\ UNCHANGED <<serverVars, nodeVars, matchVars, req, reportVars, lease, plan>>

\* Open transactions roll back; the requests they served got no answer.
MasterCrash ==
    /\ "crash" \in Inputs
    /\ snode' = [s \in Servers |-> IF s \in plan.ins THEN NoNode ELSE snode[s]]
    /\ sver' = [s \in Servers |-> IF s \in plan.ins THEN NoVersion ELSE sver[s]]
    /\ req' = [r \in Requests |->
                IF req[r].pc = "done" THEN req[r]
                ELSE [pc |-> "new", row |-> NoServer]]
    /\ touched' = {} /\ held' = [n \in Nodes |-> {}]
    /\ lease' = IdleLease
    /\ plan' = IdlePlan
    /\ UNCHANGED <<sstate, smatch, revived, nodeVars, matchVars, windowVars>>

-----------------------------------------------------------------------------
AllocateNext ==
    \E r \in Requests : LookUp(r) \/ Claim(r) \/ ClaimCommit(r) \/ ClaimLost(r)

ReportNext ==
    \E n \in Nodes :
        \/ \E rows \in SUBSET RowsOn(n) : ReportBegin(n, rows)
        \/ ApplyHeartbeat(n) \/ HelloSync(n)

EventNext ==
    \E s \in Servers :
        \/ ServerFailedEvent(s) \/ ServerReadyEvent(s) \/ MatchStart(s)
        \/ \E result \in {"finished", "aborted"} : MatchEnd(s, result)

LeaseNext ==
    \/ QuarantineStaleNodes \/ FailQuarantinedSelect \/ FailQuarantinedServers
    \/ AbortLostMatches \/ MarkDownNodes

NodeNext ==
    \E n \in Nodes : Tick(n) \/ DrainNode(n) \/ UndrainNode(n) \/ RevokeNode(n)

PlanNext ==
    \/ \E S \in SUBSET Servers : FailStuckCreating(S)
    \/ ListFleet \/ ReadWindow \/ StopOnLeavingNodes \/ TakeOnLeavingNodes
    \/ EvictDeprecated \/ CountVersion
    \/ \E s \in Servers, n \in Nodes : InsertServer(s, n)
    \/ StopSurplus \/ TakeSurplus \/ StopOutside \/ TakeOutside
    \/ DrainLiveOutside \/ PlanCommit

Next ==
    \/ AllocateNext \/ ReportNext \/ EventNext \/ LeaseNext \/ NodeNext
    \/ PlanNext \/ VersionStep \/ DisableExpired \/ MasterCrash

Spec == Init /\ [][Next]_vars

\* Tickers fire, statements get their locks and transactions end; nothing is
\* assumed of agents, operators or requests.
FairSpec ==
    /\ Spec
    /\ WF_vars(LeaseNext) /\ WF_vars(PlanNext)
    /\ \A n \in Nodes : WF_vars(ApplyHeartbeat(n) \/ HelloSync(n))
    /\ \A r \in Requests : WF_vars(ClaimCommit(r) \/ ClaimLost(r))

-----------------------------------------------------------------------------
(* Properties.                                                             *)

\* "A repeated request in the same env returns the same server": whatever
\* requests race, all answers for one match_id name one server (Allocate).
SameMatchSameServer ==
    \A q, r \in Requests :
        MatchOf[q] = MatchOf[r] /\ req[q].pc = "done" /\ req[r].pc = "done"
            => req[q].row = req[r].row

\* No match ever holds two servers, committed or not yet reaped.
OneServerPerMatch ==
    \A s, t \in Servers : smatch[s] # NoMatch /\ smatch[s] = smatch[t] => s = t

\* Making room for the active version stops warm deprecated servers, "never
\* live matches": a row stopDeprecated took is matchless and nobody's claim.
EvictionTakesNoMatch ==
    \A s \in plan.evicted :
        sstate[s] = "ready" /\ smatch[s] = NoMatch /\ s \notin Claimed

\* A pass that is about to send StopServer for a row does not stop an
\* allocated server: "allocated servers are left to play their match out".
StopNeverHitsLiveMatch == \A s \in plan.stops : sstate[s] # "allocated"

\* The pass sends DrainServer to no live match of the version the fleet runs.
WindowMatchNotDrained == \A s \in plan.drains : sver[s] # fleet

\* Passes, claims, reports and stuck starts never take the fleet over
\* max_servers; only servers a Hello brought back may.
FleetWithinMax ==
    Cardinality({s \in Servers \ revived : sstate[s] \in Live \/ s \in plan.ins})
        <= MaxServers

\* Nor a node over its capacity_slots.
NodeWithinCapacity ==
    \A n \in Nodes :
        Cardinality({s \in Servers \ revived :
            snode[s] = n /\ (sstate[s] \in Live \/ s \in plan.ins)}) <= Capacity[n]

\* A pass evicts no more deprecated buffers than the active version lacks, and
\* none at all when a crash loop pauses it everywhere ("a crash-loop pause must
\* retain a working deprecated fallback").
EvictionsServeActive ==
    [][plan.pc = "evict" /\ plan'.evicted # {}
        => /\ Cardinality(plan'.evicted) <= Missing
           /\ plan.pausedAct # Nodes]_vars

\* A failed server comes back only by a Hello that reports it alive, which says
\* so in an event; "regular heartbeats keep the terminal guard", whatever they
\* report, and nothing brings a reaped one back.  (A stop statement may set a
\* failed row to draining.)
OnlyHelloRevives ==
    [][\A s \in Servers :
        sstate[s] \in {"failed", "reaped"} /\ sstate'[s] \in {"creating", "ready", "allocated"}
            => /\ sstate[s] = "failed" /\ s \in revived'
               /\ \E n \in Nodes : snode[s] = n /\ HelloSync(n)
               /\ \A n \in Nodes : ~ApplyHeartbeat(n)]_vars

\* A late match_start, abort or resurrection never reopens a finished match.
FinishedIsFinal ==
    [][\A m \in Matches : mstate[m] = "finished" => mstate'[m] = "finished"]_vars

\* A match a match_end closed stays closed, however it ended.
EndedMatchStaysEnded ==
    [][\A m \in ended : mstate'[m] \notin OpenMatch]_vars

\* A failed server never sends match_end, so its match is closed with it; the
\* lease pass closes the matches of the rows it has just failed.
FailedServerHasNoOpenMatch ==
    \A s \in Servers :
        sstate[s] = "failed" /\ smatch[s] # NoMatch /\ mstate[smatch[s]] \in OpenMatch
            => lease.pc = "abort" /\ s \in lease.hit

\* A node is written off as down only after the servers on it were: the order
\* of the lease pass leaves no live row behind on it.  With reconcile passes
\* this holds of playable rows only: a stop statement may set a row to draining
\* that the lease pass has failed since it was picked.
DownNodeHasNoLive ==
    \A n \in Nodes : nstate[n] = "down"
        => \A s \in RowsOn(n) : sstate[s] \notin Live

\* FailQuarantinedServers fails servers "on nodes silent for 30s+" only.
OnlySilentServersFail ==
    [][lease.pc = "failing" /\ lease'.pc = "abort"
        => \A s \in lease'.hit : age[snode[s]] >= 2]_vars

Silent(s) == sstate[s] \in Live /\ age[snode[s]] >= 2

\* Servers of a node that stays silent are failed in the end, so that they are
\* replaced and their matches closed.
SilentServersFail == \A s \in Servers : Silent(s) ~> ~Silent(s)
=============================================================================
