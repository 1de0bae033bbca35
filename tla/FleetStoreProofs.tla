-------------------------- MODULE FleetStoreProofs --------------------------
(***************************************************************************)
(* Proofs about FleetStore.  The inductive invariant says who may hold the *)
(* lock of a row and in which state: a claimed row is ready and has one    *)
(* claimer, rows locked by claims, by the pass and by reports are disjoint *)
(* and rows the pass has inserted are invisible to everybody else.  The    *)
(* later sections build on it: finished matches, the limits of fleet and   *)
(* nodes, the order of the lease pass, the matches of lost servers and the *)
(* evictions, each with the conjuncts it adds and what it assumes.         *)
(***************************************************************************)
EXTENDS FleetStore, FiniteSetTheorems, TLAPS

\* A row carries a match only after it exists.
MatchedRowsExist == \A s \in Servers : smatch[s] # NoMatch => sstate[s] # "none"

\* SKIP LOCKED: a claimed row is ready and belongs to one claimer.
ClaimsHoldReady ==
    \A r \in Requests : req[r].pc = "claimed"
        => /\ req[r].row \in Servers /\ sstate[req[r].row] = "ready"
           /\ \A q \in Requests :
                req[q].pc = "claimed" /\ req[q].row = req[r].row => q = r

\* No row is locked by two transactions of different kinds.
LocksDisjoint ==
    /\ Claimed \cap PlanLocked = {}
    /\ \A n \in Nodes : held[n] \cap (Claimed \cup PlanLocked) = {}
    /\ \A n \in Nodes : held[n] \subseteq RowsOn(n)

\* What the open transaction of the pass has read and written.
PlanRows ==
    /\ plan.pc = "idle" => plan = IdlePlan
    /\ plan.pc = "fill" => plan.todo # <<>>
    /\ \A s \in plan.ins : sstate[s] = "none"
    /\ \A s \in plan.cand \cup plan.stops \cup plan.drains : sstate[s] # "none"
    /\ plan.evicted \subseteq plan.stops
    /\ \A s \in plan.evicted : sstate[s] = "ready" /\ smatch[s] = NoMatch

RowInv ==
    MatchedRowsExist /\ OneServerPerMatch /\ ClaimsHoldReady /\ LocksDisjoint /\ PlanRows

FleetInv == TypeOK /\ RowInv

\* Nothing row locks speak of changes.
RowFrame == UNCHANGED <<sstate, snode, smatch, req, held, plan>>

-----------------------------------------------------------------------------
(* Lemmas about groups of steps.                                           *)

LEMMA FrameKeepsRows ==
    ASSUME RowInv, RowFrame PROVE RowInv'
<1>1. MatchedRowsExist' /\ OneServerPerMatch'
  BY DEF RowInv, RowFrame, MatchedRowsExist, OneServerPerMatch
<1>2. ClaimsHoldReady'
  BY DEF RowInv, RowFrame, ClaimsHoldReady
<1>3. LocksDisjoint'
  BY DEF RowInv, RowFrame, LocksDisjoint, Claimed, PlanLocked, RowsOn
<1>4. PlanRows'
  BY DEF RowInv, RowFrame, PlanRows, IdlePlan
<1> QED
  BY <1>1, <1>2, <1>3, <1>4 DEF RowInv

\* A transaction that finds a row unlocked may change its state, not its
\* existence; report transactions may also let go of their locks.
LEMMA StateChangeKeepsRows ==
    ASSUME TypeOK, RowInv, UNCHANGED <<snode, smatch, req, plan>>,
           \A n \in Nodes : held'[n] \subseteq held[n],
           \A n \in Nodes : held'[n] \subseteq Servers,
           \A s \in Servers : sstate'[s] # sstate[s]
                => /\ s \notin Claimed \cup PlanLocked
                   /\ sstate[s] # "none" /\ sstate'[s] # "none"
    PROVE  RowInv'
<1>0. /\ Claimed' = Claimed /\ PlanLocked' = PlanLocked
      /\ Claimed \subseteq Servers /\ PlanLocked \subseteq Servers
  BY DEF Claimed, PlanLocked, TypeOK, PlanType, RowInv, ClaimsHoldReady
<1>1. \A s \in Servers : sstate'[s] = "none" <=> sstate[s] = "none"
  OBVIOUS
<1>2. MatchedRowsExist' /\ OneServerPerMatch'
  BY <1>1 DEF RowInv, MatchedRowsExist, OneServerPerMatch
<1>3. ClaimsHoldReady'
  BY <1>0 DEF RowInv, ClaimsHoldReady, Claimed
<1>4. LocksDisjoint'
  <2>2. \A n \in Nodes : RowsOn(n)' = RowsOn(n)
    BY <1>1 DEF RowsOn
  <2> QED
    BY <1>0, <2>2 DEF RowInv, LocksDisjoint
<1>5. PlanRows'
  <2>1. plan.evicted \subseteq PlanLocked /\ plan \in PlanType
    BY DEF RowInv, PlanRows, PlanLocked, TypeOK
  <2>2. \A s \in plan.ins : sstate'[s] = "none"
    BY <1>1, <2>1 DEF RowInv, PlanRows, PlanType
  <2>3. \A s \in plan.cand \cup plan.stops \cup plan.drains : sstate'[s] # "none"
    BY <1>1, <2>1 DEF RowInv, PlanRows, PlanType
  <2>4. \A s \in plan.evicted : sstate'[s] = "ready" /\ smatch'[s] = NoMatch
    BY <2>1, <1>0 DEF RowInv, PlanRows
  <2>5. IdlePlan' = IdlePlan
    BY DEF IdlePlan
  <2> QED
    BY <2>2, <2>3, <2>4, <2>5 DEF RowInv, PlanRows
<1> QED
  BY <1>2, <1>3, <1>4, <1>5 DEF RowInv

\* Claims: Allocate and MatchmakingTx.Allocate.
LEMMA AllocateKeepsInv ==
    ASSUME FleetInv, NEW r \in Requests,
           LookUp(r) \/ Claim(r) \/ ClaimCommit(r) \/ ClaimLost(r)
    PROVE  FleetInv'
<1> USE FleetAssumption
<1>0. /\ TypeOK /\ RowInv /\ req[r] \in RequestType
      /\ Claimed \subseteq Servers /\ PlanLocked \subseteq Servers
  BY DEF FleetInv, TypeOK, RowInv, ClaimsHoldReady, Claimed, PlanLocked, PlanType
<1>1. CASE LookUp(r) \/ (Claim(r) /\ Claimable = {}) \/ ClaimLost(r)
  <2>1. /\ UNCHANGED <<sstate, snode, smatch, held, plan>>
        /\ req' \in [Requests -> RequestType]
        /\ \A q \in Requests : req'[q].pc = "claimed" => q # r /\ req'[q] = req[q]
    <3>1. UNCHANGED <<sstate, snode, smatch, held, plan>>
      BY <1>1 DEF LookUp, Claim, ClaimLost, AllocUnchanged, reportVars
    <3>2. PICK q \in RequestType : q.pc # "claimed" /\ req' = [req EXCEPT ![r] = q]
      <4>1. CASE LookUp(r)
        <5>1. CASE req' = [req EXCEPT ![r].pc = "missed"]
          BY <1>0, <5>1 DEF RequestType, RequestPcs
        <5>2. ASSUME NEW s \in HolderOf(MatchOf[r]),
                     req' = [req EXCEPT ![r] = [pc |-> "done", row |-> s]]
              PROVE \E q \in RequestType : q.pc # "claimed" /\ req' = [req EXCEPT ![r] = q]
          BY <5>2 DEF RequestType, RequestPcs, HolderOf
        <5> QED
          BY <4>1, <5>1, <5>2 DEF LookUp
      <4>2. CASE Claim(r) /\ Claimable = {}
        BY <1>0, <4>2 DEF Claim, RequestType, RequestPcs
      <4>3. CASE ClaimLost(r)
        BY <1>0, <4>3 DEF ClaimLost, RequestType, RequestPcs, HolderOf
      <4> QED
        BY <1>1, <4>1, <4>2, <4>3
    <3> QED
      BY <1>0, <3>1, <3>2 DEF TypeOK
  <2>2. TypeOK'
    BY <1>0, <1>1, <2>1 DEF LookUp, Claim, ClaimLost, AllocUnchanged, TypeOK,
                        nodeVars, windowVars, reportVars
  <2>3. Claimed' \subseteq Claimed /\ PlanLocked' = PlanLocked
    BY <2>1 DEF Claimed, PlanLocked
  <2>4. ClaimsHoldReady' /\ LocksDisjoint'
    BY <1>0, <2>1, <2>3 DEF RowInv, ClaimsHoldReady, LocksDisjoint, RowsOn
  <2>5. MatchedRowsExist' /\ OneServerPerMatch' /\ PlanRows'
    BY <1>0, <2>1 DEF RowInv, MatchedRowsExist, OneServerPerMatch, PlanRows, IdlePlan
  <2> QED
    BY <2>2, <2>4, <2>5 DEF FleetInv, RowInv
<1>2. ASSUME Claim(r), NEW s \in Claimable,
             req' = [req EXCEPT ![r] = [pc |-> "claimed", row |-> s]]
      PROVE  FleetInv'
  <2>1. UNCHANGED <<sstate, snode, smatch, held, plan>>
    BY <1>2 DEF Claim, AllocUnchanged, reportVars
  <2>2. /\ s \in Servers /\ sstate[s] = "ready"
        /\ s \notin Claimed /\ s \notin PlanLocked /\ \A n \in Nodes : s \notin held[n]
    BY <1>0 DEF Claimable, Locked, ReportLocked
  <2>3. TypeOK'
    BY <1>0, <1>2, <2>2 DEF Claim, AllocUnchanged, TypeOK, RequestType, RequestPcs,
                            nodeVars, windowVars, reportVars
  <2>4. Claimed' \subseteq Claimed \cup {s} /\ PlanLocked' = PlanLocked
    BY <1>0, <1>2, <2>1 DEF Claimed, PlanLocked, TypeOK
  <2>5. ClaimsHoldReady'
    BY <1>0, <1>2, <2>1, <2>2 DEF RowInv, ClaimsHoldReady, TypeOK, Claimed
  <2>6. LocksDisjoint'
    BY <1>0, <2>1, <2>2, <2>4 DEF RowInv, LocksDisjoint, RowsOn
  <2>7. MatchedRowsExist' /\ OneServerPerMatch' /\ PlanRows'
    BY <1>0, <2>1 DEF RowInv, MatchedRowsExist, OneServerPerMatch, PlanRows, IdlePlan
  <2> QED
    BY <2>3, <2>5, <2>6, <2>7 DEF FleetInv, RowInv
<1>3. CASE ClaimCommit(r)
  <2> DEFINE s == req[r].row
             m == MatchOf[r]
  <2>1. /\ s \in Servers /\ sstate[s] = "ready" /\ m \in Matches
        /\ s \in Claimed /\ s \notin PlanLocked
        /\ \A n \in Nodes : s \notin held[n]
    BY <1>0, <1>3 DEF ClaimCommit, RowInv, ClaimsHoldReady, LocksDisjoint, Claimed
  <2>2. /\ sstate' = [sstate EXCEPT ![s] = "allocated"]
        /\ smatch' = [smatch EXCEPT ![s] = m]
        /\ req' = [req EXCEPT ![r].pc = "done"]
        /\ UNCHANGED <<snode, held, plan>>
    BY <1>3 DEF ClaimCommit, AllocUnchanged, reportVars
  <2>3. TypeOK'
    BY <1>0, <1>3, <2>1 DEF ClaimCommit, AllocUnchanged, TypeOK, RequestType,
                RequestPcs, ServerStates, MatchStates, nodeVars, windowVars, reportVars
  <2>4. MatchedRowsExist'
    BY <1>0, <2>1, <2>2 DEF RowInv, MatchedRowsExist, TypeOK
  <2>5. OneServerPerMatch'
    <3>1. \A t \in Servers \ {s} : smatch[t] # m
      BY <1>0, <1>3, <2>1 DEF ClaimCommit, HolderOf, RowInv, MatchedRowsExist
    <3> QED
      BY <1>0, <2>1, <2>2, <3>1 DEF RowInv, OneServerPerMatch, TypeOK
  <2>6. ClaimsHoldReady'
    BY <1>0, <1>3, <2>1, <2>2 DEF ClaimCommit, RowInv, ClaimsHoldReady, TypeOK, RequestType
  <2>7. LocksDisjoint'
    <3>1. Claimed' \subseteq Claimed /\ PlanLocked' = PlanLocked
      BY <1>0, <2>2 DEF Claimed, PlanLocked, TypeOK, RequestType
    <3>2. \A n \in Nodes : RowsOn(n)' = RowsOn(n)
      BY <1>0, <2>1, <2>2 DEF RowsOn, TypeOK
    <3> QED
      BY <1>0, <2>2, <3>1, <3>2 DEF RowInv, LocksDisjoint
  <2>8. PlanRows'
    <3>1. plan.evicted \subseteq PlanLocked /\ plan \in PlanType
      BY <1>0 DEF RowInv, PlanRows, PlanLocked, TypeOK
    <3>2. s \notin plan.evicted /\ s \notin plan.ins
      BY <1>0, <2>1, <3>1 DEF RowInv, PlanRows
    <3>3. \A t \in Servers \ {s} : sstate'[t] = sstate[t] /\ smatch'[t] = smatch[t]
      BY <1>0, <2>2 DEF TypeOK
    <3>4. sstate'[s] = "allocated"
      BY <1>0, <2>1, <2>2 DEF TypeOK
    <3> QED
      BY <1>0, <2>1, <2>2, <3>1, <3>2, <3>3, <3>4 DEF RowInv, PlanRows, IdlePlan, PlanType
  <2> QED
    BY <2>3, <2>4, <2>5, <2>6, <2>7, <2>8 DEF FleetInv, RowInv
<1> QED
  BY <1>1, <1>2, <1>3 DEF Claim

\* Agent reports: taking the row locks, then applying what was reported.
LEMMA ReportBeginKeepsInv ==
    ASSUME FleetInv, NEW n \in Nodes, NEW rows \in SUBSET RowsOn(n),
           ReportBegin(n, rows)
    PROVE  FleetInv'
<1>0. /\ TypeOK /\ RowInv /\ rows \subseteq Servers
      /\ held' = [held EXCEPT ![n] = rows]
      /\ UNCHANGED <<sstate, snode, smatch, req, plan>>
  BY DEF FleetInv, ReportBegin, RowsOn, serverVars
<1>1. TypeOK'
  BY <1>0 DEF ReportBegin, TypeOK, serverVars, nodeVars, matchVars, windowVars
<1>2. LocksDisjoint'
  <2>1. rows \cap (Claimed \cup PlanLocked) = {}
    BY DEF ReportBegin, Locked
  <2>2. Claimed' = Claimed /\ PlanLocked' = PlanLocked /\ \A o \in Nodes : RowsOn(o)' = RowsOn(o)
    BY <1>0 DEF Claimed, PlanLocked, RowsOn
  <2>3. \A o \in Nodes : held'[o] = IF o = n THEN rows ELSE held[o]
    BY <1>0 DEF TypeOK
  <2> QED
    BY <1>0, <2>1, <2>2, <2>3 DEF RowInv, LocksDisjoint
<1>3. MatchedRowsExist' /\ OneServerPerMatch' /\ ClaimsHoldReady' /\ PlanRows'
  BY <1>0 DEF RowInv, MatchedRowsExist, OneServerPerMatch, ClaimsHoldReady, PlanRows,
              IdlePlan
<1> QED
  BY <1>1, <1>2, <1>3 DEF FleetInv, RowInv

LEMMA ReportCommitKeepsInv ==
    ASSUME FleetInv, NEW n \in Nodes, NEW rep \in [held[n] -> Reports],
           NEW resurrect \in BOOLEAN, ReportCommit(n, rep, resurrect)
    PROVE  FleetInv'
<1> USE FleetAssumption
<1>0. TypeOK /\ RowInv /\ held[n] \subseteq RowsOn(n)
  BY DEF FleetInv, RowInv, LocksDisjoint
<1>1. \A s \in held[n] : /\ Reconciled(s, rep, resurrect) \in AgentStates
                         /\ sstate[s] # "none" /\ s \in Servers
  <2>1. ASSUME NEW s \in held[n]
        PROVE  sstate[s] \in AgentStates /\ rep[s] \in AgentStates /\ s \in Servers
    BY <1>0, <2>1 DEF RowsOn, TypeOK, AgentStates, ServerStates
  <2> QED
    BY <2>1 DEF Reconciled, Resurrected, AgentStates
<1>2. /\ UNCHANGED <<snode, sver, smatch, ended, windowVars, req, lease, plan>>
      /\ nstate' = IF nstate[n] \in {"quarantine", "down"}
                   THEN [nstate EXCEPT ![n] = "active"] ELSE nstate
      /\ age' = [age EXCEPT ![n] = 0]
      /\ touched' = touched \ {n}
      /\ held' = [held EXCEPT ![n] = {}]
  BY DEF ReportCommit
<1>3. sstate' = [s \in Servers |->
                    IF s \in held[n] THEN Reconciled(s, rep, resurrect)
                    ELSE IF snode[s] = n /\ sstate[s] = "draining" THEN "reaped"
                    ELSE sstate[s]]
  BY DEF ReportCommit
<1>4. \A s \in PlanLocked : snode[s] = n => sstate[s] # "draining"
  BY DEF ReportCommit
<1>5. revived' \subseteq Servers
  BY <1>0, <1>1 DEF ReportCommit, TypeOK
<1>6. mstate' \in [Matches -> MatchStates]
  BY <1>0 DEF ReportCommit, Aborted, TypeOK, MatchStates
<1>7. sstate' \in [Servers -> ServerStates]
      /\ \A s \in Servers : sstate'[s] = "none" <=> sstate[s] = "none"
  BY <1>0, <1>1, <1>3 DEF TypeOK, ServerStates, AgentStates
<1>8. TypeOK'
  BY <1>0, <1>2, <1>5, <1>6, <1>7 DEF TypeOK, windowVars, NodeStates
<1>9. ASSUME NEW s \in Servers, sstate'[s] # sstate[s]
      PROVE  /\ s \notin Claimed \cup PlanLocked
             /\ sstate[s] # "none" /\ sstate'[s] # "none"
  <2>1. CASE s \in held[n]
    BY <1>0, <1>1, <1>7, <2>1 DEF RowInv, LocksDisjoint
  <2>2. CASE s \notin held[n]
    <3>1. snode[s] = n /\ sstate[s] = "draining" /\ sstate'[s] = "reaped"
      BY <1>3, <1>9, <2>2
    <3>2. s \notin PlanLocked
      BY <1>4, <3>1
    <3>3. s \notin Claimed
      BY <1>0, <3>1 DEF RowInv, ClaimsHoldReady, Claimed
    <3> QED
      BY <3>1, <3>2, <3>3
  <2> QED
    BY <2>1, <2>2
<1>10. RowInv'
  <2>1. /\ \A o \in Nodes : held'[o] \subseteq held[o]
        /\ \A o \in Nodes : held'[o] \subseteq Servers
    BY <1>0, <1>2 DEF TypeOK
  <2> QED
    BY <1>0, <1>2, <1>9, <2>1, StateChangeKeepsRows
<1> QED
  BY <1>8, <1>10 DEF FleetInv

\* Server events.
LEMMA EventKeepsInv ==
    ASSUME FleetInv, NEW s \in Servers, NEW result \in {"finished", "aborted"},
           \/ ServerFailedEvent(s) \/ ServerReadyEvent(s)
           \/ MatchStart(s) \/ MatchEnd(s, result)
    PROVE  FleetInv'
<1>0. /\ TypeOK /\ RowInv /\ sstate[s] # "none" /\ s \notin Locked
      /\ UNCHANGED <<snode, smatch, req, held, plan>>
  BY DEF FleetInv, ServerFailedEvent, ServerReadyEvent, MatchStart, MatchEnd,
         EventRow, EventUnchanged, reportVars
<1>1. sstate' \in {sstate, [sstate EXCEPT ![s] = "failed"], [sstate EXCEPT ![s] = "ready"]}
  BY DEF ServerFailedEvent, ServerReadyEvent, MatchStart, MatchEnd
<1>2. mstate' \in [Matches -> MatchStates] /\ ended' \subseteq Matches
  <2>1. CASE ServerFailedEvent(s)
    BY <1>0, <2>1 DEF ServerFailedEvent, Aborted, TypeOK, MatchStates
  <2>2. CASE ServerReadyEvent(s)
    BY <1>0, <2>2 DEF ServerReadyEvent, matchVars, TypeOK
  <2>3. CASE MatchStart(s)
    BY <1>0, <2>3 DEF MatchStart, TypeOK, MatchStates
  <2>4. CASE MatchEnd(s, result)
    BY <1>0, <2>4 DEF MatchEnd, TypeOK, MatchStates
  <2> QED
    BY <2>1, <2>2, <2>3, <2>4
<1>3. TypeOK'
  <2>1. UNCHANGED <<snode, sver, smatch, revived, nodeVars, windowVars, req,
                    reportVars, lease, plan>>
    BY DEF ServerFailedEvent, ServerReadyEvent, MatchStart, MatchEnd, EventUnchanged
  <2> QED
    BY <1>0, <1>1, <1>2, <2>1 DEF TypeOK, ServerStates, nodeVars, windowVars, reportVars
<1>4. RowInv'
  BY <1>0, <1>1, StateChangeKeepsRows DEF TypeOK, Locked
<1> QED
  BY <1>3, <1>4 DEF FleetInv

\* The lease pass and the passage of time.
LEMMA LeaseKeepsInv ==
    ASSUME FleetInv, LeaseNext \/ \E n \in Nodes : Tick(n) PROVE FleetInv'
<1> USE FleetAssumption
<1>0. TypeOK /\ RowInv
  BY DEF FleetInv
<1>1. CASE QuarantineStaleNodes \/ MarkDownNodes
  <2>1. RowFrame
    BY <1>1 DEF QuarantineStaleNodes, MarkDownNodes, RowFrame, serverVars, reportVars
  <2>2. TypeOK'
    BY <1>0, <1>1 DEF QuarantineStaleNodes, MarkDownNodes, MoveNodes, TypeOK, NodeStates,
       serverVars, matchVars, windowVars, reportVars, IdleLease, LeasePcs
  <2> QED
    BY <1>0, <2>1, <2>2, FrameKeepsRows DEF FleetInv
<1>2. CASE FailQuarantinedSelect \/ AbortLostMatches
  <2>1. RowFrame
    BY <1>2 DEF FailQuarantinedSelect, AbortLostMatches, RowFrame, serverVars, reportVars
  <2>2. mstate' \in [Matches -> MatchStates]
    BY <1>0, <1>2 DEF FailQuarantinedSelect, AbortLostMatches, Aborted, TypeOK,
                      MatchStates, matchVars
  <2>3. TypeOK'
    BY <1>0, <1>2, <2>2 DEF FailQuarantinedSelect, AbortLostMatches, TypeOK,
       serverVars, nodeVars, matchVars, windowVars, reportVars, LeasePcs
  <2> QED
    BY <1>0, <2>1, <2>3, FrameKeepsRows DEF FleetInv
<1>3. CASE FailQuarantinedServers
  <2>1. /\ UNCHANGED <<snode, smatch, req, held, plan>>
        /\ \A s \in Servers : sstate'[s] # sstate[s]
                => s \notin Locked /\ sstate[s] \in Live /\ sstate'[s] = "failed"
    BY <1>3 DEF FailQuarantinedServers, reportVars
  <2>2. RowInv'
    BY <1>0, <2>1, StateChangeKeepsRows DEF TypeOK, Locked, Live
  <2>3. TypeOK'
    BY <1>0, <1>3 DEF FailQuarantinedServers, TypeOK, ServerStates, Live, LeasePcs,
       nodeVars, matchVars, windowVars, reportVars
  <2> QED
    BY <2>2, <2>3 DEF FleetInv
<1>4. ASSUME NEW n \in Nodes, Tick(n) PROVE FleetInv'
  <2>1. RowFrame
    BY <1>4 DEF Tick, RowFrame, serverVars, reportVars
  <2>2. TypeOK'
    BY <1>0, <1>4 DEF Tick, TypeOK, serverVars, matchVars, windowVars, reportVars
  <2> QED
    BY <1>0, <2>1, <2>2, FrameKeepsRows DEF FleetInv
<1> QED
  BY <1>1, <1>2, <1>3, <1>4 DEF LeaseNext

\* Operator commands.
LEMMA NodeKeepsInv ==
    ASSUME FleetInv, NEW n \in Nodes, DrainNode(n) \/ UndrainNode(n) \/ RevokeNode(n)
    PROVE  FleetInv'
<1>1. TypeOK /\ RowInv /\ NodeUnchanged
  BY DEF FleetInv, DrainNode, UndrainNode, RevokeNode
<1>2. RowFrame
  BY <1>1 DEF NodeUnchanged, RowFrame, serverVars, reportVars
<1>3. nstate' \in [Nodes -> NodeStates]
  BY <1>1 DEF DrainNode, UndrainNode, RevokeNode, TypeOK, NodeStates
<1>4. TypeOK'
  BY <1>1, <1>3 DEF NodeUnchanged, TypeOK, serverVars, matchVars, windowVars, reportVars
<1> QED
  BY <1>1, <1>2, <1>4, FrameKeepsRows DEF FleetInv

\* Versions and the fleet's pointer.
LEMMA VersionKeepsInv ==
    ASSUME FleetInv, VersionStep \/ DisableExpired PROVE FleetInv'
<1> DEFINE WindowTyped ==
             /\ vstate \in [Versions -> Window!VersionStates]
             /\ fleet \in Versions \cup {NoVersion}
<1>1. TypeOK /\ RowInv /\ vops' \in Nat
      /\ UNCHANGED <<serverVars, nodeVars, matchVars, req, reportVars, lease, plan>>
  BY DEF FleetInv, TypeOK, VersionStep, DisableExpired
<1>2. WindowTyped'
  <2>1. ASSUME NEW v \in Versions, Window!BeginDeploy(v) \/ Window!AbortDeploy(v)
        PROVE  WindowTyped'
    BY <1>1, <2>1 DEF Window!BeginDeploy, Window!AbortDeploy, TypeOK, Window!VersionStates
  <2>2. ASSUME NEW v \in Versions, NEW from \in Window!FlipSources,
               Window!ActivateVersion(v, from)
        PROVE  WindowTyped'
    BY <1>1, <2>2 DEF Window!ActivateVersion, TypeOK, Window!VersionStates
  <2>3. ASSUME NEW S \in SUBSET Versions, Window!DisableExpiredDeprecated(S)
        PROVE  WindowTyped'
    BY <1>1, <2>3 DEF Window!DisableExpiredDeprecated, TypeOK, Window!VersionStates
  <2> QED
    BY <2>1, <2>2, <2>3 DEF VersionStep, DisableExpired
<1>3. RowFrame
  BY <1>1 DEF RowFrame, serverVars, reportVars
<1>4. TypeOK'
  BY <1>1, <1>2 DEF TypeOK, serverVars, nodeVars, matchVars, reportVars
<1> QED
  BY <1>1, <1>3, <1>4, FrameKeepsRows DEF FleetInv

\* A crash rolls every open transaction back: all locks and inserts are gone.
LEMMA CrashKeepsInv ==
    ASSUME FleetInv, MasterCrash PROVE FleetInv'
<1>0. /\ TypeOK /\ RowInv
      /\ snode' = [s \in Servers |-> IF s \in plan.ins THEN NoNode ELSE snode[s]]
      /\ req' = [r \in Requests |->
                   IF req[r].pc = "done" THEN req[r] ELSE [pc |-> "new", row |-> NoServer]]
      /\ held' = [n \in Nodes |-> {}] /\ plan' = IdlePlan
      /\ UNCHANGED <<sstate, smatch>>
  BY DEF FleetInv, MasterCrash
<1>1. IdlePlan \in PlanType
  BY DEF IdlePlan, PlanType, PlanPcs
<1>2. \A s \in Servers : (snode'[s] = NoNode) <=> (sstate[s] = "none")
  BY <1>0 DEF TypeOK, RowInv, PlanRows
<1>3. TypeOK'
  <2>1. req' \in [Requests -> RequestType]
    BY <1>0 DEF TypeOK, RequestType, RequestPcs
  <2>2. plan'.ins = {}
    BY <1>0 DEF IdlePlan
  <2> QED
    BY <1>0, <1>1, <1>2, <2>1, <2>2 DEF MasterCrash, TypeOK, nodeVars, matchVars,
       windowVars, IdleLease, LeasePcs
<1>4. Claimed' = {} /\ PlanLocked' = {}
  BY <1>0 DEF Claimed, PlanLocked, IdlePlan, TypeOK, RequestType
<1>5. RowInv'
  BY <1>0, <1>4 DEF RowInv, MatchedRowsExist, OneServerPerMatch, ClaimsHoldReady,
                    LocksDisjoint, RowsOn, PlanRows, IdlePlan, TypeOK
<1> QED
  BY <1>3, <1>5 DEF FleetInv

-----------------------------------------------------------------------------
(* The reconcile pass.                                                     *)

\* A step of the pass's transaction that inserts no row: the rows it locks
\* exist, and no claim or report holds them.
LEMMA PlanStepKeepsInv ==
    ASSUME FleetInv, PlanUnchanged, UNCHANGED <<snode, sver>>,
           plan' \in PlanType, plan'.ins = plan.ins, PlanRows',
           \A s \in PlanLocked' \ PlanLocked : s \notin Claimed \cup ReportLocked
    PROVE  FleetInv'
<1>0. /\ TypeOK /\ RowInv
      /\ UNCHANGED <<sstate, snode, smatch, req, held>>
  BY DEF FleetInv, PlanUnchanged, reportVars
<1>1. TypeOK'
  BY <1>0 DEF TypeOK, PlanUnchanged, nodeVars, matchVars, windowVars, reportVars
<1>2. LocksDisjoint'
  <2>1. Claimed' = Claimed /\ \A n \in Nodes : RowsOn(n)' = RowsOn(n)
    BY <1>0 DEF Claimed, RowsOn
  <2>2. \A n \in Nodes : held[n] \subseteq ReportLocked
    BY DEF ReportLocked
  <2> QED
    BY <1>0, <2>1, <2>2 DEF RowInv, LocksDisjoint
<1>3. MatchedRowsExist' /\ OneServerPerMatch' /\ ClaimsHoldReady'
  BY <1>0 DEF RowInv, MatchedRowsExist, OneServerPerMatch, ClaimsHoldReady
<1> QED
  BY <1>1, <1>2, <1>3 DEF FleetInv, RowInv

LEMMA PlanReadsKeepInv ==
    ASSUME FleetInv, ListFleet \/ ReadWindow PROVE FleetInv'
<1> USE FleetAssumption
<1>0. TypeOK /\ RowInv /\ PlanRows /\ plan \in PlanType
      /\ PlanUnchanged /\ UNCHANGED <<snode, sver, sstate, smatch>>
  BY DEF FleetInv, RowInv, TypeOK, ListFleet, ReadWindow, PlanUnchanged
<1>1. CASE ListFleet
  <2>1. plan' = [IdlePlan EXCEPT !.pc = "window", !.act = fleet] /\ plan = IdlePlan
    BY <1>0, <1>1 DEF ListFleet, PlanRows
  <2>2. plan' \in PlanType
    BY <1>0, <2>1 DEF IdlePlan, PlanType, PlanPcs, TypeOK
  <2>3. plan'.ins = plan.ins /\ PlanLocked' = PlanLocked
    BY <2>1 DEF IdlePlan, PlanLocked
  <2>4. PlanRows'
    BY <2>1 DEF PlanRows, IdlePlan
  <2> QED
    BY <1>0, <2>2, <2>3, <2>4, PlanStepKeepsInv
<1>2. CASE ReadWindow
  <2>1. PICK dep \in Versions \cup {NoVersion}, pa \in PausedChoices, pd \in PausedChoices :
          plan' = [plan EXCEPT !.pc = "nodes", !.pausedAct = pa,
                     !.dep = IF dep = plan.act THEN NoVersion ELSE dep,
                     !.pausedDep = IF dep \in {plan.act, NoVersion} THEN {} ELSE pd]
    BY <1>2 DEF ReadWindow, Deprecated
  <2>2. plan' \in PlanType
    <3>1. "nodes" \in PlanPcs /\ pa \in SUBSET Nodes
          /\ (IF dep = plan.act THEN NoVersion ELSE dep) \in Versions \cup {NoVersion}
          /\ (IF dep \in {plan.act, NoVersion} THEN {} ELSE pd) \in SUBSET Nodes
      BY DEF PlanPcs
    <3> QED
      BY <1>0, <2>1, <3>1 DEF PlanType
  <2>3. plan'.ins = plan.ins /\ PlanLocked' = PlanLocked
    BY <1>0, <2>1 DEF PlanType, PlanLocked
  <2>4. PlanRows'
    BY <1>0, <2>1 DEF PlanRows, PlanType
  <2> QED
    BY <1>0, <2>2, <2>3, <2>4, PlanStepKeepsInv
<1> QED
  BY <1>1, <1>2

\* A row the pass sees as ready or allocated is in that state.
LEMMA ViewReal ==
    ASSUME NEW s \in Servers, NEW st \in {"ready", "allocated"}, View(s) = st
    PROVE  sstate[s] = st /\ s \notin PlanLocked
BY DEF View

LEMMA SelectStopsKeepsInv ==
    ASSUME FleetInv, PlanUnchanged, UNCHANGED <<snode, sver>>,
           NEW rows \in SUBSET Viewed({"ready"}),
           NEW locking \in PlanPcs \ {"idle", "fill"},
           NEW next \in PlanPcs \ {"idle", "fill"},
           SelectStops(rows, locking, next)
    PROVE  FleetInv'
<1>0. TypeOK /\ RowInv /\ PlanRows /\ plan \in PlanType /\ rows \subseteq Servers
      /\ UNCHANGED <<sstate, smatch>>
  BY DEF FleetInv, RowInv, TypeOK, PlanUnchanged, Viewed
<1>1. \A s \in rows : sstate[s] # "none"
  BY <1>0, ViewReal DEF Viewed
<1>2. plan' = [plan EXCEPT !.cand = rows, !.pc = IF rows = {} THEN next ELSE locking]
  BY DEF SelectStops
<1>3. plan' \in PlanType /\ plan'.ins = plan.ins /\ PlanLocked' = PlanLocked
  BY <1>0, <1>2 DEF PlanType, PlanLocked
<1>4. PlanRows'
  BY <1>0, <1>1, <1>2 DEF PlanRows, PlanType
<1> QED
  BY <1>3, <1>4, PlanStepKeepsInv

LEMMA TakeStopsKeepsInv ==
    ASSUME FleetInv, NEW locking \in PlanPcs, NEW next \in PlanPcs \ {"idle", "fill"},
           TakeStops(locking, next)
    PROVE  FleetInv'
<1>0. TypeOK /\ RowInv /\ PlanRows /\ plan \in PlanType
      /\ PlanUnchanged /\ UNCHANGED <<snode, sver, sstate, smatch>>
      /\ plan' = [plan EXCEPT !.pc = next, !.cand = {}, !.stops = @ \cup plan.cand]
      /\ plan.cand \cap (Claimed \cup ReportLocked) = {}
  BY DEF FleetInv, RowInv, TypeOK, TakeStops, PlanUnchanged
<1>1. plan' \in PlanType /\ plan'.ins = plan.ins /\ PlanLocked' = PlanLocked \cup plan.cand
  BY <1>0 DEF PlanType, PlanLocked
<1>2. PlanRows'
  BY <1>0 DEF PlanRows, PlanType
<1> QED
  BY <1>0, <1>1, <1>2, PlanStepKeepsInv

\* ORDER BY .. LIMIT k returns some of the rows, and counts are numbers.
LEMMA AnyOfSubset ==
    ASSUME NEW S, NEW k, NEW T \in AnyOf(S, k) PROVE T \subseteq S
BY DEF AnyOf, kSubset

LEMMA CountIsNumber ==
    ASSUME NEW S \in SUBSET Servers PROVE Cardinality(S) \in Nat
BY FleetAssumption, FS_Subset, FS_CardinalityType

\* stopDeprecated takes ready rows without a match that nobody has locked.
LEMMA EvictableIsFree ==
    ASSUME NEW eligibleOnly \in BOOLEAN, NEW s \in Evictable(eligibleOnly)
    PROVE  /\ s \in Servers /\ sstate[s] = "ready" /\ smatch[s] = NoMatch
           /\ s \notin Claimed \cup ReportLocked
BY ViewReal DEF Evictable, Viewed

LEMMA EvictKeepsInv ==
    ASSUME FleetInv, EvictDeprecated PROVE FleetInv'
<1>0. TypeOK /\ RowInv /\ PlanRows /\ plan \in PlanType
      /\ PlanUnchanged /\ UNCHANGED <<snode, sver, sstate, smatch>>
  BY DEF FleetInv, RowInv, TypeOK, EvictDeprecated, PlanUnchanged
<1> DEFINE Todo == IF plan.dep = NoVersion THEN <<plan.act>>
                   ELSE <<plan.act, plan.dep>>
           Counted(gone) == [plan EXCEPT !.pc = "version",
                   !.total = Cardinality(Viewed(Live)),
                   !.stops = @ \cup gone, !.evicted = gone, !.todo = Todo]
<1>1. PICK gone \in SUBSET (Evictable(TRUE) \cup Evictable(FALSE)) : plan' = Counted(gone)
  <2>0. PICK first \in AnyOf(Evictable(TRUE), Blocked) :
         \E more \in AnyOf(Evictable(FALSE) \ first, StillNeeded(Cardinality(first))) :
          plan' = [plan EXCEPT !.pc = "version",
                    !.total = Cardinality(Viewed(Live)),
                    !.stops = @ \cup first \cup more, !.evicted = first \cup more,
                    !.todo = Todo]
    BY DEF EvictDeprecated
  <2>1. PICK more \in AnyOf(Evictable(FALSE) \ first, StillNeeded(Cardinality(first))) :
          plan' = [plan EXCEPT !.pc = "version",
                    !.total = Cardinality(Viewed(Live)),
                    !.stops = @ \cup first \cup more, !.evicted = first \cup more,
                    !.todo = Todo]
    BY <2>0
  <2>2. first \subseteq Evictable(TRUE) /\ more \subseteq Evictable(FALSE)
    BY AnyOfSubset
  <2>3. plan.stops \cup first \cup more = plan.stops \cup (first \cup more)
    OBVIOUS
  <2> QED
    BY <2>1, <2>2, <2>3
<1>2. \A s \in gone : /\ s \in Servers /\ sstate[s] = "ready" /\ smatch[s] = NoMatch
                      /\ s \notin Claimed \cup ReportLocked
  BY EvictableIsFree
<1>3. plan' \in PlanType
  <2>1. Cardinality(Viewed(Live)) \in Int
    BY CountIsNumber DEF Viewed
  <2>2. Todo \in Seq(Versions \cup {NoVersion})
    <3>1. plan.act \in Versions \cup {NoVersion} /\ plan.dep \in Versions \cup {NoVersion}
      BY <1>0 DEF PlanType
    <3>2. /\ <<plan.act>> \in Seq(Versions \cup {NoVersion})
          /\ <<plan.act, plan.dep>> \in Seq(Versions \cup {NoVersion})
      BY <3>1
    <3> QED
      BY <3>2
  <2>3. gone \subseteq Servers
    BY <1>2
  <2> HIDE DEF Todo
  <2> QED
    BY <1>0, <1>1, <2>1, <2>2, <2>3 DEF PlanType, PlanPcs
<1>4. plan'.ins = plan.ins /\ PlanLocked' = PlanLocked \cup gone
  BY <1>0, <1>1 DEF PlanType, PlanLocked
<1>5. PlanRows'
  BY <1>0, <1>1, <1>2 DEF PlanRows, PlanType
<1> QED
  BY <1>0, <1>2, <1>3, <1>4, <1>5, PlanStepKeepsInv

LEMMA CountKeepsInv ==
    ASSUME FleetInv, CountVersion PROVE FleetInv'
<1> USE FleetAssumption
<1>0. TypeOK /\ RowInv /\ PlanRows /\ plan \in PlanType
      /\ PlanUnchanged /\ UNCHANGED <<snode, sver, sstate, smatch>>
      /\ plan.todo # <<>>
  BY DEF FleetInv, RowInv, TypeOK, CountVersion, PlanUnchanged
<1>1. PICK left \in Int, surplus \in Int :
        plan' = [plan EXCEPT !.pc = "fill", !.left = left, !.surplus = surplus]
  <2> DEFINE v == Head(plan.todo)
             warm == Cardinality(Viewed({"creating", "ready"}) \cap OfVersion(v))
             ready == Cardinality(Viewed({"ready"}) \cap OfVersion(v))
  <2>1. warm \in Int /\ ready \in Int
    BY CountIsNumber DEF Viewed
  <2>2. BufferOf(v) \in Int /\ plan.total \in Int
    BY <1>0 DEF BufferOf, DeprecatedBuffer, SmallerOf, PlanType
  <2>3. SmallerOf(BufferOf(v) - warm, MaxServers - plan.total) \in Int
    BY <2>1, <2>2 DEF SmallerOf
  <2>4. ready - BufferOf(v) \in Int
    BY <2>1, <2>2
  <2>5. plan' = [plan EXCEPT !.pc = "fill",
                   !.left = SmallerOf(BufferOf(v) - warm, MaxServers - plan.total),
                   !.surplus = ready - BufferOf(v)]
    BY DEF CountVersion
  <2> QED
    BY <2>3, <2>4, <2>5
<1>2. plan' \in PlanType /\ plan'.ins = plan.ins /\ PlanLocked' = PlanLocked
  BY <1>0, <1>1 DEF PlanType, PlanPcs, PlanLocked
<1>3. PlanRows'
  BY <1>0, <1>1 DEF PlanRows, PlanType
<1> QED
  BY <1>0, <1>2, <1>3, PlanStepKeepsInv

LEMMA StopSurplusKeepsInv ==
    ASSUME FleetInv, StopSurplus PROVE FleetInv'
<1>0. TypeOK /\ RowInv /\ PlanRows /\ plan \in PlanType
      /\ PlanUnchanged /\ UNCHANGED <<snode, sver, sstate, smatch>>
      /\ plan.todo # <<>>
  BY DEF FleetInv, RowInv, TypeOK, StopSurplus, PlanUnchanged, PlanRows
<1>1. PICK rows \in AnyOf(Viewed({"ready"}) \cap OfVersion(Head(plan.todo)), plan.surplus) :
        plan' = [plan EXCEPT !.cand = rows, !.left = 0, !.surplus = 0,
                   !.pc = IF rows = {} THEN "version" ELSE "surplusLock",
                   !.todo = Tail(@)]
  BY DEF StopSurplus
<1>2. rows \subseteq Servers /\ \A s \in rows : sstate[s] # "none"
  <2>1. rows \subseteq Viewed({"ready"}) \cap OfVersion(Head(plan.todo))
    BY AnyOfSubset
  <2> QED
    BY <2>1, ViewReal DEF Viewed
<1>3. Tail(plan.todo) \in Seq(Versions \cup {NoVersion})
  BY <1>0 DEF PlanType
<1>4. plan' \in PlanType /\ plan'.ins = plan.ins /\ PlanLocked' = PlanLocked
  <2>1. PICK pc \in PlanPcs, rest \in Seq(Versions \cup {NoVersion}), zero \in Int :
          plan' = [plan EXCEPT !.cand = rows, !.left = zero, !.surplus = zero,
                     !.pc = pc, !.todo = rest]
    <3>1. (IF rows = {} THEN "version" ELSE "surplusLock") \in PlanPcs
      BY DEF PlanPcs
    <3>2. 0 \in Int
      OBVIOUS
    <3>3. plan' = [plan EXCEPT !.cand = rows, !.left = 0, !.surplus = 0,
                     !.pc = IF rows = {} THEN "version" ELSE "surplusLock",
                     !.todo = Tail(plan.todo)]
      BY <1>1
    <3> QED
      BY <1>3, <3>1, <3>2, <3>3, Zenon
  <2>2. plan' \in PlanType
    <3>0. plan \in PlanType
      BY <1>0
    <3>1. rows \in SUBSET Servers
      BY <1>2
    <3> QED
      BY <3>0, <2>1, <3>1 DEF PlanType
  <2>3. plan'.ins = plan.ins /\ plan'.stops = plan.stops /\ plan'.drains = plan.drains
    BY <1>0, <2>1 DEF PlanType
  <2> QED
    BY <2>2, <2>3 DEF PlanLocked
<1>5. PlanRows'
  BY <1>0, <1>1, <1>2 DEF PlanRows, PlanType
<1> QED
  BY <1>0, <1>4, <1>5, PlanStepKeepsInv

LEMMA DrainLiveKeepsInv ==
    ASSUME FleetInv, DrainLiveOutside PROVE FleetInv'
<1> DEFINE rows == Viewed({"allocated"}) \cap OutsideWindow
<1>0. TypeOK /\ RowInv /\ PlanRows /\ plan \in PlanType
      /\ PlanUnchanged /\ UNCHANGED <<snode, sver, sstate, smatch>>
      /\ rows \cap ReportLocked = {}
      /\ plan' = [plan EXCEPT !.pc = "commit", !.drains = rows]
  BY DEF FleetInv, RowInv, TypeOK, DrainLiveOutside, PlanUnchanged
<1>1. \A s \in rows : s \in Servers /\ sstate[s] = "allocated" /\ s \notin Claimed
  <2>1. \A s \in rows : s \in Servers /\ sstate[s] = "allocated"
    BY ViewReal DEF Viewed
  <2> QED
    BY <1>0, <2>1 DEF RowInv, ClaimsHoldReady, Claimed
<1>2. plan' \in PlanType /\ plan'.ins = plan.ins
      /\ PlanLocked' \subseteq PlanLocked \cup rows
  BY <1>0, <1>1 DEF PlanType, PlanPcs, PlanLocked
<1>3. PlanRows'
  BY <1>0, <1>1 DEF PlanRows, PlanType
<1> QED
  BY <1>0, <1>1, <1>2, <1>3, PlanStepKeepsInv

\* Inserted rows are nobody's until the commit.
LEMMA InsertKeepsInv ==
    ASSUME FleetInv, NEW s \in Servers, NEW n \in Nodes, InsertServer(s, n)
    PROVE  FleetInv'
<1> USE FleetAssumption
<1>0. TypeOK /\ RowInv /\ PlanRows /\ plan \in PlanType
      /\ sstate[s] = "none" /\ plan.todo # <<>> /\ plan.pc = "fill"
      /\ snode' = [snode EXCEPT ![s] = n] /\ sver' = [sver EXCEPT ![s] = Head(plan.todo)]
      /\ plan' = [plan EXCEPT !.ins = @ \cup {s}, !.total = @ + 1, !.left = @ - 1]
      /\ PlanUnchanged /\ UNCHANGED <<sstate, smatch, req, held>>
  BY DEF FleetInv, RowInv, TypeOK, InsertServer, PlanRows, PlanUnchanged, reportVars
<1>1. plan' \in PlanType /\ PlanLocked' = PlanLocked
  <2>1. plan.total + 1 \in Int /\ plan.left - 1 \in Int
    BY <1>0 DEF PlanType
  <2>2. plan.ins \cup {s} \in SUBSET Servers
    BY <1>0 DEF PlanType
  <2> QED
    BY <1>0, <2>1, <2>2 DEF PlanType, PlanLocked
<1>2. Head(plan.todo) \in Versions \cup {NoVersion}
  BY <1>0 DEF PlanType
<1>3. TypeOK'
  <2>1. \A t \in Servers : snode'[t] = IF t = s THEN n ELSE snode[t]
    BY <1>0 DEF TypeOK
  <2>2. plan'.ins = plan.ins \cup {s}
    BY <1>0 DEF PlanType
  <2>3. \A t \in Servers : (snode'[t] = NoNode) <=> (sstate'[t] = "none" /\ t \notin plan'.ins)
    BY <1>0, <2>1, <2>2 DEF TypeOK
  <2> QED
    BY <1>0, <1>1, <1>2, <2>3 DEF TypeOK, PlanUnchanged, nodeVars, matchVars,
                                  windowVars, reportVars
<1>4. PlanRows'
  BY <1>0 DEF PlanRows, PlanType
<1>5. LocksDisjoint'
  <2>1. Claimed' = Claimed /\ \A o \in Nodes : RowsOn(o) \subseteq RowsOn(o)'
    BY <1>0 DEF Claimed, RowsOn, TypeOK
  <2> QED
    BY <1>0, <1>1, <2>1 DEF RowInv, LocksDisjoint
<1>6. MatchedRowsExist' /\ OneServerPerMatch' /\ ClaimsHoldReady'
  BY <1>0 DEF RowInv, MatchedRowsExist, OneServerPerMatch, ClaimsHoldReady
<1> QED
  BY <1>3, <1>4, <1>5, <1>6 DEF FleetInv, RowInv

LEMMA CommitKeepsInv ==
    ASSUME FleetInv, PlanCommit PROVE FleetInv'
<1>0. /\ TypeOK /\ RowInv /\ PlanRows /\ plan \in PlanType
      /\ sstate' = [s \in Servers |-> View(s)] /\ plan' = IdlePlan
      /\ UNCHANGED <<snode, smatch, req, held>>
  BY DEF FleetInv, RowInv, TypeOK, PlanCommit, reportVars
<1>1. IdlePlan \in PlanType /\ IdlePlan.ins = {}
  BY DEF IdlePlan, PlanType, PlanPcs
<1>2. PlanLocked \subseteq Servers
  BY <1>0 DEF PlanLocked, PlanType
<1>3. \A s \in Servers :
        /\ sstate'[s] = "none" <=> sstate[s] = "none" /\ s \notin plan.ins
        /\ sstate'[s] \in ServerStates
        /\ s \notin PlanLocked /\ sstate[s] # "none" => sstate'[s] = sstate[s]
  BY <1>0 DEF View, PlanLocked, PlanRows, TypeOK, ServerStates
<1>4. TypeOK'
  BY <1>0, <1>1, <1>3 DEF PlanCommit, TypeOK, nodeVars, matchVars, windowVars, reportVars
<1>5. MatchedRowsExist' /\ OneServerPerMatch'
  BY <1>0, <1>3 DEF RowInv, MatchedRowsExist, OneServerPerMatch, PlanRows
<1>6. Claimed' = Claimed /\ PlanLocked' = {}
  BY <1>0 DEF Claimed, PlanLocked, IdlePlan
<1>7. ClaimsHoldReady'
  <2>1. \A s \in Claimed \cap Servers : sstate[s] = "ready" => sstate'[s] = "ready"
    BY <1>0, <1>3 DEF RowInv, LocksDisjoint
  <2> QED
    BY <1>0, <2>1 DEF RowInv, ClaimsHoldReady, Claimed
<1>8. LocksDisjoint'
  <2>1. \A n \in Nodes : RowsOn(n) \subseteq RowsOn(n)'
    BY <1>0, <1>3 DEF RowsOn
  <2> QED
    BY <1>0, <1>6, <2>1 DEF RowInv, LocksDisjoint
<1>9. PlanRows'
  BY <1>0 DEF PlanRows, IdlePlan
<1> QED
  BY <1>4, <1>5, <1>7, <1>8, <1>9 DEF FleetInv, RowInv

LEMMA StuckKeepsInv ==
    ASSUME FleetInv, NEW stuck \in SUBSET Servers, FailStuckCreating(stuck)
    PROVE  FleetInv'
<1>1. /\ TypeOK /\ RowInv /\ UNCHANGED <<snode, smatch, req, held, plan>>
      /\ \A s \in Servers : sstate'[s] # sstate[s]
              => s \notin Locked /\ sstate[s] = "creating" /\ sstate'[s] = "failed"
  BY DEF FleetInv, FailStuckCreating, reportVars
<1>2. RowInv'
  BY <1>1, StateChangeKeepsRows DEF TypeOK, Locked
<1>3. TypeOK'
  BY <1>1 DEF FailStuckCreating, TypeOK, ServerStates, nodeVars, matchVars,
              windowVars, reportVars
<1> QED
  BY <1>2, <1>3 DEF FleetInv

LEMMA PlanKeepsInv ==
    ASSUME FleetInv, PlanNext PROVE FleetInv'
<1>1. ASSUME StopOnLeavingNodes \/ StopOutside PROVE FleetInv'
  <2>1. PlanUnchanged /\ UNCHANGED <<snode, sver>>
    BY <1>1 DEF StopOnLeavingNodes, StopOutside
  <2>2. CASE StopOnLeavingNodes
    <3> DEFINE rows == {s \in Viewed({"ready"}) : nstate[snode[s]] # "active"}
    <3>1. SelectStops(rows, "nodesLock", "evict") /\ rows \subseteq Viewed({"ready"})
      BY <2>2 DEF StopOnLeavingNodes
    <3> QED
      BY <2>1, <3>1, SelectStopsKeepsInv DEF PlanPcs
  <2>3. CASE StopOutside
    <3>1. SelectStops(Viewed({"ready"}) \cap OutsideWindow, "outsideLock", "live")
      BY <2>3 DEF StopOutside
    <3> QED
      BY <2>1, <3>1, SelectStopsKeepsInv DEF PlanPcs
  <2> QED
    BY <1>1, <2>2, <2>3
<1>2. ASSUME TakeOnLeavingNodes \/ TakeSurplus \/ TakeOutside PROVE FleetInv'
  BY <1>2, TakeStopsKeepsInv DEF TakeOnLeavingNodes, TakeSurplus, TakeOutside, PlanPcs
<1> QED
  BY <1>1, <1>2, PlanReadsKeepInv, EvictKeepsInv, CountKeepsInv, InsertKeepsInv,
     StopSurplusKeepsInv, DrainLiveKeepsInv, CommitKeepsInv, StuckKeepsInv DEF PlanNext

-----------------------------------------------------------------------------
(* The invariant, and what follows from it.                                *)

LEMMA InitEstablishesInv == Init => FleetInv
<1> SUFFICES ASSUME Init PROVE FleetInv
  OBVIOUS
<1> USE FleetAssumption, WarmAssumption
<1>1. IdlePlan \in PlanType /\ IdlePlan.ins = {}
  BY DEF IdlePlan, PlanType, PlanPcs
<1>2. TypeOK
  BY <1>1 DEF Init, TypeOK, ServerStates, NodeStates, MatchStates, RequestType,
              RequestPcs, IdleLease, LeasePcs
<1>3. Claimed = {} /\ PlanLocked = {}
  BY DEF Init, Claimed, PlanLocked, IdlePlan
<1>4. RowInv
  BY <1>3 DEF Init, RowInv, MatchedRowsExist, OneServerPerMatch, ClaimsHoldReady,
              LocksDisjoint, RowsOn, PlanRows, IdlePlan
<1> QED
  BY <1>2, <1>4 DEF FleetInv

LEMMA StepKeepsInv ==
    ASSUME FleetInv, [Next]_vars PROVE FleetInv'
<1>1. CASE UNCHANGED vars
  <2>1. RowFrame
    BY <1>1 DEF vars, serverVars, reportVars, RowFrame
  <2>2. TypeOK'
    BY <1>1 DEF FleetInv, TypeOK, vars, serverVars, nodeVars, matchVars, windowVars,
                reportVars
  <2> QED
    BY <2>1, <2>2, FrameKeepsRows DEF FleetInv
<1>2. CASE AllocateNext
  BY <1>2, AllocateKeepsInv DEF AllocateNext
<1>3. CASE ReportNext
  <2>1. ASSUME NEW n \in Nodes, ApplyHeartbeat(n) \/ HelloSync(n) PROVE FleetInv'
    BY <2>1, ReportCommitKeepsInv DEF ApplyHeartbeat, HelloSync
  <2> QED
    BY <1>3, <2>1, ReportBeginKeepsInv DEF ReportNext
<1>4. CASE EventNext
  <2>1. "finished" \in {"finished", "aborted"}
    OBVIOUS
  <2> QED
    BY <1>4, <2>1, EventKeepsInv DEF EventNext
<1>5. CASE LeaseNext \/ NodeNext
  BY <1>5, LeaseKeepsInv, NodeKeepsInv DEF NodeNext
<1> QED
  BY <1>1, <1>2, <1>3, <1>4, <1>5, PlanKeepsInv, VersionKeepsInv, CrashKeepsInv DEF Next

LEMMA FleetInvariant == Spec => []FleetInv
BY InitEstablishesInv, StepKeepsInv, PTL DEF Spec

\* Every column keeps its domain, and a row is placed exactly when it exists:
\* for any number of servers, nodes, matches and requests.
THEOREM TypeCorrect == Spec => []TypeOK
<1>1. FleetInv => TypeOK
  BY DEF FleetInv
<1> QED
  BY <1>1, FleetInvariant, PTL

\* Two servers never carry one match_id, whoever claims, reports, reaps or
\* crashes in between.
THEOREM MatchHasOneServer == Spec => []OneServerPerMatch
<1>1. FleetInv => OneServerPerMatch
  BY DEF FleetInv, RowInv
<1> QED
  BY <1>1, FleetInvariant, PTL

\* The rows stopDeprecated took stay ready, matchless and unclaimed until the
\* pass commits: no live match is stopped to make room.
THEOREM EvictionSparesMatches == Spec => []EvictionTakesNoMatch
<1>1. FleetInv => EvictionTakesNoMatch
  BY DEF FleetInv, RowInv, TypeOK, PlanType, PlanRows, LocksDisjoint, PlanLocked,
         EvictionTakesNoMatch
<1> QED
  BY <1>1, FleetInvariant, PTL

-----------------------------------------------------------------------------
(* What a step may do to a server's state, to its match and to matches.    *)

\* Only claims and a crash touch requests, only a claim's commit match_id.
LEMMA QuietSteps ==
    ASSUME [Next]_vars, ~AllocateNext, ~MasterCrash
    PROVE  UNCHANGED <<smatch, req>>
<1>1. CASE UNCHANGED vars
  BY <1>1 DEF vars, serverVars
<1>2. CASE ReportNext
  BY <1>2 DEF ReportNext, ReportBegin, ApplyHeartbeat, HelloSync, ReportCommit, serverVars
<1>3. CASE EventNext
  BY <1>3 DEF EventNext, ServerFailedEvent, ServerReadyEvent, MatchStart, MatchEnd,
              EventUnchanged
<1>4. CASE LeaseNext \/ NodeNext
  BY <1>4 DEF LeaseNext, QuarantineStaleNodes, FailQuarantinedSelect,
              FailQuarantinedServers, AbortLostMatches, MarkDownNodes, NodeNext, Tick,
              DrainNode, UndrainNode, RevokeNode, NodeUnchanged, serverVars
<1>5. CASE PlanNext
  BY <1>5 DEF PlanNext, FailStuckCreating, ListFleet, ReadWindow, StopOnLeavingNodes,
              TakeOnLeavingNodes, EvictDeprecated, CountVersion, InsertServer,
              StopSurplus, TakeSurplus, StopOutside, TakeOutside, TakeStops,
              DrainLiveOutside, PlanCommit, PlanUnchanged
<1>6. CASE VersionStep \/ DisableExpired
  BY <1>6 DEF VersionStep, DisableExpired, serverVars
<1> QED
  BY <1>1, <1>2, <1>3, <1>4, <1>5, <1>6 DEF Next

\* The step is the Hello of the row's node.
HelloOf(s) == \E n \in Nodes : snode[s] = n /\ HelloSync(n)

\* How a server comes to be warm or allocated: by insertion, by its own
\* progress, by a claim, or by a Hello that brings a failed one back.
LEMMA StateOrigin ==
    ASSUME FleetInv, [Next]_vars, NEW s \in Servers,
           sstate'[s] \in {"creating", "ready", "allocated"}, sstate'[s] # sstate[s]
    PROVE  \/ sstate[s] \in {"none", "creating"}
           \/ sstate[s] = "ready" /\ sstate'[s] = "allocated"
           \/ sstate[s] = "failed" /\ s \in revived' /\ HelloOf(s)
<1>0. TypeOK /\ RowInv
  BY DEF FleetInv
<1>1. CASE UNCHANGED vars
  BY <1>1 DEF vars, serverVars
<1>2. ASSUME NEW r \in Requests, LookUp(r) \/ Claim(r) \/ ClaimCommit(r) \/ ClaimLost(r)
      PROVE  sstate[s] = "ready" /\ sstate'[s] = "allocated"
  BY <1>0, <1>2 DEF LookUp, Claim, ClaimCommit, ClaimLost, AllocUnchanged, TypeOK,
                    RowInv, ClaimsHoldReady
<1>3. ASSUME NEW n \in Nodes, NEW rep \in [held[n] -> Reports], NEW resurrect \in BOOLEAN,
             ReportCommit(n, rep, resurrect), resurrect => "hello" \in Inputs
      PROVE  \/ sstate[s] \in {"none", "creating"}
             \/ sstate[s] = "ready" /\ sstate'[s] = "allocated"
             \/ sstate[s] = "failed" /\ s \in revived' /\ HelloOf(s)
  <2>1. s \in held[n] /\ sstate'[s] = Reconciled(s, rep, resurrect)
    BY <1>3 DEF ReportCommit
  <2>2. CASE TransitionAllowed(sstate[s], rep[s])
    BY <2>1, <2>2 DEF Reconciled, Resurrected, TransitionAllowed
  <2>3. CASE ~TransitionAllowed(sstate[s], rep[s])
    <3>1. Resurrected(s, rep, resurrect)
      BY <2>1, <2>3 DEF Reconciled
    <3>2. s \in revived'
      BY <1>3, <2>1, <3>1 DEF ReportCommit
    <3>3. resurrect = TRUE /\ sstate[s] = "failed"
      BY <3>1 DEF Resurrected
    <3>4. HelloSync(n)
      BY <1>3, <3>3 DEF HelloSync
    <3>5. snode[s] = n
      BY <1>0, <2>1 DEF RowInv, LocksDisjoint, RowsOn
    <3> QED
      BY <3>2, <3>3, <3>4, <3>5 DEF HelloOf
  <2> QED
    BY <2>2, <2>3
<1>4. CASE ReportNext
  BY <1>3, <1>4 DEF ReportNext, ReportBegin, ApplyHeartbeat, HelloSync, serverVars
<1>5. CASE EventNext
  BY <1>0, <1>5 DEF EventNext, ServerFailedEvent, ServerReadyEvent, MatchStart, MatchEnd,
              EventUnchanged, TransitionAllowed, TypeOK
<1>6. CASE LeaseNext \/ NodeNext
  BY <1>6 DEF LeaseNext, QuarantineStaleNodes, FailQuarantinedSelect,
              FailQuarantinedServers, AbortLostMatches, MarkDownNodes, NodeNext, Tick,
              DrainNode, UndrainNode, RevokeNode, NodeUnchanged, serverVars
<1>7. CASE PlanNext
  <2>1. CASE PlanCommit
    BY <1>0, <2>1 DEF PlanCommit, View, RowInv, PlanRows
  <2>2. ASSUME NEW S \in SUBSET Servers, FailStuckCreating(S) PROVE FALSE
    BY <2>2 DEF FailStuckCreating
  <2>3. CASE PlanUnchanged
    BY <2>3 DEF PlanUnchanged
  <2> QED
    BY <1>7, <2>1, <2>2, <2>3 DEF PlanNext, ListFleet, ReadWindow, StopOnLeavingNodes,
              TakeOnLeavingNodes, EvictDeprecated, CountVersion, InsertServer,
              StopSurplus, TakeSurplus, StopOutside, TakeOutside, TakeStops,
              DrainLiveOutside
<1>8. CASE VersionStep \/ DisableExpired \/ MasterCrash
  BY <1>8 DEF VersionStep, DisableExpired, MasterCrash, serverVars
<1> QED
  BY <1>1, <1>2, <1>4, <1>5, <1>6, <1>7, <1>8 DEF Next, AllocateNext

\* A heartbeat leaves a failed or reaped row as it is, whatever it reports.
LEMMA HeartbeatRevivesNone ==
    ASSUME NEW n \in Nodes, ApplyHeartbeat(n), NEW s \in Servers,
           sstate[s] \in {"failed", "reaped"}
    PROVE  sstate'[s] = sstate[s]
<1>1. PICK rep \in [held[n] -> Reports] : ReportCommit(n, rep, FALSE)
  BY DEF ApplyHeartbeat
<1>2. Reconciled(s, rep, FALSE) = sstate[s]
  BY DEF Reconciled, Resurrected, TransitionAllowed
<1>3. sstate' = [t \in Servers |->
                    IF t \in held[n] THEN Reconciled(t, rep, FALSE)
                    ELSE IF snode[t] = n /\ sstate[t] = "draining" THEN "reaped"
                    ELSE sstate[t]]
  BY <1>1 DEF ReportCommit
<1> QED
  BY <1>2, <1>3

\* A reaped server never comes back, a failed one only when its agent reports
\* it alive in a Hello, never by a heartbeat.
THEOREM RevivalNeedsHello == Spec => OnlyHelloRevives
<1>1. ASSUME FleetInv, [Next]_vars, NEW s \in Servers, sstate[s] \in {"failed", "reaped"},
             sstate'[s] \in {"creating", "ready", "allocated"}
      PROVE  /\ sstate[s] = "failed" /\ s \in revived'
             /\ \E n \in Nodes : snode[s] = n /\ HelloSync(n)
             /\ \A n \in Nodes : ~ApplyHeartbeat(n)
  <2>1. sstate[s] = "failed" /\ s \in revived' /\ HelloOf(s)
    BY <1>1, StateOrigin
  <2>2. \A n \in Nodes : ~ApplyHeartbeat(n)
    BY <1>1, HeartbeatRevivesNone
  <2> QED
    BY <2>1, <2>2 DEF HelloOf
<1>2. FleetInv /\ [Next]_vars
        => [\A s \in Servers :
              sstate[s] \in {"failed", "reaped"}
                /\ sstate'[s] \in {"creating", "ready", "allocated"}
              => /\ sstate[s] = "failed" /\ s \in revived'
                 /\ \E n \in Nodes : snode[s] = n /\ HelloSync(n)
                 /\ \A n \in Nodes : ~ApplyHeartbeat(n)]_vars
  BY <1>1
<1> QED
  BY <1>2, FleetInvariant, PTL DEF Spec, OnlyHelloRevives

\* An answered request names the row that carries its match, and a row that
\* carries one is past being warm.
AnswersHold ==
    \A r \in Requests : req[r].pc = "done"
        => req[r].row \in Servers /\ smatch[req[r].row] = MatchOf[r]

MatchedIsNotWarm ==
    \A s \in Servers : smatch[s] # NoMatch => sstate[s] \notin {"creating", "ready"}

AnswerInv == FleetInv /\ AnswersHold /\ MatchedIsNotWarm

LEMMA StepKeepsAnswers ==
    ASSUME "hello" \notin Inputs, AnswerInv, [Next]_vars PROVE AnswerInv'
<1> USE FleetAssumption
<1>0. FleetInv /\ FleetInv' /\ TypeOK /\ TypeOK' /\ RowInv
  BY StepKeepsInv DEF AnswerInv, FleetInv
<1>1. ASSUME UNCHANGED smatch PROVE MatchedIsNotWarm'
  <2>1. ASSUME NEW s \in Servers, smatch'[s] # NoMatch, sstate'[s] \in {"creating", "ready"}
        PROVE  FALSE
    <3>1. sstate[s] \notin {"none", "creating", "ready"}
      BY <1>0, <1>1, <2>1 DEF AnswerInv, MatchedIsNotWarm, RowInv, MatchedRowsExist
    <3> QED
      BY <1>0, <2>1, <3>1, StateOrigin DEF HelloOf, HelloSync
  <2> QED
    BY <2>1 DEF MatchedIsNotWarm
<1>2. CASE ~AllocateNext /\ ~MasterCrash
  <2>1. UNCHANGED <<smatch, req>>
    BY <1>2, QuietSteps
  <2> QED
    BY <1>0, <1>1, <2>1 DEF AnswerInv, AnswersHold
<1>3. CASE MasterCrash
  <2>1. UNCHANGED smatch /\ \A r \in Requests : req'[r].pc = "done" => req'[r] = req[r]
    BY <1>3 DEF MasterCrash
  <2> QED
    BY <1>0, <1>1, <2>1 DEF AnswerInv, AnswersHold
<1>4. ASSUME NEW r \in Requests, LookUp(r) \/ Claim(r) \/ ClaimLost(r) PROVE AnswerInv'
  <2>1. UNCHANGED <<smatch, sstate>>
    BY <1>4 DEF LookUp, Claim, ClaimLost
  <2>2. \A q \in Requests : req'[q].pc = "done" =>
          req'[q] = req[q] \/ (q = r /\ req'[q].row \in HolderOf(MatchOf[r]))
    <3> DEFINE Answered(new) ==
               \A q \in Requests : new[q].pc = "done" =>
                 new[q] = req[q] \/ (q = r /\ new[q].row \in HolderOf(MatchOf[r]))
    <3>1. CASE LookUp(r)
      <4>1. CASE req' = [req EXCEPT ![r].pc = "missed"]
        BY <1>0, <4>1 DEF TypeOK, RequestType
      <4>2. ASSUME NEW s \in HolderOf(MatchOf[r]),
                   req' = [req EXCEPT ![r] = [pc |-> "done", row |-> s]]
            PROVE  Answered(req')
        BY <1>0, <4>2 DEF TypeOK, RequestType
      <4> QED
        BY <3>1, <4>1, <4>2 DEF LookUp
    <3>2. CASE Claim(r)
      BY <1>0, <3>2 DEF Claim, TypeOK, RequestType
    <3>3. CASE ClaimLost(r)
      BY <1>0, <3>3 DEF ClaimLost, TypeOK, RequestType
    <3> QED
      BY <1>4, <3>1, <3>2, <3>3
  <2>3. AnswersHold'
    BY <2>1, <2>2 DEF AnswerInv, AnswersHold, HolderOf
  <2> QED
    BY <1>0, <1>1, <2>1, <2>3 DEF AnswerInv
<1>5. ASSUME NEW r \in Requests, ClaimCommit(r) PROVE AnswerInv'
  <2> DEFINE s == req[r].row
  <2>1. /\ s \in Servers /\ sstate[s] = "ready" /\ smatch[s] = NoMatch
    BY <1>0, <1>5 DEF ClaimCommit, RowInv, ClaimsHoldReady, AnswerInv, MatchedIsNotWarm
  <2>2. /\ sstate' = [sstate EXCEPT ![s] = "allocated"]
        /\ smatch' = [smatch EXCEPT ![s] = MatchOf[r]]
        /\ req' = [req EXCEPT ![r].pc = "done"]
    BY <1>5 DEF ClaimCommit
  <2>3. MatchedIsNotWarm'
    BY <1>0, <2>1, <2>2 DEF AnswerInv, MatchedIsNotWarm, TypeOK
  <2>4. ASSUME NEW q \in Requests, req'[q].pc = "done"
        PROVE  req'[q].row \in Servers /\ smatch'[req'[q].row] = MatchOf[q]
    <3>1. CASE q = r
      BY <1>0, <2>1, <2>2, <3>1 DEF TypeOK, RequestType
    <3>2. CASE q # r
      <4>1. req'[q] = req[q] /\ req[q].row \in Servers /\ smatch[req[q].row] = MatchOf[q]
        BY <1>0, <2>2, <2>4, <3>2 DEF AnswerInv, AnswersHold, TypeOK
      <4>2. req[q].row # s
        BY <2>1, <4>1
      <4> QED
        BY <1>0, <2>2, <4>1, <4>2 DEF TypeOK
    <3> QED
      BY <3>1, <3>2
  <2> QED
    BY <1>0, <2>3, <2>4 DEF AnswerInv, AnswersHold
<1> QED
  BY <1>2, <1>3, <1>4, <1>5 DEF AllocateNext

\* As long as no Hello brings lost servers back, every answer ever given for a
\* match_id names one and the same server.
THEOREM AnswersAgree ==
    ASSUME "hello" \notin Inputs PROVE Spec => []SameMatchSameServer
<1> USE FleetAssumption
<1>1. Init => AnswerInv
  BY InitEstablishesInv DEF Init, AnswerInv, AnswersHold, MatchedIsNotWarm
<1>2. AnswerInv /\ [Next]_vars => AnswerInv'
  BY StepKeepsAnswers
<1>3. AnswerInv => SameMatchSameServer
  BY DEF AnswerInv, AnswersHold, FleetInv, RowInv, OneServerPerMatch, SameMatchSameServer
<1> QED
  BY <1>1, <1>2, <1>3, PTL DEF Spec

-----------------------------------------------------------------------------
(* Finished matches.                                                       *)

\* What moves a match: a durable claim of its own, or, once a server carries
\* it, its events and the loss or return of that server.
LEMMA MatchSteps ==
    ASSUME FleetInv, [Next]_vars, NEW m \in Matches, mstate'[m] # mstate[m]
    PROVE  \/ \E r \in Durable : ClaimCommit(r) /\ MatchOf[r] = m
           \/ /\ mstate[m] # "finished"
              /\ \E s \in Servers : smatch[s] = m
<1>0. TypeOK /\ RowInv
  BY DEF FleetInv
<1> DEFINE Carried == mstate[m] # "finished" /\ \E s \in Servers : smatch[s] = m
<1>1. ASSUME NEW S \in SUBSET Servers, Aborted(S)[m] # mstate[m] PROVE Carried
  BY <1>1 DEF Aborted, OpenMatch
<1>2. CASE UNCHANGED vars
  BY <1>2 DEF vars, matchVars
<1>3. ASSUME NEW r \in Requests, LookUp(r) \/ Claim(r) \/ ClaimCommit(r) \/ ClaimLost(r)
      PROVE  r \in Durable /\ ClaimCommit(r) /\ MatchOf[r] = m
  BY <1>0, <1>3 DEF LookUp, Claim, ClaimCommit, ClaimLost, TypeOK
<1>4. ASSUME NEW n \in Nodes, NEW rep \in [held[n] -> Reports], NEW resurrect \in BOOLEAN,
             ReportCommit(n, rep, resurrect)
      PROVE  Carried
  <2>1. held[n] \subseteq Servers
    BY <1>0 DEF TypeOK
  <2> DEFINE back == {s \in held[n] : Resurrected(s, rep, resurrect)}
             lost == {s \in held[n] : sstate[s] # "failed"
                          /\ Reconciled(s, rep, resurrect) = "failed"}
             reopen == {smatch[s] : s \in {t \in back : rep[t] = "allocated"}}
  <2>2. mstate'[m] = IF m \in reopen /\ mstate[m] = "aborted" THEN "running"
                     ELSE Aborted(lost)[m]
    BY <1>4 DEF ReportCommit
  <2>3. CASE m \in reopen /\ mstate[m] = "aborted"
    BY <2>1, <2>3
  <2>4. CASE ~(m \in reopen /\ mstate[m] = "aborted")
    BY <1>1, <2>1, <2>2, <2>4
  <2> QED
    BY <2>3, <2>4
<1>5. CASE ReportNext
  BY <1>4, <1>5 DEF ReportNext, ReportBegin, ApplyHeartbeat, HelloSync, matchVars
<1>6. ASSUME NEW s \in Servers, NEW result \in {"finished", "aborted"},
             \/ ServerFailedEvent(s) \/ ServerReadyEvent(s)
             \/ MatchStart(s) \/ MatchEnd(s, result)
      PROVE  Carried
  <2>1. CASE ServerFailedEvent(s)
    BY <1>1, <2>1 DEF ServerFailedEvent
  <2>2. CASE ServerReadyEvent(s)
    BY <2>2 DEF ServerReadyEvent, matchVars
  <2>3. CASE MatchStart(s)
    BY <1>0, <2>3 DEF MatchStart, TypeOK
  <2>4. CASE MatchEnd(s, result)
    BY <1>0, <2>4 DEF MatchEnd, OpenMatch, TypeOK
  <2> QED
    BY <1>6, <2>1, <2>2, <2>3, <2>4
<1>7. CASE LeaseNext
  <2>1. lease.hit \subseteq Servers
    BY <1>0 DEF TypeOK
  <2>2. CASE AbortLostMatches
    BY <1>1, <2>1, <2>2 DEF AbortLostMatches
  <2>3. CASE ~AbortLostMatches
    BY <1>7, <2>3 DEF LeaseNext, QuarantineStaleNodes, FailQuarantinedSelect,
                      FailQuarantinedServers, MarkDownNodes, matchVars
  <2> QED
    BY <2>2, <2>3
<1>8. CASE NodeNext \/ VersionStep \/ DisableExpired \/ MasterCrash
  BY <1>8 DEF NodeNext, Tick, DrainNode, UndrainNode, RevokeNode, NodeUnchanged,
              VersionStep, DisableExpired, MasterCrash, matchVars
<1>9. CASE PlanNext
  BY <1>9 DEF PlanNext, FailStuckCreating, ListFleet, ReadWindow, StopOnLeavingNodes,
              TakeOnLeavingNodes, EvictDeprecated, CountVersion, InsertServer,
              StopSurplus, TakeSurplus, StopOutside, TakeOutside, TakeStops,
              DrainLiveOutside, PlanCommit, PlanUnchanged, matchVars
<1> QED
  <2>1. CASE EventNext
    <3>1. "finished" \in {"finished", "aborted"}
      OBVIOUS
    <3> QED
      BY <1>6, <2>1, <3>1 DEF EventNext
  <2> QED
    BY <1>2, <1>3, <1>5, <1>7, <1>8, <1>9, <2>1 DEF Next, AllocateNext

\* The matchmaker's match_id is fresh until its claim commits.
FreshMatches ==
    \A r \in Durable : req[r].pc # "done"
        => mstate[MatchOf[r]] = "none" /\ \A s \in Servers : smatch[s] # MatchOf[r]

LEMMA StepKeepsFresh ==
    ASSUME FleetInv, FreshMatches, [Next]_vars PROVE FreshMatches'
<1> USE FleetAssumption
<1>0. TypeOK
  BY DEF FleetInv
<1>1. SUFFICES ASSUME NEW r \in Durable, req'[r].pc # "done"
               PROVE  /\ mstate'[MatchOf[r]] = "none"
                      /\ \A s \in Servers : smatch'[s] # MatchOf[r]
  BY DEF FreshMatches
<1>2. ~ClaimCommit(r)
  BY <1>0, <1>1 DEF ClaimCommit, TypeOK, RequestType
<1>3. req[r].pc # "done"
  <2>1. CASE ~AllocateNext /\ ~MasterCrash
    BY <1>1, <2>1, QuietSteps
  <2>2. CASE MasterCrash
    BY <1>1, <2>2 DEF MasterCrash
  <2>3. ASSUME NEW q \in Requests, LookUp(q) \/ Claim(q) \/ ClaimCommit(q) \/ ClaimLost(q)
        PROVE  req[r].pc # "done"
    <3>1. req[q].pc # "done"
      BY <2>3 DEF LookUp, Claim, ClaimCommit, ClaimLost
    <3>2. q # r => req'[r] = req[r]
      BY <1>0, <2>3 DEF LookUp, Claim, ClaimCommit, ClaimLost, TypeOK
    <3> QED
      BY <1>1, <3>1, <3>2
  <2> QED
    BY <2>1, <2>2, <2>3 DEF AllocateNext
<1>4. mstate[MatchOf[r]] = "none" /\ \A s \in Servers : smatch[s] # MatchOf[r]
  BY <1>3 DEF FreshMatches
<1>5. \A q \in Requests : q # r => MatchOf[q] # MatchOf[r]
  OBVIOUS
<1>6. mstate'[MatchOf[r]] = "none"
  BY <1>2, <1>4, <1>5, MatchSteps
<1>7. \A s \in Servers : smatch'[s] # MatchOf[r]
  <2>1. CASE ~AllocateNext /\ ~MasterCrash
    BY <1>4, <2>1, QuietSteps
  <2>2. CASE MasterCrash
    BY <1>4, <2>2 DEF MasterCrash
  <2>3. ASSUME NEW q \in Requests, LookUp(q) \/ Claim(q) \/ ClaimLost(q)
        PROVE  UNCHANGED smatch
    BY <2>3 DEF LookUp, Claim, ClaimLost
  <2>4. ASSUME NEW q \in Requests, ClaimCommit(q), q # r
        PROVE  \A s \in Servers : smatch'[s] # MatchOf[r]
    BY <1>0, <1>4, <1>5, <2>4 DEF ClaimCommit, TypeOK
  <2> QED
    BY <1>2, <1>4, <2>1, <2>2, <2>3, <2>4 DEF AllocateNext
<1> QED
  BY <1>6, <1>7

\* No late event, abort, lost or returning server and no new claim touches a
\* match once it is finished.
THEOREM FinishedStaysFinished == Spec => FinishedIsFinal
<1> USE FleetAssumption
<1>1. Init => FleetInv /\ FreshMatches
  BY InitEstablishesInv DEF Init, FreshMatches
<1>2. FleetInv /\ FreshMatches /\ [Next]_vars => (FleetInv /\ FreshMatches)'
  BY StepKeepsInv, StepKeepsFresh
<1>3. FleetInv /\ FreshMatches /\ [Next]_vars
        => [\A m \in Matches : mstate[m] = "finished" => mstate'[m] = "finished"]_vars
  <2>1. ASSUME FleetInv, FreshMatches, [Next]_vars, NEW m \in Matches,
               mstate[m] = "finished", mstate'[m] # "finished"
        PROVE  FALSE
    <3>1. PICK r \in Durable : ClaimCommit(r) /\ MatchOf[r] = m
      BY <2>1, MatchSteps
    <3>2. req[r].pc = "claimed"
      BY <3>1 DEF ClaimCommit
    <3>3. mstate[m] = "none"
      BY <2>1, <3>1, <3>2 DEF FreshMatches
    <3> QED
      BY <2>1, <3>3
  <2> QED
    BY <2>1
<1> QED
  BY <1>1, <1>2, <1>3, PTL DEF Spec, FinishedIsFinal

-----------------------------------------------------------------------------
(* Rows that come to life, and the limits of the fleet and of its nodes.   *)

\* A row becomes live when the pass commits it, inserted or (picked as ready,
\* failed since) set to draining, or when a Hello brings it back.
LEMMA LiveOrigin ==
    ASSUME FleetInv, [Next]_vars, NEW s \in Servers,
           sstate'[s] \in Live, sstate[s] \notin Live
    PROVE  \/ PlanCommit /\ s \in plan.ins
           \/ PlanCommit /\ s \in PlanLocked /\ sstate'[s] = "draining"
           \/ /\ sstate[s] = "failed" /\ sstate'[s] \in Serving
              /\ s \in revived' /\ age'[snode[s]] = 0
<1>0. TypeOK /\ RowInv
  BY DEF FleetInv
<1>1. CASE UNCHANGED vars
  BY <1>1 DEF vars, serverVars
<1>2. ASSUME NEW r \in Requests, LookUp(r) \/ Claim(r) \/ ClaimCommit(r) \/ ClaimLost(r)
      PROVE  FALSE
  BY <1>0, <1>2 DEF LookUp, Claim, ClaimCommit, ClaimLost, AllocUnchanged, TypeOK,
                    RowInv, ClaimsHoldReady, Live
<1>3. ASSUME NEW n \in Nodes, NEW rep \in [held[n] -> Reports], NEW resurrect \in BOOLEAN,
             ReportCommit(n, rep, resurrect)
      PROVE  /\ sstate[s] = "failed" /\ sstate'[s] \in Serving
             /\ s \in revived' /\ age'[snode[s]] = 0
  <2>1. s \in held[n] /\ sstate'[s] = Reconciled(s, rep, resurrect)
    BY <1>3 DEF ReportCommit, Live
  <2>2. ~TransitionAllowed(sstate[s], rep[s])
    <3>1. sstate[s] \in {"none", "failed", "reaped"}
      BY <1>0 DEF TypeOK, ServerStates, Live
    <3>2. sstate[s] # "none"
      BY <1>0, <2>1 DEF RowInv, LocksDisjoint, RowsOn
    <3> QED
      BY <3>1, <3>2 DEF TransitionAllowed
  <2>3. Resurrected(s, rep, resurrect) /\ sstate[s] = "failed" /\ sstate'[s] \in Serving
    BY <1>3, <2>1, <2>2 DEF Reconciled, Resurrected
  <2>4. s \in revived'
    BY <1>3, <2>1, <2>3 DEF ReportCommit
  <2>5. snode[s] = n
    BY <1>0, <2>1 DEF RowInv, LocksDisjoint, RowsOn
  <2>6. age' = [age EXCEPT ![n] = 0]
    BY <1>3 DEF ReportCommit
  <2> QED
    BY <1>0, <2>1, <2>3, <2>4, <2>5, <2>6 DEF TypeOK
<1>4. CASE ReportNext
  BY <1>3, <1>4 DEF ReportNext, ReportBegin, ApplyHeartbeat, HelloSync, serverVars
<1>5. CASE EventNext
  BY <1>0, <1>5 DEF EventNext, ServerFailedEvent, ServerReadyEvent, MatchStart, MatchEnd,
              EventUnchanged, TransitionAllowed, TypeOK, Live
<1>6. CASE LeaseNext \/ NodeNext
  BY <1>6 DEF LeaseNext, QuarantineStaleNodes, FailQuarantinedSelect,
              FailQuarantinedServers, AbortLostMatches, MarkDownNodes, NodeNext, Tick,
              DrainNode, UndrainNode, RevokeNode, NodeUnchanged, serverVars, Live
<1>7. CASE PlanNext
  <2>1. CASE PlanCommit
    BY <1>0, <2>1 DEF PlanCommit, View, RowInv, PlanRows
  <2>2. ASSUME NEW S \in SUBSET Servers, FailStuckCreating(S) PROVE FALSE
    BY <2>2 DEF FailStuckCreating, Live
  <2>3. CASE PlanUnchanged
    BY <2>3 DEF PlanUnchanged
  <2> QED
    BY <1>7, <2>1, <2>2, <2>3 DEF PlanNext, ListFleet, ReadWindow, StopOnLeavingNodes,
              TakeOnLeavingNodes, EvictDeprecated, CountVersion, InsertServer,
              StopSurplus, TakeSurplus, StopOutside, TakeOutside, TakeStops,
              DrainLiveOutside
<1>8. CASE VersionStep \/ DisableExpired \/ MasterCrash
  BY <1>8 DEF VersionStep, DisableExpired, MasterCrash, serverVars
<1> QED
  BY <1>1, <1>2, <1>4, <1>5, <1>6, <1>7, <1>8 DEF Next, AllocateNext

\* The rows the limits are about, and those the pass will make live at its
\* commit, whatever has become of them since it picked them.
Counted ==
    {s \in Servers \ revived :
        sstate[s] \in Live \/ s \in plan.ins \cup plan.cand \cup PlanLocked}

CountedOn(n) == {s \in Counted : snode[s] = n}

\* No step but an insertion adds to the counted rows or moves one.
Inserts == \E s \in Servers, n \in Nodes : InsertServer(s, n)

\* Every step outside the pass's own transaction leaves the plan alone or
\* drops it, and only Hellos write revived.
LEMMA PlanFrame ==
    ASSUME FleetInv, [Next]_vars, ~PlanNext
    PROVE  /\ plan' \in {plan, IdlePlan} /\ revived \subseteq revived'
           /\ \A s \in Servers : snode'[s] # snode[s] => s \in plan.ins /\ plan' = IdlePlan
<1>1. CASE UNCHANGED vars
  BY <1>1 DEF vars, serverVars
<1>2. CASE AllocateNext
  BY <1>2 DEF AllocateNext, LookUp, Claim, ClaimCommit, ClaimLost, AllocUnchanged
<1>3. CASE ReportNext
  BY <1>3 DEF ReportNext, ReportBegin, ApplyHeartbeat, HelloSync, ReportCommit, serverVars
<1>4. CASE EventNext
  BY <1>4 DEF EventNext, ServerFailedEvent, ServerReadyEvent, MatchStart, MatchEnd,
              EventUnchanged
<1>5. CASE LeaseNext \/ NodeNext
  BY <1>5 DEF LeaseNext, QuarantineStaleNodes, FailQuarantinedSelect,
              FailQuarantinedServers, AbortLostMatches, MarkDownNodes, NodeNext, Tick,
              DrainNode, UndrainNode, RevokeNode, NodeUnchanged, serverVars
<1>6. CASE VersionStep \/ DisableExpired
  BY <1>6 DEF VersionStep, DisableExpired, serverVars
<1>7. CASE MasterCrash
  BY <1>7 DEF MasterCrash
<1> QED
  BY <1>1, <1>2, <1>3, <1>4, <1>5, <1>6, <1>7 DEF Next

\* A row the pass picks is ready when it does, so it was counted already; no
\* row it picks escapes its commit.
LEMMA PlanCounts ==
    ASSUME FleetInv, PlanNext, ~Inserts
    PROVE  Counted' \subseteq Counted /\ UNCHANGED <<snode, revived>>
<1>0. TypeOK /\ RowInv /\ PlanRows /\ plan \in PlanType
  BY DEF FleetInv, RowInv, TypeOK
<1> DEFINE Picked(p) == p.ins \cup p.cand \cup (p.stops \cup p.drains)
<1>1. \A s \in Servers : s \in Counted <=>
        s \notin revived /\ (sstate[s] \in Live \/ s \in Picked(plan))
  BY DEF Counted, PlanLocked
<1>2. \A s \in Servers : s \in Counted' <=>
        s \notin revived' /\ (sstate'[s] \in Live \/ s \in Picked(plan'))
  BY DEF Counted, PlanLocked
<1>3. Counted' \subseteq Servers
  BY DEF Counted
<1> HIDE DEF Picked
<1>4. ASSUME PlanUnchanged, UNCHANGED snode,
             \A s \in Servers : s \in Picked(plan') => s \in Picked(plan) \/ sstate[s] \in Live
      PROVE  Counted' \subseteq Counted /\ UNCHANGED <<snode, revived>>
  BY <1>1, <1>2, <1>3, <1>4 DEF PlanUnchanged
<1>5. \A s \in Viewed({"ready"}) \cup Viewed({"allocated"}) : sstate[s] \in Live
  BY ViewReal DEF Viewed, Live
<1>6. CASE ListFleet \/ ReadWindow \/ CountVersion
  <2>1. Picked(plan') = Picked(plan)
    <3>1. CASE ListFleet
      <4>1. plan' = [IdlePlan EXCEPT !.pc = "window", !.act = fleet] /\ plan = IdlePlan
        BY <1>0, <3>1 DEF ListFleet, PlanRows
      <4> QED
        BY <4>1 DEF Picked, IdlePlan
    <3>2. CASE ReadWindow
      BY <1>0, <3>2 DEF ReadWindow, Picked, PlanType
    <3>3. CASE CountVersion
      BY <1>0, <3>3 DEF CountVersion, Picked, PlanType
    <3> QED
      BY <1>6, <3>1, <3>2, <3>3
  <2> QED
    BY <1>4, <1>6, <2>1 DEF ListFleet, ReadWindow, CountVersion
<1>7. ASSUME NEW rows \in SUBSET Viewed({"ready"}), NEW locking, NEW next,
             SelectStops(rows, locking, next), PlanUnchanged, UNCHANGED snode
      PROVE  Counted' \subseteq Counted /\ UNCHANGED <<snode, revived>>
  <2>1. Picked(plan') \subseteq Picked(plan) \cup rows
    BY <1>0, <1>7 DEF SelectStops, Picked, PlanType
  <2> QED
    BY <1>4, <1>5, <1>7, <2>1
<1>8. ASSUME NEW locking, NEW next, TakeStops(locking, next)
      PROVE  Counted' \subseteq Counted /\ UNCHANGED <<snode, revived>>
  <2>1. Picked(plan') = Picked(plan)
    BY <1>0, <1>8 DEF TakeStops, Picked, PlanType
  <2> QED
    BY <1>4, <1>8, <2>1 DEF TakeStops
<1>9. CASE StopOnLeavingNodes
  <2> DEFINE rows == {s \in Viewed({"ready"}) : nstate[snode[s]] # "active"}
  <2>1. rows \in SUBSET Viewed({"ready"}) /\ SelectStops(rows, "nodesLock", "evict")
    BY <1>9 DEF StopOnLeavingNodes
  <2> HIDE DEF rows
  <2> QED
    BY <1>7, <1>9, <2>1 DEF StopOnLeavingNodes
<1>10. CASE StopOutside
  <2> DEFINE rows == Viewed({"ready"}) \cap OutsideWindow
  <2>1. rows \in SUBSET Viewed({"ready"}) /\ SelectStops(rows, "outsideLock", "live")
    BY <1>10 DEF StopOutside
  <2> HIDE DEF rows
  <2> QED
    BY <1>7, <1>10, <2>1 DEF StopOutside
<1>11. CASE TakeOnLeavingNodes \/ TakeSurplus \/ TakeOutside
  BY <1>8, <1>11 DEF TakeOnLeavingNodes, TakeSurplus, TakeOutside
<1>12. CASE EvictDeprecated
  <2>1. PICK first \in AnyOf(Evictable(TRUE), Blocked) :
         \E more \in AnyOf(Evictable(FALSE) \ first, StillNeeded(Cardinality(first))) :
          plan' = [plan EXCEPT !.pc = "version",
                    !.total = Cardinality(Viewed(Live)),
                    !.stops = @ \cup first \cup more, !.evicted = first \cup more,
                    !.todo = IF plan.dep = NoVersion THEN <<plan.act>>
                             ELSE <<plan.act, plan.dep>>]
    BY <1>12 DEF EvictDeprecated
  <2>2. PICK more \in AnyOf(Evictable(FALSE) \ first, StillNeeded(Cardinality(first))) :
          plan' = [plan EXCEPT !.pc = "version",
                    !.total = Cardinality(Viewed(Live)),
                    !.stops = @ \cup first \cup more, !.evicted = first \cup more,
                    !.todo = IF plan.dep = NoVersion THEN <<plan.act>>
                             ELSE <<plan.act, plan.dep>>]
    BY <2>1
  <2>3. first \subseteq Evictable(TRUE) /\ more \subseteq Evictable(FALSE)
    BY AnyOfSubset
  <2>4. first \cup more \subseteq Viewed({"ready"})
    BY <2>3 DEF Evictable
  <2>5. Picked(plan') \subseteq Picked(plan) \cup (first \cup more)
    BY <1>0, <2>2 DEF Picked, PlanType
  <2> QED
    BY <1>4, <1>5, <1>12, <2>4, <2>5 DEF EvictDeprecated
<1>13. CASE StopSurplus
  <2>1. PICK rows \in AnyOf(Viewed({"ready"}) \cap OfVersion(Head(plan.todo)), plan.surplus) :
          plan' = [plan EXCEPT !.cand = rows, !.left = 0, !.surplus = 0,
                     !.pc = IF rows = {} THEN "version" ELSE "surplusLock",
                     !.todo = Tail(@)]
    BY <1>13 DEF StopSurplus
  <2>2. rows \subseteq Viewed({"ready"})
    BY AnyOfSubset
  <2>3. Picked(plan') \subseteq Picked(plan) \cup rows
    BY <1>0, <2>1 DEF Picked, PlanType
  <2> QED
    BY <1>4, <1>5, <1>13, <2>2, <2>3 DEF StopSurplus
<1>14. CASE DrainLiveOutside
  <2>1. Picked(plan') \subseteq Picked(plan) \cup Viewed({"allocated"})
    BY <1>0, <1>14 DEF DrainLiveOutside, Picked, PlanType
  <2> QED
    BY <1>4, <1>5, <1>14, <2>1 DEF DrainLiveOutside
<1>15. CASE PlanCommit
  <2>1. /\ UNCHANGED <<snode, revived>> /\ Picked(plan') = {}
        /\ \A s \in Servers : sstate'[s] \in Live => sstate[s] \in Live \/ s \in Picked(plan)
    BY <1>0, <1>15 DEF PlanCommit, Picked, IdlePlan, View, PlanLocked
  <2> QED
    BY <1>1, <1>2, <1>3, <2>1
<1>16. ASSUME NEW S \in SUBSET Servers, FailStuckCreating(S)
       PROVE  Counted' \subseteq Counted /\ UNCHANGED <<snode, revived>>
  <2>1. /\ UNCHANGED <<snode, revived>> /\ plan' = plan
        /\ \A s \in Servers : sstate'[s] \in Live => sstate[s] \in Live
    BY <1>16 DEF FailStuckCreating, Live
  <2> QED
    BY <1>1, <1>2, <1>3, <2>1
<1> QED
  BY <1>6, <1>9, <1>10, <1>11, <1>12, <1>13, <1>14, <1>15, <1>16 DEF PlanNext, Inserts

LEMMA StepCounts ==
    ASSUME FleetInv, [Next]_vars, ~Inserts
    PROVE  /\ Counted' \subseteq Counted
           /\ \A n \in Nodes : CountedOn(n)' \subseteq CountedOn(n)
<1>0. TypeOK /\ RowInv /\ PlanRows
  BY DEF FleetInv, RowInv
<1>1. Counted' \subseteq Counted /\ \A s \in Counted' : snode'[s] = snode[s]
  <2>1. CASE PlanNext
    BY <2>1, PlanCounts
  <2>2. CASE ~PlanNext
    <3>1. /\ plan' \in {plan, IdlePlan} /\ revived \subseteq revived'
          /\ \A s \in Servers : snode'[s] # snode[s] => s \in plan.ins /\ plan' = IdlePlan
      BY <2>2, PlanFrame
    <3>2. ASSUME NEW s \in Counted' PROVE s \in Counted /\ snode'[s] = snode[s]
      <4>1. s \in Servers /\ s \notin revived' /\ s \notin revived
        BY <3>1, <3>2 DEF Counted
      <4>2. CASE sstate'[s] \in Live
        <5>1. ~PlanCommit
          BY <2>2 DEF PlanNext
        <5>2. sstate[s] \in Live
          BY <4>1, <4>2, <5>1, LiveOrigin
        <5>3. s \notin plan.ins
          BY <1>0, <5>2 DEF PlanRows, Live
        <5> QED
          BY <3>1, <4>1, <5>2, <5>3 DEF Counted
      <4>3. CASE sstate'[s] \notin Live
        <5>1. s \in (plan.ins \cup plan.cand \cup PlanLocked)'
          BY <3>2, <4>3 DEF Counted
        <5>2. plan' = plan
          BY <3>1, <5>1 DEF IdlePlan, PlanLocked
        <5>3. s \in plan.ins \cup plan.cand \cup PlanLocked
          BY <5>1, <5>2 DEF PlanLocked
        <5>4. plan.ins # {} \/ plan.cand # {} \/ PlanLocked # {}
          BY <5>3
        <5>5. plan # IdlePlan
          BY <5>4 DEF IdlePlan, PlanLocked
        <5> QED
          BY <3>1, <4>1, <5>2, <5>3, <5>5 DEF Counted
      <4> QED
        BY <4>2, <4>3
    <3> QED
      BY <3>2
  <2> QED
    BY <2>1, <2>2
<1> QED
  BY <1>1 DEF CountedOn

FleetBounded == Cardinality(Counted) <= MaxServers

NodesBounded == \A n \in Nodes : Cardinality(CountedOn(n)) <= Capacity[n]

\* The pass counts before it fills: total covers every row that may be live at
\* the commit, and what is left to insert fits under max_servers.
PassCounts ==
    /\ plan.cand # {} => plan.pc \in {"nodesLock", "surplusLock", "outsideLock"}
    /\ plan.pc \in {"version", "fill", "surplusLock"} => Cardinality(Counted) <= plan.total
    /\ plan.pc = "fill" => plan.left + plan.total <= MaxServers

LimitInv == FleetInv /\ FleetBounded /\ NodesBounded /\ PassCounts

LEMMA FewerRows ==
    ASSUME NEW S \in SUBSET Servers, NEW T \in SUBSET S
    PROVE  Cardinality(T) <= Cardinality(S)
<1>1. IsFiniteSet(S)
  BY FleetAssumption, FS_Subset
<1> QED
  BY <1>1, FS_Subset

LEMMA OneMoreRow ==
    ASSUME NEW S \in SUBSET Servers, NEW s \in Servers, NEW T \in SUBSET (S \cup {s})
    PROVE  Cardinality(T) <= Cardinality(S) + 1
<1>1. IsFiniteSet(S) /\ S \cup {s} \in SUBSET Servers
  BY FleetAssumption, FS_Subset
<1>2. Cardinality(S \cup {s}) <= Cardinality(S) + 1
  <2>1. Cardinality(S) \in Nat
    BY CountIsNumber
  <2>2. Cardinality(S \cup {s}) = IF s \in S THEN Cardinality(S) ELSE Cardinality(S) + 1
    BY <1>1, FS_AddElement
  <2> QED
    BY <2>1, <2>2
<1>3. Cardinality(T) <= Cardinality(S \cup {s})
  BY <1>1, FewerRows
<1>4. T \in SUBSET Servers
  BY <1>1
<1>5. Cardinality(T) \in Nat /\ Cardinality(S) \in Nat /\ Cardinality(S \cup {s}) \in Nat
  BY <1>1, <1>4, CountIsNumber
<1> QED
  BY <1>2, <1>3, <1>5

LEMMA CountedAreServers ==
    /\ Counted \in SUBSET Servers /\ Cardinality(Counted) \in Nat
    /\ \A n \in Nodes : CountedOn(n) \in SUBSET Servers /\ Cardinality(CountedOn(n)) \in Nat
<1>1. Counted \in SUBSET Servers /\ \A n \in Nodes : CountedOn(n) \in SUBSET Servers
  BY DEF Counted, CountedOn
<1> QED
  BY <1>1, CountIsNumber

\* With no candidates pending, the pass's own view shows every counted row.
LEMMA ViewCoversCounted ==
    ASSUME FleetInv, plan.cand = {} PROVE Counted \subseteq Viewed(Live)
BY DEF Counted, Viewed, View, Live

\* A row is inserted when fleet and node have room for one more.
LEMMA InsertKeepsLimits ==
    ASSUME LimitInv, NEW s \in Servers, NEW n \in Nodes, InsertServer(s, n)
    PROVE  FleetBounded' /\ NodesBounded' /\ PassCounts'
<1> USE FleetAssumption
<1>0. /\ TypeOK /\ FleetInv /\ plan \in PlanType /\ PlanRows
      /\ FleetBounded /\ NodesBounded /\ PassCounts
  BY DEF LimitInv, FleetInv, RowInv, TypeOK
<1>1. /\ plan.pc = "fill" /\ plan.left > 0 /\ plan.cand = {}
      /\ plan' = [plan EXCEPT !.ins = @ \cup {s}, !.total = @ + 1, !.left = @ - 1]
      /\ snode' = [snode EXCEPT ![s] = n] /\ UNCHANGED <<sstate, revived>>
      /\ n \in Roomy
  BY <1>0 DEF InsertServer, PlanUnchanged, PassCounts
<1>2. plan.left \in Int /\ plan.total \in Int
  BY <1>0 DEF PlanType
<1>3. /\ plan'.pc = "fill" /\ plan'.cand = {} /\ plan'.ins = plan.ins \cup {s}
      /\ plan'.stops = plan.stops /\ plan'.drains = plan.drains
      /\ plan'.total = plan.total + 1 /\ plan'.left = plan.left - 1
  BY <1>0, <1>1 DEF PlanType
<1>4. Counted' \subseteq Counted \cup {s}
  BY <1>0, <1>1, <1>3 DEF Counted, PlanLocked
<1>5. s \notin Counted
  BY <1>0, <1>1 DEF InsertServer, Counted, PlanRows, PlanLocked, Live
<1>6. \A t \in Servers : snode'[t] = IF t = s THEN n ELSE snode[t]
  BY <1>0, <1>1 DEF TypeOK
<1>7. /\ Cardinality(Counted) \in Nat /\ Cardinality(Counted') \in Nat
      /\ Counted \in SUBSET Servers
  BY <1>4, CountedAreServers, CountIsNumber
<1>8. Cardinality(Counted') <= Cardinality(Counted) + 1
  <2> DEFINE C == Counted'
  <2>1. C \in SUBSET (Counted \cup {s})
    BY <1>4
  <2> HIDE DEF C
  <2>2. Cardinality(C) <= Cardinality(Counted) + 1
    BY <1>7, <2>1, OneMoreRow
  <2> QED
    BY <2>2 DEF C
<1>9. Cardinality(Counted) <= plan.total /\ plan.left + plan.total <= MaxServers
  BY <1>0, <1>1 DEF PassCounts
<1>10. FleetBounded'
  <2>1. Cardinality(Counted') <= MaxServers
    BY <1>1, <1>2, <1>7, <1>8, <1>9
  <2> QED
    BY <2>1 DEF FleetBounded
<1>11. PassCounts'
  <2>1. Cardinality(Counted') <= plan.total + 1
    BY <1>2, <1>7, <1>8, <1>9
  <2>2. plan.left - 1 + (plan.total + 1) <= MaxServers
    BY <1>2, <1>9
  <2> QED
    BY <1>3, <2>1, <2>2 DEF PassCounts
<1>12. ASSUME NEW o \in Nodes PROVE Cardinality(CountedOn(o)') <= Capacity[o]
  <2> DEFINE C == CountedOn(o)'
  <2>1. /\ CountedOn(o) \in SUBSET Servers /\ Cardinality(CountedOn(o)) \in Nat
        /\ Cardinality(CountedOn(o)) <= Capacity[o] /\ Capacity[o] \in Nat
    BY <1>0, CountedAreServers DEF NodesBounded
  <2>2. CASE o # n
    <3>1. C \in SUBSET CountedOn(o)
      BY <1>4, <1>6, <1>7, <2>2 DEF CountedOn
    <3> HIDE DEF C
    <3>2. Cardinality(C) <= Cardinality(CountedOn(o)) /\ Cardinality(C) \in Nat
      BY <2>1, <3>1, FewerRows, CountIsNumber
    <3>3. Cardinality(C) <= Capacity[o]
      BY <2>1, <3>2
    <3> QED
      BY <3>3 DEF C
  <2>3. CASE o = n
    <3>1. C \in SUBSET (CountedOn(n) \cup {s}) /\ C \in SUBSET Servers
      BY <1>4, <1>6, <1>7, <2>3 DEF CountedOn
    <3> DEFINE U == {t \in Viewed(Live) : snode[t] = n}
    <3>2. CountedOn(n) \in SUBSET U /\ U \in SUBSET Servers
      BY <1>0, <1>1, ViewCoversCounted DEF CountedOn, Viewed
    <3>3. Cardinality(U) < Capacity[n]
      BY <1>1 DEF Roomy, UsedBy
    <3> HIDE DEF C, U
    <3>4. /\ Cardinality(CountedOn(n)) <= Cardinality(U)
          /\ Cardinality(U) \in Nat /\ Cardinality(C) \in Nat
      BY <3>1, <3>2, FewerRows, CountIsNumber
    <3>5. Cardinality(C) <= Cardinality(CountedOn(n)) + 1
      BY <2>1, <2>3, <3>1, OneMoreRow
    <3>6. Cardinality(C) <= Capacity[n]
      BY <2>1, <2>3, <3>3, <3>4, <3>5
    <3> QED
      BY <2>3, <3>6 DEF C
  <2> QED
    BY <2>2, <2>3
<1>13. NodesBounded'
  BY <1>12 DEF NodesBounded
<1> QED
  BY <1>10, <1>11, <1>13

LEMMA FewerCounted ==
    ASSUME FleetInv, [Next]_vars, ~Inserts
    PROVE  /\ Cardinality(Counted') <= Cardinality(Counted) /\ Cardinality(Counted') \in Nat
           /\ \A n \in Nodes : Cardinality(CountedOn(n)') <= Cardinality(CountedOn(n))
                               /\ Cardinality(CountedOn(n)') \in Nat
<1>1. ASSUME NEW S \in SUBSET Servers, NEW T \in SUBSET S
      PROVE  Cardinality(T) <= Cardinality(S) /\ Cardinality(T) \in Nat
  BY <1>1, FewerRows, CountIsNumber
<1>2. Counted' \in SUBSET Counted /\ Counted \in SUBSET Servers
  BY StepCounts, CountedAreServers
<1>3. \A n \in Nodes : CountedOn(n)' \in SUBSET CountedOn(n) /\ CountedOn(n) \in SUBSET Servers
  BY StepCounts, CountedAreServers
<1>4. Cardinality(Counted') <= Cardinality(Counted) /\ Cardinality(Counted') \in Nat
  <2> DEFINE C == Counted'
  <2>1. C \in SUBSET Counted
    BY <1>2
  <2> HIDE DEF C
  <2>2. Cardinality(C) <= Cardinality(Counted) /\ Cardinality(C) \in Nat
    BY <1>1, <1>2, <2>1
  <2> QED
    BY <2>2 DEF C
<1>5. ASSUME NEW n \in Nodes
      PROVE  Cardinality(CountedOn(n)') <= Cardinality(CountedOn(n))
             /\ Cardinality(CountedOn(n)') \in Nat
  <2> DEFINE C == CountedOn(n)'
             D == CountedOn(n)
  <2>1. C \in SUBSET D /\ D \in SUBSET Servers
    BY <1>3
  <2> HIDE DEF C, D
  <2>2. Cardinality(C) <= Cardinality(D) /\ Cardinality(C) \in Nat
    BY <1>1, <2>1
  <2> QED
    BY <2>2 DEF C, D
<1> QED
  BY <1>4, <1>5

\* Every statement of the pass moves on to a point where the counts hold.
LEMMA PlanKeepsCounts ==
    ASSUME LimitInv, PlanNext, ~Inserts PROVE PassCounts'
<1> USE FleetAssumption
<1>0. /\ FleetInv /\ plan \in PlanType /\ PlanRows /\ PassCounts /\ [Next]_vars
      /\ plan.total \in Int
  BY DEF LimitInv, FleetInv, RowInv, TypeOK, Next, PlanType
<1>1. Cardinality(Counted') <= Cardinality(Counted) /\ Cardinality(Counted') \in Nat
  BY <1>0, FewerCounted
<1>2. Cardinality(Counted) \in Nat
  BY CountedAreServers
<1>3. CASE ListFleet \/ ReadWindow
  <2>1. CASE ListFleet
    <3>1. plan' = [IdlePlan EXCEPT !.pc = "window", !.act = fleet]
      BY <2>1 DEF ListFleet
    <3> QED
      BY <3>1 DEF PassCounts, IdlePlan
  <2>2. CASE ReadWindow
    <3>1. plan'.pc = "nodes" /\ plan'.cand = plan.cand /\ plan.pc = "window"
      BY <1>0, <2>2 DEF ReadWindow, PlanType
    <3> QED
      BY <1>0, <3>1 DEF PassCounts
  <2> QED
    BY <1>3, <2>1, <2>2
<1>4. CASE StopOnLeavingNodes
  <2>1. plan'.pc = (IF plan'.cand = {} THEN "evict" ELSE "nodesLock")
    BY <1>0, <1>4 DEF StopOnLeavingNodes, SelectStops, PlanType
  <2> QED
    BY <2>1 DEF PassCounts
<1>5. CASE StopOutside
  <2>1. plan'.pc = (IF plan'.cand = {} THEN "live" ELSE "outsideLock")
    BY <1>0, <1>5 DEF StopOutside, SelectStops, PlanType
  <2> QED
    BY <2>1 DEF PassCounts
<1>6. CASE TakeOnLeavingNodes \/ TakeOutside
  <2>1. PICK next \in {"evict", "live"} :
          plan' = [plan EXCEPT !.pc = next, !.cand = {}, !.stops = @ \cup plan.cand]
    BY <1>6 DEF TakeOnLeavingNodes, TakeOutside, TakeStops
  <2>2. plan'.pc \in {"evict", "live"} /\ plan'.cand = {}
    BY <1>0, <2>1 DEF PlanType
  <2> QED
    BY <2>2 DEF PassCounts
<1>7. CASE TakeSurplus
  <2>1. /\ plan.pc = "surplusLock" /\ plan'.pc = "version" /\ plan'.cand = {}
        /\ plan'.total = plan.total
    BY <1>0, <1>7 DEF TakeSurplus, TakeStops, PlanType
  <2>2. Cardinality(Counted) <= plan.total
    BY <1>0, <2>1 DEF PassCounts
  <2>3. Cardinality(Counted') <= plan.total
    BY <1>0, <1>1, <1>2, <2>2
  <2> QED
    BY <2>1, <2>3 DEF PassCounts
<1>8. CASE EvictDeprecated
  <2>1. /\ plan.pc = "evict" /\ plan'.pc = "version" /\ plan'.cand = plan.cand
        /\ plan'.total = Cardinality(Viewed(Live))
    BY <1>0, <1>8 DEF EvictDeprecated, PlanType
  <2>2. plan.cand = {}
    BY <1>0, <2>1 DEF PassCounts
  <2>3. Counted \in SUBSET Viewed(Live) /\ Viewed(Live) \in SUBSET Servers
    BY <1>0, <2>2, ViewCoversCounted DEF Viewed
  <2> DEFINE V == Viewed(Live)
  <2>4. Cardinality(V) \in Nat /\ Cardinality(Counted) <= Cardinality(V)
    <3> HIDE DEF V
    <3>1. Counted \in SUBSET V /\ V \in SUBSET Servers
      BY <2>3 DEF V
    <3> QED
      BY <3>1, FewerRows, CountIsNumber
  <2>5. Cardinality(Counted') <= Cardinality(V)
    BY <1>1, <1>2, <2>4
  <2> QED
    BY <2>1, <2>2, <2>5 DEF PassCounts
<1>9. CASE CountVersion
  <2> DEFINE warm == Cardinality(Viewed({"creating", "ready"}) \cap OfVersion(Head(plan.todo)))
             want == BufferOf(Head(plan.todo)) - warm
  <2>1. /\ plan.pc = "version" /\ plan'.pc = "fill" /\ plan'.cand = plan.cand
        /\ plan'.total = plan.total
        /\ plan'.left = SmallerOf(want, MaxServers - plan.total)
    BY <1>0, <1>9 DEF CountVersion, PlanType
  <2>2. warm \in Nat
    BY CountIsNumber DEF Viewed
  <2>3. want \in Int
    <3> HIDE DEF warm
    <3>1. BufferOf(Head(plan.todo)) \in Int
      BY DEF BufferOf, DeprecatedBuffer, SmallerOf
    <3> QED
      BY <2>2, <3>1
  <2> HIDE DEF want
  <2>4. plan'.left + plan'.total <= MaxServers
    BY <1>0, <2>1, <2>3 DEF SmallerOf
  <2>5. plan.cand = {} /\ Cardinality(Counted) <= plan.total
    BY <1>0, <2>1 DEF PassCounts
  <2>6. Cardinality(Counted') <= plan.total
    BY <1>0, <1>1, <1>2, <2>5
  <2> QED
    BY <2>1, <2>4, <2>5, <2>6 DEF PassCounts
<1>10. CASE StopSurplus
  <2>1. /\ plan.pc = "fill" /\ plan'.total = plan.total
        /\ plan'.pc = (IF plan'.cand = {} THEN "version" ELSE "surplusLock")
    BY <1>0, <1>10 DEF StopSurplus, PlanType
  <2>2. Cardinality(Counted) <= plan.total
    BY <1>0, <2>1 DEF PassCounts
  <2>3. Cardinality(Counted') <= plan.total
    BY <1>0, <1>1, <1>2, <2>2
  <2> QED
    BY <2>1, <2>3 DEF PassCounts
<1>11. CASE DrainLiveOutside
  <2>1. plan.pc = "live" /\ plan'.pc = "commit" /\ plan'.cand = plan.cand
    BY <1>0, <1>11 DEF DrainLiveOutside, PlanType
  <2> QED
    BY <1>0, <2>1 DEF PassCounts
<1>12. CASE PlanCommit
  BY <1>12 DEF PlanCommit, PassCounts, IdlePlan
<1>13. ASSUME NEW S \in SUBSET Servers, FailStuckCreating(S) PROVE PassCounts'
  <2>1. plan' = plan /\ plan.pc = "idle"
    BY <1>13 DEF FailStuckCreating
  <2> QED
    BY <1>0, <2>1 DEF PassCounts
<1> QED
  BY <1>3, <1>4, <1>5, <1>6, <1>7, <1>8, <1>9, <1>10, <1>11, <1>12, <1>13
  DEF PlanNext, Inserts

LEMMA StepKeepsLimits ==
    ASSUME LimitInv, [Next]_vars PROVE LimitInv'
<1> USE FleetAssumption
<1>0. FleetInv /\ FleetInv' /\ FleetBounded /\ NodesBounded /\ PassCounts
  BY StepKeepsInv DEF LimitInv
<1>1. CASE Inserts
  BY <1>0, <1>1, InsertKeepsLimits DEF Inserts, LimitInv
<1>2. CASE ~Inserts
  <2>1. /\ Cardinality(Counted') <= Cardinality(Counted) /\ Cardinality(Counted') \in Nat
        /\ Cardinality(Counted) \in Nat
        /\ \A n \in Nodes : /\ Cardinality(CountedOn(n)') <= Cardinality(CountedOn(n))
                            /\ Cardinality(CountedOn(n)') \in Nat
                            /\ Cardinality(CountedOn(n)) \in Nat
    BY <1>0, <1>2, FewerCounted, CountedAreServers
  <2>2. FleetBounded'
    <3>1. Cardinality(Counted') <= MaxServers
      BY <1>0, <2>1 DEF FleetBounded
    <3> QED
      BY <3>1 DEF FleetBounded
  <2>3. NodesBounded'
    <3>1. ASSUME NEW n \in Nodes PROVE Cardinality(CountedOn(n)') <= Capacity[n]
      <4>1. Capacity[n] \in Nat /\ Cardinality(CountedOn(n)) <= Capacity[n]
        BY <1>0 DEF NodesBounded
      <4> QED
        BY <2>1, <4>1
    <3> QED
      BY <3>1 DEF NodesBounded
  <2>4. PassCounts'
    <3>1. CASE PlanNext
      BY <1>2, <3>1, PlanKeepsCounts
    <3>2. CASE ~PlanNext
      <4>1. CASE plan' = plan
        <5>1. plan.total \in Int
          BY <1>0 DEF FleetInv, TypeOK, PlanType
        <5>2. plan.pc \in {"version", "fill", "surplusLock"}
                => Cardinality(Counted') <= plan.total
          BY <1>0, <2>1, <5>1 DEF PassCounts
        <5> QED
          BY <1>0, <4>1, <5>2 DEF PassCounts
      <4>2. CASE plan' = IdlePlan
        BY <4>2 DEF PassCounts, IdlePlan
      <4> QED
        BY <1>0, <3>2, <4>1, <4>2, PlanFrame
    <3> QED
      BY <3>1, <3>2
  <2> QED
    BY <1>0, <2>2, <2>3, <2>4 DEF LimitInv
<1> QED
  BY <1>1, <1>2

\* The rows the fleet starts with, and those on one node.
WarmRows == {s \in Servers : WarmNode[s] # NoNode}
WarmOnNode(n) == {s \in Servers : WarmNode[s] = n}

StartsWithinLimits ==
    /\ Cardinality(WarmRows) <= MaxServers
    /\ \A n \in Nodes : Cardinality(WarmOnNode(n)) <= Capacity[n]

LEMMA InitWithinLimits ==
    ASSUME StartsWithinLimits, Init PROVE LimitInv
<1> USE FleetAssumption, WarmAssumption
<1>1. FleetInv
  BY InitEstablishesInv
<1>2. Counted = WarmRows /\ \A n \in Nodes : CountedOn(n) = WarmOnNode(n)
  BY DEF Init, Counted, CountedOn, WarmRows, WarmOnNode, IdlePlan, PlanLocked, Live
<1>3. FleetBounded /\ NodesBounded
  BY <1>2 DEF StartsWithinLimits, FleetBounded, NodesBounded
<1>4. PassCounts
  BY DEF Init, PassCounts, IdlePlan
<1> QED
  BY <1>1, <1>3, <1>4 DEF LimitInv

\* Passes, claims, reports, stuck starts and crashes in any order never take a
\* fleet that starts within max_servers over it; a Hello's rows are not counted.
THEOREM FleetStaysWithinMax ==
    ASSUME StartsWithinLimits PROVE Spec => []FleetWithinMax
<1> USE FleetAssumption
<1>1. Init => LimitInv
  BY InitWithinLimits
<1>2. LimitInv /\ [Next]_vars => LimitInv'
  BY StepKeepsLimits
<1>3. LimitInv => FleetWithinMax
  <2> DEFINE R == {s \in Servers \ revived : sstate[s] \in Live \/ s \in plan.ins}
  <2>1. R \in SUBSET Counted /\ R \in SUBSET Servers
    BY DEF Counted
  <2> HIDE DEF R
  <2>2. /\ Cardinality(R) <= Cardinality(Counted)
        /\ Cardinality(R) \in Nat /\ Cardinality(Counted) \in Nat
    BY <2>1, CountedAreServers, FewerRows, CountIsNumber
  <2>3. LimitInv => Cardinality(R) <= MaxServers
    BY <2>2 DEF LimitInv, FleetBounded
  <2> QED
    BY <2>3 DEF R, FleetWithinMax
<1> QED
  BY <1>1, <1>2, <1>3, PTL DEF Spec

\* Nor a node over its capacity_slots.
THEOREM NodeStaysWithinCapacity ==
    ASSUME StartsWithinLimits PROVE Spec => []NodeWithinCapacity
<1> USE FleetAssumption
<1>1. Init => LimitInv
  BY InitWithinLimits
<1>2. LimitInv /\ [Next]_vars => LimitInv'
  BY StepKeepsLimits
<1>3. LimitInv => NodeWithinCapacity
  <2>1. ASSUME LimitInv, NEW n \in Nodes
        PROVE  Cardinality({s \in Servers \ revived :
                 snode[s] = n /\ (sstate[s] \in Live \/ s \in plan.ins)}) <= Capacity[n]
    <3> DEFINE R == {s \in Servers \ revived :
                       snode[s] = n /\ (sstate[s] \in Live \/ s \in plan.ins)}
    <3>1. R \in SUBSET CountedOn(n) /\ R \in SUBSET Servers
      BY DEF Counted, CountedOn
    <3> HIDE DEF R
    <3>2. /\ Cardinality(R) <= Cardinality(CountedOn(n))
          /\ Cardinality(R) \in Nat /\ Cardinality(CountedOn(n)) \in Nat
      BY <3>1, CountedAreServers, FewerRows, CountIsNumber
    <3>3. Cardinality(CountedOn(n)) <= Capacity[n] /\ Capacity[n] \in Nat
      BY <2>1 DEF LimitInv, NodesBounded
    <3>4. Cardinality(R) <= Capacity[n]
      BY <3>2, <3>3
    <3> QED
      BY <3>4 DEF R
  <2> QED
    BY <2>1 DEF NodeWithinCapacity
<1> QED
  BY <1>1, <1>2, <1>3, PTL DEF Spec

-----------------------------------------------------------------------------
(* The lease pass: servers fail before their node is written off.          *)

\* Written-off nodes have been silent, and rows of an open pass are on nodes
\* that were heard of when it inserted them.
NodeAges ==
    /\ \A n \in Nodes : nstate[n] = "down" => age[n] >= 2
    /\ \A s \in plan.ins : age[snode[s]] <= 1

\* The lease pass has caught every row whose state is in W: before its update
\* they are in hit, after it none is left on a silent or written-off node.
ClearedOf(W) ==
    /\ lease.pc = "failing" => \A s \in Servers :
          sstate[s] \in W /\ snode[s] \in SilentNodes("quarantine", 2) => s \in lease.hit
    /\ lease.pc \in {"abort", "down"} => \A s \in Servers :
          sstate[s] \in W => snode[s] \notin SilentNodes("quarantine", 2)
    /\ \A s \in Servers : sstate[s] \in W => nstate[snode[s]] # "down"

LEMMA InsertsOnly ==
    ASSUME FleetInv, [Next]_vars, ~Inserts
    PROVE  plan'.ins \subseteq plan.ins /\ \A s \in plan'.ins : snode'[s] = snode[s]
<1>0. plan \in PlanType /\ PlanRows /\ plan.ins \subseteq Servers
  BY DEF FleetInv, RowInv, TypeOK, PlanType
<1>00. IdlePlan.ins = {}
  BY DEF IdlePlan
<1>1. CASE ~PlanNext
  <2>1. /\ plan' \in {plan, IdlePlan}
        /\ \A s \in Servers : snode'[s] # snode[s] => s \in plan.ins /\ plan' = IdlePlan
    BY <1>1, PlanFrame
  <2>2. CASE plan' = IdlePlan
    <3>1. plan'.ins = {}
      BY <1>00, <2>2
    <3> QED
      BY <3>1
  <2>3. CASE plan' = plan /\ plan # IdlePlan
    BY <1>0, <2>1, <2>3
  <2> QED
    BY <2>1, <2>2, <2>3
<1>2. CASE PlanNext
  <2>1. UNCHANGED snode
    BY <1>2, PlanCounts
  <2>2. CASE ListFleet \/ PlanCommit
    <3>1. \/ plan' = [IdlePlan EXCEPT !.pc = "window", !.act = fleet]
          \/ plan' = IdlePlan
      BY <2>2 DEF ListFleet, PlanCommit
    <3>2. [IdlePlan EXCEPT !.pc = "window", !.act = fleet].ins = {}
      BY DEF IdlePlan
    <3>3. plan'.ins = {}
      BY <1>00, <3>1, <3>2
    <3> QED
      BY <3>3
  <2>3. ASSUME NEW S \in SUBSET Servers, FailStuckCreating(S) PROVE plan' = plan
    BY <2>3 DEF FailStuckCreating
  <2>4. ASSUME ReadWindow \/ StopOnLeavingNodes \/ TakeOnLeavingNodes
               \/ CountVersion \/ TakeSurplus \/ StopOutside \/ TakeOutside
               \/ DrainLiveOutside
        PROVE  plan'.ins = plan.ins
    BY <1>0, <2>4 DEF ReadWindow, StopOnLeavingNodes, TakeOnLeavingNodes, CountVersion,
              TakeSurplus, StopOutside, TakeOutside, TakeStops, SelectStops,
              DrainLiveOutside, PlanType
  <2>5. CASE EvictDeprecated
    BY <1>0, <2>5 DEF EvictDeprecated, PlanType
  <2>6. CASE StopSurplus
    BY <1>0, <2>6 DEF StopSurplus, PlanType
  <2> QED
    BY <1>2, <2>1, <2>2, <2>3, <2>4, <2>5, <2>6 DEF PlanNext, Inserts
<1> QED
  BY <1>1, <1>2

\* What moves a node: a report of its own, a lease statement, an operator.
LEMMA NodeSteps ==
    ASSUME FleetInv, [Next]_vars
    PROVE  \/ UNCHANGED <<nodeVars, lease>>
           \/ MasterCrash
           \/ LeaseNext
           \/ \E n \in Nodes : Tick(n)
           \/ \E n \in Nodes :
                /\ UNCHANGED lease
                /\ \/ /\ age' = [age EXCEPT ![n] = 0]
                      /\ nstate' = IF nstate[n] \in {"quarantine", "down"}
                                   THEN [nstate EXCEPT ![n] = "active"] ELSE nstate
                   \/ /\ UNCHANGED age
                      /\ \E st \in {"draining", "active", "dead"} :
                            nstate' = [nstate EXCEPT ![n] = st]
<1>1. CASE UNCHANGED vars
  BY <1>1 DEF vars
<1>2. CASE AllocateNext
  BY <1>2 DEF AllocateNext, LookUp, Claim, ClaimCommit, ClaimLost, AllocUnchanged
<1>3. CASE ReportNext
  <2>1. PICK n \in Nodes :
          (\E rows \in SUBSET RowsOn(n) : ReportBegin(n, rows))
            \/ ApplyHeartbeat(n) \/ HelloSync(n)
    BY <1>3 DEF ReportNext
  <2>2. CASE \E rows \in SUBSET RowsOn(n) : ReportBegin(n, rows)
    BY <2>2 DEF ReportBegin
  <2>3. CASE ApplyHeartbeat(n) \/ HelloSync(n)
    <3>1. PICK rep \in [held[n] -> Reports], resurrect \in BOOLEAN :
            ReportCommit(n, rep, resurrect)
      BY <2>3 DEF ApplyHeartbeat, HelloSync
    <3>2. /\ UNCHANGED lease /\ age' = [age EXCEPT ![n] = 0]
          /\ nstate' = IF nstate[n] \in {"quarantine", "down"}
                       THEN [nstate EXCEPT ![n] = "active"] ELSE nstate
      BY <3>1 DEF ReportCommit
    <3> QED
      BY <3>2
  <2> QED
    BY <2>1, <2>2, <2>3
<1>4. CASE EventNext
  BY <1>4 DEF EventNext, ServerFailedEvent, ServerReadyEvent, MatchStart, MatchEnd,
              EventUnchanged
<1>5. CASE NodeNext
  BY <1>5 DEF NodeNext, DrainNode, UndrainNode, RevokeNode, NodeUnchanged
<1>6. CASE PlanNext
  BY <1>6 DEF PlanNext, FailStuckCreating, ListFleet, ReadWindow, StopOnLeavingNodes,
              TakeOnLeavingNodes, EvictDeprecated, CountVersion, InsertServer,
              StopSurplus, TakeSurplus, StopOutside, TakeOutside, TakeStops,
              DrainLiveOutside, PlanCommit, PlanUnchanged
<1>7. CASE VersionStep \/ DisableExpired
  BY <1>7 DEF VersionStep, DisableExpired
<1> QED
  BY <1>1, <1>2, <1>3, <1>4, <1>5, <1>6, <1>7 DEF Next

LEMMA StepKeepsAges ==
    ASSUME FleetInv, NodeAges, [Next]_vars PROVE NodeAges'
<1> USE FleetAssumption
<1>0. TypeOK /\ PlanRows /\ nstate \in [Nodes -> NodeStates] /\ age \in [Nodes -> 0..3]
      /\ snode \in [Servers -> Nodes \cup {NoNode}] /\ plan \in PlanType
      /\ plan.ins \subseteq Servers /\ \A s \in plan.ins : snode[s] \in Nodes
  BY DEF FleetInv, RowInv, TypeOK, PlanType
<1>1. CASE Inserts
  <2>1. PICK s \in Servers, n \in Nodes : InsertServer(s, n)
    BY <1>1 DEF Inserts
  <2>2. /\ plan'.ins = plan.ins \cup {s} /\ snode' = [snode EXCEPT ![s] = n]
        /\ UNCHANGED nodeVars /\ age[n] = 0 /\ s \notin plan.ins
    BY <1>0, <2>1 DEF InsertServer, PlanUnchanged, PlanType, Roomy, Placeable
  <2>3. \A t \in plan'.ins : age[snode'[t]] <= 1
    <3>1. \A t \in plan.ins : snode'[t] = snode[t]
      BY <1>0, <2>2
    <3>2. snode'[s] = n
      BY <1>0, <2>2
    <3> QED
      BY <2>2, <3>1, <3>2 DEF NodeAges
  <2> QED
    BY <2>2, <2>3 DEF NodeAges, nodeVars
<1>2. CASE ~Inserts
  <2>0. plan'.ins \subseteq plan.ins /\ \A s \in plan'.ins : snode'[s] = snode[s]
    BY <1>2, InsertsOnly
  <2>1. CASE UNCHANGED nodeVars
    BY <2>0, <2>1 DEF NodeAges, nodeVars
  <2>2. CASE MasterCrash
    <3>1. UNCHANGED nodeVars
      BY <2>2 DEF MasterCrash
    <3> QED
      BY <2>1, <3>1
  <2>3. CASE LeaseNext
    <3>1. UNCHANGED age /\ \A n \in Nodes :
            nstate'[n] = "down" => nstate[n] = "down" \/ age[n] >= 3
      BY <1>0, <2>3 DEF LeaseNext, QuarantineStaleNodes, FailQuarantinedSelect,
              FailQuarantinedServers, AbortLostMatches, MarkDownNodes, MoveNodes,
              SilentNodes, nodeVars
    <3>2. \A n \in Nodes : nstate'[n] = "down" => age'[n] >= 2
      BY <1>0, <3>1 DEF NodeAges
    <3>3. \A s \in plan'.ins : age'[snode'[s]] <= 1
      BY <2>0, <3>1 DEF NodeAges
    <3> QED
      BY <3>2, <3>3 DEF NodeAges
  <2>4. ASSUME NEW n \in Nodes, Tick(n) PROVE NodeAges'
    <3>1. /\ age' = [age EXCEPT ![n] = age[n] + 1] /\ UNCHANGED <<nstate, snode, plan>>
          /\ age[n] > 0 => plan = IdlePlan
      BY <2>4 DEF Tick, serverVars
    <3>2. \A o \in Nodes : age'[o] = IF o = n THEN age[o] + 1 ELSE age[o]
      BY <1>0, <3>1
    <3>3. \A o \in Nodes : nstate'[o] = "down" => age'[o] >= 2
      BY <1>0, <3>1, <3>2 DEF NodeAges
    <3>4. \A s \in plan'.ins : age'[snode'[s]] <= 1
      <4>1. CASE age[n] = 0
        BY <1>0, <3>1, <3>2, <4>1 DEF NodeAges
      <4>2. CASE age[n] # 0
        <5>0. age[n] \in 0..3
          BY <1>0
        <5>1. age[n] > 0
          BY <4>2, <5>0
        <5>2. plan'.ins = {}
          BY <3>1, <5>1 DEF IdlePlan
        <5> QED
          BY <5>2
      <4> QED
        BY <4>1, <4>2
    <3> QED
      BY <3>3, <3>4 DEF NodeAges
  <2>5. ASSUME NEW n \in Nodes, age' = [age EXCEPT ![n] = 0],
               nstate' = IF nstate[n] \in {"quarantine", "down"}
                         THEN [nstate EXCEPT ![n] = "active"] ELSE nstate
        PROVE  NodeAges'
    <3>1. \A o \in Nodes : o # n => age'[o] = age[o] /\ nstate'[o] = nstate[o]
      BY <1>0, <2>5
    <3>2. age'[n] = 0 /\ nstate'[n] # "down"
      BY <1>0, <2>5
    <3>3. \A o \in Nodes : nstate'[o] = "down" => age'[o] >= 2
      BY <1>0, <3>1, <3>2 DEF NodeAges
    <3>4. \A s \in plan'.ins : age'[snode'[s]] <= 1
      BY <1>0, <2>0, <3>1, <3>2 DEF NodeAges
    <3> QED
      BY <3>3, <3>4 DEF NodeAges
  <2>6. ASSUME NEW n \in Nodes, NEW st \in {"draining", "active", "dead"},
               UNCHANGED age, nstate' = [nstate EXCEPT ![n] = st]
        PROVE  NodeAges'
    <3>1. \A o \in Nodes : nstate'[o] = "down" => nstate[o] = "down"
      BY <1>0, <2>6
    <3> QED
      BY <2>0, <2>6, <3>1 DEF NodeAges
  <2> QED
    BY <2>1, <2>2, <2>3, <2>4, <2>5, <2>6, NodeSteps DEF nodeVars
<1> QED
  BY <1>1, <1>2

\* Rows that enter W do so on nodes heard of lately; with that, the three
\* statements of the lease pass run in the order that clears W.
LEMMA StepKeepsCleared ==
    ASSUME NEW W \in SUBSET Live, FleetInv, NodeAges, ClearedOf(W), [Next]_vars,
           \A s \in Servers : sstate'[s] \in W /\ sstate[s] \notin W => age'[snode[s]] <= 1
    PROVE  ClearedOf(W)'
<1> USE FleetAssumption
<1>0. /\ TypeOK /\ PlanRows /\ NodeAges'
      /\ nstate \in [Nodes -> NodeStates] /\ age \in [Nodes -> 0..3]
      /\ "failed" \notin W /\ "none" \notin W /\ age' \in [Nodes -> 0..3]
  BY StepKeepsAges, StepKeepsInv DEF FleetInv, RowInv, TypeOK, Live
<1>1. ASSUME NEW s \in Servers, sstate'[s] \in W
      PROVE  /\ snode'[s] = snode[s] /\ snode[s] \in Nodes
             /\ sstate[s] \in W \/ age'[snode[s]] <= 1
  <2>1. TypeOK' /\ PlanRows'
    BY StepKeepsInv DEF FleetInv, RowInv
  <2>2. s \notin plan'.ins /\ sstate'[s] # "none"
    BY <1>0, <1>1, <2>1 DEF PlanRows
  <2>3. snode'[s] = snode[s]
    <3>1. CASE Inserts
      <4>1. PICK t \in Servers, n \in Nodes : InsertServer(t, n)
        BY <3>1 DEF Inserts
      <4>2. sstate'[s] = sstate[s] /\ sstate[t] = "none" /\ snode' = [snode EXCEPT ![t] = n]
        BY <4>1 DEF InsertServer, PlanUnchanged
      <4> QED
        BY <1>0, <2>2, <4>2 DEF TypeOK
    <3>2. CASE PlanNext /\ ~Inserts
      BY <3>2, PlanCounts
    <3>3. CASE ~PlanNext
      <4>1. snode'[s] # snode[s] => s \in plan.ins
        BY <3>3, PlanFrame
      <4>2. s \in plan.ins => sstate[s] = "none"
        BY <1>0 DEF PlanRows
      <4>3. ASSUME sstate[s] = "none" PROVE FALSE
        <5>1. sstate[s] \notin Live /\ sstate'[s] \in Live /\ ~PlanCommit
          BY <1>1, <3>3, <4>3 DEF Live, PlanNext
        <5> QED
          BY <4>3, <5>1, LiveOrigin
      <4> QED
        BY <4>1, <4>2, <4>3
    <3> QED
      BY <3>1, <3>2, <3>3
  <2>4. snode'[s] # NoNode /\ snode'[s] \in Nodes
    BY <2>1, <2>2 DEF TypeOK
  <2> QED
    BY <1>1, <2>3, <2>4
<1>2. ASSUME UNCHANGED nodeVars, lease' \in {lease, IdleLease} PROVE ClearedOf(W)'
  <2>1. ASSUME NEW s \in Servers, sstate'[s] \in W
        PROVE  /\ snode'[s] = snode[s] /\ nstate[snode[s]] # "down"
               /\ sstate[s] \in W \/ age[snode[s]] <= 1
    BY <1>0, <1>1, <1>2, <2>1 DEF ClearedOf, NodeAges, nodeVars
  <2>2. \A n \in SilentNodes("quarantine", 2) : ~(age[n] <= 1)
    BY <1>0 DEF SilentNodes
  <2>3. SilentNodes("quarantine", 2)' = SilentNodes("quarantine", 2)
    BY <1>2 DEF SilentNodes, nodeVars
  <2> QED
    BY <1>2, <2>1, <2>2, <2>3 DEF ClearedOf, IdleLease, nodeVars
\* A node is heard of, or an operator moves it: neither makes it silent.
<1>3. ASSUME UNCHANGED lease,
             \A n \in Nodes : nstate'[n] = "down" => nstate[n] = "down",
             \A n \in Nodes : n \in SilentNodes("quarantine", 2)' => n \in SilentNodes("quarantine", 2)
      PROVE  ClearedOf(W)'
  <2>1. ASSUME NEW s \in Servers, sstate'[s] \in W
        PROVE  /\ snode'[s] = snode[s] /\ snode[s] \in Nodes /\ nstate'[snode[s]] # "down"
               /\ sstate[s] \in W \/ age'[snode[s]] <= 1
    BY <1>0, <1>1, <1>3, <2>1 DEF ClearedOf, NodeAges
  <2>2. \A n \in SilentNodes("quarantine", 2)' : ~(age'[n] <= 1)
    BY <1>0 DEF SilentNodes
  <2> QED
    BY <1>3, <2>1, <2>2 DEF ClearedOf
<1>4. ASSUME NEW n \in Nodes, Tick(n) PROVE ClearedOf(W)'
  <2>1. /\ UNCHANGED <<serverVars, nstate, lease>> /\ age' = [age EXCEPT ![n] = age[n] + 1]
        /\ age[n] > 0 => lease = IdleLease
    BY <1>4 DEF Tick
  <2>2. \A s \in Servers : sstate'[s] \in W => nstate'[snode'[s]] # "down"
    BY <2>1 DEF ClearedOf, serverVars
  <2>3. CASE lease = IdleLease
    BY <2>1, <2>2, <2>3 DEF ClearedOf, IdleLease
  <2>4. CASE age[n] = 0
    <3>1. \A o \in Nodes : age'[o] = IF o = n THEN 1 ELSE age[o]
      BY <1>0, <2>1, <2>4
    <3>2. \A o \in Nodes : o \in SilentNodes("quarantine", 2)' => o \in SilentNodes("quarantine", 2)
      BY <2>1, <3>1 DEF SilentNodes
    <3> QED
      BY <1>3, <2>1, <3>2
  <2>5. age[n] \in 0..3
    BY <1>0
  <2> QED
    BY <2>1, <2>3, <2>4, <2>5
<1>5. CASE LeaseNext
  <2>1. UNCHANGED <<snode, age>>
    BY <1>5 DEF LeaseNext, QuarantineStaleNodes, FailQuarantinedSelect, FailQuarantinedServers,
                AbortLostMatches, MarkDownNodes, serverVars, nodeVars
  <2>2. CASE QuarantineStaleNodes
    <3>1. /\ UNCHANGED sstate /\ lease'.pc = "fail"
          /\ \A n \in Nodes : nstate'[n] = "down" => nstate[n] = "down"
      BY <2>2 DEF QuarantineStaleNodes, MoveNodes, IdleLease, serverVars
    <3> QED
      BY <1>1, <2>1, <3>1 DEF ClearedOf
  <2>3. CASE FailQuarantinedSelect
    <3>1. /\ UNCHANGED <<sstate, nstate>> /\ lease'.pc = "failing"
          /\ lease'.hit = {s \in Servers : sstate[s] \in Live
                            /\ snode[s] \in SilentNodes("quarantine", 2)}
      BY <2>3 DEF FailQuarantinedSelect, serverVars, nodeVars
    <3>2. SilentNodes("quarantine", 2)' = SilentNodes("quarantine", 2)
      BY <2>1, <3>1 DEF SilentNodes
    <3> QED
      BY <2>1, <3>1, <3>2 DEF ClearedOf
  <2>4. CASE FailQuarantinedServers
    <3>1. /\ UNCHANGED nstate /\ lease.pc = "failing" /\ lease'.pc = "abort"
          /\ \A s \in Servers : sstate'[s] =
               IF s \in lease.hit /\ sstate[s] \in Live THEN "failed" ELSE sstate[s]
      BY <2>4 DEF FailQuarantinedServers, nodeVars
    <3>2. SilentNodes("quarantine", 2)' = SilentNodes("quarantine", 2)
      BY <2>1, <3>1 DEF SilentNodes
    <3>3. ASSUME NEW s \in Servers, sstate'[s] \in W
          PROVE  sstate[s] \in W /\ snode'[s] \notin SilentNodes("quarantine", 2)'
      BY <1>0, <2>1, <3>1, <3>2, <3>3 DEF ClearedOf
    <3> QED
      BY <2>1, <3>1, <3>3 DEF ClearedOf
  <2>5. CASE AbortLostMatches
    <3>1. UNCHANGED <<sstate, nstate>> /\ lease.pc = "abort" /\ lease'.pc = "down"
      BY <2>5 DEF AbortLostMatches, serverVars, nodeVars
    <3>2. SilentNodes("quarantine", 2)' = SilentNodes("quarantine", 2)
      BY <2>1, <3>1 DEF SilentNodes
    <3> QED
      BY <2>1, <3>1, <3>2 DEF ClearedOf
  <2>6. CASE MarkDownNodes
    <3>1. /\ UNCHANGED sstate /\ lease.pc = "down" /\ lease'.pc = "idle"
          /\ \A n \in Nodes : nstate'[n] = "down"
               => nstate[n] = "down" \/ n \in SilentNodes("quarantine", 3)
      BY <2>6 DEF MarkDownNodes, MoveNodes, IdleLease, serverVars
    <3>2. SilentNodes("quarantine", 3) \subseteq SilentNodes("quarantine", 2)
      BY <1>0 DEF SilentNodes
    <3>3. \A s \in Servers : sstate'[s] \in W => nstate'[snode'[s]] # "down"
      BY <1>1, <3>1, <3>2 DEF ClearedOf
    <3> QED
      BY <3>1, <3>3 DEF ClearedOf
  <2> QED
    BY <1>5, <2>2, <2>3, <2>4, <2>5, <2>6 DEF LeaseNext
<1>6. CASE MasterCrash
  BY <1>2, <1>6 DEF MasterCrash
<1>7. ASSUME NEW n \in Nodes, UNCHANGED lease, age' = [age EXCEPT ![n] = 0],
             nstate' = IF nstate[n] \in {"quarantine", "down"}
                       THEN [nstate EXCEPT ![n] = "active"] ELSE nstate
      PROVE  ClearedOf(W)'
  <2>1. \A o \in Nodes : o # n => age'[o] = age[o] /\ nstate'[o] = nstate[o]
    BY <1>0, <1>7
  <2>2. nstate'[n] \notin {"quarantine", "down"}
    BY <1>0, <1>7
  <2>3. /\ \A o \in Nodes : nstate'[o] = "down" => nstate[o] = "down"
        /\ \A o \in Nodes : o \in SilentNodes("quarantine", 2)' => o \in SilentNodes("quarantine", 2)
    BY <2>1, <2>2 DEF SilentNodes
  <2> QED
    BY <1>3, <1>7, <2>3
<1>8. ASSUME NEW n \in Nodes, NEW st \in {"draining", "active", "dead"},
             UNCHANGED <<age, lease>>, nstate' = [nstate EXCEPT ![n] = st]
      PROVE  ClearedOf(W)'
  <2>1. /\ \A o \in Nodes : nstate'[o] = "down" => nstate[o] = "down"
        /\ \A o \in Nodes : o \in SilentNodes("quarantine", 2)' => o \in SilentNodes("quarantine", 2)
    BY <1>0, <1>8 DEF SilentNodes
  <2> QED
    BY <1>3, <1>8, <2>1
<1> QED
  BY <1>2, <1>4, <1>5, <1>6, <1>7, <1>8, NodeSteps

\* Rows that players are on or may be sent to.
Playable == Live \ {"draining"}

DownNodeHasNoPlayable ==
    \A n \in Nodes : nstate[n] = "down"
        => \A s \in RowsOn(n) : sstate[s] \notin Playable

LEMMA InitCleared ==
    ASSUME NEW W \in SUBSET Live, Init PROVE FleetInv /\ NodeAges /\ ClearedOf(W)
<1>1. /\ FleetInv /\ lease.pc = "idle" /\ plan.ins = {}
      /\ nstate = [n \in Nodes |-> "active"]
  BY InitEstablishesInv DEF Init, IdleLease, IdlePlan
<1>2. NodeAges
  BY <1>1 DEF NodeAges
<1>3. ASSUME NEW s \in Servers, sstate[s] \in W PROVE nstate[snode[s]] # "down"
  <2>1. snode[s] \in Nodes
    BY <1>1, <1>3 DEF FleetInv, TypeOK, Live
  <2> QED
    BY <1>1, <2>1
<1> QED
  BY <1>1, <1>2, <1>3 DEF ClearedOf

\* Whatever passes, claims, reports and crashes run against it, the lease pass
\* writes no node off that a ready or allocated server is on, and none appears
\* there later.
THEOREM PlayersAreNotOnDownNodes == Spec => []DownNodeHasNoPlayable
<1> DEFINE LeaseInv == FleetInv /\ NodeAges /\ ClearedOf(Playable)
<1>1. Playable \in SUBSET Live
  BY DEF Playable
<1>2. Init => LeaseInv
  BY <1>1, InitCleared
<1>3. LeaseInv /\ [Next]_vars => LeaseInv'
  <2> SUFFICES ASSUME LeaseInv, [Next]_vars PROVE LeaseInv'
    OBVIOUS
  <2>1. ASSUME NEW s \in Servers, sstate'[s] \in Playable, sstate[s] \notin Playable
        PROVE  age'[snode[s]] <= 1
    <3>1. sstate[s] \notin Live
      <4>1. sstate[s] # "draining"
        BY <2>1, StateOrigin DEF Playable, Live
      <4> QED
        BY <2>1, <4>1 DEF Playable
    <3>2. sstate'[s] \in Live /\ sstate'[s] # "draining"
      BY <2>1 DEF Playable
    <3>3. CASE PlanCommit /\ s \in plan.ins
      BY <3>3 DEF PlanCommit, NodeAges, nodeVars
    <3>4. CASE age'[snode[s]] = 0
      BY <3>4
    <3> QED
      BY <3>1, <3>2, <3>3, <3>4, LiveOrigin
  <2>2. FleetInv' /\ NodeAges'
    BY StepKeepsInv, StepKeepsAges
  <2>3. ClearedOf(Playable)'
    <3> DEFINE W == Playable
    <3>1. /\ W \in SUBSET Live /\ ClearedOf(W)
          /\ \A s \in Servers : sstate'[s] \in W /\ sstate[s] \notin W => age'[snode[s]] <= 1
      BY <1>1, <2>1
    <3> HIDE DEF W
    <3>2. ClearedOf(W)'
      BY <3>1, StepKeepsCleared
    <3> QED
      BY <3>2 DEF W, Playable
  <2> QED
    BY <2>2, <2>3
<1>4. LeaseInv => DownNodeHasNoPlayable
  BY DEF FleetInv, ClearedOf, RowsOn, DownNodeHasNoPlayable
<1> QED
  BY <1>2, <1>3, <1>4, PTL DEF Spec

\* Without a reconcile pass running, which can set a row to draining that the
\* lease pass has just failed, nothing live at all is left on a down node.
THEOREM DownNodesAreEmpty ==
    ASSUME "reconcile" \notin Inputs PROVE Spec => []DownNodeHasNoLive
<1> DEFINE LeaseInv == FleetInv /\ NodeAges /\ ClearedOf(Live) /\ plan = IdlePlan
<1>1. Init => LeaseInv
  BY InitCleared DEF Init
<1>2. LeaseInv /\ [Next]_vars => LeaseInv'
  <2> SUFFICES ASSUME LeaseInv, [Next]_vars PROVE LeaseInv'
    OBVIOUS
  <2>1. plan.pc = "idle"
    BY DEF IdlePlan
  <2>2. plan' = IdlePlan /\ ~PlanCommit
    <3>1. CASE PlanNext
      BY <2>1, <3>1 DEF PlanNext, FailStuckCreating, ListFleet, ReadWindow,
              StopOnLeavingNodes, TakeOnLeavingNodes, EvictDeprecated, CountVersion,
              InsertServer, StopSurplus, TakeSurplus, StopOutside, TakeOutside, TakeStops,
              DrainLiveOutside, PlanCommit
    <3>2. CASE ~PlanNext
      BY <3>2, PlanFrame DEF PlanNext
    <3> QED
      BY <3>1, <3>2
  <2>3. ASSUME NEW s \in Servers, sstate'[s] \in Live, sstate[s] \notin Live
        PROVE  age'[snode[s]] <= 1
    <3>1. age'[snode[s]] = 0
      BY <2>2, <2>3, LiveOrigin
    <3> QED
      BY <3>1
  <2>4. FleetInv' /\ NodeAges'
    BY StepKeepsInv, StepKeepsAges
  <2>5. ClearedOf(Live)'
    <3> DEFINE W == Live
    <3>1. /\ W \in SUBSET Live /\ ClearedOf(W)
          /\ \A s \in Servers : sstate'[s] \in W /\ sstate[s] \notin W => age'[snode[s]] <= 1
      BY <2>3
    <3> HIDE DEF W
    <3>2. ClearedOf(W)'
      BY <3>1, StepKeepsCleared
    <3> QED
      BY <3>2 DEF W, Live
  <2> QED
    BY <2>2, <2>4, <2>5
<1>3. LeaseInv => DownNodeHasNoLive
  BY DEF FleetInv, ClearedOf, RowsOn, DownNodeHasNoLive
<1> QED
  BY <1>1, <1>2, <1>3, PTL DEF Spec

-----------------------------------------------------------------------------
(* The matches of lost servers.                                            *)

\* A row that carries a match has been claimed ready, and a durable claim opens
\* the match row with it.
MatchedAreOpened ==
    \A s \in Servers : smatch[s] # NoMatch
        => sstate[s] # "creating" /\ mstate[smatch[s]] # "none"

CloseInv == FleetInv /\ MatchedAreOpened /\ FailedServerHasNoOpenMatch

LEMMA CreatingOrigin ==
    ASSUME FleetInv, [Next]_vars, NEW s \in Servers,
           sstate'[s] = "creating", sstate[s] # "creating"
    PROVE  sstate[s] = "none" /\ ~AllocateNext
<1>0. TypeOK /\ RowInv
  BY DEF FleetInv
<1>1. sstate[s] \notin Live
  <2>1. sstate[s] \in {"none", "failed"}
    BY StateOrigin
  <2> QED
    BY <2>1 DEF Live
<1>2. PlanCommit /\ s \in plan.ins
  BY <1>1, LiveOrigin DEF Live, Serving
<1>3. sstate[s] = "none"
  BY <1>0, <1>2 DEF RowInv, PlanRows
<1>4. ~AllocateNext
  <2>1. ASSUME NEW r \in Requests, LookUp(r) \/ Claim(r) \/ ClaimCommit(r) \/ ClaimLost(r)
        PROVE  FALSE
    BY <1>0, <1>3, <2>1 DEF LookUp, Claim, ClaimCommit, ClaimLost, TypeOK
  <2> QED
    BY <2>1 DEF AllocateNext
<1> QED
  BY <1>3, <1>4

\* A match row is never taken back.
LEMMA OpenedStays ==
    ASSUME FleetInv, [Next]_vars, NEW m \in Matches, mstate[m] # "none"
    PROVE  mstate'[m] # "none"
<1>0. TypeOK /\ RowInv
  BY DEF FleetInv
<1>1. \A S : Aborted(S)[m] # "none"
  BY DEF Aborted
<1>2. CASE UNCHANGED mstate
  BY <1>2
<1>3. CASE AllocateNext
  BY <1>0, <1>3 DEF AllocateNext, LookUp, Claim, ClaimCommit, ClaimLost, TypeOK
<1>4. CASE ReportNext
  <2>1. ASSUME NEW n \in Nodes, NEW rep \in [held[n] -> Reports], NEW resurrect \in BOOLEAN,
               ReportCommit(n, rep, resurrect)
        PROVE  mstate'[m] # "none"
    <3>1. PICK reopen, lost :
            mstate' = [o \in Matches |-> IF o \in reopen /\ mstate[o] = "aborted"
                                         THEN "running" ELSE Aborted(lost)[o]]
      BY <2>1 DEF ReportCommit
    <3> QED
      BY <1>1, <3>1
  <2> QED
    BY <1>2, <1>4, <2>1 DEF ReportNext, ReportBegin, ApplyHeartbeat, HelloSync, matchVars
<1>5. CASE EventNext
  <2>1. ASSUME NEW s \in Servers, ServerFailedEvent(s) PROVE mstate'[m] # "none"
    BY <1>1, <2>1 DEF ServerFailedEvent
  <2>2. ASSUME NEW s \in Servers, NEW result \in {"finished", "aborted"},
               MatchStart(s) \/ MatchEnd(s, result)
        PROVE  mstate'[m] # "none"
    BY <1>0, <2>2 DEF MatchStart, MatchEnd, TypeOK
  <2> QED
    BY <1>2, <1>5, <2>1, <2>2 DEF EventNext, ServerReadyEvent, matchVars
<1>6. CASE LeaseNext
  BY <1>1, <1>2, <1>6 DEF LeaseNext, QuarantineStaleNodes, FailQuarantinedSelect,
              FailQuarantinedServers, AbortLostMatches, MarkDownNodes, matchVars
<1>7. CASE NodeNext \/ VersionStep \/ DisableExpired \/ MasterCrash \/ UNCHANGED vars
  BY <1>7, <1>2 DEF NodeNext, Tick, DrainNode, UndrainNode, RevokeNode, NodeUnchanged,
              VersionStep, DisableExpired, MasterCrash, matchVars, vars
<1>8. CASE PlanNext
  BY <1>8, <1>2 DEF PlanNext, FailStuckCreating, ListFleet, ReadWindow, StopOnLeavingNodes,
              TakeOnLeavingNodes, EvictDeprecated, CountVersion, InsertServer,
              StopSurplus, TakeSurplus, StopOutside, TakeOutside, TakeStops,
              DrainLiveOutside, PlanCommit, PlanUnchanged, matchVars
<1> QED
  BY <1>3, <1>4, <1>5, <1>6, <1>7, <1>8 DEF Next

LEMMA StepKeepsOpened ==
    ASSUME Durable = Requests, "crash" \notin Inputs,
           FleetInv, MatchedAreOpened, [Next]_vars
    PROVE  MatchedAreOpened'
<1> USE FleetAssumption
<1>0. TypeOK /\ RowInv /\ ~MasterCrash
  BY DEF FleetInv, MasterCrash
<1>1. ASSUME NEW s \in Servers, smatch'[s] # NoMatch, smatch'[s] = smatch[s]
      PROVE  sstate'[s] # "creating" /\ mstate'[smatch'[s]] # "none"
  <2>1. sstate[s] # "creating" /\ mstate[smatch[s]] # "none" /\ smatch[s] \in Matches
    BY <1>0, <1>1 DEF MatchedAreOpened, TypeOK
  <2>2. sstate[s] # "none"
    BY <1>0, <1>1 DEF RowInv, MatchedRowsExist
  <2>3. sstate'[s] # "creating"
    BY <2>1, <2>2, CreatingOrigin
  <2> QED
    BY <1>1, <2>1, <2>3, OpenedStays
<1>2. CASE ~AllocateNext
  BY <1>0, <1>1, <1>2, QuietSteps DEF MatchedAreOpened
<1>3. ASSUME NEW r \in Requests, LookUp(r) \/ Claim(r) \/ ClaimLost(r)
      PROVE  MatchedAreOpened'
  <2>1. UNCHANGED smatch
    BY <1>3 DEF LookUp, Claim, ClaimLost
  <2> QED
    BY <1>1, <2>1 DEF MatchedAreOpened
<1>4. ASSUME NEW r \in Requests, ClaimCommit(r) PROVE MatchedAreOpened'
  <2> DEFINE s == req[r].row
             m == MatchOf[r]
  <2>1. /\ sstate' = [sstate EXCEPT ![s] = "allocated"]
        /\ smatch' = [smatch EXCEPT ![s] = m]
        /\ mstate' = [mstate EXCEPT ![m] = "pending"]
        /\ s \in Servers /\ m \in Matches
    BY <1>0, <1>4 DEF ClaimCommit, RowInv, ClaimsHoldReady
  <2>2. sstate'[s] = "allocated" /\ smatch'[s] = m /\ mstate'[m] = "pending"
    BY <1>0, <2>1 DEF TypeOK
  <2>3. \A t \in Servers : t # s => smatch'[t] = smatch[t]
    BY <1>0, <2>1 DEF TypeOK
  <2> HIDE DEF s, m
  <2> QED
    BY <1>1, <2>2, <2>3 DEF MatchedAreOpened
<1> QED
  BY <1>2, <1>3, <1>4 DEF AllocateNext

FailedOpen(s) ==
    sstate[s] = "failed" /\ smatch[s] # NoMatch /\ mstate[smatch[s]] \in OpenMatch

\* Outside the lease pass no step leaves a failed server with a match it opens:
\* a loss closes the match, and only its own live server opens it again.
LEMMA NoNewFailedOpen ==
    ASSUME Durable = Requests, CloseInv, [Next]_vars, ~LeaseNext,
           NEW s \in Servers, FailedOpen(s)'
    PROVE  FailedOpen(s)
<1> USE FleetAssumption
<1>0. TypeOK /\ RowInv /\ MatchedAreOpened /\ OneServerPerMatch
  BY DEF CloseInv, FleetInv, RowInv
<1>1. sstate'[s] = "failed" /\ smatch'[s] # NoMatch /\ mstate'[smatch'[s]] \in OpenMatch
  BY DEF FailedOpen
<1>2. ASSUME UNCHANGED <<smatch, mstate>>, sstate'[s] = "failed" => sstate[s] \in {"failed", "creating"}
      PROVE  FailedOpen(s)
  BY <1>0, <1>1, <1>2 DEF FailedOpen, MatchedAreOpened
<1>3. CASE UNCHANGED vars
  BY <1>2, <1>3 DEF vars, serverVars, matchVars
<1>4. ASSUME NEW r \in Requests, LookUp(r) \/ Claim(r) \/ ClaimLost(r)
      PROVE  FailedOpen(s)
  BY <1>1, <1>2, <1>4 DEF LookUp, Claim, ClaimLost
<1>5. ASSUME NEW r \in Requests, ClaimCommit(r) PROVE FailedOpen(s)
  <2> DEFINE c == req[r].row
             m == MatchOf[r]
  <2>1. /\ sstate' = [sstate EXCEPT ![c] = "allocated"]
        /\ smatch' = [smatch EXCEPT ![c] = m]
        /\ mstate' = [mstate EXCEPT ![m] = "pending"]
        /\ HolderOf(m) \subseteq {c}
        /\ c \in Servers /\ m \in Matches
    BY <1>0, <1>5 DEF ClaimCommit, RowInv, ClaimsHoldReady
  <2> HIDE DEF c, m
  <2>2. s # c
    BY <1>0, <1>1, <2>1 DEF TypeOK
  <2>3. sstate[s] = "failed" /\ smatch'[s] = smatch[s]
    BY <1>0, <1>1, <2>1, <2>2 DEF TypeOK
  <2>4. smatch[s] # m
    BY <2>1, <2>2, <2>3 DEF HolderOf
  <2>5. mstate'[smatch[s]] = mstate[smatch[s]]
    BY <1>0, <2>1, <2>4 DEF TypeOK
  <2> QED
    BY <1>1, <2>3, <2>5 DEF FailedOpen
<1>6. ASSUME NEW n \in Nodes, NEW rep \in [held[n] -> Reports], NEW resurrect \in BOOLEAN,
             ReportCommit(n, rep, resurrect)
      PROVE  FailedOpen(s)
  <2> DEFINE back == {t \in held[n] : Resurrected(t, rep, resurrect)}
             lost == {t \in held[n] : sstate[t] # "failed"
                          /\ Reconciled(t, rep, resurrect) = "failed"}
             reopen == {smatch[t] : t \in {u \in back : rep[u] = "allocated"}}
  <2>1. /\ UNCHANGED smatch /\ held[n] \subseteq Servers
        /\ mstate' = [m \in Matches |-> IF m \in reopen /\ mstate[m] = "aborted"
                                        THEN "running" ELSE Aborted(lost)[m]]
    BY <1>0, <1>6 DEF ReportCommit, TypeOK
  <2>2. sstate'[s] = IF s \in held[n] THEN Reconciled(s, rep, resurrect)
                     ELSE IF snode[s] = n /\ sstate[s] = "draining" THEN "reaped"
                     ELSE sstate[s]
    BY <1>6 DEF ReportCommit
  <2>3. smatch[s] \in Matches
    BY <1>0, <1>1, <2>1 DEF TypeOK
  <2>4. smatch[s] \notin reopen
    <3>1. ASSUME NEW t \in back, smatch[t] = smatch[s] PROVE FALSE
      <4>1. t = s
        BY <1>0, <1>1, <2>1, <3>1 DEF OneServerPerMatch
      <4>2. Reconciled(s, rep, resurrect) \in Serving /\ s \in held[n]
        BY <3>1, <4>1 DEF Reconciled, Resurrected
      <4> QED
        BY <1>1, <2>2, <4>2 DEF Serving
    <3> QED
      BY <3>1
  <2>5. mstate'[smatch[s]] = Aborted(lost)[smatch[s]]
    BY <2>1, <2>3, <2>4
  <2>6. s \notin lost /\ mstate[smatch[s]] \in OpenMatch
    BY <1>1, <2>1, <2>3, <2>5 DEF Aborted, OpenMatch
  <2>7. sstate[s] = "failed"
    BY <1>1, <2>2, <2>6
  <2> QED
    BY <1>1, <2>1, <2>6, <2>7 DEF FailedOpen
<1>7. CASE ReportNext
  <2>1. ASSUME NEW n \in Nodes, NEW rows \in SUBSET RowsOn(n), ReportBegin(n, rows)
        PROVE  FailedOpen(s)
    BY <1>1, <1>2, <2>1 DEF ReportBegin, serverVars, matchVars
  <2> QED
    BY <1>6, <1>7, <2>1 DEF ReportNext, ApplyHeartbeat, HelloSync
<1>8. ASSUME NEW t \in Servers, ServerFailedEvent(t) PROVE FailedOpen(s)
  <2>1. /\ UNCHANGED smatch /\ sstate' = [sstate EXCEPT ![t] = "failed"]
        /\ mstate' = Aborted({t})
    BY <1>8 DEF ServerFailedEvent, EventUnchanged
  <2>2. smatch[s] \in Matches
    BY <1>0, <1>1, <2>1 DEF TypeOK
  <2>3. s # t /\ mstate[smatch[s]] \in OpenMatch
    BY <1>1, <2>1, <2>2 DEF Aborted, OpenMatch
  <2>4. sstate[s] = "failed"
    BY <1>0, <1>1, <2>1, <2>3 DEF TypeOK
  <2> QED
    BY <1>1, <2>1, <2>3, <2>4 DEF FailedOpen
<1>9. ASSUME NEW t \in Servers, ServerReadyEvent(t) PROVE FailedOpen(s)
  <2>1. UNCHANGED <<smatch, mstate>> /\ sstate' = [sstate EXCEPT ![t] = "ready"]
    BY <1>9 DEF ServerReadyEvent, EventUnchanged, matchVars
  <2> QED
    BY <1>0, <1>1, <1>2, <2>1 DEF TypeOK
<1>10. ASSUME NEW t \in Servers, MatchStart(t) PROVE FailedOpen(s)
  <2>1. /\ UNCHANGED <<sstate, smatch>> /\ smatch[t] # NoMatch
        /\ mstate[smatch[t]] \in {"none", "pending"}
        /\ mstate' = [mstate EXCEPT ![smatch[t]] = "running"]
    BY <1>10 DEF MatchStart, EventUnchanged
  <2>2. CASE s = t
    <3>1. mstate[smatch[s]] = "pending"
      BY <1>0, <2>1, <2>2 DEF MatchedAreOpened
    <3> QED
      BY <1>1, <2>1, <3>1 DEF FailedOpen, OpenMatch
  <2>3. CASE s # t
    <3>1. smatch[s] # smatch[t]
      BY <1>0, <2>1, <2>3 DEF OneServerPerMatch
    <3>2. mstate'[smatch[s]] = mstate[smatch[s]]
      BY <1>0, <1>1, <2>1, <3>1 DEF TypeOK
    <3> QED
      BY <1>1, <2>1, <3>2 DEF FailedOpen
  <2> QED
    BY <2>2, <2>3
<1>11. ASSUME NEW t \in Servers, NEW result \in {"finished", "aborted"}, MatchEnd(t, result)
       PROVE  FailedOpen(s)
  <2>1. /\ UNCHANGED <<sstate, smatch>>
        /\ mstate' = [mstate EXCEPT ![smatch[t]] = result]
    BY <1>11 DEF MatchEnd, EventUnchanged
  <2>2. mstate'[smatch[s]] = mstate[smatch[s]]
    BY <1>0, <1>1, <2>1 DEF TypeOK, OpenMatch
  <2> QED
    BY <1>1, <2>1, <2>2 DEF FailedOpen
<1>12. CASE NodeNext \/ VersionStep \/ DisableExpired \/ MasterCrash
  BY <1>2, <1>1, <1>12 DEF NodeNext, Tick, DrainNode, UndrainNode, RevokeNode, NodeUnchanged,
              VersionStep, DisableExpired, MasterCrash, matchVars, serverVars
<1>13. CASE PlanNext
  <2>1. UNCHANGED <<smatch, mstate>>
    BY <1>13 DEF PlanNext, FailStuckCreating, ListFleet, ReadWindow, StopOnLeavingNodes,
              TakeOnLeavingNodes, EvictDeprecated, CountVersion, InsertServer,
              StopSurplus, TakeSurplus, StopOutside, TakeOutside, TakeStops,
              DrainLiveOutside, PlanCommit, PlanUnchanged, matchVars
  <2>2. sstate[s] \in {"failed", "creating"}
    <3>1. CASE PlanCommit
      BY <1>1, <3>1 DEF PlanCommit, View
    <3>2. ASSUME NEW S \in SUBSET Servers, FailStuckCreating(S)
          PROVE  sstate[s] \in {"failed", "creating"}
      BY <1>1, <3>2 DEF FailStuckCreating
    <3>3. CASE PlanUnchanged
      BY <1>1, <3>3 DEF PlanUnchanged
    <3> QED
      BY <1>13, <3>1, <3>2, <3>3 DEF PlanNext, ListFleet, ReadWindow, StopOnLeavingNodes,
              TakeOnLeavingNodes, EvictDeprecated, CountVersion, InsertServer,
              StopSurplus, TakeSurplus, StopOutside, TakeOutside, TakeStops,
              DrainLiveOutside
  <2> QED
    BY <1>2, <2>1, <2>2
<1> QED
  <2>1. CASE EventNext
    <3>1. "finished" \in {"finished", "aborted"}
      OBVIOUS
    <3> QED
      BY <1>8, <1>9, <1>10, <1>11, <2>1, <3>1 DEF EventNext
  <2> QED
    BY <1>3, <1>4, <1>5, <1>7, <1>12, <1>13, <2>1 DEF Next, AllocateNext

LEMMA StepKeepsClosed ==
    ASSUME Durable = Requests, "crash" \notin Inputs, CloseInv, [Next]_vars
    PROVE  CloseInv'
<1>0. FleetInv /\ TypeOK /\ MatchedAreOpened /\ FailedServerHasNoOpenMatch
  BY DEF CloseInv, FleetInv
<1>1. FleetInv' /\ MatchedAreOpened'
  BY <1>0, StepKeepsInv, StepKeepsOpened
<1>2. ASSUME NEW s \in Servers, FailedOpen(s)'
      PROVE  lease'.pc = "abort" /\ s \in lease'.hit
  <2>1. sstate'[s] = "failed" /\ smatch'[s] # NoMatch /\ mstate'[smatch'[s]] \in OpenMatch
    BY <1>2 DEF FailedOpen
  <2>2. FailedOpen(s) => lease.pc = "abort" /\ s \in lease.hit
    BY <1>0 DEF FailedOpen, FailedServerHasNoOpenMatch
  <2>3. CASE ~LeaseNext
    <3>1. FailedOpen(s)
      BY <1>2, <2>3, NoNewFailedOpen
    <3>2. UNCHANGED lease
      <4>1. ~MasterCrash
        BY DEF MasterCrash
      <4>2. ASSUME NEW n \in Nodes, Tick(n) PROVE UNCHANGED lease
        BY <4>2 DEF Tick
      <4> QED
        BY <1>0, <2>3, <4>1, <4>2, NodeSteps
    <3> QED
      BY <2>2, <3>1, <3>2
  <2>4. CASE QuarantineStaleNodes \/ FailQuarantinedSelect \/ MarkDownNodes
    <3>1. UNCHANGED <<sstate, smatch, mstate>> /\ lease.pc # "abort"
      BY <2>4 DEF QuarantineStaleNodes, FailQuarantinedSelect, MarkDownNodes, serverVars,
                  matchVars
    <3> QED
      BY <2>1, <2>2, <3>1 DEF FailedOpen
  <2>5. CASE FailQuarantinedServers
    <3>1. /\ UNCHANGED <<smatch, mstate>> /\ lease.pc = "failing" /\ lease'.pc = "abort"
          /\ lease'.hit = {t \in lease.hit : sstate[t] \in Live}
          /\ sstate'[s] = IF s \in lease.hit /\ sstate[s] \in Live THEN "failed" ELSE sstate[s]
      BY <2>5 DEF FailQuarantinedServers, matchVars
    <3>2. sstate[s] # "failed"
      BY <2>1, <2>2, <3>1 DEF FailedOpen
    <3> QED
      BY <2>1, <3>1, <3>2
  <2>6. CASE AbortLostMatches
    <3>1. UNCHANGED <<sstate, smatch>> /\ mstate' = Aborted(lease.hit)
      BY <2>6 DEF AbortLostMatches, serverVars
    <3>2. smatch[s] \in Matches
      BY <1>0, <2>1, <3>1 DEF TypeOK
    <3>3. mstate[smatch[s]] \in OpenMatch /\ s \notin lease.hit
      BY <2>1, <3>1, <3>2 DEF Aborted, OpenMatch
    <3> QED
      BY <2>1, <2>2, <3>1, <3>3 DEF FailedOpen
  <2> QED
    BY <2>3, <2>4, <2>5, <2>6 DEF LeaseNext
<1>3. FailedServerHasNoOpenMatch'
  BY <1>2 DEF FailedOpen, FailedServerHasNoOpenMatch
<1> QED
  BY <1>1, <1>3 DEF CloseInv

\* When every match is the matchmaker's and the master does not die, no failed
\* server keeps an open one.  Reports, events and stuck starts close the match
\* in the transaction that fails the row; the lease pass closes it by a later,
\* autocommitted statement (servers.go:231-242), and the property leaves out the
\* rows that still wait for it (lease.hit).  A master that dies between the two
\* loses lease.hit and leaves the match open: that case is assumed away here.
THEOREM LostMatchesAreClosed ==
    ASSUME Durable = Requests, "crash" \notin Inputs
    PROVE  Spec => []FailedServerHasNoOpenMatch
<1>1. Init => CloseInv
  <2> SUFFICES ASSUME Init PROVE CloseInv
    OBVIOUS
  <2>1. FleetInv /\ \A s \in Servers : smatch[s] = NoMatch
    BY InitEstablishesInv DEF Init
  <2> QED
    BY <2>1 DEF CloseInv, MatchedAreOpened, FailedServerHasNoOpenMatch
<1>2. CloseInv /\ [Next]_vars => CloseInv'
  BY StepKeepsClosed
<1>3. CloseInv => FailedServerHasNoOpenMatch
  BY DEF CloseInv
<1> QED
  BY <1>1, <1>2, <1>3, PTL DEF Spec

-----------------------------------------------------------------------------
(* Evictions.                                                              *)

\* Nothing is evicted before the eviction statements of the pass.
EvictedLate ==
    plan.evicted # {} => plan.pc \notin {"idle", "window", "nodes", "nodesLock", "evict"}

LEMMA StepKeepsEvicted ==
    ASSUME FleetInv, EvictedLate, [Next]_vars
    PROVE  /\ EvictedLate'
           /\ plan.pc = "evict" /\ ~EvictDeprecated => plan'.evicted = {}
<1>0. plan \in PlanType /\ PlanRows /\ IdlePlan.evicted = {} /\ IdlePlan.pc = "idle"
  BY DEF FleetInv, RowInv, TypeOK, IdlePlan
<1>1. CASE plan' \in {plan, IdlePlan}
  BY <1>0, <1>1 DEF EvictedLate
<1>2. CASE ~PlanNext
  BY <1>1, <1>2, PlanFrame
<1>3. ASSUME NEW S \in SUBSET Servers, FailStuckCreating(S) PROVE plan' = plan
  BY <1>3 DEF FailStuckCreating
<1>4. CASE ListFleet
  <2>1. plan' = [IdlePlan EXCEPT !.pc = "window", !.act = fleet] /\ plan.pc = "idle"
    BY <1>4 DEF ListFleet
  <2>2. plan'.evicted = {}
    BY <2>1 DEF IdlePlan
  <2> QED
    BY <2>1, <2>2 DEF EvictedLate
<1>5. CASE ReadWindow \/ StopOnLeavingNodes \/ TakeOnLeavingNodes
  <2>1. plan'.evicted = plan.evicted /\ plan.pc \in {"window", "nodes", "nodesLock"}
    BY <1>0, <1>5 DEF ReadWindow, StopOnLeavingNodes, TakeOnLeavingNodes, SelectStops,
                      TakeStops, PlanType
  <2> QED
    BY <2>1 DEF EvictedLate
<1>6. CASE EvictDeprecated
  <2>1. plan'.pc = "version"
    BY <1>0, <1>6 DEF EvictDeprecated, PlanType
  <2> QED
    BY <1>6, <2>1 DEF EvictedLate
<1>7. CASE CountVersion \/ StopSurplus \/ TakeSurplus \/ StopOutside \/ TakeOutside
           \/ DrainLiveOutside
  <2>1. /\ plan'.pc \in {"fill", "version", "surplusLock", "outsideLock", "live", "commit"}
        /\ plan.pc # "evict"
    BY <1>0, <1>7 DEF CountVersion, StopSurplus, TakeSurplus, StopOutside, TakeOutside,
                      SelectStops, TakeStops, DrainLiveOutside, PlanType
  <2> QED
    BY <2>1 DEF EvictedLate
<1>8. CASE PlanCommit
  BY <1>1, <1>8 DEF PlanCommit
<1>9. ASSUME NEW s \in Servers, NEW n \in Nodes, InsertServer(s, n)
      PROVE  EvictedLate' /\ plan.pc # "evict"
  <2>1. plan'.pc = "fill" /\ plan.pc = "fill"
    BY <1>0, <1>9 DEF InsertServer, PlanType
  <2> QED
    BY <2>1 DEF EvictedLate
<1> QED
  BY <1>1, <1>2, <1>3, <1>4, <1>5, <1>6, <1>7, <1>8, <1>9 DEF PlanNext

\* Free slots are counted by a natural number; no node has none.
LEMMA RoomIsNumber ==
    ASSUME NEW nodes \in SUBSET Nodes
    PROVE  RoomAfterDrain(nodes) \in Nat /\ (nodes = {} => RoomAfterDrain(nodes) = 0)
<1> USE FleetAssumption
<1> DEFINE Free(n) == {n} \X (1..(Capacity[n] - UsedBy(n, Live \ {"draining"})))
           slots == {Free(n) : n \in nodes}
<1>1. ASSUME NEW n \in nodes PROVE IsFiniteSet(Free(n))
  <2>1. UsedBy(n, Live \ {"draining"}) \in Nat
    <3>1. {s \in Viewed(Live \ {"draining"}) : snode[s] = n} \in SUBSET Servers
      BY DEF Viewed
    <3> QED
      BY <3>1, CountIsNumber DEF UsedBy
  <2>2. Capacity[n] - UsedBy(n, Live \ {"draining"}) \in Int
    BY <2>1
  <2>3. IsFiniteSet(1..(Capacity[n] - UsedBy(n, Live \ {"draining"})))
    BY <2>2, FS_Interval
  <2>4. IsFiniteSet({n})
    BY FS_Singleton
  <2> QED
    BY <2>3, <2>4, FS_Product
<1> HIDE DEF Free
<1>2. IsFiniteSet(slots)
  <2> DEFINE f == [n \in nodes |-> Free(n)]
  <2>1. f \in Surjection(nodes, slots)
    BY DEF Surjection
  <2>2. IsFiniteSet(nodes)
    BY FS_Subset
  <2> QED
    BY <2>1, <2>2, FS_Surjection
<1>3. \A T \in slots : IsFiniteSet(T)
  BY <1>1
<1>4. RoomAfterDrain(nodes) = Cardinality(UNION slots)
  BY DEF RoomAfterDrain, Free
<1>5. IsFiniteSet(UNION slots)
  BY <1>2, <1>3, FS_UNION
<1>6. nodes = {} => UNION slots = {}
  OBVIOUS
<1>7. Cardinality({}) = 0
  BY FS_EmptySet
<1>8. Cardinality(UNION slots) \in Nat
  BY <1>5, FS_CardinalityType
<1>9. nodes = {} => Cardinality(UNION slots) = 0
  BY <1>6, <1>7
<1> QED
  BY <1>4, <1>8, <1>9

\* LIMIT k returns no more than k rows.
LEMMA AnyOfBounded ==
    ASSUME NEW S \in SUBSET Servers, NEW k \in Int, NEW T \in AnyOf(S, k)
    PROVE  /\ T \in SUBSET S /\ Cardinality(T) \in Nat
           /\ Cardinality(T) <= (IF k <= 0 THEN 0 ELSE k) /\ (k <= 0 => T = {})
<1>1. T \in SUBSET S /\ T \in SUBSET Servers
  BY AnyOfSubset
<1>2. Cardinality(T) \in Nat /\ Cardinality(S) \in Nat
  BY <1>1, CountIsNumber
<1>3. CASE k <= 0
  <2>1. T = {}
    BY <1>3 DEF AnyOf
  <2>2. Cardinality({}) = 0
    BY FS_EmptySet
  <2> QED
    BY <1>1, <1>2, <1>3, <2>1, <2>2
<1>4. CASE k > 0
  <2>1. Cardinality(T) = SmallerOf(k, Cardinality(S))
    BY <1>4 DEF AnyOf, kSubset
  <2>2. SmallerOf(k, Cardinality(S)) <= k
    BY <1>2 DEF SmallerOf
  <2> QED
    BY <1>1, <1>2, <1>4, <2>1, <2>2
<1> QED
  BY <1>3, <1>4

\* Rows are marked as recovered by Hellos alone.
LEMMA RevivedByHello ==
    ASSUME FleetInv, [Next]_vars, "hello" \notin Inputs PROVE revived' = revived
<1>1. CASE UNCHANGED vars
  BY <1>1 DEF vars, serverVars
<1>2. CASE AllocateNext
  BY <1>2 DEF AllocateNext, LookUp, Claim, ClaimCommit, ClaimLost, AllocUnchanged
<1>3. CASE ReportNext
  <2>1. ASSUME NEW n \in Nodes, NEW rep \in [held[n] -> Reports],
               ReportCommit(n, rep, FALSE)
        PROVE  revived' = revived
    <3>1. revived' = revived \cup {s \in held[n] : Resurrected(s, rep, FALSE)}
      BY <2>1 DEF ReportCommit
    <3>2. \A s \in held[n] : ~Resurrected(s, rep, FALSE)
      BY DEF Resurrected
    <3> QED
      BY <3>1, <3>2
  <2>2. ASSUME NEW n \in Nodes, NEW rows \in SUBSET RowsOn(n), ReportBegin(n, rows)
        PROVE  revived' = revived
    BY <2>2 DEF ReportBegin, serverVars
  <2> QED
    BY <1>3, <2>1, <2>2 DEF ReportNext, ApplyHeartbeat, HelloSync
<1>4. CASE EventNext
  BY <1>4 DEF EventNext, ServerFailedEvent, ServerReadyEvent, MatchStart, MatchEnd,
              EventUnchanged
<1>5. CASE LeaseNext \/ NodeNext
  BY <1>5 DEF LeaseNext, QuarantineStaleNodes, FailQuarantinedSelect,
              FailQuarantinedServers, AbortLostMatches, MarkDownNodes, NodeNext, Tick,
              DrainNode, UndrainNode, RevokeNode, NodeUnchanged, serverVars
<1>6. CASE VersionStep \/ DisableExpired \/ MasterCrash
  BY <1>6 DEF VersionStep, DisableExpired, MasterCrash, serverVars
<1>7. CASE PlanNext
  BY <1>7 DEF PlanNext, FailStuckCreating, ListFleet, ReadWindow, StopOnLeavingNodes,
              TakeOnLeavingNodes, EvictDeprecated, CountVersion, InsertServer,
              StopSurplus, TakeSurplus, StopOutside, TakeOutside, TakeStops,
              DrainLiveOutside, PlanCommit, PlanUnchanged
<1> QED
  BY <1>1, <1>2, <1>3, <1>4, <1>5, <1>6, <1>7 DEF Next

\* In a fleet within max_servers the two eviction statements together take no
\* more rows than the active version lacks, and none if no node may replace them.
LEMMA EvictionsMeetNeed ==
    ASSUME FleetInv, EvictDeprecated, Occupied <= MaxServers, plan'.evicted # {}
    PROVE  Cardinality(plan'.evicted) <= Missing /\ plan.pausedAct # Nodes
<1> USE FleetAssumption
<1>0. plan \in PlanType
  BY DEF FleetInv, TypeOK
<1>1. PICK first \in AnyOf(Evictable(TRUE), Blocked) :
       \E more \in AnyOf(Evictable(FALSE) \ first, StillNeeded(Cardinality(first))) :
        plan' = [plan EXCEPT !.pc = "version",
                  !.total = Cardinality(Viewed(Live)),
                  !.stops = @ \cup first \cup more, !.evicted = first \cup more,
                  !.todo = IF plan.dep = NoVersion THEN <<plan.act>>
                           ELSE <<plan.act, plan.dep>>]
  BY DEF EvictDeprecated
<1>2. PICK more \in AnyOf(Evictable(FALSE) \ first, StillNeeded(Cardinality(first))) :
        plan' = [plan EXCEPT !.pc = "version",
                  !.total = Cardinality(Viewed(Live)),
                  !.stops = @ \cup first \cup more, !.evicted = first \cup more,
                  !.todo = IF plan.dep = NoVersion THEN <<plan.act>>
                           ELSE <<plan.act, plan.dep>>]
  BY <1>1
<1>3. plan'.evicted = first \cup more
  BY <1>0, <1>2 DEF PlanType
<1>4. Missing \in Int /\ Occupied \in Nat /\ NodeRoom \in Nat
  <2>1. ActiveWarm \in Nat
    BY CountIsNumber DEF ActiveWarm, Viewed
  <2>2. Occupied \in Nat
    BY CountIsNumber DEF Occupied, Viewed
  <2>3. Placeable(plan.pausedAct) \in SUBSET Nodes
    BY DEF Placeable
  <2>4. NodeRoom \in Nat
    BY <2>3, RoomIsNumber DEF NodeRoom
  <2> QED
    BY <2>1, <2>2, <2>4 DEF Missing
<1>5. Blocked \in Int /\ Blocked >= 0 /\ (Blocked > 0 => Blocked <= Missing /\ Missing > 0)
  BY <1>4 DEF Blocked, AtLeast0, SmallerOf
<1>6. Evictable(TRUE) \in SUBSET Servers /\ Evictable(FALSE) \ first \in SUBSET Servers
  BY DEF Evictable, Viewed
<1> DEFINE f == Cardinality(first)
           k == StillNeeded(f)
<1>7. /\ first \in SUBSET Evictable(TRUE) /\ f \in Nat /\ f <= Blocked
      /\ Blocked = 0 => first = {}
  <2>1. /\ first \in SUBSET Evictable(TRUE) /\ f \in Nat
        /\ f <= (IF Blocked <= 0 THEN 0 ELSE Blocked) /\ (Blocked <= 0 => first = {})
    BY <1>5, <1>6, AnyOfBounded
  <2>2. (IF Blocked <= 0 THEN 0 ELSE Blocked) = Blocked
    BY <1>5
  <2>3. Blocked = 0 => first = {}
    BY <1>5, <2>1
  <2> QED
    BY <2>1, <2>2, <2>3
<1> HIDE DEF f
<1>8. /\ k \in Int
      /\ Blocked = 0 => k = 0
      /\ Blocked > 0 => k <= Missing - f /\ k <= NodeRoom
  <2>1. MaxServers - Occupied + f >= 0 /\ MaxServers - Occupied >= 0
    BY <1>4, <1>7
  <2>2. AtLeast0(MaxServers - Occupied + f) = MaxServers - Occupied + f
    BY <1>4, <1>7, <2>1 DEF AtLeast0
  <2>3. CASE Blocked = 0
    BY <2>3 DEF StillNeeded
  <2>4. CASE Blocked > 0
    <3>1. k = SmallerOf(Missing, NodeRoom + f) - (MaxServers - Occupied + f)
      BY <2>2, <2>4 DEF StillNeeded
    <3>2. /\ SmallerOf(Missing, NodeRoom + f) <= Missing
          /\ SmallerOf(Missing, NodeRoom + f) <= NodeRoom + f
          /\ SmallerOf(Missing, NodeRoom + f) \in Int
      BY <1>4, <1>7 DEF SmallerOf
    <3> HIDE DEF k
    <3> QED
      BY <1>4, <1>7, <2>1, <2>4, <3>1, <3>2
  <2> QED
    BY <1>5, <2>3, <2>4
<1>9. /\ more \in SUBSET (Evictable(FALSE) \ first) /\ Cardinality(more) \in Nat
      /\ Cardinality(more) <= (IF k <= 0 THEN 0 ELSE k) /\ (k <= 0 => more = {})
  <2>1. more \in AnyOf(Evictable(FALSE) \ first, k)
    BY DEF f
  <2> HIDE DEF k
  <2> QED
    BY <1>6, <1>8, <2>1, AnyOfBounded
<1> HIDE DEF k
<1>10. Blocked > 0
  <2>1. CASE Blocked = 0
    BY <1>3, <1>7, <1>8, <1>9, <2>1
  <2> QED
    BY <1>5, <2>1
<1>11. Cardinality(plan'.evicted) <= f + Cardinality(more)
  <2>1. IsFiniteSet(first) /\ IsFiniteSet(more)
    BY <1>6, <1>7, <1>9, FS_Subset
  <2>2. Cardinality(first \cup more) = f + Cardinality(more) - Cardinality(first \cap more)
    BY <2>1, FS_Union DEF f
  <2>3. first \cap more = {}
    BY <1>9
  <2>4. Cardinality(first \cap more) = 0
    BY <2>3, FS_EmptySet
  <2> QED
    BY <1>3, <1>7, <1>9, <2>2, <2>4
<1>12. f + Cardinality(more) <= Missing
  BY <1>4, <1>5, <1>7, <1>8, <1>9, <1>10
<1>13. Cardinality(plan'.evicted) \in Nat
  BY <1>3, <1>6, <1>7, <1>9, CountIsNumber
<1>14. plan.pausedAct # Nodes
  <2> SUFFICES ASSUME plan.pausedAct = Nodes PROVE FALSE
    OBVIOUS
  <2>1. Placeable(Nodes) = {}
    BY DEF Placeable
  <2>2. NodeRoom = 0
    BY <2>1, RoomIsNumber DEF NodeRoom
  <2>3. Evictable(TRUE) = {}
    <3>1. ASSUME NEW s \in Evictable(TRUE) PROVE FALSE
      BY <2>1, <3>1 DEF Evictable
    <3> QED
      BY <3>1
  <2>4. first = {} /\ more = {}
    BY <1>7, <1>8, <1>9, <1>10, <2>2, <2>3
  <2> QED
    BY <1>3, <2>4
<1> QED
  BY <1>4, <1>7, <1>9, <1>11, <1>12, <1>13, <1>14

\* A pass over a fleet within its limits evicts no more deprecated buffers than
\* the active version lacks, and none while a crash loop pauses it everywhere.
THEOREM EvictionsAreNeeded ==
    ASSUME StartsWithinLimits, "hello" \notin Inputs PROVE Spec => EvictionsServeActive
<1> USE FleetAssumption
<1> DEFINE EvictInv == LimitInv /\ EvictedLate /\ revived = {}
<1>1. Init => EvictInv
  BY InitWithinLimits DEF Init, EvictedLate, IdlePlan
<1>2. EvictInv /\ [Next]_vars => EvictInv'
  <2> SUFFICES ASSUME EvictInv, [Next]_vars PROVE EvictInv'
    OBVIOUS
  <2>1. LimitInv' /\ EvictedLate'
    BY StepKeepsLimits, StepKeepsEvicted DEF LimitInv
  <2>2. revived' = {}
    BY RevivedByHello DEF LimitInv
  <2> QED
    BY <2>1, <2>2
<1>3. EvictInv /\ [Next]_vars
        => [plan.pc = "evict" /\ plan'.evicted # {}
              => /\ Cardinality(plan'.evicted) <= Missing
                 /\ plan.pausedAct # Nodes]_vars
  <2> SUFFICES ASSUME EvictInv, [Next]_vars, plan.pc = "evict", plan'.evicted # {}
               PROVE  Cardinality(plan'.evicted) <= Missing /\ plan.pausedAct # Nodes
    OBVIOUS
  <2>0. FleetInv /\ FleetBounded /\ PassCounts
    BY DEF LimitInv
  <2>1. EvictDeprecated
    BY <2>0, StepKeepsEvicted
  <2>2. plan.cand = {}
    BY <2>0 DEF PassCounts
  <2>3. Viewed(Live \ {"draining"}) \in SUBSET Counted
    BY <2>2 DEF Viewed, View, Counted, Live
  <2>4. Occupied <= MaxServers
    <3> DEFINE V == Viewed(Live \ {"draining"})
    <3>1. V \in SUBSET Counted /\ V \in SUBSET Servers
      BY <2>3 DEF Viewed
    <3>2. Occupied = Cardinality(V)
      BY DEF Occupied
    <3> HIDE DEF V
    <3>3. /\ Cardinality(V) <= Cardinality(Counted) /\ Cardinality(V) \in Nat
          /\ Cardinality(Counted) \in Nat
      BY <3>1, CountedAreServers, FewerRows, CountIsNumber
    <3>4. Cardinality(Counted) <= MaxServers
      BY <2>0 DEF FleetBounded
    <3> QED
      BY <3>2, <3>3, <3>4
  <2> QED
    BY <2>0, <2>1, <2>4, EvictionsMeetNeed
<1> QED
  BY <1>1, <1>2, <1>3, PTL DEF Spec, EvictionsServeActive
=============================================================================
