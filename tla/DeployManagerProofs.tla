------------------------ MODULE DeployManagerProofs ------------------------
(***************************************************************************)
(* Proofs about the deploy manager, for any number of versions, nodes and  *)
(* goroutines and any number of crashes and store errors.                  *)
(*                                                                         *)
(* The marker covers the attempts whenever the process is not down: a      *)
(* deploy_started event is written one step before the marker moves, and   *)
(* Resume rebuilds the marker from those events.  From that a chain that   *)
(* no other deploy overtook carries a marker, and then a version, that is  *)
(* ahead of every attempt.  When there is only one goroutine, what its     *)
(* transaction has read is still so when it commits, and the manager       *)
(* implements VersionWindow.                                               *)
(***************************************************************************)
EXTENDS DeployManager, FiniteSetTheorems, TLAPS

\* A process that is down runs nothing.
DownIsIdle == boot = "down" => \A q \in lanes : lane[q].pc = "idle"

\* Attempts are behind the marker or about to be.
Covered ==
    boot # "down" =>
        \A u \in attempted : u <= marker \/ \E q \in lanes : At(q, "begun") /\ lane[q].v = u

\* What a chain that was not overtaken carries is ahead of every attempt.
LooksForward ==
    \A p \in lanes : ~lane[p].over =>
        \A u \in attempted :
            /\ lane[p].pc = "lookup" => u <= lane[p].seen
            /\ lane[p].pc \in {"begin", "beginning"} /\ lane[p].how = "auto" => u < lane[p].v

\* What an open transaction of a single goroutine has read is still so.
AloneUnchanged ==
    \A p \in lanes : lanes = {p} =>
        /\ lane[p].pc = "beginning" =>
             /\ vstate[lane[p].v] \in {"registered", "deprecated"}
             /\ Window!InState("prepulling") = {}
        /\ lane[p].pc = "flipping" =>
             /\ vstate[lane[p].v] = FromState(p)
             /\ lane[p].snap = Window!Demoted(lane[p].v)

DeployInv == TypeOK /\ DownIsIdle /\ Covered /\ LooksForward /\ AloneUnchanged

-----------------------------------------------------------------------------
(* The maximum of a set of version numbers.                                *)

LEMMA MaxOfVersions ==
    ASSUME NEW S \in SUBSET (0 .. Newest), S # {}
    PROVE  Max(S) \in S /\ \A y \in S : Max(S) >= y
<1>. DEFINE Above(x) == {y \in S : y > x}
            T == {Above(x) : x \in S}
            R == StrictSubsetOrdering(S)
<1>1. IsFiniteSet(S)
  <2>1. IsFiniteSet(0 .. Newest)
    BY DeployAssumption, FS_Interval
  <2>. QED
    BY <2>1, FS_Subset
<1>0. S \subseteq Int
  BY DeployAssumption
<1>2. IsWellFoundedOn(R, FiniteSubsetsOf(S))
  BY FS_StrictSubsetOrderingWellFounded
<1>3. T \subseteq FiniteSubsetsOf(S) /\ T # {}
  <2>1. T \subseteq SUBSET S /\ T # {}
    OBVIOUS
  <2>2. FiniteSubsetsOf(S) = SUBSET S
    BY <1>1, FS_FiniteSubsetsOfFinite
  <2>. QED
    BY <2>1, <2>2
<1>4. PICK m \in T : \A n \in T : <<n, m>> \notin R
  <2>. HIDE DEF T, R
  <2>. QED BY <1>2, <1>3, WFMin
<1>5. PICK x \in S : m = Above(x)
  OBVIOUS
<1>6. ASSUME NEW y \in S, y > x PROVE FALSE
  <2>1. Above(y) \subseteq Above(x) /\ y \in Above(x) /\ y \notin Above(y)
    <3>1. \A z \in S : z > y => z > x
      BY <1>0, <1>6
    <3>2. ~(y > y)
      BY <1>0
    <3>. QED
      BY <1>6, <3>1, <3>2
  <2>2. <<Above(y), Above(x)>> \in R
    BY <2>1 DEF StrictSubsetOrdering
  <2>. QED
    BY <1>4, <1>5, <2>2
<1>7. \A y \in S : x >= y
  BY <1>0, <1>6
<1>. QED
  BY <1>7 DEF Max

-----------------------------------------------------------------------------
(* Types.                                                                  *)

RecordOK(r) == r \in LaneRecords /\ (r.pc \notin {"idle", "chain", "lookup"} => r.v # 0)

LanesOK == lane \in [lanes -> LaneRecords] /\ \A p \in lanes : RecordOK(lane[p])

\* Only the goroutine that moves changes its record.
LEMMA GotoOK ==
    ASSUME TypeOK, NEW p \in lanes, NEW r, RecordOK(r), Goto(p, r), UNCHANGED lanes
    PROVE  LanesOK' /\ lane'[p] = r /\ \A q \in lanes \ {p} : lane'[q] = lane[q]
BY DEF TypeOK, RecordOK, LanesOK, Goto

LEMMA MoveOK ==
    ASSUME TypeOK, NEW p \in lanes, NEW pos \in Positions, Move(p, pos), UNCHANGED lanes,
           lane[p].pc \notin {"idle", "chain", "lookup"}
    PROVE  /\ LanesOK' /\ lane'[p] = [lane[p] EXCEPT !.pc = pos]
           /\ \A q \in lanes \ {p} : lane'[q] = lane[q]
<1>1. Goto(p, [lane[p] EXCEPT !.pc = pos])
  BY DEF TypeOK, Move, Goto
<1>2. RecordOK([lane[p] EXCEPT !.pc = pos])
  BY DEF TypeOK, RecordOK, LaneRecords
<1>. QED
  BY <1>1, <1>2, GotoOK

LEMMA IdleOK ==
    /\ RecordOK(Idle)
    /\ \A v \in Versions, pos \in Positions : RecordOK([Idle EXCEPT !.pc = pos, !.v = v])
    /\ RecordOK([Idle EXCEPT !.pc = "chain"])
<1>1. 0 \in 0 .. Newest /\ \A v \in Versions : v \in 0 .. Newest /\ v # 0
  BY DeployAssumption DEF Versions
<1>2. Idle \in LaneRecords
  BY <1>1 DEF Idle, LaneRecords, Positions
<1>3. Idle.pc = "idle"
  BY DEF Idle
<1>4. "chain" \in Positions
  BY DEF Positions
<1>. QED
  BY <1>1, <1>2, <1>3, <1>4 DEF RecordOK, LaneRecords

\* A goroutine that works on a version.
LEMMA WorkingOn ==
    ASSUME TypeOK, NEW p \in lanes
    PROVE  /\ RecordOK(lane[p]) /\ lane[p] \in LaneRecords
           /\ (lane[p].pc \notin {"idle", "chain", "lookup"} => lane[p].v \in Versions)
BY DeployAssumption DEF TypeOK, RecordOK, LaneRecords, Versions

\* The rest of the variables.
OthersOK ==
    /\ vstate \in [Versions -> Window!VersionStates] /\ fleet \in Versions \cup {0}
    /\ hasFleet \in BOOLEAN
    /\ attempted \subseteq Versions /\ fired \subseteq Versions
    /\ live \subseteq Nodes /\ marker \in 0 .. Newest
    /\ jobs \in [Versions -> {NoJob} \cup SUBSET Nodes]
    /\ lanes \subseteq AllLanes /\ lanes # {}
    /\ boot \in {"down", "rearm", "kick", "up"} /\ rearm \subseteq Versions
    /\ dropped \in BOOLEAN /\ spent \in 0 .. MaxEvents

LEMMA TypeParts == TypeOK <=> LanesOK /\ OthersOK
BY DEF TypeOK, LanesOK, OthersOK, RecordOK, Window!TypeOK

LEMMA SpendOK == ASSUME spent \in 0 .. MaxEvents, Spend PROVE spent' \in 0 .. MaxEvents
BY DeployAssumption DEF Spend

LEMMA InitTypes == Init => TypeOK
<1>. SUFFICES ASSUME Init PROVE TypeOK
  OBVIOUS
<1>1. lanes \subseteq AllLanes /\ lanes # {}
  BY DeployAssumption DEF Init
<1>2. LanesOK
  BY IdleOK DEF Init, LanesOK, RecordOK
<1>3. OthersOK
  <2>1. 0 \in 0 .. Newest /\ 0 \in 0 .. MaxEvents
    BY DeployAssumption
  <2>2. live \subseteq Nodes
    BY DEF Init
  <2>. QED
    BY <1>1, <2>1, <2>2 DEF Init, OthersOK, Window!Init, Window!VersionStates
<1>. QED
  BY <1>2, <1>3, TypeParts

\* Each step of a running goroutine.
LEMMA LaneStepTypes ==
    ASSUME TypeOK, NEW p \in AllLanes, LaneStep(p) PROVE TypeOK'
<1>. SUFFICES LanesOK' /\ OthersOK'
  BY TypeParts, PTL
<1>. USE DEF At
<1>p. p \in lanes
  BY DEF LaneStep, BeginDeploy, BeginCommit, RecordAttempt, StartJob, Abort, ActivateBegin,
         ActivateCommit, Chain, TryAutoDeploy, SweepRecheck
<1>o. LanesOK /\ OthersOK
  BY TypeParts
<1>w. /\ RecordOK(lane[p]) /\ lane[p] \in LaneRecords
      /\ lane[p].pc \notin {"idle", "chain", "lookup"} => lane[p].v \in Versions
  BY <1>p, WorkingOn
<1>i. RecordOK(Idle)
  BY IdleOK
<1>1. CASE BeginDeploy(p)
  <2>1. OthersOK'
    BY <1>1, <1>o DEF BeginDeploy, OthersOK, store, memory, start
  <2>2. CASE Finish(p)
    BY <1>1, <1>p, <1>i, <2>1, <2>2, GotoOK DEF BeginDeploy, Finish
  <2>3. CASE Move(p, "beginning")
    BY <1>1, <1>p, <2>1, <2>3, MoveOK DEF BeginDeploy, Positions
  <2>4. ASSUME NEW st \in {"active", "prepulling"},
               Goto(p, [lane[p] EXCEPT !.pc = "begun", !.res = st])
        PROVE  LanesOK'
    <3>1. RecordOK([lane[p] EXCEPT !.pc = "begun", !.res = st])
      BY <1>1, <1>w DEF BeginDeploy, RecordOK, LaneRecords, Positions
    <3>. QED
      BY <1>1, <1>p, <2>4, <3>1, GotoOK DEF BeginDeploy
  <2>. QED
    BY <1>1, <2>1, <2>2, <2>3, <2>4 DEF BeginDeploy
<1>2. CASE BeginCommit(p)
  <2>1. lane[p].v \in Versions
    BY <1>2, <1>w DEF BeginCommit
  <2>2. OthersOK'
    BY <1>2, <1>o, <2>1 DEF BeginCommit, OthersOK, memory, start, Window!VersionStates
  <2>3. RecordOK([lane[p] EXCEPT !.pc = "begun", !.res = "new"])
    BY <1>2, <1>w DEF BeginCommit, RecordOK, LaneRecords, Positions
  <2>4. ASSUME NEW q \in lanes, NEW b \in BOOLEAN
        PROVE  RecordOK([lane[q] EXCEPT !.over = b])
    BY WorkingOn DEF RecordOK, LaneRecords
  <2>5. ASSUME NEW q \in lanes PROVE RecordOK(lane'[q])
    <3>1. CASE q = p
      BY <1>2, <2>3, <3>1 DEF BeginCommit
    <3>2. CASE q # p
      <4>1. (lane[q].over \/ lane[q].pc \in {"lookup", "begin", "beginning"}) \in BOOLEAN
        OBVIOUS
      <4>. QED
        BY <1>2, <2>4, <3>2, <4>1 DEF BeginCommit
    <3>. QED
      BY <3>1, <3>2
  <2>6. lane' \in [lanes -> LaneRecords] /\ lanes' = lanes
    BY <1>2, <2>5 DEF BeginCommit, RecordOK
  <2>. QED
    BY <2>2, <2>5, <2>6 DEF LanesOK
<1>3. CASE RecordAttempt(p)
  <2>1. lane[p].v \in Versions
    BY <1>3, <1>w DEF RecordAttempt
  <2>2. marker' \in 0 .. Newest
    <3>1. {marker, lane[p].v} \in SUBSET (0 .. Newest)
      BY <1>o, <1>w DEF OthersOK, LaneRecords
    <3>2. Max({marker, lane[p].v}) \in {marker, lane[p].v}
      BY <3>1, MaxOfVersions
    <3>. QED
      BY <1>3, <3>1, <3>2 DEF RecordAttempt
  <2>3. OthersOK'
    BY <1>3, <1>o, <2>2 DEF RecordAttempt, OthersOK, store, start
  <2>4. RecordOK([Idle EXCEPT !.pc = "start", !.v = lane[p].v])
    BY <2>1, IdleOK DEF Positions
  <2>. QED
    BY <1>3, <1>p, <1>i, <2>3, <2>4, GotoOK DEF RecordAttempt, Finish
<1>4. CASE StartJob(p)
  <2>1. lane[p].v \in Versions
    BY <1>4, <1>w DEF StartJob
  <2>2. OthersOK'
    BY <1>4, <1>o, <2>1 DEF StartJob, OthersOK, store, start
  <2>3. LanesOK'
    BY <1>4, <1>p, <1>i, GotoOK, MoveOK DEF StartJob, Finish, Positions
  <2>. QED
    BY <2>2, <2>3
<1>5. CASE Abort(p)
  <2>1. OthersOK'
    BY <1>5, <1>o DEF Abort, OthersOK, memory, start, Window!VersionStates
  <2>2. LanesOK'
    BY <1>5, <1>p, MoveOK DEF Abort, Positions
  <2>. QED
    BY <2>1, <2>2
<1>6. CASE ActivateBegin(p)
  <2>1. OthersOK'
    BY <1>6, <1>o DEF ActivateBegin, OthersOK, store, memory, start
  <2>2. RecordOK([lane[p] EXCEPT !.pc = "flipping", !.snap = Window!Demoted(lane[p].v)])
    <3>1. Window!Demoted(lane[p].v) \in SUBSET Versions
      BY DEF Window!Demoted
    <3>. QED
      BY <1>6, <1>w, <3>1 DEF ActivateBegin, RecordOK, LaneRecords, Positions
  <2>. QED
    BY <1>6, <1>p, <1>i, <2>1, <2>2, GotoOK DEF ActivateBegin, Finish
<1>7. CASE ActivateCommit(p)
  <2>1. lane[p].v \in Versions
    BY <1>7, <1>w DEF ActivateCommit
  <2>2. vstate' \in [Versions -> Window!VersionStates] /\ fleet' \in Versions
    BY <1>7, <1>o, <2>1 DEF ActivateCommit, OthersOK, Window!VersionStates
  <2>3. OthersOK'
    BY <1>7, <1>o, <2>2 DEF ActivateCommit, OthersOK, memory, start
  <2>4. RecordOK([Idle EXCEPT !.pc = AfterFlip(p)])
    <3>1. [Idle EXCEPT !.pc = "idle"] = Idle
      BY DEF Idle
    <3>. QED
      BY <3>1, IdleOK DEF AfterFlip
  <2>. QED
    BY <1>7, <1>p, <2>3, <2>4, GotoOK DEF ActivateCommit
<1>8. CASE Chain(p)
  <2>1. OthersOK'
    BY <1>8, <1>o DEF Chain, OthersOK, store, memory, start
  <2>. DEFINE b == \E q \in lanes : At(q, "begun")
  <2>2. b \in BOOLEAN /\ marker \in 0 .. Newest
    BY <1>o DEF OthersOK
  <2>. HIDE DEF b
  <2>3. RecordOK([Idle EXCEPT !.pc = "lookup", !.seen = marker, !.over = b])
    BY <1>i, <2>2 DEF RecordOK, LaneRecords, Positions
  <2>. QED
    BY <1>8, <1>p, <2>1, <2>3, GotoOK DEF Chain, b
<1>9. CASE TryAutoDeploy(p)
  <2>1. OthersOK'
    BY <1>9, <1>o DEF TryAutoDeploy, OthersOK, store, memory, start
  <2>. DEFINE newer == NewestRegisteredAfter(lane[p].seen)
  <2>2. CASE newer = {}
    BY <1>9, <1>p, <1>i, <2>1, <2>2, GotoOK DEF TryAutoDeploy, Finish
  <2>3. CASE newer # {}
    <3>1. newer \subseteq Versions /\ newer \in SUBSET (0 .. Newest)
      BY DEF NewestRegisteredAfter, Window!InState, Versions
    <3>2. Max(newer) \in Versions /\ Max(newer) \in 0 .. Newest /\ 0 \in 0 .. Newest
      BY <2>3, <3>1, MaxOfVersions, DeployAssumption
    <3>3. Max(newer) # 0
      BY <3>2, DeployAssumption DEF Versions
    <3>4. RecordOK([lane[p] EXCEPT !.pc = "begin", !.how = "auto", !.seen = 0, !.v = Max(newer)])
      <4>. HIDE DEF newer
      <4>. QED BY <1>w, <3>2, <3>3 DEF RecordOK, LaneRecords, Positions
    <3>. QED
      BY <1>9, <1>p, <2>1, <2>3, <3>4, GotoOK DEF TryAutoDeploy
  <2>. QED
    BY <2>2, <2>3
<1>10. CASE SweepRecheck(p)
  <2>1. OthersOK'
    BY <1>10, <1>o DEF SweepRecheck, OthersOK, store, memory, start
  <2>. QED
    BY <1>10, <1>p, <1>i, <2>1, GotoOK, MoveOK DEF SweepRecheck, Finish, Positions
<1>. QED
  BY <1>1, <1>2, <1>3, <1>4, <1>5, <1>6, <1>7, <1>8, <1>9, <1>10 DEF LaneStep

\* Goroutines that end on an error.
LEMMA LaneFailsTypes ==
    ASSUME TypeOK, NEW p \in AllLanes, LaneFails(p) PROVE TypeOK'
<1>. SUFFICES LanesOK' /\ OthersOK'
  BY TypeParts, PTL
<1>. USE DEF At
<1>1. p \in lanes /\ LanesOK /\ OthersOK /\ RecordOK(Idle)
  BY TypeParts, IdleOK DEF LaneFails, ChainFails, BeginFails, StartJobFails, AbortFails, ActivateFails
<1>2. spent' \in 0 .. MaxEvents
  BY <1>1, SpendOK DEF LaneFails, ChainFails, BeginFails, StartJobFails, AbortFails, ActivateFails, OthersOK
<1>3. OthersOK'
  BY <1>1, <1>2 DEF LaneFails, ChainFails, BeginFails, StartJobFails, AbortFails, ActivateFails, OthersOK,
                    store, memory, start
<1>4. LanesOK'
  BY <1>1, GotoOK, MoveOK DEF LaneFails, ChainFails, BeginFails, StartJobFails, AbortFails, ActivateFails, Finish, Positions
<1>. QED
  BY <1>3, <1>4

\* Goroutines come from requests, the sweep, timers and reports.
Origin(p) ==
    \/ Register(p) \/ CreateFleet(p)
    \/ \E v \in Versions :
        \/ Deploy(p, v) \/ Rollback(p, v) \/ SweepOrphans(p, v) \/ Expire(p, v)
        \/ \E n \in Nodes : HandlePullReport(p, n, v)

LEMMA OriginTypes ==
    ASSUME TypeOK, NEW p \in AllLanes, Origin(p)
    PROVE  TypeOK'
<1>. SUFFICES LanesOK' /\ OthersOK'
  BY TypeParts, PTL
<1>. USE DEF Free
<1>1. p \in lanes /\ LanesOK /\ OthersOK
  BY TypeParts DEF Origin, Register, CreateFleet, Deploy, Rollback, SweepOrphans, Expire,
                   HandlePullReport
<1>2. /\ RecordOK([Idle EXCEPT !.pc = "chain"])
      /\ \A v \in Versions, pos \in Positions : RecordOK([Idle EXCEPT !.pc = pos, !.v = v])
  BY IdleOK
<1>3. CASE Register(p)
  <2>. DEFINE w == Cardinality(Versions \ Window!InState("none")) + 1
  <2>1. w \in Versions /\ Window!CreateVersion(w) /\ Goto(p, [Idle EXCEPT !.pc = "chain"])
    BY <1>3 DEF Register
  <2>. HIDE DEF w
  <2>2. OthersOK'
    BY <1>1, <1>3, <2>1 DEF Register, OthersOK, memory, start,
                            Window!CreateVersion, Window!VersionStates
  <2>. QED
    BY <1>1, <1>2, <1>3, <2>1, <2>2, GotoOK DEF Register
<1>4. CASE CreateFleet(p)
  <2>1. OthersOK'
    BY <1>1, <1>4 DEF CreateFleet, OthersOK, memory, start
  <2>. QED
    BY <1>1, <1>2, <1>4, <2>1, GotoOK DEF CreateFleet
<1>5. ASSUME NEW v \in Versions, Deploy(p, v) PROVE LanesOK' /\ OthersOK'
  <2>1. OthersOK'
    BY <1>1, <1>5, SpendOK DEF Deploy, OthersOK, store, memory, start
  <2>. QED
    BY <1>1, <1>2, <1>5, <2>1, GotoOK DEF Deploy, Positions
<1>6. ASSUME NEW v \in Versions, Rollback(p, v) PROVE LanesOK' /\ OthersOK'
  <2>1. OthersOK'
    BY <1>1, <1>6, SpendOK DEF Rollback, OthersOK, store, memory, start
  <2>2. RecordOK([Idle EXCEPT !.pc = "activate", !.v = v, !.how = "rollback"])
    <3>1. RecordOK([Idle EXCEPT !.pc = "activate", !.v = v])
      BY <1>2 DEF Positions
    <3>. QED
      BY <3>1 DEF RecordOK, LaneRecords, Idle
  <2>. QED
    BY <1>1, <1>6, <2>1, <2>2, GotoOK DEF Rollback
<1>7. ASSUME NEW v \in Versions, SweepOrphans(p, v) PROVE LanesOK' /\ OthersOK'
  <2>1. OthersOK'
    BY <1>1, <1>7 DEF SweepOrphans, OthersOK, store, memory, start
  <2>. QED
    BY <1>1, <1>2, <1>7, <2>1, GotoOK DEF SweepOrphans, Positions
<1>8. ASSUME NEW v \in Versions, Expire(p, v) PROVE LanesOK' /\ OthersOK'
  <2>1. OthersOK'
    BY <1>1, <1>8 DEF Expire, OthersOK, store, start
  <2>2. CASE UNCHANGED lane
    BY <1>1, <1>8, <2>1, <2>2 DEF Expire, LanesOK, RecordOK
  <2>. QED
    BY <1>1, <1>2, <1>8, <2>1, <2>2, GotoOK DEF Expire, Positions
<1>9. ASSUME NEW v \in Versions, NEW n \in Nodes, HandlePullReport(p, n, v) PROVE LanesOK' /\ OthersOK'
  <2>1. OthersOK'
    BY <1>1, <1>9 DEF HandlePullReport, OthersOK, store, start
  <2>. QED
    BY <1>1, <1>2, <1>9, <2>1, GotoOK DEF HandlePullReport, Positions
<1>. QED
  BY <1>3, <1>4, <1>5, <1>6, <1>7, <1>8, <1>9 DEF Origin

LEMMA BootTypes ==
    ASSUME TypeOK, Boot \/ Crash PROVE TypeOK'
<1>. SUFFICES LanesOK' /\ OthersOK'
  BY TypeParts, PTL
<1>1. First \in lanes /\ LanesOK /\ OthersOK
  BY TypeParts DEF OthersOK, First
<1>2. /\ RecordOK(Idle) /\ RecordOK([Idle EXCEPT !.pc = "chain"])
      /\ \A v \in Versions : RecordOK([Idle EXCEPT !.pc = "start", !.v = v])
  BY IdleOK DEF Positions
<1>3. CASE Resume
  <2>1. (Resumed \cup {0}) \in SUBSET (0 .. Newest)
    BY <1>1, DeployAssumption DEF Resumed, OthersOK, Versions
  <2>2. Max(Resumed \cup {0}) \in 0 .. Newest
    BY <2>1, MaxOfVersions
  <2>3. OthersOK'
    BY <1>1, <1>3, <2>2 DEF Resume, OthersOK, store, Window!InState
  <2>4. LanesOK'
    BY <1>1, <1>3 DEF Resume, LanesOK, RecordOK
  <2>. QED
    BY <2>3, <2>4
<1>4. CASE ResumeKick
  <2>1. OthersOK'
    BY <1>1, <1>4 DEF ResumeKick, OthersOK, store, memory
  <2>. QED
    BY <1>1, <1>2, <1>4, <2>1, GotoOK DEF ResumeKick
<1>5. CASE Serve
  BY <1>1, <1>5 DEF Serve, OthersOK, LanesOK, RecordOK, store, memory
<1>6. ASSUME NEW v \in Versions, ResumeRearm(v) PROVE LanesOK' /\ OthersOK'
  <2>1. OthersOK'
    BY <1>1, <1>6 DEF ResumeRearm, OthersOK, store, memory
  <2>. QED
    BY <1>1, <1>2, <1>6, <2>1, GotoOK DEF ResumeRearm
<1>7. CASE Crash
  <2>1. marker' \in 0 .. Newest /\ spent' \in 0 .. MaxEvents
    BY <1>1, <1>7, SpendOK, DeployAssumption DEF Crash, OthersOK
  <2>2. OthersOK'
    BY <1>1, <1>7, <2>1 DEF Crash, OthersOK, store
  <2>3. LanesOK'
    BY <1>2, <1>7 DEF Crash, LanesOK, RecordOK
  <2>. QED
    BY <2>2, <2>3
<1>. QED
  BY <1>3, <1>4, <1>5, <1>6, <1>7 DEF Boot

LEMMA StepTypes == ASSUME TypeOK, [Next]_vars PROVE TypeOK'
<1>1. ASSUME NEW n \in Nodes, NEW v \in Versions, NodePulled(n, v) PROVE TypeOK'
  BY <1>1 DEF NodePulled, TypeOK, store, start, Window!TypeOK, NoJob
<1>2. CASE UNCHANGED vars
  BY <1>2 DEF vars, store, memory, start, TypeOK, Window!TypeOK
<1>3. ASSUME NEW v \in Versions, TimerFires(v) PROVE TypeOK'
  BY <1>3 DEF TimerFires, TypeOK, store, start, Window!TypeOK
<1>4. ASSUME NEW n \in Nodes, NodesChange(n) PROVE TypeOK'
  BY <1>4, SpendOK DEF NodesChange, TypeOK, store, memory, start, Window!TypeOK
<1>. QED
  BY <1>1, <1>2, <1>3, <1>4, LaneStepTypes, LaneFailsTypes, OriginTypes, BootTypes DEF Next, Origin

-----------------------------------------------------------------------------
(* What a step does to attempts, marker and goroutines.                    *)

\* Nothing the invariant speaks of changes.
Quiet == UNCHANGED <<vstate, fleet, attempted, marker, lane, lanes, boot>>

\* A record that holds neither a marker or version of the chain nor anything
\* an open transaction has read.
Plain(r) == r.pc \notin {"lookup", "beginning", "flipping"} /\ (r.pc = "begin" => r.how = "manual")

\* One goroutine, which has no attempt to record, goes on to a plain record.
PlainStep(p) ==
    /\ p \in lanes /\ UNCHANGED <<attempted, marker, lanes>>
    /\ boot # "down" /\ boot' # "down"
    /\ lane[p].pc # "begun" /\ Plain(lane'[p])
    /\ \A q \in lanes \ {p} : lane'[q] = lane[q]

\* A step that is neither quiet nor plain.
Telling(p) == \/ BeginDeploy(p) /\ Move(p, "beginning")
              \/ BeginCommit(p) \/ RecordAttempt(p)
              \/ ActivateBegin(p) /\ lane'[p].pc = "flipping"
              \/ Chain(p) \/ TryAutoDeploy(p)

LEMMA GotoPlain ==
    ASSUME TypeOK, NEW p \in lanes, NEW r, Goto(p, r), Plain(r), lane[p].pc # "begun",
           UNCHANGED <<attempted, marker, lanes>>, boot # "down", boot' # "down"
    PROVE  PlainStep(p)
BY DEF TypeOK, Goto, PlainStep

LEMMA MovePlain ==
    ASSUME TypeOK, NEW p \in lanes, NEW pos, Move(p, pos), lane[p].pc # "begun",
           pos \notin {"lookup", "begin", "beginning", "flipping"},
           UNCHANGED <<attempted, marker, lanes>>, boot # "down", boot' # "down"
    PROVE  PlainStep(p)
BY DEF TypeOK, LaneRecords, Move, PlainStep, Plain

LEMMA PlainRecords ==
    /\ Plain(Idle) /\ Plain([Idle EXCEPT !.pc = "chain"])
    /\ \A v : /\ Plain([Idle EXCEPT !.pc = "begin", !.v = v])
              /\ Plain([Idle EXCEPT !.pc = "start", !.v = v])
              /\ Plain([Idle EXCEPT !.pc = "activate", !.v = v])
              /\ Plain([Idle EXCEPT !.pc = "abort", !.v = v])
              /\ Plain([Idle EXCEPT !.pc = "sweep", !.v = v])
              /\ Plain([Idle EXCEPT !.pc = "activate", !.v = v, !.how = "rollback"])
BY DEF Plain, Idle

LEMMA LaneSteps ==
    ASSUME TypeOK, DownIsIdle, NEW p \in AllLanes, LaneStep(p) \/ LaneFails(p)
    PROVE  PlainStep(p) \/ Telling(p)
<1>. USE DEF At
<1>1. p \in lanes /\ lane[p].pc # "idle" /\ boot # "down" /\ UNCHANGED <<boot, lanes>>
  BY DEF DownIsIdle, LaneStep, LaneFails, BeginDeploy, BeginCommit, RecordAttempt, StartJob, Abort,
         ActivateBegin, ActivateCommit, Chain, TryAutoDeploy, SweepRecheck, ChainFails, BeginFails, StartJobFails,
         AbortFails, ActivateFails, start
<1>2. Plain(Idle) /\ lane[p] \in LaneRecords
  BY <1>1, PlainRecords DEF TypeOK
<1>3. ASSUME Finish(p), lane[p].pc # "begun", UNCHANGED <<attempted, marker>> PROVE PlainStep(p)
  BY <1>1, <1>2, <1>3, GotoPlain DEF Finish
<1>4. CASE BeginDeploy(p)
  <2>1. UNCHANGED <<attempted, marker>> /\ lane[p].pc = "begin"
    BY <1>4 DEF BeginDeploy, store, memory
  <2>2. ASSUME NEW st, Goto(p, [lane[p] EXCEPT !.pc = "begun", !.res = st]) PROVE PlainStep(p)
    <3>1. Plain([lane[p] EXCEPT !.pc = "begun", !.res = st])
      BY <1>2 DEF Plain, LaneRecords
    <3>. QED
      BY <1>1, <2>1, <2>2, <3>1, GotoPlain
  <2>. QED
    BY <1>3, <1>4, <2>1, <2>2 DEF BeginDeploy, Telling
<1>5. CASE StartJob(p)
  BY <1>1, <1>3, <1>5, MovePlain DEF StartJob, store
<1>6. CASE Abort(p)
  BY <1>1, <1>6, MovePlain DEF Abort, memory
<1>7. CASE ActivateBegin(p)
  <2>1. UNCHANGED <<attempted, marker>> /\ lane[p].pc = "activate"
    BY <1>7 DEF ActivateBegin, store, memory
  <2>2. ASSUME NEW r, Goto(p, [lane[p] EXCEPT !.pc = "flipping", !.snap = r])
        PROVE  lane'[p].pc = "flipping"
    BY <1>1, <1>2, <2>2 DEF Goto, LaneRecords, TypeOK
  <2>. QED
    BY <1>3, <1>7, <2>1, <2>2 DEF ActivateBegin, Telling
<1>8. CASE ActivateCommit(p)
  <2>1. UNCHANGED <<attempted, marker>> /\ lane[p].pc = "flipping"
    BY <1>8 DEF ActivateCommit, memory
  <2>2. Goto(p, [Idle EXCEPT !.pc = AfterFlip(p)])
    BY <1>8 DEF ActivateCommit
  <2>3. Plain([Idle EXCEPT !.pc = AfterFlip(p)])
    BY DEF Plain, Idle, AfterFlip
  <2>. QED
    BY <1>1, <2>1, <2>2, <2>3, GotoPlain
<1>9. CASE SweepRecheck(p)
  BY <1>1, <1>3, <1>9, MovePlain DEF SweepRecheck, store, memory
<1>10. CASE LaneFails(p)
  BY <1>1, <1>3, <1>10, MovePlain DEF LaneFails, ChainFails, BeginFails, StartJobFails, AbortFails, ActivateFails, store, memory
<1>. QED
  BY <1>4, <1>5, <1>6, <1>7, <1>8, <1>9, <1>10 DEF LaneStep, Telling

LEMMA OriginSteps ==
    ASSUME TypeOK, NEW p \in AllLanes, Origin(p)
    PROVE  PlainStep(p) \/ Quiet
<1>. USE DEF Free
<1>1. p \in lanes /\ lane[p].pc = "idle" /\ boot = "up"
      /\ UNCHANGED <<attempted, marker, lanes, boot>>
  BY DEF Origin, Register, CreateFleet, Deploy, Rollback, SweepOrphans, Expire, HandlePullReport,
         store, memory, start
<1>2. ASSUME NEW r, Goto(p, r), Plain(r) PROVE PlainStep(p)
  BY <1>1, <1>2, GotoPlain
<1>3. CASE Register(p) \/ CreateFleet(p)
  BY <1>2, <1>3, PlainRecords DEF Register, CreateFleet
<1>4. ASSUME NEW v \in Versions,
             Deploy(p, v) \/ Rollback(p, v) \/ SweepOrphans(p, v)
             \/ \E n \in Nodes : HandlePullReport(p, n, v)
      PROVE  PlainStep(p)
  BY <1>2, <1>4, PlainRecords DEF Deploy, Rollback, SweepOrphans, HandlePullReport
<1>5. ASSUME NEW v \in Versions, Expire(p, v) PROVE PlainStep(p) \/ Quiet
  BY <1>1, <1>2, <1>5, PlainRecords DEF Expire, store, Quiet
<1>. QED
  BY <1>3, <1>4, <1>5 DEF Origin

LEMMA StepCases ==
    ASSUME TypeOK, DownIsIdle, [Next]_vars
    PROVE  \/ Quiet \/ Resume \/ Crash \/ Serve
           \/ \E p \in AllLanes : PlainStep(p) \/ Telling(p)
<1>1. ASSUME NEW v \in Versions, NEW n \in Nodes, NodePulled(n, v) PROVE Quiet
  BY <1>1 DEF NodePulled, Quiet, store, start
<1>2. ASSUME NEW v \in Versions, TimerFires(v) PROVE Quiet
  BY <1>2 DEF TimerFires, Quiet, store, start
<1>3. ASSUME NEW n \in Nodes, NodesChange(n) PROVE Quiet
  BY <1>3 DEF NodesChange, Quiet, store, memory, start
<1>4. First \in lanes /\ First \in AllLanes
  BY DEF TypeOK, First
<1>5. CASE ResumeKick
  <2>1. PlainStep(First)
    BY <1>4, <1>5, GotoPlain, PlainRecords DEF ResumeKick, At, store, memory
  <2>. QED BY <1>4, <2>1
<1>6. ASSUME NEW v \in Versions, ResumeRearm(v) PROVE \E p \in AllLanes : PlainStep(p)
  <2>1. PlainStep(First)
    BY <1>4, <1>6, GotoPlain, PlainRecords DEF ResumeRearm, At, store, memory
  <2>. QED BY <1>4, <2>1
<1>7. CASE UNCHANGED vars
  BY <1>7 DEF vars, store, memory, start, Quiet
<1>. QED
  BY <1>1, <1>2, <1>3, <1>5, <1>6, <1>7, LaneSteps, OriginSteps DEF Next, Boot, Origin

-----------------------------------------------------------------------------
(* The invariant.                                                          *)

LEMMA StepDown == ASSUME TypeOK, DownIsIdle, [Next]_vars PROVE DownIsIdle'
<1>1. ASSUME NEW p \in AllLanes, Telling(p) PROVE DownIsIdle'
  <2>1. p \in lanes /\ lane[p].pc # "idle" /\ UNCHANGED boot
    BY <1>1 DEF Telling, BeginDeploy, BeginCommit, RecordAttempt, ActivateBegin, Chain,
                TryAutoDeploy, At, start
  <2>. QED
    BY <2>1 DEF DownIsIdle
<1>2. CASE Crash
  BY <1>2 DEF Crash, DownIsIdle, Idle
<1>. QED
  BY <1>1, <1>2, StepCases DEF Quiet, PlainStep, Resume, Serve, DownIsIdle

\* A goroutine that moves by Goto with a record of its own.
LEMMA GotoMoves ==
    ASSUME TypeOK, NEW p \in lanes, NEW r, Goto(p, r)
    PROVE  lane'[p] = r /\ \A q \in lanes \ {p} : lane'[q] = lane[q]
BY DEF TypeOK, Goto

LEMMA StepCovered == ASSUME TypeOK, DownIsIdle, Covered, [Next]_vars PROVE Covered'
<1>. USE DEF At
<1>1. CASE Quiet \/ Serve
  BY <1>1 DEF Quiet, Serve, Covered, store, memory
<1>2. CASE Crash
  BY <1>2 DEF Crash, Covered
<1>3. CASE Resume
  <2>1. (Resumed \cup {0}) \in SUBSET (0 .. Newest)
    BY DeployAssumption DEF Resumed, TypeOK, Versions
  <2>2. \A u \in attempted : Max(Resumed \cup {0}) >= u
    BY <2>1, MaxOfVersions DEF Resumed
  <2>3. Max(Resumed \cup {0}) \in Int /\ \A u \in attempted : u \in Int
    <3>1. attempted \subseteq 1 .. Newest
      BY DEF TypeOK, Versions
    <3>2. Max(Resumed \cup {0}) \in 0 .. Newest
      BY <2>1, MaxOfVersions
    <3>. QED
      BY <3>1, <3>2, DeployAssumption
  <2>4. marker' = Max(Resumed \cup {0}) /\ UNCHANGED attempted
    BY <1>3 DEF Resume, store
  <2>5. \A u \in attempted : u <= marker'
    <3>. DEFINE mx == Max(Resumed \cup {0})
    <3>1. mx \in Int /\ marker' = mx /\ \A u \in attempted : u \in Int /\ mx >= u
      BY <2>2, <2>3, <2>4
    <3>. HIDE DEF mx
    <3>. QED
      BY <3>1
  <2>. QED
    BY <2>4, <2>5 DEF Covered
<1>4. ASSUME NEW p \in AllLanes, PlainStep(p) PROVE Covered'
  BY <1>4 DEF PlainStep, Covered
<1>5. ASSUME NEW p \in AllLanes, BeginCommit(p) PROVE Covered'
  <2>1. p \in lanes /\ boot # "down" /\ UNCHANGED <<boot, lanes, marker>>
    BY <1>5 DEF BeginCommit, DownIsIdle, start, memory
  <2>2. \A q \in lanes : lane[q].pc = "begun" => lane'[q].pc = "begun" /\ lane'[q].v = lane[q].v
    BY <1>5 DEF BeginCommit, TypeOK, LaneRecords
  <2>3. lane'[p].pc = "begun" /\ lane'[p].v = lane[p].v
    BY <1>5, <2>1 DEF BeginCommit, TypeOK, LaneRecords
  <2>4. attempted' = attempted \cup {lane[p].v}
    BY <1>5 DEF BeginCommit
  <2>. QED
    BY <2>1, <2>2, <2>3, <2>4 DEF Covered
<1>6. ASSUME NEW p \in AllLanes, RecordAttempt(p) PROVE Covered'
  <2>1. p \in lanes /\ boot # "down" /\ UNCHANGED <<boot, lanes, attempted>>
    BY <1>6 DEF RecordAttempt, DownIsIdle, start, store
  <2>2. {marker, lane[p].v} \in SUBSET (0 .. Newest)
    BY <2>1 DEF TypeOK, LaneRecords
  <2>3. marker' >= marker /\ marker' >= lane[p].v /\ marker' \in Int
    BY <1>6, <2>2, MaxOfVersions, DeployAssumption DEF RecordAttempt
  <2>4. \A q \in lanes \ {p} : lane'[q] = lane[q]
    BY <1>6, <2>1, GotoMoves DEF RecordAttempt, Finish
  <2>5. marker \in Int /\ lane[p].v \in Int /\ \A u \in attempted : u \in Int
    BY <2>2, DeployAssumption DEF TypeOK, Versions
  <2>6. ASSUME NEW u \in attempted
        PROVE  u <= marker' \/ \E q \in lanes : lane'[q].pc = "begun" /\ lane'[q].v = u
    <3>1. CASE u <= marker
      BY <2>3, <2>5, <3>1
    <3>2. ASSUME NEW q \in lanes, lane[q].pc = "begun", lane[q].v = u
          PROVE  u <= marker' \/ (lane'[q].pc = "begun" /\ lane'[q].v = u)
      BY <2>3, <2>4, <2>5, <3>2
    <3>. QED
      BY <2>1, <3>1, <3>2 DEF Covered
  <2>. QED
    BY <2>1, <2>6 DEF Covered
<1>7. ASSUME NEW p \in AllLanes, \/ BeginDeploy(p) /\ Move(p, "beginning")
                                 \/ ActivateBegin(p) \/ Chain(p) \/ TryAutoDeploy(p)
      PROVE  Covered'
  <2>1. p \in lanes /\ lane[p].pc # "begun" /\ UNCHANGED <<boot, lanes, attempted, marker>>
    BY <1>7 DEF BeginDeploy, ActivateBegin, Chain, TryAutoDeploy, store, memory, start
  <2>2. \A q \in lanes \ {p} : lane'[q] = lane[q]
    BY <1>7, <2>1, GotoMoves DEF BeginDeploy, ActivateBegin, Chain, TryAutoDeploy, Finish, Move, TypeOK
  <2>. QED
    BY <2>1, <2>2 DEF Covered
<1>. QED
  BY <1>1, <1>2, <1>3, <1>4, <1>5, <1>6, <1>7, StepCases DEF Telling

\* What LooksForward says of one goroutine's record, and that it is enough to
\* look at the goroutine that moves.
Forward(r) ==
    ~r.over => \A u \in attempted :
        /\ r.pc = "lookup" => u <= r.seen
        /\ r.pc \in {"begin", "beginning"} /\ r.how = "auto" => u < r.v

LEMMA OneMovesForward ==
    ASSUME LooksForward, NEW p \in lanes, UNCHANGED <<lanes, attempted>>,
           \A q \in lanes \ {p} : lane'[q] = lane[q], Forward(lane'[p])
    PROVE  LooksForward'
<1>1. ASSUME NEW q \in lanes PROVE Forward(lane'[q])
  <2>1. CASE q = p
    BY <2>1
  <2>2. CASE q # p
    <3>1. Forward(lane[q])
      BY DEF LooksForward, Forward
    <3>2. lane'[q] = lane[q]
      BY <2>2
    <3>. QED
      BY <3>1, <3>2
  <2>. QED
    BY <2>1, <2>2
<1>. QED
  BY <1>1 DEF LooksForward, Forward

LEMMA StepForward == ASSUME TypeOK, DownIsIdle, Covered, LooksForward, [Next]_vars PROVE LooksForward'
<1>. USE DEF At
<1>t. \A u \in attempted : u \in Int
  BY DeployAssumption DEF TypeOK, Versions
<1>1. CASE Quiet \/ Serve \/ Resume
  BY <1>1 DEF Quiet, Serve, Resume, LooksForward, store, memory
<1>2. CASE Crash
  BY <1>2 DEF Crash, LooksForward, Idle
<1>3. ASSUME NEW p \in AllLanes, PlainStep(p) PROVE LooksForward'
  BY <1>3 DEF PlainStep, Plain, LooksForward
<1>4. ASSUME NEW p \in AllLanes, BeginDeploy(p), Move(p, "beginning") PROVE LooksForward'
  <2>1. p \in lanes /\ lane[p].pc = "begin" /\ UNCHANGED <<lanes, attempted>>
    BY <1>4 DEF BeginDeploy, store
  <2>2. /\ lane'[p] = [lane[p] EXCEPT !.pc = "beginning"]
        /\ \A q \in lanes \ {p} : lane'[q] = lane[q]
    BY <1>4, <2>1 DEF Move, TypeOK
  <2>3. /\ lane'[p].pc = "beginning" /\ lane'[p].how = lane[p].how
        /\ lane'[p].over = lane[p].over /\ lane'[p].v = lane[p].v
    BY <2>1, <2>2 DEF TypeOK, LaneRecords
  <2>4. Forward(lane'[p])
    BY <2>1, <2>3 DEF LooksForward, Forward
  <2>. QED
    BY <2>1, <2>2, <2>4, OneMovesForward
<1>5. ASSUME NEW p \in AllLanes, BeginCommit(p) PROVE LooksForward'
  <2>1. p \in lanes /\ UNCHANGED lanes /\ lane'[p].pc = "begun"
    BY <1>5 DEF BeginCommit, TypeOK, LaneRecords
  <2>2. ASSUME NEW q \in lanes, q # p, lane'[q].pc \in {"lookup", "begin", "beginning"}
        PROVE  lane'[q].over
    BY <1>5, <2>2 DEF BeginCommit, TypeOK, LaneRecords
  <2>. QED
    BY <2>1, <2>2 DEF LooksForward
<1>6. ASSUME NEW p \in AllLanes, RecordAttempt(p) PROVE LooksForward'
  <2>1. p \in lanes /\ UNCHANGED <<lanes, attempted>>
    BY <1>6 DEF RecordAttempt, store
  <2>2. /\ lane'[p].pc \in {"idle", "start"} /\ \A q \in lanes \ {p} : lane'[q] = lane[q]
    <3>1. CASE Goto(p, Idle)
      BY <2>1, <3>1, GotoMoves DEF Idle
    <3>2. CASE Goto(p, [Idle EXCEPT !.pc = "start", !.v = lane[p].v])
      <4>1. [Idle EXCEPT !.pc = "start", !.v = lane[p].v].pc = "start"
        BY DEF Idle
      <4>. QED
        BY <2>1, <3>2, <4>1, GotoMoves
    <3>. QED
      BY <1>6, <3>1, <3>2 DEF RecordAttempt, Finish
  <2>. QED
    BY <2>1, <2>2 DEF LooksForward
<1>7. ASSUME NEW p \in AllLanes, ActivateBegin(p), lane'[p].pc = "flipping" PROVE LooksForward'
  <2>1. p \in lanes /\ UNCHANGED <<lanes, attempted>>
    BY <1>7 DEF ActivateBegin, store
  <2>2. \A q \in lanes \ {p} : lane'[q] = lane[q]
    BY <1>7, <2>1, GotoMoves DEF ActivateBegin, Finish
  <2>. QED
    BY <1>7, <2>1, <2>2 DEF LooksForward
<1>8. ASSUME NEW p \in AllLanes, Chain(p) PROVE LooksForward'
  <2>1. p \in lanes /\ boot # "down" /\ UNCHANGED <<lanes, attempted>>
    BY <1>8 DEF Chain, store, DownIsIdle
  <2>2. /\ lane'[p] = [Idle EXCEPT !.pc = "lookup", !.seen = marker,
                                   !.over = \E q \in lanes : At(q, "begun")]
        /\ \A q \in lanes \ {p} : lane'[q] = lane[q]
    BY <1>8, <2>1, GotoMoves DEF Chain
  <2>3. /\ lane'[p].pc = "lookup" /\ lane'[p].seen = marker
        /\ lane'[p].over <=> \E q \in lanes : At(q, "begun")
    BY <2>2 DEF Idle
  <2>4. ~lane'[p].over => \A u \in attempted : u <= marker
    BY <2>1, <2>3 DEF Covered
  <2>. QED
    BY <2>1, <2>2, <2>3, <2>4 DEF LooksForward
<1>9. ASSUME NEW p \in AllLanes, TryAutoDeploy(p) PROVE LooksForward'
  <2>. DEFINE newer == NewestRegisteredAfter(lane[p].seen)
  <2>1. p \in lanes /\ lane[p].pc = "lookup" /\ UNCHANGED <<lanes, attempted>>
    BY <1>9 DEF TryAutoDeploy, store
  <2>2. CASE newer = {}
    <3>1. lane'[p] = Idle /\ \A q \in lanes \ {p} : lane'[q] = lane[q]
      BY <1>9, <2>1, <2>2, GotoMoves DEF TryAutoDeploy, Finish
    <3>2. Idle.pc = "idle"
      BY DEF Idle
    <3>. QED
      BY <2>1, <3>1, <3>2 DEF LooksForward
  <2>3. CASE newer # {}
    <3>1. newer \in SUBSET (0 .. Newest) /\ \A v \in newer : v > lane[p].seen
      BY DEF NewestRegisteredAfter, Window!InState, Versions
    <3>2. Max(newer) \in newer
      BY <2>3, <3>1, MaxOfVersions
    <3>3. /\ lane'[p] = [lane[p] EXCEPT !.pc = "begin", !.how = "auto", !.seen = 0, !.v = Max(newer)]
          /\ \A q \in lanes \ {p} : lane'[q] = lane[q]
      BY <1>9, <2>1, <2>3, GotoMoves DEF TryAutoDeploy
    <3>4. Max(newer) > lane[p].seen /\ Max(newer) \in Int /\ lane[p].seen \in Int
      BY <2>1, <3>1, <3>2, DeployAssumption DEF TypeOK, LaneRecords
    <3>. HIDE DEF newer
    <3>5. /\ lane'[p].pc = "begin" /\ lane'[p].v = Max(newer)
          /\ lane'[p].over = lane[p].over
      BY <2>1, <3>3 DEF TypeOK, LaneRecords
    <3>6. ~lane'[p].over => \A u \in attempted : u < Max(newer)
      <4>1. ~lane'[p].over => \A u \in attempted : u <= lane[p].seen
        BY <2>1, <3>5 DEF LooksForward
      <4>. QED
        BY <1>t, <3>4, <4>1
    <3>7. Forward(lane'[p])
      BY <3>5, <3>6 DEF Forward
    <3>. QED
      BY <2>1, <3>3, <3>7, OneMovesForward
  <2>. QED
    BY <2>2, <2>3
<1>. QED
  BY <1>1, <1>2, <1>3, <1>4, <1>5, <1>6, <1>7, <1>8, <1>9, StepCases DEF Telling

LEMMA StepAlone ==
    ASSUME TypeOK, DownIsIdle, AloneUnchanged, [Next]_vars PROVE AloneUnchanged'
<1>. USE DEF At
<1>1. CASE Quiet \/ Serve \/ Resume
  <2>1. UNCHANGED <<vstate, fleet, lane, lanes>>
    BY <1>1 DEF Quiet, Serve, Resume, store
  <2>. QED
    BY <2>1 DEF AloneUnchanged, FromState, Window!InState, Window!Demoted
<1>. SUFFICES ASSUME NEW p \in lanes', lanes' = {p}, lane'[p].pc \in {"beginning", "flipping"},
                     ~(Quiet \/ Serve \/ Resume)
              PROVE  /\ lane'[p].pc = "beginning" =>
                          /\ vstate'[lane'[p].v] \in {"registered", "deprecated"}
                          /\ Window!InState("prepulling")' = {}
                     /\ lane'[p].pc = "flipping" =>
                          /\ vstate'[lane'[p].v] = FromState(p)'
                          /\ lane'[p].snap = (Window!Demoted(lane[p].v))'
  BY <1>1 DEF AloneUnchanged
<1>2. ~Crash
  BY DEF Crash, Idle
<1>3. PICK q \in AllLanes : PlainStep(q) \/ Telling(q)
  BY <1>2, StepCases
<1>4. q = p /\ p \in lanes
  BY <1>3 DEF PlainStep, Telling, BeginDeploy, BeginCommit, RecordAttempt, ActivateBegin, Chain,
              TryAutoDeploy
<1>5. lane[p] \in LaneRecords
  BY <1>4 DEF TypeOK
<1>6. ~PlainStep(p)
  BY DEF PlainStep, Plain
<1>7. ~BeginCommit(p)
  BY <1>4, <1>5 DEF BeginCommit, LaneRecords
<1>8. ~RecordAttempt(p)
  <2>1. [Idle EXCEPT !.pc = "start", !.v = lane[p].v].pc = "start" /\ Idle.pc = "idle"
    BY DEF Idle
  <2>. QED
    BY <1>4, <2>1, GotoMoves DEF RecordAttempt, Finish
<1>9. ~Chain(p)
  <2>. SUFFICES ASSUME Chain(p) PROVE FALSE
    OBVIOUS
  <2>1. lane'[p] = [Idle EXCEPT !.pc = "lookup", !.seen = marker,
                                !.over = \E r \in lanes : At(r, "begun")]
    BY <1>4, GotoMoves DEF Chain
  <2>2. lane'[p].pc = "lookup"
    BY <2>1 DEF Idle
  <2>. QED
    BY <2>2
<1>10. ~TryAutoDeploy(p)
  <2>1. Idle.pc = "idle"
    BY DEF Idle
  <2>2. ASSUME NEW v PROVE [lane[p] EXCEPT !.pc = "begin", !.how = "auto", !.seen = 0, !.v = v].pc = "begin"
    BY <1>5 DEF LaneRecords
  <2>3. Goto(p, Idle) => lane'[p].pc = "idle"
    BY <1>4, <2>1, GotoMoves
  <2>. DEFINE r(v) == [lane[p] EXCEPT !.pc = "begin", !.how = "auto", !.seen = 0, !.v = v]
  <2>4. ASSUME NEW v, Goto(p, r(v)) PROVE lane'[p].pc = "begin"
    <3>. HIDE DEF r
    <3>1. lane'[p] = r(v)
      BY <1>4, <2>4, GotoMoves
    <3>. QED
      BY <2>2, <3>1 DEF r
  <2>5. TryAutoDeploy(p) => Goto(p, Idle) \/ \E v : Goto(p, r(v))
    BY DEF TryAutoDeploy, Finish
  <2>. QED
    BY <1>4, <2>3, <2>4, <2>5
<1>11. CASE BeginDeploy(p) /\ Move(p, "beginning")
  <2>1. UNCHANGED vstate
    BY <1>11 DEF BeginDeploy, store
  <2>2. lane'[p].pc = "beginning" /\ lane'[p].v = lane[p].v
    BY <1>4, <1>5, <1>11 DEF Move, TypeOK, LaneRecords
  <2>3. ~Goto(p, Idle)
    BY <1>4, <2>2, GotoMoves DEF Idle
  <2>4. ~Goto(p, [lane[p] EXCEPT !.pc = "begun", !.res = vstate[lane[p].v]])
    <3>1. [lane[p] EXCEPT !.pc = "begun", !.res = vstate[lane[p].v]].pc = "begun"
      BY <1>5 DEF LaneRecords
    <3>. QED
      BY <1>4, <2>2, <3>1, GotoMoves
  <2>5. vstate[lane[p].v] \in {"registered", "deprecated"} /\ Window!InState("prepulling") = {}
    BY <1>11, <2>3, <2>4 DEF BeginDeploy, Finish
  <2>. QED
    BY <2>1, <2>2, <2>5 DEF Window!InState
<1>12. CASE ActivateBegin(p)
  <2>. DEFINE r == [lane[p] EXCEPT !.pc = "flipping", !.snap = Window!Demoted(lane[p].v)]
  <2>1. UNCHANGED <<vstate, fleet>>
    BY <1>12 DEF ActivateBegin, store
  <2>2. ~Goto(p, Idle)
    BY <1>4, GotoMoves DEF Idle
  <2>3. vstate[lane[p].v] = FromState(p) /\ Goto(p, r)
    BY <1>12, <2>2 DEF ActivateBegin, Finish
  <2>4. /\ r.pc = "flipping" /\ r.v = lane[p].v /\ r.how = lane[p].how
        /\ r.snap = Window!Demoted(lane[p].v)
    BY <1>5 DEF LaneRecords
  <2>. HIDE DEF r
  <2>5. lane'[p] = r
    BY <1>4, <2>3, GotoMoves
  <2>6. (Window!Demoted(lane[p].v))' = Window!Demoted(lane[p].v)
    BY <2>1, <2>4, <2>5 DEF Window!Demoted
  <2>7. FromState(p)' = FromState(p)
    BY <2>4, <2>5 DEF FromState
  <2>. QED
    BY <2>1, <2>3, <2>4, <2>5, <2>6, <2>7
<1>. QED
  BY <1>3, <1>4, <1>6, <1>7, <1>8, <1>9, <1>10, <1>11, <1>12 DEF Telling

LEMMA InitInv == Init => DeployInv
<1>. SUFFICES ASSUME Init PROVE DeployInv
  OBVIOUS
<1>1. TypeOK
  BY InitTypes
<1>2. \A p \in lanes : lane[p] = Idle
  BY DEF Init
<1>3. attempted = {} /\ boot = "up"
  BY DEF Init
<1>. QED
  BY <1>1, <1>2, <1>3 DEF DeployInv, DownIsIdle, Covered, LooksForward, AloneUnchanged, Idle

LEMMA StepInv == DeployInv /\ [Next]_vars => DeployInv'
BY StepTypes, StepDown, StepCovered, StepForward, StepAlone DEF DeployInv

-----------------------------------------------------------------------------
(* The version window.                                                     *)

\* Only four steps write the versions table or the fleet's pointer.
LEMMA TableSteps ==
    ASSUME TypeOK, [Next]_vars
    PROVE  \/ UNCHANGED tables
           \/ \E p \in lanes : BeginCommit(p) \/ Abort(p) \/ ActivateCommit(p) \/ Register(p)
<1>1. ASSUME NEW p \in AllLanes, LaneStep(p)
      PROVE  UNCHANGED tables \/ (p \in lanes /\ (BeginCommit(p) \/ Abort(p) \/ ActivateCommit(p)))
  BY <1>1 DEF LaneStep, BeginDeploy, BeginCommit, RecordAttempt, StartJob, Abort, ActivateBegin,
              ActivateCommit, Chain, TryAutoDeploy, SweepRecheck, At, store, tables
<1>2. ASSUME NEW p \in AllLanes, LaneFails(p) PROVE UNCHANGED tables
  BY <1>2 DEF LaneFails, ChainFails, BeginFails, StartJobFails, AbortFails, ActivateFails, store, tables
<1>3. ASSUME NEW p \in AllLanes, Origin(p)
      PROVE  UNCHANGED tables \/ (p \in lanes /\ Register(p))
  BY <1>3 DEF Origin, Register, CreateFleet, Deploy, Rollback, SweepOrphans, Expire,
              HandlePullReport, Free, store, tables
<1>4. ASSUME NEW v \in Versions, NEW n \in Nodes, NodePulled(n, v) PROVE UNCHANGED tables
  BY <1>4 DEF NodePulled, store, tables
<1>5. ASSUME NEW v \in Versions, TimerFires(v) PROVE UNCHANGED tables
  BY <1>5 DEF TimerFires, store, tables
<1>6. ASSUME NEW n \in Nodes, NodesChange(n) PROVE UNCHANGED tables
  BY <1>6 DEF NodesChange, store, tables
<1>7. Boot \/ Crash \/ UNCHANGED vars => UNCHANGED tables
  BY DEF Boot, Resume, ResumeKick, Serve, ResumeRearm, Crash, vars, store, tables
<1>. QED
  BY <1>1, <1>2, <1>3, <1>4, <1>5, <1>6, <1>7 DEF Next, Origin

LEMMA SerialStep ==
    ASSUME DeployInv, [Next]_vars, Cardinality(lanes) = 1
    PROVE  Window!Next \/ UNCHANGED tables
<1>. USE DEF At
<1>1. PICK p : lanes = {p}
  <2>1. IsFiniteSet(lanes)
    BY DeployAssumption, FS_Subset DEF DeployInv, TypeOK
  <2>. QED
    BY <2>1, FS_Singleton
<1>2. TypeOK /\ AloneUnchanged /\ p \in lanes
  BY <1>1 DEF DeployInv
<1>3. lane[p].pc \notin {"idle", "chain", "lookup"} => lane[p].v \in Versions
  BY <1>2, WorkingOn
<1>4. CASE BeginCommit(p)
  <2>1. lane[p].v \in Versions /\ Window!BeginDeploy(lane[p].v)
    BY <1>1, <1>2, <1>3, <1>4 DEF BeginCommit, AloneUnchanged, Window!BeginDeploy
  <2>. QED
    BY <2>1 DEF Window!Next
<1>5. CASE Abort(p)
  <2>1. CASE vstate[lane[p].v] = "prepulling"
    <3>1. lane[p].v \in Versions /\ Window!AbortDeploy(lane[p].v)
      BY <1>3, <1>5, <2>1 DEF Abort, Window!AbortDeploy
    <3>. QED
      BY <3>1 DEF Window!Next
  <2>2. CASE vstate[lane[p].v] # "prepulling"
    BY <1>5, <2>2 DEF Abort, tables
  <2>. QED
    BY <2>1, <2>2
<1>6. CASE ActivateCommit(p)
  <2>. DEFINE v == lane[p].v
              demoted == {u \in lane[p].snap : vstate[u] \in {"active", "registered"}}
              superseded == Window!InState("deprecated") \ (demoted \cup {v})
  <2>1. v \in Versions /\ lane[p].pc = "flipping"
    BY <1>3, <1>6 DEF ActivateCommit
  <2>2. vstate[v] = FromState(p) /\ lane[p].snap = Window!Demoted(v)
    BY <1>1, <1>2, <2>1 DEF AloneUnchanged
  <2>3. demoted = Window!Demoted(v)
    BY <2>2 DEF Window!Demoted
  <2>4. superseded = Window!Superseded(v)
    BY <2>3 DEF Window!Superseded
  <2>5. /\ vstate' = [u \in Versions |->
                        CASE u = v           -> "active"
                          [] u \in demoted    -> "deprecated"
                          [] u \in superseded -> "disabled"
                          [] OTHER            -> vstate[u]]
        /\ fleet' = v
    BY <1>6 DEF ActivateCommit
  <2>. HIDE DEF demoted, superseded
  <2>6. Window!ActivateVersion(v, FromState(p))
    BY <2>2, <2>3, <2>4, <2>5 DEF Window!ActivateVersion
  <2>7. FromState(p) \in Window!FlipSources
    BY DEF FromState, Window!FlipSources
  <2>. QED
    BY <2>1, <2>6, <2>7 DEF Window!Next
<1>7. CASE Register(p)
  <2>1. \E v \in Versions : Window!CreateVersion(v)
    BY <1>7 DEF Register
  <2>. QED
    BY <2>1 DEF Window!Next
<1>. QED
  BY <1>1, <1>2, <1>4, <1>5, <1>6, <1>7, TableSteps

-----------------------------------------------------------------------------
(* The theorems.                                                           *)

\* Every variable of the deploy manager keeps its type.
THEOREM TypeCorrect == Spec => []TypeOK
<1>1. DeployInv => TypeOK
  BY DEF DeployInv
<1>. QED
  BY InitInv, StepInv, <1>1, PTL DEF Spec

\* The marker covers every attempt while the master serves, after any number
\* of crashes at any point of a deploy: a version is never rolled out
\* automatically a second time because the master forgot the first.
THEOREM MarkerOutlivesCrashes == Spec => []MarkerCoversAttempts
<1>1. DeployInv => MarkerCoversAttempts
  BY DEF DeployInv, Covered, MarkerCoversAttempts
<1>. QED
  BY InitInv, StepInv, <1>1, PTL DEF Spec

\* An automatic deploy that no other deploy overtook starts a version newer
\* than every one that was ever tried.
THEOREM AutoIsForward == Spec => AutoStartsForward
<1>. DEFINE Step == \A p \in lanes :
                      (/\ At(p, "beginning") /\ lane'[p].pc = "begun"
                       /\ lane[p].how = "auto" /\ ~lane[p].over)
                      => \A u \in attempted : u < lane[p].v
<1>1. DeployInv => Step
  BY DEF DeployInv, LooksForward, At
<1>. QED
  BY InitInv, StepInv, <1>1, PTL DEF Spec, AutoStartsForward

\* A single goroutine drives the version window by the window's own
\* transactions only, through crashes, store errors and node changes.
THEOREM SerialRefinesWindow == Spec => SerialImplementsWindow
<1>1. DeployInv /\ [Next]_vars
        => [Cardinality(lanes) = 1 => Window!Next \/ UNCHANGED tables]_vars
  BY SerialStep
<1>. QED
  BY InitInv, StepInv, <1>1, PTL DEF Spec, SerialImplementsWindow
=============================================================================
