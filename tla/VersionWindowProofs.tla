------------------------- MODULE VersionWindowProofs -------------------------
(***************************************************************************)
(* Proofs about VersionWindow.  Type correctness, OneActive, OnePrepulling *)
(* and DisabledIsFinal hold whatever the environment does.  OneDeprecated  *)
(* and RunningVersionKeepsWindow need an operator who only bootstraps.     *)
(***************************************************************************)
EXTENDS VersionWindow, TLAPS

\* The active version, when there is one, is the one the fleet runs.
FleetRunsActive == \A v \in Versions : vstate[v] = "active" => fleet = v

\* The window opens with the first flip: no version is deprecated before it.
WindowNeedsActive ==
    \A v \in Versions :
        vstate[v] = "deprecated" => \E u \in Versions : vstate[u] = "active"

\* Before the first flip the fleet's build, if any, waits for its deploy, unless
\* retention has disabled it.
BootstrapWaits ==
    (\A v \in Versions : vstate[v] # "active") /\ fleet # NoVersion
        => vstate[fleet] \in {"registered", "prepulling", "disabled"}

Base == TypeOK /\ OneActive /\ OnePrepulling

WindowInv == Base /\ FleetRunsActive /\ WindowNeedsActive /\ OneDeprecated

RunningInv == WindowInv /\ BootstrapWaits

\* What the stored window is after a flip to v, state by state.
LEMMA FlipStates ==
    ASSUME TypeOK, NEW v \in Versions, NEW from \in FlipSources,
           ActivateVersion(v, from), NEW u \in Versions
    PROVE  /\ vstate'[u] = "active" <=> u = v
           /\ vstate'[u] = "deprecated" <=> u \in Demoted(v)
           /\ vstate'[u] = "prepulling" => vstate[u] = "prepulling"
           /\ vstate'[u] \in VersionStates
           /\ vstate[u] = "disabled" => vstate'[u] = "disabled"
<1>1. v \notin Demoted(v)
  BY DEF Demoted
<1>2. u \in Demoted(v) => vstate[u] \in {"active", "registered"}
  BY DEF Demoted
<1>3. u \in Superseded(v) <=> vstate[u] = "deprecated" /\ u \notin Demoted(v) /\ u # v
  BY DEF Superseded, InState
<1>4. vstate[v] # "disabled"
  BY DEF ActivateVersion, FlipSources
<1>5. vstate'[u] = IF u = v THEN "active"
                   ELSE IF u \in Demoted(v) THEN "deprecated"
                   ELSE IF u \in Superseded(v) THEN "disabled" ELSE vstate[u]
  <2>1. vstate' = [w \in Versions |->
                    CASE w = v               -> "active"
                      [] w \in Demoted(v)    -> "deprecated"
                      [] w \in Superseded(v) -> "disabled"
                      [] OTHER               -> vstate[w]]
    BY DEF ActivateVersion
  <2>2. vstate'[u] = CASE u = v               -> "active"
                       [] u \in Demoted(v)    -> "deprecated"
                       [] u \in Superseded(v) -> "disabled"
                       [] OTHER               -> vstate[u]
    BY <2>1
  <2> QED
    BY <2>2, <1>1, <1>3
<1>6. u # v /\ u \notin Demoted(v) => vstate[u] # "active"
  BY DEF Demoted
<1> QED
  BY <1>1, <1>2, <1>3, <1>4, <1>5, <1>6 DEF TypeOK, VersionStates

\* The base invariant is inductive without any restriction on the operator.
LEMMA BaseInductive ==
    ASSUME Base, [Next]_wvars PROVE Base'
<1> USE NoVersionAssumption
<1>1. CASE UNCHANGED wvars
  BY <1>1 DEF wvars, Base, TypeOK, OneActive, OnePrepulling, AtMostOne, InState
<1>2. ASSUME NEW v \in Versions, CreateVersion(v) PROVE Base'
  BY <1>2 DEF CreateVersion, Base, TypeOK, OneActive, OnePrepulling, AtMostOne,
              InState, VersionStates
<1>3. ASSUME NEW v \in Versions, BeginDeploy(v) PROVE Base'
  BY <1>3 DEF BeginDeploy, Base, TypeOK, OneActive, OnePrepulling, AtMostOne,
              InState, VersionStates
<1>4. ASSUME NEW v \in Versions, AbortDeploy(v) PROVE Base'
  BY <1>4 DEF AbortDeploy, Base, TypeOK, OneActive, OnePrepulling, AtMostOne,
              InState, VersionStates
<1>5. ASSUME NEW v \in Versions, NEW from \in FlipSources,
             ActivateVersion(v, from)
      PROVE Base'
  <2>1. TypeOK'
    BY <1>5, FlipStates DEF Base, TypeOK, ActivateVersion
  <2>2. OneActive'
    BY <1>5, FlipStates DEF Base, OneActive, AtMostOne, InState
  <2>3. OnePrepulling'
    BY <1>5, FlipStates DEF Base, OnePrepulling, AtMostOne, InState
  <2> QED
    BY <2>1, <2>2, <2>3 DEF Base
<1>6. ASSUME NEW v \in Versions, UpsertFleet(v) PROVE Base'
  BY <1>6 DEF UpsertFleet, Base, TypeOK, OneActive, OnePrepulling, AtMostOne, InState
<1>7. ASSUME NEW S \in SUBSET Versions, DisableExpiredDeprecated(S) PROVE Base'
  BY <1>7 DEF DisableExpiredDeprecated, Base, TypeOK, OneActive, OnePrepulling,
              AtMostOne, InState, VersionStates
<1>8. ASSUME NEW S \in SUBSET Versions, RetireVersions(S) PROVE Base'
  BY <1>8 DEF RetireVersions, Base, TypeOK, OneActive, OnePrepulling,
              AtMostOne, InState, VersionStates
<1> QED
  BY <1>1, <1>2, <1>3, <1>4, <1>5, <1>6, <1>7, <1>8 DEF Next

LEMMA BaseInvariant == Spec => []Base
<1>1. Init => Base
  BY DEF Init, Base, TypeOK, OneActive, OnePrepulling, AtMostOne, InState, VersionStates
<1> QED
  BY <1>1, BaseInductive, PTL DEF Spec

\* The columns only ever hold what the check constraint of versions.state and
\* the foreign key of fleet_configs.active_version allow.
THEOREM TypeCorrect == Spec => []TypeOK
<1>1. Base => TypeOK
  BY DEF Base
<1> QED
  BY <1>1, BaseInvariant, PTL

\* The flip demotes the old active version in its own transaction, so no two
\* versions are ever active.
THEOREM AtMostOneActive == Spec => []OneActive
<1>1. Base => OneActive
  BY DEF Base
<1> QED
  BY <1>1, BaseInvariant, PTL

\* BeginDeploy's busy check lets one deploy at a time into prepulling.
THEOREM AtMostOnePrepulling == Spec => []OnePrepulling
<1>1. Base => OnePrepulling
  BY DEF Base
<1> QED
  BY <1>1, BaseInvariant, PTL

\* No transaction leads out of disabled.
THEOREM DisabledIsTerminal == Spec => DisabledIsFinal
<1>1. ASSUME Base, [Next]_wvars, NEW u \in Versions, vstate[u] = "disabled"
      PROVE  vstate'[u] = "disabled"
  <2>1. CASE UNCHANGED wvars
    BY <1>1, <2>1 DEF wvars
  <2>2. ASSUME NEW v \in Versions,
               CreateVersion(v) \/ BeginDeploy(v) \/ AbortDeploy(v) \/ UpsertFleet(v)
        PROVE vstate'[u] = "disabled"
    BY <1>1, <2>2 DEF CreateVersion, BeginDeploy, AbortDeploy, UpsertFleet, Base, TypeOK
  <2>3. ASSUME NEW v \in Versions, NEW from \in FlipSources, ActivateVersion(v, from)
        PROVE vstate'[u] = "disabled"
    BY <1>1, <2>3, FlipStates DEF Base
  <2>4. ASSUME NEW S \in SUBSET Versions,
               DisableExpiredDeprecated(S) \/ RetireVersions(S)
        PROVE vstate'[u] = "disabled"
    BY <1>1, <2>4 DEF DisableExpiredDeprecated, RetireVersions
  <2> QED
    BY <1>1, <2>1, <2>2, <2>3, <2>4 DEF Next
<1>2. Base /\ [Next]_wvars
        => [\A v \in Versions : vstate[v] = "disabled" => vstate'[v] = "disabled"]_wvars
  BY <1>1
<1> QED
  BY <1>2, BaseInvariant, PTL DEF Spec, DisabledIsFinal, wvars

-----------------------------------------------------------------------------
(* With an operator who only bootstraps.                                   *)

LEMMA WindowInductive ==
    ASSUME "override" \notin Features, WindowInv, [Next]_wvars
    PROVE  WindowInv'
<1> DEFINE Rest == FleetRunsActive /\ WindowNeedsActive /\ OneDeprecated
<1>0. Base /\ Base'
  BY BaseInductive DEF WindowInv
<1>1. CASE UNCHANGED wvars
  BY <1>1, <1>0 DEF wvars, WindowInv, FleetRunsActive, WindowNeedsActive, OneDeprecated,
              AtMostOne, InState
<1>2. ASSUME NEW v \in Versions,
             CreateVersion(v) \/ BeginDeploy(v) \/ AbortDeploy(v)
      PROVE Rest'
  BY <1>2, <1>0 DEF CreateVersion, BeginDeploy, AbortDeploy, WindowInv, Base, TypeOK,
              FleetRunsActive, WindowNeedsActive, OneDeprecated, AtMostOne, InState
<1>3. ASSUME NEW v \in Versions, NEW from \in FlipSources, ActivateVersion(v, from)
      PROVE Rest'
  <2>1. FleetRunsActive' /\ WindowNeedsActive'
    BY <1>3, <1>0, FlipStates
       DEF Base, ActivateVersion, FleetRunsActive, WindowNeedsActive
  <2>2. AtMostOne(Demoted(v))
    BY <1>0 DEF WindowInv, Base, OneActive, AtMostOne, InState, Demoted, FleetRunsActive
  <2>3. OneDeprecated'
    BY <1>3, <1>0, <2>2, FlipStates DEF Base, OneDeprecated, AtMostOne, InState
  <2> QED
    BY <2>1, <2>3
<1>4. ASSUME NEW v \in Versions, UpsertFleet(v) PROVE Rest'
  BY <1>4, <1>0 DEF UpsertFleet, WindowInv, FleetRunsActive, WindowNeedsActive,
                    OneDeprecated, AtMostOne, InState
<1>5. ASSUME NEW S \in SUBSET Versions,
             DisableExpiredDeprecated(S) \/ RetireVersions(S)
      PROVE Rest'
  BY <1>5, <1>0 DEF DisableExpiredDeprecated, RetireVersions, WindowInv, Base, TypeOK,
              FleetRunsActive, WindowNeedsActive, OneDeprecated, AtMostOne, InState
<1> QED
  BY <1>0, <1>1, <1>2, <1>3, <1>4, <1>5 DEF Next, WindowInv

\* When nobody repoints a fleet by hand after its first deploy, at most one
\* version is deprecated: the LIMIT 1 of DeprecatedWindowVersion and of
\* RollbackTarget has nothing to choose from.
THEOREM AtMostOneDeprecated ==
    ASSUME "override" \notin Features PROVE Spec => []OneDeprecated
<1>1. Init => WindowInv
  BY DEF Init, WindowInv, Base, TypeOK, OneActive, OnePrepulling, OneDeprecated,
         FleetRunsActive, WindowNeedsActive, AtMostOne, InState, VersionStates
<1>2. WindowInv /\ [Next]_wvars => WindowInv'
  BY WindowInductive
<1>3. WindowInv => OneDeprecated
  BY DEF WindowInv
<1> QED
  BY <1>1, <1>2, <1>3, PTL DEF Spec

LEMMA BootstrapInductive ==
    ASSUME "override" \notin Features, RunningInv, [Next]_wvars
    PROVE  RunningInv'
<1>0. "override" \notin Features /\ WindowInv /\ WindowInv' /\ TypeOK
  BY WindowInductive DEF RunningInv, WindowInv, Base
<1>1. CASE UNCHANGED wvars
  BY <1>1, <1>0 DEF wvars, RunningInv, BootstrapWaits
<1>2. ASSUME NEW v \in Versions,
             CreateVersion(v) \/ BeginDeploy(v) \/ AbortDeploy(v) \/ UpsertFleet(v)
      PROVE BootstrapWaits'
  BY <1>2, <1>0, NoVersionAssumption
     DEF CreateVersion, BeginDeploy, AbortDeploy, UpsertFleet, RunningInv,
         BootstrapWaits, TypeOK, WindowInv, WindowNeedsActive
<1>3. ASSUME NEW v \in Versions, NEW from \in FlipSources, ActivateVersion(v, from)
      PROVE BootstrapWaits'
  BY <1>3, <1>0, FlipStates DEF BootstrapWaits
<1>4. ASSUME NEW S \in SUBSET Versions, DisableExpiredDeprecated(S)
      PROVE BootstrapWaits'
  BY <1>4, <1>0 DEF DisableExpiredDeprecated, RunningInv, BootstrapWaits, TypeOK,
                    InState
<1>5. ASSUME NEW S \in SUBSET Versions, RetireVersions(S) PROVE BootstrapWaits'
  BY <1>5, <1>0 DEF RetireVersions, RunningInv, BootstrapWaits, TypeOK, InState
<1> QED
  BY <1>0, <1>1, <1>2, <1>3, <1>4, <1>5 DEF Next, RunningInv

\* Without late overrides a flip keeps the build the fleet was running in the
\* window, unless it was disabled before: its live matches are not drained at
\* once.
THEOREM FlipKeepsRunningVersion ==
    ASSUME "override" \notin Features PROVE Spec => RunningVersionKeepsWindow
<1>1. Init => RunningInv
  BY DEF Init, RunningInv, BootstrapWaits, WindowInv, Base, TypeOK, OneActive,
         OnePrepulling, OneDeprecated, FleetRunsActive, WindowNeedsActive, AtMostOne,
         InState, VersionStates
<1>2. RunningInv /\ [Next]_wvars => RunningInv'
  BY BootstrapInductive
<1>3. ASSUME RunningInv, [Next]_wvars,
             fleet' # fleet, vstate' # vstate, fleet # NoVersion,
             vstate[fleet] # "disabled"
      PROVE  vstate'[fleet] \in {"active", "deprecated"}
  <2>1. fleet \in Versions /\ TypeOK
    BY <1>3 DEF RunningInv, WindowInv, Base, TypeOK
  <2>2. PICK v \in Versions, from \in FlipSources : ActivateVersion(v, from)
    BY <1>3 DEF Next, wvars, CreateVersion, BeginDeploy, AbortDeploy, UpsertFleet,
                DisableExpiredDeprecated, RetireVersions
  <2>3. fleet # v
    BY <1>3, <2>2 DEF ActivateVersion
  <2>4. vstate[fleet] \in {"active", "registered"}
    <3>1. CASE \E u \in Versions : vstate[u] = "active"
      BY <3>1, <1>3 DEF RunningInv, WindowInv, FleetRunsActive
    <3>2. CASE \A u \in Versions : vstate[u] # "active"
      <4>1. vstate[fleet] \in {"registered", "prepulling"}
        BY <3>2, <1>3 DEF RunningInv, BootstrapWaits
      <4>2. vstate[v] = "prepulling"
        BY <2>2, <3>2, <1>3 DEF ActivateVersion, FlipSources, RunningInv, WindowInv,
                                WindowNeedsActive
      <4>3. vstate[fleet] # "prepulling"
        BY <4>2, <2>1, <2>3, <1>3 DEF RunningInv, WindowInv, Base, OnePrepulling,
                                      AtMostOne, InState
      <4> QED
        BY <4>1, <4>3
    <3> QED
      BY <3>1, <3>2
  <2>5. fleet \in Demoted(v)
    BY <2>1, <2>3, <2>4 DEF Demoted
  <2> QED
    BY <2>1, <2>2, <2>5, FlipStates
<1>4. RunningInv /\ [Next]_wvars
        => [fleet' # fleet /\ vstate' # vstate /\ fleet # NoVersion
              /\ vstate[fleet] # "disabled"
            => vstate'[fleet] \in {"active", "deprecated"}]_wvars
  BY <1>3
<1> QED
  BY <1>1, <1>2, <1>4, PTL DEF Spec, RunningVersionKeepsWindow
=============================================================================
