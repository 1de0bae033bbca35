--------------------------- MODULE VersionWindow ---------------------------
(***************************************************************************)
(* The versions table and the fleet's active_version pointer of one        *)
(* (project, environment) with one region: the state machine a deploy, a   *)
(* rollback, the TTL reaper, version retention and the operator's fleet    *)
(* override drive through src/master/internal/store.                       *)
(*                                                                         *)
(* Every action is one store transaction taken as atomic; what two such    *)
(* transactions do to each other under READ COMMITTED belongs to the       *)
(* modules of the callers.  Clocks (deprecated_at, created_at, the TTL,    *)
(* the retention rank) are nondeterministic choices.                       *)
(***************************************************************************)
CONSTANTS
    Versions,        \* version ids the environment may ever hold
    NoVersion,       \* SQL NULL in fleet_configs.active_version
    Features         \* which of AllFeatures the environment uses

ASSUME NoVersionAssumption == NoVersion \notin Versions

\* "bootstrap": PUT /v1/fleets names a registered build before the first
\* deploy; "override": it names any build at any time; "retention": the
\* environment has retention_keep > 0.
AllFeatures == {"bootstrap", "override", "retention"}

ASSUME FeaturesAssumption == Features \subseteq AllFeatures

VARIABLES
    vstate,          \* versions.state of every version id, "none": no row
    fleet            \* fleet_configs.active_version

wvars == <<vstate, fleet>>

VersionStates ==
    {"none", "registered", "prepulling", "active", "deprecated", "disabled"}

\* The states ActivateVersion is called from: a finished prepull, a rollback.
FlipSources == {"prepulling", "deprecated"}

InState(st) == {v \in Versions : vstate[v] = st}

AtMostOne(S) == \A u, v \in S : u = v

TypeOK ==
    /\ vstate \in [Versions -> VersionStates]
    /\ fleet \in Versions \cup {NoVersion}

Init ==
    /\ vstate = [v \in Versions |-> "none"]
    /\ fleet = NoVersion

-----------------------------------------------------------------------------
(* Store transactions.                                                     *)

CreateVersion(v) ==
    /\ vstate[v] = "none"
    /\ vstate' = [vstate EXCEPT ![v] = "registered"]
    /\ UNCHANGED fleet

\* Mutant: a disabled build may be deployed again.
BeginDeploy_DisabledToo(v) ==
    /\ vstate[v] \in {"registered", "deprecated", "disabled"}
    /\ InState("prepulling") = {}
    /\ vstate' = [vstate EXCEPT ![v] = "prepulling"]
    /\ UNCHANGED fleet

\* A prepulling or active version is reported back unchanged and a disabled
\* one refused, so only the two remaining states start a deploy.
BeginDeploy(v) ==
    /\ vstate[v] \in {"registered", "deprecated"}
    /\ InState("prepulling") = {}
    /\ vstate' = [vstate EXCEPT ![v] = "prepulling"]
    /\ UNCHANGED fleet

AbortDeploy(v) ==
    /\ vstate[v] = "prepulling"
    /\ vstate' = [vstate EXCEPT ![v] = "registered"]
    /\ UNCHANGED fleet

\* Mutant: only hand-pointed builds are demoted.
Demoted_RegisteredOnly(v) ==
    {u \in Versions \ {v} : vstate[u] = "registered" /\ u = fleet}

\* Mutant: the bootstrap clause is forgotten.
Demoted_ActiveOnly(v) == {u \in Versions \ {v} : vstate[u] = "active"}

\* What a flip to v demotes: the active version and a merely registered one
\* the fleet was pointed at by hand.
Demoted(v) ==
    {u \in Versions \ {v} :
        \/ vstate[u] = "active"
        \/ vstate[u] = "registered" /\ u = fleet}

\* Mutant: a flip leaves the older deprecated version where it is.
Superseded_Kept(v) == {}

\* Deprecated versions the same flip pushes out of the window.
Superseded(v) == InState("deprecated") \ (Demoted(v) \cup {v})

ActivateVersion(v, from) ==
    /\ vstate[v] = from
    /\ vstate' = [u \in Versions |->
                    CASE u = v               -> "active"
                      [] u \in Demoted(v)    -> "deprecated"
                      [] u \in Superseded(v) -> "disabled"
                      [] OTHER               -> vstate[u]]
    /\ fleet' = v

DisableExpiredDeprecated(expired) ==
    /\ expired # {} /\ expired \subseteq InState("deprecated")
    /\ vstate' = [v \in Versions |->
                    IF v \in expired THEN "disabled" ELSE vstate[v]]
    /\ UNCHANGED fleet

RetireVersions(retired) ==
    /\ "retention" \in Features
    /\ retired # {} /\ retired \subseteq InState("registered")
    /\ vstate' = [v \in Versions |->
                    IF v \in retired THEN "disabled" ELSE vstate[v]]
    /\ UNCHANGED fleet

\* PUT /v1/fleets: any version row of the environment may be named, its state
\* is not looked at.  Without "override" the operator only bootstraps: a
\* registered build, before the first deploy.
UpsertFleet(v) ==
    /\ vstate[v] # "none" /\ v # fleet
    /\ \/ "override" \in Features
       \/ /\ "bootstrap" \in Features
          /\ vstate[v] = "registered" /\ InState("active") = {}
    /\ fleet' = v
    /\ UNCHANGED vstate

Next ==
    \/ \E v \in Versions :
        \/ CreateVersion(v) \/ BeginDeploy(v) \/ AbortDeploy(v)
        \/ \E from \in FlipSources : ActivateVersion(v, from)
        \/ UpsertFleet(v)
    \/ \E S \in SUBSET Versions :
        DisableExpiredDeprecated(S) \/ RetireVersions(S)

Spec == Init /\ [][Next]_wvars

-----------------------------------------------------------------------------
(* Properties.                                                             *)

\* A flip leaves exactly one version active: the old one is demoted in the
\* same transaction (ActivateVersion).
OneActive == AtMostOne(InState("active"))

\* "Only one version per (project, env) may be prepulling" (BeginDeploy).
OnePrepulling == AtMostOne(InState("prepulling"))

\* "There is at most one by construction - older ones are disabled on flip":
\* DeprecatedWindowVersion and RollbackTarget rely on it to pick with LIMIT 1.
OneDeprecated == AtMostOne(InState("deprecated"))

\* A flip never throws the build the fleet runs out of the multi-version
\* window: it stays deprecated, so its live matches are not drained at once.
\* (A bootstrapped build that retention has disabled before is lost already.)
RunningVersionKeepsWindow ==
    [][fleet' # fleet /\ vstate' # vstate /\ fleet # NoVersion /\ vstate[fleet] # "disabled"
        => vstate'[fleet] \in {"active", "deprecated"}]_wvars

\* disabled is terminal: no deploy, abort, rollback or override brings a
\* version back whose images may already be gone from the nodes.
DisabledIsFinal ==
    [][\A v \in Versions :
        vstate[v] = "disabled" => vstate'[v] = "disabled"]_wvars
=============================================================================
