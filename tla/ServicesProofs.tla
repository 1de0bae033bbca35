--------------------------- MODULE ServicesProofs ---------------------------
(***************************************************************************)
(* Proofs about the services of the master.  A behaviour follows one part, *)
(* so an invariant of Services is one invariant per part, proved about the *)
(* part's own steps.                                                       *)
(***************************************************************************)
EXTENDS Services, FiniteSetTheorems, SequenceTheorems, TLAPS

\* A set of numbers below a bound has a greatest one.
LEMMA AGreatest ==
    ASSUME NEW n \in Nat, NEW S \in SUBSET (0 .. n), S # {}
    PROVE  \E x \in S : \A y \in S : x >= y
<1>. DEFINE Above(x) == {y \in S : y > x}
            T == {Above(x) : x \in S}
            R == StrictSubsetOrdering(S)
<1>1. IsFiniteSet(S)
  <2>1. IsFiniteSet(0 .. n)
    BY FS_Interval
  <2>. QED
    BY <2>1, FS_Subset
<1>0. S \subseteq Int
  OBVIOUS
<1>2. IsWellFoundedOn(R, FiniteSubsetsOf(S))
  BY FS_StrictSubsetOrderingWellFounded
<1>3. T \subseteq FiniteSubsetsOf(S) /\ T # {}
  <2>1. T \subseteq SUBSET S /\ T # {}
    OBVIOUS
  <2>2. FiniteSubsetsOf(S) = SUBSET S
    BY <1>1, FS_FiniteSubsetsOfFinite
  <2>. QED
    BY <2>1, <2>2
<1>4. PICK m \in T : \A k \in T : <<k, m>> \notin R
  <2>. HIDE DEF T, R
  <2>. QED
    BY <1>2, <1>3, WFMin
<1>5. PICK x \in S : m = Above(x)
  OBVIOUS
<1>6. ASSUME NEW y \in S, y > x PROVE FALSE
  <2>1. Above(y) \subseteq Above(x) /\ y \in Above(x) /\ y \notin Above(y)
    <3>1. \A z \in S : z > y => z > x
      BY <1>0, <1>6
    <3>2. ~(y > y)
      BY <1>0
    <3>. QED
      BY <1>6, <3>1, <3>2
  <2>2. <<Above(y), Above(x)>> \in R
    BY <2>1 DEF StrictSubsetOrdering
  <2>. QED
    BY <1>4, <1>5, <2>2
<1>7. \A y \in S : x >= y
  BY <1>0, <1>6
<1>. QED
  BY <1>7

-----------------------------------------------------------------------------
(* Projects and environments.                                              *)

Deletion ==
    [stage : {"no", "counted", "emptied", "stripped", "revoked"}, env : Envs \cup {"none"},
     confirm : BOOLEAN, servers : SUBSET Machines, keys : SUBSET BoundTo]

TenantTypes ==
    /\ project \in BOOLEAN /\ wiping \in BOOLEAN
    /\ envs \subseteq Envs /\ build \subseteq Envs /\ planned \subseteq Envs \X Machines
    /\ nodeRow \in [Machines -> [state : {"none", "active", "dead"}, env : Envs \cup {"none"}]]
    /\ placed \in [Machines -> Envs \cup {"none"}]
    /\ bound \in [BoundTo -> Envs \cup {"none", "revoked"}]
    /\ del \in Deletion

\* A pass plans for environments that have a build, so that it places nothing
\* in one that was empty when its deletion counted.
PlannedIsBuilt == \A p \in planned : p[1] \in build

\* The lock of a deletion: no key is bound behind its back, and an environment
\* found empty stays so.
DeletionHolds ==
    /\ del.stage # "no" => del.env \in Envs
    /\ del.stage = "revoked" => Tenants!KeysBoundTo(del.env) \subseteq del.keys
    /\ del.stage # "no" /\ ~del.confirm =>
         /\ del.env \notin build /\ del.servers = {}
         /\ Tenants!ServersOf(del.env) = {} /\ Tenants!KeysBoundTo(del.env) = {}

\* The lock of the project's deletion: no node comes to life any more.
WipingHolds == wiping => Tenants!LiveNodes = {}

NothingBroke == "node" \notin broken /\ "unconfirmed" \notin broken

TenantInv ==
    /\ TenantTypes /\ PlannedIsBuilt /\ DeletionHolds /\ WipingHolds /\ NothingBroke
    /\ Tenants!NoNodeIsOrphaned

LEMMA TenantsStart == Tenants!Init => TenantInv
<1> SUFFICES ASSUME Tenants!Init PROVE TenantInv
  OBVIOUS
<1>. USE DEF Tenants!Init
<1>1. del \in Deletion /\ del.stage = "no"
  BY DEF Tenants!NoDel, Deletion
<1>2. Tenants!LiveNodes = {}
  BY DEF Tenants!LiveNodes
<1>3. TenantTypes
  BY <1>1 DEF TenantTypes
<1>. QED
  BY <1>1, <1>2, <1>3 DEF TenantInv, PlannedIsBuilt, DeletionHolds, WipingHolds, NothingBroke,
       Tenants!NoNodeIsOrphaned

\* A statement of a deletion changes only what the transaction knows.
LEMMA DeletionKeeps ==
    ASSUME TenantInv, del' \in Deletion, DeletionHolds',
           UNCHANGED <<project, envs, nodeRow, build, placed, bound, planned, wiping, broken>>
    PROVE  TenantInv'
<1>1. TenantTypes' /\ PlannedIsBuilt' /\ NothingBroke'
  BY DEF TenantInv, TenantTypes, PlannedIsBuilt, NothingBroke, Deletion
<1>2. WipingHolds' /\ Tenants!NoNodeIsOrphaned'
  BY DEF TenantInv, WipingHolds, Tenants!NoNodeIsOrphaned, Tenants!LiveNodes
<1>. QED
  BY <1>1, <1>2 DEF TenantInv

LEMMA TenantsStep ==
    ASSUME TenantInv, Tenants!Next PROVE TenantInv'
<1>. USE ServicesAssumption DEF TenantInv, TenantTypes, PlannedIsBuilt, DeletionHolds, WipingHolds,
       NothingBroke, Tenants!NoNodeIsOrphaned, Tenants!LiveNodes, Deletion,
       Tenants!KeysBoundTo, Tenants!ServersOf, Tenants!EnsureProject, Tenants!Seeded,
       Tenants!CanRefer, Tenants!Locked
<1>1. CASE Tenants!CreateProject
  BY <1>1 DEF Tenants!CreateProject
<1>2. ASSUME NEW e \in Envs, Tenants!CreateEnvironment(e) PROVE TenantInv'
  BY <1>2 DEF Tenants!CreateEnvironment
<1>3. ASSUME NEW e \in Envs, Tenants!CreateVersion(e) PROVE TenantInv'
  BY <1>3 DEF Tenants!CreateVersion
<1>4. ASSUME NEW e \in Envs, NEW to \in Envs, Tenants!PromoteVersion(e, to) PROVE TenantInv'
  BY <1>4 DEF Tenants!PromoteVersion
<1>5. ASSUME NEW e \in Envs, NEW m \in Machines, Tenants!CreateNode(m, e) PROVE TenantInv'
  BY <1>5 DEF Tenants!CreateNode
<1>6. ASSUME NEW e \in Envs, NEW m \in Machines, Tenants!SetNodeEnv(m, e) PROVE TenantInv'
  BY <1>6 DEF Tenants!SetNodeEnv
<1>7. ASSUME NEW e \in Envs, NEW m \in Machines, Tenants!ChooseNode(e, m) PROVE TenantInv'
  BY <1>7 DEF Tenants!ChooseNode
<1>8. ASSUME NEW e \in Envs, NEW m \in Machines, Tenants!PlaceServer(e, m) PROVE TenantInv'
  BY <1>8 DEF Tenants!PlaceServer
<1>9. ASSUME NEW m \in Machines, Tenants!RevokeNode(m) PROVE TenantInv'
  BY <1>9 DEF Tenants!RevokeNode
<1>10. ASSUME NEW m \in Machines, Tenants!ServerEnds(m) PROVE TenantInv'
  BY <1>10 DEF Tenants!ServerEnds
<1>11. ASSUME NEW k \in BoundTo, NEW e \in Envs, Tenants!CreateAPIKey(k, e) PROVE TenantInv'
  BY <1>11 DEF Tenants!CreateAPIKey
<1>12. ASSUME NEW k \in BoundTo, Tenants!RevokeAPIKey(k) PROVE TenantInv'
  BY <1>12 DEF Tenants!RevokeAPIKey
<1>13. ASSUME NEW e \in Envs, NEW confirm \in BOOLEAN, Tenants!DeleteEnvironment(e, confirm)
       PROVE  TenantInv'
  <2>. DEFINE counted == [Tenants!NoDel EXCEPT !.stage = "counted", !.env = e, !.confirm = confirm]
  <2>1. /\ del' = counted
        /\ UNCHANGED <<project, envs, nodeRow, build, placed, bound, planned, wiping, broken>>
    BY <1>13 DEF Tenants!DeleteEnvironment
  <2>2. /\ counted \in Deletion /\ counted.stage = "counted" /\ counted.env = e
        /\ counted.confirm = confirm /\ counted.servers = {}
    BY DEF Tenants!NoDel
  <2>. HIDE DEF counted
  <2>3. ~confirm => e \notin build /\ Tenants!ServersOf(e) = {} /\ Tenants!KeysBoundTo(e) = {}
    BY <1>13 DEF Tenants!DeleteEnvironment, Tenants!Unused
  <2>4. del' \in Deletion
    BY <2>1, <2>2
  <2>5. DeletionHolds'
    BY <2>1, <2>2, <2>3
  <2>. QED
    BY <2>1, <2>4, <2>5, DeletionKeeps
<1>14. CASE Tenants!DropServers
  <2>. DEFINE emptied == [del EXCEPT !.stage = "emptied", !.servers = Tenants!ServersOf(del.env)]
  <2>1. /\ del.stage = "counted" /\ del' = emptied
        /\ UNCHANGED <<project, envs, nodeRow, build, placed, bound, planned, wiping, broken>>
    BY <1>14 DEF Tenants!DropServers
  <2>2. /\ emptied \in Deletion /\ emptied.stage = "emptied" /\ emptied.env = del.env
        /\ emptied.confirm = del.confirm /\ emptied.servers = Tenants!ServersOf(del.env)
    <3>. DEFINE old == del
                on == Tenants!ServersOf(del.env)
    <3>1. old \in Deletion /\ on \subseteq Machines
      OBVIOUS
    <3>2. emptied = [old EXCEPT !.stage = "emptied", !.servers = on]
      OBVIOUS
    <3>. HIDE DEF old, on, emptied
    <3>3. /\ emptied \in Deletion /\ emptied.stage = "emptied" /\ emptied.env = old.env
          /\ emptied.confirm = old.confirm /\ emptied.servers = on
      BY <3>1, <3>2 DEF Deletion
    <3>. QED
      BY <3>3 DEF old, on
  <2>. HIDE DEF emptied
  <2>3. del' \in Deletion
    BY <2>1, <2>2
  <2>4. DeletionHolds'
    BY <2>1, <2>2
  <2>. QED
    BY <2>1, <2>3, <2>4, DeletionKeeps
<1>15. CASE Tenants!DropVersions
  <2>. DEFINE stripped == [del EXCEPT !.stage = "stripped"]
  <2>1. /\ del.stage = "emptied" /\ del' \in {stripped, Tenants!NoDel}
        /\ del' = stripped => Tenants!ServersOf(del.env) \subseteq del.servers
        /\ UNCHANGED <<project, envs, nodeRow, build, placed, bound, planned, wiping, broken>>
    BY <1>15 DEF Tenants!DropVersions, Tenants!NoDel
  <2>2. del' \in Deletion
    <3>1. CASE del' = Tenants!NoDel
      BY <3>1 DEF Tenants!NoDel
    <3>2. CASE del' = stripped
      <4>. DEFINE old == del
      <4>1. old \in Deletion
        OBVIOUS
      <4>2. stripped = [old EXCEPT !.stage = "stripped"]
        OBVIOUS
      <4>. HIDE DEF old, stripped
      <4>3. stripped \in Deletion
        BY <4>1, <4>2 DEF Deletion
      <4>. QED
        BY <3>2, <4>3
    <3>. QED
      BY <2>1, <3>1, <3>2
  <2>3. DeletionHolds'
    BY <2>1 DEF Tenants!NoDel
  <2>. QED
    BY <2>1, <2>2, <2>3, DeletionKeeps
<1>16. CASE Tenants!RevokeKeys
  <2>. DEFINE revoked == [del EXCEPT !.stage = "revoked", !.keys = Tenants!KeysBoundTo(del.env)]
  <2>1. /\ del.stage = "stripped" /\ del' = revoked
        /\ UNCHANGED <<project, envs, nodeRow, build, placed, bound, planned, wiping, broken>>
    BY <1>16 DEF Tenants!RevokeKeys
  <2>2. /\ revoked \in Deletion /\ revoked.stage = "revoked" /\ revoked.env = del.env
        /\ revoked.confirm = del.confirm /\ revoked.servers = del.servers
        /\ revoked.keys = Tenants!KeysBoundTo(del.env)
    <3>. DEFINE old == del
                to == Tenants!KeysBoundTo(del.env)
    <3>1. old \in Deletion /\ to \subseteq BoundTo
      OBVIOUS
    <3>2. revoked = [old EXCEPT !.stage = "revoked", !.keys = to]
      OBVIOUS
    <3>. HIDE DEF old, to, revoked
    <3>3. /\ revoked \in Deletion /\ revoked.stage = "revoked" /\ revoked.env = old.env
          /\ revoked.confirm = old.confirm /\ revoked.servers = old.servers /\ revoked.keys = to
      BY <3>1, <3>2 DEF Deletion
    <3>. QED
      BY <3>3 DEF old, to
  <2>. HIDE DEF revoked
  <2>3. del' \in Deletion
    BY <2>1, <2>2
  <2>4. DeletionHolds'
    BY <2>1, <2>2
  <2>. QED
    BY <2>1, <2>3, <2>4, DeletionKeeps
<1>17. CASE Tenants!CommitDelete
  <2>. DEFINE e == del.env
  <2>0. /\ del.stage = "revoked" /\ ~wiping /\ ~wiping' /\ del' = Tenants!NoDel
        /\ UNCHANGED <<project, nodeRow, wiping>> /\ e \in Envs
    BY <1>17 DEF Tenants!CommitDelete
  <2>1. Tenants!NoDel \in Deletion /\ Tenants!NoDel.stage = "no"
    BY DEF Tenants!NoDel
  <2>2. CASE Tenants!NodesOf(e) # {}
    <3>1. UNCHANGED <<project, envs, nodeRow, build, placed, bound, planned, wiping, broken>>
      BY <1>17, <2>0, <2>2 DEF Tenants!CommitDelete
    <3>2. DeletionHolds'
      BY <2>0, <2>1
    <3>. QED
      BY <2>0, <2>1, <3>1, <3>2, DeletionKeeps
  <2>3. CASE Tenants!NodesOf(e) = {}
    <3>1. /\ envs' = envs \ {e} /\ build' = build \ {e} /\ planned' = {p \in planned : p[1] # e}
          /\ placed' = [m \in Machines |-> IF m \in del.servers /\ placed[m] = e
                                           THEN "none" ELSE placed[m]]
          /\ bound' = [k \in BoundTo |-> IF bound[k] # e THEN bound[k]
                                         ELSE IF k \in del.keys THEN "revoked" ELSE "global"]
          /\ broken' \subseteq broken \cup {"server"}
                \cup (IF Tenants!Taken(e) /\ ~del.confirm THEN {"unconfirmed"} ELSE {})
      BY <1>17, <2>3 DEF Tenants!CommitDelete
    <3>2. \A k \in BoundTo : bound[k] = e => k \in del.keys
      BY <2>0
    <3>3. bound' \in [BoundTo -> Envs \cup {"none", "revoked"}]
      BY <3>1, <3>2
    <3>4. placed' \in [Machines -> Envs \cup {"none"}]
      BY <3>1
    <3>5. TenantTypes'
      BY <2>0, <2>1, <3>1, <3>3, <3>4
    <3>6. PlannedIsBuilt' /\ WipingHolds' /\ DeletionHolds'
      BY <2>0, <2>1, <3>1
    <3>7. ~del.confirm => ~Tenants!Taken(e)
      BY <2>0 DEF Tenants!Taken
    <3>8. NothingBroke'
      BY <3>1, <3>7
    <3>9. Tenants!NoNodeIsOrphaned'
      BY <2>0, <2>3, <3>1, <3>8 DEF Tenants!NodesOf
    <3>. QED
      BY <3>5, <3>6, <3>8, <3>9
  <2>. QED
    BY <2>2, <2>3
<1>18. CASE Tenants!DeleteProject
  BY <1>18 DEF Tenants!DeleteProject
<1>19. CASE Tenants!CommitProject
  BY <1>19 DEF Tenants!CommitProject
<1>20. CASE Tenants!BreakDeadlock
  <2>1. Tenants!NoDel \in Deletion /\ Tenants!NoDel.stage = "no"
    BY DEF Tenants!NoDel
  <2>2. del' \in {del, Tenants!NoDel} /\ wiping' \in {wiping, FALSE}
        /\ UNCHANGED <<project, envs, nodeRow, build, placed, bound, planned, broken>>
    BY <1>20 DEF Tenants!BreakDeadlock
  <2>3. Tenants!LiveNodes' = Tenants!LiveNodes
    BY <2>2
  <2>4. TenantTypes'
    BY <2>1, <2>2
  <2>5. PlannedIsBuilt' /\ NothingBroke' /\ Tenants!NoNodeIsOrphaned'
    BY <2>2
  <2>7. WipingHolds'
    <3>1. wiping' => wiping
      BY <2>2
    <3>. HIDE DEF Tenants!LiveNodes
    <3>. QED
      BY <3>1, <2>3
  <2>6. DeletionHolds'
    BY <2>1, <2>2
  <2>. QED
    BY <2>4, <2>5, <2>6, <2>7
<1>. QED
  <2> HIDE DEF TenantInv
  <2> QED BY <1>1, <1>2, <1>3, <1>4, <1>5, <1>6, <1>7, <1>8, <1>9, <1>10, <1>11, <1>12, <1>13,
     <1>14, <1>15, <1>16, <1>17, <1>18, <1>19, <1>20 DEF Tenants!Next

-----------------------------------------------------------------------------
(* API keys.                                                               *)

AccessTypes ==
    /\ keyRow \in [Keys -> {"none", "active", "revoked", "purged"}]
    /\ revoking \in [Keys -> {"no", "counted", "flush"}]
    /\ verifying \subseteq Keys \X Creds!Purposes /\ streams \subseteq Creds!Streams
    /\ cached \subseteq Keys /\ sessions \subseteq Keys

\* The memory is cleared after the row is gone; a key is looked up in the table
\* only when the cache does not know it.
FlushFollows ==
    /\ \A k \in Keys : revoking[k] = "flush" => keyRow[k] \in {"revoked", "purged"}
    /\ \A k \in Keys : <<k, "bearer">> \in verifying => k \notin cached

\* Who is still verifying a key whose revocation is answered was overtaken by the
\* flush, and has left nothing yet.
OvertakenAreKnown ==
    \A k \in Keys : Creds!Answered(k) =>
        /\ \A p \in Creds!Purposes : <<k, p>> \in verifying => <<k, p>> \in overtaken
        /\ <<k, "login">> \in verifying => k \notin sessions

AccessInv == AccessTypes /\ FlushFollows /\ OvertakenAreKnown /\ Creds!RevokedIsShutOut

LEMMA AccessStart == Creds!Init => AccessInv
BY DEF Creds!Init, Creds!Streams, AccessInv, AccessTypes, FlushFollows, OvertakenAreKnown,
       Creds!RevokedIsShutOut, Creds!Answered, Creds!Known

LEMMA AccessStep ==
    ASSUME AccessInv, Creds!Next PROVE AccessInv'
<1>. USE DEF AccessInv, AccessTypes, FlushFollows, OvertakenAreKnown,
       Creds!RevokedIsShutOut, Creds!Answered, Creds!Known, Creds!Purposes,
       Creds!Streams, Creds!ActiveKeys, Creds!Stage, Creds!AccessFault, Creds!ghosts
<1>1. ASSUME NEW k \in Keys, Creds!CreateAPIKey(k) PROVE AccessInv'
  BY <1>1 DEF Creds!CreateAPIKey
<1>2. ASSUME NEW k \in Keys, Creds!LockKey(k) PROVE AccessInv'
  BY <1>2 DEF Creds!LockKey
<1>3. ASSUME NEW k \in Keys, Creds!RevokeAPIKey(k) PROVE AccessInv'
  BY <1>3 DEF Creds!RevokeAPIKey
<1>4. ASSUME NEW k \in Keys, Creds!RevokeBoundKey(k) PROVE AccessInv'
  BY <1>4 DEF Creds!RevokeBoundKey
<1>5. ASSUME NEW k \in Keys, Creds!PurgeAPIKey(k) PROVE AccessInv'
  BY <1>5 DEF Creds!PurgeAPIKey
<1>6. ASSUME NEW k \in Keys, Creds!InvalidateKey(k) PROVE AccessInv'
  BY <1>6 DEF Creds!InvalidateKey, Creds!KeptSessions
<1>7. ASSUME NEW k \in Keys, Creds!CacheExpires(k) PROVE AccessInv'
  BY <1>7 DEF Creds!CacheExpires
<1>8. ASSUME NEW k \in Keys, Creds!SessionEnds(k) PROVE AccessInv'
  BY <1>8 DEF Creds!SessionEnds
<1>9. ASSUME NEW k \in Keys, NEW p \in Creds!Purposes, Creds!AuthAPIKey(k, p) PROVE AccessInv'
  BY <1>9 DEF Creds!AuthAPIKey
<1>10. ASSUME NEW k \in Keys, NEW p \in Creds!Purposes, Creds!Remember(k, p) PROVE AccessInv'
  BY <1>10 DEF Creds!Remember
<1>11. ASSUME NEW s \in Creds!Streams, Creds!OpenStream(s) PROVE AccessInv'
  BY <1>11 DEF Creds!OpenStream
<1>12. ASSUME NEW s \in Creds!Streams, Creds!PollStream(s) PROVE AccessInv'
  BY <1>12 DEF Creds!PollStream, Creds!StillValid
<1>13. ASSUME NEW s \in Creds!Streams, Creds!Disconnect(s) PROVE AccessInv'
  BY <1>13 DEF Creds!Disconnect
<1>14. CASE Creds!MasterRestart
  BY <1>14 DEF Creds!MasterRestart
<1>. HIDE DEF AccessInv
<1>. QED
  BY <1>1, <1>2, <1>3, <1>4, <1>5, <1>6, <1>7, <1>8, <1>9, <1>10, <1>11, <1>12, <1>13, <1>14
     DEF Creds!Next

-----------------------------------------------------------------------------
(* The probe of the metrics upstream.                                      *)

Asking == [at : {"idle", "waiting", "probing", "forward"}, path : Probe!PathNos, crossed : BOOLEAN]

ProbeTypes ==
    /\ upstream \in [Probe!PathNos -> Probe!Kinds] /\ held \in [Probe!PathNos -> Nat]
    /\ verdict \in {"unknown", "honoured", "ignored", "unreachable"} /\ fresh \in 0 .. OkTicks
    /\ ask \in [Queriers -> Asking]
    /\ mutex \in Queriers \cup {"none"}
    /\ probe \in [path : {0} \cup Probe!PathNos, control : BOOLEAN]
    /\ belated \in BOOLEAN

\* The querier with the mutex probes, and no other does.
OneProbes ==
    /\ \A q \in Queriers : ask[q].at = "probing" <=> mutex = q
    /\ mutex # "none" => probe.path \in Probe!PathNos

\* A path that swallows the argument has done so for at most n ticks.
SwallowsFor(c, n) == upstream[c] = "swallows" => held[c] <= n

Crossed(q) == IF ask[q].crossed THEN 1 ELSE 0

\* How long the paths seen to parse may have been swallowing since, for a probe
\* under way, for a cached verdict and for a query on its way out.
SeenLately ==
    /\ mutex # "none" => \A c \in Probe!PathNos :
         c < probe.path \/ (c = probe.path /\ probe.control) => SwallowsFor(c, Crossed(mutex))
    /\ (verdict = "honoured" /\ fresh > 0) =>
         \A c \in Probe!PathNos : SwallowsFor(c, OkTicks - fresh + 1)
    /\ \A q \in Queriers : ask[q].at = "forward" =>
         \A c \in Probe!PathNos : SwallowsFor(c, OkTicks + Crossed(q))

\* A cached refusal is of this tick: a path did not parse then, and none has
\* been parsing since before it.
RefusalIsFresh ==
    (verdict \in {"ignored", "unreachable"} /\ fresh > 0) =>
        /\ fresh <= Probe!FailTicks
        /\ \E c \in Probe!PathNos : upstream[c] # "parses" \/ held[c] = 0

ProbeInv == ProbeTypes /\ OneProbes /\ SeenLately /\ RefusalIsFresh /\ Probe!VerdictIsRecent

LEMMA ProbeStart == Probe!Init => ProbeInv
<1>. SUFFICES ASSUME Probe!Init PROVE ProbeInv
  OBVIOUS
<1>. USE ServicesAssumption DEF Probe!Init
<1>1. ask \in [Queriers -> Asking] /\ \A q \in Queriers : ask[q].at = "idle"
  BY DEF Probe!Quiet, Asking, Probe!PathNos
<1>2. probe \in [path : {0} \cup Probe!PathNos, control : BOOLEAN]
  BY DEF Probe!NoProbe
<1>3. upstream \in [Probe!PathNos -> Probe!Kinds]
  BY DEF Probe!Kinds
<1>4. ProbeTypes
  <2>1. held \in [Probe!PathNos -> Nat] /\ fresh \in 0 .. OkTicks
    OBVIOUS
  <2>2. verdict = "unknown" /\ mutex = "none" /\ belated = FALSE
    OBVIOUS
  <2>. HIDE DEF Probe!Init
  <2>. QED
    BY <1>1, <1>2, <1>3, <2>1, <2>2 DEF ProbeTypes
<1>5. mutex \notin Queriers /\ verdict = "unknown" /\ ~belated
  OBVIOUS
<1>6. OneProbes /\ SeenLately /\ RefusalIsFresh /\ Probe!VerdictIsRecent
  BY <1>1, <1>5 DEF OneProbes, SeenLately, RefusalIsFresh, Probe!VerdictIsRecent
<1>. QED
  BY <1>4, <1>6 DEF ProbeInv

\* A step of one querier: what it has to leave true for the invariant to hold.
LEMMA AskStep ==
    ASSUME ProbeInv, NEW q \in Queriers, UNCHANGED <<upstream, held>>, belated' = FALSE,
           ask' \in [Queriers -> Asking], \A p \in Queriers \ {q} : ask'[p] = ask[p],
           mutex' = mutex \/ (mutex \in {"none", q} /\ mutex' \in {"none", q}),
           ask'[q].at = "probing" <=> mutex' = q,
           probe' \in [path : {0} \cup Probe!PathNos, control : BOOLEAN],
           mutex' \notin {"none", q} => probe' = probe,
           mutex' = q =>
               /\ probe'.path \in Probe!PathNos
               /\ \A c \in Probe!PathNos : c < probe'.path \/ (c = probe'.path /\ probe'.control)
                     => SwallowsFor(c, IF ask'[q].crossed THEN 1 ELSE 0),
           ask'[q].at = "forward" =>
               \A c \in Probe!PathNos : SwallowsFor(c, OkTicks + (IF ask'[q].crossed THEN 1 ELSE 0)),
           verdict' \in {"unknown", "honoured", "ignored", "unreachable"},
           fresh' \in 0 .. OkTicks,
           (verdict' = "honoured" /\ fresh' > 0) =>
               \A c \in Probe!PathNos : SwallowsFor(c, OkTicks - fresh' + 1),
           (verdict' \in {"ignored", "unreachable"} /\ fresh' > 0) =>
               /\ fresh' <= Probe!FailTicks
               /\ \E c \in Probe!PathNos : upstream[c] # "parses" \/ held[c] = 0
    PROVE  ProbeInv'
<1>1. ProbeTypes /\ OneProbes /\ SeenLately
  BY DEF ProbeInv
<1>2. mutex' \in Queriers \cup {"none"}
  BY <1>1 DEF ProbeTypes
<1>3. ProbeTypes'
  BY <1>1, <1>2 DEF ProbeTypes, Probe!PathNos
<1>4. OneProbes'
  <2>1. ASSUME NEW p \in Queriers PROVE ask'[p].at = "probing" <=> mutex' = p
    BY <1>1, <2>1, ServicesAssumption DEF OneProbes
  <2>2. ASSUME mutex' # "none" PROVE probe'.path \in Probe!PathNos
    BY <1>1, <2>2 DEF OneProbes
  <2>. QED
    BY <2>1, <2>2 DEF OneProbes, Probe!PathNos
<1>5. SeenLately'
  <2>1. ASSUME NEW c \in Probe!PathNos, mutex' # "none",
               c < probe'.path \/ (c = probe'.path /\ probe'.control)
        PROVE  SwallowsFor(c, Crossed(mutex))'
    <3>1. CASE mutex' = q
      BY <2>1, <3>1 DEF SwallowsFor, Crossed
    <3>2. CASE mutex' # q
      <4>1. probe' = probe /\ mutex' = mutex /\ mutex \in Queriers \ {q}
        BY <1>2, <2>1, <3>2
      <4>2. ask'[mutex] = ask[mutex] /\ SwallowsFor(c, Crossed(mutex))
        BY <1>1, <2>1, <4>1 DEF SeenLately
      <4>. QED
        BY <4>1, <4>2 DEF SwallowsFor, Crossed
    <3>. QED
      BY <3>1, <3>2
  <2>2. ASSUME NEW c \in Probe!PathNos, verdict' = "honoured", fresh' > 0
        PROVE  SwallowsFor(c, OkTicks - fresh + 1)'
    BY <2>2 DEF SwallowsFor
  <2>3. ASSUME NEW c \in Probe!PathNos, NEW p \in Queriers, ask'[p].at = "forward"
        PROVE  SwallowsFor(c, OkTicks + Crossed(p))'
    <3>1. CASE p = q
      BY <2>3, <3>1 DEF SwallowsFor, Crossed
    <3>2. CASE p # q
      BY <1>1, <2>3, <3>2 DEF SeenLately, SwallowsFor, Crossed
    <3>. QED
      BY <3>1, <3>2
  <2>. QED
    BY <2>1, <2>2, <2>3 DEF SeenLately, Probe!PathNos
<1>6. RefusalIsFresh' /\ Probe!VerdictIsRecent'
  BY DEF RefusalIsFresh, Probe!VerdictIsRecent, Probe!PathNos, Probe!FailTicks
<1>. QED
  BY <1>3, <1>4, <1>5, <1>6 DEF ProbeInv

\* What After leaves of the querier: a query on its way out, or nothing, and a
\* refusal is not belated while a path does not parse.
LEMMA AfterVerdict ==
    ASSUME ProbeInv, NEW q \in Queriers, NEW v, Probe!After(q, v),
           v # "honoured" => \E c \in Probe!PathNos : upstream[c] # "parses" \/ held[c] = 0
    PROVE  /\ ask' \in [Queriers -> Asking] /\ \A p \in Queriers \ {q} : ask'[p] = ask[p]
           /\ ask'[q].at \in {"idle", "forward"} /\ ~ask'[q].crossed
           /\ ask'[q].at = "forward" => v = "honoured"
           /\ belated' = FALSE
<1>1. ask \in [Queriers -> Asking] /\ belated = FALSE
  BY DEF ProbeInv, ProbeTypes, Probe!VerdictIsRecent
<1>2. CASE v = "honoured"
  <2>1. ask' = [ask EXCEPT ![q].at = "forward", ![q].crossed = FALSE] /\ belated' = FALSE
    BY <1>1, <1>2 DEF Probe!After
  <2>2. /\ ask'[q] = [ask[q] EXCEPT !.at = "forward", !.crossed = FALSE]
        /\ \A p \in Queriers \ {q} : ask'[p] = ask[p] /\ ask'[p] \in Asking
    BY <1>1, <2>1
  <2>3. ask'[q].at = "forward" /\ ask'[q].crossed = FALSE /\ ask'[q] \in Asking
    BY <1>1, <2>2 DEF Asking
  <2>4. DOMAIN ask' = Queriers /\ ask' = [p \in Queriers |-> ask'[p]]
    BY <1>1, <2>1
  <2>. QED
    BY <1>2, <2>1, <2>2, <2>3, <2>4
<1>3. CASE v # "honoured"
  <2>1. Probe!Refused(q)
    BY <1>3 DEF Probe!After
  <2>2. Probe!Quiet \in Asking /\ Probe!Quiet.at = "idle" /\ ~Probe!Quiet.crossed
    BY ServicesAssumption DEF Probe!Quiet, Asking, Probe!PathNos
  <2>3. ask' = [ask EXCEPT ![q] = Probe!Quiet]
    BY <2>1 DEF Probe!Refused
  <2>4. belated' = FALSE
    <3>1. PICK c \in Probe!PathNos : upstream[c] # "parses" \/ held[c] = 0
      BY <1>3
    <3>2. ~(\A d \in Probe!PathNos : upstream[d] = "parses" /\ held[d] >= Probe!FailTicks)
      BY <3>1 DEF Probe!FailTicks
    <3>. QED
      BY <1>1, <2>1, <3>2 DEF Probe!Refused
  <2>. HIDE DEF Probe!Quiet
  <2>. QED
    BY <1>1, <2>2, <2>3, <2>4
<1>. QED
  BY <1>2, <1>3

\* A probe that ends: the verdict it caches and hands to its querier.
LEMMA SettleKeeps ==
    ASSUME ProbeInv, NEW q \in Queriers, NEW v \in {"honoured", "ignored", "unreachable"},
           Probe!Settle(q, v), mutex = q, UNCHANGED <<upstream, held>>,
           v = "honoured" => \A c \in Probe!PathNos : SwallowsFor(c, 1),
           v # "honoured" => \E c \in Probe!PathNos : upstream[c] # "parses"
    PROVE  ProbeInv'
<1>1. /\ verdict' = v /\ fresh' = (IF v = "honoured" THEN OkTicks ELSE 1)
      /\ mutex' = "none" /\ probe' = Probe!NoProbe /\ Probe!After(q, v)
  BY DEF Probe!Settle, Probe!FailTicks
<1>2. /\ ask' \in [Queriers -> Asking] /\ \A p \in Queriers \ {q} : ask'[p] = ask[p]
      /\ ask'[q].at \in {"idle", "forward"} /\ ~ask'[q].crossed
      /\ ask'[q].at = "forward" => v = "honoured"
      /\ belated' = FALSE
  BY <1>1, AfterVerdict
<1>3. probe' \in [path : {0} \cup Probe!PathNos, control : BOOLEAN]
  BY <1>1 DEF Probe!NoProbe
<1>4. fresh' \in 0 .. OkTicks /\ (v # "honoured" => fresh' <= Probe!FailTicks)
  BY <1>1, ServicesAssumption DEF Probe!FailTicks
<1>5. held \in [Probe!PathNos -> Nat]
  BY DEF ProbeInv, ProbeTypes
<1>6. v = "honoured" => \A c \in Probe!PathNos : /\ SwallowsFor(c, OkTicks - fresh' + 1)
                                                 /\ SwallowsFor(c, OkTicks + 0)
  BY <1>1, <1>5, ServicesAssumption DEF SwallowsFor
<1>7. "none" # q
  BY ServicesAssumption
<1>8. ask'[q].at = "forward" =>
        \A c \in Probe!PathNos : SwallowsFor(c, OkTicks + (IF ask'[q].crossed THEN 1 ELSE 0))
  BY <1>2, <1>6
<1>. HIDE DEF Probe!PathNos, Asking, SwallowsFor
<1>. QED
  BY <1>1, <1>2, <1>3, <1>4, <1>6, <1>7, <1>8, AskStep

\* A probe that goes on to its next question.
LEMMA ProbeGoesOn ==
    ASSUME ProbeInv, NEW q \in Queriers, mutex = q,
           UNCHANGED <<upstream, held, verdict, fresh, ask, mutex, belated>>,
           probe' \in [path : Probe!PathNos, control : BOOLEAN],
           \A c \in Probe!PathNos : c < probe'.path \/ (c = probe'.path /\ probe'.control) =>
               c < probe.path \/ (c = probe.path /\ probe.control) \/ upstream[c] # "swallows"
    PROVE  ProbeInv'
<1>1. ProbeTypes /\ OneProbes /\ SeenLately /\ RefusalIsFresh /\ Probe!VerdictIsRecent
  BY DEF ProbeInv
<1>2. probe' \in [path : {0} \cup Probe!PathNos, control : BOOLEAN] /\ probe'.path \in Probe!PathNos
  OBVIOUS
<1>3. ProbeTypes'
  BY <1>1, <1>2 DEF ProbeTypes, Probe!PathNos
<1>4. OneProbes' /\ RefusalIsFresh' /\ Probe!VerdictIsRecent'
  BY <1>1, <1>2 DEF OneProbes, RefusalIsFresh, Probe!VerdictIsRecent, Probe!PathNos
<1>5. \A c \in Probe!PathNos : c < probe'.path \/ (c = probe'.path /\ probe'.control)
         => SwallowsFor(c, Crossed(mutex))
  BY <1>1, ServicesAssumption DEF SeenLately, SwallowsFor
<1>6. SeenLately'
  BY <1>1, <1>5 DEF SeenLately, SwallowsFor, Crossed, Probe!PathNos
<1>. QED
  BY <1>3, <1>4, <1>6 DEF ProbeInv

LEMMA TickKeepsProbe ==
    ASSUME ProbeInv, Probe!Tick PROVE ProbeInv'
<1>1. /\ upstream \in [Probe!PathNos -> Probe!Kinds] /\ held \in [Probe!PathNos -> Nat]
      /\ ask \in [Queriers -> Asking] /\ fresh \in 0 .. OkTicks
  BY DEF ProbeInv, ProbeTypes
<1>2. UNCHANGED <<upstream, verdict, mutex, probe, belated, swaps>>
  BY DEF Probe!Tick
<1>3. \A c \in Probe!PathNos : held'[c] \in Nat /\ held'[c] <= held[c] + 1
  <2>. DEFINE cap == Probe!Cap
              numbers == Probe!PathNos
  <2>1. cap \in Nat
    BY ServicesAssumption DEF Probe!Cap
  <2>2. held' = [c \in numbers |-> IF held[c] < cap THEN held[c] + 1 ELSE cap]
    BY DEF Probe!Tick
  <2>3. held \in [numbers -> Nat]
    BY <1>1
  <2>. HIDE DEF cap, numbers
  <2>4. \A c \in numbers : held'[c] \in Nat /\ held'[c] <= held[c] + 1
    <3>. SUFFICES ASSUME NEW c \in numbers PROVE held'[c] \in Nat /\ held'[c] <= held[c] + 1
      OBVIOUS
    <3>1. held[c] \in Nat /\ held'[c] = IF held[c] < cap THEN held[c] + 1 ELSE cap
      BY <2>2, <2>3
    <3>. QED
      BY <2>1, <3>1
  <2>. QED
    BY <2>4 DEF numbers
<1>4. held' \in [Probe!PathNos -> Nat]
  BY <1>3 DEF Probe!Tick
<1>5. \A q \in Queriers :
        /\ ask'[q].at = ask[q].at /\ ask'[q] \in Asking
        /\ ask[q].at \in {"probing", "forward"} => ~ask[q].crossed /\ ask'[q].crossed
  <2>. SUFFICES ASSUME NEW q \in Queriers
                PROVE  /\ ask'[q].at = ask[q].at /\ ask'[q] \in Asking
                       /\ ask[q].at \in {"probing", "forward"} => ~ask[q].crossed /\ ask'[q].crossed
    OBVIOUS
  <2>. DEFINE b == ask[q].at \in {"probing", "forward"}
  <2>1. ask[q] \in Asking /\ ask'[q] = [ask[q] EXCEPT !.crossed = b] /\ b \in BOOLEAN
    BY <1>1 DEF Probe!Tick
  <2>2. b => ~ask[q].crossed
    BY DEF Probe!Tick
  <2>. HIDE DEF b
  <2>3. ask'[q] \in Asking /\ ask'[q].at = ask[q].at /\ ask'[q].crossed = b
    BY <2>1 DEF Asking
  <2>. QED
    BY <2>2, <2>3 DEF b
<1>6. ask' \in [Queriers -> Asking]
  BY <1>5 DEF Probe!Tick
<1>t. fresh \in Nat /\ OkTicks \in Nat /\ verdict' = verdict
  BY <1>1, <1>2, ServicesAssumption
<1>f. fresh' = IF fresh > 0 THEN fresh - 1 ELSE 0
  BY DEF Probe!Tick
<1>7. fresh' \in 0 .. OkTicks /\ fresh' \in Nat
  BY <1>1, <1>t, <1>f
<1>g. ASSUME fresh' > 0 PROVE fresh > 1 /\ fresh' = fresh - 1
  <2>1. CASE fresh > 0
    BY <1>t, <1>f, <1>g, <2>1
  <2>2. CASE ~(fresh > 0)
    BY <1>t, <1>f, <1>g, <2>2
  <2>. QED
    BY <2>1, <2>2
<1>8. ProbeTypes'
  BY <1>2, <1>4, <1>6, <1>7 DEF ProbeInv, ProbeTypes, Probe!PathNos
<1>9. OneProbes' /\ Probe!VerdictIsRecent'
  BY <1>2, <1>5 DEF ProbeInv, OneProbes, Probe!VerdictIsRecent, Probe!PathNos
<1>10. RefusalIsFresh'
  <2>1. (verdict \in {"ignored", "unreachable"} /\ fresh > 0) => fresh <= 1
    BY DEF ProbeInv, RefusalIsFresh, Probe!FailTicks
  <2>2. ASSUME verdict \in {"ignored", "unreachable"}, fresh' > 0 PROVE FALSE
    <3>1. fresh > 1
      BY <1>g, <2>2
    <3>. QED
      BY <1>t, <2>1, <2>2, <3>1
  <2>. QED
    BY <1>t, <2>2 DEF RefusalIsFresh, Probe!PathNos, Probe!FailTicks
<1>11. SeenLately'
  <2>0. SeenLately /\ OneProbes /\ mutex \in Queriers \cup {"none"}
    BY DEF ProbeInv, ProbeTypes
  <2>1. ASSUME NEW c \in Probe!PathNos, mutex' # "none",
               c < probe'.path \/ (c = probe'.path /\ probe'.control)
        PROVE  SwallowsFor(c, Crossed(mutex))'
    <3>1. mutex \in Queriers /\ ask[mutex].at = "probing"
      BY <1>2, <2>0, <2>1 DEF OneProbes
    <3>2. SwallowsFor(c, Crossed(mutex))
      BY <1>2, <2>0, <2>1 DEF SeenLately
    <3>3. Crossed(mutex) = 0 /\ Crossed(mutex)' = 1
      BY <1>2, <1>5, <3>1 DEF Crossed
    <3>4. SwallowsFor(c, 0)
      BY <3>2, <3>3
    <3>5. (upstream[c] = "swallows" => held[c] <= 0) /\ held[c] \in Nat
      BY <1>1, <3>4 DEF SwallowsFor
    <3>6. held'[c] \in Nat /\ held'[c] <= held[c] + 1 /\ upstream' = upstream
      BY <1>2, <1>3
    <3>7. upstream'[c] = "swallows" => held'[c] <= 1
      BY <3>5, <3>6
    <3>. QED
      BY <3>3, <3>7 DEF SwallowsFor
  <2>2. ASSUME NEW c \in Probe!PathNos, verdict' = "honoured", fresh' > 0
        PROVE  SwallowsFor(c, OkTicks - fresh + 1)'
    <3>0. fresh' = fresh - 1 /\ fresh > 0 /\ verdict = "honoured"
      BY <1>t, <1>g, <2>2
    <3>1. SwallowsFor(c, OkTicks - fresh + 1)
      BY <2>0, <3>0 DEF SeenLately
    <3>2. /\ held[c] \in Nat /\ held'[c] \in Nat /\ held'[c] <= held[c] + 1
          /\ fresh' \in Nat /\ upstream' = upstream
      BY <1>1, <1>2, <1>3, <1>7
    <3>3. upstream[c] = "swallows" => held[c] <= OkTicks - fresh + 1
      BY <3>1 DEF SwallowsFor
    <3>4. upstream'[c] = "swallows" => held'[c] <= OkTicks - (fresh - 1) + 1
      BY <1>t, <3>2, <3>3
    <3>. QED
      BY <3>0, <3>4 DEF SwallowsFor
  <2>3. ASSUME NEW c \in Probe!PathNos, NEW q \in Queriers, ask'[q].at = "forward"
        PROVE  SwallowsFor(c, OkTicks + Crossed(q))'
    <3>1. ask[q].at = "forward" /\ Crossed(q) = 0 /\ Crossed(q)' = 1
      BY <1>5, <2>3 DEF Crossed
    <3>2. SwallowsFor(c, OkTicks + 0)
      BY <2>0, <3>1 DEF SeenLately
    <3>. QED
      BY <1>1, <1>2, <1>3, <3>1, <3>2, ServicesAssumption DEF SwallowsFor
  <2>. QED
    BY <2>1, <2>2, <2>3 DEF SeenLately, Probe!PathNos
<1>. QED
  BY <1>8, <1>9, <1>10, <1>11 DEF ProbeInv

LEMMA ProbeStep ==
    ASSUME ProbeInv, Probe!Next PROVE ProbeInv'
<1>0. /\ ProbeTypes /\ OneProbes /\ SeenLately /\ RefusalIsFresh /\ Probe!VerdictIsRecent
      /\ ask \in [Queriers -> Asking] /\ belated = FALSE /\ "none" \notin Queriers
  BY ServicesAssumption DEF ProbeInv, ProbeTypes, Probe!VerdictIsRecent
<1>1. CASE Probe!Tick
  BY <1>1, TickKeepsProbe
<1>2. ASSUME NEW c \in Probe!PathNos, NEW kind \in Probe!Kinds, Probe!Swap(c, kind) PROVE ProbeInv'
  <2>1. /\ UNCHANGED <<verdict, fresh, ask, mutex, probe, belated>>
        /\ upstream' = [upstream EXCEPT ![c] = kind] /\ held' = [held EXCEPT ![c] = 0]
    BY <1>2 DEF Probe!Swap
  <2>2. /\ upstream' \in [Probe!PathNos -> Probe!Kinds] /\ held' \in [Probe!PathNos -> Nat]
        /\ held'[c] = 0 /\ \A d \in Probe!PathNos \ {c} : upstream'[d] = upstream[d] /\ held'[d] = held[d]
    BY <1>0, <2>1 DEF ProbeTypes
  <2>3. ProbeTypes'
    BY <1>0, <2>1, <2>2 DEF ProbeTypes, Probe!PathNos
  <2>4. OneProbes' /\ Probe!VerdictIsRecent'
    BY <1>0, <2>1 DEF OneProbes, Probe!VerdictIsRecent, Probe!PathNos
  <2>5. RefusalIsFresh'
    BY <1>0, <2>1, <2>2 DEF RefusalIsFresh, Probe!PathNos
  <2>6. \A d \in Probe!PathNos, n \in Nat : SwallowsFor(d, n) => SwallowsFor(d, n)'
    BY <2>2 DEF SwallowsFor
  <2>7. /\ \A q \in Queriers : Crossed(q)' = Crossed(q) /\ Crossed(q) \in Nat
        /\ \A q \in Queriers : OkTicks + Crossed(q) \in Nat
        /\ OkTicks - fresh + 1 \in Nat /\ mutex \in Queriers \cup {"none"}
    BY <1>0, <2>1, ServicesAssumption DEF Crossed, ProbeTypes
  <2>8. SeenLately'
    <3>. HIDE DEF Probe!PathNos, Crossed, SwallowsFor
    <3>1. ASSUME NEW d \in Probe!PathNos, mutex' # "none",
                 d < probe'.path \/ (d = probe'.path /\ probe'.control)
          PROVE  SwallowsFor(d, Crossed(mutex))'
      <4>1. SwallowsFor(d, Crossed(mutex)) /\ mutex \in Queriers
        BY <1>0, <2>1, <2>7, <3>1 DEF SeenLately
      <4>2. SwallowsFor(d, Crossed(mutex)) => (upstream'[d] = "swallows" => held'[d] <= Crossed(mutex))
        BY <2>6, <2>7, <4>1 DEF SwallowsFor
      <4>. QED
        BY <2>1, <2>7, <4>1, <4>2 DEF SwallowsFor
    <3>2. ASSUME NEW d \in Probe!PathNos, verdict' = "honoured", fresh' > 0
          PROVE  SwallowsFor(d, OkTicks - fresh + 1)'
      <4>1. SwallowsFor(d, OkTicks - fresh + 1)
        BY <1>0, <2>1, <3>2 DEF SeenLately
      <4>. QED
        BY <2>1, <2>2, <2>7, <4>1 DEF SwallowsFor
    <3>3. ASSUME NEW d \in Probe!PathNos, NEW q \in Queriers, ask'[q].at = "forward"
          PROVE  SwallowsFor(d, OkTicks + Crossed(q))'
      <4>1. SwallowsFor(d, OkTicks + Crossed(q))
        BY <1>0, <2>1, <3>3 DEF SeenLately
      <4>. QED
        BY <2>1, <2>2, <2>7, <4>1 DEF SwallowsFor
    <3>. QED
      BY <3>1, <3>2, <3>3 DEF SeenLately, Probe!PathNos
  <2>. QED
    BY <2>3, <2>4, <2>5, <2>8 DEF ProbeInv
<1>3. ASSUME NEW q \in Queriers, NEW c \in Probe!PathNos, Probe!Query(q, c) PROVE ProbeInv'
  <2>. DEFINE a == [Probe!Quiet EXCEPT !.at = "waiting", !.path = c]
  <2>1. /\ ask[q].at = "idle" /\ ask' = [ask EXCEPT ![q] = a]
        /\ UNCHANGED <<upstream, held, verdict, fresh, mutex, probe, belated>>
    BY <1>3 DEF Probe!Query
  <2>2. a \in Asking /\ a.at = "waiting"
    BY DEF Probe!Quiet, Asking
  <2>. HIDE DEF a
  <2>3. /\ ask' \in [Queriers -> Asking] /\ ask'[q].at = "waiting"
        /\ \A p \in Queriers \ {q} : ask'[p] = ask[p]
    BY <1>0, <2>1, <2>2
  <2>4. mutex # q
    BY <1>0, <2>1 DEF OneProbes
  <2>. QED
    BY <1>0, <2>1, <2>3, <2>4, AskStep DEF ProbeTypes, SeenLately, RefusalIsFresh
<1>4. ASSUME NEW q \in Queriers, Probe!Check(q) PROVE ProbeInv'
  <2>1. ask[q].at = "waiting" /\ mutex = "none" /\ UNCHANGED <<upstream, held, verdict, fresh>>
    BY <1>4 DEF Probe!Check
  <2>2. CASE Probe!Kept
    <3>1. Probe!After(q, verdict) /\ UNCHANGED <<mutex, probe>>
      BY <1>4, <2>2 DEF Probe!Check
    <3>2. fresh > 0 /\ fresh \in 0 .. OkTicks /\ verdict \in {"honoured", "ignored", "unreachable"}
      BY <1>0, <2>2 DEF Probe!Kept, ProbeTypes
    <3>3. verdict # "honoured" => \E c \in Probe!PathNos : upstream[c] # "parses" \/ held[c] = 0
      BY <1>0, <3>2 DEF RefusalIsFresh
    <3>4. /\ ask' \in [Queriers -> Asking] /\ \A p \in Queriers \ {q} : ask'[p] = ask[p]
          /\ ask'[q].at \in {"idle", "forward"} /\ ~ask'[q].crossed
          /\ ask'[q].at = "forward" => verdict = "honoured"
          /\ belated' = FALSE
      BY <3>1, <3>3, AfterVerdict
    <3>5. ask'[q].at = "forward" => \A c \in Probe!PathNos : SwallowsFor(c, OkTicks + 0)
      <4>. SUFFICES ASSUME ask'[q].at = "forward", NEW c \in Probe!PathNos
                    PROVE  SwallowsFor(c, OkTicks + 0)
        OBVIOUS
      <4>1. SwallowsFor(c, OkTicks - fresh + 1)
        BY <1>0, <3>2, <3>4 DEF SeenLately
      <4>2. held[c] \in Nat
        BY <1>0 DEF ProbeTypes
      <4>. QED
        BY <3>2, <4>1, <4>2, ServicesAssumption DEF SwallowsFor
    <3>6. ask'[q].at = "forward" =>
            \A c \in Probe!PathNos : SwallowsFor(c, OkTicks + (IF ask'[q].crossed THEN 1 ELSE 0))
      BY <3>4, <3>5
    <3>. HIDE DEF Probe!PathNos, Asking, SwallowsFor
    <3>. QED
      BY <1>0, <2>1, <3>1, <3>4, <3>6, AskStep DEF ProbeTypes, SeenLately, RefusalIsFresh
  <2>3. CASE ~Probe!Kept
    <3>1. /\ mutex' = q /\ probe' = [path |-> 1, control |-> FALSE]
          /\ ask' = [ask EXCEPT ![q].at = "probing", ![q].crossed = FALSE] /\ belated' = FALSE
      BY <1>0, <1>4, <2>3 DEF Probe!Check
    <3>2. ask'[q] = [ask[q] EXCEPT !.at = "probing", !.crossed = FALSE]
          /\ \A p \in Queriers \ {q} : ask'[p] = ask[p] /\ ask'[p] \in Asking
      BY <1>0, <3>1
    <3>3. ask'[q].at = "probing" /\ ask'[q] \in Asking
      BY <1>0, <3>2 DEF Asking
    <3>4. DOMAIN ask' = Queriers /\ ask' = [p \in Queriers |-> ask'[p]]
      BY <1>0, <3>1
    <3>5. ask' \in [Queriers -> Asking]
      BY <3>2, <3>3, <3>4
    <3>6. 1 \in Probe!PathNos /\ \A c \in Probe!PathNos : ~(c < 1)
      BY ServicesAssumption DEF Probe!PathNos
    <3>7. /\ probe' \in [path : {0} \cup Probe!PathNos, control : BOOLEAN]
          /\ probe'.path = 1 /\ ~probe'.control
      BY <3>1, <3>6
    <3>. HIDE DEF Probe!PathNos, Asking, SwallowsFor
    <3>. QED
      BY <1>0, <2>1, <3>1, <3>2, <3>3, <3>5, <3>6, <3>7, AskStep
         DEF ProbeTypes, SeenLately, RefusalIsFresh
  <2>. QED
    BY <2>2, <2>3
<1>5. ASSUME NEW q \in Queriers, Probe!Canary(q) PROVE ProbeInv'
  <2>1. mutex = q /\ ~probe.control /\ UNCHANGED <<upstream, held>> /\ q # "none"
    BY <1>0, <1>5 DEF Probe!Canary
  <2>2. probe.path \in Probe!PathNos /\ probe \in [path : {0} \cup Probe!PathNos, control : BOOLEAN]
    BY <1>0, <2>1 DEF OneProbes, ProbeTypes
  <2>3. CASE upstream[probe.path] = "down"
    <3>1. Probe!Settle(q, "unreachable")
      BY <1>5, <2>3 DEF Probe!Canary
    <3>. QED
      BY <2>1, <2>2, <2>3, <3>1, SettleKeeps
  <2>4. CASE upstream[probe.path] = "swallows"
    <3>1. Probe!Settle(q, "ignored")
      BY <1>5, <2>4 DEF Probe!Canary
    <3>. QED
      BY <2>1, <2>2, <2>4, <3>1, SettleKeeps
  <2>5. CASE upstream[probe.path] \notin {"down", "swallows"}
    <3>1. /\ probe' = [probe EXCEPT !.control = TRUE]
          /\ UNCHANGED <<verdict, fresh, ask, mutex, belated>>
      BY <1>5, <2>5 DEF Probe!Canary
    <3>2. probe'.path = probe.path /\ probe' \in [path : Probe!PathNos, control : BOOLEAN]
      BY <2>2, <3>1
    <3>3. \A c \in Probe!PathNos : c < probe'.path \/ (c = probe'.path /\ probe'.control) =>
            c < probe.path \/ (c = probe.path /\ probe.control) \/ upstream[c] # "swallows"
      BY <2>5, <3>2
    <3>. QED
      BY <2>1, <3>1, <3>2, <3>3, ProbeGoesOn
  <2>. QED
    BY <2>3, <2>4, <2>5
<1>6. ASSUME NEW q \in Queriers, Probe!Control(q) PROVE ProbeInv'
  <2>1. mutex = q /\ probe.control /\ UNCHANGED <<upstream, held>> /\ q # "none"
    BY <1>0, <1>6 DEF Probe!Control
  <2>2. probe.path \in Probe!PathNos /\ probe \in [path : {0} \cup Probe!PathNos, control : BOOLEAN]
    BY <1>0, <2>1 DEF OneProbes, ProbeTypes
  <2>3. CASE upstream[probe.path] \in {"down", "denies"}
    <3>1. Probe!Settle(q, "unreachable")
      BY <1>6, <2>3 DEF Probe!Control
    <3>2. upstream[probe.path] # "parses"
      BY <2>3
    <3>. QED
      BY <2>1, <2>2, <3>1, <3>2, SettleKeeps
  <2>4. CASE upstream[probe.path] \notin {"down", "denies"} /\ Probe!LastPath
    <3>1. Probe!Settle(q, "honoured")
      BY <1>6, <2>4 DEF Probe!Control
    <3>2. \A c \in Probe!PathNos : c < probe.path \/ (c = probe.path /\ probe.control)
      BY <2>1, <2>4, ServicesAssumption DEF Probe!LastPath, Probe!PathNos
    <3>3. \A c \in Probe!PathNos : SwallowsFor(c, Crossed(mutex))
      BY <1>0, <2>1, <3>2 DEF SeenLately
    <3>4. held \in [Probe!PathNos -> Nat] /\ Crossed(mutex) \in {0, 1}
      BY <1>0 DEF ProbeTypes, Crossed
    <3>5. \A c \in Probe!PathNos : SwallowsFor(c, 1)
      BY <3>3, <3>4 DEF SwallowsFor
    <3>. HIDE DEF SwallowsFor
    <3>. QED
      BY <2>1, <3>1, <3>5, SettleKeeps
  <2>5. CASE upstream[probe.path] \notin {"down", "denies"} /\ ~Probe!LastPath
    <3>1. /\ probe' = [path |-> probe.path + 1, control |-> FALSE]
          /\ UNCHANGED <<verdict, fresh, ask, mutex, belated>>
      BY <1>6, <2>5 DEF Probe!Control
    <3>2. probe.path + 1 \in Probe!PathNos /\ probe.path \in Nat
      BY <2>2, <2>5, ServicesAssumption DEF Probe!LastPath, Probe!PathNos
    <3>3. /\ probe'.path = probe.path + 1 /\ ~probe'.control
          /\ probe' \in [path : Probe!PathNos, control : BOOLEAN]
      BY <3>1, <3>2
    <3>4. \A c \in Probe!PathNos : c < probe.path + 1 => c < probe.path \/ c = probe.path
      BY <3>2 DEF Probe!PathNos
    <3>. QED
      BY <2>1, <3>1, <3>3, <3>4, ProbeGoesOn
  <2>. QED
    BY <2>3, <2>4, <2>5
<1>7. ASSUME NEW q \in Queriers, Probe!Forward(q) PROVE ProbeInv'
  <2>1. /\ ask[q].at = "forward" /\ ask' = [ask EXCEPT ![q] = Probe!Quiet]
        /\ UNCHANGED <<upstream, held, verdict, fresh, mutex, probe>>
    BY <1>7 DEF Probe!Forward
  <2>2. belated' = FALSE
    <3>1. ask[q].path \in Probe!PathNos /\ held[ask[q].path] \in Nat /\ Crossed(q) \in {0, 1}
      BY <1>0 DEF ProbeTypes, Asking, Crossed
    <3>2. SwallowsFor(ask[q].path, OkTicks + Crossed(q))
      BY <1>0, <2>1, <3>1 DEF SeenLately
    <3>3. ~(upstream[ask[q].path] = "swallows" /\ held[ask[q].path] > OkTicks + 1)
      BY <3>1, <3>2, ServicesAssumption DEF SwallowsFor
    <3>. QED
      BY <1>0, <1>7, <3>3 DEF Probe!Forward
  <2>3. Probe!Quiet \in Asking /\ Probe!Quiet.at = "idle"
    BY ServicesAssumption DEF Probe!Quiet, Asking, Probe!PathNos
  <2>. HIDE DEF Probe!Quiet
  <2>4. /\ ask' \in [Queriers -> Asking] /\ ask'[q].at = "idle"
        /\ \A p \in Queriers \ {q} : ask'[p] = ask[p]
    BY <1>0, <2>1, <2>3
  <2>5. mutex # q
    BY <1>0, <2>1 DEF OneProbes
  <2>. QED
    BY <1>0, <2>1, <2>2, <2>4, <2>5, AskStep DEF ProbeTypes, SeenLately, RefusalIsFresh
<1>. QED
  BY <1>1, <1>2, <1>3, <1>4, <1>5, <1>6, <1>7 DEF Probe!Next

-----------------------------------------------------------------------------
(* The credentials of the agent link.                                      *)

Cert == [ca : Nat, n : Nat, born : Nat]
Exchanges ==
    [pc : {"no", "asked", "answered", "keyed", "certed", "skipped"}, renewal : BOOLEAN, cert : Cert]
Connections == [up : BOOLEAN, cert : Cert, fellBack : BOOLEAN]

EnrolTypes ==
    /\ master \in [Servants -> {"down", "none", "found", "up"}]
    /\ trusted \in [Servants -> SUBSET {1}]
    /\ recorded \in Nat /\ day \in Nat /\ key \in Nat /\ crt \in Cert
    /\ enrolling \in Exchanges /\ conn \in Connections

\* There is one CA: a master that found none looks again under the lock.
OneAuthority ==
    /\ caRows \in {{}, {1}}
    /\ \A s \in Servants : master[s] \in {"found", "up"} => caRows = {1}
    /\ \A s \in Certs!Running : trusted[s] = {1}
    /\ \A c \in {crt, conn.cert, enrolling.cert} : c # Certs!NoCert => c.ca = 1

\* Every certificate is recorded before the agent hears of it.
RecordedFirst ==
    /\ issued = recorded
    /\ key <= recorded /\ crt.n <= recorded /\ enrolling.cert.n <= recorded

EnrolInv == EnrolTypes /\ OneAuthority /\ RecordedFirst

LEMMA EnrolStart == Certs!Init => EnrolInv
BY DEF Certs!Init, EnrolInv, EnrolTypes, OneAuthority, RecordedFirst, Cert, Exchanges,
       Connections, Certs!NoCert,
       Certs!NoConn, Certs!Idle, Certs!Running

\* What the connection and the exchange may become without disturbing the rest:
\* their certificates are ones the node already had to do with.
LEMMA ExchangeKeeps ==
    ASSUME EnrolInv, UNCHANGED <<caRows, master, trusted, recorded, day, issued, key, crt>>,
           enrolling' \in Exchanges, conn' \in Connections,
           enrolling'.cert \in {Certs!NoCert, enrolling.cert},
           conn'.cert \in {Certs!NoCert, conn.cert, crt}
    PROVE  EnrolInv'
<1>1. EnrolTypes /\ OneAuthority /\ RecordedFirst
  BY DEF EnrolInv
<1>2. EnrolTypes'
  BY <1>1 DEF EnrolTypes, Cert, Exchanges, Connections
<1>3. OneAuthority'
  BY <1>1 DEF OneAuthority, Certs!Running, Certs!NoCert
<1>4. RecordedFirst'
  <2>1. Certs!NoCert.n = 0 /\ recorded \in Nat
    BY <1>1 DEF Certs!NoCert, EnrolTypes
  <2>2. enrolling'.cert.n <= recorded
    BY <1>1, <2>1 DEF RecordedFirst
  <2>. QED
    BY <1>1, <2>2 DEF RecordedFirst
<1>. QED
  BY <1>2, <1>3, <1>4 DEF EnrolInv

\* What a master that starts, serves or stops may do.
LEMMA MasterKeeps ==
    ASSUME EnrolInv, UNCHANGED <<recorded, day, issued, key, crt, enrolling, conn>>,
           master' \in [Servants -> {"down", "none", "found", "up"}],
           trusted' \in [Servants -> SUBSET {1}], caRows \subseteq caRows', caRows' \in {{}, {1}},
           \A s \in Servants : master'[s] \in {"found", "up"} => caRows' = {1},
           \A s \in Servants : master'[s] = "up" => trusted'[s] = {1}
    PROVE  EnrolInv'
BY DEF EnrolInv, EnrolTypes, OneAuthority, RecordedFirst, Cert, Exchanges, Connections,
       Certs!Running, Certs!NoCert

LEMMA EnrolStep ==
    ASSUME EnrolInv, Certs!Next PROVE EnrolInv'
<1>0. /\ EnrolTypes /\ OneAuthority /\ RecordedFirst
      /\ enrolling \in Exchanges /\ conn \in Connections /\ Certs!NoCert \in Cert /\ crt \in Cert
      /\ master \in [Servants -> {"down", "none", "found", "up"}]
      /\ trusted \in [Servants -> SUBSET {1}] /\ caRows \in {{}, {1}}
      /\ \A s \in Servants : master[s] \in {"found", "up"} => caRows = {1}
      /\ \A s \in Servants : master[s] = "up" => trusted[s] = {1}
  BY DEF EnrolInv, EnrolTypes, OneAuthority, Certs!NoCert, Cert, Certs!Running
<1>a. Certs!Idle \in Exchanges /\ Certs!Idle.cert = Certs!NoCert /\ Certs!NoConn \in Connections
      /\ Certs!NoConn.cert = Certs!NoCert
  BY <1>0 DEF Certs!Idle, Certs!NoConn, Exchanges, Connections
<1>1. ASSUME NEW s \in Servants, Certs!LookForCA(s) PROVE EnrolInv'
  BY <1>0, <1>1, MasterKeeps
     DEF Certs!LookForCA, Certs!Come, Certs!recordVars, Certs!agentVars
<1>2. ASSUME NEW s \in Servants, Certs!EnsureInternalCA(s) PROVE EnrolInv'
  BY <1>0, <1>2, MasterKeeps
     DEF Certs!EnsureInternalCA, Certs!ToCreate, Certs!Come, Certs!recordVars, Certs!agentVars
<1>3. ASSUME NEW s \in Servants, Certs!Serve(s) PROVE EnrolInv'
  BY <1>0, <1>3, MasterKeeps DEF Certs!Serve, Certs!Come, Certs!recordVars, Certs!agentVars
<1>4. ASSUME NEW s \in Servants, Certs!MasterStops(s) PROVE EnrolInv'
  BY <1>0, <1>4, MasterKeeps DEF Certs!MasterStops, Certs!Come, Certs!recordVars
<1>5. ASSUME NEW m \in Certs!Modes, Certs!SetMode(m) PROVE EnrolInv'
  BY <1>0, <1>5, MasterKeeps DEF Certs!SetMode
<1>6. CASE Certs!RevokeNode
  BY <1>0, <1>6, MasterKeeps DEF Certs!RevokeNode, Certs!masterVars, Certs!agentVars
<1>7. CASE Certs!DayPasses
  BY <1>0, <1>7 DEF Certs!DayPasses, Certs!masterVars, Certs!recordVars, Certs!agentVars,
     EnrolInv, EnrolTypes, OneAuthority, RecordedFirst, Certs!Running, Certs!NoCert, Exchanges,
     Connections, Cert
<1>8. CASE Certs!AcquireTransport
  <2>1. UNCHANGED <<caRows, master, trusted, recorded, day, issued, key, crt>>
    BY <1>8 DEF Certs!AcquireTransport, Certs!masterVars, Certs!recordVars
  <2>2. CASE key = crt.n /\ Certs!Valid(crt)
    <3>1. conn' = [up |-> TRUE, cert |-> crt, fellBack |-> FALSE] /\ enrolling' = enrolling
      BY <1>8, <2>2 DEF Certs!AcquireTransport
    <3>2. conn' \in Connections /\ conn'.cert = crt
      BY <1>0, <3>1 DEF Connections
    <3>. QED
      BY <1>0, <2>1, <3>1, <3>2, ExchangeKeeps
  <2>3. CASE ~(key = crt.n /\ Certs!Valid(crt))
    <3>1. conn' = conn /\ enrolling' = [Certs!Idle EXCEPT !.pc = "asked"]
      BY <1>8, <2>3 DEF Certs!AcquireTransport
    <3>2. enrolling' \in Exchanges /\ enrolling'.cert = Certs!NoCert
      BY <1>0, <3>1 DEF Certs!Idle, Exchanges
    <3>. QED
      BY <1>0, <2>1, <3>1, <3>2, ExchangeKeeps
  <2>. QED
    BY <2>2, <2>3
<1>9. ASSUME NEW s \in Servants, Certs!AskRenewal(s) PROVE EnrolInv'
  <2>1. UNCHANGED <<caRows, master, trusted, recorded, day, issued, key, crt, conn>>
    BY <1>9 DEF Certs!AskRenewal, Certs!masterVars, Certs!recordVars
  <2>2. enrolling' \in Exchanges /\ enrolling'.cert = Certs!NoCert
    BY <1>0, <1>9 DEF Certs!AskRenewal, Exchanges
  <2>. QED
    BY <1>0, <2>1, <2>2, ExchangeKeeps
<1>10. ASSUME NEW s \in Servants, Certs!Enroll(s) PROVE EnrolInv'
  <2>1. caRows = {1}
    BY <1>0, <1>10 DEF Certs!Enroll, Certs!Running
  <2>2. Certs!Newest({1}) = 1
    BY DEF Certs!Newest
  <2>. DEFINE c == [ca |-> Certs!Newest(caRows), n |-> issued', born |-> day]
  <2>3. /\ issued' = issued + 1 /\ recorded' = issued + 1
        /\ enrolling' = [enrolling EXCEPT !.pc = "answered", !.cert = c]
        /\ UNCHANGED <<caRows, master, trusted, day, key, crt, conn>>
    BY <1>10 DEF Certs!Enroll, Certs!masterVars
  <2>4. issued \in Nat /\ issued = recorded /\ day \in Nat
    BY <1>0 DEF RecordedFirst, EnrolTypes
  <2>5. c = [ca |-> 1, n |-> issued + 1, born |-> day]
    BY <2>1, <2>2, <2>3
  <2>6. c \in Cert /\ c.ca = 1 /\ c.n = issued + 1
    BY <2>4, <2>5 DEF Cert
  <2>. HIDE DEF c
  <2>7. enrolling' \in Exchanges /\ enrolling'.cert = c
    BY <1>0, <2>3, <2>6 DEF Exchanges
  <2>8. EnrolTypes'
    BY <1>0, <2>3, <2>4, <2>7 DEF EnrolTypes, Exchanges, Connections, Cert
  <2>9. OneAuthority'
    BY <1>0, <2>1, <2>3, <2>6, <2>7 DEF OneAuthority, Certs!Running, Certs!NoCert
  <2>10. RecordedFirst'
    <3>1. key \in Nat /\ crt.n \in Nat
      BY <1>0 DEF EnrolTypes, Cert
    <3>2. key <= recorded /\ crt.n <= recorded
      BY <1>0 DEF RecordedFirst
    <3>3. key' <= recorded' /\ crt'.n <= recorded'
      BY <2>3, <2>4, <3>1, <3>2
    <3>4. enrolling'.cert.n <= recorded'
      BY <2>3, <2>4, <2>6, <2>7
    <3>. QED
      BY <2>3, <3>3, <3>4 DEF RecordedFirst
  <2>. QED
    BY <2>8, <2>9, <2>10 DEF EnrolInv
<1>11. CASE Certs!EnrollFails
  <2>1. UNCHANGED <<caRows, master, trusted, recorded, day, issued, key, crt, conn>>
    BY <1>11 DEF Certs!EnrollFails, Certs!masterVars, Certs!recordVars
  <2>. DEFINE skipped == [Certs!Idle EXCEPT !.pc = "skipped"]
  <2>2. enrolling' = IF enrolling.renewal THEN skipped ELSE Certs!Idle
    BY <1>11 DEF Certs!EnrollFails
  <2>3. skipped \in Exchanges /\ skipped.cert = Certs!NoCert
    BY <1>0, <1>a DEF Certs!Idle, Exchanges
  <2>. HIDE DEF skipped
  <2>4. enrolling' \in Exchanges /\ enrolling'.cert = Certs!NoCert
    BY <1>a, <2>2, <2>3
  <2>. QED
    BY <1>0, <2>1, <2>4, ExchangeKeeps
<1>12. CASE Certs!WriteKey
  <2>1. /\ key' = enrolling.cert.n /\ enrolling' = [enrolling EXCEPT !.pc = "keyed"]
        /\ UNCHANGED <<caRows, master, trusted, recorded, day, issued, crt, conn>>
    BY <1>12 DEF Certs!WriteKey, Certs!masterVars, Certs!recordVars
  <2>2. enrolling' \in Exchanges /\ enrolling'.cert = enrolling.cert /\ enrolling.cert \in Cert
    BY <1>0, <2>1 DEF Exchanges
  <2>3. enrolling.cert.n \in Nat
    BY <2>2 DEF Cert
  <2>4. EnrolTypes'
    BY <1>0, <2>1, <2>2, <2>3 DEF EnrolTypes, Exchanges, Connections, Cert
  <2>5. OneAuthority' /\ RecordedFirst'
    BY <1>0, <2>1, <2>2 DEF OneAuthority, RecordedFirst, Certs!Running, Certs!NoCert
  <2>. QED
    BY <2>4, <2>5 DEF EnrolInv
<1>13. CASE Certs!WriteCert
  <2>1. /\ crt' = enrolling.cert /\ enrolling' = [enrolling EXCEPT !.pc = "certed"]
        /\ UNCHANGED <<caRows, master, trusted, recorded, day, issued, key, conn>>
    BY <1>13 DEF Certs!WriteCert, Certs!masterVars, Certs!recordVars
  <2>2. enrolling' \in Exchanges /\ enrolling'.cert = enrolling.cert /\ enrolling.cert \in Cert
    BY <1>0, <2>1 DEF Exchanges
  <2>3. EnrolTypes'
    BY <1>0, <2>1, <2>2 DEF EnrolTypes, Exchanges, Connections, Cert
  <2>4. OneAuthority' /\ RecordedFirst'
    BY <1>0, <2>1, <2>2 DEF OneAuthority, RecordedFirst, Certs!Running, Certs!NoCert
  <2>. QED
    BY <2>3, <2>4 DEF EnrolInv
<1>18. CASE Certs!WriteBundle
  <2>1. /\ enrolling' = Certs!Idle
        /\ conn' \in {Certs!NoConn, [up |-> TRUE, cert |-> enrolling.cert, fellBack |-> FALSE]}
        /\ UNCHANGED <<caRows, master, trusted, recorded, day, issued, key, crt>>
    BY <1>18 DEF Certs!WriteBundle, Certs!masterVars, Certs!recordVars
  <2>. DEFINE dialled == [up |-> TRUE, cert |-> enrolling.cert, fellBack |-> FALSE]
  <2>a. enrolling.cert \in Cert
    BY <1>0 DEF Exchanges
  <2>b. dialled \in Connections /\ dialled.cert = enrolling.cert
    BY <2>a DEF Connections
  <2>c. conn' \in {Certs!NoConn, dialled}
    BY <2>1
  <2>. HIDE DEF dialled
  <2>2. /\ enrolling.cert \in Cert /\ conn' \in Connections
        /\ conn'.cert \in {Certs!NoCert, enrolling.cert}
    BY <1>a, <2>a, <2>b, <2>c
  <2>3. EnrolTypes'
    BY <1>0, <1>a, <2>1, <2>2 DEF EnrolTypes, Exchanges, Connections, Cert
  <2>4. OneAuthority'
    BY <1>0, <1>a, <2>1, <2>2 DEF OneAuthority, Certs!Running, Certs!NoCert
  <2>5. RecordedFirst'
    <3>1. Certs!NoCert.n = 0 /\ recorded \in Nat
      BY <1>0 DEF Certs!NoCert, EnrolTypes
    <3>. QED
      BY <1>0, <1>a, <2>1, <3>1 DEF RecordedFirst
  <2>. QED
    BY <2>3, <2>4, <2>5 DEF EnrolInv
<1>14. CASE Certs!AgentRestarts
  BY <1>0, <1>14, <1>a, ExchangeKeeps
     DEF Certs!AgentRestarts, Certs!masterVars, Certs!recordVars
<1>15. ASSUME NEW s \in Servants, Certs!Hello(s) PROVE EnrolInv'
  <2>1. /\ enrolling' = Certs!Idle
        /\ UNCHANGED <<caRows, master, trusted, recorded, day, issued, key, crt>>
    BY <1>15 DEF Certs!Hello, Certs!masterVars, Certs!recordVars
  <2>2. conn' = conn \/ conn' = [conn EXCEPT !.fellBack = TRUE]
    BY <1>15 DEF Certs!Hello, Certs!FallsBack
  <2>3. conn' \in Connections /\ conn'.cert = conn.cert
    BY <1>0, <2>2 DEF Connections
  <2>. QED
    BY <1>0, <1>a, <2>1, <2>3, ExchangeKeeps
<1>16. CASE Certs!NextCheck
  BY <1>0, <1>16, <1>a, ExchangeKeeps DEF Certs!NextCheck, Certs!masterVars, Certs!recordVars
<1>17. CASE Certs!SessionBreaks
  BY <1>0, <1>17, MasterKeeps DEF Certs!SessionBreaks, Certs!masterVars, Certs!recordVars
<1>. QED
  BY <1>1, <1>2, <1>3, <1>4, <1>5, <1>6, <1>7, <1>8, <1>9, <1>10, <1>11, <1>12, <1>13, <1>14,
     <1>15, <1>16, <1>17, <1>18 DEF Certs!Next, Certs!MasterSteps, Certs!AgentSteps

-----------------------------------------------------------------------------
(* Backups.                                                                *)

Jobs ==
    [pc : {"none", "begin", "dump", "s3", "ok", "fail"}, id : Nat,
     kind : {"none", "manual", "scheduled"}, s3 : BOOLEAN]

BackupTypes ==
    /\ runs \in [Backups!Runs -> {"none", "running", "ok", "error"}]
    /\ backupJob \in [Masters -> Jobs] /\ s3Enabled \in BOOLEAN

\* While its session lives, the lock is held by the master whose run is under
\* way, so that there is one, and the history has its row.
LockCoversRun ==
    ~lockLost => \A m \in Masters :
        /\ backupJob[m].pc # "none" => lock = m
        /\ backupJob[m].pc \in {"dump", "s3", "ok"} =>
             backupJob[m].id \in Backups!Runs /\ runs[backupJob[m].id] = "running"

BackupInv == BackupTypes /\ LockCoversRun

\* The dump of run r is on a disk, or enough newer ones are.
Restorable(r) ==
    \E m \in Masters : \/ r \in dumps[m]
                       \/ Backups!Cardinality({x \in dumps[m] : x > r}) >= RetentionLocal

DumpsKept ==
    /\ dumps \in [Masters -> SUBSET Backups!Runs]
    /\ \A m \in Masters : backupJob[m].pc \in {"dump", "s3", "ok"} => backupJob[m].id \in Backups!Runs
    /\ \A m \in Masters : backupJob[m].pc \in {"s3", "ok"} => Restorable(backupJob[m].id)
    /\ \A r \in Backups!Runs : runs[r] = "ok" => Restorable(r)

LEMMA BackupsStart == Backups!Init => BackupInv /\ DumpsKept
BY DEF Backups!Init, DumpsKept, BackupInv, BackupTypes, LockCoversRun, Backups!NoJob, Backups!NoRun, Jobs

\* A step of the run of one master, which has the lock or takes it.
LEMMA RunKeeps ==
    ASSUME BackupInv, NEW m \in Masters, UNCHANGED <<lockLost, s3Enabled>>,
           runs' \in [Backups!Runs -> {"none", "running", "ok", "error"}],
           backupJob' \in [Masters -> Jobs], \A n \in Masters \ {m} : backupJob'[n] = backupJob[n],
           ~lockLost => lock \in {m, "free"},
           ~lockLost /\ backupJob'[m].pc # "none" => lock' = m,
           ~lockLost /\ backupJob'[m].pc \in {"dump", "s3", "ok"} =>
               backupJob'[m].id \in Backups!Runs /\ runs'[backupJob'[m].id] = "running"
    PROVE  BackupInv'
<1>1. BackupTypes'
  BY DEF BackupInv, BackupTypes, Backups!Runs, Jobs
<1>2. ASSUME ~lockLost, NEW n \in Masters \ {m} PROVE backupJob'[n].pc = "none"
  BY <1>2, ServicesAssumption DEF BackupInv, LockCoversRun
<1>3. LockCoversRun'
  <2>. SUFFICES ASSUME ~lockLost, NEW n \in Masters
                PROVE  /\ backupJob'[n].pc # "none" => lock' = n
                       /\ backupJob'[n].pc \in {"dump", "s3", "ok"} =>
                            backupJob'[n].id \in Backups!Runs /\ runs'[backupJob'[n].id] = "running"
    BY DEF LockCoversRun, Backups!Runs
  <2>1. CASE n = m
    BY <2>1
  <2>2. CASE n # m
    BY <1>2, <2>2
  <2>. QED
    BY <2>1, <2>2
<1>. QED
  BY <1>1, <1>3 DEF BackupInv

LEMMA NoRunMoves ==
    ASSUME BackupInv, UNCHANGED <<runs, backupJob, lock, lockLost>>, s3Enabled' \in BOOLEAN
    PROVE  BackupInv'
BY DEF BackupInv, BackupTypes, LockCoversRun, Backups!Runs, Jobs

LEMMA BackupsStep ==
    ASSUME BackupInv, Backups!Next PROVE BackupInv'
<1>0. /\ runs \in [Backups!Runs -> {"none", "running", "ok", "error"}]
      /\ backupJob \in [Masters -> Jobs] /\ s3Enabled \in BOOLEAN
      /\ \A m \in Masters : ~lockLost /\ backupJob[m].pc # "none" => lock = m
      /\ \A m \in Masters : ~lockLost /\ backupJob[m].pc \in {"dump", "s3", "ok"} =>
           backupJob[m].id \in Backups!Runs /\ runs[backupJob[m].id] = "running"
      /\ "free" \notin Masters /\ Backups!NoJob \in Jobs /\ Backups!NoJob.pc = "none"
  BY ServicesAssumption DEF BackupInv, BackupTypes, LockCoversRun, Backups!NoJob, Backups!NoRun, Jobs
<1>. USE DEF Backups!table, Backups!files, Backups!config, Backups!local, Backups!bounds
<1>1. ASSUME NEW m \in Masters, Backups!SweepStuck(m) PROVE BackupInv'
  <2>1. UNCHANGED <<backupJob, lock, lockLost, s3Enabled>>
    BY <1>1 DEF Backups!SweepStuck
  <2>2. runs' \in [Backups!Runs -> {"none", "running", "ok", "error"}]
    BY <1>0, <1>1 DEF Backups!SweepStuck, Backups!SweepStuckBackupRuns
  <2>3. ~lockLost /\ runs' # runs => \A n \in Masters : backupJob[n].pc = "none"
    BY <1>0, <1>1 DEF Backups!SweepStuck, Backups!SweepAllowed, Backups!Free
  <2>4. BackupTypes'
    BY <1>0, <2>1, <2>2 DEF BackupTypes, Backups!Runs, Jobs
  <2>5. LockCoversRun'
    BY <1>0, <2>1, <2>3 DEF LockCoversRun, Backups!Runs
  <2>. QED
    BY <2>4, <2>5 DEF BackupInv
<1>2. ASSUME NEW m \in Masters, Backups!MaybeRun(m) \/ Backups!SkipBusy(m) \/ Backups!BackoffEnds(m)
      PROVE  BackupInv'
  BY <1>0, <1>2, NoRunMoves DEF Backups!MaybeRun, Backups!SkipBusy, Backups!BackoffEnds
<1>3. ASSUME NEW m \in Masters, NEW kind \in {"manual", "scheduled"}, NEW ok \in BOOLEAN,
             Backups!Acquire(m, kind, ok)
      PROVE  BackupInv'
  <2>1. UNCHANGED <<runs, lockLost, s3Enabled>>
    BY <1>3 DEF Backups!Acquire
  <2>2. CASE ok /\ lock = "free"
    <3>. DEFINE begun == [Backups!NoJob EXCEPT !.pc = "begin", !.kind = kind]
    <3>1. lock' = m /\ backupJob' = [backupJob EXCEPT ![m] = begun]
      BY <1>3, <2>2 DEF Backups!Acquire, Backups!Free
    <3>2. begun \in Jobs /\ begun.pc = "begin"
      BY <1>0 DEF Backups!NoJob, Backups!NoRun, Jobs
    <3>. HIDE DEF begun
    <3>3. backupJob' \in [Masters -> Jobs] /\ backupJob'[m].pc = "begin"
          /\ \A n \in Masters \ {m} : backupJob'[n] = backupJob[n]
      BY <1>0, <3>1, <3>2
    <3>. QED
      BY <1>0, <2>1, <2>2, <3>1, <3>3, RunKeeps
  <2>3. CASE ~(ok /\ lock = "free")
    BY <1>0, <1>3, <2>1, <2>3, NoRunMoves DEF Backups!Acquire, Backups!Free
  <2>. QED
    BY <2>2, <2>3
<1>4. ASSUME NEW m \in Masters, NEW ok \in BOOLEAN, Backups!InsertRun(m, ok) PROVE BackupInv'
  <2>1. backupJob[m].pc = "begin" /\ nextRun \in Backups!Runs /\ UNCHANGED <<lock, lockLost, s3Enabled>>
    BY <1>4 DEF Backups!InsertRun
  <2>2. ~lockLost => lock = m
    BY <1>0, <2>1
  <2>3. CASE ok
    <3>. DEFINE dumping == [backupJob[m] EXCEPT !.pc = "dump", !.id = nextRun, !.s3 = s3Enabled]
    <3>1. runs' = [runs EXCEPT ![nextRun] = "running"] /\ backupJob' = [backupJob EXCEPT ![m] = dumping]
      BY <1>0, <1>4, <2>3 DEF Backups!InsertRun
    <3>2. dumping \in Jobs /\ dumping.pc = "dump" /\ dumping.id = nextRun
      <4>1. nextRun \in Nat /\ backupJob[m] \in Jobs /\ s3Enabled \in BOOLEAN
        BY <1>0, <2>1 DEF Backups!Runs
      <4>2. dumping.pc = "dump" /\ dumping.id = nextRun
        BY <4>1 DEF Jobs
      <4>3. dumping \in Jobs
        BY ZenonT(30), <4>1 DEF Jobs
      <4>. QED
        BY <4>2, <4>3
    <3>. HIDE DEF dumping
    <3>3. /\ backupJob' \in [Masters -> Jobs] /\ backupJob'[m] = dumping
          /\ \A n \in Masters \ {m} : backupJob'[n] = backupJob[n]
          /\ runs' \in [Backups!Runs -> {"none", "running", "ok", "error"}]
          /\ runs'[nextRun] = "running"
      BY <1>0, <2>1, <3>1, <3>2
    <3>. QED
      BY <1>0, <2>1, <2>2, <3>2, <3>3, RunKeeps
  <2>4. CASE ~ok
    <3>1. UNCHANGED runs /\ backupJob' = [backupJob EXCEPT ![m].pc = "fail"]
      BY <1>4, <2>4 DEF Backups!InsertRun, Backups!Goes
    <3>2. /\ backupJob' \in [Masters -> Jobs] /\ backupJob'[m].pc = "fail"
          /\ \A n \in Masters \ {m} : backupJob'[n] = backupJob[n]
      BY <1>0, <3>1 DEF Jobs
    <3>. QED
      BY <1>0, <2>1, <2>2, <3>1, <3>2, RunKeeps
  <2>. QED
    BY <2>3, <2>4
<1>5. ASSUME NEW m \in Masters, NEW ok \in BOOLEAN, Backups!Dump(m, ok) \/ Backups!SyncS3(m, ok)
      PROVE  BackupInv'
  <2>1. /\ backupJob[m].pc \in {"dump", "s3"} /\ UNCHANGED <<runs, lock, lockLost, s3Enabled>>
        /\ \E pc \in {"s3", "ok", "fail"} : backupJob' = [backupJob EXCEPT ![m].pc = pc]
    BY <1>5 DEF Backups!Dump, Backups!SyncS3, Backups!Goes
  <2>2. PICK pc \in {"s3", "ok", "fail"} : backupJob' = [backupJob EXCEPT ![m].pc = pc]
    BY <2>1
  <2>3. backupJob' \in [Masters -> Jobs] /\ backupJob'[m].id = backupJob[m].id /\ backupJob'[m].pc = pc
        /\ \A n \in Masters \ {m} : backupJob'[n] = backupJob[n]
    BY <1>0, <2>2 DEF Jobs
  <2>. QED
    BY <1>0, <2>1, <2>3, RunKeeps
<1>6. ASSUME NEW m \in Masters, NEW ok \in BOOLEAN, Backups!Finish(m, ok) PROVE BackupInv'
  <2>1. /\ backupJob[m].pc \in {"ok", "fail"} /\ UNCHANGED <<lockLost, s3Enabled>>
        /\ backupJob' = [backupJob EXCEPT ![m] = Backups!NoJob]
    BY <1>6 DEF Backups!Finish, Backups!Release
  <2>2. \/ runs' = runs
        \/ \E result \in {"ok", "error"} : runs' = Backups!Finished(backupJob[m].id, result)
    BY <1>6 DEF Backups!Finish
  <2>3. runs' \in [Backups!Runs -> {"none", "running", "ok", "error"}]
    BY <1>0, <2>2 DEF Backups!Finished
  <2>4. backupJob' \in [Masters -> Jobs] /\ backupJob'[m].pc = "none"
        /\ \A n \in Masters \ {m} : backupJob'[n] = backupJob[n]
    BY <1>0, <2>1
  <2>. QED
    BY <1>0, <2>1, <2>3, <2>4, RunKeeps
<1>7. ASSUME NEW on \in BOOLEAN, NEW cloud \in BOOLEAN, Backups!PatchSettings(on, cloud)
      PROVE  BackupInv'
  BY <1>0, <1>7, NoRunMoves DEF Backups!PatchSettings
<1>8. CASE Backups!Due
  BY <1>0, <1>8, NoRunMoves DEF Backups!Due
<1>9. CASE Backups!SessionDies
  BY <1>0, <1>9 DEF Backups!SessionDies, BackupInv, BackupTypes, LockCoversRun, Backups!Runs, Jobs
<1>10. ASSUME NEW m \in Masters, Backups!Crash(m) PROVE BackupInv'
  <2>1. /\ backupJob' = [backupJob EXCEPT ![m] = Backups!NoJob] /\ UNCHANGED <<runs, lockLost, s3Enabled>>
        /\ lock' = IF lock = m THEN "free" ELSE lock
    BY <1>10 DEF Backups!Crash, Backups!Free
  <2>2. backupJob' \in [Masters -> Jobs] /\ backupJob'[m].pc = "none"
        /\ \A n \in Masters \ {m} : backupJob'[n] = backupJob[n]
    BY <1>0, <2>1
  <2>3. BackupTypes'
    BY <1>0, <2>1, <2>2 DEF BackupTypes, Backups!Runs, Jobs
  <2>4. LockCoversRun'
    <3>. SUFFICES ASSUME ~lockLost, NEW n \in Masters
                  PROVE  /\ backupJob'[n].pc # "none" => lock' = n
                         /\ backupJob'[n].pc \in {"dump", "s3", "ok"} =>
                              backupJob'[n].id \in Backups!Runs /\ runs'[backupJob'[n].id] = "running"
      BY <2>1 DEF LockCoversRun, Backups!Runs
    <3>1. CASE n = m
      BY <2>2, <3>1
    <3>2. CASE n # m
      BY <1>0, <2>1, <2>2, <3>2
    <3>. QED
      BY <3>1, <3>2
  <2>. QED
    BY <2>3, <2>4 DEF BackupInv
<1>. QED
  BY <1>1, <1>2, <1>3, <1>4, <1>5, <1>6, <1>7, <1>8, <1>9, <1>10
     DEF Backups!Next, Backups!Schedules, Backups!RunOnce

\* What rotation removes is removed for enough newer dumps that stay.
LEMMA RotationKeeps ==
    ASSUME NEW S \in SUBSET Backups!Runs, NEW r \in Backups!Runs,
           r \in S \/ Cardinality({x \in S : x > r}) >= RetentionLocal
    PROVE  \/ r \in Backups!Rotated(S)
           \/ Cardinality({x \in Backups!Rotated(S) : x > r}) >= RetentionLocal
<1>. DEFINE newest == Backups!Rotated(S)
            above(T, x) == {y \in T : y > x}
            late == above(S, r) \ newest
<1>1. /\ \A T \in SUBSET Backups!Runs : IsFiniteSet(T) /\ Cardinality(T) \in Nat
      /\ Backups!Runs \subseteq 0 .. MaxRuns /\ Backups!Runs \subseteq Int
      /\ RetentionLocal \in Int /\ MaxRuns \in Nat
  <2>1. IsFiniteSet(Backups!Runs)
    BY ServicesAssumption, FS_Interval DEF Backups!Runs
  <2>2. \A T \in SUBSET Backups!Runs : IsFiniteSet(T) /\ Cardinality(T) \in Nat
    BY <2>1, FS_Subset, FS_CardinalityType
  <2>. QED
    BY <2>2, ServicesAssumption DEF Backups!Runs
<1>2. \A x \in S : x \in newest <=> Cardinality(above(S, x)) < RetentionLocal
  <2>1. \A T : Backups!Cardinality(T) = Cardinality(T)
    BY DEF Backups!Cardinality, Cardinality
  <2>2. newest = {x \in S : Backups!Cardinality(above(S, x)) < RetentionLocal}
    BY DEF Backups!Rotated, Backups!Newest
  <2>. HIDE DEF newest, above
  <2>. QED
    BY <2>1, <2>2
<1>3. newest \subseteq S
  BY DEF Backups!Rotated, Backups!Newest
<1>. SUFFICES ASSUME r \notin newest
              PROVE  Cardinality(above(newest, r)) >= RetentionLocal
  OBVIOUS
<1>4. Cardinality(above(S, r)) >= RetentionLocal
  <2>1. CASE r \in S
    <3>1. Cardinality(above(S, r)) \in Nat
      <4>1. above(S, r) \in SUBSET Backups!Runs
        OBVIOUS
      <4>. HIDE DEF above
      <4>. QED
        BY <1>1, <4>1
    <3>2. ~(Cardinality(above(S, r)) < RetentionLocal)
      BY <1>2, <2>1
    <3>. HIDE DEF above
    <3>. QED
      BY <1>1, <3>1, <3>2
  <2>2. CASE r \notin S
    BY <2>2
  <2>. QED
    BY <2>1, <2>2
<1>5. CASE late = {}
  <2>1. above(newest, r) = above(S, r)
    BY <1>3, <1>5
  <2>. HIDE DEF above
  <2>. QED
    BY <1>4, <2>1
<1>6. CASE late # {}
  <2>1. late \in SUBSET (0 .. MaxRuns)
    BY <1>1
  <2>2. PICK b \in late : \A y \in late : b >= y
    <3>. HIDE DEF late
    <3>. QED
      BY <1>1, <1>6, <2>1, AGreatest
  <2>3. b \in S /\ b > r /\ b \notin newest /\ b \in Int /\ r \in Int
    BY <1>1
  <2>4. above(S, b) \subseteq above(newest, r)
    <3>. SUFFICES ASSUME NEW y \in S, y > b PROVE y \in newest /\ y > r
      OBVIOUS
    <3>1. y \in Int /\ y > r /\ ~(b >= y)
      BY <1>1, <2>3
    <3>2. y \notin late
      BY <2>2, <3>1
    <3>. QED
      BY <3>1, <3>2
  <2>5. ~(Cardinality(above(S, b)) < RetentionLocal)
    BY <1>2, <2>3
  <2>6. above(S, b) \in SUBSET Backups!Runs /\ above(newest, r) \in SUBSET Backups!Runs
    BY <1>3
  <2>. HIDE DEF above, newest
  <2>7. Cardinality(above(S, b)) <= Cardinality(above(newest, r))
    BY <1>1, <2>4, <2>6, FS_Subset
  <2>8. Cardinality(above(S, b)) \in Nat /\ Cardinality(above(newest, r)) \in Nat
    BY <1>1, <2>6
  <2>. QED
    BY <1>1, <2>5, <2>7, <2>8
<1>. QED
  BY <1>5, <1>6

\* A step that leaves the files as they are.
LEMMA FilesStay ==
    ASSUME DumpsKept, UNCHANGED dumps,
           \A m \in Masters : backupJob'[m].pc \in {"dump", "s3", "ok"} =>
               backupJob'[m].id \in Backups!Runs,
           \A m \in Masters : backupJob'[m].pc \in {"s3", "ok"} => Restorable(backupJob'[m].id),
           \A r \in Backups!Runs : runs'[r] = "ok" => Restorable(r)
    PROVE  DumpsKept'
<1>1. \A r : Restorable(r)' <=> Restorable(r)
  BY DEF Restorable
<1>2. \A m \in Masters : Restorable(backupJob[m].id)' <=> Restorable(backupJob'[m].id)
  BY DEF Restorable
<1>. QED
  BY <1>1, <1>2 DEF DumpsKept, Backups!Runs

LEMMA DumpKeepsFiles ==
    ASSUME BackupTypes, DumpsKept, NEW m \in Masters, NEW ok \in BOOLEAN, Backups!Dump(m, ok)
    PROVE  DumpsKept'
<1>. DEFINE id == backupJob[m].id
            files == Backups!Rotated(dumps[m] \cup {id})
<1>0. /\ dumps \in [Masters -> SUBSET Backups!Runs] /\ backupJob \in [Masters -> Jobs]
      /\ backupJob[m].pc = "dump" /\ id \in Backups!Runs /\ UNCHANGED runs
  BY DEF DumpsKept, BackupTypes, Backups!Dump, Backups!table
<1>1. CASE ~ok
  <2>1. UNCHANGED dumps /\ backupJob' = [backupJob EXCEPT ![m].pc = "fail"]
    BY <1>1 DEF Backups!Dump, Backups!Goes
  <2>2. \A n \in Masters : backupJob'[n].pc \in {"dump", "s3", "ok"} => backupJob'[n] = backupJob[n]
    BY <1>0, <2>1 DEF Jobs
  <2>. QED
    BY <1>0, <2>1, <2>2, FilesStay DEF DumpsKept
<1>2. CASE ok
  <2>1. /\ dumps' = [dumps EXCEPT ![m] = files]
        /\ \E pc \in {"s3", "ok"} : backupJob' = [backupJob EXCEPT ![m].pc = pc]
    BY <1>0, <1>2 DEF Backups!Dump, Backups!Goes
  <2>2. files \in SUBSET Backups!Runs
    BY <1>0 DEF Backups!Rotated, Backups!Newest
  <2>3. ASSUME NEW r \in Backups!Runs, Restorable(r) \/ r = id PROVE Restorable(r)'
    <3>c. \A T : Backups!Cardinality(T) = Cardinality(T)
      BY DEF Backups!Cardinality, Cardinality
    <3>f. \A T \in SUBSET Backups!Runs : IsFiniteSet(T) /\ Cardinality(T) \in Nat
      <4>1. IsFiniteSet(Backups!Runs)
        BY ServicesAssumption, FS_Interval DEF Backups!Runs
      <4>. QED
        BY <4>1, FS_Subset, FS_CardinalityType
    <3>1. CASE \/ r \in dumps[m] \cup {id}
               \/ Backups!Cardinality({x \in dumps[m] : x > r}) >= RetentionLocal
      <4>. DEFINE S == dumps[m] \cup {id}
                  before == {x \in dumps[m] : x > r}
                  after == {x \in S : x > r}
      <4>1. S \in SUBSET Backups!Runs /\ before \subseteq after /\ after \in SUBSET Backups!Runs
            /\ before \in SUBSET Backups!Runs
        BY <1>0
      <4>2. r \in S \/ Cardinality(before) >= RetentionLocal
        BY <3>1, <3>c
      <4>3. r \in S \/ Cardinality(after) >= RetentionLocal
        <5>. HIDE DEF before, after, S
        <5>1. /\ Cardinality(before) <= Cardinality(after)
              /\ Cardinality(before) \in Nat /\ Cardinality(after) \in Nat
          BY <3>f, <4>1, FS_Subset
        <5>. QED
          BY <4>2, <5>1, ServicesAssumption
      <4>4. \/ r \in files
            \/ Cardinality({x \in files : x > r}) >= RetentionLocal
        <5>. HIDE DEF S
        <5>1. \/ r \in Backups!Rotated(S)
              \/ Cardinality({x \in Backups!Rotated(S) : x > r}) >= RetentionLocal
          BY <4>1, <4>3, RotationKeeps
        <5>. QED
          BY <5>1 DEF S
      <4>5. dumps'[m] = files
        BY <1>0, <2>1
      <4>. HIDE DEF files
      <4>. QED
        BY <3>c, <4>4, <4>5 DEF Restorable
    <3>2. ASSUME NEW n \in Masters, n # m,
                 \/ r \in dumps[n]
                 \/ Backups!Cardinality({x \in dumps[n] : x > r}) >= RetentionLocal
          PROVE  Restorable(r)'
      <4>1. dumps'[n] = dumps[n]
        BY <1>0, <2>1, <3>2
      <4>. QED
        BY <3>2, <4>1 DEF Restorable
    <3>. QED
      BY <2>3, <3>1, <3>2 DEF Restorable
  <2>4. dumps' \in [Masters -> SUBSET Backups!Runs]
    BY <1>0, <2>1, <2>2
  <2>5. \A n \in Masters :
          /\ backupJob'[n].id = backupJob[n].id
          /\ n # m => backupJob'[n] = backupJob[n]
    BY <1>0, <2>1 DEF Jobs
  <2>6. \A n \in Masters : backupJob'[n].pc \in {"dump", "s3", "ok"} => backupJob'[n].id \in Backups!Runs
    BY <1>0, <2>5 DEF DumpsKept
  <2>7. ASSUME NEW n \in Masters, backupJob'[n].pc \in {"s3", "ok"}
        PROVE  Restorable(backupJob[n].id)'
    <3>1. backupJob'[n].id \in Backups!Runs /\ backupJob'[n].id = backupJob[n].id
      BY <2>5, <2>6, <2>7
    <3>2. Restorable(backupJob[n].id) \/ backupJob[n].id = id
      BY <1>0, <2>5, <2>7 DEF DumpsKept
    <3>. QED
      BY <2>3, <3>1, <3>2 DEF Restorable
  <2>8. \A r \in Backups!Runs : runs'[r] = "ok" => Restorable(r)'
    BY <1>0, <2>3 DEF DumpsKept
  <2>. QED
    BY <2>4, <2>6, <2>7, <2>8 DEF DumpsKept, Backups!Runs
<1>. QED
  BY <1>1, <1>2

LEMMA DumpsStep == ASSUME BackupInv, DumpsKept, Backups!Next PROVE DumpsKept'
<1>0. /\ runs \in [Backups!Runs -> {"none", "running", "ok", "error"}]
      /\ backupJob \in [Masters -> Jobs] /\ s3Enabled \in BOOLEAN /\ BackupTypes
      /\ \A m \in Masters : backupJob[m].pc \in {"dump", "s3", "ok"} => backupJob[m].id \in Backups!Runs
      /\ \A m \in Masters : backupJob[m].pc \in {"s3", "ok"} => Restorable(backupJob[m].id)
      /\ \A r \in Backups!Runs : runs[r] = "ok" => Restorable(r)
      /\ Backups!NoJob.pc = "none"
  BY DEF BackupInv, BackupTypes, DumpsKept, Backups!NoJob
<1>. USE DEF Backups!table, Backups!files, Backups!config, Backups!local, Backups!bounds
<1>1. ASSUME UNCHANGED <<runs, dumps>>, NEW m \in Masters,
             \/ UNCHANGED backupJob
             \/ backupJob' = [backupJob EXCEPT ![m].pc = "fail"]
             \/ \E job : backupJob' = [backupJob EXCEPT ![m] = job] /\ job.pc \notin {"dump", "s3", "ok"}
      PROVE  DumpsKept'
  <2>1. \A n \in Masters : backupJob'[n].pc \in {"dump", "s3", "ok"} => backupJob'[n] = backupJob[n]
    BY <1>0, <1>1 DEF Jobs
  <2>. QED
    BY <1>0, <1>1, <2>1, FilesStay
<1>2. ASSUME NEW m \in Masters, Backups!SweepStuck(m) PROVE DumpsKept'
  <2>1. UNCHANGED <<backupJob, dumps>>
    BY <1>2 DEF Backups!SweepStuck
  <2>2. \A r \in Backups!Runs : runs'[r] = "ok" => runs[r] = "ok"
    BY <1>0, <1>2 DEF Backups!SweepStuck, Backups!SweepStuckBackupRuns
  <2>. QED
    BY <1>0, <2>1, <2>2, FilesStay
<1>3. ASSUME NEW m \in Masters, Backups!MaybeRun(m) \/ Backups!SkipBusy(m) \/ Backups!BackoffEnds(m)
      PROVE  DumpsKept'
  BY <1>1, <1>3 DEF Backups!MaybeRun, Backups!SkipBusy, Backups!BackoffEnds
<1>4. ASSUME NEW m \in Masters, NEW kind \in {"manual", "scheduled"}, NEW ok \in BOOLEAN,
             Backups!Acquire(m, kind, ok)
      PROVE  DumpsKept'
  <2>. DEFINE begun == [Backups!NoJob EXCEPT !.pc = "begin", !.kind = kind]
  <2>1. /\ UNCHANGED <<runs, dumps>>
        /\ UNCHANGED backupJob \/ backupJob' = [backupJob EXCEPT ![m] = begun]
    BY <1>4 DEF Backups!Acquire
  <2>2. begun.pc = "begin"
    BY DEF Backups!NoJob
  <2>. HIDE DEF begun
  <2>. QED
    BY <1>1, <2>1, <2>2
<1>5. ASSUME NEW m \in Masters, NEW ok \in BOOLEAN, Backups!InsertRun(m, ok) PROVE DumpsKept'
  <2>1. nextRun \in Backups!Runs /\ UNCHANGED dumps
    BY <1>5 DEF Backups!InsertRun
  <2>2. CASE ok
    <3>. DEFINE dumping == [backupJob[m] EXCEPT !.pc = "dump", !.id = nextRun, !.s3 = s3Enabled]
    <3>1. runs' = [runs EXCEPT ![nextRun] = "running"] /\ backupJob' = [backupJob EXCEPT ![m] = dumping]
      BY <1>0, <1>5, <2>2 DEF Backups!InsertRun
    <3>2. dumping.pc = "dump" /\ dumping.id = nextRun
      BY <1>0 DEF Jobs
    <3>. HIDE DEF dumping
    <3>3. /\ backupJob'[m] = dumping /\ \A n \in Masters \ {m} : backupJob'[n] = backupJob[n]
          /\ \A r \in Backups!Runs : runs'[r] = "ok" => runs[r] = "ok"
      BY <1>0, <2>1, <3>1
    <3>. QED
      BY <1>0, <2>1, <3>2, <3>3, FilesStay
  <2>3. CASE ~ok
    BY <1>1, <1>5, <2>1, <2>3 DEF Backups!InsertRun, Backups!Goes
  <2>. QED
    BY <2>2, <2>3
<1>6. ASSUME NEW m \in Masters, NEW ok \in BOOLEAN, Backups!SyncS3(m, ok) PROVE DumpsKept'
  <2>1. /\ backupJob[m].pc = "s3" /\ UNCHANGED <<runs, dumps>>
        /\ \E pc \in {"ok", "fail"} : backupJob' = [backupJob EXCEPT ![m].pc = pc]
    BY <1>6 DEF Backups!SyncS3, Backups!Goes
  <2>2. /\ backupJob'[m].id = backupJob[m].id
        /\ \A n \in Masters \ {m} : backupJob'[n] = backupJob[n]
    BY <1>0, <2>1 DEF Jobs
  <2>. QED
    BY <1>0, <2>1, <2>2, FilesStay
<1>7. ASSUME NEW m \in Masters, NEW ok \in BOOLEAN, Backups!Finish(m, ok) PROVE DumpsKept'
  <2>1. /\ backupJob[m].pc \in {"ok", "fail"} /\ UNCHANGED dumps
        /\ backupJob' = [backupJob EXCEPT ![m] = Backups!NoJob]
    BY <1>7 DEF Backups!Finish, Backups!Release
  <2>2. \/ runs' = runs
        \/ runs' = Backups!Finished(backupJob[m].id, IF backupJob[m].pc = "ok" THEN "ok" ELSE "error")
    BY <1>7 DEF Backups!Finish
  <2>3. \A r \in Backups!Runs : runs'[r] = "ok" =>
          runs[r] = "ok" \/ (r = backupJob[m].id /\ backupJob[m].pc = "ok")
    BY <1>0, <2>2 DEF Backups!Finished
  <2>4. \A n \in Masters : backupJob'[n].pc \in {"dump", "s3", "ok"} => backupJob'[n] = backupJob[n]
    BY <1>0, <2>1
  <2>. QED
    BY <1>0, <2>1, <2>3, <2>4, FilesStay
<1>8. ASSUME NEW m \in Masters, Backups!Crash(m) PROVE DumpsKept'
  BY <1>0, <1>1, <1>8 DEF Backups!Crash
<1>9. ASSUME UNCHANGED <<runs, dumps, backupJob>> PROVE DumpsKept'
  BY <1>0, <1>9, FilesStay
<1>10. ASSUME NEW on \in BOOLEAN, NEW cloud \in BOOLEAN, Backups!PatchSettings(on, cloud)
       PROVE  DumpsKept'
  BY <1>9, <1>10 DEF Backups!PatchSettings
<1>11. CASE Backups!Due \/ Backups!SessionDies
  BY <1>9, <1>11 DEF Backups!Due, Backups!SessionDies
<1>12. ASSUME NEW m \in Masters, NEW ok \in BOOLEAN, Backups!Dump(m, ok) PROVE DumpsKept'
  BY <1>0, <1>12, DumpKeepsFiles
<1>. QED
  BY <1>2, <1>3, <1>4, <1>5, <1>6, <1>7, <1>8, <1>10, <1>11, <1>12
     DEF Backups!Next, Backups!Schedules, Backups!RunOnce

-----------------------------------------------------------------------------
(* Alert silences.                                                         *)

Ends == {"past", "soon", "never"}
SilenceIds == {0} \cup Silences!Silences
MuteRows == [id : Nat, sid : SilenceIds, ends : Ends]
Acts == [pc : {"idle", "write", "post", "persist", "delete"}, row : MuteRows, id : SilenceIds]
Copies == [state : {"none", "active", "expired"}, ends : Ends, fresh : BOOLEAN]
Passes == [pc : {"idle", "mutes", "listed", "sweep"}, todo : SUBSET MuteRows,
           old : SUBSET Silences!Silences, doomed : SUBSET Silences!Silences]

MuteTypes ==
    /\ mutes \subseteq MuteRows /\ silences \in [Silences!Silences -> Copies]
    /\ act \in [Silences!Actors -> Acts] /\ mutePass \in Passes
    /\ mutePass.old \cup mutePass.doomed \subseteq Silences!Minted

\* An id is given to one row.
IdsDiffer ==
    /\ \A m \in mutes : m.id # 0
    /\ \A m, n \in mutes : m.id = n.id => m = n

\* What a request writes is in force, and the row it has locked stays so.
LockedStaysActive ==
    /\ act["loop"].pc # "write"
    /\ \A c \in Silences!Actors : act[c].pc = "write" =>
         /\ act[c].row.ends # "past"
         /\ act[c].row.id = 0 => act[c].row.sid = 0
         /\ \A m \in mutes : m.id = act[c].row.id => m.ends # "past"

Unstored(a) == act[a].pc = "persist" /\ act[a].id # act[a].row.sid

\* An id that is yet to be stored is not among those the sweep has listed: its
\* silence is within the grace period.
PendingIsGraced ==
    \A a \in Silences!Actors : Unstored(a) =>
        /\ act[a].id \in Silences!Minted
        /\ silences[act[a].id].state = "active" => silences[act[a].id].fresh
        /\ act[a].id \notin mutePass.old /\ act[a].id \notin mutePass.doomed

\* No mute in force names a silence the sweep is about to delete.
DoomedIsUnnamed ==
    mutePass.pc = "sweep" => \A m \in Silences!Active : m.sid \notin mutePass.doomed

SilenceInv ==
    MuteTypes /\ IdsDiffer /\ LockedStaysActive /\ PendingIsGraced /\ DoomedIsUnnamed

\* What may become of silences but for the one that is forgotten: none goes, and
\* one that is active is as it was or has just been posted.
Fades ==
    /\ silences' \in [Silences!Silences -> Copies]
    /\ \A s \in Silences!Silences :
         /\ silences[s].state # "none" => silences'[s].state # "none"
         /\ silences'[s].state = "active" => silences'[s].fresh \/ silences'[s] = silences[s]

LEMMA SilencesStart == Silences!Init => SilenceInv
BY DEF Silences!Init, SilenceInv, MuteTypes, IdsDiffer, LockedStaysActive, PendingIsGraced,
       Unstored, DoomedIsUnnamed, Silences!Active, Silences!Minted, Silences!NoSilence,
       Silences!Idle, Silences!NoRow, Silences!None, Silences!NoPass, Silences!Actors,
       Silences!Loop, MuteRows, Acts, Ends, SilenceIds, Copies, Passes

\* A step of one actor, beside the pass.
LEMMA ActorKeeps ==
    ASSUME SilenceInv, NEW a \in Silences!Actors, Fades, UNCHANGED mutePass,
           mutes' \subseteq MuteRows, IdsDiffer', act' \in [Silences!Actors -> Acts],
           \A b \in Silences!Actors \ {a} : act'[b] = act[b],
           \A m \in mutes' : m.ends # "past" =>
               \/ \E n \in mutes : n.ends # "past" /\ m.sid = n.sid
               \/ m.sid \notin mutePass.doomed,
           \A m \in mutes' : m.ends = "past" => \E n \in mutes : n.ends = "past" /\ n.id = m.id,
           act'[a].pc = "write" =>
               /\ a # "loop" /\ act'[a].row.ends # "past" /\ (act'[a].row.id = 0 => act'[a].row.sid = 0)
               /\ \A m \in mutes' : m.id = act'[a].row.id => m.ends # "past",
           Unstored(a)' =>
               \/ Unstored(a) /\ act'[a].id = act[a].id
               \/ /\ silences'[act'[a].id].state = "active" /\ silences'[act'[a].id].fresh
                  /\ act'[a].id \in Silences!Silences \ Silences!Minted
    PROVE  SilenceInv'
<1>0. /\ MuteTypes /\ LockedStaysActive /\ PendingIsGraced /\ DoomedIsUnnamed
      /\ Silences!Minted \subseteq Silences!Minted'
  BY DEF SilenceInv, Fades, Silences!Minted, Silences!Silences
<1>1. MuteTypes'
  BY <1>0 DEF Fades, MuteTypes, Silences!Silences, Silences!Actors, Silences!Loop,
              MuteRows, Acts, Ends, SilenceIds, Copies, Passes
<1>2. LockedStaysActive'
  <2>1. act'["loop"].pc # "write"
    BY <1>0 DEF LockedStaysActive, Silences!Actors, Silences!Loop
  <2>2. ASSUME NEW c \in Silences!Actors, act'[c].pc = "write"
        PROVE  /\ act'[c].row.ends # "past"
               /\ act'[c].row.id = 0 => act'[c].row.sid = 0
               /\ \A m \in mutes' : m.id = act'[c].row.id => m.ends # "past"
    <3>1. CASE c = a
      BY <2>2, <3>1
    <3>2. CASE c # a
      BY <1>0, <2>2, <3>2 DEF LockedStaysActive
    <3>. QED
      BY <3>1, <3>2
  <2>. QED
    BY <2>1, <2>2 DEF LockedStaysActive, Silences!Actors, Silences!Loop
<1>3. PendingIsGraced'
  <2>. SUFFICES ASSUME NEW b \in Silences!Actors, Unstored(b)'
                PROVE  /\ act'[b].id \in Silences!Minted'
                       /\ silences'[act'[b].id].state = "active" => silences'[act'[b].id].fresh
                       /\ act'[b].id \notin mutePass.old /\ act'[b].id \notin mutePass.doomed
    BY DEF PendingIsGraced, Silences!Actors, Silences!Loop
  <2>1. CASE Unstored(b) /\ act'[b].id = act[b].id
    <3>1. /\ act[b].id \in Silences!Minted
          /\ silences[act[b].id].state = "active" => silences[act[b].id].fresh
          /\ act[b].id \notin mutePass.old /\ act[b].id \notin mutePass.doomed
      BY <1>0, <2>1 DEF PendingIsGraced
    <3>2. act[b].id \in Silences!Silences
      BY <3>1 DEF Silences!Minted
    <3>. QED
      BY <1>0, <2>1, <3>1, <3>2 DEF Fades
  <2>2. CASE ~(Unstored(b) /\ act'[b].id = act[b].id)
    <3>1. b = a
      BY <2>2 DEF Unstored
    <3>2. /\ silences'[act'[b].id].state = "active" /\ silences'[act'[b].id].fresh
          /\ act'[b].id \in Silences!Silences \ Silences!Minted
      BY <2>2, <3>1
    <3>. QED
      BY <1>0, <3>2 DEF MuteTypes, Silences!Minted, Silences!Silences
  <2>. QED
    BY <2>1, <2>2
<1>4. DoomedIsUnnamed'
  <2>. SUFFICES ASSUME mutePass.pc = "sweep", NEW m \in mutes', m.ends # "past"
                PROVE  m.sid \notin mutePass.doomed
    BY DEF DoomedIsUnnamed, Silences!Active
  <2>1. \A n \in mutes : n.ends # "past" => n.sid \notin mutePass.doomed
    BY <1>0 DEF DoomedIsUnnamed, Silences!Active
  <2>. QED
    BY <2>1
<1>. QED
  BY <1>1, <1>2, <1>3, <1>4 DEF SilenceInv

\* A step of the pass.
LEMMA PassKeeps ==
    ASSUME SilenceInv, Fades, UNCHANGED mutes, mutePass' \in Passes,
           act' \in [Silences!Actors -> Acts],
           \A b \in Silences!Actors : act'[b] = act[b] \/ act'[b].pc \notin {"write", "persist"},
           \A s \in mutePass'.old \cup mutePass'.doomed :
               \/ s \in mutePass.old \cup mutePass.doomed
               \/ silences[s].state = "active" /\ ~silences[s].fresh,
           mutePass'.pc = "sweep" => \A m \in Silences!Active : m.sid \notin mutePass'.doomed
    PROVE  SilenceInv'
<1>0. /\ MuteTypes /\ IdsDiffer /\ LockedStaysActive /\ PendingIsGraced /\ DoomedIsUnnamed
      /\ Silences!Minted \subseteq Silences!Minted'
  BY DEF SilenceInv, Fades, Silences!Minted, Silences!Silences
<1>1. mutePass'.old \cup mutePass'.doomed \subseteq Silences!Minted
  BY <1>0 DEF MuteTypes, Silences!Minted, Passes
<1>2. MuteTypes'
  BY <1>0, <1>1 DEF Fades, MuteTypes, Silences!Silences, Silences!Actors, Silences!Loop,
                    MuteRows, Acts, Ends, SilenceIds, Copies, Passes
<1>3. IdsDiffer' /\ DoomedIsUnnamed'
  BY <1>0 DEF IdsDiffer, DoomedIsUnnamed, Silences!Active
<1>4. LockedStaysActive'
  BY <1>0 DEF LockedStaysActive, Silences!Actors, Silences!Loop
<1>5. PendingIsGraced'
  <2>. SUFFICES ASSUME NEW b \in Silences!Actors, Unstored(b)'
                PROVE  /\ act'[b].id \in Silences!Minted'
                       /\ silences'[act'[b].id].state = "active" => silences'[act'[b].id].fresh
                       /\ act'[b].id \notin mutePass'.old /\ act'[b].id \notin mutePass'.doomed
    BY DEF PendingIsGraced, Silences!Actors, Silences!Loop
  <2>1. act'[b] = act[b] /\ Unstored(b)
    BY DEF Unstored
  <2>2. /\ act[b].id \in Silences!Minted
        /\ silences[act[b].id].state = "active" => silences[act[b].id].fresh
        /\ act[b].id \notin mutePass.old /\ act[b].id \notin mutePass.doomed
    BY <1>0, <2>1 DEF PendingIsGraced
  <2>3. act[b].id \in Silences!Silences
    BY <2>2 DEF Silences!Minted
  <2>. QED
    BY <1>0, <2>1, <2>2, <2>3 DEF Fades
<1>. QED
  BY <1>2, <1>3, <1>4, <1>5 DEF SilenceInv

\* A call that writes no row and posts nothing.
LEMMA CallKeeps ==
    ASSUME SilenceInv, NEW a \in Silences!Actors, Fades, UNCHANGED <<mutes, mutePass>>,
           act' \in [Silences!Actors -> Acts],
           \A b \in Silences!Actors \ {a} : act'[b] = act[b],
           act'[a].pc \notin {"write", "persist"}
    PROVE  SilenceInv'
<1>1. mutes' \subseteq MuteRows /\ IdsDiffer'
  BY DEF SilenceInv, MuteTypes, IdsDiffer
<1>2. \A m \in mutes' : m.ends # "past" =>
        \/ \E n \in mutes : n.ends # "past" /\ m.sid = n.sid
        \/ m.sid \notin mutePass.doomed
  OBVIOUS
<1>3. \A m \in mutes' : m.ends = "past" => \E n \in mutes : n.ends = "past" /\ n.id = m.id
  OBVIOUS
<1>4. ~Unstored(a)'
  BY DEF Unstored
<1>. QED
  BY <1>1, <1>2, <1>3, <1>4, ActorKeeps

LEMMA LookupKeeps ==
    ASSUME SilenceInv, NEW c \in Callers, NEW ends \in {"soon", "never"},
           Silences!Lookup(c, ends)
    PROVE  SilenceInv'
<1>. DEFINE found == {m \in Silences!Active : \A n \in Silences!Active : m.id >= n.id}
            r == IF found = {} THEN [Silences!NoRow EXCEPT !.ends = ends]
                 ELSE [(CHOOSE m \in found : TRUE) EXCEPT !.ends = ends]
            call == [pc |-> "write", id |-> Silences!None, row |-> r]
<1>0. MuteTypes /\ IdsDiffer
  BY DEF SilenceInv
<1>1. /\ act' = [act EXCEPT ![c] = call] /\ UNCHANGED <<mutes, silences, mutePass>>
  BY DEF Silences!Lookup
<1>2. /\ r \in MuteRows /\ r.ends # "past" /\ (r.id = 0 => r.sid = 0)
      /\ \A m \in mutes : m.id = r.id => m.ends # "past"
  <2>1. CASE found = {}
    <3>1. r = [id |-> 0, sid |-> 0, ends |-> ends]
      BY <2>1 DEF Silences!NoRow, Silences!None
    <3>2. \A m \in mutes : m.id # 0
      BY <1>0 DEF IdsDiffer
    <3>. HIDE DEF r
    <3>. QED
      BY <3>1, <3>2 DEF MuteRows, SilenceIds, Ends
  <2>2. CASE found # {}
    <3>1. PICK m \in found : r = [m EXCEPT !.ends = ends]
      BY <2>2
    <3>2. m \in mutes /\ m \in MuteRows /\ m.ends # "past" /\ m.id # 0
      BY <1>0, <3>1 DEF Silences!Active, MuteTypes, IdsDiffer
    <3>3. r.id = m.id /\ r.sid = m.sid /\ r.ends = ends /\ r \in MuteRows
      BY <3>1, <3>2 DEF MuteRows, Ends
    <3>4. \A n \in mutes : n.id = r.id => n = m
      BY <1>0, <3>2, <3>3 DEF IdsDiffer
    <3>. HIDE DEF r
    <3>. QED
      BY <3>2, <3>3, <3>4
  <2>. QED
    BY <2>1, <2>2
<1>. HIDE DEF r
<1>3. c \in Silences!Actors /\ c # "loop"
  BY ServicesAssumption DEF Silences!Actors, Silences!Loop
<1>4. call \in Acts /\ call.pc = "write" /\ call.row = r
  BY <1>2 DEF Acts, Silences!None, SilenceIds
<1>. HIDE DEF call
<1>5. /\ act' \in [Silences!Actors -> Acts] /\ act'[c] = call
      /\ \A b \in Silences!Actors \ {c} : act'[b] = act[b]
  BY <1>0, <1>1, <1>3, <1>4 DEF MuteTypes
<1>6. Fades
  BY <1>0, <1>1 DEF Fades, MuteTypes
<1>7. ~Unstored(c)'
  BY <1>4, <1>5 DEF Unstored
<1>8. mutes' \subseteq MuteRows /\ IdsDiffer'
  BY <1>0, <1>1 DEF MuteTypes, IdsDiffer
<1>9. \A m \in mutes' : m.ends # "past" =>
        \/ \E n \in mutes : n.ends # "past" /\ m.sid = n.sid
        \/ m.sid \notin mutePass.doomed
  BY <1>1
<1>10. \A m \in mutes' : m.ends = "past" => \E n \in mutes : n.ends = "past" /\ n.id = m.id
  BY <1>1
<1>11. act'[c].pc = "write" =>
         /\ c # "loop" /\ act'[c].row.ends # "past" /\ (act'[c].row.id = 0 => act'[c].row.sid = 0)
         /\ \A m \in mutes' : m.id = act'[c].row.id => m.ends # "past"
  BY <1>1, <1>2, <1>3, <1>4, <1>5
<1>12. UNCHANGED mutePass
  BY <1>1
<1>. QED
  BY <1>3, <1>5, <1>6, <1>7, <1>8, <1>9, <1>10, <1>11, <1>12, ActorKeeps

\* The id of a new row is one that no row has.
LEMMA NewIdIsNew ==
    ASSUME MuteTypes
    PROVE  /\ Silences!NewId \in Nat
           /\ Silences!NewId \in Silences!Mutes => \A m \in mutes : m.id # Silences!NewId
<1>. DEFINE S == {s \in Silences!Mutes : \E m \in mutes : m.id >= s}
            n == Cardinality(S)
<1>1. IsFiniteSet(Silences!Mutes)
  BY ServicesAssumption, FS_Interval DEF Silences!Mutes
<1>2. S \subseteq Silences!Mutes
  OBVIOUS
<1>3. IsFiniteSet(S) /\ n \in Nat
  BY <1>1, <1>2, FS_Subset, FS_CardinalityType
<1>4. ASSUME n + 1 \in Silences!Mutes, NEW m \in mutes, m.id = n + 1 PROVE FALSE
  <2>1. m.id \in Nat
    BY DEF MuteTypes, MuteRows
  <2>2. 1..(n + 1) \subseteq S
    <3>1. SUFFICES ASSUME NEW s \in 1..(n + 1) PROVE s \in Silences!Mutes /\ m.id >= s
      OBVIOUS
    <3>. HIDE DEF n
    <3>. QED
      BY <1>3, <1>4, ServicesAssumption DEF Silences!Mutes
  <2>3. Cardinality(1..(n + 1)) <= n
    BY <1>3, <2>2, FS_Subset
  <2>4. Cardinality(1..(n + 1)) = n + 1
    <3>. HIDE DEF n
    <3>1. n + 1 \in Int /\ 1 \in Int /\ 1 <= n + 1
      BY <1>3
    <3>2. Cardinality(1..(n + 1)) = (n + 1) - 1 + 1
      BY <3>1, FS_Interval
    <3>. QED
      BY <3>2, <1>3
  <2>. HIDE DEF n
  <2>. QED
    BY <1>3, <2>3, <2>4
<1>5. Silences!NewId = n + 1
  <2>1. \A T : Silences!Cardinality(T) = Cardinality(T)
    BY DEF Silences!Cardinality, Cardinality
  <2>. HIDE DEF S
  <2>2. Silences!NewId = Silences!Cardinality(S) + 1
    BY DEF Silences!NewId, S
  <2>. QED
    BY <2>1, <2>2
<1>. HIDE DEF n
<1>. QED
  BY <1>3, <1>4, <1>5

LEMMA UpsertKeeps ==
    ASSUME SilenceInv, NEW c \in Callers, Silences!UpsertAlertMute(c)
    PROVE  SilenceInv'
<1>. DEFINE r == act[c].row
            new == Silences!NewId
            made == [r EXCEPT !.id = new]
<1>0. MuteTypes /\ IdsDiffer /\ LockedStaysActive
  BY DEF SilenceInv
<1>1. act[c].pc = "write" /\ UNCHANGED <<silences, mutePass>>
  BY DEF Silences!UpsertAlertMute
<1>2. c \in Silences!Actors /\ c # "loop"
  BY ServicesAssumption DEF Silences!Actors, Silences!Loop
<1>3. act[c] \in Acts /\ r \in MuteRows
  BY <1>0, <1>2 DEF MuteTypes, Acts
<1>4. /\ r.ends # "past" /\ (r.id = 0 => r.sid = 0)
      /\ \A m \in mutes : m.id = r.id => m.ends # "past"
  BY <1>0, <1>1, <1>2 DEF LockedStaysActive
<1>5. Fades
  BY <1>0, <1>1 DEF Fades, MuteTypes
<1>6. CASE r.id # 0
  <2>1. /\ mutes' = {IF m.id = r.id THEN [m EXCEPT !.ends = r.ends] ELSE m : m \in mutes}
        /\ act' = [act EXCEPT ![c].pc = "post"]
    BY <1>6 DEF Silences!UpsertAlertMute, Silences!To, Silences!None
  <2>2. ASSUME NEW n \in mutes'
        PROVE  \E m \in mutes : /\ n \in MuteRows /\ n.id = m.id /\ n.sid = m.sid
                                /\ n.ends = (IF m.id = r.id THEN r.ends ELSE m.ends)
                                /\ m.id # r.id => n = m
                                /\ m.id = r.id => n = [m EXCEPT !.ends = r.ends]
    <3>1. PICK m \in mutes : n = IF m.id = r.id THEN [m EXCEPT !.ends = r.ends] ELSE m
      BY <2>1
    <3>2. m \in MuteRows /\ r.ends \in Ends
      BY <1>0, <1>3 DEF MuteTypes, MuteRows
    <3>. QED
      BY <3>1, <3>2 DEF MuteRows
  <2>3. mutes' \subseteq MuteRows /\ IdsDiffer'
    <3>1. mutes' \subseteq MuteRows
      BY <2>2
    <3>2. \A n \in mutes' : n.id # 0
      BY <1>0, <2>2 DEF IdsDiffer
    <3>3. ASSUME NEW n1 \in mutes', NEW n2 \in mutes', n1.id = n2.id PROVE n1 = n2
      <4>1. PICK m1 \in mutes : /\ n1.id = m1.id
                                /\ m1.id # r.id => n1 = m1
                                /\ m1.id = r.id => n1 = [m1 EXCEPT !.ends = r.ends]
        BY <2>2
      <4>2. PICK m2 \in mutes : /\ n2.id = m2.id
                                /\ m2.id # r.id => n2 = m2
                                /\ m2.id = r.id => n2 = [m2 EXCEPT !.ends = r.ends]
        BY <2>2
      <4>3. m1 = m2
        BY <1>0, <3>3, <4>1, <4>2 DEF IdsDiffer
      <4>. QED
        BY <4>1, <4>2, <4>3
    <3>. QED
      BY <3>1, <3>2, <3>3 DEF IdsDiffer
  <2>4. \A m \in mutes' : m.ends # "past" =>
          \/ \E n \in mutes : n.ends # "past" /\ m.sid = n.sid
          \/ m.sid \notin mutePass.doomed
    BY <1>4, <2>2
  <2>5. \A m \in mutes' : m.ends = "past" => \E n \in mutes : n.ends = "past" /\ n.id = m.id
    BY <1>4, <2>2
  <2>6. /\ act' \in [Silences!Actors -> Acts] /\ act'[c].pc = "post"
        /\ \A b \in Silences!Actors \ {c} : act'[b] = act[b]
    BY <1>0, <1>2, <1>3, <2>1 DEF MuteTypes, Acts
  <2>7. act'[c].pc # "write" /\ ~Unstored(c)'
    BY <2>6 DEF Unstored
  <2>8. UNCHANGED mutePass
    BY <1>1
  <2>. QED
    BY <1>2, <1>5, <2>3, <2>4, <2>5, <2>6, <2>7, <2>8, ActorKeeps
<1>7. CASE r.id = 0
  <2>1. /\ new \in Silences!Mutes /\ mutes' = mutes \cup {made}
        /\ act' = [act EXCEPT ![c].pc = "post", ![c].row.id = new]
    BY <1>7 DEF Silences!UpsertAlertMute, Silences!None
  <2>2. new \in Nat \ {0} /\ \A m \in mutes : m.id # new
    <3>1. new \in Nat /\ \A m \in mutes : m.id # new
      BY <1>0, <2>1, NewIdIsNew
    <3>. HIDE DEF new
    <3>2. new # 0
      BY <2>1, ServicesAssumption DEF Silences!Mutes
    <3>. QED
      BY <3>1, <3>2
  <2>. HIDE DEF new
  <2>3. made \in MuteRows /\ made.id = new /\ made.sid = 0 /\ made.ends # "past"
    BY <1>3, <1>4, <1>7, <2>2 DEF MuteRows
  <2>. DEFINE call == [act[c] EXCEPT !.pc = "post", !.row.id = new]
  <2>4. act' = [act EXCEPT ![c] = call] /\ call \in Acts /\ call.pc = "post"
    BY <1>0, <1>2, <1>3, <2>1, <2>2 DEF MuteTypes, Acts, MuteRows
  <2>. HIDE DEF made, call
  <2>5. mutes' \subseteq MuteRows /\ IdsDiffer'
    BY <1>0, <2>1, <2>2, <2>3 DEF MuteTypes, IdsDiffer
  <2>6. 0 \notin mutePass.doomed
    BY <1>0, ServicesAssumption DEF MuteTypes, Passes, Silences!Silences
  <2>7. \A m \in mutes' : m.ends # "past" =>
          \/ \E n \in mutes : n.ends # "past" /\ m.sid = n.sid
          \/ m.sid \notin mutePass.doomed
    BY <2>1, <2>3, <2>6
  <2>8. \A m \in mutes' : m.ends = "past" => \E n \in mutes : n.ends = "past" /\ n.id = m.id
    BY <2>1, <2>3
  <2>9. /\ act' \in [Silences!Actors -> Acts] /\ act'[c].pc = "post"
        /\ \A b \in Silences!Actors \ {c} : act'[b] = act[b]
    BY <1>0, <1>2, <2>4 DEF MuteTypes
  <2>10. act'[c].pc # "write" /\ ~Unstored(c)'
    BY <2>9 DEF Unstored
  <2>11. UNCHANGED mutePass
    BY <1>1
  <2>. QED
    BY <1>2, <1>5, <2>5, <2>7, <2>8, <2>9, <2>10, <2>11, ActorKeeps
<1>. QED
  BY <1>6, <1>7

LEMMA DeleteMuteKeeps ==
    ASSUME SilenceInv, NEW c \in Callers, NEW id, Silences!DeleteAlertMute(c, id)
    PROVE  SilenceInv'
<1>. DEFINE call == IF Silences!Row(id).sid = Silences!None THEN Silences!Idle
                    ELSE [pc |-> "delete", row |-> Silences!Row(id), id |-> Silences!None]
<1>0. MuteTypes /\ IdsDiffer
  BY DEF SilenceInv
<1>1. /\ id \in Silences!Ids /\ mutes' = {m \in mutes : m.id # id}
      /\ act' = [act EXCEPT ![c] = call] /\ UNCHANGED <<silences, mutePass>>
  BY DEF Silences!DeleteAlertMute
<1>2. c \in Silences!Actors /\ c # "loop"
  BY ServicesAssumption DEF Silences!Actors, Silences!Loop
<1>3. Silences!Row(id) \in MuteRows
  <2>1. \E m \in mutes : m.id = id
    BY <1>1 DEF Silences!Ids
  <2>. QED
    BY <1>0, <2>1 DEF MuteTypes, Silences!Row
<1>4. call \in Acts /\ call.pc \notin {"write", "persist"}
  BY <1>3 DEF Acts, Silences!Idle, Silences!None, Silences!NoRow, MuteRows, SilenceIds, Ends
<1>. HIDE DEF call
<1>5. /\ act' \in [Silences!Actors -> Acts] /\ act'[c] = call
      /\ \A b \in Silences!Actors \ {c} : act'[b] = act[b]
  BY <1>0, <1>1, <1>2, <1>4 DEF MuteTypes
<1>6. Fades
  BY <1>0, <1>1 DEF Fades, MuteTypes
<1>7. mutes' \subseteq MuteRows /\ IdsDiffer'
  BY <1>0, <1>1 DEF MuteTypes, IdsDiffer
<1>8. \A m \in mutes' : m.ends # "past" =>
        \/ \E n \in mutes : n.ends # "past" /\ m.sid = n.sid
        \/ m.sid \notin mutePass.doomed
  BY <1>1
<1>9. \A m \in mutes' : m.ends = "past" => \E n \in mutes : n.ends = "past" /\ n.id = m.id
  BY <1>1
<1>10. act'[c].pc # "write" /\ ~Unstored(c)'
  BY <1>4, <1>5 DEF Unstored
<1>11. UNCHANGED mutePass
  BY <1>1
<1>. QED
  BY <1>2, <1>5, <1>6, <1>7, <1>8, <1>9, <1>10, <1>11, ActorKeeps

LEMMA MuteDeletedKeeps ==
    ASSUME SilenceInv, NEW c \in Callers, Silences!MuteDeleted(c)
    PROVE  SilenceInv'
<1>0. MuteTypes /\ c \in Silences!Actors
  BY DEF SilenceInv, Silences!Actors
<1>1. UNCHANGED <<mutes, mutePass>> /\ act' = [act EXCEPT ![c] = Silences!Idle]
  BY DEF Silences!MuteDeleted, Silences!Done
<1>2. Fades
  <2>1. act[c].row.sid \in SilenceIds
    BY <1>0 DEF MuteTypes, Acts, MuteRows
  <2>2. Silences!Expired \in Copies /\ Silences!Expired.state = "expired"
    BY DEF Silences!Expired, Silences!NoSilence, Copies, Ends
  <2>3. CASE UNCHANGED silences
    BY <1>0, <2>3 DEF Fades, MuteTypes
  <2>4. CASE silences' = [silences EXCEPT ![act[c].row.sid] = Silences!Expired]
    BY <1>0, <2>1, <2>2, <2>4 DEF Fades, MuteTypes
  <2>. QED
    BY <2>3, <2>4 DEF Silences!MuteDeleted, Silences!DeleteSilence
<1>3. Silences!Idle \in Acts /\ Silences!Idle.pc = "idle"
  BY DEF Acts, Silences!Idle, Silences!None, Silences!NoRow, MuteRows, SilenceIds, Ends
<1>4. /\ act' \in [Silences!Actors -> Acts] /\ act'[c] = Silences!Idle
      /\ \A b \in Silences!Actors \ {c} : act'[b] = act[b]
  BY <1>0, <1>1, <1>3 DEF MuteTypes
<1>. QED
  BY <1>0, <1>1, <1>2, <1>3, <1>4, CallKeeps

LEMMA PostKeeps ==
    ASSUME SilenceInv, NEW a \in Silences!Actors, NEW s \in Silences!Silences,
           NEW answered \in BOOLEAN, Silences!PostSilence(a, s, answered)
    PROVE  SilenceInv'
<1>. DEFINE r == act[a].row
            told == [act[a] EXCEPT !.pc = "persist", !.id = s]
<1>0. MuteTypes
  BY DEF SilenceInv
<1>1. UNCHANGED <<mutes, mutePass>> /\ act[a].pc = "post"
  BY DEF Silences!PostSilence
<1>2. act[a] \in Acts /\ r \in MuteRows /\ r.ends \in Ends
  BY <1>0 DEF MuteTypes, Acts, MuteRows
<1>3. Fades
  <2>1. CASE r.ends = "past"
    BY <1>0, <2>1 DEF Fades, MuteTypes, Silences!PostSilence
  <2>2. CASE r.ends # "past"
    <3>. DEFINE copy == [state |-> "active", ends |-> r.ends, fresh |-> TRUE]
    <3>1. silences' = [silences EXCEPT ![s] = copy]
      BY <2>2 DEF Silences!PostSilence, Silences!Posted
    <3>2. copy \in Copies /\ copy.state = "active" /\ copy.fresh
      BY <1>2 DEF Copies
    <3>. HIDE DEF copy
    <3>. QED
      BY <1>0, <3>1, <3>2 DEF Fades, MuteTypes
  <2>. QED
    BY <2>1, <2>2
<1>4. Silences!Idle \in Acts /\ Silences!Idle.pc = "idle"
  BY DEF Acts, Silences!Idle, Silences!None, Silences!NoRow, MuteRows, SilenceIds, Ends
<1>5. told \in Acts /\ told.pc = "persist" /\ told.id = s /\ told.row = r
  BY <1>2 DEF Acts, SilenceIds
<1>6. CASE ~(answered /\ r.ends # "past")
  <2>1. act' = [act EXCEPT ![a] = Silences!Idle]
    BY <1>6 DEF Silences!PostSilence, Silences!Done
  <2>2. /\ act' \in [Silences!Actors -> Acts] /\ act'[a] = Silences!Idle
        /\ \A b \in Silences!Actors \ {a} : act'[b] = act[b]
    BY <1>0, <1>4, <2>1 DEF MuteTypes
  <2>. QED
    BY <1>1, <1>3, <1>4, <2>2, CallKeeps
<1>7. CASE answered /\ r.ends # "past"
  <2>1. act' = [act EXCEPT ![a].pc = "persist", ![a].id = s]
    BY <1>7 DEF Silences!PostSilence
  <2>2. act' = [act EXCEPT ![a] = told]
    BY <1>0, <2>1 DEF MuteTypes
  <2>. HIDE DEF told
  <2>3. /\ act' \in [Silences!Actors -> Acts] /\ act'[a] = told
        /\ \A b \in Silences!Actors \ {a} : act'[b] = act[b]
    BY <1>0, <1>5, <2>2 DEF MuteTypes
  <2>4. silences'[s].state = "active" /\ silences'[s].fresh
    <3>1. silences' = [silences EXCEPT ![s] = [state |-> "active", ends |-> r.ends, fresh |-> TRUE]]
      BY <1>7 DEF Silences!PostSilence, Silences!Posted
    <3>. QED
      BY <1>0, <3>1 DEF MuteTypes
  <2>5. Unstored(a)' => s \notin Silences!Minted
    <3>1. CASE Silences!ActiveSilence(r.sid)
      <4>1. s = r.sid
        BY <3>1 DEF Silences!PostSilence
      <4>. QED
        BY <1>5, <2>3, <4>1 DEF Unstored
    <3>2. CASE ~Silences!ActiveSilence(r.sid)
      BY <3>2 DEF Silences!PostSilence, Silences!Mint
    <3>. QED
      BY <3>1, <3>2
  <2>6. mutes' \subseteq MuteRows /\ IdsDiffer'
    BY <1>1 DEF SilenceInv, MuteTypes, IdsDiffer
  <2>7. \A m \in mutes' : m.ends # "past" =>
          \/ \E n \in mutes : n.ends # "past" /\ m.sid = n.sid
          \/ m.sid \notin mutePass.doomed
    BY <1>1
  <2>8. \A m \in mutes' : m.ends = "past" => \E n \in mutes : n.ends = "past" /\ n.id = m.id
    BY <1>1
  <2>9. act'[a].pc # "write" /\ act'[a].id = s /\ UNCHANGED mutePass
    BY <1>1, <1>5, <2>3
  <2>. QED
    BY <1>3, <2>3, <2>4, <2>5, <2>6, <2>7, <2>8, <2>9, ActorKeeps
<1>. QED
  BY <1>6, <1>7

LEMMA PersistKeeps ==
    ASSUME SilenceInv, NEW a \in Silences!Actors, NEW ok \in BOOLEAN,
           Silences!SetAlertMuteSilenceID(a, ok)
    PROVE  SilenceInv'
<1>0. MuteTypes /\ IdsDiffer /\ PendingIsGraced
  BY DEF SilenceInv
<1>1. /\ UNCHANGED <<silences, mutePass>> /\ act[a].pc = "persist"
      /\ act' = [act EXCEPT ![a] = Silences!Idle]
      /\ mutes' = mutes \/ mutes' = Silences!PersistID(a)
  BY DEF Silences!SetAlertMuteSilenceID, Silences!Done
<1>2. ASSUME NEW n \in mutes'
      PROVE  \E m \in mutes : /\ n \in MuteRows /\ n.id = m.id /\ n.ends = m.ends
                              /\ n = m \/ (n.sid = act[a].id /\ Unstored(a))
                              /\ n = m \/ n = [m EXCEPT !.sid = act[a].id]
  <2>1. CASE mutes' = mutes
    BY <1>0, <2>1 DEF MuteTypes
  <2>2. CASE mutes' = Silences!PersistID(a)
    <3>1. PICK m \in mutes : n = IF m.id = act[a].row.id /\ act[a].id # act[a].row.sid
                                 THEN [m EXCEPT !.sid = act[a].id] ELSE m
      BY <2>2 DEF Silences!PersistID
    <3>2. m \in MuteRows /\ act[a].id \in SilenceIds
      BY <1>0 DEF MuteTypes, Acts
    <3>3. CASE m.id = act[a].row.id /\ act[a].id # act[a].row.sid
      <4>1. n = [m EXCEPT !.sid = act[a].id] /\ Unstored(a)
        BY <1>1, <3>1, <3>3 DEF Unstored
      <4>. QED
        BY <3>2, <4>1 DEF MuteRows
    <3>4. CASE ~(m.id = act[a].row.id /\ act[a].id # act[a].row.sid)
      <4>1. n = m
        BY <3>1, <3>4
      <4>. QED
        BY <3>2, <4>1
    <3>. QED
      BY <3>3, <3>4
  <2>. QED
    BY <1>1, <2>1, <2>2
<1>3. mutes' \subseteq MuteRows /\ IdsDiffer'
  <2>1. mutes' \subseteq MuteRows /\ \A n \in mutes' : n.id # 0
    BY <1>0, <1>2 DEF IdsDiffer
  <2>2. ASSUME NEW n1 \in mutes', NEW n2 \in mutes', n1.id = n2.id PROVE n1 = n2
    <3>1. CASE mutes' = mutes
      BY <1>0, <2>2, <3>1 DEF IdsDiffer
    <3>2. CASE mutes' = Silences!PersistID(a)
      <4>1. PICK m1 \in mutes : /\ n1 = IF m1.id = act[a].row.id /\ act[a].id # act[a].row.sid
                                        THEN [m1 EXCEPT !.sid = act[a].id] ELSE m1
        BY <3>2 DEF Silences!PersistID
      <4>2. PICK m2 \in mutes : /\ n2 = IF m2.id = act[a].row.id /\ act[a].id # act[a].row.sid
                                        THEN [m2 EXCEPT !.sid = act[a].id] ELSE m2
        BY <3>2 DEF Silences!PersistID
      <4>3. m1 \in MuteRows /\ m2 \in MuteRows
        BY <1>0 DEF MuteTypes
      <4>4. n1.id = m1.id /\ n2.id = m2.id
        BY <4>1, <4>2, <4>3 DEF MuteRows
      <4>5. m1 = m2
        BY <1>0, <2>2, <4>4 DEF IdsDiffer
      <4>. QED
        BY <4>1, <4>2, <4>5
    <3>. QED
      BY <1>1, <3>1, <3>2
  <2>. QED
    BY <2>1, <2>2 DEF IdsDiffer
<1>4. \A m \in mutes' : m.ends # "past" =>
        \/ \E n \in mutes : n.ends # "past" /\ m.sid = n.sid
        \/ m.sid \notin mutePass.doomed
  <2>1. Unstored(a) => act[a].id \notin mutePass.doomed
    BY <1>0 DEF PendingIsGraced
  <2>. QED
    BY <1>2, <2>1
<1>5. \A m \in mutes' : m.ends = "past" => \E n \in mutes : n.ends = "past" /\ n.id = m.id
  BY <1>2
<1>6. Silences!Idle \in Acts /\ Silences!Idle.pc = "idle"
  BY DEF Acts, Silences!Idle, Silences!None, Silences!NoRow, MuteRows, SilenceIds, Ends
<1>7. /\ act' \in [Silences!Actors -> Acts] /\ act'[a] = Silences!Idle
      /\ \A b \in Silences!Actors \ {a} : act'[b] = act[b]
  BY <1>0, <1>1, <1>6 DEF MuteTypes
<1>8. act'[a].pc # "write" /\ ~Unstored(a)' /\ UNCHANGED mutePass
  BY <1>1, <1>6, <1>7 DEF Unstored
<1>9. Fades
  BY <1>0, <1>1 DEF Fades, MuteTypes
<1>. QED
  BY <1>3, <1>4, <1>5, <1>7, <1>8, <1>9, ActorKeeps

LEMMA LapseKeeps == ASSUME SilenceInv, Silences!Lapse PROVE SilenceInv'
<1>0. /\ MuteTypes /\ IdsDiffer /\ LockedStaysActive /\ PendingIsGraced /\ DoomedIsUnnamed
  BY DEF SilenceInv
<1>1. /\ \A c \in Callers : act[c].pc # "write"
      /\ mutes' = {Silences!Past(m) : m \in mutes}
      /\ silences' = [s \in Silences!Silences |->
                        IF silences[s].ends = "soon" /\ Silences!ActiveSilence(s)
                        THEN Silences!Expired ELSE silences[s]]
      /\ act' = [a \in Silences!Actors |-> [act[a] EXCEPT !.row = Silences!Past(@)]]
      /\ mutePass' = [mutePass EXCEPT !.todo = {Silences!Past(m) : m \in @}]
  BY DEF Silences!Lapse
<1>2. ASSUME NEW m \in MuteRows
      PROVE  /\ Silences!Past(m) \in MuteRows
             /\ Silences!Past(m).id = m.id /\ Silences!Past(m).sid = m.sid
             /\ Silences!Past(m).ends # "past" => m.ends # "past"
  BY DEF Silences!Past, MuteRows, Ends
<1>3. ASSUME NEW a \in Silences!Actors
      PROVE  /\ act'[a] \in Acts /\ act'[a].pc = act[a].pc /\ act'[a].id = act[a].id
             /\ act'[a].row.sid = act[a].row.sid
  <2>1. act[a] \in Acts /\ act[a].row \in MuteRows
    BY <1>0 DEF MuteTypes, Acts
  <2>2. act'[a] = [act[a] EXCEPT !.row = Silences!Past(act[a].row)]
    BY <1>1
  <2>3. Silences!Past(act[a].row) \in MuteRows /\ Silences!Past(act[a].row).sid = act[a].row.sid
    BY <1>2, <2>1
  <2>. QED
    BY <2>1, <2>2, <2>3 DEF Acts
<1>4. /\ mutePass'.pc = mutePass.pc /\ mutePass'.old = mutePass.old
      /\ mutePass'.doomed = mutePass.doomed /\ mutePass' \in Passes
  <2>. DEFINE todo == {Silences!Past(m) : m \in mutePass.todo}
  <2>1. mutePass \in Passes /\ mutePass.todo \subseteq MuteRows
    BY <1>0 DEF MuteTypes, Passes
  <2>2. todo \in SUBSET MuteRows
    BY <1>2, <2>1
  <2>3. mutePass' = [mutePass EXCEPT !.todo = todo]
    BY <1>1
  <2>. HIDE DEF todo
  <2>. QED
    BY <2>1, <2>2, <2>3 DEF Passes
<1>5. Fades /\ \A s \in Silences!Silences : silences'[s].state = "active" => silences'[s] = silences[s]
  <2>1. Silences!Expired \in Copies /\ Silences!Expired.state = "expired"
    BY DEF Silences!Expired, Silences!NoSilence, Copies, Ends
  <2>2. silences \in [Silences!Silences -> Copies]
    BY <1>0 DEF MuteTypes
  <2>. QED
    BY <1>1, <2>1, <2>2 DEF Fades
<1>6. MuteTypes'
  <2>1. mutes' \subseteq MuteRows
    BY <1>0, <1>1, <1>2 DEF MuteTypes
  <2>2. act' \in [Silences!Actors -> Acts]
    BY <1>1, <1>3
  <2>3. Silences!Minted \subseteq Silences!Minted'
    BY <1>5 DEF Fades, Silences!Minted, Silences!Silences
  <2>. QED
    BY <1>0, <1>4, <1>5, <2>1, <2>2, <2>3 DEF MuteTypes, Fades, Silences!Silences, Silences!Actors,
       Silences!Loop, MuteRows, Acts, Ends, SilenceIds, Copies, Passes
<1>7. IdsDiffer'
  <2>1. \A n \in mutes' : \E m \in mutes : n = Silences!Past(m) /\ n.id = m.id
    BY <1>0, <1>1, <1>2 DEF MuteTypes
  <2>. QED
    BY <1>0, <2>1 DEF IdsDiffer
<1>8. LockedStaysActive'
  <2>1. \A a \in Silences!Actors : act'[a].pc # "write"
    BY <1>0, <1>1, <1>3 DEF LockedStaysActive, Silences!Actors, Silences!Loop
  <2>. QED
    BY <2>1 DEF LockedStaysActive, Silences!Actors, Silences!Loop
<1>9. PendingIsGraced'
  <2>. SUFFICES ASSUME NEW b \in Silences!Actors, Unstored(b)'
                PROVE  /\ act'[b].id \in Silences!Minted'
                       /\ silences'[act'[b].id].state = "active" => silences'[act'[b].id].fresh
                       /\ act'[b].id \notin mutePass'.old /\ act'[b].id \notin mutePass'.doomed
    BY DEF PendingIsGraced, Silences!Actors, Silences!Loop
  <2>1. Unstored(b) /\ act'[b].id = act[b].id
    BY <1>3 DEF Unstored
  <2>2. /\ act[b].id \in Silences!Minted
        /\ silences[act[b].id].state = "active" => silences[act[b].id].fresh
        /\ act[b].id \notin mutePass.old /\ act[b].id \notin mutePass.doomed
    BY <1>0, <2>1 DEF PendingIsGraced
  <2>3. act[b].id \in Silences!Silences /\ silences[act[b].id].state # "none"
    BY <2>2 DEF Silences!Minted
  <2>4. act[b].id \in Silences!Minted'
    BY <1>5, <2>3 DEF Fades, Silences!Minted, Silences!Silences
  <2>. QED
    BY <1>4, <1>5, <2>1, <2>2, <2>3, <2>4
<1>10. DoomedIsUnnamed'
  <2>. SUFFICES ASSUME mutePass.pc = "sweep", NEW n \in mutes', n.ends # "past"
                PROVE  n.sid \notin mutePass.doomed
    BY <1>4 DEF DoomedIsUnnamed, Silences!Active
  <2>1. PICK m \in mutes : m.ends # "past" /\ n.sid = m.sid
    BY <1>0, <1>1, <1>2 DEF MuteTypes
  <2>. QED
    BY <1>0, <2>1 DEF DoomedIsUnnamed, Silences!Active
<1>. QED
  BY <1>6, <1>7, <1>8, <1>9, <1>10 DEF SilenceInv

LEMMA ForgetKeeps == ASSUME SilenceInv, Silences!Forget PROVE SilenceInv'
<1>. DEFINE lost == {s \in Silences!Minted : silences[s].state = "expired"} \ Silences!Named
<1>0. /\ MuteTypes /\ IdsDiffer /\ LockedStaysActive /\ PendingIsGraced /\ DoomedIsUnnamed
  BY DEF SilenceInv
<1>1. /\ silences' = [s \in Silences!Silences |-> IF s \in lost THEN Silences!NoSilence
                                                   ELSE silences[s]]
      /\ UNCHANGED <<mutes, act, mutePass>>
  BY DEF Silences!Forget
<1>2. /\ mutePass.old \cup mutePass.doomed \subseteq Silences!Named
      /\ \A a \in Silences!Actors : act[a].id \in Silences!Named
  BY DEF Silences!Named
<1>3. /\ \A s \in Silences!Silences : s \in Silences!Named => silences'[s] = silences[s]
      /\ silences' \in [Silences!Silences -> Copies]
  BY <1>0, <1>1 DEF MuteTypes, Silences!NoSilence, Copies, Ends
<1>. HIDE DEF lost
<1>4. MuteTypes'
  <2>1. mutePass.old \cup mutePass.doomed \subseteq Silences!Minted'
    BY <1>0, <1>2, <1>3 DEF MuteTypes, Silences!Minted, Silences!Silences
  <2>. QED
    BY <1>0, <1>1, <1>3, <2>1 DEF MuteTypes, Silences!Silences, Silences!Actors,
       Silences!Loop, MuteRows, Acts, Ends, SilenceIds, Copies, Passes
<1>5. IdsDiffer' /\ LockedStaysActive' /\ DoomedIsUnnamed'
  BY <1>0, <1>1 DEF IdsDiffer, LockedStaysActive, DoomedIsUnnamed, Silences!Active,
                    Silences!Actors, Silences!Loop
<1>6. PendingIsGraced'
  <2>. SUFFICES ASSUME NEW b \in Silences!Actors, Unstored(b)
                PROVE  /\ act[b].id \in Silences!Minted'
                       /\ silences'[act[b].id].state = "active" => silences'[act[b].id].fresh
                       /\ act[b].id \notin mutePass.old /\ act[b].id \notin mutePass.doomed
    BY <1>1 DEF PendingIsGraced, Unstored, Silences!Actors, Silences!Loop
  <2>2. /\ act[b].id \in Silences!Minted
        /\ silences[act[b].id].state = "active" => silences[act[b].id].fresh
        /\ act[b].id \notin mutePass.old /\ act[b].id \notin mutePass.doomed
    BY <1>0 DEF PendingIsGraced
  <2>3. act[b].id \in Silences!Silences
    BY <2>2 DEF Silences!Minted
  <2>4. silences'[act[b].id] = silences[act[b].id]
    BY <1>2, <1>3, <2>3
  <2>. QED
    BY <2>2, <2>3, <2>4 DEF Silences!Minted, Silences!Silences
<1>. QED
  BY <1>4, <1>5, <1>6 DEF SilenceInv

\* The grace period ends while no id is waiting to be stored.
LEMMA GraceEndsKeeps == ASSUME SilenceInv, Silences!GraceEnds PROVE SilenceInv'
<1>0. /\ MuteTypes /\ IdsDiffer /\ LockedStaysActive /\ DoomedIsUnnamed
  BY DEF SilenceInv
<1>1. /\ silences' = [s \in Silences!Silences |-> [silences[s] EXCEPT !.fresh = FALSE]]
      /\ \A a \in Silences!Actors : act[a].pc # "persist"
      /\ UNCHANGED <<mutes, act, mutePass>>
  BY DEF Silences!GraceEnds
<1>2. ASSUME NEW s \in Silences!Silences
      PROVE  silences'[s] \in Copies /\ silences'[s].state = silences[s].state
  BY <1>0, <1>1 DEF MuteTypes, Copies
<1>3. silences' \in [Silences!Silences -> Copies]
  BY <1>1, <1>2
<1>4. MuteTypes'
  <2>1. Silences!Minted' = Silences!Minted
    BY <1>2 DEF Silences!Minted, Silences!Silences
  <2>. QED
    BY <1>0, <1>1, <1>3, <2>1 DEF MuteTypes, Silences!Silences, Silences!Actors,
       Silences!Loop, MuteRows, Acts, Ends, SilenceIds, Copies, Passes
<1>5. IdsDiffer' /\ LockedStaysActive' /\ DoomedIsUnnamed'
  BY <1>0, <1>1 DEF IdsDiffer, LockedStaysActive, DoomedIsUnnamed, Silences!Active,
                    Silences!Actors, Silences!Loop
<1>6. PendingIsGraced'
  BY <1>1 DEF PendingIsGraced, Unstored, Silences!Actors, Silences!Loop
<1>. QED
  BY <1>4, <1>5, <1>6 DEF SilenceInv

LEMMA SweepTypes ==
    ASSUME NEW pc \in {"listed", "sweep"}, NEW old \in SUBSET Silences!Silences,
           NEW doomed \in SUBSET Silences!Silences
    PROVE  LET p == Silences!Sweeping(pc, old, doomed)
           IN  /\ p \in Passes /\ p.old \subseteq old /\ p.doomed \subseteq doomed
               /\ p.pc = "sweep" => pc = "sweep"
BY DEF Silences!Sweeping, Silences!NoPass, Passes

LEMMA SilencesStep == ASSUME SilenceInv, Silences!Next PROVE SilenceInv'
<1>0. MuteTypes /\ IdsDiffer /\ DoomedIsUnnamed
  BY DEF SilenceInv
<1>a. ASSUME UNCHANGED silences PROVE Fades
  BY <1>0, <1>a DEF Fades, MuteTypes
<1>b. Silences!Loop \in Silences!Actors /\ Silences!Loop = "loop" /\ Callers \subseteq Silences!Actors
  BY DEF Silences!Actors, Silences!Loop
<1>c. Silences!NoPass \in Passes
  BY DEF Silences!NoPass, Passes
<1>d. Silences!Idle \in Acts /\ Silences!Idle.pc = "idle"
  BY DEF Acts, Silences!Idle, Silences!None, Silences!NoRow, MuteRows, SilenceIds, Ends
<1>1. ASSUME NEW a \in Silences!Actors, Silences!Unreachable(a) PROVE SilenceInv'
  <2>1. /\ act' = [act EXCEPT ![a] = Silences!Idle] /\ UNCHANGED <<mutes, silences>>
        /\ mutePass' = Silences!NoPass \/ mutePass' = mutePass
    BY <1>1 DEF Silences!Unreachable, Silences!Done
  <2>2. /\ act' \in [Silences!Actors -> Acts] /\ act'[a] = Silences!Idle
        /\ \A b \in Silences!Actors \ {a} : act'[b] = act[b]
    BY <1>0, <1>d, <2>1 DEF MuteTypes
  <2>3. CASE mutePass' = mutePass
    BY <1>a, <1>d, <2>1, <2>2, <2>3, CallKeeps
  <2>4. CASE mutePass' = Silences!NoPass
    <3>1. mutePass'.old \cup mutePass'.doomed = {} /\ mutePass'.pc # "sweep"
      BY <2>4 DEF Silences!NoPass
    <3>. QED
      BY <1>a, <1>c, <1>d, <2>1, <2>2, <2>4, <3>1, PassKeeps
  <2>. QED
    BY <2>1, <2>3, <2>4
<1>2. ASSUME Silences!ReconcileOnce PROVE SilenceInv'
  <2>1. /\ mutePass' = [Silences!NoPass EXCEPT !.pc = "mutes", !.todo = Silences!Active]
        /\ UNCHANGED <<mutes, silences, act>>
    BY <1>2 DEF Silences!ReconcileOnce
  <2>2. Silences!Active \in SUBSET MuteRows
    BY <1>0 DEF MuteTypes, Silences!Active
  <2>3. mutePass' \in Passes /\ mutePass'.old \cup mutePass'.doomed = {} /\ mutePass'.pc # "sweep"
    BY <2>1, <2>2 DEF Silences!NoPass, Passes
  <2>4. act' \in [Silences!Actors -> Acts]
    BY <1>0, <2>1 DEF MuteTypes
  <2>. QED
    BY <1>a, <2>1, <2>3, <2>4, PassKeeps
<1>3. ASSUME NEW m \in mutePass.todo, Silences!ReconcileMute(m) PROVE SilenceInv'
  <2>. DEFINE call == [pc |-> "post", id |-> Silences!None, row |-> Silences!ToPost(m)]
  <2>1. UNCHANGED <<mutes, silences>> /\ mutePass.pc = "mutes"
    BY <1>3 DEF Silences!ReconcileMute
  <2>2. mutePass \in Passes /\ m \in MuteRows
    BY <1>0 DEF MuteTypes, Passes
  <2>3. call \in Acts /\ call.pc = "post"
    BY <2>2 DEF Acts, Silences!ToPost, Silences!None, SilenceIds, MuteRows
  <2>. HIDE DEF call
  <2>4. /\ act' \in [Silences!Actors -> Acts]
        /\ \A b \in Silences!Actors : act'[b] = act[b] \/ act'[b].pc \notin {"write", "persist"}
    <3>1. act' = act \/ act' = [act EXCEPT ![Silences!Loop] = Silences!Idle]
            \/ act' = [act EXCEPT ![Silences!Loop] = call]
      BY <1>3 DEF Silences!ReconcileMute, call
    <3>. QED
      BY <1>0, <1>b, <1>d, <2>3, <3>1 DEF MuteTypes
  <2>5. /\ mutePass' \in Passes /\ mutePass'.pc # "sweep"
        /\ mutePass'.old \cup mutePass'.doomed \subseteq mutePass.old \cup mutePass.doomed
    <3>1. CASE mutePass' = Silences!NoPass
      BY <1>c, <3>1 DEF Silences!NoPass
    <3>2. CASE mutePass' = [mutePass EXCEPT !.todo = @ \ {m}]
      BY <2>1, <2>2, <3>2 DEF Passes
    <3>. QED
      BY <1>3, <3>1, <3>2 DEF Silences!ReconcileMute
  <2>. QED
    BY <1>a, <2>1, <2>4, <2>5, PassKeeps
<1>4. ASSUME Silences!ListSilences PROVE SilenceInv'
  <2>. DEFINE old == {s \in Silences!Minted : Silences!ActiveSilence(s) /\ ~Silences!Graced(s)}
  <2>1. /\ UNCHANGED <<mutes, silences, act>>
        /\ mutePass' = Silences!Sweeping("listed", old, {}) \/ mutePass' = Silences!NoPass
    BY <1>4 DEF Silences!ListSilences
  <2>2. old \in SUBSET Silences!Silences
    BY DEF Silences!Minted
  <2>3. \A s \in old : silences[s].state = "active" /\ ~silences[s].fresh
    BY DEF Silences!ActiveSilence, Silences!Graced
  <2>. HIDE DEF old
  <2>4. /\ mutePass' \in Passes /\ mutePass'.pc # "sweep"
        /\ mutePass'.old \subseteq old /\ mutePass'.doomed = {}
    <3>1. CASE mutePass' = Silences!NoPass
      BY <1>c, <3>1 DEF Silences!NoPass
    <3>2. CASE mutePass' = Silences!Sweeping("listed", old, {})
      BY <2>2, <3>2, SweepTypes
    <3>. QED
      BY <2>1, <3>1, <3>2
  <2>5. act' \in [Silences!Actors -> Acts]
    BY <1>0, <2>1 DEF MuteTypes
  <2>. QED
    BY <1>a, <2>1, <2>3, <2>4, <2>5, PassKeeps
<1>5. ASSUME Silences!ReadMutes PROVE SilenceInv'
  <2>. DEFINE doomed == mutePass.old \ {m.sid : m \in Silences!Active}
  <2>1. /\ UNCHANGED <<mutes, silences, act>>
        /\ mutePass' = Silences!Sweeping("sweep", {}, doomed)
    BY <1>5 DEF Silences!ReadMutes
  <2>2. doomed \in SUBSET Silences!Silences
    BY <1>0 DEF MuteTypes, Passes
  <2>3. mutePass' \in Passes /\ mutePass'.old = {} /\ mutePass'.doomed \subseteq doomed
    <3>. HIDE DEF doomed
    <3>. QED
      BY <2>1, <2>2, SweepTypes
  <2>4. act' \in [Silences!Actors -> Acts]
    BY <1>0, <2>1 DEF MuteTypes
  <2>5. \A m \in Silences!Active : m.sid \notin mutePass'.doomed
    BY <2>3
  <2>6. mutePass'.old \cup mutePass'.doomed \subseteq mutePass.old
    BY <2>3
  <2>. QED
    BY <1>a, <2>1, <2>3, <2>4, <2>5, <2>6, PassKeeps
<1>6. ASSUME NEW s \in Silences!Silences, Silences!DeleteOrphan(s) PROVE SilenceInv'
  <2>. DEFINE doomed == mutePass.doomed \ {s}
  <2>1. /\ UNCHANGED <<mutes, act>> /\ mutePass.pc = "sweep"
        /\ silences' = silences \/ silences' = [silences EXCEPT ![s] = Silences!Expired]
        /\ mutePass' = Silences!Sweeping("sweep", {}, doomed) \/ mutePass' = Silences!NoPass
    BY <1>6 DEF Silences!DeleteOrphan, Silences!DeleteSilence
  <2>2. Fades
    <3>1. Silences!Expired \in Copies /\ Silences!Expired.state = "expired"
      BY DEF Silences!Expired, Silences!NoSilence, Copies, Ends
    <3>. QED
      BY <1>0, <2>1, <3>1 DEF Fades, MuteTypes
  <2>3. doomed \in SUBSET Silences!Silences
    BY <1>0 DEF MuteTypes, Passes
  <2>4. /\ mutePass' \in Passes /\ mutePass'.old = {} /\ mutePass'.doomed \subseteq mutePass.doomed
    <3>1. CASE mutePass' = Silences!NoPass
      BY <1>c, <3>1 DEF Silences!NoPass
    <3>2. CASE mutePass' = Silences!Sweeping("sweep", {}, doomed)
      <4>1. doomed \subseteq mutePass.doomed
        OBVIOUS
      <4>. HIDE DEF doomed
      <4>. QED
        BY <2>3, <3>2, <4>1, SweepTypes
    <3>. QED
      BY <2>1, <3>1, <3>2
  <2>5. \A m \in Silences!Active : m.sid \notin mutePass'.doomed
    BY <1>0, <2>1, <2>4 DEF DoomedIsUnnamed
  <2>6. act' \in [Silences!Actors -> Acts] /\ \A b \in Silences!Actors : act'[b] = act[b]
    BY <1>0, <2>1 DEF MuteTypes
  <2>7. mutePass'.old \cup mutePass'.doomed \subseteq mutePass.old \cup mutePass.doomed
    BY <2>4
  <2>. QED
    BY <2>1, <2>2, <2>4, <2>5, <2>6, <2>7, PassKeeps
<1>7. ASSUME NEW lost \in BOOLEAN, Silences!AmDown(lost) PROVE SilenceInv'
  <2>1. /\ UNCHANGED <<mutes, act, mutePass>>
        /\ \/ UNCHANGED silences
           \/ silences' = [s \in Silences!Silences |->
                             IF Silences!ActiveSilence(s) THEN Silences!Expired ELSE silences[s]]
    BY <1>7 DEF Silences!AmDown
  <2>2. Fades
    <3>1. Silences!Expired \in Copies /\ Silences!Expired.state = "expired"
      BY DEF Silences!Expired, Silences!NoSilence, Copies, Ends
    <3>. QED
      BY <1>0, <1>a, <2>1, <3>1 DEF Fades, MuteTypes
  <2>3. act' \in [Silences!Actors -> Acts] /\ mutePass' \in Passes
    BY <1>0, <2>1 DEF MuteTypes
  <2>4. mutePass'.pc = "sweep" => \A m \in Silences!Active : m.sid \notin mutePass'.doomed
    BY <1>0, <2>1 DEF DoomedIsUnnamed
  <2>. QED
    BY <2>1, <2>2, <2>3, <2>4, PassKeeps
<1>8. ASSUME Silences!AmUp PROVE SilenceInv'
  <2>1. UNCHANGED <<mutes, act, mutePass, silences>>
    BY <1>8 DEF Silences!AmUp
  <2>2. act' \in [Silences!Actors -> Acts] /\ mutePass' \in Passes
    BY <1>0, <2>1 DEF MuteTypes
  <2>3. mutePass'.pc = "sweep" => \A m \in Silences!Active : m.sid \notin mutePass'.doomed
    BY <1>0, <2>1 DEF DoomedIsUnnamed
  <2>. QED
    BY <1>a, <2>1, <2>2, <2>3, PassKeeps
<1>9. ASSUME Silences!CallSteps PROVE SilenceInv'
  BY <1>1, <1>9, UpsertKeeps, MuteDeletedKeeps, PostKeeps, PersistKeeps DEF Silences!CallSteps
<1>10. ASSUME Silences!LoopSteps \/ Silences!World PROVE SilenceInv'
  BY <1>2, <1>3, <1>4, <1>5, <1>6, <1>8, <1>10, GraceEndsKeeps, ForgetKeeps
     DEF Silences!LoopSteps, Silences!World
<1>11. ASSUME NEW c \in Callers, NEW ends \in {"soon", "never"}, Silences!Lookup(c, ends)
       PROVE  SilenceInv'
  BY <1>11, LookupKeeps
<1>12. ASSUME NEW c \in Callers, NEW id \in Silences!Mutes, Silences!DeleteAlertMute(c, id)
       PROVE  SilenceInv'
  BY <1>12, DeleteMuteKeeps
<1>13. ASSUME NEW a \in Silences!Actors, NEW s \in Silences!Silences,
              Silences!PostSilence(a, s, FALSE) PROVE SilenceInv'
  BY <1>13, PostKeeps
<1>14. ASSUME NEW a \in Silences!Actors, Silences!SetAlertMuteSilenceID(a, FALSE) PROVE SilenceInv'
  BY <1>14, PersistKeeps
<1>. HIDE DEF SilenceInv
<1>. QED
  BY <1>7, <1>9, <1>10, <1>11, <1>12, <1>13, <1>14, LapseKeeps DEF Silences!Next

-----------------------------------------------------------------------------
(* The event feed.                                                         *)

Numbers == 0 .. MaxId
Looks == [id : Numbers, ripe : BOOLEAN]

FeedTypes ==
    /\ nextId \in Nat \ {0}
    /\ event \in [Feed!Ids -> {"none", "open", "mine", "foreign", "gone"}]
    /\ feed \in {"down", "idle", "mark", "rows"}
    /\ cursor \in Numbers /\ read \in Numbers /\ settled \in Numbers /\ seen \in Seq(Looks)
    /\ hi \in Numbers /\ start \in Numbers /\ last \in Numbers
    /\ rows \in SUBSET Numbers /\ got \in SUBSET Numbers

\* Ids are given in order, and what the connection holds was given before.
GivenInOrder ==
    /\ \A i \in Feed!Ids : event[i] = "none" <=> i >= nextId
    /\ cursor < nextId /\ read < nextId /\ settled < nextId
    /\ hi < nextId /\ start < nextId /\ last < nextId
    /\ \A k \in 1 .. Len(seen) : seen[k].id < nextId

CursorTrails == cursor <= read /\ cursor <= settled

\* What is remembered as sent is what the client got beyond the cursor, and the
\* poll reads nothing else: so nothing is framed twice.
SentIsGot ==
    /\ sent = {i \in got : i > cursor} /\ twice = {}
    /\ feed = "rows" => \A i \in rows : cursor < i /\ i <= hi

\* The observation of i, or of an id beyond it, is older than sseSettle.
Ripened(i) == i <= settled \/ \E k \in 1 .. Len(seen) : seen[k].ripe /\ i <= seen[k].id

\* The transactions of all such ids have ended, ...
RipenedEnded ==
    feed # "down" /\ guarded =>
        \A i \in Feed!Ids : i > start /\ Ripened(i) => event[i] \notin {"none", "open"}

\* ... so the rows that were read are all there will be of them.
RowsAreWhole ==
    feed = "rows" /\ guarded =>
        \A i \in Feed!Ids :
            i > start /\ i > cursor /\ i <= hi /\ Ripened(i) /\ event[i] = "mine" => i \in rows

FeedInv ==
    /\ FeedTypes /\ GivenInOrder /\ CursorTrails /\ SentIsGot /\ RipenedEnded /\ RowsAreWhole
    /\ Feed!NothingSkipped

\* A set of ids has a greatest one.
LEMMA GreatestOf ==
    ASSUME NEW S \in SUBSET Numbers, S # {}
    PROVE  Feed!Max(S) \in S /\ \A y \in S : Feed!Max(S) >= y
<1>1. \E x \in S : \A y \in S : x >= y
  BY ServicesAssumption, AGreatest DEF Numbers
<1>. QED
  BY <1>1 DEF Feed!Max

LEMMA MaxOfHolds ==
    ASSUME NEW S \in SUBSET Numbers, NEW d \in Numbers
    PROVE  /\ Feed!MaxOf(S, d) \in Numbers /\ Feed!MaxOf(S, d) \in S \cup {d}
           /\ Feed!MaxOf(S, d) >= d /\ \A y \in S : Feed!MaxOf(S, d) >= y
<1>1. S \cup {d} \in SUBSET Numbers /\ S \cup {d} # {}
  OBVIOUS
<1>2. /\ Feed!Max(S \cup {d}) \in S \cup {d}
      /\ \A y \in S \cup {d} : Feed!Max(S \cup {d}) >= y
  BY <1>1, GreatestOf
<1>. QED
  BY <1>1, <1>2 DEF Feed!MaxOf

LEMMA LooksHold ==
    ASSUME NEW q \in Seq(Looks), NEW k \in 1 .. Len(q) PROVE q[k] \in Looks /\ q[k].id \in Numbers
<1>1. q[k] \in Looks
  BY ElementOfSeq
<1>. QED
  BY <1>1 DEF Looks

LEMMA FeedStart == Feed!Init => FeedInv
<1>. SUFFICES ASSUME Feed!Init PROVE FeedInv
  OBVIOUS
<1>1. FeedTypes
  BY ServicesAssumption, EmptySeq DEF Feed!Init, FeedTypes, Numbers
<1>2. Feed!Ids \subseteq Nat \ {0}
  BY ServicesAssumption DEF Feed!Ids
<1>3. GivenInOrder
  BY <1>2 DEF Feed!Init, GivenInOrder
<1>. QED
  BY <1>1, <1>3 DEF Feed!Init, FeedInv, CursorTrails, SentIsGot, RipenedEnded, RowsAreWhole,
                    Feed!NothingSkipped

\* A step of a writer: a transaction that has ended is not changed.
LEMMA WriterKeeps ==
    ASSUME FeedInv, nextId' \in Nat \ {0}, nextId <= nextId',
           event' \in [Feed!Ids -> {"none", "open", "mine", "foreign", "gone"}],
           \A i \in Feed!Ids : event'[i] = "none" <=> i >= nextId',
           \A i \in Feed!Ids : event[i] \in {"none", "open"} \/ event'[i] = event[i],
           UNCHANGED <<feed, cursor, read, settled, seen, sent, hi, rows, start, got, last,
                       twice, guarded, shorter>>
    PROVE  FeedInv'
<1>0. /\ FeedTypes /\ GivenInOrder /\ CursorTrails /\ SentIsGot /\ RipenedEnded
      /\ RowsAreWhole /\ Feed!NothingSkipped
  BY DEF FeedInv
<1>1. FeedTypes'
  BY <1>0 DEF FeedTypes, Numbers, Looks, Feed!Ids
<1>2. GivenInOrder'
  <2>1. \A x \in Numbers : x < nextId => x < nextId'
    BY <1>0, ServicesAssumption DEF FeedTypes, Numbers
  <2>2. \A k \in 1 .. Len(seen) : seen[k].id \in Numbers
    BY <1>0, LooksHold DEF FeedTypes
  <2>. QED
    BY <1>0, <2>1, <2>2 DEF FeedTypes, GivenInOrder, Feed!Ids
<1>3. CursorTrails' /\ SentIsGot'
  BY <1>0 DEF CursorTrails, SentIsGot
<1>4. \A i : Ripened(i)' <=> Ripened(i)
  BY DEF Ripened
<1>5. ASSUME feed # "down", guarded, NEW i \in Feed!Ids, i > start, Ripened(i)
      PROVE  event'[i] = event[i] /\ event[i] \notin {"none", "open"}
  BY <1>0, <1>5 DEF RipenedEnded
<1>6. RipenedEnded'
  BY <1>4, <1>5 DEF RipenedEnded, Feed!Ids
<1>7. RowsAreWhole'
  BY <1>0, <1>4, <1>5 DEF RowsAreWhole, Feed!Ids
<1>8. Feed!NothingSkipped'
  <2>. SUFFICES ASSUME feed # "down", guarded, ~shorter, NEW i \in start + 1 .. cursor,
                       event'[i] = "mine"
                PROVE  i \in got
    BY DEF Feed!NothingSkipped, Feed!Framed
  <2>1. i \in Feed!Ids /\ i > start /\ i <= settled
    BY <1>0, ServicesAssumption DEF FeedTypes, Numbers, CursorTrails, Feed!Ids
  <2>2. event[i] = "mine"
    BY <1>5, <2>1 DEF Ripened
  <2>. QED
    BY <1>0, <2>2 DEF Feed!NothingSkipped, Feed!Framed
<1>. QED
  BY <1>1, <1>2, <1>3, <1>6, <1>7, <1>8 DEF FeedInv

LEMMA InsertEventKeeps == ASSUME FeedInv, Feed!InsertEvent PROVE FeedInv'
<1>0. FeedTypes /\ GivenInOrder
  BY DEF FeedInv
<1>1. /\ nextId \in Feed!Ids /\ nextId' = nextId + 1
      /\ event' = [event EXCEPT ![nextId] = "open"]
      /\ UNCHANGED <<feed, cursor, read, settled, seen, sent, hi, rows, start, got, last,
                     twice, guarded, shorter>>
  BY DEF Feed!InsertEvent, Feed!connVars
<1>2. nextId' \in Nat \ {0} /\ nextId <= nextId'
  BY <1>0, <1>1 DEF FeedTypes
<1>3. event' \in [Feed!Ids -> {"none", "open", "mine", "foreign", "gone"}]
  BY <1>0, <1>1 DEF FeedTypes
<1>4. \A i \in Feed!Ids : event'[i] = "none" <=> i >= nextId'
  <2>. SUFFICES ASSUME NEW i \in Feed!Ids PROVE event'[i] = "none" <=> i >= nextId + 1
    BY <1>1
  <2>1. i \in Int /\ nextId \in Int
    BY <1>0, ServicesAssumption DEF Feed!Ids, FeedTypes
  <2>2. CASE i = nextId
    BY <1>0, <1>1, <2>1, <2>2 DEF FeedTypes
  <2>3. CASE i # nextId
    <3>1. event'[i] = event[i]
      BY <1>0, <1>1, <2>3 DEF FeedTypes
    <3>2. event[i] = "none" <=> i >= nextId
      BY <1>0 DEF GivenInOrder
    <3>. QED
      BY <2>1, <2>3, <3>1, <3>2
  <2>. QED
    BY <2>2, <2>3
<1>5. \A i \in Feed!Ids : event[i] \in {"none", "open"} \/ event'[i] = event[i]
  <2>1. nextId >= nextId
    BY <1>0 DEF FeedTypes
  <2>2. event[nextId] = "none"
    BY <1>0, <1>1, <2>1 DEF GivenInOrder
  <2>. QED
    BY <1>0, <1>1, <2>2 DEF FeedTypes
<1>. QED
  BY <1>1, <1>2, <1>3, <1>4, <1>5, WriterKeeps

LEMMA EndTransactionKeeps ==
    ASSUME FeedInv, NEW n \in Feed!Ids, Feed!EndTransaction(n) PROVE FeedInv'
<1>0. FeedTypes /\ GivenInOrder
  BY DEF FeedInv
<1>1. PICK fate \in {"mine", "foreign", "gone"} : event' = [event EXCEPT ![n] = fate]
  BY DEF Feed!EndTransaction
<1>2. /\ event[n] = "open"
      /\ UNCHANGED <<nextId, feed, cursor, read, settled, seen, sent, hi, rows, start, got, last,
                     twice, guarded, shorter>>
  BY DEF Feed!EndTransaction, Feed!connVars
<1>3. nextId' \in Nat \ {0} /\ nextId <= nextId'
  BY <1>0, <1>2 DEF FeedTypes
<1>4. event' \in [Feed!Ids -> {"none", "open", "mine", "foreign", "gone"}]
  BY <1>0, <1>1 DEF FeedTypes
<1>5. \A i \in Feed!Ids : event'[i] = "none" <=> i >= nextId'
  BY <1>0, <1>1, <1>2 DEF FeedTypes, GivenInOrder
<1>6. \A i \in Feed!Ids : event[i] \in {"none", "open"} \/ event'[i] = event[i]
  BY <1>0, <1>1, <1>2 DEF FeedTypes
<1>. QED
  BY <1>2, <1>3, <1>4, <1>5, <1>6, WriterKeeps

\* What is visible was given before, the head of the feed too.
LEMMA HeadHolds ==
    ASSUME FeedTypes, GivenInOrder, NEW S \in SUBSET Feed!Visible, NEW d \in Numbers, d < nextId
    PROVE  Feed!MaxOf(S, d) \in Numbers /\ Feed!MaxOf(S, d) < nextId
<1>1. Feed!Ids \subseteq Numbers
  BY ServicesAssumption DEF Feed!Ids, Numbers
<1>2. ASSUME NEW i \in S PROVE i \in Numbers /\ i < nextId
  <2>1. i \in Feed!Ids /\ event[i] # "none"
    BY DEF Feed!Visible
  <2>2. ~(i >= nextId)
    BY <2>1 DEF GivenInOrder
  <2>. QED
    BY <1>1, <2>1, <2>2, ServicesAssumption DEF FeedTypes, Numbers
<1>3. Feed!MaxOf(S, d) \in Numbers /\ Feed!MaxOf(S, d) \in S \cup {d}
  BY <1>2, MaxOfHolds
<1>. QED
  BY <1>2, <1>3

LEMMA ConnectKeeps == ASSUME FeedInv, Feed!Connect PROVE FeedInv'
<1>0. FeedTypes /\ GivenInOrder
  BY DEF FeedInv
<1>1. PICK from \in {0, Feed!MaxEventID} \cup ({last} \ {0}) :
        start' = from /\ cursor' = from /\ read' = from /\ settled' = from
  BY DEF Feed!Connect
<1>2. /\ feed' = "idle" /\ seen' = <<>> /\ sent' = {} /\ hi' = 0 /\ rows' = {}
      /\ got' = {} /\ twice' = {} /\ UNCHANGED <<nextId, event, last>>
  BY DEF Feed!Connect
<1>3. from \in Numbers /\ from < nextId /\ 0 \in Numbers /\ 0 < nextId
  <2>1. 0 \in Numbers /\ 0 < nextId
    BY <1>0, ServicesAssumption DEF Numbers, FeedTypes
  <2>2. Feed!MaxEventID \in Numbers /\ Feed!MaxEventID < nextId
    BY <1>0, <2>1, HeadHolds DEF Feed!MaxEventID
  <2>. QED
    BY <1>0, <2>1, <2>2 DEF FeedTypes, GivenInOrder
<1>4. FeedTypes'
  BY <1>0, <1>1, <1>2, <1>3, EmptySeq DEF FeedTypes, Numbers, Looks, Feed!Ids
<1>5. GivenInOrder'
  BY <1>0, <1>1, <1>2, <1>3 DEF GivenInOrder, Feed!Ids
<1>6. CursorTrails' /\ SentIsGot'
  BY <1>1, <1>2, <1>3, ServicesAssumption DEF CursorTrails, SentIsGot, Numbers
<1>7. RipenedEnded'
  <2>. SUFFICES ASSUME NEW i \in Feed!Ids, i > start', Ripened(i)' PROVE FALSE
    BY DEF RipenedEnded, Feed!Ids
  <2>1. i > from /\ i <= from
    BY <1>1, <1>2 DEF Ripened
  <2>. QED
    BY <1>3, <2>1, ServicesAssumption DEF Feed!Ids, Numbers
<1>8. RowsAreWhole'
  BY <1>2 DEF RowsAreWhole
<1>9. Feed!NothingSkipped'
  <2>1. start' + 1 .. cursor' = {}
    BY <1>1, <1>3, ServicesAssumption DEF Numbers
  <2>. QED
    BY <2>1 DEF Feed!NothingSkipped, Feed!Framed
<1>. QED
  BY <1>4, <1>5, <1>6, <1>7, <1>8, <1>9 DEF FeedInv

\* A step of the connection that moves no cursor.
LEMMA ReadKeeps ==
    ASSUME FeedInv, feed' \in {"down", "idle", "mark", "rows"},
           feed = "down" => feed' = "down",
           hi' \in Numbers, hi' < nextId, rows' \in SUBSET Numbers,
           UNCHANGED <<nextId, event, cursor, read, settled, seen, sent, start, got, last,
                       twice, guarded, shorter>>,
           feed' = "rows" => rows' = {i \in cursor + 1 .. hi' : event[i] = "mine"}
    PROVE  FeedInv'
<1>0. /\ FeedTypes /\ GivenInOrder /\ CursorTrails /\ SentIsGot /\ RipenedEnded
      /\ RowsAreWhole /\ Feed!NothingSkipped
  BY DEF FeedInv
<1>1. FeedTypes'
  BY <1>0 DEF FeedTypes, Numbers, Looks, Feed!Ids
<1>2. GivenInOrder' /\ CursorTrails'
  BY <1>0 DEF GivenInOrder, CursorTrails, Feed!Ids
<1>3. cursor \in Int /\ hi' \in Int /\ Feed!Ids \subseteq Int
  BY <1>0, ServicesAssumption DEF FeedTypes, Numbers, Feed!Ids
<1>4. SentIsGot'
  BY <1>0, <1>3 DEF SentIsGot
<1>5. RipenedEnded'
  BY <1>0 DEF RipenedEnded, Ripened, Feed!Ids
<1>6. RowsAreWhole'
  BY <1>3 DEF RowsAreWhole, Feed!Ids
<1>7. Feed!NothingSkipped'
  BY <1>0 DEF Feed!NothingSkipped, Feed!Framed
<1>. QED
  BY <1>1, <1>2, <1>4, <1>5, <1>6, <1>7 DEF FeedInv

LEMMA AgeKeeps == ASSUME FeedInv, Feed!Age PROVE FeedInv'
<1>0. /\ FeedTypes /\ GivenInOrder /\ CursorTrails /\ SentIsGot /\ RipenedEnded
      /\ RowsAreWhole /\ Feed!NothingSkipped
  BY DEF FeedInv
<1>1. PICK k \in 1 .. Len(seen) :
        /\ \A i \in 1 .. seen[k].id : event[i] # "open"
        /\ seen' = [seen EXCEPT ![k].ripe = TRUE]
  BY DEF Feed!Age
<1>2. /\ feed = "idle"
      /\ UNCHANGED <<nextId, event, feed, cursor, read, settled, sent, hi, rows, start, got,
                     last, twice, guarded, shorter>>
  BY DEF Feed!Age
<1>3. seen \in Seq(Looks) /\ seen[k] \in Looks /\ seen[k].id \in Numbers
  BY <1>0, LooksHold DEF FeedTypes
<1>4. seen' \in Seq(Looks) /\ Len(seen') = Len(seen)
  <2>. DEFINE look == [seen[k] EXCEPT !.ripe = TRUE]
  <2>1. look \in Looks
    BY <1>3 DEF Looks
  <2>2. seen' = [seen EXCEPT ![k] = look]
    BY <1>1
  <2>. HIDE DEF look
  <2>. QED
    BY <1>3, <2>1, <2>2, ExceptSeq
<1>5. ASSUME NEW j \in 1 .. Len(seen)
      PROVE  seen'[j].id = seen[j].id /\ (j # k => seen'[j] = seen[j])
  BY <1>1, <1>3, <1>5, LooksHold DEF Looks
<1>6. FeedTypes'
  BY <1>0, <1>2, <1>4 DEF FeedTypes, Numbers, Looks, Feed!Ids
<1>7. GivenInOrder'
  BY <1>0, <1>2, <1>4, <1>5 DEF GivenInOrder, Feed!Ids
<1>8. CursorTrails' /\ SentIsGot'
  BY <1>0, <1>2 DEF CursorTrails, SentIsGot
<1>9. RipenedEnded'
  <2>. SUFFICES ASSUME guarded, NEW i \in Feed!Ids, i > start, Ripened(i)'
                PROVE  event[i] \notin {"none", "open"}
    BY <1>2 DEF RipenedEnded, Feed!Ids
  <2>1. CASE Ripened(i)
    BY <1>0, <1>2, <2>1 DEF RipenedEnded
  <2>2. CASE ~Ripened(i)
    <3>1. PICK j \in 1 .. Len(seen') : seen'[j].ripe /\ i <= seen'[j].id
      BY <1>2, <2>2 DEF Ripened
    <3>2. j = k /\ i <= seen[k].id
      BY <1>4, <1>5, <2>2, <3>1 DEF Ripened
    <3>3. i \in 1 .. seen[k].id /\ i < nextId
      BY <1>0, <1>3, <3>2, ServicesAssumption DEF FeedTypes, GivenInOrder, Numbers, Feed!Ids
    <3>4. ~(i >= nextId)
      BY <1>0, <3>3, ServicesAssumption DEF FeedTypes, Feed!Ids
    <3>. QED
      BY <1>0, <1>1, <3>3, <3>4 DEF GivenInOrder
  <2>. QED
    BY <2>1, <2>2
<1>10. RowsAreWhole' /\ Feed!NothingSkipped'
  BY <1>0, <1>2 DEF RowsAreWhole, Feed!NothingSkipped, Feed!Framed
<1>. QED
  BY <1>6, <1>7, <1>8, <1>9, <1>10 DEF FeedInv

\* The queue with the head that was observed: what is ripe in it was so before.
LEMMA QueuedHolds ==
    ASSUME FeedTypes, GivenInOrder, NEW head \in Numbers, head < nextId
    PROVE  LET q == Feed!Queued(head)
           IN  /\ q \in Seq(Looks)
               /\ \A k \in 1 .. Len(q) :
                    q[k].id < nextId /\ (q[k].ripe => k \in 1 .. Len(seen) /\ q[k] = seen[k])
<1>. DEFINE look == [id |-> head, ripe |-> FALSE]
            q == Feed!Queued(head)
<1>1. seen \in Seq(Looks) /\ Len(seen) \in Nat
  BY LenProperties DEF FeedTypes
<1>2. CASE q = seen
  BY <1>1, <1>2 DEF GivenInOrder
<1>3. CASE q = Append(seen, look)
  <2>1. look \in Looks /\ look.id = head /\ look.ripe = FALSE
    BY DEF Looks
  <2>. HIDE DEF look
  <2>2. /\ Append(seen, look) \in Seq(Looks) /\ Len(Append(seen, look)) = Len(seen) + 1
        /\ \A k \in 1 .. Len(seen) : Append(seen, look)[k] = seen[k]
        /\ Append(seen, look)[Len(seen) + 1] = look
    BY <1>1, <2>1, AppendProperties
  <2>. HIDE DEF q
  <2>3. ASSUME NEW k \in 1 .. Len(q)
        PROVE  q[k].id < nextId /\ (q[k].ripe => k \in 1 .. Len(seen) /\ q[k] = seen[k])
    <3>1. CASE k \in 1 .. Len(seen)
      BY <1>3, <2>2, <3>1 DEF GivenInOrder
    <3>2. CASE k \notin 1 .. Len(seen)
      <4>1. k = Len(seen) + 1
        BY <1>1, <1>3, <2>2, <2>3, <3>2
      <4>. QED
        BY <1>3, <2>1, <2>2, <4>1
    <3>. QED
      BY <3>1, <3>2
  <2>4. q \in Seq(Looks)
    BY <1>3, <2>2
  <2>. QED
    BY <2>3, <2>4 DEF q
<1>. QED
  BY <1>2, <1>3 DEF Feed!Queued

LEMMA RipeHolds ==
    ASSUME NEW q \in Seq(Looks)
    PROVE  Feed!Cardinality(Feed!Ripe(q)) \in Nat /\ Feed!Ripe(q) \subseteq 1 .. Len(q)
<1>1. Feed!Ripe(q) \subseteq 1 .. Len(q)
  BY DEF Feed!Ripe
<1>2. Len(q) \in Nat
  BY LenProperties
<1>3. IsFiniteSet(1 .. Len(q))
  BY <1>2, FS_Interval
<1>4. Cardinality(Feed!Ripe(q)) \in Nat
  BY <1>1, <1>3, FS_Subset, FS_CardinalityType
<1>5. \A T : Feed!Cardinality(T) = Cardinality(T)
  BY DEF Feed!Cardinality, Cardinality
<1>. QED
  BY <1>1, <1>4, <1>5

\* What the end of a poll makes of its cursors, whether the guard is given up or
\* not: they are ids given before, and nothing unripe becomes settled.
LEMMA PollEnds ==
    ASSUME FeedInv, Feed!PollDone
    PROVE  /\ read' \in Numbers /\ read' < nextId /\ read' >= read /\ read' >= hi
           /\ hi >= read => read' = hi
           /\ settled' \in Numbers /\ settled' < nextId /\ settled' >= cursor
           /\ seen' \in Seq(Looks) /\ \A k \in 1 .. Len(seen') : seen'[k].id < nextId
           /\ guarded' => /\ guarded
                          /\ \A i \in Feed!Ids : Ripened(i)' => Ripened(i)
<1>0. FeedTypes /\ GivenInOrder /\ CursorTrails
  BY DEF FeedInv
<1>. DEFINE over == Feed!Cardinality(sent \cup rows) > SentCap
<1>1. PICK head \in Feed!Heads :
        IF over THEN settled' = read' /\ seen' = <<>>
        ELSE /\ settled' = Feed!MaxOf({Feed!Queued(head)[k].id : k \in Feed!Ripe(Feed!Queued(head))},
                                      settled)
             /\ seen' = SubSeq(Feed!Queued(head), Feed!Cardinality(Feed!Ripe(Feed!Queued(head))) + 1,
                               Len(Feed!Queued(head)))
  BY DEF Feed!PollDone
<1>2. read' = Feed!Reached /\ (guarded' <=> guarded /\ ~over)
  BY DEF Feed!PollDone
<1>. HIDE DEF over
<1>. DEFINE q == Feed!Queued(head)
            c == Feed!Cardinality(Feed!Ripe(q))
            ids == {q[k].id : k \in Feed!Ripe(q)}
<1>3. /\ hi \in Numbers /\ read \in Numbers /\ settled \in Numbers /\ cursor \in Numbers
      /\ hi < nextId /\ read < nextId /\ settled < nextId /\ cursor <= read /\ cursor <= settled
  BY <1>0 DEF FeedTypes, GivenInOrder, CursorTrails
<1>n. \A x \in Numbers : x \in Int
  BY ServicesAssumption DEF Numbers
<1>4. head \in Numbers /\ head < nextId
  <2>1. Feed!MaxOf(Feed!Visible, hi) \in Numbers /\ Feed!MaxOf(Feed!Visible, hi) < nextId
    BY <1>0, <1>3, HeadHolds
  <2>. QED
    BY <1>3, <2>1 DEF Feed!Heads
<1>5. /\ read' \in Numbers /\ read' < nextId /\ read' >= read /\ read' >= hi
      /\ hi >= read => read' = hi
  <2>1. /\ Feed!MaxOf({hi}, read) \in Numbers /\ Feed!MaxOf({hi}, read) \in {hi} \cup {read}
        /\ Feed!MaxOf({hi}, read) >= read /\ Feed!MaxOf({hi}, read) >= hi
    <3>1. {hi} \in SUBSET Numbers
      BY <1>3
    <3>. QED
      BY <1>3, <3>1, MaxOfHolds
  <2>. QED
    BY <1>2, <1>3, <1>n, <2>1 DEF Feed!Reached
<1>6. /\ q \in Seq(Looks)
      /\ \A k \in 1 .. Len(q) :
           q[k].id < nextId /\ (q[k].ripe => k \in 1 .. Len(seen) /\ q[k] = seen[k])
  BY <1>0, <1>4, QueuedHolds
<1>7. c \in Nat /\ Feed!Ripe(q) \subseteq 1 .. Len(q) /\ \A k \in Feed!Ripe(q) : q[k].ripe
  <2>1. c \in Nat /\ Feed!Ripe(q) \subseteq 1 .. Len(q)
    BY <1>6, RipeHolds
  <2>2. ASSUME NEW k \in Feed!Ripe(q) PROVE q[k].ripe
    <3>1. k \in 1 .. Len(q) /\ k \in 1 .. k
      BY <2>1
    <3>2. \A j \in 1 .. k : q[j].ripe
      BY DEF Feed!Ripe
    <3>. QED
      BY <3>1, <3>2
  <2>. QED
    BY <2>1, <2>2
<1>8. CASE over
  <2>1. settled' = read' /\ seen' = <<>> /\ ~guarded'
    BY <1>1, <1>2, <1>8
  <2>2. seen' \in Seq(Looks) /\ 1 .. Len(seen') = {}
    BY <2>1, EmptySeq
  <2>. QED
    BY <1>3, <1>5, <1>n, <2>1, <2>2
<1>9. CASE ~over
  <2>1. settled' = Feed!MaxOf(ids, settled) /\ seen' = SubSeq(q, c + 1, Len(q))
    BY <1>1, <1>9
  <2>2. guarded' <=> guarded
    BY <1>2, <1>9
  <2>. HIDE DEF c, q
  <2>3. /\ ids \in SUBSET Numbers /\ \A x \in ids : x < nextId
        /\ \A x \in ids : \E k \in 1 .. Len(seen) : seen[k].ripe /\ x = seen[k].id
    <3>. SUFFICES ASSUME NEW k \in Feed!Ripe(q)
                  PROVE  /\ q[k].id \in Numbers /\ q[k].id < nextId
                         /\ \E j \in 1 .. Len(seen) : seen[j].ripe /\ q[k].id = seen[j].id
      OBVIOUS
    <3>1. k \in 1 .. Len(q) /\ q[k].ripe
      BY <1>7
    <3>2. q[k].id \in Numbers
      BY <1>6, <3>1, LooksHold
    <3>. QED
      BY <1>6, <3>1, <3>2
  <2>. HIDE DEF ids
  <2>4. /\ settled' \in Numbers /\ settled' \in ids \cup {settled} /\ settled' >= settled
    BY <1>3, <2>1, <2>3, MaxOfHolds
  <2>5. settled' < nextId /\ settled' >= cursor
    BY <1>3, <1>n, <2>3, <2>4
  <2>6. /\ seen' \in Seq(Looks)
        /\ \A k \in 1 .. Len(seen') : k + c \in 1 .. Len(q) /\ seen'[k] = q[k + c]
    <3>1. Len(q) \in Nat /\ c + 1 \in Int /\ Len(q) \in Int
      BY <1>6, <1>7, LenProperties
    <3>2. \A j \in c + 1 .. Len(q) : q[j] \in Looks
      BY <1>6, <1>7, <3>1, LooksHold
    <3>3. /\ SubSeq(q, c + 1, Len(q)) \in Seq(Looks)
          /\ Len(SubSeq(q, c + 1, Len(q))) = (IF c + 1 <= Len(q) THEN Len(q) - (c + 1) + 1 ELSE 0)
          /\ \A j \in 1 .. Len(q) - (c + 1) + 1 :
               SubSeq(q, c + 1, Len(q))[j] = q[(c + 1) + j - 1]
      BY <3>1, <3>2, SubSeqProperties
    <3>4. ASSUME NEW k \in 1 .. Len(seen') PROVE k + c \in 1 .. Len(q) /\ seen'[k] = q[k + c]
      <4>1. /\ Len(seen') = (IF c + 1 <= Len(q) THEN Len(q) - (c + 1) + 1 ELSE 0)
        BY <2>1, <3>3
      <4>2. k \in 1 .. Len(q) - (c + 1) + 1 /\ k + c \in 1 .. Len(q) /\ (c + 1) + k - 1 = k + c
        BY <1>7, <3>1, <4>1
      <4>. QED
        BY <2>1, <3>3, <4>2
    <3>. QED
      BY <2>1, <3>3, <3>4
  <2>7. \A k \in 1 .. Len(seen') : seen'[k].id < nextId
    BY <1>6, <2>6
  <2>8. ASSUME NEW i \in Feed!Ids, Ripened(i)' PROVE Ripened(i)
    <3>0. i \in Int
      BY ServicesAssumption DEF Feed!Ids
    <3>1. CASE i <= settled'
      <4>1. CASE settled' = settled
        BY <3>1, <4>1 DEF Ripened
      <4>2. CASE settled' \in ids
        BY <2>3, <3>1, <4>2 DEF Ripened
      <4>. QED
        BY <2>4, <4>1, <4>2
    <3>2. CASE \E k \in 1 .. Len(seen') : seen'[k].ripe /\ i <= seen'[k].id
      BY <1>6, <2>6, <3>2 DEF Ripened
    <3>. QED
      BY <2>8, <3>1, <3>2 DEF Ripened
  <2>. QED
    BY <1>5, <2>2, <2>4, <2>5, <2>6, <2>7, <2>8
<1>. QED
  BY <1>8, <1>9

LEMMA PollDoneKeeps == ASSUME FeedInv, Feed!PollDone PROVE FeedInv'
<1>0. /\ FeedTypes /\ GivenInOrder /\ CursorTrails /\ SentIsGot /\ RipenedEnded
      /\ RowsAreWhole /\ Feed!NothingSkipped
  BY DEF FeedInv
<1>. DEFINE unsent == rows \ sent
            least == IF settled' < read' THEN settled' ELSE read'
<1>1. /\ feed = "rows" /\ feed' = "idle" /\ hi' = 0 /\ rows' = {}
      /\ UNCHANGED <<nextId, event, start>>
      /\ cursor' = Feed!MaxOf({least}, cursor)
      /\ sent' = {i \in sent \cup rows : i > cursor'}
      /\ got' = got \cup unsent /\ twice' = twice \cup (unsent \cap got)
      /\ last' = IF unsent = {} THEN last ELSE Feed!Max(unsent)
      /\ shorter' = (shorter \/ hi < read)
  BY DEF Feed!PollDone, Feed!NextCursor, Feed!StillSent
<1>2. /\ read' \in Numbers /\ read' < nextId /\ read' >= read /\ read' >= hi
      /\ hi >= read => read' = hi
      /\ settled' \in Numbers /\ settled' < nextId /\ settled' >= cursor
      /\ seen' \in Seq(Looks) /\ \A k \in 1 .. Len(seen') : seen'[k].id < nextId
      /\ guarded' => /\ guarded
                     /\ \A i \in Feed!Ids : Ripened(i)' => Ripened(i)
  BY PollEnds
<1>3. /\ cursor \in Numbers /\ read \in Numbers /\ hi \in Numbers /\ start \in Numbers
      /\ last \in Numbers /\ cursor <= read /\ cursor < nextId /\ hi < nextId /\ last < nextId
      /\ rows \in SUBSET Numbers /\ got \in SUBSET Numbers /\ nextId \in Nat \ {0}
  BY <1>0 DEF FeedTypes, GivenInOrder, CursorTrails
<1>n. Numbers \subseteq Int /\ 0 \in Numbers /\ 0 < nextId /\ Feed!Ids \subseteq Numbers
  BY <1>3, ServicesAssumption DEF Numbers, Feed!Ids
<1>4. /\ cursor' \in Numbers /\ cursor' >= cursor /\ cursor' < nextId
      /\ cursor' <= read' /\ cursor' <= settled'
  <2>1. least \in Numbers /\ least <= read' /\ least <= settled'
    BY <1>2, <1>n
  <2>. HIDE DEF least
  <2>2. cursor' \in Numbers /\ cursor' \in {least} \cup {cursor} /\ cursor' >= cursor
    <3>1. {least} \in SUBSET Numbers
      BY <2>1
    <3>. QED
      BY <1>1, <1>3, <3>1, MaxOfHolds
  <2>3. \A x, y, z \in Numbers : x <= y /\ y <= z => x <= z
    BY <1>n
  <2>4. \A x, y \in Numbers : x >= y => y <= x
    BY <1>n
  <2>5. cursor <= read' /\ cursor <= settled'
    BY <1>2, <1>3, <2>3, <2>4
  <2>6. least < nextId
    BY <1>2 DEF least
  <2>. QED
    BY <1>3, <2>1, <2>2, <2>5, <2>6
<1>5. /\ unsent \subseteq rows /\ sent \subseteq got /\ \A i \in rows : cursor < i /\ i <= hi
      /\ unsent \cap got = {}
  BY <1>0, <1>1 DEF SentIsGot
<1>6. last' \in Numbers /\ last' < nextId
  <2>1. CASE unsent = {}
    BY <1>1, <1>3, <2>1
  <2>2. CASE unsent # {}
    <3>1. unsent \in SUBSET Numbers
      BY <1>3
    <3>2. Feed!Max(unsent) \in unsent
      BY <2>2, <3>1, GreatestOf
    <3>3. last' \in rows
      BY <1>1, <1>5, <2>2, <3>2
    <3>. QED
      BY <1>3, <1>5, <1>n, <3>3
  <2>. QED
    BY <2>1, <2>2
<1>7. FeedTypes'
  <2>1. hi' \in Numbers /\ rows' \in SUBSET Numbers /\ got' \in SUBSET Numbers
    BY <1>1, <1>3, <1>n
  <2>. QED
    BY <1>0, <1>1, <1>2, <1>4, <1>6, <2>1 DEF FeedTypes, Numbers, Looks, Feed!Ids
<1>8. GivenInOrder'
  BY <1>0, <1>1, <1>2, <1>4, <1>6, <1>n DEF GivenInOrder, Feed!Ids
<1>9. CursorTrails'
  BY <1>4 DEF CursorTrails
<1>10. SentIsGot'
  <2>1. twice' = {}
    BY <1>0, <1>1, <1>5 DEF SentIsGot
  <2>2. ASSUME NEW i PROVE i \in sent' <=> i \in got' /\ i > cursor'
    <3>1. CASE i \in rows \/ i \in sent
      BY <1>1, <1>5, <3>1
    <3>2. CASE i \notin rows /\ i \notin sent
      <4>1. ASSUME i \in got, i > cursor' PROVE FALSE
        <5>1. i \in Int /\ i > cursor
          BY <1>3, <1>4, <1>n, <4>1
        <5>. QED
          BY <1>0, <3>2, <4>1, <5>1 DEF SentIsGot
      <4>. QED
        BY <1>1, <1>5, <3>2, <4>1
    <3>. QED
      BY <3>1, <3>2
  <2>3. sent' = {i \in got' : i > cursor'}
    BY <2>2
  <2>. QED
    BY <1>1, <2>1, <2>3 DEF SentIsGot
<1>11. RipenedEnded'
  BY <1>0, <1>1, <1>2 DEF RipenedEnded, Feed!Ids
<1>12. RowsAreWhole'
  BY <1>1 DEF RowsAreWhole
<1>13. Feed!NothingSkipped'
  <2>. SUFFICES ASSUME guarded', ~shorter', NEW i \in start + 1 .. cursor', event[i] = "mine"
                PROVE  i \in got'
    BY <1>1 DEF Feed!NothingSkipped, Feed!Framed
  <2>1. guarded /\ ~shorter /\ ~(hi < read)
    BY <1>1, <1>2
  <2>2. i \in Feed!Ids /\ i \in Int /\ i > start /\ i <= cursor'
    BY <1>3, <1>4, ServicesAssumption DEF Numbers, Feed!Ids
  <2>3. CASE i <= cursor
    <3>1. i \in start + 1 .. cursor
      BY <1>3, <1>n, <2>2, <2>3
    <3>. QED
      BY <1>0, <1>1, <2>1, <3>1 DEF Feed!NothingSkipped, Feed!Framed
  <2>4. CASE ~(i <= cursor)
    <3>1. i > cursor /\ i <= settled' /\ i <= hi
      BY <1>2, <1>3, <1>4, <1>n, <2>1, <2>2, <2>4
    <3>2. Ripened(i)'
      BY <3>1 DEF Ripened
    <3>3. i \in rows
      BY <1>0, <1>1, <1>2, <2>1, <2>2, <3>1, <3>2 DEF RowsAreWhole
    <3>. QED
      BY <1>1, <1>5, <3>3
  <2>. QED
    BY <2>3, <2>4
<1>. QED
  BY <1>7, <1>8, <1>9, <1>10, <1>11, <1>12, <1>13 DEF FeedInv

LEMMA FeedStep == ASSUME FeedInv, Feed!Next PROVE FeedInv'
<1>0. FeedTypes /\ GivenInOrder
  BY DEF FeedInv
<1>n. 0 \in Numbers /\ 0 < nextId /\ hi \in Numbers /\ hi < nextId /\ rows \in SUBSET Numbers
  BY <1>0, ServicesAssumption DEF Numbers, FeedTypes, GivenInOrder
<1>1. ASSUME Feed!Disconnect PROVE FeedInv'
  <2>1. /\ feed' = "down"
        /\ UNCHANGED <<nextId, event, cursor, read, settled, seen, sent, hi, rows, start, got, last,
                       twice, guarded, shorter>>
    BY <1>1 DEF Feed!Disconnect, Feed!connVars
  <2>. QED
    BY <1>n, <2>1, ReadKeeps
<1>2. ASSUME Feed!ListFails PROVE FeedInv'
  <2>1. /\ feed # "down" /\ feed' = "idle" /\ hi' = 0 /\ rows' = {}
        /\ UNCHANGED <<nextId, event, cursor, read, settled, seen, sent, start, got, last,
                       twice, guarded, shorter>>
    BY <1>2 DEF Feed!ListFails
  <2>. QED
    BY <1>n, <2>1, ReadKeeps
<1>3. ASSUME Feed!PollWatermark PROVE FeedInv'
  <2>1. /\ feed # "down" /\ feed' = "mark" /\ hi' = Feed!MaxOf(Feed!Window, cursor)
        /\ UNCHANGED <<nextId, event, cursor, read, settled, seen, sent, rows, start, got, last,
                       twice, guarded, shorter>>
    BY <1>3 DEF Feed!PollWatermark
  <2>2. Feed!Window \in SUBSET Feed!Visible
    BY DEF Feed!Window
  <2>3. cursor \in Numbers /\ cursor < nextId
    BY <1>0 DEF FeedTypes, GivenInOrder
  <2>4. hi' \in Numbers /\ hi' < nextId
    BY <1>0, <2>1, <2>2, <2>3, HeadHolds
  <2>5. rows' \in SUBSET Numbers
    BY <1>n, <2>1
  <2>. QED
    BY <2>1, <2>4, <2>5, ReadKeeps
<1>4. ASSUME Feed!PollRows PROVE FeedInv'
  <2>1. /\ feed # "down" /\ feed' = "rows" /\ rows' = {i \in cursor + 1 .. hi : event[i] = "mine"}
        /\ UNCHANGED <<nextId, event, cursor, read, settled, seen, sent, hi, start, got, last,
                       twice, guarded, shorter>>
    BY <1>4 DEF Feed!PollRows
  <2>2. rows' \in SUBSET Numbers
    <3>1. cursor + 1 .. hi \subseteq Numbers
      BY <1>0, ServicesAssumption DEF FeedTypes, Numbers
    <3>. QED
      BY <2>1, <3>1
  <2>3. hi' \in Numbers /\ hi' < nextId /\ rows' = {i \in cursor + 1 .. hi' : event[i] = "mine"}
    BY <1>n, <2>1
  <2>. QED
    BY <2>1, <2>2, <2>3, ReadKeeps
<1>. QED
  BY <1>1, <1>2, <1>3, <1>4, InsertEventKeeps, EndTransactionKeeps, ConnectKeeps, PollDoneKeeps,
     AgeKeeps DEF Feed!Next

-----------------------------------------------------------------------------
(* Image cleanup.                                                          *)

ImageTypes ==
    /\ version \in [Versions -> [state : {"none", "live", "disabled"}, marked : BOOLEAN]]
    /\ sweep \subseteq Versions /\ marking \subseteq Versions
    /\ awaitNodes \in [Versions -> SUBSET Nodes] /\ awaitRef \in [Nodes -> SUBSET Versions]
    /\ removals \in [Nodes -> BOOLEAN] /\ imageJob \in [Nodes -> {"none", "unused"}]
    /\ report \in [Nodes -> {"none", "busy", "removed", "absent", "error"}]
    /\ gone \in [Versions -> SUBSET Nodes]

OneVersion == \A v, w \in Versions : v = w
Disabled(v) == version[v].state = "disabled"

\* A removal, asked for, under way or reported, is of disabled versions, and a
\* node that reports one has lost the image since.
RemovalsFollow ==
    \A n \in Nodes :
        /\ removals[n] \/ imageJob[n] # "none" \/ report[n] # "none" =>
             \A v \in Versions : Disabled(v)
        /\ report[n] \in {"removed", "absent"} => \A v \in Versions : n \in gone[v]

\* A round waits for the nodes that have not lost the image, and more.
RoundsWait ==
    /\ \A v \in sweep : Disabled(v)
    /\ \A v \in Versions : awaitNodes[v] # {} => Disabled(v) /\ Nodes \ awaitNodes[v] \subseteq gone[v]
    /\ \A v \in marking : Disabled(v) /\ gone[v] = Nodes
    /\ \A v \in Versions : version[v].marked => Disabled(v) /\ gone[v] = Nodes

ImageInv == ImageTypes /\ (OneVersion => RemovalsFollow /\ RoundsWait)

LEMMA ImagesStart == Images!Init => ImageInv
BY DEF Images!Init, Images!NoRound, Images!NoReport, ImageInv, ImageTypes, RemovalsFollow,
       RoundsWait, Disabled

\* What a node loses counts for disabled versions, and is not taken back.
LEMMA LossKeeps ==
    ASSUME ImageInv, gone' \in [Versions -> SUBSET Nodes],
           \A v \in Versions : gone[v] \subseteq gone'[v],
           UNCHANGED <<version, sweep, marking, awaitNodes, awaitRef, removals, imageJob, report>>
    PROVE  ImageInv'
<1>1. ImageTypes'
  BY DEF ImageInv, ImageTypes
<1>2. ASSUME OneVersion PROVE RemovalsFollow' /\ RoundsWait'
  <2>1. RemovalsFollow'
    BY <1>2 DEF ImageInv, RemovalsFollow, Disabled
  <2>2. \A v \in Versions : gone[v] = Nodes => gone'[v] = Nodes
    OBVIOUS
  <2>3. RoundsWait'
    BY <1>2, <2>2 DEF ImageInv, ImageTypes, RoundsWait, Disabled
  <2>. QED
    BY <2>1, <2>3
<1>. QED
  BY <1>1, <1>2 DEF ImageInv

LEMMA Lost ==
    ASSUME ImageInv, NEW n \in Nodes, Images!Delete(n)
    PROVE  /\ gone' \in [Versions -> SUBSET Nodes] /\ \A v \in Versions : gone[v] \subseteq gone'[v]
           /\ \A v \in Versions : Disabled(v) => n \in gone'[v]
BY DEF Images!Delete, Images!State, ImageInv, ImageTypes, Disabled

LEMMA RegisterKeeps == ASSUME ImageInv, NEW v \in Versions, Images!Register(v) PROVE ImageInv'
<1>1. /\ version[v].state = "none" /\ version' = [version EXCEPT ![v].state = "live"]
      /\ UNCHANGED <<sweep, marking, awaitNodes, awaitRef, removals, imageJob, report, gone>>
  BY DEF Images!Register, Images!State, Images!master, Images!link
<1>2. ImageTypes'
  BY <1>1 DEF ImageInv, ImageTypes
<1>3. ASSUME OneVersion PROVE RemovalsFollow' /\ RoundsWait'
  <2>1. \A w \in Versions : w = v /\ ~Disabled(w)
    BY <1>1, <1>3 DEF OneVersion, Disabled
  <2>2. \A w \in Versions : version'[w].marked = version[w].marked
    BY <1>1 DEF ImageInv, ImageTypes
  <2>. QED
    BY <1>1, <1>3, <2>1, <2>2 DEF ImageInv, ImageTypes, RemovalsFollow, RoundsWait
<1>. QED
  BY <1>2, <1>3 DEF ImageInv

LEMMA DisableKeeps == ASSUME ImageInv, NEW v \in Versions, Images!Disable(v) PROVE ImageInv'
<1>1. /\ ~Disabled(v) /\ version' = [version EXCEPT ![v].state = "disabled"]
      /\ removals' \in {removals, [n \in Nodes |-> TRUE]} /\ gone' = [gone EXCEPT ![v] = Nodes \ image]
      /\ UNCHANGED <<sweep, marking, awaitNodes, awaitRef, imageJob, report>>
  BY DEF Images!Disable, Images!Live, Images!State, Images!SendAll, Images!master, Disabled
<1>2. ImageTypes'
  <2>1. gone' \in [Versions -> SUBSET Nodes]
    BY <1>1 DEF ImageInv, ImageTypes
  <2>2. removals' \in [Nodes -> BOOLEAN]
    BY <1>1 DEF ImageInv, ImageTypes
  <2>3. version' \in [Versions -> [state : {"none", "live", "disabled"}, marked : BOOLEAN]]
    BY <1>1 DEF ImageInv, ImageTypes
  <2>. QED
    BY <1>1, <2>1, <2>2, <2>3 DEF ImageInv, ImageTypes
<1>3. ASSUME OneVersion PROVE RemovalsFollow' /\ RoundsWait'
  <2>1. \A w \in Versions : w = v /\ ~Disabled(w) /\ Disabled(w)'
    BY <1>1, <1>3 DEF OneVersion, Disabled, ImageInv, ImageTypes
  <2>2. \A w \in Versions : version'[w].marked = version[w].marked
    BY <1>1 DEF ImageInv, ImageTypes
  <2>. QED
    BY <1>1, <1>3, <2>1, <2>2 DEF ImageInv, ImageTypes, RemovalsFollow, RoundsWait
<1>. QED
  BY <1>2, <1>3 DEF ImageInv

\* The sweep reads disabled versions and waits for every node anew.
LEMMA SweepKeeps == ASSUME ImageInv, Images!SweepReads \/ Images!SweepImages PROVE ImageInv'
<1>1. CASE Images!SweepReads
  <2>1. /\ sweep' = Images!Pending /\ \A v \in Images!Pending : v \in Versions /\ Disabled(v)
        /\ UNCHANGED <<version, marking, awaitNodes, awaitRef, removals, imageJob, report, gone>>
    BY <1>1 DEF Images!SweepReads, Images!Pending, Images!State, Images!link, Disabled
  <2>2. ImageTypes'
    BY <2>1 DEF ImageInv, ImageTypes
  <2>. QED
    BY <2>1, <2>2 DEF ImageInv, RemovalsFollow, RoundsWait, Disabled
<1>2. CASE Images!SweepImages
  <2>1. /\ sweep # {} /\ sweep' = {} /\ removals' = [n \in Nodes |-> TRUE]
        /\ awaitNodes' = [v \in Versions |-> IF v \in sweep THEN Nodes ELSE awaitNodes[v]]
        /\ awaitRef' = [n \in Nodes |-> sweep]
        /\ UNCHANGED <<version, marking, imageJob, report, gone>>
    BY <1>2 DEF Images!SweepImages, Images!Expect, Images!SendAll
  <2>2. ImageTypes'
    BY <2>1 DEF ImageInv, ImageTypes
  <2>3. ASSUME OneVersion PROVE RemovalsFollow' /\ RoundsWait'
    <3>1. \A w \in Versions : Disabled(w)
      BY <2>1, <2>3 DEF OneVersion, ImageInv, ImageTypes, RoundsWait
    <3>. QED
      BY <2>1, <2>3, <3>1 DEF ImageInv, RemovalsFollow, RoundsWait, Disabled
  <2>. QED
    BY <2>2, <2>3 DEF ImageInv
<1>. QED
  BY <1>1, <1>2

\* The node of a verdict that ends no round has lost the image.
LEMMA VerdictKeeps ==
    ASSUME ImageInv, NEW n \in Nodes, NEW st, Images!HandleImageReport(n, st) PROVE ImageInv'
<1>. DEFINE Ok == st \in {"removed", "absent"}
            heeded == {v \in awaitRef[n] : awaitNodes[v] # {}}
            A(v) == IF v \in heeded THEN IF Ok THEN awaitNodes[v] \ {n} ELSE {} ELSE awaitNodes[v]
            done == {v \in heeded : Ok /\ A(v) = {}}
<1>1. /\ report[n] = st /\ report' = [report EXCEPT ![n] = "none"]
      /\ awaitRef' = [awaitRef EXCEPT ![n] = {}]
      /\ UNCHANGED <<version, sweep, removals, imageJob, gone>>
  BY DEF Images!HandleImageReport, Images!NoReport
<1>2. awaitNodes' = [v \in Versions |-> A(v)] /\ marking' = marking \cup done
  BY DEF Images!HandleImageReport, Images!NoRound, Images!Verdict, Images!Removed
<1>3. heeded \subseteq Versions /\ \A v \in Versions : A(v) \in SUBSET Nodes
  BY DEF ImageInv, ImageTypes
<1>4. \A v \in done : Ok /\ v \in heeded /\ awaitNodes[v] # {} /\ A(v) = {}
  OBVIOUS
<1>5. \A v \in Versions : A(v) # {} =>
        awaitNodes[v] # {} /\ (A(v) = awaitNodes[v] \/ (Ok /\ A(v) = awaitNodes[v] \ {n}))
  OBVIOUS
<1>6. \A v \in done : A(v) = awaitNodes[v] \ {n}
  OBVIOUS
<1>. HIDE DEF heeded, A, done
<1>7. ImageTypes'
  <2>1. done \subseteq Versions
    BY <1>3, <1>4
  <2>. QED
    BY <1>1, <1>2, <1>3, <2>1 DEF ImageInv, ImageTypes
<1>8. ASSUME OneVersion PROVE RemovalsFollow' /\ RoundsWait'
  <2>1. RemovalsFollow'
    BY <1>1, <1>8 DEF ImageInv, ImageTypes, RemovalsFollow, Disabled
  <2>2. Ok => \A v \in Versions : n \in gone[v]
    BY <1>1, <1>8 DEF ImageInv, RemovalsFollow
  <2>. HIDE DEF Ok
  <2>3. \A v \in Versions : awaitNodes'[v] # {} => Disabled(v) /\ Nodes \ awaitNodes'[v] \subseteq gone[v]
    BY <1>2, <1>5, <1>8, <2>2 DEF ImageInv, RoundsWait
  <2>4. \A v \in done : Disabled(v) /\ gone[v] = Nodes
    <3>1. \A v \in done : /\ v \in Versions /\ Disabled(v) /\ n \in gone[v]
                          /\ Nodes \ awaitNodes[v] \subseteq gone[v]
      BY <1>3, <1>4, <1>8, <2>2 DEF ImageInv, RoundsWait
    <3>2. \A v \in Versions : gone[v] \subseteq Nodes
      BY DEF ImageInv, ImageTypes
    <3>3. \A v \in done : awaitNodes[v] \subseteq {n}
      BY <1>4, <1>6
    <3>. QED
      BY <3>1, <3>2, <3>3
  <2>5. RoundsWait'
    BY <1>1, <1>2, <1>8, <2>3, <2>4 DEF ImageInv, RoundsWait, Disabled
  <2>. QED
    BY <2>1, <2>5
<1>. QED
  BY <1>7, <1>8 DEF ImageInv

LEMMA MarkKeeps ==
    ASSUME ImageInv, NEW v \in Versions, NEW ok \in BOOLEAN, Images!MarkImageCleanupSent(v, ok)
    PROVE  ImageInv'
<1>1. /\ v \in marking /\ marking' = marking \ {v}
      /\ version' \in {version, [version EXCEPT ![v].marked = TRUE]}
      /\ UNCHANGED <<sweep, awaitNodes, awaitRef, removals, imageJob, report, gone>>
  BY DEF Images!MarkImageCleanupSent, Images!link
<1>2. ImageTypes'
  <2>. DEFINE catalog == [Versions -> [state : {"none", "live", "disabled"}, marked : BOOLEAN]]
  <2>t. version \in catalog
    BY DEF ImageInv, ImageTypes
  <2>m. [version EXCEPT ![v].marked = TRUE] \in catalog
    BY <2>t
  <2>1. version' \in catalog
    BY <1>1, <2>t, <2>m
  <2>2. marking' \subseteq Versions
    BY <1>1 DEF ImageInv, ImageTypes
  <2>3. /\ sweep \subseteq Versions /\ awaitNodes \in [Versions -> SUBSET Nodes]
        /\ awaitRef \in [Nodes -> SUBSET Versions] /\ removals \in [Nodes -> BOOLEAN]
        /\ imageJob \in [Nodes -> {"none", "unused"}]
        /\ report \in [Nodes -> {"none", "busy", "removed", "absent", "error"}]
        /\ gone \in [Versions -> SUBSET Nodes]
    BY DEF ImageInv, ImageTypes
  <2>. QED
    BY <1>1, <2>1, <2>2, <2>3 DEF ImageTypes
<1>3. \A w \in Versions : /\ version'[w].state = version[w].state
                          /\ version'[w].marked => version[w].marked \/ w = v
  BY <1>1 DEF ImageInv, ImageTypes
<1>4. ASSUME OneVersion PROVE RemovalsFollow' /\ RoundsWait'
  <2>1. \A w \in Versions : Disabled(w)' <=> Disabled(w)
    BY <1>3 DEF Disabled
  <2>2. Disabled(v) /\ gone[v] = Nodes
    BY <1>1, <1>4 DEF ImageInv, RoundsWait
  <2>3. RemovalsFollow'
    BY <1>1, <1>4, <2>1 DEF ImageInv, RemovalsFollow
  <2>4. RoundsWait'
    BY <1>1, <1>3, <1>4, <2>1, <2>2 DEF ImageInv, ImageTypes, RoundsWait
  <2>. QED
    BY <2>3, <2>4
<1>. QED
  BY <1>2, <1>4 DEF ImageInv

\* The agent looks before it deletes.
LEMMA RemovalKeeps ==
    ASSUME ImageInv, NEW n \in Nodes, NEW ok \in BOOLEAN,
           Images!RemoveImage(n) \/ Images!DeleteImage(n, ok)
    PROVE  ImageInv'
<1>1. CASE Images!RemoveImage(n)
  <2>1. /\ removals[n] /\ removals' = [removals EXCEPT ![n] = FALSE]
        /\ imageJob' \in {imageJob, [imageJob EXCEPT ![n] = "unused"]}
        /\ report' \in {report, [report EXCEPT ![n] = "busy"]}
        /\ UNCHANGED <<version, sweep, marking, awaitNodes, awaitRef, gone>>
    BY <1>1 DEF Images!RemoveImage, Images!ReportImage, Images!master
  <2>2. ImageTypes'
    BY <2>1 DEF ImageInv, ImageTypes
  <2>3. ASSUME OneVersion PROVE RemovalsFollow' /\ RoundsWait'
    <3>1. \A v \in Versions : Disabled(v)
      BY <2>1, <2>3 DEF ImageInv, RemovalsFollow
    <3>2. \A m \in Nodes : report'[m] \in {"removed", "absent"} => report'[m] = report[m]
      BY <2>1 DEF ImageInv, ImageTypes
    <3>. QED
      BY <2>1, <2>3, <3>1, <3>2 DEF ImageInv, RemovalsFollow, RoundsWait, Disabled
  <2>. QED
    BY <2>2, <2>3 DEF ImageInv
<1>2. CASE Images!DeleteImage(n, ok)
  <2>1. /\ imageJob[n] = "unused" /\ imageJob' = [imageJob EXCEPT ![n] = "none"]
        /\ UNCHANGED <<version, sweep, marking, awaitNodes, awaitRef, removals>>
        /\ \/ Images!Delete(n) /\ \E st \in {"removed", "absent"} : report' = [report EXCEPT ![n] = st]
           \/ gone' = gone /\ report' = [report EXCEPT ![n] = "error"]
    BY <1>2 DEF Images!DeleteImage, Images!ReportImage, Images!master
  <2>2. /\ gone' \in [Versions -> SUBSET Nodes] /\ \A v \in Versions : gone[v] \subseteq gone'[v]
        /\ gone' = gone \/ \A v \in Versions : Disabled(v) => n \in gone'[v]
    BY <2>1, Lost DEF ImageInv, ImageTypes
  <2>3. /\ report' \in [Nodes -> {"none", "busy", "removed", "absent", "error"}]
        /\ \A m \in Nodes : report'[m] \in {"removed", "absent"} =>
             \/ m # n /\ report'[m] = report[m]
             \/ m = n /\ \A v \in Versions : Disabled(v) => n \in gone'[v]
    BY <2>1, Lost DEF ImageInv, ImageTypes
  <2>4. ImageTypes'
    BY <2>1, <2>2, <2>3 DEF ImageInv, ImageTypes
  <2>5. ASSUME OneVersion PROVE RemovalsFollow' /\ RoundsWait'
    <3>1. \A v \in Versions : Disabled(v) /\ Disabled(v)'
      BY <2>1, <2>5 DEF ImageInv, RemovalsFollow, Disabled
    <3>2. RemovalsFollow'
      BY <2>2, <2>3, <2>5, <3>1 DEF ImageInv, RemovalsFollow
    <3>3. \A v \in Versions : gone[v] = Nodes => gone'[v] = Nodes
      BY <2>2
    <3>4. RoundsWait'
      BY <2>1, <2>2, <2>5, <3>1, <3>3 DEF ImageInv, ImageTypes, RoundsWait
    <3>. QED
      BY <3>2, <3>4
  <2>. QED
    BY <2>4, <2>5 DEF ImageInv
<1>. QED
  BY <1>1, <1>2

LEMMA CleanerCrashKeeps == ASSUME ImageInv, Images!MasterCrash PROVE ImageInv'
<1>1. /\ sweep' = {} /\ marking' = {} /\ removals' = [n \in Nodes |-> FALSE]
      /\ awaitNodes' = [v \in Versions |-> {}] /\ awaitRef' = [n \in Nodes |-> {}]
      /\ UNCHANGED <<version, imageJob, report, gone>>
  BY DEF Images!MasterCrash, Images!NoRound
<1>. QED
  BY <1>1 DEF ImageInv, ImageTypes, RemovalsFollow, RoundsWait, Disabled

LEMMA ImagesStep == ASSUME ImageInv, Images!Next PROVE ImageInv'
<1>1. ASSUME NEW v \in Versions, Images!Register(v) \/ Images!Disable(v) PROVE ImageInv'
  BY <1>1, RegisterKeeps, DisableKeeps
<1>2. ASSUME NEW v \in Versions, NEW ok \in BOOLEAN, Images!MarkImageCleanupSent(v, ok)
      PROVE  ImageInv'
  BY <1>2, MarkKeeps
<1>3. ASSUME NEW v \in Versions, NEW n \in Nodes,
             Images!PrePull(v, n) \/ Images!StartServer(v, n) \/ Images!ServerExits(v, n)
      PROVE  ImageInv'
  <2>1. UNCHANGED <<version, sweep, marking, awaitNodes, awaitRef, removals, imageJob, report, gone>>
    BY <1>3 DEF Images!PrePull, Images!StartServer, Images!ServerExits, Images!master, Images!link
  <2>. QED
    BY <2>1, LossKeeps DEF ImageInv, ImageTypes
<1>4. ASSUME NEW n \in Nodes, NEW ok \in BOOLEAN, Images!PullEnds(n, ok) \/ Images!DeleteImage(n, ok)
      PROVE  ImageInv'
  <2>1. CASE Images!PullEnds(n, ok)
    <3>1. UNCHANGED <<version, sweep, marking, awaitNodes, awaitRef, removals, imageJob, report, gone>>
      BY <2>1 DEF Images!PullEnds, Images!master, Images!link
    <3>. QED
      BY <3>1, LossKeeps DEF ImageInv, ImageTypes
  <2>. QED
    BY <1>4, <2>1, RemovalKeeps
<1>5. ASSUME NEW n \in Nodes,
             Images!Collect(n) \/ Images!RemoveImage(n) \/ Images!Offline(n) \/ Images!Online(n)
      PROVE  ImageInv'
  <2>1. CASE Images!Collect(n)
    <3>1. /\ Images!Delete(n)
          /\ UNCHANGED <<version, sweep, marking, awaitNodes, awaitRef, removals, imageJob, report>>
      BY <2>1 DEF Images!Collect, Images!master, Images!link
    <3>. QED
      BY <3>1, Lost, LossKeeps
  <2>2. CASE Images!Offline(n) \/ Images!Online(n)
    <3>1. UNCHANGED <<version, sweep, marking, awaitNodes, awaitRef, removals, imageJob, report, gone>>
      BY <2>2 DEF Images!Offline, Images!Online, Images!master
    <3>. QED
      BY <3>1, LossKeeps DEF ImageInv, ImageTypes
  <2>. QED
    BY <1>5, <2>1, <2>2, RemovalKeeps
<1>. QED
  BY <1>1, <1>2, <1>3, <1>4, <1>5, VerdictKeeps, SweepKeeps, CleanerCrashKeeps DEF Images!Next

-----------------------------------------------------------------------------
(* The statistics.                                                         *)

StatTypes ==
    /\ now \in Nat /\ now <= LastTick
    /\ DOMAIN matchRow = Stats!StatMatches
    /\ \A m \in Stats!Rows : matchRow[m].start \in Nat /\ matchRow[m].end \in Nat \cup {-1}
    /\ DOMAIN stored = Stats!Days
    /\ rollupPass.todo \in Seq(Nat)
    /\ mended \subseteq Stats!Days /\ \A d \in mended : d <= Stats!Today

\* Days and the moments they begin and end.
LEMMA DayBounds ==
    ASSUME NEW t \in Nat
    PROVE  /\ Stats!DayOf(t) \in Nat
           /\ Stats!DayOf(t) * DayLen <= t /\ t < (Stats!DayOf(t) + 1) * DayLen
BY ServicesAssumption DEF Stats!DayOf

LEMMA LaterDay ==
    ASSUME NEW d \in Nat, NEW t \in Nat
    PROVE  /\ d * DayLen \in Nat /\ (d + 1) * DayLen \in Nat
           /\ d < Stats!DayOf(t) => (d + 1) * DayLen <= t
<1>1. \A q \in Nat : d < q => (d + 1) * DayLen <= q * DayLen
  BY ServicesAssumption
<1>2. d * DayLen \in Nat /\ (d + 1) * DayLen \in Nat /\ \A q \in Nat : q * DayLen \in Nat
  BY ServicesAssumption
<1>. QED
  BY <1>1, <1>2, DayBounds

LEMMA DaysPass == ASSUME NEW t \in Nat, NEW u \in Nat, t <= u PROVE Stats!DayOf(t) <= Stats!DayOf(u)
<1>1. CASE Stats!DayOf(u) < Stats!DayOf(t)
  <2>1. (Stats!DayOf(u) + 1) * DayLen <= t
    BY <1>1, DayBounds, LaterDay
  <2>. QED
    BY <2>1, DayBounds, LaterDay
<1>. QED
  BY <1>1, DayBounds

\* The matches a day's figures are made of.
Reach(d) == Stats!Overlapping(d * DayLen, (d + 1) * DayLen)

\* They are the same while these are, as far as they run on that day.
LEMMA FiguresStay ==
    ASSUME StatTypes, StatTypes', NEW d \in Nat, Reach(d)' = Reach(d),
           \A m \in Reach(d) : /\ matchRow'[m] = matchRow[m]
                               /\ \/ matchRow[m].end # -1 \/ now' = now
                                  \/ (d + 1) * DayLen <= now /\ (d + 1) * DayLen <= now'
    PROVE  Stats!DayRollup(d, now)' = Stats!DayRollup(d, now)
<1>. DEFINE M == Reach(d)
            a == d * DayLen
            b == (d + 1) * DayLen
<1>1. a \in Nat /\ b \in Nat /\ a < b
  BY LaterDay, ServicesAssumption
<1>2. \A m \in M : m \in Stats!Rows /\ matchRow[m].start \in Nat /\ matchRow[m].end \in Nat \cup {-1}
  BY DEF Reach, Stats!Overlapping, StatTypes
<1>3. \A m \in M : matchRow'[m] = matchRow[m]
  OBVIOUS
<1>4. \A m \in M : /\ Stats!Start(m)' = Stats!Start(m) /\ Stats!Ended(m)' = Stats!Ended(m)
                   /\ Stats!Dur(m)' = Stats!Dur(m)
  BY <1>3 DEF Stats!Start, Stats!Ended, Stats!Dur
<1>5. \A m \in M : \/ Stats!EndOf(m, now)' = Stats!EndOf(m, now)
                   \/ b <= Stats!EndOf(m, now) /\ b <= Stats!EndOf(m, now)'
  BY <1>3 DEF Stats!EndOf, Stats!Ended, Stats!Running
<1>6. \A m \in M : /\ Stats!Start(m) \in Int /\ Stats!EndOf(m, now) \in Int
                   /\ Stats!EndOf(m, now)' \in Int
  BY <1>2, <1>3 DEF Stats!Start, Stats!EndOf, Stats!Ended, Stats!Running, StatTypes
<1>. HIDE DEF M, a, b
<1>7. \A m \in M : Stats!Overlap(m, d, now)' = Stats!Overlap(m, d, now)
  <2>1. \A m \in M : Stats!Lesser(Stats!EndOf(m, now)', b) = Stats!Lesser(Stats!EndOf(m, now), b)
    BY <1>1, <1>5, <1>6 DEF Stats!Lesser
  <2>. QED
    BY <1>4, <2>1 DEF Stats!Overlap, b
<1>8. ASSUME NEW X \in SUBSET M PROVE Stats!PeakCCU(X, d, now)' = Stats!PeakCCU(X, d, now)
  <2>. DEFINE There == {m \in X : Stats!Start(m) < b /\ Stats!EndOf(m, now) > a}
              At(t) == {m \in There : Stats!Start(m) <= t /\ t <= Stats!EndOf(m, now)}
  <2>1. /\ Stats!PeakCCU(X, d, now) = Stats!Max({Stats!Cardinality(At(t)) : t \in a .. b})
        /\ Stats!PeakCCU(X, d, now)' = Stats!Max({Stats!Cardinality(At(t)') : t \in a .. b})
    BY Zenon DEF Stats!PeakCCU, a, b
  <2>2. There' = There
    BY <1>1, <1>4, <1>5, <1>6
  <2>3. \A t \in a .. b : At(t)' = At(t)
    <3>. HIDE DEF There
    <3>1. There \subseteq M
      BY DEF There
    <3>. QED
      BY <1>1, <1>4, <1>5, <1>6, <2>2, <3>1
  <2>. HIDE DEF At
  <2>4. {Stats!Cardinality(At(t)') : t \in a .. b} = {Stats!Cardinality(At(t)) : t \in a .. b}
    BY <2>3
  <2>. QED
    BY <2>1, <2>4
<1>9. Stats!AggregateDaily(M, {d}, now)' = Stats!AggregateDaily(M, {d}, now)
  <2>. DEFINE Of(c) == {m \in M : matchRow[m].key = c[2]}
              Started(c) == {m \in Of(c) : Stats!DayOf(Stats!Start(m)) = c[1]}
              Finished(c) == {m \in Started(c) : Stats!Ended(m)}
              Slots(c) == IF c[1] \in {d} THEN Stats!Sum([m \in Of(c) |-> Stats!Overlap(m, c[1], now)])
                          ELSE 0
              Cells == {<<Stats!DayOf(Stats!Start(m)), matchRow[m].key>> : m \in M}
                         \cup ({d} \X {matchRow[m].key : m \in M})
              UsedCells == {c \in Cells : Started(c) # {} \/ Slots(c) > 0}
              Row(c) == [day |-> c[1], key |-> c[2], matches |-> Stats!Cardinality(Started(c)),
                         durSum |-> Stats!Sum([m \in Finished(c) |-> Stats!Dur(m)]),
                         durCount |-> Stats!Cardinality(Finished(c)), slots |-> Slots(c)]
  <2>1. Stats!AggregateDaily(M, {d}, now) = {Row(c) : c \in UsedCells}
    BY Zenon DEF Stats!AggregateDaily
  <2>2. Stats!AggregateDaily(M, {d}, now)' = {Row(c)' : c \in UsedCells'}
    BY Zenon DEF Stats!AggregateDaily
  <2>3. M' = M
    BY DEF M
  <2>4. \A c : Of(c)' = Of(c)
    BY <1>3, <2>3
  <2>5. \A c : Started(c)' = Started(c)
    BY <1>4, <2>4
  <2>6. \A c : Finished(c)' = Finished(c)
    BY <1>4, <2>5
  <2>7. \A c : Slots(c)' = Slots(c)
    <3>1. ASSUME NEW c, c[1] = d
          PROVE  [m \in Of(c) |-> Stats!Overlap(m, d, now)]' = [m \in Of(c) |-> Stats!Overlap(m, d, now)]
      BY <1>7, <2>4
    <3>. HIDE DEF Of
    <3>. QED
      BY <3>1
  <2>8. \A c : [m \in Finished(c) |-> Stats!Dur(m)]' = [m \in Finished(c) |-> Stats!Dur(m)]
    BY <1>4, <2>6
  <2>9. Cells' = Cells
    BY <1>3, <1>4, <2>3
  <2>. HIDE DEF Of, Started, Finished, Slots, Cells
  <2>10. UsedCells' = UsedCells
    BY <2>5, <2>7, <2>9
  <2>11. \A c : Row(c)' = Row(c)
    BY <2>5, <2>6, <2>7, <2>8
  <2>. HIDE DEF UsedCells, Row
  <2>. QED
    BY <2>1, <2>2, <2>10, <2>11
<1>10. \A p : Stats!OfProject(M, p)' = Stats!OfProject(M, p) /\ Stats!OfProject(M, p) \in SUBSET M
  <2>1. M' = M
    BY DEF M
  <2>. QED
    BY <1>3, <2>1 DEF Stats!OfProject
<1>11. [p \in Stats!Projects \cup {Stats!Platform} |-> Stats!PeakCCU(Stats!OfProject(M, p), d, now)]'
       = [p \in Stats!Projects \cup {Stats!Platform} |-> Stats!PeakCCU(Stats!OfProject(M, p), d, now)]
  <2>1. \A p : Stats!PeakCCU(Stats!OfProject(M, p), d, now)' = Stats!PeakCCU(Stats!OfProject(M, p), d, now)
    BY <1>8, <1>10
  <2>. QED
    BY <2>1
<1>. QED
  BY <1>9, <1>11 DEF Stats!DayRollup, M, Reach

LEMMA SameRows ==
    ASSUME StatTypes, StatTypes', NEW d \in Nat, UNCHANGED <<now, matchRow>>
    PROVE  Stats!DayRollup(d, now)' = Stats!DayRollup(d, now)
<1>1. Reach(d)' = Reach(d)
  BY DEF Reach, Stats!Overlapping, Stats!Rows, Stats!Start, Stats!Ended
<1>. QED
  BY <1>1, FiguresStay

\* What is yet to be computed of a pass will be right when it is written.
PassCovers ==
    \A d \in mended : \/ Stats!Exact(d)
                      \/ \E i \in 1 .. Len(rollupPass.todo) : rollupPass.todo[i] = d

ReadIsCurrent ==
    rollupPass.read # <<>> =>
        /\ rollupPass.todo # <<>>
        /\ Head(rollupPass.todo) \in mended =>
             rollupPass.read[1] = Stats!DayRollup(Head(rollupPass.todo), now)

StatInv == StatTypes /\ PassCovers /\ ReadIsCurrent

LEMMA MendedDays == ASSUME StatTypes PROVE \A d \in mended : d \in Nat /\ d \in Stats!Days
BY DayBounds, ServicesAssumption DEF StatTypes, Stats!Days

LEMMA StatsStart == Stats!Init => StatInv
<1>. SUFFICES ASSUME Stats!Init PROVE StatInv
  OBVIOUS
<1>1. /\ now = 0 /\ matchRow = [m \in Stats!StatMatches |-> Stats!Absent] /\ mended = {}
      /\ DOMAIN stored = Stats!Days /\ rollupPass.todo = <<>> /\ rollupPass.read = <<>>
  BY DEF Stats!Init, Stats!NoPass
<1>2. Stats!Rows = {}
  BY <1>1 DEF Stats!Rows
<1>. QED
  BY <1>1, <1>2, EmptySeq, ServicesAssumption DEF StatInv, StatTypes, PassCovers, ReadIsCurrent

\* A step of the matches or the clock, which leaves the days it does not touch.
LEMMA OutsideKeeps ==
    ASSUME StatInv, StatTypes', UNCHANGED <<stored, rollupPass>>, mended' \subseteq mended,
           \A d \in mended' : /\ Reach(d)' = Reach(d)
                              /\ \A m \in Reach(d) :
                                   /\ matchRow'[m] = matchRow[m]
                                   /\ \/ matchRow[m].end # -1 \/ now' = now
                                      \/ (d + 1) * DayLen <= now /\ (d + 1) * DayLen <= now'
    PROVE  StatInv'
<1>1. \A d \in mended' : Stats!DayRollup(d, now)' = Stats!DayRollup(d, now)
  <2>. SUFFICES ASSUME NEW d \in mended' PROVE Stats!DayRollup(d, now)' = Stats!DayRollup(d, now)
    OBVIOUS
  <2>1. d \in Nat /\ StatTypes
    BY MendedDays DEF StatInv
  <2>. QED
    BY <2>1, FiguresStay
<1>2. PassCovers'
  BY <1>1 DEF StatInv, PassCovers, Stats!Exact
<1>3. ReadIsCurrent'
  BY <1>1 DEF StatInv, ReadIsCurrent
<1>. QED
  BY <1>2, <1>3 DEF StatInv

LEMMA TockKeeps == ASSUME StatInv, Stats!Tock PROVE StatInv'
<1>1. /\ now < LastTick /\ now' = now + 1 /\ mended' = mended \ {Stats!Today}
      /\ UNCHANGED <<matchRow, stored, rollupPass>>
  BY DEF Stats!Tock
<1>2. StatTypes
  BY DEF StatInv
<1>3. now \in Nat /\ now' \in Nat /\ now' <= LastTick
  BY <1>1, <1>2, ServicesAssumption DEF StatTypes
<1>4. Stats!Today \in Nat /\ Stats!Today' \in Nat /\ Stats!Today <= Stats!Today'
  BY <1>1, <1>3, DaysPass, DayBounds DEF Stats!Today
<1>5. \A d \in mended' : d \in Nat /\ d < Stats!Today /\ d <= Stats!Today'
  BY <1>1, <1>2, <1>4, MendedDays DEF StatTypes
<1>6. Stats!Rows' = Stats!Rows
  BY <1>1 DEF Stats!Rows
<1>7. StatTypes'
  BY <1>1, <1>2, <1>3, <1>5, <1>6 DEF StatTypes
<1>8. ASSUME NEW d \in mended'
      PROVE  Reach(d)' = Reach(d) /\ (d + 1) * DayLen <= now /\ (d + 1) * DayLen <= now'
  <2>1. (d + 1) * DayLen \in Nat /\ (d + 1) * DayLen <= now
    BY <1>3, <1>5, LaterDay DEF Stats!Today
  <2>2. Reach(d)' = Reach(d)
    BY <1>1, <1>6 DEF Reach, Stats!Overlapping, Stats!Start, Stats!Ended
  <2>. QED
    BY <1>1, <1>3, <2>1, <2>2
<1>. QED
  BY <1>1, <1>7, <1>8, OutsideKeeps

LEMMA MatchStartKeeps ==
    ASSUME StatInv, NEW m \in Stats!StatMatches, NEW k, Stats!MatchStart(m, k) PROVE StatInv'
<1>. DEFINE r == [key |-> k, start |-> now, end |-> -1]
<1>1. /\ matchRow[m] = Stats!Absent /\ matchRow' = [matchRow EXCEPT ![m] = r]
      /\ mended' = mended \ {Stats!Today} /\ UNCHANGED <<now, stored, rollupPass>>
  BY DEF Stats!MatchStart, Stats!Running
<1>2. StatTypes
  BY DEF StatInv
<1>3. r.start = now /\ r.end = -1
  OBVIOUS
<1>. HIDE DEF r
<1>4. /\ DOMAIN matchRow' = Stats!StatMatches /\ matchRow'[m] = r
      /\ \A n \in Stats!StatMatches \ {m} : matchRow'[n] = matchRow[n]
  BY <1>1, <1>2 DEF StatTypes
<1>5. Stats!Rows' \subseteq Stats!Rows \cup {m} /\ Stats!Rows \subseteq Stats!Rows' \ {m}
  BY <1>1, <1>4 DEF Stats!Rows
<1>6. StatTypes'
  <2>1. \A n \in Stats!Rows' : n = m \/ (n \in Stats!Rows /\ matchRow'[n] = matchRow[n])
    BY <1>4, <1>5 DEF Stats!Rows
  <2>2. Stats!Today' = Stats!Today
    BY <1>1 DEF Stats!Today
  <2>. QED
    BY <1>1, <1>2, <1>3, <1>4, <2>1, <2>2 DEF StatTypes
<1>7. ASSUME NEW d \in mended'
      PROVE  Reach(d)' = Reach(d) /\ \A n \in Reach(d) : matchRow'[n] = matchRow[n]
  <2>1. d \in Nat /\ now \in Nat /\ d < Stats!Today
    <3>1. now \in Nat /\ Stats!Today \in Nat
      BY <1>2, DayBounds DEF StatTypes, Stats!Today
    <3>2. d \in Nat /\ d <= Stats!Today /\ d # Stats!Today
      BY <1>1, <1>2, MendedDays DEF StatTypes
    <3>. QED
      BY <3>1, <3>2
  <2>2. (d + 1) * DayLen \in Nat /\ (d + 1) * DayLen <= now
    BY <2>1, LaterDay DEF Stats!Today
  <2>3. m \notin Reach(d) /\ m \notin Reach(d)'
    BY <1>3, <1>4, <1>5, <2>1, <2>2 DEF Reach, Stats!Overlapping, Stats!Start
  <2>4. \A n \in Stats!StatMatches \ {m} : n \in Reach(d)' <=> n \in Reach(d)
    BY <1>1, <1>4 DEF Reach, Stats!Overlapping, Stats!Rows, Stats!Start, Stats!Ended
  <2>5. Reach(d) \subseteq Stats!StatMatches /\ Reach(d)' \subseteq Stats!StatMatches
    BY DEF Reach, Stats!Overlapping, Stats!Rows
  <2>. QED
    BY <1>4, <2>3, <2>4, <2>5
<1>. QED
  BY <1>1, <1>6, <1>7, OutsideKeeps

LEMMA MatchEndKeeps == ASSUME StatInv, NEW m \in Stats!StatMatches, Stats!MatchEnd(m) PROVE StatInv'
<1>. DEFINE r == [matchRow[m] EXCEPT !.end = now]
<1>1. /\ m \in Stats!Rows /\ ~Stats!Ended(m) /\ matchRow' = [matchRow EXCEPT ![m] = r]
      /\ mended' = mended \ Stats!Touched(m) /\ UNCHANGED <<now, stored, rollupPass>>
  BY DEF Stats!MatchEnd
<1>2. StatTypes /\ matchRow[m].start \in Nat /\ now \in Nat
  BY <1>1 DEF StatInv, StatTypes
<1>3. r.start = matchRow[m].start /\ r.end \in {now, matchRow[m].end}
  OBVIOUS
<1>. HIDE DEF r
<1>4. /\ DOMAIN matchRow' = Stats!StatMatches /\ matchRow'[m] = r
      /\ \A n \in Stats!StatMatches \ {m} : matchRow'[n] = matchRow[n]
  BY <1>1, <1>2 DEF StatTypes
<1>5. StatTypes'
  <2>1. \A n \in Stats!Rows' : n = m \/ (n \in Stats!Rows /\ matchRow'[n] = matchRow[n])
    BY <1>4 DEF Stats!Rows
  <2>2. Stats!Today' = Stats!Today
    BY <1>1 DEF Stats!Today
  <2>3. r.start \in Nat /\ r.end \in Nat \cup {-1}
    BY <1>1, <1>2, <1>3 DEF StatTypes
  <2>. QED
    BY <1>1, <1>2, <1>4, <2>1, <2>2, <2>3 DEF StatTypes
<1>6. ASSUME NEW d \in mended'
      PROVE  Reach(d)' = Reach(d) /\ \A n \in Reach(d) : matchRow'[n] = matchRow[n]
  <2>1. d \in Nat /\ d < Stats!DayOf(matchRow[m].start)
    <3>1. Stats!DayOf(matchRow[m].start) \in Nat /\ Stats!Today \in Nat
      BY <1>2, DayBounds DEF Stats!Today
    <3>2. d \in Nat /\ d <= Stats!Today /\ d \notin Stats!DayOf(matchRow[m].start) .. Stats!Today
      BY <1>1, <1>2, MendedDays DEF StatTypes, Stats!Touched, Stats!Start
    <3>. QED
      BY <3>1, <3>2
  <2>2. (d + 1) * DayLen \in Nat /\ (d + 1) * DayLen <= matchRow[m].start
    BY <1>2, <2>1, LaterDay
  <2>3. m \notin Reach(d) /\ m \notin Reach(d)'
    BY <1>2, <1>3, <1>4, <2>1, <2>2 DEF Reach, Stats!Overlapping, Stats!Start
  <2>4. \A n \in Stats!StatMatches \ {m} : n \in Reach(d)' <=> n \in Reach(d)
    BY <1>1, <1>4 DEF Reach, Stats!Overlapping, Stats!Rows, Stats!Start, Stats!Ended
  <2>5. Reach(d) \subseteq Stats!StatMatches /\ Reach(d)' \subseteq Stats!StatMatches
    BY DEF Reach, Stats!Overlapping, Stats!Rows
  <2>. QED
    BY <1>4, <2>3, <2>4, <2>5
<1>. QED
  BY <1>1, <1>5, <1>6, OutsideKeeps

LEMMA ProjectKeeps == ASSUME StatInv, NEW p, Stats!DeleteProject(p) PROVE StatInv'
<1>1. PICK M : /\ matchRow' = [m \in Stats!StatMatches |-> IF m \in M THEN Stats!Deleted ELSE matchRow[m]]
               /\ DOMAIN stored' = Stats!Days /\ mended' = {} /\ UNCHANGED <<now, rollupPass>>
  BY DEF Stats!DeleteProject
<1>2. \A m \in Stats!Rows' : m \in Stats!Rows /\ matchRow'[m] = matchRow[m]
  BY <1>1 DEF Stats!Rows
<1>3. StatTypes'
  BY <1>1, <1>2 DEF StatInv, StatTypes
<1>. QED
  BY <1>1, <1>3 DEF StatInv, PassCovers, ReadIsCurrent

\* A step of the job: a day it drops is no longer counted as mended, and one it
\* has written is right.
LEMMA JobKeeps ==
    ASSUME StatInv, UNCHANGED <<now, matchRow>>, DOMAIN stored' = Stats!Days,
           rollupPass'.todo \in Seq(Nat), mended' \subseteq Stats!Days,
           \A d \in mended' : /\ d <= Stats!Today
                              /\ \/ stored'[d] = Stats!DayRollup(d, now)
                                 \/ \E i \in 1 .. Len(rollupPass'.todo) : rollupPass'.todo[i] = d,
           rollupPass'.read # <<>> =>
               /\ rollupPass'.todo # <<>>
               /\ Head(rollupPass'.todo) \in mended' =>
                    rollupPass'.read[1] = Stats!DayRollup(Head(rollupPass'.todo), now)
    PROVE  StatInv'
<1>1. StatTypes'
  <2>1. Stats!Rows' = Stats!Rows /\ Stats!Today' = Stats!Today
    BY DEF Stats!Rows, Stats!Today
  <2>. QED
    BY <2>1 DEF StatInv, StatTypes
<1>2. \A d \in mended' : Stats!DayRollup(d, now)' = Stats!DayRollup(d, now)
  <2>. SUFFICES ASSUME NEW d \in mended' PROVE Stats!DayRollup(d, now)' = Stats!DayRollup(d, now)
    OBVIOUS
  <2>1. d \in Nat /\ StatTypes
    BY DayBounds, ServicesAssumption DEF StatInv, Stats!Days
  <2>. QED
    BY <1>1, <2>1, SameRows
<1>3. PassCovers'
  BY <1>2 DEF PassCovers, Stats!Exact
<1>4. ReadIsCurrent'
  BY <1>2 DEF ReadIsCurrent
<1>. QED
  BY <1>1, <1>3, <1>4 DEF StatInv

\* A backfill takes on every day before the two of the ticks, a tick these two.
LEMMA BeginKeeps == ASSUME StatInv, Stats!Restart \/ Stats!Tick PROVE StatInv'
<1>0. /\ StatTypes /\ now \in Nat /\ Stats!Today \in Nat
  BY DayBounds DEF StatInv, StatTypes, Stats!Today
<1>. DEFINE t == rollupPass'.todo
<1>1. CASE Stats!Restart
  <2>1. /\ t = Stats!Settled /\ rollupPass'.read = <<>>
        /\ mended' = {d \in Stats!Days : d < Stats!Today - 1} /\ UNCHANGED <<now, matchRow, stored>>
    BY <1>1 DEF Stats!Restart, Stats!Begin, Stats!LiveStart
  <2>. DEFINE n == Stats!Greater(0, Stats!Today - 1)
  <2>2. n \in Nat /\ (Stats!Today >= 1 => n = Stats!Today - 1)
    BY <1>0 DEF Stats!Greater
  <2>3. Stats!Settled = [i \in 1 .. n |-> i - 1]
    BY DEF Stats!Settled
  <2>. HIDE DEF n
  <2>4. t \in Seq(Nat) /\ Len(t) = n /\ \A i \in 1 .. n : t[i] = i - 1
    BY <2>1, <2>2, <2>3
  <2>5. \A d \in mended' : /\ d \in Nat /\ d <= Stats!Today
                           /\ d + 1 \in 1 .. Len(t) /\ t[d + 1] = d
    <3>1. \A d \in mended' : d \in Nat /\ d < Stats!Today - 1
      BY <2>1, DayBounds, ServicesAssumption DEF Stats!Days
    <3>2. \A d \in Nat : d < Stats!Today - 1 =>
            d <= Stats!Today /\ d + 1 \in 1 .. n /\ (d + 1) - 1 = d
      BY <1>0, <2>2
    <3>. QED
      BY <2>4, <3>1, <3>2
  <2>. QED
    BY <1>0, <2>1, <2>4, <2>5, JobKeeps DEF StatTypes
<1>2. CASE Stats!Tick
  <2>1. /\ rollupPass.todo = <<>> /\ t = Stats!TickDays /\ rollupPass'.read = <<>>
        /\ mended' = mended \cup ({Stats!Today - 1, Stats!Today} \cap Stats!Days)
        /\ UNCHANGED <<now, matchRow, stored>>
    BY <1>2 DEF Stats!Tick, Stats!Begin, Stats!LiveStart
  <2>2. t \in Seq(Nat)
    BY <1>0, <2>1 DEF Stats!TickDays
  <2>3. \A d \in {Stats!Today - 1, Stats!Today} \cap Stats!Days :
          d <= Stats!Today /\ \E i \in 1 .. Len(t) : t[i] = d
    <3>1. \A d \in Stats!Days : d \in Nat
      BY DayBounds, ServicesAssumption DEF Stats!Days
    <3>2. CASE Stats!Today = 0
      BY <1>0, <2>1, <3>1, <3>2 DEF Stats!TickDays
    <3>3. CASE Stats!Today # 0
      <4>1. t = <<Stats!Today - 1, Stats!Today>>
        BY <2>1, <3>3 DEF Stats!TickDays
      <4>2. Len(t) = 2 /\ t[1] = Stats!Today - 1 /\ t[2] = Stats!Today
        BY <4>1
      <4>. QED
        BY <1>0, <4>2
    <3>. QED
      BY <3>2, <3>3
  <2>4. \A d \in mended : stored[d] = Stats!DayRollup(d, now)
    BY <2>1, LenProperties, EmptySeq DEF StatInv, PassCovers, Stats!Exact
  <2>. QED
    BY <1>0, <2>1, <2>2, <2>3, <2>4, JobKeeps DEF StatTypes
<1>. QED
  BY <1>1, <1>2

LEMMA ReadDayKeeps == ASSUME StatInv, Stats!ReadDay PROVE StatInv'
<1>1. /\ rollupPass.todo # <<>> /\ UNCHANGED <<now, matchRow, stored, mended>>
      /\ rollupPass' = [rollupPass EXCEPT !.read = <<Stats!DayRollup(Head(rollupPass.todo), now)>>]
  BY DEF Stats!ReadDay
<1>2. rollupPass'.todo = rollupPass.todo
  BY <1>1
<1>3. \A d : rollupPass'.read # <<>> /\ d = Head(rollupPass.todo) => rollupPass'.read[1] = Stats!DayRollup(d, now)
  BY <1>1
<1>. QED
  BY <1>1, <1>2, <1>3, JobKeeps DEF StatInv, StatTypes, PassCovers, Stats!Exact

\* What the prover needs of the queue of days.
LEMMA FirstDayGoes ==
    ASSUME NEW s \in Seq(Nat), s # <<>>
    PROVE  /\ Tail(s) \in Seq(Nat) /\ Head(s) = s[1]
           /\ \A i \in 1 .. Len(s) :
                s[i] = Head(s) \/ \E j \in 1 .. Len(Tail(s)) : Tail(s)[j] = s[i]
<1>. DEFINE t == Tail(s)
<1>1. /\ t \in Seq(Nat) /\ Len(s) \in Nat \ {0} /\ Len(t) = Len(s) - 1
      /\ \A i \in 1 .. Len(s) - 1 : t[i] = s[i + 1]
  BY HeadTailProperties, EmptySeq
<1>2. Head(s) = s[1]
  BY DEF Head
<1>. HIDE DEF t
<1>3. \A i \in 1 .. Len(s) : i = 1 \/ (i - 1 \in 1 .. Len(t) /\ t[i - 1] = s[i])
  BY <1>1
<1>. QED
  BY <1>1, <1>2, <1>3 DEF t

LEMMA DayFailsKeeps == ASSUME StatInv, Stats!DayFails PROVE StatInv'
<1>. DEFINE s == rollupPass.todo
            t == Tail(s)
<1>0. StatTypes /\ s \in Seq(Nat) /\ s # <<>>
  BY DEF StatInv, StatTypes, Stats!DayFails
<1>1. /\ rollupPass'.read = <<>> /\ rollupPass'.todo = IF rollupPass.backfill THEN t ELSE <<>>
      /\ mended' = mended \ (IF rollupPass.backfill THEN {Head(s)} ELSE {s[i] : i \in 1 .. Len(s)})
      /\ UNCHANGED <<now, matchRow, stored>>
  BY DEF Stats!DayFails, Stats!Remaining
<1>. HIDE DEF s, t
<1>2. t \in Seq(Nat) /\ \A i \in 1 .. Len(s) : s[i] = Head(s) \/ \E j \in 1 .. Len(t) : t[j] = s[i]
  BY <1>0, FirstDayGoes DEF t
<1>3. \A d \in mended : d <= Stats!Today /\ d \in Stats!Days
                      /\ (stored[d] = Stats!DayRollup(d, now) \/ \E i \in 1 .. Len(s) : s[i] = d)
  BY DEF StatInv, StatTypes, PassCovers, Stats!Exact, s
<1>4. rollupPass'.todo \in Seq(Nat)
  BY <1>1, <1>2, EmptySeq
<1>5. \A d \in mended' : \/ stored[d] = Stats!DayRollup(d, now)
                         \/ \E i \in 1 .. Len(rollupPass'.todo) : rollupPass'.todo[i] = d
  <2>1. CASE rollupPass.backfill
    BY <1>1, <1>2, <1>3, <2>1
  <2>2. CASE ~rollupPass.backfill
    BY <1>1, <1>3, <2>2
  <2>. QED
    BY <2>1, <2>2
<1>6. mended' \subseteq mended /\ DOMAIN stored' = Stats!Days
  BY <1>0, <1>1 DEF StatTypes
<1>. QED
  BY <1>1, <1>3, <1>4, <1>5, <1>6, JobKeeps

LEMMA UpsertDayKeeps == ASSUME StatInv, Stats!UpsertRollupDay PROVE StatInv'
<1>. DEFINE s == rollupPass.todo
            t == Tail(s)
            h == Head(s)
<1>0. /\ StatTypes /\ s \in Seq(Nat) /\ s # <<>>
      /\ h \in mended => rollupPass.read[1] = Stats!DayRollup(h, now)
  BY DEF StatInv, StatTypes, ReadIsCurrent, Stats!UpsertRollupDay
<1>1. /\ stored' = [stored EXCEPT ![h] = rollupPass.read[1]]
      /\ rollupPass'.read = <<>> /\ rollupPass'.todo = t /\ UNCHANGED <<now, matchRow, mended>>
  BY DEF Stats!UpsertRollupDay
<1>. HIDE DEF s, t, h
<1>2. t \in Seq(Nat) /\ \A i \in 1 .. Len(s) : s[i] = h \/ \E j \in 1 .. Len(t) : t[j] = s[i]
  BY <1>0, FirstDayGoes DEF t, h
<1>3. \A d \in mended : d <= Stats!Today /\ d \in Stats!Days
                      /\ (stored[d] = Stats!DayRollup(d, now) \/ \E i \in 1 .. Len(s) : s[i] = d)
  BY DEF StatInv, StatTypes, PassCovers, Stats!Exact, s
<1>4. DOMAIN stored' = Stats!Days
      /\ \A d \in Stats!Days : stored'[d] = IF d = h THEN rollupPass.read[1] ELSE stored[d]
  BY <1>0, <1>1 DEF StatTypes
<1>5. \A d \in mended : \/ stored'[d] = Stats!DayRollup(d, now) \/ \E i \in 1 .. Len(t) : t[i] = d
  <2>. SUFFICES ASSUME NEW d \in mended
                PROVE  \/ stored'[d] = Stats!DayRollup(d, now) \/ \E i \in 1 .. Len(t) : t[i] = d
    OBVIOUS
  <2>1. CASE d = h
    <3>1. stored'[h] = Stats!DayRollup(h, now)
      BY <1>0, <1>3, <1>4, <2>1
    <3>. QED
      BY <2>1, <3>1
  <2>2. CASE d # h
    <3>1. stored'[d] = stored[d]
      BY <1>3, <1>4, <2>2
    <3>. QED
      BY <1>2, <1>3, <2>2, <3>1
  <2>. QED
    BY <2>1, <2>2
<1>6. mended \subseteq Stats!Days
  BY <1>3
<1>. QED
  BY <1>1, <1>2, <1>3, <1>4, <1>5, <1>6, JobKeeps

LEMMA StatsStep == ASSUME StatInv, Stats!Next PROVE StatInv'
<1>1. ASSUME NEW m \in Stats!StatMatches,
             Stats!MatchEnd(m) \/ \E k \in KeysOf[m] : Stats!MatchStart(m, k)
      PROVE  StatInv'
  BY <1>1, MatchEndKeeps, MatchStartKeeps
<1>2. ASSUME NEW p \in Stats!Projects, Stats!DeleteProject(p) PROVE StatInv'
  BY <1>2, ProjectKeeps
<1>. QED
  BY <1>1, <1>2, TockKeeps, BeginKeeps, ReadDayKeeps, DayFailsKeeps, UpsertDayKeeps DEF Stats!Next

LEMMA StatsHold == StatInv => Stats!PassRepairs
BY EmptySeq DEF StatInv, PassCovers, Stats!PassRepairs

LEMMA StatsStutter == ASSUME StatInv, UNCHANGED statVars PROVE StatInv'
<1>1. /\ UNCHANGED <<now, matchRow, stored, rollupPass, mended>> /\ StatTypes
  BY DEF statVars, StatInv
<1>2. DOMAIN stored = Stats!Days /\ rollupPass.todo \in Seq(Nat) /\ mended \subseteq Stats!Days
  BY <1>1 DEF StatTypes
<1>. QED
  BY <1>1, <1>2, JobKeeps DEF StatInv, StatTypes, PassCovers, ReadIsCurrent, Stats!Exact

-----------------------------------------------------------------------------
(* The services together.                                                  *)

ServicesInv ==
    /\ part = "tenants" => TenantInv
    /\ part = "creds" => AccessInv
    /\ part = "probe" => ProbeInv
    /\ part = "certs" => EnrolInv
    /\ part = "backups" => BackupInv /\ DumpsKept
    /\ part = "silences" => SilenceInv
    /\ part = "feed" => FeedInv
    /\ part = "images" => ImageInv
    /\ part = "stats" => StatInv

LEMMA ServicesStart == Init => ServicesInv
BY TenantsStart, AccessStart, ProbeStart, EnrolStart, BackupsStart, SilencesStart, FeedStart,
   ImagesStart, StatsStart
   DEF Init, ServicesInv

\* Where nothing moves, the invariant of the part stays as it was.
LEMMA TenantsStutter == ASSUME TenantInv, UNCHANGED tenantVars PROVE TenantInv'
BY DEF tenantVars, TenantInv, TenantTypes, PlannedIsBuilt, DeletionHolds, WipingHolds,
       NothingBroke, Tenants!NoNodeIsOrphaned, Tenants!LiveNodes, Tenants!KeysBoundTo,
       Tenants!ServersOf, Deletion

LEMMA AccessStutter == ASSUME AccessInv, UNCHANGED credVars PROVE AccessInv'
BY DEF credVars, AccessInv, AccessTypes, FlushFollows, OvertakenAreKnown,
       Creds!RevokedIsShutOut, Creds!Answered, Creds!Known,
       Creds!Purposes, Creds!Streams, Creds!ActiveKeys

LEMMA ProbeStutter == ASSUME ProbeInv, UNCHANGED probeVars PROVE ProbeInv'
BY DEF probeVars, ProbeInv, ProbeTypes, OneProbes, SeenLately, RefusalIsFresh,
       Probe!VerdictIsRecent, SwallowsFor, Crossed, Asking, Probe!PathNos, Probe!Kinds,
       Probe!FailTicks

LEMMA EnrolStutter == ASSUME EnrolInv, UNCHANGED certVars PROVE EnrolInv'
BY DEF certVars, EnrolInv, EnrolTypes, OneAuthority, RecordedFirst, Certs!Running,
       Certs!NoCert, Cert, Exchanges, Connections

LEMMA BackupsStutter ==
    ASSUME BackupInv, DumpsKept, UNCHANGED backupVars PROVE BackupInv' /\ DumpsKept'
<1>1. BackupInv'
  BY DEF backupVars, BackupInv, BackupTypes, LockCoversRun, Backups!Runs, Jobs
<1>2. DumpsKept'
  BY DEF backupVars, DumpsKept, Restorable, Backups!Runs
<1>. QED
  BY <1>1, <1>2

LEMMA SilencesStutter == ASSUME SilenceInv, UNCHANGED muteVars PROVE SilenceInv'
BY DEF muteVars, SilenceInv, MuteTypes, IdsDiffer, LockedStaysActive, PendingIsGraced, Unstored,
       DoomedIsUnnamed, Silences!Active, Silences!Minted, Silences!Actors, Silences!Loop,
       Silences!Silences, MuteRows, Acts, Ends, SilenceIds, Copies, Passes

LEMMA FeedStutter == ASSUME FeedInv, UNCHANGED feedVars PROVE FeedInv'
BY DEF feedVars, FeedInv, FeedTypes, GivenInOrder, CursorTrails, SentIsGot, RipenedEnded,
       Ripened, RowsAreWhole, Feed!NothingSkipped, Feed!Framed, Feed!Ids, Numbers, Looks

LEMMA ImagesStutter == ASSUME ImageInv, UNCHANGED imageVars PROVE ImageInv'
BY LossKeeps DEF imageVars, ImageInv, ImageTypes

LEMMA ServicesStep == ASSUME ServicesInv, [Next]_services PROVE ServicesInv'
<1>. USE DEF ServicesInv
<1>1. CASE UNCHANGED services
  <2>1. /\ part' = part
        /\ UNCHANGED <<tenantVars, credVars, probeVars, certVars, backupVars, muteVars, feedVars,
                       imageVars, statVars>>
    BY <1>1 DEF services
  <2>. QED
    BY <2>1, TenantsStutter, AccessStutter, ProbeStutter, EnrolStutter, BackupsStutter,
       SilencesStutter, FeedStutter, ImagesStutter, StatsStutter
<1>2. CASE Next
  <2>1. part' = part
    BY <1>2 DEF Next, Frame
  <2>2. /\ part = "tenants" => Tenants!Next
        /\ part = "creds" => Creds!Next
        /\ part = "probe" => Probe!Next
        /\ part = "certs" => Certs!Next
        /\ part = "backups" => Backups!Next
        /\ part = "silences" => Silences!Next
        /\ part = "feed" => Feed!Next
        /\ part = "images" => Images!Next
        /\ part = "stats" => Stats!Next
    BY <1>2 DEF Next
  <2>. QED
    BY <2>1, <2>2, TenantsStep, AccessStep, ProbeStep, EnrolStep, BackupsStep, DumpsStep,
       SilencesStep, FeedStep, ImagesStep, StatsStep
<1>. QED
  BY <1>1, <1>2

THEOREM ServicesSafe == Spec => []ServicesInv
<1>. QED
  BY ServicesStart, ServicesStep, PTL DEF Spec

\* Until it gives up its guard the event feed repeats no event and, while its
\* windows do not shrink, skips none, in whatever order the transactions that
\* write them commit (httpapi/sse.go); the orphan sweep spares the silence of a
\* mute in force (httpapi/amsilence.go), and the sweep of the backups spares the
\* one under way (backup/runner.go).
THEOREM NothingLiveIsPassedOver == Spec => []NothingLivePassedOver
<1>1. ServicesInv => NothingLivePassedOver
  <2>1. FeedInv => Feed!NothingSkipped /\ Feed!FrameOnce
    BY DEF FeedInv, SentIsGot, Feed!FrameOnce
  <2>2. SilenceInv => Silences!SweepSparesBacked
    BY DEF SilenceInv, DoomedIsUnnamed, Silences!SweepSparesBacked
  <2>3. BackupInv => Backups!SweepSparesLive
    BY DEF BackupInv, BackupTypes, LockCoversRun, Backups!SweepSparesLive
  <2>. QED
    BY <2>1, <2>2, <2>3 DEF ServicesInv, NothingLivePassedOver
<1>. QED
  BY <1>1, ServicesSafe, PTL

\* A backup recorded as ok can be restored (backup/runner.go): its dump is on a
\* disk, or as many newer ones as are to be kept have taken its place, whatever
\* crashes, lost locks and failed steps came between.
THEOREM BackupsCanBeRestored == Spec => [](part = "backups" => Backups!OkCanBeRestored)
<1>1. ServicesInv => (part = "backups" => Backups!OkCanBeRestored)
  BY DEF ServicesInv, DumpsKept, Restorable, Backups!OkCanBeRestored
<1>. QED
  BY <1>1, ServicesSafe, PTL

\* With one version, a stamp of image_cleanup_at says that every node has lost the
\* image since the version was disabled (reconcile/imagecleanup.go), whatever is
\* lost, repeated, busy or failed on the way; versions that share an image can
\* answer for each other.  And a backup recorded as ok can be restored.
THEOREM RecordsStayTrue == ASSUME OneVersion PROVE Spec => [](part # "stats" => RecordsAreTrue)
<1>1. ServicesInv => (part # "stats" => RecordsAreTrue)
  <2>1. ImageInv => Images!MarkedIsGone
    BY DEF ImageInv, RoundsWait, Images!MarkedIsGone
  <2>. QED
    BY <2>1 DEF ServicesInv, DumpsKept, Restorable, Backups!OkCanBeRestored, RecordsAreTrue
<1>. QED
  BY <1>1, ServicesSafe, PTL

\* After a pass of the rollup job (statsrollup/job.go) every day it took on has the
\* figures its matches give now, but for the days that failed or whose matches
\* have changed since: no clock, restart, deleted project or failed day later
\* makes a stored day wrong that the ticks do not compute again.
THEOREM PassesRepair == Spec => [](part = "stats" => Stats!PassRepairs)
<1>1. ServicesInv => (part = "stats" => Stats!PassRepairs)
  BY StatsHold DEF ServicesInv
<1>. QED
  BY <1>1, ServicesSafe, PTL

\* Taking down an environment or a project (store/environments.go,
\* store/projects.go) widens no key, orphans no node and takes nothing that was
\* not confirmed, for any number of environments, nodes and keys.
THEOREM TenantsStayWhole == Spec => []TenantsAreWhole
<1>1. ServicesInv => TenantsAreWhole
  <2>. SUFFICES ASSUME TenantInv
                PROVE  /\ Tenants!NoKeyIsWidened /\ Tenants!NoNodeIsOrphaned
                       /\ Tenants!NothingGoesUnconfirmed
    BY DEF ServicesInv, TenantsAreWhole
  <2>1. Tenants!NoKeyIsWidened
    BY ServicesAssumption DEF TenantInv, TenantTypes, Tenants!NoKeyIsWidened
  <2>2. Tenants!NoNodeIsOrphaned /\ Tenants!NothingGoesUnconfirmed
    BY DEF TenantInv, NothingBroke, Tenants!NothingGoesUnconfirmed
  <2>. QED
    BY <2>1, <2>2
<1>. QED
  BY <1>1, ServicesSafe, PTL

\* A revoked key opens nothing once its revocation is answered (auth/auth.go,
\* httpapi/keys.go), a bound key is answered by an upstream that was lately seen
\* to narrow (httpapi/narrow_probe.go), and every master takes every certificate
\* that was issued (store/ca.go, agentlink/service.go).
THEOREM CredentialsStayGood == Spec => []CredentialsHold
<1>1. ServicesInv => CredentialsHold
  <2>1. AccessInv => Creds!RevokedIsShutOut
    BY DEF AccessInv
  <2>2. ProbeInv => Probe!VerdictIsRecent
    BY DEF ProbeInv
  <2>3. EnrolInv => Certs!EveryLeafIsTrusted /\ Certs!RecordCoversFiles
    BY DEF EnrolInv, OneAuthority, RecordedFirst, Certs!EveryLeafIsTrusted,
           Certs!RecordCoversFiles, Certs!Running
  <2>. QED
    BY <2>1, <2>2, <2>3 DEF ServicesInv, CredentialsHold
<1>. QED
  BY <1>1, ServicesSafe, PTL

=============================================================================
