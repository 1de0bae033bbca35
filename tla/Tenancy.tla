------------------------------ MODULE Tenancy ------------------------------
(***************************************************************************)
(* Projects, environments and what belongs to them: nodes, builds, servers *)
(* and bound keys (src/master/internal/store/projects.go, environments.go, *)
(* nodes.go, versions.go, apikeys.go; httpapi/environments.go,             *)
(* matchmaking.go).  One project slug; an environment's build stands for   *)
(* its versions and fleets.                                                *)
(*                                                                         *)
(* A deletion is a transaction of several statements: it locks its row,    *)
(* counts what the row holds and only then takes it down, under READ       *)
(* COMMITTED.  Whoever inserts a row for the environment needs a key-share *)
(* lock on it and waits; its one statement and its commit are one step.    *)
(***************************************************************************)
EXTENDS Integers

CONSTANTS Envs, Machines, BoundTo   \* environments, nodes, keys that may be bound

VARIABLES
    project,   \* the row of the slug is there
    envs,      \* rows of environments
    nodeRow,   \* rows of nodes: state and environment
    build,     \* environments with a version and a fleet
    placed,    \* per node: the environment of its live server, or "none"
    bound,     \* per key: "none", its environment, "revoked" or "global"
    planned,   \* passes that have chosen a node: <<environment, node>>
    del,       \* the deletion of an environment in flight
    wiping,    \* the deletion of the project holds its lock
    broken     \* history: what went wrong

tenantVars == <<project, envs, nodeRow, build, placed, bound, planned, del, wiping, broken>>

NoDel == [stage |-> "no", env |-> "none", confirm |-> TRUE, servers |-> {}, keys |-> {}]

Init ==
    /\ project = FALSE /\ envs = {} /\ build = {} /\ planned = {}
    /\ nodeRow = [m \in Machines |-> [state |-> "none", env |-> "none"]]
    /\ placed = [m \in Machines |-> "none"] /\ bound = [k \in BoundTo |-> "none"]
    /\ del = NoDel /\ wiping = FALSE /\ broken = {}

NodesOf(e) == {m \in Machines : nodeRow[m].state # "none" /\ nodeRow[m].env = e}
LiveNodes == {m \in Machines : nodeRow[m].state = "active"}
ServersOf(e) == {m \in Machines : placed[m] = e}
KeysBoundTo(e) == {k \in BoundTo : bound[k] = e}

\* Mutant: the deletion locks FOR NO KEY UPDATE, which an insert does not wait for.
Locked_NoKeyUpdate(e) == FALSE

\* FOR UPDATE on the row of the environment conflicts with the key-share lock
\* of every row that refers to it.
Locked(e) == del.stage # "no" /\ del.env = e

\* A new row may refer to e: its foreign key finds the environment and its lock.
CanRefer(e) == project /\ e \in envs /\ ~Locked(e) /\ ~wiping

\* ensureProject: on first reference the project appears, with its seed of
\* environments; on an existing one nothing is seeded again.  It waits for a
\* deletion of the project.
Seeded == IF project THEN envs ELSE Envs
EnsureProject == ~wiping /\ project' = TRUE

-----------------------------------------------------------------------------
(* What operators and CI do.                                               *)

\* CreateProject of a new slug, or SetProjectMatchSize of one nobody has seen.
CreateProject ==
    /\ ~project /\ EnsureProject /\ envs' = Seeded
    /\ UNCHANGED <<nodeRow, build, placed, bound, planned, del, wiping, broken>>

CreateEnvironment(e) ==
    /\ EnsureProject /\ e \notin Seeded /\ envs' = Seeded \cup {e}
    /\ UNCHANGED <<nodeRow, build, placed, bound, planned, del, wiping, broken>>

CreateVersion(e) ==
    /\ EnsureProject /\ e \in Seeded /\ ~Locked(e) /\ envs' = Seeded
    /\ build' = build \cup {e}
    /\ UNCHANGED <<nodeRow, placed, bound, planned, del, wiping, broken>>

\* A copy of the build of e, whose row it locks: a deletion that has come to the
\* builds of e has it.
PromoteVersion(e, to) ==
    /\ e \in build /\ to # e /\ CanRefer(to) /\ ~(Locked(e) /\ del.stage # "counted")
    /\ build' = build \cup {to}
    /\ UNCHANGED <<project, envs, nodeRow, placed, bound, planned, del, wiping, broken>>

CreateNode(m, e) ==
    /\ nodeRow[m].state = "none" /\ EnsureProject /\ e \in Seeded /\ ~Locked(e)
    /\ envs' = Seeded /\ nodeRow' = [nodeRow EXCEPT ![m] = [state |-> "active", env |-> e]]
    /\ UNCHANGED <<build, placed, bound, planned, del, wiping, broken>>

\* Under the lock of the node's row: not a dead one, and none with a live server.
SetNodeEnv(m, e) ==
    /\ nodeRow[m].state = "active" /\ placed[m] = "none" /\ e # nodeRow[m].env /\ CanRefer(e)
    /\ nodeRow' = [nodeRow EXCEPT ![m].env = e]
    /\ UNCHANGED <<project, envs, build, placed, bound, planned, del, wiping, broken>>

RevokeNode(m) ==
    /\ nodeRow[m].state = "active" /\ placed[m] = "none"
    /\ nodeRow' = [nodeRow EXCEPT ![m].state = "dead"]
    /\ UNCHANGED <<project, envs, build, placed, bound, planned, del, wiping, broken>>

CreateAPIKey(k, e) ==
    /\ bound[k] = "none" /\ CanRefer(e) /\ bound' = [bound EXCEPT ![k] = e]
    /\ UNCHANGED <<project, envs, nodeRow, build, placed, planned, del, wiping, broken>>

RevokeAPIKey(k) ==
    /\ bound[k] \in Envs
    /\ ~(Locked(bound[k]) /\ k \in del.keys)
    /\ bound' = [bound EXCEPT ![k] = "revoked"]
    /\ UNCHANGED <<project, envs, nodeRow, build, placed, planned, del, wiping, broken>>

-----------------------------------------------------------------------------
(* The reconcile pass, as far as it places servers.                        *)

\* PlanFleet chooses among the nodes of the environment, by a read.
ChooseNode(e, m) ==
    /\ e \in build /\ nodeRow[m] = [state |-> "active", env |-> e]
    /\ planned' = planned \cup {<<e, m>>}
    /\ UNCHANGED <<project, envs, nodeRow, build, placed, bound, del, wiping, broken>>

\* It inserts the server with the fleet's environment; the rows the server
\* refers to, project, node and version, must be there and free.
PlaceServer(e, m) ==
    /\ <<e, m>> \in planned /\ placed[m] = "none" /\ ~wiping
    /\ ~(Locked(e) /\ del.stage \in {"stripped", "revoked"})
    /\ planned' = planned \ {<<e, m>>} /\ placed' = [placed EXCEPT ![m] = e]
    /\ UNCHANGED <<project, envs, nodeRow, build, bound, del, wiping, broken>>

ServerEnds(m) ==
    /\ placed[m] # "none" /\ ~(Locked(placed[m]) /\ m \in del.servers)
    /\ placed' = [placed EXCEPT ![m] = "none"]
    /\ UNCHANGED <<project, envs, nodeRow, build, bound, planned, del, wiping, broken>>

-----------------------------------------------------------------------------
(* Deleting an environment.                                                *)

\* EnvironmentUsage.Empty.
Unused(e) ==
    e \notin build /\ NodesOf(e) = {} /\ ServersOf(e) = {} /\ KeysBoundTo(e) = {}

\* The row is locked and its usage counted: none with nodes, dead ones too, and
\* none with anything in it unless the name is confirmed.
DeleteEnvironment(e, confirm) ==
    /\ e \in envs /\ del.stage = "no" /\ NodesOf(e) = {} /\ (Unused(e) \/ confirm)
    /\ del' = [NoDel EXCEPT !.stage = "counted", !.env = e, !.confirm = confirm]
    /\ UNCHANGED <<project, envs, nodeRow, build, placed, bound, planned, wiping, broken>>

\* Matches and servers, those committed by now.
DropServers ==
    /\ del.stage = "counted"
    /\ del' = [del EXCEPT !.stage = "emptied", !.servers = ServersOf(del.env)]
    /\ UNCHANGED <<project, envs, nodeRow, build, placed, bound, planned, wiping, broken>>

\* Fleets and versions: a server placed in between still refers to its version,
\* and the transaction is undone.
DropVersions ==
    /\ del.stage = "emptied"
    /\ del' = IF ServersOf(del.env) \subseteq del.servers THEN [del EXCEPT !.stage = "stripped"]
              ELSE NoDel
    /\ UNCHANGED <<project, envs, nodeRow, build, placed, bound, planned, wiping, broken>>

RevokeKeys ==
    /\ del.stage = "stripped"
    /\ del' = [del EXCEPT !.stage = "revoked", !.keys = KeysBoundTo(del.env)]
    /\ UNCHANGED <<project, envs, nodeRow, build, placed, bound, planned, wiping, broken>>

Taken(e) == e \in build \/ del.servers # {} \/ KeysBoundTo(e) # {}

\* Every key of the environment is unbound, revoked or not; the row goes, unless
\* something refers to it again, and the transaction commits.  Its event refers
\* to the project and waits for a deletion of that.
CommitDelete ==
    LET e == del.env
    IN  /\ del.stage = "revoked" /\ ~wiping /\ del' = NoDel
        /\ IF NodesOf(e) # {} THEN UNCHANGED <<envs, build, placed, bound, planned, broken>>
           ELSE /\ envs' = envs \ {e} /\ build' = build \ {e}
                /\ placed' = [m \in Machines |-> IF m \in del.servers /\ placed[m] = e
                                                 THEN "none" ELSE placed[m]]
                /\ bound' = [k \in BoundTo |-> IF bound[k] # e THEN bound[k]
                                               ELSE IF k \in del.keys THEN "revoked" ELSE "global"]
                /\ planned' = {p \in planned : p[1] # e}
                /\ broken' = broken \cup (IF Taken(e) /\ ~del.confirm THEN {"unconfirmed"} ELSE {})
                       \cup (IF \E m \in del.servers : placed[m] = e THEN {"server"} ELSE {})
        /\ UNCHANGED <<project, nodeRow, wiping>>

-----------------------------------------------------------------------------
(* Deleting the project.                                                   *)

\* The lock, and only then the count: no node that lives, dead ones do not matter.
DeleteProject ==
    /\ project /\ ~wiping /\ LiveNodes = {} /\ wiping' = TRUE
    /\ UNCHANGED <<project, envs, nodeRow, build, placed, bound, planned, del, broken>>

\* The cascade; it waits for a deletion of an environment to end.
CommitProject ==
    /\ wiping /\ del.stage = "no" /\ wiping' = FALSE
    /\ project' = FALSE /\ envs' = {} /\ build' = {} /\ planned' = {}
    /\ nodeRow' = [m \in Machines |-> [state |-> "none", env |-> "none"]]
    /\ placed' = [m \in Machines |-> "none"]
    /\ bound' = [k \in BoundTo |-> IF bound[k] \in Envs THEN "revoked" ELSE bound[k]]
    /\ broken' = broken \cup (IF LiveNodes # {} THEN {"node"} ELSE {})
           \cup (IF \E m \in Machines : placed[m] # "none" THEN {"server"} ELSE {})
    /\ UNCHANGED del

\* Each waits for the other: the database undoes one of them.
BreakDeadlock ==
    /\ wiping /\ del.stage = "revoked"
    /\ \/ del' = NoDel /\ UNCHANGED wiping
       \/ wiping' = FALSE /\ UNCHANGED del
    /\ UNCHANGED <<project, envs, nodeRow, build, placed, bound, planned, broken>>

-----------------------------------------------------------------------------
Next ==
    \/ CreateProject
    \/ \E e \in Envs : CreateEnvironment(e) \/ CreateVersion(e)
    \/ \E e, to \in Envs : PromoteVersion(e, to)
    \/ \E m \in Machines, e \in Envs :
          CreateNode(m, e) \/ SetNodeEnv(m, e) \/ ChooseNode(e, m) \/ PlaceServer(e, m)
    \/ \E m \in Machines : RevokeNode(m) \/ ServerEnds(m)
    \/ \E k \in BoundTo, e \in Envs : CreateAPIKey(k, e)
    \/ \E k \in BoundTo : RevokeAPIKey(k)
    \/ \E e \in Envs, confirm \in BOOLEAN : DeleteEnvironment(e, confirm)
    \/ DropServers \/ DropVersions \/ RevokeKeys \/ CommitDelete
    \/ DeleteProject \/ CommitProject \/ BreakDeadlock

Spec == Init /\ [][Next]_tenantVars

-----------------------------------------------------------------------------
(* Properties.                                                             *)

\* No live key loses its binding and becomes a global one, whatever is created
\* while its environment is taken down.
NoKeyIsWidened == \A k \in BoundTo : bound[k] # "global"

\* Every node that lives stands in an environment of a project.
NoNodeIsOrphaned == "node" \notin broken /\ \A m \in LiveNodes : project /\ nodeRow[m].env \in envs

\* An environment that held anything went only because its name was confirmed.
NothingGoesUnconfirmed == "unconfirmed" \notin broken

\* Environments and projects with no node left have no live server to take down
\* (store/environments.go:339-341).
NoLiveServerGoes == "server" \notin broken
=============================================================================
