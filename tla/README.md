# Birdman, specified

TLA+ modules, model-checking configurations and machine-checked proofs for
birdman, the dedicated-server orchestrator of this repository: a Go master with
Postgres as its only store, a Go agent on every game node, and an SDK inside the
game servers. The modules are translated from the source; `PROJECT.json` maps
every definition to the lines it stands for, lists the hazards with the
properties that watch them, and names for each checked property a mutant of the
code under which it fails.

1. The system · 2. Modules · 3. Runs · 4. Disagreements between code and its
word · 5. Proofs · 6. Not modelled · 7. Plan

## 1. The system

| Component | State | Operations | Talks to |
|---|---|---|---|
| version window (`store/deploy.go`, `versions.go`, `fleets.go`) | `versions.state`, `fleet_configs.active_version` | register, begin and abort a deploy, flip, expire, retire, point by hand | deploy manager, reconciler, operator |
| server, node and match tables (`store/allocate.go`, `heartbeat.go`, `servers.go`, `nodes.go`) | `servers`, `nodes`, `matches` | claim, heartbeat, Hello, server event, stuck start, drain, undrain, revoke | every other part, through Postgres only |
| reconcile planner (`reconcile/reconciler.go`, `store/reconcile.go`) | one transaction per pass | evict, start, stop, drain | tables, agent link |
| lease checker (`reconcile/lease.go`) | none | quarantine, fail servers, abort matches, mark down | tables |
| deploy manager (`deploy/manager.go`) | prepull jobs, timers, the chain's marker, in memory | deploy, resume, sweep, pull report, expire, rollback, auto-deploy | version window, agent link |
| agent link (`agentlink/`, agent `link/`) | queue and session per node; the agent's outbox, seen commands, credentials | enrol, send, ack, attach, detach, replay, drain | everything that talks to agents |
| agent server manager (agent `daemon/`, `lifecycle/`, `ports/`) | servers, ports, container labels | start, ready, match start and end, stop, exit, restore | link, game servers, containerd |
| matchmaker and its store (`matchmaker/`, `store/matchmaking_durable.go`) | tickets, reserved seats, allocation outbox | submit, cancel, expire, match, backfill, dispatch, ack, rearm | tables, agent link |
| game socket (agent `uds/`, `sdk/core`) | last allocated and drain frames, one connection | accept, replay, send, dispatch | server manager, game |
| logs (agent `logrot/`, master `agentlink/logrouter.go`, `httpapi/ops.go`) | files, tails, two bounded channels | rotate, finalize, sweep, stream, follow, route | link, HTTP clients |
| image cleanup and GC (`reconcile/imagecleanup.go`, agent `imagegc/`) | expected reports in memory, `image_cleanup_at` | dispatch, sweep, report, collect | versions, agent link |
| self-upgrade (agent `upgrade/`, `httpapi/ops.go`) | the binary, a watchdog | order, download, swap, exit | link, systemd |
| projects and environments (`store/projects.go`, `environments.go`) | their rows and cascades | create, delete, move a node | every table |
| keys, sessions, streams (`httpapi/auth.go`, `session.go`, `sse.go`) | key cache, sessions, cursors | verify, revoke, poll | `api_keys`, `events` |
| metrics upstream probe (`httpapi/narrow_probe.go`) | a cached verdict | check, forward | the metrics service |
| alert silences (`amsilence/`, `httpapi/alerts.go`) | `alert_mutes`, silences elsewhere | mute, renew, unmute, reconcile | alertmanager |
| backups (`backup/`, `store/backups.go`) | history, dumps, a lock and a flag | schedule, run by hand, sweep, rotate | several masters |
| statistics (`statsrollup/`, `stats/`) | stored days | backfill, tick, answer | matches |
| certificates (`store/ca.go`, agent `link/enroll.go`) | CA rows, `nodes.cert_*`, key files | create, enrol, renew, admit | agent link |

**What is hard.** The parts meet in Postgres rows under READ COMMITTED with no
process-wide lock: a claim, a report, a lease statement and a pass may hold the
same rows at the same moment, and an `UPDATE` that waited for a lock rechecks only
its own target row. The master may die between any two statements; its queues and
jobs are in memory. Agents vanish, come back with an older view and send late
reports; what they send may be replayed, lost on a dead stream or dropped by a
full buffer. Loops (mirror, rollup, cleanup, feed) work from what they read a
statement ago. Files are rotated while somebody reads them.

**What makes each part correct** is stated as the properties in section 3.

## 2. Modules

| Module | Stands for | Role |
|---|---|---|
| `VersionWindow` | `store/deploy.go`, `versions.go`, `fleets.go` | the version state machine, one action per transaction; the abstract specification of the deploy manager |
| `FleetStore` | `store/` and `reconcile/` on servers, nodes, matches | every transaction on the tables, split where they interleave |
| `DeployManager` | `deploy/manager.go` over split `BeginDeploy`, `ActivateVersion` | implements `VersionWindow` |
| `CommandDelivery` | what the link promises | abstract specification |
| `AgentLink` | `agentlink/hub.go`, `service.go`, agent `link/client.go` | implements `CommandDelivery` |
| `AgentManager` | agent `daemon/manager.go`, `lifecycle/`, `ports/` | one goroutine per server |
| `Matchmaker` | `matchmaker/`, `store/matchmaking_durable.go` | tickets to rosters in games |
| `ImageCleanup`, `AlertSilences`, `BackupRunner`, `Access`, `EventFeed`, `StatsRollup`, `Tenancy`, `Enrolment`, `NarrowProbe` | the master's services | composed by `Services` |
| `GameLink`, `Outbox`, `ServerLogs`, `AgentUpgrade` | the agent's services | composed by `AgentServices` |
| `MC*` | | small instances for TLC |
| `VersionWindowProofs`, `FleetStoreProofs`, `DeployManagerProofs`, `AgentLinkProofs`, `AgentManagerProofs`, `MatchmakerProofs`, `ServicesProofs`, `AgentServicesProofs` | | theorems and proofs |

### VersionWindow

`vstate[v]` is the row's `state` (`none`: no row), `fleet` the `active_version`
of the one region considered. Each action is one store transaction.
`ActivateVersion(v, from)` demotes (`Demoted`: the active version, and a
registered one the fleet points at), disables the older deprecated versions
(`Superseded`), activates and repoints. Which versions expire or retire is a free
choice. `Features` says how the environment is used: an operator points the fleet
at a registered build before the first deploy (`bootstrap`) or at any build at
any time (`override`); versions are retired (`retention`).

### FleetStore

| Variables | Code |
|---|---|
| `sstate snode sver smatch` | columns of `servers`; `revived`: rows with a `server_recovered` event |
| `nstate age` | `nodes.state`; the age class of `last_heartbeat_at`: 0 fresh, 1 stale, 2 silent for 30s, 3 past `node_down_after_min` |
| `mstate ended` | `matches.state`; the matches a `match_end` closed (history) |
| `vstate fleet vops` | the version window; a bound on version transactions |
| `req` | each allocation request: looked up, claiming, answered |
| `touched held` | open agent-report transactions: node row written, server rows locked |
| `lease`, `plan` | the next statement of the lease pass and its rows; what the reconcile pass read and its open transaction wrote |

A write inside an open transaction is not in `sstate` before its commit: it is in
`req`, `held` or `plan`, and its row is in `Locked`. `View` is what the pass's own
statements see. A claim skips locked rows (`FOR UPDATE SKIP LOCKED`); reports,
events and the lease's update wait, so their actions are enabled when the rows
are free. A statement `UPDATE .. WHERE id IN (SELECT ..)` is two actions, the
subselect's snapshot (`SelectStops`) and the update (`TakeStops`), because the
recheck after a lock wait is of `id` alone; likewise the lease's `UPDATE .. FROM
nodes`. Simplifications: one project, environment and region; the advisory lock
lets one pass run at a time; counts and evictions are one step, since evictions
skip locked rows; `ORDER BY .. LIMIT k` is any `k` rows and the crash-loop rule
any of `PausedChoices`; `Tick` past the first threshold waits for transactions in
flight, as thresholds are at least 10 seconds apart; agents report any state for
any row of theirs, so the properties hold against every agent.

### DeployManager

A *lane* is a goroutine: an API call, a pull report, a fired timer, the sweep.
Its record holds the code position and what it has read; manager state under the
mutex (`jobs`, `marker`) changes where the mutex is held. `BeginDeploy` and
`ActivateVersion` are open transactions between two actions and hold the lock of
their own row only. `Crash` empties memory; `Boot` is `Resume` with its steps.
Versions are numbered by `created_at`, each with an image of its own. Left out:
region-scoped rollback and the warning for a fleet without nodes.

### CommandDelivery and AgentLink

`CommandDelivery`: a command the master sent is owed until an agent process has
taken it; a `SetRegistries` may be withdrawn for a newer one; a master restart
forgets debts. `AgentLink` maps the hub's pending queue to `owed` and the commands
an agent ever dispatched to `taken`. Sessions are numbered; channel, stream and
receive buffer of one are one queue, and what a cut stream held may still be read
until that side notices. `reader` is who reads the registries table under
`regMu`; the session's handler and dispatch have their positions.

### AgentManager

One launch-then-supervise goroutine per server. Commands, liba frames, exits and
timers enter as actions; a label is stored in two steps, the state it was read in
and the write, as another goroutine may store in between. Containers outlive the
agent, and `Restore` rebuilds the map from their labels. Metrics samples and file
paths are left out.

### Matchmaker

Every ticket operation runs under the mutex and the advisory lock, reads the
tables first and forgets the cache when its commit fails: the tables are the
state. Stale are the tick's snapshot of the queue and the commands a dispatch has
selected but not sent; both are variables (`tick`, `carry`). A roster travels from
its outbox row over the hub and the agent to the game (`frame`, `game`), is acked
(`acks`) also by a session that has ended (`stray`), and rearmed on Hello. One
match per server; a ticket is closed whether cancelled, expired or outdated; the
5 second wait before a resend, retention and the choice among fitting groups are
left out or free.

### Services and AgentServices

The services share no state with a second writer, so a product of them would only
multiply states. `Services` and `AgentServices` hold the variables of all parts,
choose one `part` in `Init`, and `Frame` keeps the others still: their states add
up. What two parts do share is modelled where it matters (`Access` and `Tenancy`
each hold the keys that deletions revoke). Every part has its `Init`, `Next` and
properties in its own module and can be checked alone with its constants; the
type invariants of the parts (`GameTypeOK` and the like) were checked that way.

- **ImageCleanup** – versions that share one `image_ref`; the fast path on
  disable, the sweep with its expectations, verdicts of nodes (`busy`, `failed`,
  `removed`, `absent`), pulls, containers and GC of the nodes. `gone` records which
  nodes were without the image since the version was disabled.
- **AlertSilences** – rows and silences of one target; a caller or the loop holds
  the row it read; a silence's id is stored after it was made; the alertmanager
  restarts and forgets expired silences.
- **BackupRunner** – two masters, a flag in each process, a lock of a database
  session that may end before the run, manual and scheduled runs, the sweep at
  start, retention of files and history, backoff.
- **Access** – verification reads the row first and remembers afterwards; revoke
  commits first and flushes afterwards; streams recheck when they poll. `overtaken`
  records the verifications a flush found in flight, `unpolled` the streams that
  have yet to poll. One request of a key is followed at a time for each purpose
  (bearer, login), and one stream for each kind of credentials.
- **EventFeed** – an id is taken on insert and seen on commit; `cursor`, `read`,
  `settled`, `seen`, `sent` are the locals of `handleEventsStream`; `Age` is the
  passing of `sseSettle`.
- **StatsRollup** – recursion-free folds of matches into days; `BuildOverview`
  against what is composed of stored days and live matches. One player per match,
  two days of two ticks; a pass does not span a tick; the environment filter of an
  answer is left out.
- **Tenancy** – deletions as transactions of several statements with the row
  locks they take (`Locked`); a node move, a new key, a registration and a server
  plan wait for these or not as their foreign keys do. One slug, one server per
  node; environment flags, provenance and match size are left out.
- **Enrolment** – CA creation by two masters, three certificate modes, leaves with
  a day of issue, the agent's three files (`key`, `crt`, `bundle`), written one
  after the other, and its connection, whose handshake checks both ends. A change of mode
  restarts the masters; CA and server leaf rotation, the trust file of an
  operator and backoff times are left out.
- **NarrowProbe** – canary and control per path under the mutex, the cached
  verdict with its two lifetimes, queries that go out after the mutex is released.
  Warming is a check without a query and left out.
- **GameLink** – remember under the lock and write after it; replay collected under
  the lock and written after it; a replaced connection keeps its reader until its
  buffer is dispatched; the SDK takes a roster only when it is larger.
- **Outbox** – peek, send, pop with pushes and overflow in between, on a session
  that may be dead without knowing. Each stream has its `flight`: attach only closes
  the `done` of the session it replaces (`hub.go:259-262`), and the old `readLoop`
  goes on with what it holds, beside the new one (`service.go:158-171`, 395-447), until
  it ends (`Lose`).
- **ServerLogs** – copy, truncate, compress and remove are steps; a tail lists,
  reads the backlog and follows by offset, the look at the size (`Poll`) and the
  reading (`ReadOn`) being two steps; two bounded channels and a cancel. A file is
  read to its end, and handed on, in one step.
- **AgentUpgrade** – parallel downloads, verification, rename, exit, replay of an
  unacked command to the new process, a watchdog per order.

## 3. Runs

| Run | Question | Bounds | States |
|---|---|---|---|
| VersionWindow | one active, one deprecated version; the running build keeps the window; disabled is final | 4 versions, bootstrap and retention | 1 125 |
| FleetClaims | claims against claims, passes, drains and crashes | 3 rows, 1 node, 3 requests (two for one match, one durable) | 24 375 |
| FleetCapacity | limits and evictions of passes | 4 rows, nodes of 2 and 1 slots, `max_servers` 2, 2 version transactions, three pause choices | 242 546 |
| FleetLifecycle | rows and matches under reports, events, silence, revocation | 2 rows, 1 node, all heartbeat ages, durable match | 243 500 |
| FleetSilence | silent servers are failed | 2 rows, all ages | 41 306 |
| FleetStopRace | a pass stops no allocated server | 1 row, 1 request | violated |
| DeployChain | deploys end, only a store error makes the chain lose a build, one lane implements `VersionWindow` | 2 versions, 2 nodes, 2 goroutines, 1 event of the environment (a request, a store error, a node change or a crash) | 379 872 |
| AgentLink | the link implements `CommandDelivery`; no process runs a command twice; newest credentials win; commands arrive | 1 command, 2 snapshots, 3 sessions, 1 fault | 626 406 |
| AgentManager | ports, labels, stops and readiness | 2 servers (one never ready), 1 port, 1 match, 1 fault | 181 143 |
| Matchmaker | seats, queue, newest revision, rosters in games | 3 tickets of 2 players (a party with two revisions and a solo), 3 seats, 1 fault | 172 328 |
| Services | the nine services of the master | one failure each, constants in `Services.cfg` | 442 049 |
| AgentServices | the four services of the agent | one failure each (two breaks of the outbox's session) | 222 750 |

What the properties of the last two say, part by part:

| Property | Parts |
|---|---|
| `NothingLivePassedOver` | feed: the cursor passes no unframed event of the key, nothing is framed twice; silences: the orphan sweep deletes none that a mute in force names; backups: the sweep gives up no run in progress |
| `RecordsAreTrue` | images: `image_cleanup_at` only when every node lost the image; backups: an `ok` run has its dump; stats: answers composed of stored days equal those computed from the matches, a finished pass leaves its days right |
| `CredentialsHold` | creds: after the answer to a revocation the key is in no cache and no session but through a verification the flush overtook, and on no stream that has polled since but by such an entry; probe: no bound query on a stale verdict, none refused on one; certs: each leaf is trusted by each master, the node row covers the files |
| `TenantsAreWhole` | tenants: no key widened, no node orphaned, nothing taken unconfirmed |
| `ServicesSettle` | silences, backups, creds, feed, certs: mirrored, made, forgotten, delivered, linked when the world is quiet |
| `OnceAndInOrder` | rosters a game is told grow and match frames are heard once; events are handled at most once, in order within a stream, an older one after a younger one only when it came over an older stream, and leave the queue only sent or evicted; a follower sees lines once and in order; one restart per release into a whole binary |
| `AgentSettles` | game: what the agent remembers has reached a connected game; logs: tails end, stopped servers leave archives; upgrade: the agent is back on what is on disk |

`PROJECT.json` names one mutant per property of each run. The parts keep further
mutants beside their definitions (`Kept_Forever`, `Fresh_All`, `Popped_Head`,
`Needed_Always`, `Unswept_None`, `FilterDimsFrom_Kept` and others), under which
the same properties fail by way of the other parts.

**Why the bounds are enough.** Version transactions look at one version and the
sets of active, deprecated and running ones: four versions give one of each and a
newcomer. Allocation conflicts need two requests for one match, a third for
another, and rows for all. `FleetCapacity` starts with both slots of
`max_servers` taken by deprecated rows on one node, so every eviction branch is
reached; the two spare rows are interchangeable until inserted (`SpareRows`).
`MaxAge` 3 covers every threshold. In `DeployChain` a second version queues behind
the first and two goroutines meet in every open transaction. Three sessions in
`AgentLink` are an old, a replacing and a reconnected one. A replay needs one
fault; a second differs only in where the first one left off, and the states a
fault leaves are all reached by interleaving. Windows of the feed need a batch
(2) smaller than the events (3) and one late commit. A rotation under a follow
needs two lines and `RotateAt` 1. The numbers bound: versions, sessions, ids,
events of the environment and faults (`Max*` constants, in guards).

Deadlock checking is off because all of these instances may really stop: every
request answered, all ids used, no fault left.

**Fairness.**

- `FleetStore`: weak, of lease and reconcile steps (ticker loops that log errors
  and go on), of ending a report or a claim once begun. Nothing of agents,
  operators, clients.
- `DeployManager`: weak, of `Progress`: goroutines that run go on, timers fire,
  the sweep of each reconcile pass gets its goroutine, a dead master is restarted.
- `AgentLink`: weak, of each session's loops, of noticing a cut and dialling
  again, of a broadcast under way. `AgentManager`: weak, of each server's
  goroutine and of the restart by systemd. `Matchmaker`: weak, of ticker,
  dispatch, reconnect of session and game.
- `Services`, `AgentServices`: weak, of what a part does by itself, its loops and
  goroutines, each kind as one disjunction (`First`, `Second`, `Third`); of an
  open transaction's end in the feed; of the world's healing in `AlertSilences`
  (the alertmanager is restarted, a grace ends). Strong in one place: `Age` in the
  feed, where an observation ripens by the clock, which no poll delays, although
  the model allows it between polls only. A step that succeeds is fair, one that
  fails is bounded by the part's `Max..Faults`.

## 4. Disagreements between code and its word

*FleetStopRace* is a run: `drainServers` updates by `id` what a subselect found
ready, so a claim that commits in between loses its server with 30 seconds of
grace (`reconcile.go:117-120`). The eviction statement rechecks the state; the
three others do not.

The others are a setting away from the runs. Each names the module, the property
and what to change.

**Tables (`FleetStore`, starting from the named configuration)**

- `SameMatchSameServer` (`FleetClaims.cfg`, `Inputs = {"lease", "hello",
  "heartbeat"}`, `Reports = {"ready"}`, `MaxAge = 2`): a resurrected row that is
  `ready` keeps its `match_id` and the claim takes it (`heartbeat.go:121`); a
  repeated request gets a second server, where `allocate.go:47-49` says "a
  repeated request in the same env returns the same server".
- `WindowMatchNotDrained` (`FleetStopRace.cfg`, `Inputs = {"reconcile"}`,
  `BufferReady = 0`, `MaxVersionOps = 1`): the pass reads
  `active_version` (`reconciler.go:204`) and the deprecated version (269) in two
  statements; a rollback in between puts the running version outside its window,
  against "without breaking live matches" (`deploy/manager.go:2-3`,
  `reconcile.go:87-89`).
- `FailedServerHasNoOpenMatch` (`FleetLifecycle.cfg`, `Inputs = {"lease",
  "crash"}`; `servers.go:203`, 231-242): failing servers and closing their matches are separate autocommitted
  statements, and no later pass returns the rows, against 236-238 "close it".
- `FailedServerHasNoOpenMatch` (`FleetLifecycle.cfg`, `Durable = {}`, `Inputs =
  {"heartbeat", "match_start"}`, `Reports = {"failed"}`): a `match_start` after the failure was reported opens a match
  nobody closes.
- `SilentServersFail` (`FleetSilence.cfg`, `Inputs = {"lease", "drain"}`): neither lease statement looks at nodes in
  `draining` (`servers.go:169`); `docs/specs/protocol.md:140` promises "тишина →
  `quarantine` (… сервера → failed после ещё 20с)" of any silence.
- `OnlySilentServersFail` (`FleetStopRace.cfg`, `Inputs = {"lease", "hello"}`,
  `Reports = {"ready"}`, `MaxAge = 2`): the lease's update waits for the Hello that ends the silence and fails the row.
- `DownNodeHasNoLive` (`FleetLifecycle.cfg`, `Requests = {}`, `Durable = {}`,
  `Inputs = {"reconcile", "lease"}`): a stop statement that has picked a ready row of a
  quarantined node updates it by `id` (`reconcile.go:117-120`) after the lease
  pass failed it, and leaves a draining row on a node which is down and which no
  lease pass looks at again (`servers.go:203-210`).
- `EndedMatchStaysEnded` (`FleetLifecycle.cfg`, `Inputs = {"lease", "hello",
  "match_start", "match_end"}`, `Reports = {"allocated"}`): a Hello reopens a match that ended as aborted.

**Versions and deploys**

- `RunningVersionKeepsWindow` says nothing of a build already disabled:
  `RetireVersions` (`versions.go:396`) ranks without looking at `active_version`
  and disables the build the operator bootstrapped the fleet with; the next flip
  drops it, "its live matches would be drained at once" (`deploy.go:243-244`).
- `OneDeprecated` with `Features = {"override"}`: a build pointed at by hand is
  demoted with the active one, where `reconcile.go:48` says "at most one by
  construction".
- `OnePrepulling` of `DeployManager` (in `DeployChain.cfg`): with two goroutines
  each begin misses what the other has not committed, and so do two flips.
- `AutoStartsForward` leaves out a deploy that another one overtook between its
  look at the marker and its begin (`over`); `manager.go:69-72` makes no exception.
- A deploy's timer is found by version id.
- A store error in `TryAutoDeploy` (`manager.go:595-604`, `613-616`, `622-625`,
  `633-636`) ends the chain and is only logged: the queued build then waits for the
  next registration, fleet, deploy end or restart. No ticker helps, `SweepOrphans`
  (`manager.go:352-384`) re-arms prepulling rows only. `NewestIsTried` exempts just
  this (`dropped`, until a chain runs again); without the exemption it fails.
  A commit whose outcome the caller cannot tell is not modelled.

**Agent link, outbox, enrolment**

- `DrainedOnceAvailable` of `Outbox` (module `Outbox` with `Cap = 2`,
  `MaxPushes = 2`, `MaxBreaks = 1`, `FairSpec`): the notify token is taken by a
  drain that fails (`client.go:356-370`, `outbox.go:104-108`), and what is queued
  then waits for the next push, where `outbox.go:23-26` says messages "are drained
  in order once a stream is available".
- Across streams events may be handled out of order: what the read loop of a
  replaced session still holds is applied when the database lets it, possibly after
  younger events of the new session (`hub.go:259-262`, `service.go:158-171`).
  `outbox.go:23-26` promises the order in which the outbox is drained only; the
  tables take reports in any order (`FleetStore`). `EventsInOrder` exempts exactly this (`Follows`),
  and fails without the exemption.
- `CommandTaken` exempts a command only if the channel was full when the hub pushed
  it last and that session goes on (`hub.go:348-356` "stays pending and will be
  replayed on the next reconnect"): with no reconnect it waits. A hub that does not
  replay on attach violates it.
- A message pushed during a drain goes out without the heartbeat that
  `client.go:357-359` sends before it. A send that succeeded is not a delivery:
  `received` may miss what a dead stream accepted. An overflow drops the oldest
  message, be it a `match_end`.
- `Stranded` of `Enrolment`: a certificate that runs out while the connection is
  down is dialled with until a restart (`client.go` Run), which `enroll.go:175-177`
  denies; `ServicesSettle` leaves it out. A session on the token never renews
  (`service.go:183-186`); renewal has no deadline and blocks heartbeats; an answer
  that is lost leaves `cert_not_after` ahead of the file. A crash between the
  renames of `writeMaterial` is healed by the token.

**Feed, keys, tenants, registries**

- `CommitRaceGuarded` of `EventFeed` (`MaxId = 4`, `Batch = 2`, `SentCap = 4`,
  `MaxFeedFaults = 0`): after a full batch a window may end below an earlier one;
  `read` is a maximum, and the cursor passes an event (`sse.go:287-288`, 326-331
  against 77-80). `NothingSkipped` holds while windows do not shrink. A reconnect
  with `Last-Event-ID` loses a smaller id that commits later.
- A revocation that has been answered does not shut the key out at once. A request
  that read the row before it stores the key when the caches have been flushed
  (`auth.go:77-83`: 5 minutes), or makes a session (`session.go:160-169`: 24 hours),
  and a stream may live on that entry. This is against `auth.go:87-89` "stops
  authenticating at once instead of after authCacheTTL", 123-125 (the first poll after the
  revoke is refused), `apikeys.go:119-123` and `session.go:89-90` "must not
  keep a live browser session". `CredentialsHold` exempts exactly these entries
  (`overtaken`) and fails without the exemption; `RevokedIsForgotten`, in
  `ServicesSettle`, is that they end.
- `AdminKeyRemains` of `Access` (two admin keys): two revokes each count the other's key
  (`apikeys.go:171-172` "cannot both pass").
- `NoLiveServerGoes` of `Tenancy` (two environments, one node): a server planned before a node left is taken
  with the environment (`environments.go:339-341`). An environment that ever held
  a revoked node cannot be deleted. `CreateProject` checks, then upserts
  (`projects.go:77-81`). Deleting an environment and its project at once can
  deadlock; Postgres ends one.
- `PatchRegistry` reads, then writes (`registries.go:237-243`): two patches can
  leave a user of one kind with a secret of another.

**Services**

- `MarkedIsGone` with `Nodes = {n1}`, two versions and `MaxImageFaults = 0`: a
  report names the ref only and answers a later version's expectation. The run has
  one version, with two nodes and a failure.
- Two first mutes of one target at once leave two rows (`AlertSilences`).
- A rollup pass in flight across `DeleteProject` inserts its rows again, and the
  platform peak keeps a deleted project; a match longer than the tail leaves its
  first day stale until the next start; overview and rollup disagree on a region
  without matches, which `stats.go` says "must agree byte-for-byte".

**Logs, game socket, upgrade**

- A follow of a server that has only archives never ends (`stream.go:16-19`
  against its `offset < 0` branch); in tail mode lines between the reading and the
  `Stat` are skipped; the last lines before finalisation, and those between copy
  and truncate, are lost; a file that is truncated and grows to its old length or beyond between
  two looks, or between `Stat` and `Read` (`stream.go:135`, 153-173), is not noticed, and
  the lines before the old offset are never shown. A
  listing during copy or compression shows lines twice in the backlog. A rotation
  that meets `Finalize` can lose the active log. An `eof` chunk that is dropped
  leaves the HTTP client waiting: `outbox.go:17-18` claims the master closes.
- The replay of a new connection may write an older roster after a newer one
  (`uds/server.go:252-255`): on the wire the order regresses, and the SDK's guard
  (`link.cpp:556-559`) is what hides it. A restart of the agent forgets the
  frames and the outbox.
- Two releases ordered at once can replay the older command and downgrade. The
  watchdog (70 s) is shorter than the download timeout (5 min) and records a
  failure of an upgrade that succeeds; a binary that says another version than its
  order restarts for every lost ack; the watchdog dies with the master.
- A `Kill` that fails is not repeated (`daemon/manager.go:1054`, 1078):
  `StopEnds` and `ReadinessSettled` leave such a server out.

## 5. Proofs

Eight modules hold theorems: `VersionWindowProofs`, `FleetStoreProofs`,
`DeployManagerProofs`, `AgentLinkProofs`, `AgentManagerProofs`, `MatchmakerProofs`,
`ServicesProofs` and `AgentServicesProofs`. They hold for every number of versions, servers, nodes,
requests, sessions, tickets, goroutines, masters, keys and faults, and every choice
of inputs.
Each assumes the named `ASSUME` of its model, which TLC evaluates in every run:
null values are not members, functions have their domains, limits are naturals,
the sets that are counted are finite, a channel and the cmd_id window have room for one entry, a
durable request's match id is its own, the warm start is well typed. What a
theorem assumes beyond that stands in its statement and below.

**VersionWindow.** `Base` is the type invariant with one active and one prepulling
version; it is inductive as it stands. `OneDeprecated` is not: a flip demotes the
active version *and* a registered one the fleet points at, so `WindowInv` adds
that the fleet runs the active version once there is one (`FleetRunsActive`) and
that a deprecated version means there is an active one (`WindowNeedsActive`);
both fail under `override`, which is the theorem's assumption.
`FlipKeepsRunningVersion` adds `BootstrapWaits` and is proved without retention;
the run checks the property with it.

**FleetStore.** `FleetInv` is the type invariant with `RowInv`:

| Conjunct | Why it is needed |
|---|---|
| `MatchedRowsExist` | a row with a match is a row, so the unique index sees it |
| `OneServerPerMatch` | the property |
| `ClaimsHoldReady` | a claimed row is still ready when the claim commits, although other transactions ran in between |
| `LocksDisjoint` | claims, reports and the pass hold different rows, two claims too |
| `PlanRows` | what the pass holds: inserted rows exist nowhere else, evicted rows are ready and matchless |

There is one lemma per group of actions, the actions of `PlanFleet` each have
their own, and `StepKeepsInv` puts them together. From it follow
`MatchHasOneServer` and `EvictionSparesMatches`. `RevivalNeedsHello` (with
`HeartbeatRevivesNone`) and `FinishedStaysFinished` go through `StateOrigin` and `MatchSteps`, which say where
a new value of `sstate` and `mstate` can come from. `AnswersAgree` is proved under
`"hello" \notin Inputs`, with the invariant that an answered request's row still
holds its match; section 4 shows that the assumption cannot go.

Four more arguments build on `FleetInv`:

- *Limits* (`FleetStaysWithinMax`, `NodeStaysWithinCapacity`). What may be live at
  the commit is more than what is live: `Counted` are the live rows, the inserted
  ones and those the pass has picked or locked, less the revived. `LimitInv` bounds
  them for the fleet and for each node and says that the pass counts before it
  fills (`PassCounts`): `total` covers every counted row, and `left` fits under
  `max_servers`. A row picked by a stop statement must be counted although it may
  have failed since, because `TakeStops` makes it draining, hence live, again.
  Assumption: `StartsWithinLimits`, the warm rows respect the limits.
- *Lease* (`DownNodesAreEmpty`, `PlayersAreNotOnDownNodes`). `NodeAges`: a down
  node is silent, a node with rows of an open pass is not. `ClearedOf(W)`: no row with a state
  in `W` is outside `hit` while its node is about to fail, nor on a silent node
  after. For all of `Live` this needs `"reconcile" \notin Inputs`: with a pass a
  draining row may stay (section 4). For what players are on (`Playable`: ready,
  creating, allocated) it holds with every input
  (`DownNodeHasNoPlayable`, stated in the proof module, in no run).
- *Matches of lost servers* (`LostMatchesAreClosed`). `MatchedAreOpened`: a row
  with a match has left `creating`, and a durable claim opens the match row. Reports,
  events and stuck starts close the match in the transaction that fails the row, the
  lease pass by a later statement; its rows still in `hit` are left out. Assumptions: all
  requests durable, the master does not die (`crash`); both exceptions are in section 4.
- *Evictions* (`EvictionsAreNeeded`): room found by draining
  (`RoomAfterDrain`) and `PassCounts` bound the evictions by `Missing`. Assumptions:
  `StartsWithinLimits`, no `hello`. In a fleet that is already over `max_servers` a
  pass evicts more than `Missing`, as it has to get below the limit first.

**DeployManager.** `DeployInv` adds to the types: a process that is down runs
nothing; attempts are behind the marker or about to be, also while the process
starts (`Covered`), since Resume rebuilds the marker from the events; what a chain that was not
overtaken carries is ahead of every attempt (`LooksForward`); with one goroutine,
what an open transaction has read is still so (`AloneUnchanged`).
`MarkerOutlivesCrashes` and `AutoIsForward` follow for any number of goroutines.
`SerialRefinesWindow` is the refinement: the commits of `BeginDeploy`,
`ActivateVersion` and the others map to the actions of `VersionWindow`, every
other step to a stutter. Two goroutines do not refine it (section 4).

**AgentLink.** `DeliveryIsImplemented` is the refinement of `CommandDelivery`, owed
being the queue of unacked commands; it needs that what is acked, remembered or in
hand was taken (`AcksAreTaken`). `TypeCorrect` already needs a count: each attach
and each change of the table queues one snapshot (`Budget`). `NothingRunsTwice`
rests on `WindowCovers`: the window holds each command once, and all this process
took until there are more of them than it has places. `TheLastReadIsHeld` has the longest argument:
under `regMu` no reader holds an old table once all changes are broadcast
(`ReadersCurrent`), the last snapshot is new to every channel (`IdsBounded`), is
the last one on its session's channel and stays pending until the agent holds it
(`NewestArrives`). `CredentialsStayOff` proves `UntrustedCarriesNone`, which is in
no run: only a trusted session reads the table (`ReadersTrusted`).

**AgentManager.** `ManagerInv` ties each server's record, the position of its
goroutine included, to its container and to the labels on their way: the pool is
what the servers hold (`PoolExact`), a container that runs is in the hands of a
goroutine that knows its port (`Attended`), the newest label is that of the record
unless two goroutines stored at once (`LabelCurrent`). A step changes one server;
`ServerStep` proves the invariant for a step that keeps, takes or frees a port,
and each action is shown to be one of the three. `PortsAreAccounted` and
`LabelIsState` need all of it: a restart rebuilds the pool from the labels.

**Matchmaker.** The queue's two properties are inductive with the types, because
`Submit` asks the table. `SeatsAreAccounted` needs them: a group's seats are its
players only while no two queued tickets share one. `FramesOnlyGrow` needs
`RostersGrow`: the rosters of a server that are under way form a chain, so that a
command with fewer seats than the frame is a smaller set, which is all the agent's
comparison of two numbers relies on.

**Services.** `part` does not change, so the invariant is one per part, and one
lemma per part says that the part's steps keep it.

- `TenantInv`: the rows a deletion has counted or locked are still so
  (`DeletionHolds`, `WipingHolds`), which is what its later statements rely on.
- `AccessInv`: a flush is due only for a row that is gone (`FlushFollows`); who is
  still verifying a key when its revocation is answered was in flight at the flush
  and has left nothing yet (`OvertakenAreKnown`), so what it leaves is known too.
- `ProbeInv`: one prober at a time, and what it has asked so far was answered
  within the life of the verdict it will leave (`SeenLately`). This proof needed a
  `CASE` of `NarrowProbe` whose guards overlapped to be made an `IF`.
- `EnrolInv`: one authority row, and a leaf is recorded before it is handed out.
- `BackupInv`: while its session lives the lock is held by the master whose run is
  under way (`LockCoversRun`). `DumpsKept`: a dump gives way only to enough newer
  ones (`RotationKeeps`).
- `SilenceInv`: a silence whose id is yet to be stored is within the grace period
  (`PendingIsGraced`), so it was not listed as an orphan; a locked row does not
  lapse. That the row lock outlasts no expiry and that no request outlasts the
  grace period are guards of `Lapse` and `GraceEnds`.
- `FeedInv`: what has ripened has ended (`RipenedEnded`), so what a window read of
  it is all there will be (`RowsAreWhole`), and the cursor trails both what was
  read and what is settled.

- `ImageInv`: a removal that is asked for, under way or reported is of disabled
  versions, and a node that reports one has lost the image since
  (`RemovalsFollow`); a round awaits each node that has not (`RoundsWait`). The two
  are `OneVersion => ...`, because versions that share an image answer each other's
  expectations (section 4).
- `StatInv`: the figures of a day depend on no match that does not reach it
  (`FiguresStay`), so a step of the matches changes settled days only if it takes
  them out of `mended`; what a pass has read of a day is what it says now, or the
  day is out (`PassCovers`, `ReadIsCurrent`). The sums of the model were made sums
  of a function, since the provers cannot use an operator that takes an operator.

`RecordsStayTrue` is `RecordsAreTrue` of every part but the statistics, under
`OneVersion`, which is what the run has; `BackupsCanBeRestored` needs no such
assumption. Of the statistics `PassesRepair` is a theorem. `StatsAreTrue`, that
answers composed of stored days equal those computed from the matches, compares two
folds over different sets and needs induction over data.

**AgentServices.** Again one invariant per part, `AgentInv` together.

- `GameInv`: the rosters a game was told rise, since the SDK compares each with the
  last. That a match frame is heard once needs where it is: in the queue of the
  game, on one connection or with the agent, in one of them at most
  (`FramesOnce`); a start is made where no frame is, an end where no end is. What
  a closed connection has buffered is the beginning of what was on it (`Closes`).
- `OutboxInv`: what was sent is behind the queue, except between the send of a
  message and its pop (`SentIsBehind`). With that each stream stays in order, and
  all it holds comes before what a later stream holds (`StreamsInOrder`), across a
  push that evicts just there. What any stream still holds may follow, in the sense of `Follows`,
  all that was handled (`HandledInOrder`): this is what makes the exemption inductive.
- `LogInv`: nothing was followed while the backlog is read, and what a log that is
  there holds beyond the offset of its tail comes after all that was handed on
  (`TailHolds`, `Ahead`), also after a truncation has put the file below the
  offset. That a look moves the offset to the beginning keeps it (`PollKeeps`), and so
  does reading from an offset the log has shrunk below since (`ReadOnKeeps`). The two channels and the client carry rising lines (`PathRises`), and
  one tail is asked for (`CommandsHold`).
- `UpgradeInv`: the binary is never torn, for any releases. For one release, a
  process that runs it fetches nothing, so only one that does not ever exits for it
  (`SwapsOnce`).

`ArrivesOnceAndInOrder` is `OnceAndInOrder` under `OneRelease`, which is also what
the run has: with two releases an older command can be replayed and swap the
binary back (section 4). `SocketOutboxAndLogsKeepOrder` and `BinaryIsWhole` are
what holds without it. The proof of the logs made `tail.todo` the set of the places
of the files still to be read, where it was a sequence that a `SelectSeq` had made.

**Only model-checked**: liveness everywhere (under fairness out of the prover's
reach, like `ENABLED`): `SilentServersFail`, `PrepullEnds`, `NewestIsTried`,
`CommandTaken`, `StopEnds`, `ReadinessSettled`, `RosterReachesGame`,
`ServicesSettle`, `AgentSettles`; and `StatsAreTrue` of `StatsRollup` in
`RecordsAreTrue`.

`OneServerPerMatch` and the others hold in the proofs for fleets and inputs no run
has; every theorem with an extra assumption names the input or setting that breaks
the property, and section 4 the behaviour.

## 6. Not modelled

- *Promotion* (a registration in another environment) and region-scoped rollback;
  player counts, ticks, ports and labels of rows; wording of events.
- *Calls into containerd*: the outcomes enter `AgentManager` and `ImageCleanup`.
- *Image GC order* and its watermark, the *crash-loop rule* and *packing of
  groups*: arithmetic over one list, choices in the models.
- *Host metrics, cgroups, UDP echo, configuration, master metrics*: I/O and gauges.
- *Request decoding, scope filters, the query rewriter, MCP*: pure functions of a
  request.
- *Sealing of secrets, CA and server leaf rotation.*
- *Panel, infrastructure, examples, Unreal wrappers of the SDK.*
- A crash *between* a commit on the tables and the command it sends: `FleetStore`
  and `AgentLink` meet there, the code never repeats such a command, and no promise
  could hold.
- Two masters at once on the tables; `BackupRunner` and `Enrolment` have two.

## 7. Plan

Every safety property of the runs is a theorem but `StatsAreTrue`, which needs
induction over data, and liveness; both stay with TLC.
