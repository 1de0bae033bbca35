------------------------------ MODULE Services ------------------------------
(***************************************************************************)
(* What the master runs beside the allocation path: image cleanup, alert   *)
(* silences, backups, API keys, the event feed, the statistics rollup,     *)
(* projects with their environments, the credentials of the agent link and *)
(* the probe of the metrics upstream.  No state has two of them for        *)
(* writers, so a step of one leaves the others alone and one behaviour     *)
(* follows one of them, part: their states add up instead of multiplying.  *)
(***************************************************************************)
EXTENDS Integers, Sequences

CONSTANTS
    Parts,   \* the parts followed, of those Next names
    Nodes, Versions, MaxImageFaults,
    Callers, MaxMutes, MaxSilences, MaxMuteOps, MaxSilenceFaults,
    Masters, MaxRuns, MaxManual, MaxBackupFaults, RetentionLocal, KeepRuns,
    Keys, Admins, BoundKeys, MaxAccessFaults,
    MaxId, Batch, SentCap, MaxFeedFaults,
    KeysOf, DayLen, LastTick, MaxRollupFaults,
    Envs, Machines, BoundTo,
    Servants, Life, LastDay, MaxIssued, MaxLinkFaults,
    Paths, OkTicks, Queriers, MaxSwaps

\* Names that stand for no environment, no querier, no master and no caller are
\* not used for one; the metrics upstream has a path and a verdict lives for a
\* while.
ASSUME ServicesAssumption ==
    /\ Envs \cap {"none", "revoked", "global"} = {}
    /\ "none" \notin Queriers /\ "none" \notin Servants
    /\ "free" \notin Masters /\ "loop" \notin Callers
    /\ Len(Paths) \in Nat \ {0} /\ OkTicks \in Nat \ {0}
    /\ MaxMutes \in Nat /\ MaxSilences \in Nat /\ MaxId \in Nat /\ MaxRuns \in Nat
    /\ RetentionLocal \in Nat /\ DayLen \in Nat \ {0} /\ LastTick \in Nat

VARIABLES
    part,
    version, conts, image, pulls, online, sweep, awaitNodes, awaitRef, removals, imageJob,
    report, marking, gone, imgFaults,
    mutes, silences, amUp, act, mutePass, muteOps, silenceFaults,
    enabled, s3Enabled, runs, nextRun, lastOk, dumps, partial, lock, lockLost, running,
    sched, waiting, backupJob, manuals, backupFaults,
    keyRow, verifying, cached, sessions, streams, revoking, overtaken, unpolled,
    accessFaults,
    nextId, event, feed, cursor, read, settled, seen, sent, hi, rows, start, got, last,
    twice, guarded, shorter, feedFaults,
    now, matchRow, stored, rollupPass, mended, rollupFaults,
    project, envs, nodeRow, build, placed, bound, planned, del, wiping, broken,
    caRows, master, trusted, mode, nodeDead, recorded, day, issued, key, crt, bundle,
    enrolling, conn, linked, linkFaults,
    upstream, held, verdict, fresh, ask, mutex, probe, belated, swaps

Images   == INSTANCE ImageCleanup WITH job <- imageJob
Silences == INSTANCE AlertSilences WITH pass <- mutePass
Backups  == INSTANCE BackupRunner WITH job <- backupJob
Creds    == INSTANCE Access
Feed     == INSTANCE EventFeed
Stats    == INSTANCE StatsRollup WITH pass <- rollupPass
Tenants  == INSTANCE Tenancy
Certs    == INSTANCE Enrolment
Probe    == INSTANCE NarrowProbe

imageVars == <<version, conts, image, pulls, online, sweep, awaitNodes, awaitRef, removals,
               imageJob, report, marking, gone, imgFaults>>
muteVars == <<mutes, silences, amUp, act, mutePass, muteOps, silenceFaults>>
backupVars == <<enabled, s3Enabled, runs, nextRun, lastOk, dumps, partial, lock, lockLost,
                running, sched, waiting, backupJob, manuals, backupFaults>>
credVars == <<keyRow, verifying, cached, sessions, streams, revoking, overtaken, unpolled,
              accessFaults>>
feedVars == <<nextId, event, feed, cursor, read, settled, seen, sent, hi, rows, start, got,
              last, twice, guarded, shorter, feedFaults>>
statVars == <<now, matchRow, stored, rollupPass, mended, rollupFaults>>
tenantVars == <<project, envs, nodeRow, build, placed, bound, planned, del, wiping, broken>>
certVars == <<caRows, master, trusted, mode, nodeDead, recorded, day, issued, key, crt,
              bundle, enrolling, conn, linked, linkFaults>>
probeVars == <<upstream, held, verdict, fresh, ask, mutex, probe, belated, swaps>>
services == <<part, imageVars, muteVars, backupVars, credVars, feedVars, statVars, tenantVars,
              certVars, probeVars>>

Init ==
    /\ part \in Parts
    /\ Images!Init /\ Silences!Init /\ Backups!Init /\ Creds!Init /\ Feed!Init
    /\ Stats!Init /\ Tenants!Init /\ Certs!Init /\ Probe!Init
    /\ part = "backups" \/ s3Enabled        \* the choices of the parts
    /\ part = "certs" \/ mode = "mixed"
    /\ part = "probe" \/ \A p \in DOMAIN upstream : upstream[p] = "parses"

\* Nothing but the part followed moves.
Frame ==
    /\ part' = part
    /\ part # "images"   => UNCHANGED imageVars
    /\ part # "silences" => UNCHANGED muteVars
    /\ part # "backups"  => UNCHANGED backupVars
    /\ part # "creds"    => UNCHANGED credVars
    /\ part # "feed"     => UNCHANGED feedVars
    /\ part # "stats"    => UNCHANGED statVars
    /\ part # "tenants"  => UNCHANGED tenantVars
    /\ part # "certs"    => UNCHANGED certVars
    /\ part # "probe"    => UNCHANGED probeVars

Next ==
    /\ \/ part = "images"   /\ Images!Next
       \/ part = "silences" /\ Silences!Next
       \/ part = "backups"  /\ Backups!Next
       \/ part = "creds"    /\ Creds!Next
       \/ part = "feed"     /\ Feed!Next
       \/ part = "stats"    /\ Stats!Next
       \/ part = "tenants"  /\ Tenants!Next
       \/ part = "certs"    /\ Certs!Next
       \/ part = "probe"    /\ Probe!Next
    /\ Frame

Spec == Init /\ [][Next]_services

settling == <<muteVars, backupVars, credVars, feedVars, certVars>>

\* The fairness of each part, its first, second and third condition together:
\* part does not change, so each is that of the part a behaviour follows.
First ==
    /\ \/ part = "silences" /\ Silences!CallSteps
       \/ part = "backups"  /\ Backups!Schedules
       \/ part = "creds"    /\ Creds!Forget
       \/ part = "feed"     /\ Feed!Commits
       \/ part = "certs"    /\ Certs!MasterSteps
    /\ Frame

Second ==
    /\ \/ part = "silences" /\ Silences!LoopSteps
       \/ part = "backups"  /\ Backups!RunOnce
       \/ part = "feed"     /\ Feed!PollSteps
       \/ part = "certs"    /\ Certs!AgentSteps
    /\ Frame

Third == part = "silences" /\ Silences!World /\ Frame
Aging == part = "feed" /\ Feed!Age /\ Frame

FairSpec ==
    /\ Spec
    /\ WF_settling(First) /\ WF_settling(Second) /\ WF_settling(Third) /\ SF_feedVars(Aging)

-----------------------------------------------------------------------------
(* Properties.                                                             *)

\* A sweep or a cursor that works from what it has read passes over nothing
\* that still counts, nor does it take it twice: events committed late, silences
\* of mutes in force, backups that are still being made.
NothingLivePassedOver ==
    /\ part = "feed" => Feed!NothingSkipped /\ Feed!FrameOnce
    /\ part = "silences" => Silences!SweepSparesBacked
    /\ part = "backups" => Backups!SweepSparesLive

\* What is recorded is so: images marked as cleaned are gone from every node,
\* backups recorded as ok can be restored, the days rolled up agree with the
\* matches they count.
RecordsAreTrue ==
    /\ part = "images" => Images!MarkedIsGone
    /\ part = "backups" => Backups!OkCanBeRestored
    /\ part = "stats" => Stats!PassRepairs /\ Stats!StatsAreTrue

\* Once its revocation is answered, a revoked key opens nothing but what a
\* verification the flush overtook has left, and closes its streams when they
\* poll; a bound key is answered by an upstream that narrows, as of a verdict
\* that is recent; and the certificates the masters issue are good with each of
\* them.
CredentialsHold ==
    /\ part = "creds" => Creds!RevokedIsShutOut
    /\ part = "probe" => Probe!VerdictIsRecent
    /\ part = "certs" => Certs!EveryLeafIsTrusted /\ Certs!RecordCoversFiles

\* Taking down an environment or a project widens no key, orphans no node and
\* takes nothing that was not confirmed.
TenantsAreWhole ==
    part = "tenants" =>
        Tenants!NoKeyIsWidened /\ Tenants!NoNodeIsOrphaned /\ Tenants!NothingGoesUnconfirmed

\* When requests and failures stop, silences are the mutes again, a due backup
\* is made, revoked keys are forgotten, events are delivered and the node is
\* linked, each as its own module states it.
ServicesSettle ==
    <>[](/\ part = "silences" => Silences!Mirrored
         /\ part = "backups" => Backups!Met
         /\ part = "creds" => Creds!Forgotten
         /\ part = "feed" => Feed!Delivered
         /\ part = "certs" => Certs!Linked)
=============================================================================
