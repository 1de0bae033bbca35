---------------------------- MODULE BackupRunner ----------------------------
(***************************************************************************)
(* Database backups: the scheduler and the manual run of each master       *)
(* (src/master/internal/backup/runner.go, s3.go), the history and the      *)
(* advisory lock (store/backups.go), the handlers (httpapi/backups.go).    *)
(*                                                                         *)
(* One run at a time on all masters: a flag in the process, and a lock     *)
(* held by a database session that may end before the run does.            *)
(* A dump's name is its start time, so dumps sort as the runs' ids do.     *)
(***************************************************************************)
EXTENDS Integers, FiniteSets

CONSTANTS
    Masters,
    MaxRuns, MaxManual, MaxBackupFaults,   \* bounds
    RetentionLocal, KeepRuns               \* settings.retention_local, keepRuns

VARIABLES
    enabled, s3Enabled,      \* backup_settings
    runs,                    \* backup_runs: the result of each, "none" when absent
    nextRun,
    lastOk,                  \* LastBackupSuccess against the interval
    dumps, partial,          \* the files of each master
    lock, lockLost,          \* the advisory lock; history: a session ended early
    running,                 \* per master: the flag of its process
    sched,                   \* per master: its scheduler
    waiting,                 \* per master: before nextRetry
    job,                     \* per master: the run under way
    manuals, backupFaults

backupVars == <<enabled, s3Enabled, runs, nextRun, lastOk, dumps, partial, lock,
          lockLost, running, sched, waiting, job, manuals, backupFaults>>

table  == <<runs, nextRun, lastOk>>
files  == <<dumps, partial>>
config == <<enabled, s3Enabled>>
local  == <<running, sched, waiting, job>>
bounds == <<manuals, backupFaults>>

Runs == 1..MaxRuns
NoRun == 0
Free == "free"
NoJob == [pc |-> "none", id |-> NoRun, kind |-> "none", s3 |-> FALSE]

Init ==
    /\ enabled = TRUE /\ s3Enabled \in BOOLEAN
    /\ runs = [r \in Runs |-> "none"] /\ nextRun = 1 /\ lastOk = "none"
    /\ dumps = [m \in Masters |-> {}] /\ partial = {}
    /\ lock = Free /\ lockLost = FALSE
    /\ running = [m \in Masters |-> FALSE] /\ sched = [m \in Masters |-> "start"]
    /\ waiting = {} /\ job = [m \in Masters |-> NoJob]
    /\ manuals = 0 /\ backupFaults = 0

Fault == backupFaults < MaxBackupFaults /\ backupFaults' = backupFaults + 1
Maybe(ok) == IF ok THEN UNCHANGED backupFaults ELSE Fault

\* The Keep largest of a set of run ids.
Newest(set, Keep) == {r \in set : Cardinality({x \in set : x > r}) < Keep}

-----------------------------------------------------------------------------
(* Starting.                                                               *)

SweepAllowed == lock = Free

SweepStuckBackupRuns == [r \in Runs |-> IF runs[r] = "running" THEN "error" ELSE runs[r]]

\* Run: cleanupPartials and sweepStuck.  The update is one statement between
\* the taking and the release of the lock.
SweepStuck(m) ==
    /\ sched[m] = "start" /\ sched' = [sched EXCEPT ![m] = "loop"]
    /\ partial' = partial \ {m}
    /\ runs' = IF SweepAllowed THEN SweepStuckBackupRuns ELSE runs
    /\ UNCHANGED <<config, nextRun, lastOk, dumps, lock, lockLost, running, waiting, job, bounds>>

\* maybeRun finds a run due.
MaybeRun(m) ==
    /\ sched[m] = "loop" /\ m \notin waiting /\ enabled /\ lastOk # "recent"
    /\ sched' = [sched EXCEPT ![m] = "due"]
    /\ UNCHANGED <<config, table, files, lock, lockLost, running, waiting, job, bounds>>

\* Mutant: the flag stays set when the lock is not had.
RunningAfter_Kept(m, got) == TRUE

RunningAfter(m, got) == got

\* The flag and the lock; without the lock the flag is put back.
Acquire(m, kind, ok) ==
    LET got == ok /\ lock = Free IN
    /\ IF kind = "manual" THEN manuals < MaxManual ELSE sched[m] = "due"
    /\ ~running[m] /\ Maybe(ok)
    /\ manuals' = IF kind = "manual" THEN manuals + 1 ELSE manuals
    /\ running' = [running EXCEPT ![m] = RunningAfter(m, got)]
    /\ lock' = IF got THEN m ELSE lock
    /\ job' = IF got THEN [job EXCEPT ![m] = [NoJob EXCEPT !.pc = "begin", !.kind = kind]] ELSE job
    /\ sched' = IF kind = "manual" THEN sched
                ELSE [sched EXCEPT ![m] = IF got THEN "busy" ELSE "loop"]
    /\ UNCHANGED <<config, table, files, lockLost, waiting>>

\* The flag is taken by the other thread.
SkipBusy(m) ==
    /\ sched[m] = "due" /\ running[m] /\ sched' = [sched EXCEPT ![m] = "loop"]
    /\ UNCHANGED <<config, table, files, lock, lockLost, running, waiting, job, bounds>>

-----------------------------------------------------------------------------
(* runOnce.                                                                *)

Goes(m, pc) == job' = [job EXCEPT ![m].pc = pc]

\* The settings and the row; pg_dump starts.
InsertRun(m, ok) ==
    /\ job[m].pc = "begin" /\ nextRun \in Runs /\ Maybe(ok)
    /\ IF ok THEN /\ runs' = [runs EXCEPT ![nextRun] = "running"] /\ nextRun' = nextRun + 1
                  /\ job' = [job EXCEPT ![m] = [@ EXCEPT !.pc = "dump", !.id = nextRun,
                                                         !.s3 = s3Enabled]]
                  /\ partial' = partial \cup {m}
             ELSE Goes(m, "fail") /\ UNCHANGED <<runs, nextRun, partial>>
    /\ UNCHANGED <<config, lastOk, dumps, lock, lockLost, running, sched, waiting, manuals>>

Rotated(set) == Newest(set, RetentionLocal)

\* checkVersions, pg_dump, the rename; rotateLocal follows at once.
Dump(m, ok) ==
    /\ job[m].pc = "dump" /\ Maybe(ok) /\ partial' = partial \ {m}
    /\ IF ok THEN /\ dumps' = [dumps EXCEPT ![m] = Rotated(@ \cup {job[m].id})]
                  /\ Goes(m, IF job[m].s3 THEN "s3" ELSE "ok")
             ELSE Goes(m, "fail") /\ UNCHANGED dumps
    /\ UNCHANGED <<config, table, lock, lockLost, running, sched, waiting, manuals>>

S3Config == s3Enabled

\* BackupS3Config is read again: it fails when S3 has been switched off and the
\* secret cleared.  The dump must still be on disk.  What the bucket holds is
\* left out.
SyncS3(m, ok) ==
    LET can == ok /\ S3Config /\ job[m].id \in dumps[m] IN
    /\ job[m].pc = "s3" /\ Maybe(ok)
    /\ Goes(m, IF can THEN "ok" ELSE "fail")
    /\ UNCHANGED <<config, table, dumps, partial, lock, lockLost, running, sched, waiting, manuals>>

Present == {r \in Runs : runs[r] # "none"}
\* FinishBackupRun (nothing to update when the row is gone) and PruneBackupRuns.
Finished(id, result) ==
    [r \in Runs |-> IF r \notin Newest(Present, KeepRuns) THEN "none"
                    ELSE IF r = id THEN result ELSE runs[r]]

\* The deferred releases, and the backoff of the scheduler.
Release(m, failed) ==
    /\ running' = [running EXCEPT ![m] = FALSE] /\ job' = [job EXCEPT ![m] = NoJob]
    /\ lock' = IF lock = m THEN Free ELSE lock
    /\ IF job[m].kind = "manual" THEN UNCHANGED <<sched, waiting>>
       ELSE /\ sched' = [sched EXCEPT ![m] = "loop"]
            /\ waiting' = IF failed THEN waiting \cup {m} ELSE waiting \ {m}

\* The outcome is written under a context of its own; when that fails the row
\* stays "running".
Finish(m, ok) ==
    LET good == job[m].pc = "ok" IN
    /\ job[m].pc \in {"ok", "fail"} /\ Maybe(ok)
    /\ runs' = IF ~ok \/ job[m].id = NoRun THEN runs
               ELSE Finished(job[m].id, IF good THEN "ok" ELSE "error")
    /\ lastOk' = IF good /\ ok THEN "recent"
                 ELSE IF \E r \in Runs : runs'[r] = "ok" THEN lastOk ELSE "none"
    /\ Release(m, ~(good /\ ok))
    /\ UNCHANGED <<config, nextRun, files, lockLost, manuals>>

-----------------------------------------------------------------------------
(* The surroundings.                                                       *)

PatchSettings(on, cloud) ==
    /\ Fault /\ enabled' = on /\ s3Enabled' = cloud /\ <<on, cloud>> # <<enabled, s3Enabled>>
    /\ UNCHANGED <<table, files, lock, lockLost, local, manuals>>

\* The interval passes.
Due ==
    /\ lastOk = "recent" /\ nextRun \in Runs /\ lastOk' = "stale"
    /\ UNCHANGED <<config, runs, nextRun, files, lock, lockLost, local, bounds>>

BackoffEnds(m) ==
    /\ m \in waiting /\ waiting' = waiting \ {m}
    /\ UNCHANGED <<config, table, files, lock, lockLost, running, sched, job, bounds>>

\* The database session that holds the lock ends; the run goes on without it.
SessionDies ==
    /\ lock # Free /\ Fault /\ lock' = Free /\ lockLost' = TRUE
    /\ UNCHANGED <<config, table, files, local, manuals>>

Crash(m) ==
    /\ Fault /\ sched' = [sched EXCEPT ![m] = "start"] /\ waiting' = waiting \ {m}
    /\ running' = [running EXCEPT ![m] = FALSE] /\ job' = [job EXCEPT ![m] = NoJob]
    /\ lock' = IF lock = m THEN Free ELSE lock
    /\ UNCHANGED <<config, table, files, lockLost, manuals>>

-----------------------------------------------------------------------------
Schedules == \E m \in Masters :
    \/ SweepStuck(m) \/ MaybeRun(m) \/ SkipBusy(m) \/ BackoffEnds(m)
    \/ Acquire(m, "scheduled", TRUE)

RunOnce == \E m \in Masters :
    InsertRun(m, TRUE) \/ Dump(m, TRUE) \/ SyncS3(m, TRUE) \/ Finish(m, TRUE)

Next ==
    \/ Schedules \/ RunOnce \/ Due \/ SessionDies
    \/ \E m \in Masters : \/ Acquire(m, "scheduled", FALSE) \/ InsertRun(m, FALSE)
                          \/ Dump(m, FALSE) \/ SyncS3(m, FALSE) \/ Finish(m, FALSE)
                          \/ Crash(m)
    \/ \E m \in Masters, ok \in BOOLEAN : Acquire(m, "manual", ok)
    \/ \E on, cloud \in BOOLEAN : PatchSettings(on, cloud)

Spec == Init /\ [][Next]_backupVars
FairSpec == Spec /\ WF_backupVars(Schedules) /\ WF_backupVars(RunOnce)

-----------------------------------------------------------------------------
(* Properties.                                                             *)

\* A run recorded as ok can be restored: its dump is on a disk, until as many
\* newer ones as are to be kept have taken its place.
OkCanBeRestored ==
    \A r \in Runs : runs[r] = "ok" =>
        \E m \in Masters : \/ r \in dumps[m]
                           \/ Cardinality({x \in dumps[m] : x > r}) >= RetentionLocal

\* The sweep after a restart gives up no run that is still going on anywhere,
\* unless the session of its lock has ended.
SweepSparesLive ==
    \A m \in Masters :
        job[m].pc \in {"dump", "s3", "ok"} /\ ~lockLost => runs[job[m].id] = "running"

\* In the end a due backup is made, unless backups are switched off or the runs
\* of the instance are used up: no failure, crash or manual run leaves the flag,
\* the lock or the backoff in its way.
Met == ~enabled \/ lastOk = "recent" \/ nextRun \notin Runs
BackupsResume == <>[]Met
=============================================================================
