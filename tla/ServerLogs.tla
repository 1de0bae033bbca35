----------------------------- MODULE ServerLogs -----------------------------
(***************************************************************************)
(* The log of one game server on its node and one tail of it, from the     *)
(* files to the HTTP client: rotation by copy and truncate, compression    *)
(* after the stop, the sweep (agent/internal/logrot), TailLogs with its    *)
(* cancel (daemon/manager.go), the chunk channel (link/outbox.go), the     *)
(* router and the handler of the master (agentlink/logrouter.go,           *)
(* httpapi/ops.go).                                                        *)
(*                                                                         *)
(* Lines are numbered as they are written, an offset counts lines, and a   *)
(* file is read in one step; copying, truncating, compressing and removing *)
(* are steps of their own.  A tail of the last lines asks for one of them. *)
(* The sweep waits two periods after the last write, so it does not meet   *)
(* the finalizer, and the retention keeps archives for days, so it does    *)
(* not meet a tail.  Commands are delivered in order (AgentLink has their  *)
(* redelivery).  RotateAt, ChunkCap and RouteCap are MaxSize, logChanCap   *)
(* and the buffer of the router; MaxLines and MaxLogFaults are bounds.     *)
(***************************************************************************)
EXTENDS Integers, Sequences, SequencesExt

CONSTANTS RotateAt, ChunkCap, RouteCap, MaxLines, MaxLogFaults

VARIABLES
    lines,      \* lines written so far
    file,       \* the files of the server
    alive,      \* its container runs
    rotating,   \* the copy is made, the truncation is not
    zips,       \* the files still to be compressed
    zipping,    \* the first of them is being compressed
    cmds,       \* TailLogs commands on their way
    tail,       \* the tail
    chunks,     \* logCh
    routed,     \* the channel of the subscriber
    client,     \* the HTTP client
    shown,      \* followed lines the client was shown
    logFaults

logVars == <<lines, file, alive, rotating, zips, zipping, cmds, tail, chunks, routed, client,
             shown, logFaults>>
fileVars == <<lines, file, alive, rotating, zips, zipping>>
pathVars == <<chunks, routed, client, shown>>

\* In the order Stream looks for them.
Names == <<"old.gz", "old", "log.gz", "log">>
Gz(name) == IF name = "old" THEN "old.gz" ELSE "log.gz"
Absent == [there |-> FALSE, lines |-> <<>>, whole |-> FALSE]
File(ls) == [there |-> TRUE, lines |-> ls, whole |-> TRUE]

NoTail == [st |-> "none", follow |-> FALSE, lastOnly |-> FALSE, todo |-> {}, ring |-> <<>>,
           offset |-> -1, backlog |-> 0, cancelled |-> FALSE]
Eof == [lines |-> <<>>, followed |-> FALSE, eof |-> TRUE]
Chunk(ls, f) == [lines |-> ls, followed |-> f, eof |-> FALSE]

LogTypeOK ==
    /\ lines \in 0..MaxLines /\ Len(chunks) <= ChunkCap /\ Len(routed) <= RouteCap
    /\ tail.st \in {"none", "list", "read", "follow", "grown", "eof", "done"}
    /\ client \in {"idle", "open", "closed"} /\ tail.offset \in -1..MaxLines

Init ==
    /\ lines = 0 /\ alive = TRUE /\ rotating = FALSE /\ zips = <<>> /\ zipping = FALSE
    /\ file = [n \in Range(Names) |-> IF n = "log" THEN File(<<>>) ELSE Absent]
    /\ cmds = <<>> /\ tail = NoTail /\ chunks = <<>> /\ routed = <<>>
    /\ client = "idle" /\ shown = <<>> /\ logFaults = 0

Fault == logFaults < MaxLogFaults /\ logFaults' = logFaults + 1

-----------------------------------------------------------------------------
(* The files.                                                              *)

\* The shim keeps its descriptor on the active log.
WriteLine ==
    /\ alive /\ lines < MaxLines /\ lines' = lines + 1
    /\ file' = [file EXCEPT !["log"].lines = Append(@, lines')]
    /\ UNCHANGED <<alive, rotating, zips, zipping, cmds, tail, pathVars, logFaults>>

\* RotateOnce: a live log over its size is copied, then truncated; what was
\* written in between is gone, and so is a log the finalizer had copied.
RotateCopy ==
    /\ alive /\ ~rotating /\ Len(file["log"].lines) >= RotateAt
    /\ rotating' = TRUE /\ file' = [file EXCEPT !["old"] = File(file["log"].lines)]
    /\ UNCHANGED <<lines, alive, zips, zipping, cmds, tail, pathVars, logFaults>>

RotateTruncate ==
    /\ rotating /\ rotating' = FALSE
    /\ file' = IF file["log"].there THEN [file EXCEPT !["log"].lines = <<>>] ELSE file
    /\ UNCHANGED <<lines, alive, zips, zipping, cmds, tail, pathVars, logFaults>>

\* The server stops; its goroutine finalizes the logs.
Stop ==
    /\ alive /\ alive' = FALSE /\ zips' = <<"old", "log">>
    /\ UNCHANGED <<lines, file, rotating, zipping, cmds, tail, pathVars, logFaults>>

\* Mutant: a stopped server is swept by its archives only.
Unswept_None == {}
\* SweepOnce: plain logs of a server that is no longer supervised.
Unswept == {n \in {"old", "log"} : file[n].there}

Sweep ==
    /\ ~alive /\ zips = <<>> /\ ~rotating /\ Unswept # {}
    /\ zips' = SetToSeq(Unswept)
    /\ UNCHANGED <<lines, file, alive, rotating, zipping, cmds, tail, pathVars, logFaults>>

\* gzipFile: the archive appears, whole only at its end, and the log is removed.
ZipStart ==
    /\ zips # <<>> /\ ~zipping
    /\ LET n == Head(zips) IN
       IF file[n].there
       THEN /\ zipping' = TRUE /\ zips' = zips
            /\ file' = [file EXCEPT ![Gz(n)] = [File(file[n].lines) EXCEPT !.whole = FALSE]]
       ELSE zips' = Tail(zips) /\ UNCHANGED <<file, zipping>>
    /\ UNCHANGED <<lines, alive, rotating, cmds, tail, pathVars, logFaults>>

ZipEnd ==
    /\ zipping /\ zipping' = FALSE /\ zips' = Tail(zips)
    /\ file' = [file EXCEPT ![Head(zips)] = Absent, ![Gz(Head(zips))].whole = TRUE]
    /\ UNCHANGED <<lines, alive, rotating, cmds, tail, pathVars, logFaults>>

\* The archives of a stopped server age together.
Expire ==
    /\ ~alive /\ zips = <<>> /\ ~rotating /\ Unswept = {}
    /\ tail.st \in {"none", "done"} /\ cmds = <<>>
    /\ file' = [n \in Range(Names) |-> Absent] /\ file' # file
    /\ UNCHANGED <<lines, alive, rotating, zips, zipping, cmds, tail, pathVars, logFaults>>

-----------------------------------------------------------------------------
(* The tail: TailLogs, Stream and followFile.                              *)

Tailing == tail.st \in {"list", "read", "follow", "grown"}

TakeCommand ==
    /\ cmds # <<>> /\ cmds' = Tail(cmds)
    /\ tail' = CASE Head(cmds).cancel            -> [tail EXCEPT !.cancelled = @ \/ Tailing]
                 [] ~Head(cmds).cancel           -> [NoTail EXCEPT !.st = "list",
                                                       !.follow = Head(cmds).follow,
                                                       !.lastOnly = Head(cmds).lastOnly]
    /\ UNCHANGED <<fileVars, pathVars, logFaults>>

\* LogChunk waits for room, until its timer or the cancel.
Emits(ls, followed) ==
    IF ls = <<>> THEN UNCHANGED chunks
    ELSE Len(chunks) < ChunkCap /\ chunks' = Append(chunks, Chunk(ls, followed))

\* Stream lists the files that are there, kept as their places in Names.
List ==
    /\ tail.st = "list"
    /\ LET found == {i \in DOMAIN Names : file[Names[i]].there} IN
       tail' = [tail EXCEPT !.st = IF found = {} /\ ~tail.follow THEN "eof" ELSE "read",
                            !.todo = found]
    /\ UNCHANGED <<fileVars, cmds, pathVars, logFaults>>

\* streamFile and readLines: a file that is gone or half compressed ends it.
ReadSource ==
    /\ tail.st = "read" /\ tail.todo # {}
    /\ LET i == Min(tail.todo)
           f == file[Names[i]] IN
       IF ~f.there \/ ~f.whole THEN tail' = [tail EXCEPT !.st = "eof"] /\ UNCHANGED chunks
       ELSE /\ IF tail.lastOnly THEN UNCHANGED chunks ELSE Emits(f.lines, FALSE)
            /\ tail' = [tail EXCEPT
                 !.todo = @ \ {i},
                 !.ring = IF f.lines = <<>> THEN @ ELSE <<Last(f.lines)>>,
                 !.backlog = IF tail.lastOnly \/ f.lines = <<>> THEN @ ELSE Last(f.lines),
                 !.offset = IF Names[i] = "log" /\ ~tail.lastOnly THEN Len(f.lines) ELSE @]
    /\ UNCHANGED <<fileVars, cmds, routed, client, shown, logFaults>>

\* The last lines go out together, and the active log is followed from where
\* it ends by now.
BacklogDone ==
    /\ tail.st = "read" /\ tail.todo = {}
    /\ IF tail.lastOnly THEN Emits(tail.ring, FALSE) ELSE UNCHANGED chunks
    /\ tail' = [tail EXCEPT
         !.st = IF tail.follow THEN "follow" ELSE "eof",
         !.backlog = IF tail.lastOnly /\ tail.ring # <<>> THEN tail.ring[1] ELSE @,
         !.offset = IF tail.lastOnly /\ file["log"].there THEN Len(file["log"].lines) ELSE @]
    /\ UNCHANGED <<fileVars, cmds, routed, client, shown, logFaults>>

\* Mutant: a log of the length it had is taken for a rotated one.
From_Same(len) == IF tail.offset < 0 \/ len <= tail.offset THEN 0 ELSE tail.offset

\* First sight of the log, or one that has shrunk, is read from its beginning.
From(len) == IF tail.offset < 0 \/ len < tail.offset THEN 0 ELSE tail.offset

\* followFile looks at the size of the log, if it is still there.
Poll ==
    /\ tail.st = "follow"
    /\ LET f == file["log"]
           len == Len(f.lines) IN
       \/ /\ f.there /\ (From(len) # tail.offset \/ len # tail.offset)
          /\ tail' = [tail EXCEPT !.offset = From(len),
                                  !.st = IF len = From(len) THEN @ ELSE "grown"]
       \/ /\ ~f.there /\ file["log.gz"].there /\ tail.offset >= 0
          /\ tail' = [tail EXCEPT !.st = "eof"]
    /\ UNCHANGED <<fileVars, cmds, pathVars, logFaults>>

\* Then it opens the log and reads on from the offset, to the end it finds now.
ReadOn ==
    /\ tail.st = "grown"
    /\ LET f == file["log"]
           new == SubSeq(f.lines, tail.offset + 1, Len(f.lines)) IN
       IF f.there
       THEN Emits(new, TRUE) /\ tail' = [tail EXCEPT !.st = "follow", !.offset = @ + Len(new)]
       ELSE tail' = [tail EXCEPT !.st = "follow"] /\ UNCHANGED chunks
    /\ UNCHANGED <<fileVars, cmds, routed, client, shown, logFaults>>

\* The context is cancelled, or a chunk found no room for logPushTimeout.
GiveUp ==
    /\ Tailing /\ (tail.cancelled \/ Len(chunks) = ChunkCap)
    /\ tail' = [tail EXCEPT !.st = "eof"]
    /\ UNCHANGED <<fileVars, cmds, pathVars, logFaults>>

\* The last chunk is best effort.
End ==
    /\ tail.st = "eof" /\ tail' = [NoTail EXCEPT !.st = "done", !.backlog = tail.backlog]
    /\ \/ Len(chunks) < ChunkCap /\ chunks' = Append(chunks, Eof)
       \/ (tail.cancelled \/ Len(chunks) = ChunkCap) /\ UNCHANGED chunks
    /\ UNCHANGED <<fileVars, cmds, routed, client, shown, logFaults>>

\* The agent restarts: the tail, the chunks and the finalizer are gone.
AgentRestarts ==
    /\ Fault /\ rotating' = FALSE /\ zips' = <<>> /\ zipping' = FALSE
    /\ tail' = IF tail.st = "none" THEN tail ELSE [NoTail EXCEPT !.st = "done"]
    /\ chunks' = <<>>
    /\ UNCHANGED <<lines, file, alive, cmds, routed, client, shown>>

-----------------------------------------------------------------------------
(* The way to the client.                                                  *)

\* handleServerLogs sends the command and registers its id.
OpenTail(follow, lastOnly) ==
    /\ client = "idle" /\ client' = "open"
    /\ cmds' = <<[cancel |-> FALSE, follow |-> follow, lastOnly |-> lastOnly]>>
    /\ UNCHANGED <<fileVars, tail, chunks, routed, shown, logFaults>>

\* The session sends a chunk, or dies with it; Dispatch drops what has no
\* subscriber or no room.
Dispatch ==
    /\ chunks # <<>> /\ chunks' = Tail(chunks)
    /\ \/ /\ routed' = IF client = "open" /\ Len(routed) < RouteCap
                       THEN Append(routed, Head(chunks)) ELSE routed
          /\ UNCHANGED logFaults
       \/ Fault /\ UNCHANGED routed
    /\ UNCHANGED <<fileVars, cmds, tail, client, shown>>

ClientReads ==
    /\ client = "open" /\ routed # <<>>
    /\ LET c == Head(routed) IN
       /\ shown' = IF c.followed THEN shown \o c.lines ELSE shown
       /\ client' = IF c.eof THEN "closed" ELSE client
       /\ routed' = IF c.eof THEN <<>> ELSE Tail(routed)
    /\ UNCHANGED <<fileVars, cmds, tail, chunks, logFaults>>

\* Mutant: the handler just returns.
Cancelled_Not == cmds
\* cancelTail, the cancel of the registration.
Cancelled == Append(cmds, [cancel |-> TRUE, follow |-> FALSE, lastOnly |-> FALSE])

ClientLeaves ==
    /\ client = "open" /\ client' = "closed" /\ routed' = <<>> /\ cmds' = Cancelled
    /\ UNCHANGED <<fileVars, tail, chunks, shown, logFaults>>

-----------------------------------------------------------------------------
FileSteps == RotateTruncate \/ Sweep \/ ZipStart \/ ZipEnd
TailSteps ==
    \/ TakeCommand \/ List \/ ReadSource \/ BacklogDone \/ Poll \/ ReadOn \/ GiveUp \/ End
    \/ Dispatch \/ ClientReads

Next ==
    \/ WriteLine \/ RotateCopy \/ Stop \/ Expire \/ AgentRestarts \/ ClientLeaves
    \/ \E follow, lastOnly \in BOOLEAN : OpenTail(follow, lastOnly)
    \/ FileSteps \/ TailSteps

Spec == Init /\ [][Next]_logVars

\* The rotator, the finalizer, the tail and the session run; nothing is
\* assumed of the server and the client.
FairSpec == Spec /\ WF_logVars(FileSteps) /\ WF_logVars(TailSteps)

-----------------------------------------------------------------------------
(* Properties.                                                             *)

\* A client that follows sees each line once and in order, after the backlog
\* and whatever the rotation does to the file meanwhile.
FollowedOnce ==
    /\ \A i, j \in DOMAIN shown : i < j => shown[i] < shown[j]
    /\ \A i \in DOMAIN shown : shown[i] > tail.backlog

\* A stopped server leaves only archives, and a tail ends when its client has
\* gone or the log it has seen is finalized.
LogsSettled ==
    /\ alive \/ Unswept = {}
    /\ \/ tail.st \in {"none", "done"}
       \/ client = "open" /\ (alive \/ tail.offset < 0)

=============================================================================
