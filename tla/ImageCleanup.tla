---------------------------- MODULE ImageCleanup ---------------------------
(***************************************************************************)
(* Removing the image of disabled versions from the nodes of one           *)
(* environment: the master's image cleaner (src/master/internal/reconcile/ *)
(* imagecleanup.go), the agent's RemoveImage, PrePull and image GC.        *)
(*                                                                         *)
(* All versions here were registered with the same image_ref, as a promote *)
(* does.  The fast path fires once when a version is disabled, whatever    *)
(* comes back; the sweep repeats until every node reported the image gone. *)
(* Reports wait in the agent's outbox and name the node and the ref only.  *)
(***************************************************************************)
EXTENDS Integers, FiniteSets

CONSTANTS
    Nodes, Versions,
    MaxImageFaults   \* bound: lost sessions, failed calls, master crashes

VARIABLES
    version,         \* per version: its state and image_cleanup_at
    conts,           \* per node: versions with a container (a live server)
    image, pulls,    \* nodes that hold the image, nodes with a pull running
    online,          \* nodes with a session
    sweep,           \* the versions whose targets the sweep has just read
    awaitNodes, awaitRef,   \* per version / per node: verdicts waited for
    removals, job,   \* per node: RemoveImage commands queued, one being run
    report,          \* per node: the ImageReport on its way
    marking,         \* versions whose last verdict is in
    gone,            \* history: the nodes that were without the image at some
                     \* moment after the version was disabled
    imgFaults

vars == <<version, conts, image, pulls, online, sweep, awaitNodes, awaitRef,
          removals, job, report, marking, gone, imgFaults>>

disk   == <<conts, image, pulls>>
master == <<sweep, awaitNodes, awaitRef, marking>>
link   == <<online, removals, job, report>>

State(v) == version[v].state
Live(v) == State(v) \notin {"none", "disabled"}
NoRound == {}
NoReport == "none"
Removed == {"removed", "absent"}

Init ==
    /\ version = [v \in Versions |-> [state |-> "none", marked |-> FALSE]]
    /\ conts = [n \in Nodes |-> {}] /\ image = {} /\ pulls = {}
    /\ online = Nodes /\ sweep = {}
    /\ awaitNodes = [v \in Versions |-> NoRound] /\ awaitRef = [n \in Nodes |-> {}]
    /\ removals = [n \in Nodes |-> FALSE] /\ job = [n \in Nodes |-> "none"]
    /\ report = [n \in Nodes |-> NoReport] /\ marking = {}
    /\ gone = [v \in Versions |-> {}] /\ imgFaults = 0

ImageFault == imgFaults < MaxImageFaults /\ imgFaults' = imgFaults + 1

-----------------------------------------------------------------------------
(* The nodes' images.                                                      *)

\* PrePull: protect the ref, pull in a goroutine.
PrePull(v, n) ==
    /\ Live(v) /\ n \in online /\ n \notin pulls \cup image
    /\ pulls' = pulls \cup {n}
    /\ UNCHANGED <<version, conts, image, master, link, gone, imgFaults>>

PullEnds(n, ok) ==
    /\ n \in pulls /\ pulls' = pulls \ {n}
    /\ IF ok THEN image' = image \cup {n} /\ UNCHANGED imgFaults ELSE ImageFault /\ UNCHANGED image
    /\ UNCHANGED <<version, conts, master, link, gone>>

\* A server of a live version: EnsureImage, then its container.
StartServer(v, n) ==
    /\ Live(v) /\ n \in online /\ v \notin conts[n]
    /\ conts' = [conts EXCEPT ![n] = @ \cup {v}] /\ image' = image \cup {n}
    /\ UNCHANGED <<version, pulls, master, link, gone, imgFaults>>

ServerExits(v, n) ==
    /\ v \in conts[n] /\ ~Live(v) /\ conts' = [conts EXCEPT ![n] = @ \ {v}]
    /\ UNCHANGED <<version, image, pulls, master, link, gone, imgFaults>>

\* The image leaves the node.
Delete(n) ==
    /\ image' = image \ {n}
    /\ gone' = [v \in Versions |-> IF State(v) = "disabled" THEN gone[v] \cup {n} ELSE gone[v]]

\* imagegc.RunOnce: above the watermark an image that no container uses may go;
\* other refs may have pushed this one out of the bounded set of recent ones.
Collect(n) ==
    /\ n \in image /\ conts[n] = {} /\ Delete(n)
    /\ UNCHANGED <<version, conts, pulls, master, link, imgFaults>>

-----------------------------------------------------------------------------
(* The master.                                                             *)

Register(v) ==
    /\ State(v) = "none" /\ version' = [version EXCEPT ![v].state = "live"]
    /\ UNCHANGED <<disk, master, link, gone, imgFaults>>

ImageRefInUse == \E v \in Versions : Live(v)

\* One RemoveImage to every node of the environment, online or not.
SendAll == [n \in Nodes |-> TRUE]

\* A transition to disabled and its fast path.
Disable(v) ==
    /\ Live(v) /\ version' = [version EXCEPT ![v].state = "disabled"]
    /\ removals' = IF ImageRefInUse' THEN removals ELSE SendAll
    /\ gone' = [gone EXCEPT ![v] = Nodes \ image]
    /\ UNCHANGED <<disk, master, online, job, report, imgFaults>>

\* VersionsPendingImageCleanup.
Pending == {v \in Versions : /\ State(v) = "disabled" /\ ~version[v].marked
                             /\ \A n \in Nodes : v \notin conts[n]}

\* The sweep reads its versions and their targets.
SweepReads ==
    /\ sweep = {} /\ Pending # {} /\ ~ImageRefInUse /\ online = Nodes
    /\ sweep' = Pending
    /\ UNCHANGED <<version, disk, awaitNodes, awaitRef, marking, link, gone, imgFaults>>

\* A new round takes the place of an older one.
Expect(group) ==
    /\ awaitNodes' = [v \in Versions |-> IF v \in group THEN Nodes ELSE awaitNodes[v]]
    /\ awaitRef' = [n \in Nodes |-> group]

\* It registers what it waits for before it sends.
SweepImages ==
    /\ sweep # {} /\ sweep' = {} /\ Expect(sweep) /\ removals' = SendAll
    /\ UNCHANGED <<version, disk, marking, online, job, report, gone, imgFaults>>

\* Mutant: a busy node is merely dropped from the round.
Verdict_BusyDropped(v, n, st) == awaitNodes[v] \ {n}

\* A round ends at the first node that is busy or fails.
Verdict(v, n, st) == IF st \in Removed THEN awaitNodes[v] \ {n} ELSE NoRound

HandleImageReport(n, st) ==
    LET waiting == {v \in awaitRef[n] : awaitNodes[v] # NoRound}
        done == {v \in waiting : st \in Removed /\ Verdict(v, n, st) = {}} IN
    /\ report[n] = st /\ n \in online /\ report' = [report EXCEPT ![n] = NoReport]
    /\ awaitRef' = [awaitRef EXCEPT ![n] = {}]
    /\ awaitNodes' = [v \in Versions |-> IF v \in waiting THEN Verdict(v, n, st)
                                         ELSE awaitNodes[v]]
    /\ marking' = marking \cup done
    /\ UNCHANGED <<version, disk, sweep, online, removals, job, gone, imgFaults>>

\* MarkImageCleanupSent, after the unlock.
MarkImageCleanupSent(v, ok) ==
    /\ v \in marking /\ marking' = marking \ {v}
    /\ IF ok THEN version' = [version EXCEPT ![v].marked = TRUE] /\ UNCHANGED imgFaults
             ELSE ImageFault /\ UNCHANGED version
    /\ UNCHANGED <<disk, sweep, awaitNodes, awaitRef, link, gone>>

-----------------------------------------------------------------------------
(* The agent's RemoveImage.                                                *)

ReportImage(n, st) == report' = [report EXCEPT ![n] = st]

\* Bound: one removal of a node is under way at a time, its report included.
\* The goroutine looks whether a container uses the ref,
RemoveImage(n) ==
    /\ removals[n] /\ n \in online /\ job[n] = "none" /\ report[n] = NoReport
    /\ removals' = [removals EXCEPT ![n] = FALSE]
    /\ IF conts[n] # {} THEN ReportImage(n, "busy") /\ UNCHANGED job
                        ELSE job' = [job EXCEPT ![n] = "unused"] /\ UNCHANGED report
    /\ UNCHANGED <<version, disk, master, online, gone, imgFaults>>

\* and deletes it afterwards.
DeleteImage(n, ok) ==
    /\ job[n] = "unused" /\ job' = [job EXCEPT ![n] = "none"]
    /\ IF ok THEN /\ ReportImage(n, IF n \in image THEN "removed" ELSE "absent")
                  /\ Delete(n) /\ UNCHANGED imgFaults
             ELSE /\ ReportImage(n, "error") /\ ImageFault /\ UNCHANGED <<image, gone>>
    /\ UNCHANGED <<version, conts, pulls, master, online, removals>>

Offline(n) ==
    /\ n \in online /\ ImageFault /\ online' = online \ {n}
    /\ UNCHANGED <<version, disk, master, removals, job, report, gone>>

Online(n) ==
    /\ n \notin online /\ online' = online \cup {n}
    /\ UNCHANGED <<version, disk, master, removals, job, report, gone, imgFaults>>

\* The rounds and the hub's queues were memory.
MasterCrash ==
    /\ ImageFault /\ sweep' = {} /\ marking' = {} /\ removals' = [n \in Nodes |-> FALSE]
    /\ awaitNodes' = [v \in Versions |-> NoRound] /\ awaitRef' = [n \in Nodes |-> {}]
    /\ UNCHANGED <<version, disk, online, job, report, gone>>

-----------------------------------------------------------------------------
Next ==
    \/ \E v \in Versions : Register(v) \/ Disable(v)
    \/ \E v \in Versions, ok \in BOOLEAN : MarkImageCleanupSent(v, ok)
    \/ \E v \in Versions, n \in Nodes : PrePull(v, n) \/ StartServer(v, n) \/ ServerExits(v, n)
    \/ \E n \in Nodes, ok \in BOOLEAN : PullEnds(n, ok) \/ DeleteImage(n, ok)
    \/ \E n \in Nodes : Collect(n) \/ RemoveImage(n) \/ Offline(n) \/ Online(n)
    \/ \E n \in Nodes, st \in {"removed", "absent", "busy", "error"} :
            HandleImageReport(n, st)
    \/ SweepReads \/ SweepImages \/ MasterCrash

Spec == Init /\ [][Next]_vars

-----------------------------------------------------------------------------
(* Properties.                                                             *)

\* image_cleanup_at is stamped only when every node has lost the image at some
\* moment after the version was disabled: no lost, repeated, busy or failed
\* removal is taken for one.  (Of versions that share the image, a report for
\* one may answer for another that was disabled later.)
MarkedIsGone == \A v \in Versions : version[v].marked => gone[v] = Nodes
=============================================================================
