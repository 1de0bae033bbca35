---------------------------- MODULE AlertSilences ----------------------------
(***************************************************************************)
(* Alert mutes of one target and their mirror in the alertmanager: the     *)
(* handlers of /v1/alerts/mutes (src/master/internal/httpapi/alerts.go),   *)
(* the table (store/alerts.go) and the reconcile loop (amsilence.go).      *)
(*                                                                         *)
(* The row is the truth and the silence a copy.  Handlers and the loop     *)
(* work from a row they read earlier, and store the id of a silence only   *)
(* after the alertmanager has made it.  Two end times stand for all:       *)
(* "soon", which Lapse brings about, and "never".                          *)
(***************************************************************************)
EXTENDS Integers, FiniteSets

CONSTANTS
    Callers,          \* requests in flight at a time
    MaxMutes, MaxSilences,  \* bounds: ids given to rows, ids given to silences
    MaxMuteOps, MaxSilenceFaults   \* bounds: requests, failures

VARIABLES
    mutes,            \* the rows of alert_mutes
    silences,         \* the alertmanager's silences, by id
    amUp,
    act,              \* per caller, and for the loop: the call under way
    pass,             \* the loop's pass: rows still to look at, orphans to delete
    muteOps, silenceFaults

muteVars == <<mutes, silences, amUp, act, pass, muteOps, silenceFaults>>

Loop == "loop"
Actors == Callers \cup {Loop}
Mutes == 1..MaxMutes
Silences == 1..MaxSilences
None == 0
NoRow == [id |-> None, sid |-> None, ends |-> "never"]
Idle == [pc |-> "idle", row |-> NoRow, id |-> None]
NoSilence == [state |-> "none", ends |-> "never", fresh |-> FALSE]
Expired == [NoSilence EXCEPT !.state = "expired"]
NoPass == [pc |-> "idle", todo |-> {}, old |-> {}, doomed |-> {}]

Init ==
    /\ mutes = {} /\ amUp = TRUE
    /\ silences = [s \in Silences |-> NoSilence]
    /\ act = [a \in Actors |-> Idle] /\ pass = NoPass
    /\ muteOps = 0 /\ silenceFaults = 0

Active == {m \in mutes : m.ends # "past"}
Ids == {m.id : m \in mutes}
Minted == {s \in Silences : silences[s].state # "none"}
ActiveSilence(s) == s # None /\ silences[s].state = "active"
Row(id) == CHOOSE m \in mutes : m.id = id
Op == muteOps < MaxMuteOps /\ muteOps' = muteOps + 1
Fault == silenceFaults < MaxSilenceFaults /\ silenceFaults' = silenceFaults + 1
To(a, pc) == act' = [act EXCEPT ![a].pc = pc]
Done(a) == act' = [act EXCEPT ![a] = Idle]

\* "for update": the rows another request has locked.
Locked == {act[c].row.id : c \in {d \in Callers : act[d].pc = "write"}} \ {None}

-----------------------------------------------------------------------------
(* Requests.                                                               *)

\* UpsertAlertMute looks for the newest active row of the target; with none to
\* lock, two requests may both go on to insert.
Lookup(c, ends) ==
    /\ act[c].pc = "idle" /\ Op
    /\ LET found == {m \in Active : \A n \in Active : m.id >= n.id} IN
       /\ \A m \in found : m.id \notin Locked
       /\ act' = [act EXCEPT ![c] =
            [pc |-> "write", id |-> None,
             row |-> IF found = {} THEN [NoRow EXCEPT !.ends = ends]
                     ELSE [(CHOOSE m \in found : TRUE) EXCEPT !.ends = ends]]]
    /\ UNCHANGED <<mutes, silences, amUp, pass, silenceFaults>>

\* Rows are numbered in the order they were made.
NewId == Cardinality({s \in Mutes : \E m \in mutes : m.id >= s}) + 1

\* The insert or the update; the silence id of a row it found stays.
UpsertAlertMute(c) ==
    LET r == act[c].row IN
    /\ act[c].pc = "write"
    /\ IF r.id # None
       THEN /\ mutes' = {IF m.id = r.id THEN [m EXCEPT !.ends = r.ends] ELSE m : m \in mutes}
            /\ To(c, "post")
       ELSE /\ NewId \in Mutes
            /\ mutes' = mutes \cup {[r EXCEPT !.id = NewId]}
            /\ act' = [act EXCEPT ![c].pc = "post", ![c].row.id = NewId]
    /\ UNCHANGED <<silences, amUp, pass, muteOps, silenceFaults>>

DeleteAlertMute(c, id) ==
    /\ act[c].pc = "idle" /\ id \in Ids \ Locked /\ Op
    /\ mutes' = {m \in mutes : m.id # id}
    /\ act' = [act EXCEPT ![c] =
                 IF Row(id).sid = None THEN Idle
                 ELSE [pc |-> "delete", row |-> Row(id), id |-> None]]
    /\ UNCHANGED <<silences, amUp, pass, silenceFaults>>

DeleteSilence(s) == [silences EXCEPT ![s] = Expired]

MuteDeleted(c) ==
    LET s == act[c].row.sid IN
    /\ act[c].pc = "delete" /\ Done(c)
    /\ silences' = IF amUp /\ ActiveSilence(s) THEN DeleteSilence(s) ELSE silences
    /\ UNCHANGED <<mutes, amUp, pass, muteOps, silenceFaults>>

-----------------------------------------------------------------------------
(* Posting a silence and storing its id: handlers and loop alike.          *)

\* What the alertmanager holds after a post, and the id it answers with.
Posted(s, ends) == [silences EXCEPT ![s] = [state |-> "active", ends |-> ends, fresh |-> TRUE]]
Mint(s) == s \notin Minted /\ (Silences \ Minted) \cap 1..(s - 1) = {}

\* An active id is updated in place; for any other the alertmanager makes a new
\* silence (or answers 404 and is asked again without the id).  The answer may
\* be lost.
PostSilence(a, s, answered) ==
    LET r == act[a].row IN
    /\ act[a].pc = "post" /\ amUp
    /\ IF ActiveSilence(r.sid) THEN s = r.sid ELSE Mint(s)
    /\ silences' = IF r.ends = "past" THEN silences ELSE Posted(s, r.ends)
    /\ IF answered /\ r.ends # "past"
       THEN act' = [act EXCEPT ![a].pc = "persist", ![a].id = s] /\ UNCHANGED silenceFaults
       ELSE /\ Done(a)
            /\ IF answered THEN UNCHANGED silenceFaults ELSE Fault
    /\ UNCHANGED <<mutes, amUp, pass, muteOps>>

\* persistID: nothing to store when the row, as it was read, has this id.
PersistID(a) ==
    {IF m.id = act[a].row.id /\ act[a].id # act[a].row.sid
     THEN [m EXCEPT !.sid = act[a].id] ELSE m : m \in mutes}

SetAlertMuteSilenceID(a, ok) ==
    /\ act[a].pc = "persist" /\ Done(a)
    /\ IF ok THEN mutes' = PersistID(a) /\ UNCHANGED silenceFaults
             ELSE Fault /\ UNCHANGED mutes
    /\ UNCHANGED <<silences, amUp, pass, muteOps>>

\* The alertmanager cannot be reached: a handler leaves the mute as it is, the
\* loop gives up its pass.
Unreachable(a) ==
    /\ ~amUp /\ act[a].pc = "post" /\ Done(a)
    /\ pass' = IF a = Loop THEN NoPass ELSE pass
    /\ UNCHANGED <<mutes, silences, amUp, muteOps, silenceFaults>>

-----------------------------------------------------------------------------
(* The loop.                                                               *)

ReconcileOnce ==
    /\ pass = NoPass /\ pass' = [NoPass EXCEPT !.pc = "mutes", !.todo = Active]
    /\ UNCHANGED <<mutes, silences, amUp, act, muteOps, silenceFaults>>

Drifts(m) == silences[m.sid].ends # m.ends

\* reissueInPlace while the silence is active, else createAndStore without an id.
ToPost(m) == IF ActiveSilence(m.sid) THEN m ELSE [m EXCEPT !.sid = None]

\* reconcileMute, from the row as the pass listed it.
ReconcileMute(m) ==
    /\ pass.pc = "mutes" /\ m \in pass.todo /\ act[Loop].pc = "idle"
    /\ IF m.sid # None /\ ~amUp THEN pass' = NoPass /\ UNCHANGED act
       ELSE /\ pass' = [pass EXCEPT !.todo = @ \ {m}]
            /\ act' = [act EXCEPT ![Loop] =
                 IF ActiveSilence(m.sid) /\ ~Drifts(m) THEN Idle
                 ELSE [pc |-> "post", id |-> None, row |-> ToPost(m)]]
    /\ UNCHANGED <<mutes, silences, amUp, muteOps, silenceFaults>>

Graced(s) == silences[s].fresh

\* orphanSweep lists the silences,
Sweeping(pc, old, doomed) ==
    IF old \cup doomed = {} THEN NoPass
    ELSE [pc |-> pc, todo |-> {}, old |-> old, doomed |-> doomed]

ListSilences ==
    /\ pass.pc = "mutes" /\ pass.todo = {} /\ act[Loop].pc = "idle"
    /\ pass' = IF amUp THEN Sweeping("listed", {s \in Minted : ActiveSilence(s) /\ ~Graced(s)}, {})
               ELSE NoPass
    /\ UNCHANGED <<mutes, silences, amUp, act, muteOps, silenceFaults>>

\* reads the mutes after that,
ReadMutes ==
    /\ pass.pc = "listed"
    /\ pass' = Sweeping("sweep", {}, pass.old \ {m.sid : m \in Active})
    /\ UNCHANGED <<mutes, silences, amUp, act, muteOps, silenceFaults>>

\* and deletes one by one those that no mute names.
DeleteOrphan(s) ==
    /\ pass.pc = "sweep" /\ s \in pass.doomed
    /\ IF amUp THEN /\ silences' = DeleteSilence(s)
                    /\ pass' = Sweeping("sweep", {}, pass.doomed \ {s})
       ELSE pass' = NoPass /\ UNCHANGED silences
    /\ UNCHANGED <<mutes, amUp, act, muteOps, silenceFaults>>

-----------------------------------------------------------------------------
(* Time and the alertmanager.                                              *)

\* orphanGrace is far longer than a request: nobody still has an id to store.
GraceEnds ==
    /\ \E s \in Minted : silences[s].fresh
    /\ \A a \in Actors : act[a].pc # "persist"
    /\ silences' = [s \in Silences |-> [silences[s] EXCEPT !.fresh = FALSE]]
    /\ UNCHANGED <<mutes, amUp, act, pass, muteOps, silenceFaults>>

\* The end time "soon" passes for rows, copies of rows and silences.
Past(m) == IF m.ends = "soon" THEN [m EXCEPT !.ends = "past"] ELSE m
Lapse ==
    /\ \E m \in mutes : m.ends = "soon"
    /\ \A c \in Callers : act[c].pc # "write"
    /\ mutes' = {Past(m) : m \in mutes}
    /\ silences' = [s \in Silences |-> IF silences[s].ends = "soon" /\ ActiveSilence(s)
                       THEN Expired ELSE silences[s]]
    /\ act' = [a \in Actors |-> [act[a] EXCEPT !.row = Past(@)]]
    /\ pass' = [pass EXCEPT !.todo = {Past(m) : m \in @}]
    /\ UNCHANGED <<amUp, muteOps, silenceFaults>>

\* Expired silences that nobody names any more: their ids serve again.
Named == {m.sid : m \in mutes \cup pass.todo} \cup pass.old \cup pass.doomed
            \cup UNION {{act[a].row.sid, act[a].id} : a \in Actors}
Forget ==
    LET lost == {s \in Minted : silences[s].state = "expired"} \ Named IN
    /\ lost # {}
    /\ silences' = [s \in Silences |-> IF s \in lost THEN NoSilence ELSE silences[s]]
    /\ UNCHANGED <<mutes, amUp, act, pass, muteOps, silenceFaults>>

\* It stops, and may come back without the silences it had.
AmDown(lost) ==
    /\ amUp /\ Fault /\ amUp' = FALSE
    /\ silences' = IF lost THEN [s \in Silences |-> IF ActiveSilence(s)
                       THEN Expired ELSE silences[s]]
                   ELSE silences
    /\ UNCHANGED <<mutes, act, pass, muteOps>>

AmUp ==
    /\ ~amUp /\ amUp' = TRUE
    /\ UNCHANGED <<mutes, silences, act, pass, muteOps, silenceFaults>>

-----------------------------------------------------------------------------
CallSteps ==
    \/ \E c \in Callers : UpsertAlertMute(c) \/ MuteDeleted(c)
    \/ \E a \in Actors, s \in Silences : PostSilence(a, s, TRUE)
    \/ \E a \in Actors : SetAlertMuteSilenceID(a, TRUE) \/ Unreachable(a)

LoopSteps ==
    \/ ReconcileOnce \/ ListSilences \/ ReadMutes
    \/ \E m \in pass.todo : ReconcileMute(m)
    \/ \E s \in Silences : DeleteOrphan(s)

World == AmUp \/ GraceEnds \/ Forget

Next ==
    \/ CallSteps \/ LoopSteps \/ World \/ Lapse
    \/ \E lost \in BOOLEAN : AmDown(lost)
    \/ \E c \in Callers, ends \in {"soon", "never"} : Lookup(c, ends)
    \/ \E c \in Callers, id \in Mutes : DeleteAlertMute(c, id)
    \/ \E a \in Actors, s \in Silences : PostSilence(a, s, FALSE)
    \/ \E a \in Actors : SetAlertMuteSilenceID(a, FALSE)

Spec == Init /\ [][Next]_muteVars
FairSpec == Spec /\ WF_muteVars(CallSteps) /\ WF_muteVars(LoopSteps) /\ WF_muteVars(World)

-----------------------------------------------------------------------------
(* Properties.                                                             *)

\* The orphan sweep, which works from a listing and a read of the rows, never
\* deletes the silence that a mute in force names.
SweepSparesBacked ==
    \A s \in Silences :
        pass.pc = "sweep" /\ s \in pass.doomed /\ silences[s].state = "active"
            => \A m \in Active : m.sid # s

\* Every mute has an active silence with its end time, and there is no other.
Mirrored ==
    /\ \A m \in Active : ActiveSilence(m.sid) /\ silences[m.sid].ends = m.ends
    /\ \A s \in Minted : ActiveSilence(s) => \E m \in Active : m.sid = s

\* When requests and failures stop, the silences become the mutes again.
SilencesConverge == <>[]Mirrored
=============================================================================
