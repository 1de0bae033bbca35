---------------------------- MODULE NarrowProbe -----------------------------
(***************************************************************************)
(* The canary of httpapi/narrow_probe.go: a query of a project-bound key   *)
(* goes to an upstream only when the upstream was seen to parse the        *)
(* argument that narrows it, and the verdict is cached.                    *)
(*                                                                         *)
(* A probe asks each path twice, a malformed argument and a control        *)
(* without it, with the mutex held; the upstream may be replaced at any    *)
(* moment, and the query itself goes out after the mutex is released.  A   *)
(* tick is narrowProbeFailTTL; OkTicks is narrowProbeOKTTL in ticks.  The  *)
(* budget of a probe and the timeout of a query are shorter than a tick:   *)
(* each crosses at most one.  MaxSwaps bounds the replacements.            *)
(***************************************************************************)
EXTENDS Integers, Sequences

CONSTANTS Paths, OkTicks, Queriers, MaxSwaps

FailTicks == 1
Kinds == {"parses", "swallows", "denies", "down"}

VARIABLES
    upstream,    \* what each path does with the argument
    held,        \* ticks each path has been what it is, up to a cap
    verdict,     \* the cached verdict
    fresh,       \* ticks until it expires
    ask,         \* the queriers: where they are, the path, a tick crossed
    mutex,       \* the querier that probes, or "none"
    probe,       \* the probe: the path, canary or control
    belated,     \* an answer that contradicts a state long past its verdict
    swaps

probeVars == <<upstream, held, verdict, fresh, ask, mutex, probe, belated, swaps>>

Cap == OkTicks + 3
Quiet == [at |-> "idle", path |-> 1, crossed |-> FALSE]
NoProbe == [path |-> 0, control |-> FALSE]
PathNos == 1..Len(Paths)

ProbeTypeOK ==
    /\ upstream \in [PathNos -> Kinds] /\ held \in [PathNos -> 0..Cap]
    /\ verdict \in {"unknown", "honoured", "ignored", "unreachable"} /\ fresh \in 0..OkTicks
    /\ \A q \in Queriers : ask[q].at \in {"idle", "waiting", "probing", "forward"}
    /\ mutex \in Queriers \cup {"none"} /\ probe.path \in {0} \cup PathNos

Init ==
    /\ \E kind \in Kinds : upstream = [c \in PathNos |-> IF c = 1 THEN "parses" ELSE kind]
    /\ held = [c \in PathNos |-> 0]
    /\ verdict = "unknown" /\ fresh = 0
    /\ ask = [q \in Queriers |-> Quiet] /\ mutex = "none" /\ probe = NoProbe
    /\ belated = FALSE /\ swaps = 0

-----------------------------------------------------------------------------
\* The upstream of a path is replaced, breaks or is repaired.
Swap(c, kind) ==
    /\ swaps < MaxSwaps /\ kind # upstream[c] /\ swaps' = swaps + 1
    /\ upstream' = [upstream EXCEPT ![c] = kind] /\ held' = [held EXCEPT ![c] = 0]
    /\ UNCHANGED <<verdict, fresh, ask, mutex, probe, belated>>

Tick ==
    /\ \A q \in Queriers : ask[q].at \in {"probing", "forward"} => ~ask[q].crossed
    /\ held' = [c \in PathNos |-> IF held[c] < Cap THEN held[c] + 1 ELSE Cap]
    /\ fresh' = IF fresh > 0 THEN fresh - 1 ELSE 0
    /\ ask' = [q \in Queriers |-> [ask[q] EXCEPT !.crossed = ask[q].at \in {"probing", "forward"}]]
    /\ UNCHANGED <<upstream, verdict, mutex, probe, belated, swaps>>

\* A query of a bound key.
Query(q, c) ==
    /\ ask[q].at = "idle" /\ ask' = [ask EXCEPT ![q] = [Quiet EXCEPT !.at = "waiting", !.path = c]]
    /\ UNCHANGED <<upstream, held, verdict, fresh, mutex, probe, belated, swaps>>

\* A refusal is belated when every path has parsed the argument for as long
\* as a failure is remembered.
Refused(q) ==
    /\ ask' = [ask EXCEPT ![q] = Quiet]
    /\ belated' = (belated \/ \A c \in PathNos : upstream[c] = "parses" /\ held[c] >= FailTicks)

After(q, v) ==
    IF v = "honoured"
    THEN ask' = [ask EXCEPT ![q].at = "forward", ![q].crossed = FALSE] /\ UNCHANGED belated
    ELSE Refused(q)

\* Mutant: a verdict is kept for good.
Kept_Forever == verdict # "unknown"
\* check: a verdict within its time is used.
Kept == verdict # "unknown" /\ fresh > 0

Check(q) ==
    /\ ask[q].at = "waiting" /\ mutex = "none"
    /\ IF Kept THEN After(q, verdict) /\ UNCHANGED <<mutex, probe>>
       ELSE /\ mutex' = q /\ probe' = [path |-> 1, control |-> FALSE]
            /\ ask' = [ask EXCEPT ![q].at = "probing", ![q].crossed = FALSE]
            /\ UNCHANGED belated
    /\ UNCHANGED <<upstream, held, verdict, fresh, swaps>>

Settle(q, v) ==
    /\ verdict' = v /\ fresh' = (IF v = "honoured" THEN OkTicks ELSE FailTicks)
    /\ mutex' = "none" /\ probe' = NoProbe /\ After(q, v)

\* The canary is rejected by a path that parses and by one that denies
\* everything; the control by the latter.
Canary(q) ==
    LET kind == upstream[probe.path] IN
    /\ mutex = q /\ ~probe.control
    /\ CASE kind = "down"     -> Settle(q, "unreachable")
         [] kind = "swallows" -> Settle(q, "ignored")
         [] OTHER             -> /\ probe' = [probe EXCEPT !.control = TRUE]
                                 /\ UNCHANGED <<verdict, fresh, ask, mutex, belated>>
    /\ UNCHANGED <<upstream, held, swaps>>

\* Mutant: the first path stands for all.
LastPath_First == TRUE
LastPath == probe.path = Len(Paths)

Control(q) ==
    LET kind == upstream[probe.path] IN
    /\ mutex = q /\ probe.control
    /\ IF kind \in {"down", "denies"} THEN Settle(q, "unreachable")
       ELSE IF LastPath THEN Settle(q, "honoured")
       ELSE /\ probe' = [path |-> probe.path + 1, control |-> FALSE]
            /\ UNCHANGED <<verdict, fresh, ask, mutex, belated>>
    /\ UNCHANGED <<upstream, held, swaps>>

\* The narrowed query goes out, to whatever is there by now: belated to a
\* path that has swallowed the argument for longer than a verdict is kept,
\* plus the tick the query may cross.
Forward(q) ==
    /\ ask[q].at = "forward" /\ ask' = [ask EXCEPT ![q] = Quiet]
    /\ belated' = (belated \/ LET c == ask[q].path IN
                              upstream[c] = "swallows" /\ held[c] > OkTicks + 1)
    /\ UNCHANGED <<upstream, held, verdict, fresh, mutex, probe, swaps>>

Next ==
    \/ Tick
    \/ \E c \in PathNos, kind \in Kinds : Swap(c, kind)
    \/ \E q \in Queriers :
         \/ Check(q) \/ Canary(q) \/ Control(q) \/ Forward(q)
         \/ \E c \in PathNos : Query(q, c)

Spec == Init /\ [][Next]_probeVars

-----------------------------------------------------------------------------
(* Properties.                                                             *)

\* An upstream that has swallowed the argument for longer than the verdict
\* lives gets no query of a bound key, and one that has parsed it for longer
\* than a failure is remembered refuses none.
VerdictIsRecent == ~belated

=============================================================================
