---------------------------- MODULE MCFleetStore ----------------------------
(***************************************************************************)
(* Small fleets for TLC.  Every configuration names its servers, nodes,    *)
(* versions, matches and requests as model values; the functions over them *)
(* that differ between configurations are defined here.                    *)
(***************************************************************************)
EXTENDS FleetStore, TLC

CONSTANTS s1, s2, s3, s4, n1, n2, v1, v2, m1, m2, r1, r2, r3

\* v2 is active, v1 deprecated: the multi-version window is open.
OpenWindow == [v \in Versions |-> IF v = v2 THEN "active" ELSE "deprecated"]

\* Two requests for one match, a third for another.
PairedMatches == [r \in Requests |-> IF r = r2 THEN m2 ELSE m1]
OwnMatches    == [r \in Requests |-> IF r = r1 THEN m1 ELSE m2]

TwoSlots == [n \in Nodes |-> 2]
Roomy3   == [n \in Nodes |-> 3]
Uneven   == [n \in Nodes |-> IF n = n1 THEN 2 ELSE 1]

\* Warm starts: which rows exist, ready, on which node and of which version.
WarmOn(rows)        == [s \in Servers |-> IF s \in rows THEN n1 ELSE NoNode]
WarmOf(rows, old)   == [s \in Servers |->
    IF s \in old THEN v1 ELSE IF s \in rows THEN v2 ELSE NoVersion]

OldOneOn == WarmOn({s1})
OldOneOf == WarmOf({s1}, {s1})
TwoOn   == WarmOn({s1, s2})
MixedOf == WarmOf({s1, s2}, {s1})
BothOldOf == WarmOf({s1, s2}, {s1, s2})
BothNewOf == WarmOf({s1, s2}, {})
SpareRows == Permutations({s3, s4})
=============================================================================
