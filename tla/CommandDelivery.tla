--------------------------- MODULE CommandDelivery --------------------------
(* What the agent link promises of one node's commands: a command the      *)
(* master sent is owed to the node until some agent process has taken it.  *)
(* A SetRegistries may be withdrawn, a newer snapshot replaces it.         *)
EXTENDS FiniteSets

CONSTANTS Commands, Snapshots     \* plain commands and SetRegistries

VARIABLES owed, taken

TypeOK == owed \subseteq Commands \cup Snapshots /\ taken \subseteq Commands \cup Snapshots

Init == owed = {} /\ taken = {}

\* A new debt, which for a snapshot may replace older snapshots.
Send(c) == \E old \in SUBSET (owed \cap Snapshots) :
              owed' = (owed \ old) \cup {c} /\ UNCHANGED taken
Take(c)   == taken' = taken \cup {c} /\ UNCHANGED owed
Settle(c) == c \in taken /\ owed' = owed \ {c} /\ UNCHANGED taken
Withdraw  == owed' = owed \ Snapshots /\ UNCHANGED taken
\* The queue lives in memory: "if master restarts they are lost".
Forget    == owed' = {} /\ UNCHANGED taken

Next ==
    \/ \E c \in Commands \cup Snapshots : Send(c) \/ Take(c) \/ Settle(c)
    \/ Withdraw \/ Forget

Spec == Init /\ [][Next]_<<owed, taken>>
=============================================================================
