---- MODULE MCMatchmaker ----
(* A party with two revisions, one of which has grown, and a solo player.  *)
EXTENDS Matchmaker, TLC

CONSTANTS t1, t2, t3, p1, p2, party

MCMembersOf == t1 :> {p1} @@ t2 :> {p1, p2} @@ t3 :> {p2}
MCPartyOf == t1 :> party @@ t2 :> party @@ t3 :> NoParty
MCRevOf == t1 :> 1 @@ t2 :> 2 @@ t3 :> 0
====
