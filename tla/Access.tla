------------------------------- MODULE Access -------------------------------
(***************************************************************************)
(* API keys and what lives on them inside the master: the table (src/      *)
(* master/internal/store/apikeys.go), the authenticator's cache, panel     *)
(* sessions and event streams (httpapi/auth.go, session.go, apikeys.go,    *)
(* sse.go), and the cascades that revoke the keys of a deleted environment *)
(* or project (store/environments.go, store/projects.go).                  *)
(*                                                                         *)
(* A key is verified against the row first (a bcrypt takes its time) and   *)
(* remembered afterwards; a revoke commits first and clears the memory     *)
(* afterwards.  A verification the flush overtakes still leaves its entry, *)
(* which the code accepts and which lasts until it times out.  Time-outs   *)
(* are steps of their own.  One request of a key is followed at a time for *)
(* each purpose, and one stream for each kind of credentials.              *)
(***************************************************************************)
EXTENDS Integers

CONSTANTS
    Keys, Admins, BoundKeys,   \* keys, those with scope admin, those bound
    MaxAccessFaults            \* bound: master restarts, closed connections

VARIABLES
    keyRow,       \* api_keys: none, active, revoked or purged
    verifying,    \* requests that have read an active row: <<key, purpose>>
    cached,       \* keys in the authenticator's cache
    sessions,     \* keys with a panel session
    streams,      \* event streams open: <<key, "bearer" or "cookie">>
    revoking,     \* per key: how far its revoke has come
    overtaken,    \* history: verifications a flush found in flight, and the
                  \* entries they have left
    unpolled,     \* history: streams that have not polled since the memory
                  \* last forgot their key
    accessFaults

accessVars == <<keyRow, verifying, cached, sessions, streams, revoking,
                overtaken, unpolled, accessFaults>>
ghosts == <<overtaken, unpolled>>

Purposes == {"bearer", "login"}
Streams == Keys \X {"bearer", "cookie"}
ActiveKeys == {k \in Keys : keyRow[k] = "active"}

Init ==
    /\ keyRow = [k \in Keys |-> "none"] /\ verifying = {}
    /\ cached = {} /\ sessions = {} /\ streams = {}
    /\ revoking = [k \in Keys |-> "no"] /\ accessFaults = 0
    /\ overtaken = {} /\ unpolled = {}

Stage(k, s) == revoking' = [revoking EXCEPT ![k] = s]
AccessFault == accessFaults < MaxAccessFaults /\ accessFaults' = accessFaults + 1

CreateAPIKey(k) ==
    /\ keyRow[k] = "none" /\ keyRow' = [keyRow EXCEPT ![k] = "active"]
    /\ UNCHANGED <<verifying, cached, sessions, streams, revoking, ghosts, accessFaults>>

-----------------------------------------------------------------------------
(* Authentication.                                                         *)

\* authenticate on a cache miss, and the login: the row is read and compared.
AuthAPIKey(k, p) ==
    /\ k \in ActiveKeys /\ (p = "bearer" => k \notin cached)
    /\ verifying' = verifying \cup {<<k, p>>}
    /\ UNCHANGED <<keyRow, cached, sessions, streams, revoking, ghosts, accessFaults>>

\* The verified key is cached, or gets its session, whatever became of its row.
Remember(k, p) ==
    /\ <<k, p>> \in verifying /\ verifying' = verifying \ {<<k, p>>}
    /\ cached' = IF p = "bearer" THEN cached \cup {k} ELSE cached
    /\ sessions' = IF p = "login" THEN sessions \cup {k} ELSE sessions
    /\ UNCHANGED <<keyRow, streams, revoking, ghosts, accessFaults>>

\* authCacheTTL.
CacheExpires(k) ==
    /\ k \in cached /\ cached' = cached \ {k}
    /\ overtaken' = overtaken \ {<<k, "bearer">>}
    /\ unpolled' = unpolled \cup ({<<k, "bearer">>} \cap streams)
    /\ UNCHANGED <<keyRow, verifying, sessions, streams, revoking, accessFaults>>

\* sessionTTL, or a logout.
SessionEnds(k) ==
    /\ k \in sessions /\ sessions' = sessions \ {k}
    /\ overtaken' = overtaken \ {<<k, "login">>}
    /\ unpolled' = unpolled \cup ({<<k, "cookie">>} \cap streams)
    /\ UNCHANGED <<keyRow, verifying, cached, streams, revoking, accessFaults>>

-----------------------------------------------------------------------------
(* Event streams: authenticated at connect, checked again at every poll.   *)

Known(s) == IF s[2] = "bearer" THEN s[1] \in cached ELSE s[1] \in sessions

OpenStream(s) ==
    /\ Known(s) /\ streams' = streams \cup {s}
    /\ UNCHANGED <<keyRow, verifying, cached, sessions, revoking, ghosts, accessFaults>>

\* Mutant: an open stream is not asked again.
StillValid_Always(s) == TRUE

\* A bearer key the cache has forgotten is verified again.
StillValid(s) == Known(s) \/ (s[2] = "bearer" /\ s[1] \in ActiveKeys)

PollStream(s) ==
    /\ s \in streams
    /\ streams' = IF StillValid(s) THEN streams ELSE streams \ {s}
    /\ verifying' = IF StillValid(s) /\ ~Known(s) THEN verifying \cup {<<s[1], "bearer">>}
                    ELSE verifying
    /\ unpolled' = unpolled \ {s}
    /\ UNCHANGED <<keyRow, cached, sessions, revoking, overtaken, accessFaults>>

Disconnect(s) ==
    /\ s \in streams /\ AccessFault /\ streams' = streams \ {s} /\ unpolled' = unpolled \ {s}
    /\ UNCHANGED <<keyRow, verifying, cached, sessions, revoking, overtaken>>

-----------------------------------------------------------------------------
(* Revoking.                                                               *)

\* The row is locked; only then are the other admin keys counted, and their
\* rows are not locked.
LockKey(k) ==
    /\ k \in ActiveKeys /\ revoking[k] = "no"
    /\ k \in Admins => \E a \in Admins \ {k} : keyRow[a] = "active"
    /\ Stage(k, "counted")
    /\ UNCHANGED <<keyRow, verifying, cached, sessions, streams, ghosts, accessFaults>>

RevokeAPIKey(k) ==
    /\ revoking[k] = "counted" /\ Stage(k, "flush")
    /\ keyRow' = [keyRow EXCEPT ![k] = "revoked"]
    /\ UNCHANGED <<verifying, cached, sessions, streams, ghosts, accessFaults>>

\* A deleted environment or project takes its keys with it.
RevokeBoundKey(k) ==
    /\ k \in BoundKeys \cap ActiveKeys /\ revoking[k] = "no" /\ Stage(k, "flush")
    /\ keyRow' = [keyRow EXCEPT ![k] = "revoked"]
    /\ UNCHANGED <<verifying, cached, sessions, streams, ghosts, accessFaults>>

PurgeAPIKey(k) ==
    /\ keyRow[k] = "revoked" /\ Stage(k, "flush")
    /\ keyRow' = [keyRow EXCEPT ![k] = "purged"]
    /\ UNCHANGED <<verifying, cached, sessions, streams, ghosts, accessFaults>>

\* Mutant: the sessions of the key are left to their own time-out.
KeptSessions_All(k) == sessions

\* deleteByKey.
KeptSessions(k) == sessions \ {k}

\* After the commit, in the handler.
InvalidateKey(k) ==
    /\ revoking[k] = "flush" /\ Stage(k, "no")
    /\ cached' = cached \ {k} /\ sessions' = KeptSessions(k)
    /\ overtaken' = {o \in overtaken : o[1] # k} \cup {v \in verifying : v[1] = k}
    /\ unpolled' = unpolled \cup {s \in streams : s[1] = k}
    /\ UNCHANGED <<keyRow, verifying, streams, accessFaults>>

\* Cache, sessions and streams were memory; what was not committed is undone.
MasterRestart ==
    /\ AccessFault /\ verifying' = {} /\ cached' = {} /\ sessions' = {} /\ streams' = {}
    /\ revoking' = [k \in Keys |-> "no"] /\ overtaken' = {} /\ unpolled' = {}
    /\ UNCHANGED keyRow

-----------------------------------------------------------------------------
Next ==
    \/ \E k \in Keys : \/ CreateAPIKey(k) \/ LockKey(k) \/ RevokeAPIKey(k) \/ RevokeBoundKey(k)
                       \/ PurgeAPIKey(k) \/ InvalidateKey(k) \/ CacheExpires(k) \/ SessionEnds(k)
    \/ \E k \in Keys, p \in Purposes : AuthAPIKey(k, p) \/ Remember(k, p)
    \/ \E s \in Streams : OpenStream(s) \/ PollStream(s) \/ Disconnect(s)
    \/ MasterRestart

Spec == Init /\ [][Next]_accessVars

\* What ends a key's hold after its row is gone: requests finish, the handler
\* flushes, entries time out, every stream polls.
Forget ==
    \/ \E k \in Keys \ ActiveKeys : CacheExpires(k) \/ SessionEnds(k) \/ InvalidateKey(k)
    \/ \E k \in Keys \ ActiveKeys, p \in Purposes : Remember(k, p)
    \/ \E s \in Streams : s[1] \notin ActiveKeys /\ PollStream(s)

FairSpec == Spec /\ WF_accessVars(Forget)

-----------------------------------------------------------------------------
(* Properties.                                                             *)

\* The row is gone and no flush is due any more.
Answered(k) == keyRow[k] \in {"revoked", "purged"} /\ revoking[k] = "no"

\* Once a revocation is answered, the key has no cache entry and no session but
\* what a verification the flush overtook has left, once, until it times out;
\* and no stream but one that has yet to poll, or that such an entry vouches for.
RevokedIsShutOut ==
    \A k \in Keys : Answered(k) =>
        /\ k \in cached => <<k, "bearer">> \in overtaken
        /\ k \in sessions => <<k, "login">> \in overtaken
        /\ \A s \in streams : s[1] = k => s \in unpolled \/ Known(s)

\* A revoked key has no entry, no session and no stream.
Forgotten ==
    \A k \in Keys : keyRow[k] \in {"revoked", "purged"} =>
        k \notin cached \cup sessions /\ \A s \in streams : s[1] # k

\* Even one that slipped in is served nowhere in the end.
RevokedIsForgotten == <>[]Forgotten

\* "Concurrent revokes cannot both pass" (store/apikeys.go): an admin key stays.
AdminKeyRemains == (\E k \in Admins : keyRow[k] # "none") => \E k \in Admins : keyRow[k] = "active"
=============================================================================
