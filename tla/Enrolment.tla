----------------------------- MODULE Enrolment -----------------------------
(***************************************************************************)
(* The credentials of the agent link: the internal CA that masters create  *)
(* and load at start (src/master/internal/store/ca.go, secrets.go,         *)
(* tlsutil/ca.go, cmd/birdman-master/main.go), enrolment and admission     *)
(* (master/internal/agentlink/service.go) and the agent's side of them     *)
(* (agent/internal/link/enroll.go, client.go).  One node; a certificate is *)
(* its CA, its number and the day it was issued; a key has the number of   *)
(* the certificate it belongs to.  A certificate lives Life days and is    *)
(* renewed on its last one.                                                *)
(*                                                                         *)
(* A connection keeps the certificate it was dialled with.                 *)
(***************************************************************************)
EXTENDS Integers

CONSTANTS
    Servants,          \* master processes
    Life, LastDay,     \* bounds: days a certificate lives, days there are
    MaxIssued, MaxLinkFaults

VARIABLES
    caRows,      \* internal_ca: the numbers of its rows
    master,      \* per process: down, looking for the CA, waiting for the lock, up
    trusted,     \* per process: its CA pool, loaded at start
    mode,        \* agentlink_auth
    nodeDead,    \* the node's row
    recorded,    \* its cert_serial
    day, issued,
    key, crt,    \* the files of the agent: client.key, client.crt,
    bundle,      \* and ca.pem, as the CAs in it
    enrolling,   \* the exchange in flight: who asks, what is answered
    conn,        \* the agent's connection: its certificate and whether it fell back
    linked,      \* the master whose session is up, or "none"
    linkFaults

enrolVars == <<caRows, master, trusted, mode, nodeDead, recorded, day, issued, key, crt,
               bundle, enrolling, conn, linked, linkFaults>>

NoCert == [ca |-> 0, n |-> 0, born |-> 0]
NoConn == [up |-> FALSE, cert |-> NoCert, fellBack |-> FALSE]
Idle == [pc |-> "no", renewal |-> FALSE, cert |-> NoCert]
Modes == {"token", "mixed", "mtls"}

Init ==
    /\ caRows = {} /\ master = [s \in Servants |-> "down"] /\ trusted = [s \in Servants |-> {}]
    /\ mode \in Modes /\ nodeDead = FALSE /\ recorded = 0 /\ day = 0 /\ issued = 0
    /\ key = 0 /\ crt = NoCert /\ bundle = {} /\ enrolling = Idle /\ conn = NoConn
    /\ linked = "none" /\ linkFaults = 0

LinkFault == linkFaults < MaxLinkFaults /\ linkFaults' = linkFaults + 1
Running == {s \in Servants : master[s] = "up"}
Valid(c) == c # NoCert /\ day < c.born + Life
Due(c) == day >= c.born + Life - 1
Newest(rows) == CHOOSE r \in rows : \A q \in rows : q <= r

masterVars == <<caRows, master, trusted>>
recordVars == <<mode, nodeDead, recorded>>
agentVars  == <<key, crt, bundle, enrolling, conn, linked>>

-----------------------------------------------------------------------------
(* A master starts.                                                        *)

Come(s, stage) == master' = [master EXCEPT ![s] = stage]

\* loadActiveCA, without the lock.
LookForCA(s) ==
    /\ master[s] = "down" /\ Come(s, IF caRows = {} THEN "none" ELSE "found")
    /\ UNCHANGED <<caRows, trusted, recordVars, day, issued, agentVars, linkFaults>>

\* Mutant: the row is not looked for again under the lock.
ToCreate_NotChecked == {1 + Newest(caRows \cup {0})}

\* The second look, under the lock.
ToCreate == IF caRows = {} THEN {1} ELSE {}

\* Under the advisory lock, to the commit: the first one creates the CA.
EnsureInternalCA(s) ==
    /\ master[s] = "none" /\ caRows' = caRows \cup ToCreate /\ Come(s, "found")
    /\ UNCHANGED <<trusted, recordVars, day, issued, agentVars, linkFaults>>

\* ActiveCAs: the pool of the listener.
Serve(s) ==
    /\ master[s] = "found" /\ Come(s, "up") /\ trusted' = [trusted EXCEPT ![s] = caRows]
    /\ UNCHANGED <<caRows, recordVars, day, issued, agentVars, linkFaults>>

\* A call in flight fails, a session ends.
MasterStops(s) ==
    /\ master[s] = "up" /\ LinkFault /\ Come(s, "down")
    /\ trusted' = [trusted EXCEPT ![s] = {}] /\ linked' = IF linked = s THEN "none" ELSE linked
    /\ UNCHANGED <<caRows, recordVars, day, issued, key, crt, bundle, enrolling, conn>>

\* Operators: agentlink_auth is configured anew, for a rollback or back again, and
\* the masters are restarted with it; a node is retired.
SetMode(m) ==
    /\ m # mode /\ LinkFault /\ mode' = m /\ linked' = "none"
    /\ master' = [s \in Servants |-> "down"] /\ trusted' = [s \in Servants |-> {}]
    /\ UNCHANGED <<caRows, nodeDead, recorded, day, issued, key, crt, bundle, enrolling, conn>>

RevokeNode ==
    /\ ~nodeDead /\ LinkFault /\ nodeDead' = TRUE
    /\ UNCHANGED <<masterVars, mode, recorded, day, issued, agentVars>>

DayPasses ==
    /\ day < LastDay /\ day' = day + 1
    /\ UNCHANGED <<masterVars, recordVars, issued, agentVars, linkFaults>>

-----------------------------------------------------------------------------
(* Enrolling and renewing.                                                 *)

\* trustPool: tls_ca_file, which holds the first CA, and ca.pem.
TrustPool == {1} \cup bundle

\* The master's listener takes the certificate of the connection, and the agent
\* takes the master's, which is signed by the newest CA the master knows.
Handshake(s) ==
    /\ s \in Running /\ Valid(conn.cert) /\ conn.cert.ca \in trusted[s]
    /\ Newest(trusted[s]) \in TrustPool

\* acquireTransport: a matching pair of files, not expired, is dialled with;
\* otherwise the node enrols by its token.
AcquireTransport ==
    /\ ~conn.up /\ enrolling.pc = "no"
    /\ IF key = crt.n /\ Valid(crt)
       THEN conn' = [up |-> TRUE, cert |-> crt, fellBack |-> FALSE] /\ UNCHANGED enrolling
       ELSE enrolling' = [Idle EXCEPT !.pc = "asked"] /\ UNCHANGED conn
    /\ UNCHANGED <<masterVars, recordVars, day, issued, key, crt, bundle, linked, linkFaults>>

\* maybeRenew, before the Hello and daily in a session, never after a fallback.
AskRenewal(s) ==
    /\ conn.up /\ ~conn.fellBack /\ Due(conn.cert) /\ enrolling.pc = "no"
    /\ linked = s \/ (linked = "none" /\ Handshake(s))
    /\ enrolling' = [pc |-> "asked", renewal |-> TRUE, cert |-> NoCert]
    /\ UNCHANGED <<masterVars, recordVars, day, issued, key, crt, bundle, conn, linked, linkFaults>>

\* Enroll of the service: signed by the newest CA and recorded, then answered.
Enroll(s) ==
    /\ enrolling.pc = "asked" /\ s \in Running /\ ~nodeDead /\ issued < MaxIssued
    /\ enrolling.renewal => linked = s \/ (linked = "none" /\ Handshake(s))
    /\ issued' = issued + 1 /\ recorded' = issued'
    /\ enrolling' = [enrolling EXCEPT !.pc = "answered",
                        !.cert = [ca |-> Newest(caRows), n |-> issued', born |-> day]]
    /\ UNCHANGED <<masterVars, mode, nodeDead, day, key, crt, bundle, conn, linked, linkFaults>>

\* Refused, or lost before or after it was recorded, or a file cannot be written.
\* An enrolment is tried anew, a session goes on without its renewal.
EnrollFails ==
    /\ \/ enrolling.pc = "asked" /\ (nodeDead \/ Running = {}) /\ UNCHANGED linkFaults
       \/ enrolling.pc \notin {"no", "skipped"} /\ LinkFault
    /\ enrolling' = IF enrolling.renewal THEN [Idle EXCEPT !.pc = "skipped"] ELSE Idle
    /\ UNCHANGED <<masterVars, recordVars, day, issued, key, crt, bundle, conn, linked>>

\* writeMaterial: one file after the other.
WriteKey ==
    /\ enrolling.pc = "answered" /\ key' = enrolling.cert.n
    /\ enrolling' = [enrolling EXCEPT !.pc = "keyed"]
    /\ UNCHANGED <<masterVars, recordVars, day, issued, crt, bundle, conn, linked, linkFaults>>

WriteCert ==
    /\ enrolling.pc = "keyed" /\ crt' = enrolling.cert
    /\ enrolling' = [enrolling EXCEPT !.pc = "certed"]
    /\ UNCHANGED <<masterVars, recordVars, day, issued, key, bundle, conn, linked, linkFaults>>

\* The bundle is the active CAs, the one there is.  Then the connection is dialled
\* anew: at once, or, renewed, by acquireTransport.
WriteBundle ==
    /\ enrolling.pc = "certed" /\ bundle' = {enrolling.cert.ca} /\ enrolling' = Idle
    /\ conn' = IF enrolling.renewal THEN NoConn
               ELSE [up |-> TRUE, cert |-> enrolling.cert, fellBack |-> FALSE]
    /\ linked' = "none"
    /\ UNCHANGED <<masterVars, recordVars, day, issued, key, crt, linkFaults>>

AgentRestarts ==
    /\ LinkFault /\ enrolling' = Idle /\ conn' = NoConn /\ linked' = "none"
    /\ UNCHANGED <<masterVars, recordVars, day, issued, key, crt, bundle>>

-----------------------------------------------------------------------------
(* The session.                                                            *)

\* Mutant: a refused certificate session is only tried again.
FallsBack_Never == FALSE

\* A refused Hello with the certificate is followed by one with the token.
FallsBack == TRUE

\* authenticate: in mode token the certificate says nothing.
Refused == nodeDead \/ (mode = "token" /\ ~conn.fellBack)

Hello(s) ==
    /\ conn.up /\ linked = "none" /\ Handshake(s) /\ enrolling.pc \in {"no", "skipped"}
    /\ (Due(conn.cert) /\ ~conn.fellBack) => enrolling.pc = "skipped"
    /\ enrolling' = Idle
    /\ IF Refused THEN conn' = [conn EXCEPT !.fellBack = FallsBack] /\ UNCHANGED linked
       ELSE linked' = s /\ UNCHANGED conn
    /\ UNCHANGED <<masterVars, recordVars, day, issued, key, crt, bundle, linkFaults>>

\* The day's check is over; the next one comes.
NextCheck ==
    /\ linked # "none" /\ enrolling.pc = "skipped" /\ enrolling' = Idle
    /\ UNCHANGED <<masterVars, recordVars, day, issued, key, crt, bundle, conn, linked, linkFaults>>

\* The network: the same connection is dialled again, with what it holds.
SessionBreaks ==
    /\ linked # "none" /\ LinkFault /\ linked' = "none"
    /\ UNCHANGED <<masterVars, recordVars, day, issued, key, crt, bundle, enrolling, conn>>

-----------------------------------------------------------------------------
MasterSteps == \E s \in Servants : LookForCA(s) \/ EnsureInternalCA(s) \/ Serve(s)

AgentSteps ==
    \/ AcquireTransport \/ EnrollFails \/ WriteKey \/ WriteCert \/ WriteBundle
    \/ NextCheck
    \/ \E s \in Servants : AskRenewal(s) \/ Enroll(s) \/ Hello(s)

Next ==
    \/ MasterSteps \/ AgentSteps \/ DayPasses \/ RevokeNode \/ AgentRestarts \/ SessionBreaks
    \/ \E s \in Servants : MasterStops(s)
    \/ \E m \in Modes : SetMode(m)

Spec == Init /\ [][Next]_enrolVars

\* Masters are started again, the agent's loop goes on.
FairSpec == Spec /\ WF_enrolVars(MasterSteps) /\ WF_enrolVars(AgentSteps)

-----------------------------------------------------------------------------
(* Properties.                                                             *)

\* Every master that listens takes every certificate that was ever issued, also
\* after two of them started side by side on an empty database.
EveryLeafIsTrusted ==
    \A s \in Running, c \in {crt, conn.cert, enrolling.cert} : c # NoCert => c.ca \in trusted[s]

\* The node's row is never behind the files of its agent.
RecordCoversFiles == key <= recorded /\ crt.n <= recorded

\* A connection whose certificate ran out while it was down: the agent does not
\* dial it anew.
Stranded == conn.up /\ linked = "none" /\ ~Valid(conn.cert)

Linked == linked # "none" \/ nodeDead \/ Stranded \/ issued = MaxIssued

\* Whatever broke, torn files, lost answers, a rollback of the mode, the node is
\* on the link again; it may be stranded, which enroll.go denies.
LinkHeals == <>[]Linked
=============================================================================
