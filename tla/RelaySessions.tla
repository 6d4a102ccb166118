--------------------------- MODULE RelaySessions ----------------------------
(***************************************************************************)
(* Login sessions of the public radar relay and the lifetime of the viewer  *)
(* connections that depend on them (session.go, and in server.go the        *)
(* session handlers, handleViewer, the janitor and Close).                  *)
(*                                                                          *)
(* A session is named by the login request that creates it.  Sessions leave *)
(* the table under sessionsMu but are revoked after the unlock, and revoke  *)
(* closes connections after it released the session's own lock: owed and    *)
(* toClose hold what was decided and is still to be done, by whichever      *)
(* goroutine.  Frames are left to RelayRoom; of the room only closing and   *)
(* the attached connections matter here, and entering it may fail for lack  *)
(* of a seat.  Rate limits, malformed requests and wrong invites end a      *)
(* login without effect (LoginFails).                                       *)
(***************************************************************************)
EXTENDS Naturals, FiniteSets

CONSTANTS
    Sessions,       \* login requests, and the sessions they create
    Viewers,        \* viewer requests
    NoSession,      \* no cookie
    MaxSessions,    \* config.MaxSessions
    MaxPerSession,  \* config.MaxViewersPerSession
    SessionTTL,     \* config.SessionTTL, in ticks
    MaxTime         \* bound of the model: ticks of the clock

ASSUME SessionAssumption ==
    /\ NoSession \notin Sessions
    /\ IsFiniteSet(Sessions) /\ IsFiniteSet(Viewers)
    /\ MaxSessions \in Nat /\ MaxPerSession \in Nat
    /\ SessionTTL \in Nat /\ MaxTime \in Nat

Unauthorized == 4401    \* close code of an ended login
GoingAway == 1001       \* close code of a server that stops

VARIABLES
    now,
    loginPc, loginAt,   \* login requests and the clock they read
    table,              \* Server.sessions
    made,               \* session objects that exist; their cookies are out
    revoked,            \* session.revoked
    owed,               \* revocations decided under sessionsMu, to be done
    toClose,            \* connections collected under a lock, to be closed
    vpc, of,            \* viewer handlers and the session of their cookie
    reservations,       \* session.viewers of all sessions
    conn, closeCode,    \* connections, and the first close code sent on each
    closePc, closing    \* Server.Close and room.closing

vars == <<now, loginPc, loginAt, table, made, revoked, owed, toClose, vpc, of,
          reservations, conn, closeCode, closePc, closing>>

tableVars == <<loginPc, loginAt, table, made, owed>>
revokeVars == <<revoked, toClose, closeCode>>
viewerVars == <<vpc, of, reservations>>
closeVars == <<closePc, closing>>

ready == closePc = "running"
ExpiresAt(s) == loginAt[s] + SessionTTL
(* session.valid *)
Valid(s, t) == s \notin revoked /\ ExpiresAt(s) > t

Reserved == {"reserved", "added", "upgraded", "attached", "streaming", "leaving"}

TypeOK ==
    /\ now \in Nat
    /\ loginPc \in [Sessions -> {"idle", "checked", "done", "refused"}]
    /\ loginAt \in [Sessions -> 0..now]
    /\ made \subseteq Sessions /\ table \subseteq made /\ revoked \subseteq made
    /\ owed \subseteq made \X {Unauthorized, GoingAway}
    /\ toClose \subseteq Viewers \X {Unauthorized, GoingAway}
    /\ vpc \in [Viewers -> {"idle", "checked", "authenticated", "gone"} \cup Reserved]
    /\ of \in [Viewers -> made \cup {NoSession}]
    /\ \A v \in Viewers : vpc[v] = "idle" \/ of[v] \in made
    /\ reservations \subseteq Viewers
    /\ conn \in [Viewers -> {"none", "open", "closed"}]
    /\ closeCode \in [Viewers -> {0, Unauthorized, GoingAway}]
    /\ closePc \in {"running", "unready", "revoking", "rooms", "closed"}
    /\ closing \in BOOLEAN

Init ==
    /\ now = 0
    /\ loginPc = [s \in Sessions |-> "idle"] /\ loginAt = [s \in Sessions |-> 0]
    /\ table = {} /\ made = {} /\ revoked = {} /\ owed = {} /\ toClose = {}
    /\ vpc = [v \in Viewers |-> "idle"] /\ of = [v \in Viewers |-> NoSession]
    /\ reservations = {}
    /\ conn = [v \in Viewers |-> "none"] /\ closeCode = [v \in Viewers |-> 0]
    /\ closePc = "running" /\ closing = FALSE

Tick ==
    /\ now < MaxTime
    /\ now' = now + 1
    /\ UNCHANGED <<tableVars, revokeVars, viewerVars, conn, closeVars>>
-----------------------------------------------------------------------------
(* The session table *)

(* The readiness check and the clock of a login precede its locked part. *)
StartLogin(s) ==
    /\ loginPc[s] = "idle" /\ ready
    /\ loginPc' = [loginPc EXCEPT ![s] = "checked"]
    /\ loginAt' = [loginAt EXCEPT ![s] = now]
    /\ UNCHANGED <<now, table, made, owed, revokeVars, viewerVars, conn, closeVars>>

LoginFails(s) ==
    /\ loginPc[s] = "checked" \/ (loginPc[s] = "idle" /\ ~ready)
    /\ loginPc' = [loginPc EXCEPT ![s] = "refused"]
    /\ UNCHANGED <<now, loginAt, table, made, owed, revokeVars, viewerVars, conn,
                   closeVars>>

(* pruneSessionsLocked *)
Expired(t) == {s \in table : ~Valid(s, t)}
Unauthorize(S) == S \X {Unauthorized}

TableFull_CountsReplaced(kept, old) == Cardinality(kept \cup ({old} \cap table)) >= MaxSessions
(* The capacity check comes after the client's own session was removed. *)
TableFull(kept, old) == Cardinality(kept) >= MaxSessions

(* The locked part of handleCreateSession, for a client that presents the   *)
(* cookie of old: expired sessions and old are dropped in any case.          *)
CreateSession(s, old) ==
    LET expired == Expired(loginAt[s])
        kept    == table \ (expired \cup {old})
    IN  /\ loginPc[s] = "checked"
        /\ owed' = owed \cup Unauthorize(table \ kept)
        /\ IF TableFull(kept, old)
           THEN /\ table' = kept
                /\ loginPc' = [loginPc EXCEPT ![s] = "refused"]
                /\ UNCHANGED made
           ELSE /\ table' = kept \cup {s}
                /\ made' = made \cup {s}
                /\ loginPc' = [loginPc EXCEPT ![s] = "done"]
        /\ UNCHANGED <<now, loginAt, revokeVars, viewerVars, conn, closeVars>>

(* Sessions leave the table and will be revoked: handleDeleteSession, the   *)
(* janitor (with a time its ticker delivered earlier) until Close has       *)
(* joined it, and authenticateSession when it meets an expired session.     *)
Remove_Silently(S) == table' = table \ S /\ UNCHANGED owed
Remove(S) ==
    /\ table' = table \ S
    /\ owed' = owed \cup Unauthorize(S)

Drop(S) ==
    /\ S # {}
    /\ Remove(S)
    /\ UNCHANGED <<now, loginPc, loginAt, made, revokeVars, viewerVars, conn,
                   closeVars>>

DeleteSession(s) == s \in table /\ Drop({s})
Prune(t) == closePc \in {"running", "unready"} /\ Drop(Expired(t))
GetSession(s) == s \in Expired(now) /\ Drop({s})
-----------------------------------------------------------------------------
(* Revocation *)

(* The locked part of revokeAt; only its first call has an effect.  The     *)
(* connections known to the session are collected.                          *)
Revoke(s, code) ==
    /\ <<s, code>> \in owed
    /\ owed' = owed \ {<<s, code>>}
    /\ revoked' = revoked \cup {s}
    /\ toClose' = IF s \in revoked THEN toClose
                  ELSE toClose \cup {<<v, code>> : v \in
                         {w \in reservations : of[w] = s /\ vpc[w] = "streaming"}}
    /\ UNCHANGED <<now, loginPc, loginAt, table, made, closeCode, viewerVars, conn,
                   closeVars>>

SendClose_KeepsConn(v, code) ==
    /\ closeCode' = [closeCode EXCEPT ![v] =
                       IF conn[v] = "open" /\ @ = 0 THEN code ELSE @]
    /\ UNCHANGED conn
(* Send the close frame and close, without a lock. *)
SendClose(v, code) ==
    /\ closeCode' = [closeCode EXCEPT ![v] =
                       IF conn[v] = "open" /\ @ = 0 THEN code ELSE @]
    /\ conn' = [conn EXCEPT ![v] = "closed"]

CloseConn(v, code) ==
    /\ <<v, code>> \in toClose
    /\ toClose' = toClose \ {<<v, code>>}
    /\ SendClose(v, code)
    /\ UNCHANGED <<now, tableVars, revoked, viewerVars, closeVars>>

(* The writer's expiry timer revokes the session. *)
ExpiryTimer(v) ==
    /\ vpc[v] = "streaming" /\ ExpiresAt(of[v]) <= now
    /\ of[v] \notin revoked
    /\ owed' = owed \cup Unauthorize({of[v]})
    /\ UNCHANGED <<now, loginPc, loginAt, table, made, revokeVars, viewerVars, conn,
                   closeVars>>
-----------------------------------------------------------------------------
(* handleViewer *)

Move(v, pc) == vpc' = [vpc EXCEPT ![v] = pc]

(* A viewer request arrives with the cookie of s while the server is ready. *)
StartViewer(v, s) ==
    /\ vpc[v] = "idle" /\ ready /\ s \in made
    /\ of' = [of EXCEPT ![v] = s]
    /\ Move(v, "checked")
    /\ UNCHANGED <<now, tableVars, revokeVars, reservations, conn, closeVars>>

(* authenticateSession, which removes an expired session it meets. *)
Authenticate(v) ==
    /\ vpc[v] = "checked"
    /\ IF of[v] \in table /\ Valid(of[v], now)
       THEN Move(v, "authenticated") /\ UNCHANGED <<table, owed>>
       ELSE Move(v, "gone") /\ Remove({of[v]} \cap table)
    /\ UNCHANGED <<now, loginPc, loginAt, made, revokeVars, of, reservations, conn,
                   closeVars>>

SeatsTaken(s) == {w \in reservations : of[w] = s}

Reserve(v) ==
    /\ vpc[v] = "authenticated"
    /\ IF Valid(of[v], now) /\ Cardinality(SeatsTaken(of[v])) < MaxPerSession
       THEN Move(v, "reserved") /\ reservations' = reservations \cup {v}
       ELSE Move(v, "gone") /\ UNCHANGED reservations
    /\ UNCHANGED <<now, tableVars, revokeVars, of, conn, closeVars>>

(* room.addViewer: refused when the room closes or has no seat. *)
EnterRoom(v) ==
    /\ vpc[v] = "reserved"
    /\ (~closing /\ Move(v, "added")) \/ Move(v, "leaving")
    /\ UNCHANGED <<now, tableVars, revokeVars, of, reservations, conn, closeVars>>

Upgrade_SkipsRelease(v) ==
    /\ vpc[v] = "added"
    /\ \/ Move(v, "upgraded") /\ conn' = [conn EXCEPT ![v] = "open"]
       \/ Move(v, "gone") /\ UNCHANGED conn
    /\ UNCHANGED <<now, tableVars, revokeVars, of, reservations, closeVars>>
Upgrade(v) ==
    /\ vpc[v] = "added"
    /\ \/ Move(v, "upgraded") /\ conn' = [conn EXCEPT ![v] = "open"]
       \/ Move(v, "leaving") /\ UNCHANGED conn
    /\ UNCHANGED <<now, tableVars, revokeVars, of, reservations, closeVars>>

(* room.attachViewer *)
AttachRoom(v) ==
    /\ vpc[v] = "upgraded"
    /\ IF closing THEN Move(v, "leaving") /\ conn' = [conn EXCEPT ![v] = "closed"]
                  ELSE Move(v, "attached") /\ UNCHANGED conn
    /\ UNCHANGED <<now, tableVars, revokeVars, of, reservations, closeVars>>

MayAttach_Unchecked(v) == v \in reservations
MayAttach(v) == Valid(of[v], now) /\ v \in reservations

(* session.attachViewer: a session that ended during the handshake refuses  *)
(* the connection, which is closed with 4401.                               *)
AttachSession(v) ==
    /\ vpc[v] = "attached"
    /\ IF MayAttach(v)
       THEN Move(v, "streaming") /\ UNCHANGED <<conn, closeCode>>
       ELSE Move(v, "leaving") /\ SendClose(v, Unauthorized)
    /\ UNCHANGED <<now, tableVars, revoked, toClose, of, reservations, closeVars>>

(* The read loop ends, for whatever reason, and the connection is closed. *)
StreamEnds(v) ==
    /\ vpc[v] = "streaming"
    /\ Move(v, "leaving")
    /\ conn' = [conn EXCEPT ![v] = "closed"]
    /\ UNCHANGED <<now, tableVars, revokeVars, of, reservations, closeVars>>

Release(v) ==
    /\ vpc[v] = "leaving"
    /\ Move(v, "gone")
    /\ reservations' = reservations \ {v}
    /\ UNCHANGED <<now, tableVars, revokeVars, of, conn, closeVars>>
-----------------------------------------------------------------------------
(* Shutdown: SetReady(false); then Close joins the janitor, empties the     *)
(* table, revokes what was in it and only then closes the rooms.            *)

SetUnready ==
    /\ closePc = "running" /\ closePc' = "unready"
    /\ UNCHANGED <<now, tableVars, revokeVars, viewerVars, conn, closing>>

ClearTable ==
    /\ closePc = "unready" /\ closePc' = "revoking"
    /\ table' = {}
    /\ owed' = owed \cup (table \X {GoingAway})
    /\ UNCHANGED <<now, loginPc, loginAt, made, revokeVars, viewerVars, conn, closing>>

NoneOwedByClose ==
    /\ owed \cap (Sessions \X {GoingAway}) = {}
    /\ toClose \cap (Viewers \X {GoingAway}) = {}

CloseRooms ==
    /\ closePc = "revoking" /\ closePc' = "rooms"
    /\ NoneOwedByClose
    /\ closing' = TRUE
    /\ toClose' = toClose \cup
         ({v \in Viewers : vpc[v] \in {"attached", "streaming"}} \X {GoingAway})
    /\ UNCHANGED <<now, tableVars, revoked, closeCode, viewerVars, conn>>

EndClose ==
    /\ closePc = "rooms" /\ closePc' = "closed"
    /\ NoneOwedByClose
    /\ UNCHANGED <<now, tableVars, revokeVars, viewerVars, conn, closing>>
-----------------------------------------------------------------------------
SessionStep(s) ==
    \/ StartLogin(s) \/ LoginFails(s)
    \/ (\E old \in made \cup {NoSession} : CreateSession(s, old))
    \/ DeleteSession(s) \/ GetSession(s)
    \/ (\E code \in {Unauthorized, GoingAway} : Revoke(s, code))

ViewerStep(v) ==
    \/ (\E s \in Sessions : StartViewer(v, s))
    \/ Authenticate(v) \/ Reserve(v) \/ EnterRoom(v) \/ Upgrade(v)
    \/ AttachRoom(v) \/ AttachSession(v) \/ StreamEnds(v) \/ Release(v)
    \/ ExpiryTimer(v)
    \/ (\E code \in {Unauthorized, GoingAway} : CloseConn(v, code))

ShutdownStep == SetUnready \/ ClearTable \/ CloseRooms \/ EndClose

Finished ==
    /\ closePc = "closed" /\ now = MaxTime /\ owed = {} /\ toClose = {}
    /\ \A s \in Sessions : loginPc[s] \in {"done", "refused"}
    /\ \A v \in Viewers : vpc[v] \in {"idle", "gone"}
    /\ UNCHANGED vars

Next ==
    \/ Tick
    \/ \E t \in 0..now : Prune(t)
    \/ \E s \in Sessions : SessionStep(s)
    \/ \E v \in Viewers : ViewerStep(v)
    \/ ShutdownStep
    \/ Finished

Spec == Init /\ [][Next]_vars

(* Running goroutines keep running and the clock advances; requests, peers, *)
(* logouts and the moment of the shutdown are the environment's.            *)
Fairness ==
    /\ WF_vars(Tick)
    /\ \A s \in Sessions, code \in {Unauthorized, GoingAway} : WF_vars(Revoke(s, code))
    /\ \A v \in Viewers :
        /\ \A code \in {Unauthorized, GoingAway} : WF_vars(CloseConn(v, code))
        /\ WF_vars(ExpiryTimer(v))
        /\ WF_vars(Authenticate(v) \/ Reserve(v) \/ EnterRoom(v) \/ Upgrade(v)
                   \/ AttachRoom(v) \/ AttachSession(v) \/ Release(v))
        /\ WF_vars(conn[v] = "closed" /\ StreamEnds(v))
    /\ WF_vars(ClearTable \/ CloseRooms \/ EndClose)

FairSpec == Spec /\ Fairness
-----------------------------------------------------------------------------
(* A session that left the table is revoked or somebody is about to revoke  *)
(* it: replacement, logout, pruning, failed authentication and shutdown     *)
(* forget none, although all of them revoke after the table's unlock.       *)
NoSessionForgotten ==
    \A s \in made \ (table \cup revoked) :
        \E code \in {Unauthorized, GoingAway} : <<s, code>> \in owed

(* No viewer keeps a stream on a session that ended: an open stream of a    *)
(* revoked session is already on the list of a goroutine that closes it,    *)
(* however the handshake raced the revocation.                              *)
RevokedStreamsAreCut ==
    \A v \in Viewers :
        vpc[v] = "streaming" /\ conn[v] = "open" /\ of[v] \in revoked =>
            \E code \in {Unauthorized, GoingAway} : <<v, code>> \in toClose

(* The places of a session are held by exactly its running handlers and are *)
(* never oversold, and the table never exceeds its capacity.                *)
QuotasExact ==
    /\ reservations = {v \in Viewers : vpc[v] \in Reserved}
    /\ \A s \in Sessions : Cardinality(SeatsTaken(s)) <= MaxPerSession
    /\ Cardinality(table) <= MaxSessions

(* Sessions and the places they hold are neither forgotten nor oversold.    *)
SessionsAccounted == NoSessionForgotten /\ QuotasExact

(* A login refused for capacity costs nobody a live session; in particular  *)
(* a client that logs in again is never logged out instead.                 *)
RefusalCostsNothing ==
    [][\A s \in Sessions :
         loginPc[s] = "checked" /\ loginPc'[s] = "refused" =>
            table \ table' \subseteq Expired(loginAt[s])]_vars

(* An ended login ends its streams: once out of the table or past its       *)
(* expiry, no viewer of the session stays connected.                        *)
EndedSessionsDrain ==
    \A v \in Viewers :
        (of[v] \in made \ table \/ (of[v] \in made /\ ExpiresAt(of[v]) <= now))
            ~> vpc[v] = "gone"

(* After shutdown began no viewer stays, whoever logs in or connects late.  *)
ShutdownEndsStreams ==
    closePc = "unready" ~> \A v \in Viewers : vpc[v] \in {"idle", "gone"}

(* However a session comes to its end, its streams end with it.             *)
StreamsEnd == EndedSessionsDrain /\ ShutdownEndsStreams
=============================================================================
