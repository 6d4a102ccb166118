------------------------ MODULE RelaySessionsProofs -------------------------
(***************************************************************************)
(* Theorems about RelaySessions for every set of logins and viewers and     *)
(* every quota: types and quotas first, then that no session is forgotten   *)
(* and that no stream outlives its session's revocation.  The last part is  *)
(* about the mailbox of one viewer (ViewerMailbox): the locked offer is     *)
(* atomic, for any goroutines that offer and any number of frames.          *)
(***************************************************************************)
EXTENDS RelaySessions, ViewerMailbox, FiniteSetTheorems, TLAPS

Codes == {Unauthorized, GoingAway}

LEMMA TypeInit == Init => TypeOK
<1> SUFFICES ASSUME Init PROVE TypeOK
  OBVIOUS
<1>1. now \in Nat /\ 0 \in 0..now
  BY DEF Init
<1> QED  BY <1>1 DEF Init, TypeOK, Reserved

LEMMA TypeStep == TypeOK /\ [Next]_vars => TypeOK'
<1> SUFFICES ASSUME TypeOK, [Next]_vars PROVE TypeOK'
  OBVIOUS
<1> USE SessionAssumption DEF Codes, tableVars, revokeVars, viewerVars, closeVars, TypeOK, Reserved
<1>1. CASE Tick
  BY <1>1 DEF Tick
<1>2. ASSUME NEW t \in 0..now, Prune(t) PROVE TypeOK'
  BY <1>2 DEF Prune, Drop, Remove, Unauthorize, Expired
<1>3. ASSUME NEW s \in Sessions, StartLogin(s) PROVE TypeOK'
  BY <1>3 DEF StartLogin
<1>4. ASSUME NEW s \in Sessions, LoginFails(s) PROVE TypeOK'
  BY <1>4 DEF LoginFails
<1>5. ASSUME NEW s \in Sessions, NEW old \in made \cup {NoSession}, CreateSession(s, old)
      PROVE  TypeOK'
  BY <1>5 DEF CreateSession, Unauthorize
<1>6. ASSUME NEW s \in Sessions, DeleteSession(s) PROVE TypeOK'
  BY <1>6 DEF DeleteSession, Drop, Remove, Unauthorize
<1>7. ASSUME NEW s \in Sessions, GetSession(s) PROVE TypeOK'
  BY <1>7 DEF GetSession, Drop, Remove, Unauthorize, Expired
<1>8. ASSUME NEW s \in Sessions, NEW code \in Codes, Revoke(s, code) PROVE TypeOK'
  BY <1>8 DEF Revoke
<1>9. ASSUME NEW v \in Viewers, NEW s \in Sessions, StartViewer(v, s) PROVE TypeOK'
  BY <1>9 DEF StartViewer, Move
<1>10. ASSUME NEW v \in Viewers, Authenticate(v) PROVE TypeOK'
  BY <1>10 DEF Authenticate, Move, Remove, Unauthorize
<1>11. ASSUME NEW v \in Viewers, Reserve(v) PROVE TypeOK'
  BY <1>11 DEF Reserve, Move
<1>12. ASSUME NEW v \in Viewers, EnterRoom(v) PROVE TypeOK'
  BY <1>12 DEF EnterRoom, Move
<1>13. ASSUME NEW v \in Viewers, Upgrade(v) PROVE TypeOK'
  BY <1>13 DEF Upgrade, Move
<1>14. ASSUME NEW v \in Viewers, AttachRoom(v) PROVE TypeOK'
  BY <1>14 DEF AttachRoom, Move
<1>15. ASSUME NEW v \in Viewers, AttachSession(v) PROVE TypeOK'
  BY <1>15 DEF AttachSession, Move, SendClose, MayAttach
<1>16. ASSUME NEW v \in Viewers, StreamEnds(v) PROVE TypeOK'
  BY <1>16 DEF StreamEnds, Move
<1>17. ASSUME NEW v \in Viewers, Release(v) PROVE TypeOK'
  BY <1>17 DEF Release, Move
<1>18. ASSUME NEW v \in Viewers, ExpiryTimer(v) PROVE TypeOK'
  BY <1>18 DEF ExpiryTimer, Unauthorize
<1>19. ASSUME NEW v \in Viewers, NEW code \in Codes, CloseConn(v, code) PROVE TypeOK'
  BY <1>19 DEF CloseConn, SendClose
<1>20. CASE SetUnready
  BY <1>20 DEF SetUnready
<1>21. CASE ClearTable
  BY <1>21 DEF ClearTable
<1>22. CASE CloseRooms
  BY <1>22 DEF CloseRooms
<1>23. CASE EndClose
  BY <1>23 DEF EndClose
<1>u. CASE UNCHANGED vars
  BY <1>u DEF vars
<1> QED  BY <1>1, <1>2, <1>3, <1>4, <1>5, <1>6, <1>7, <1>8, <1>9, <1>10, <1>11, <1>12, <1>13,
  <1>14, <1>15, <1>16, <1>17, <1>18, <1>19, <1>20, <1>21, <1>22, <1>23, <1>u
        DEF Next, SessionStep, ViewerStep, ShutdownStep, Finished, Codes

(* Every reachable state is well typed; in particular only sessions that    *)
(* were created are revoked, and only 4401 and 1001 are ever used.          *)
THEOREM TypeCorrect == Spec => []TypeOK
<1>1. Init => TypeOK
  BY TypeInit
<1>2. TypeOK /\ [Next]_vars => TypeOK'
  BY TypeStep
<1> QED  BY <1>1, <1>2, PTL DEF Spec
-----------------------------------------------------------------------------
(* The three parts of QuotasExact. *)
ReservationsExact == reservations = {v \in Viewers : vpc[v] \in Reserved}
SeatsBounded == \A s \in Sessions : Cardinality(SeatsTaken(s)) <= MaxPerSession
TableBounded == Cardinality(table) <= MaxSessions

(* A set that only lost elements keeps its bound. *)
LEMMA StillBounded ==
    ASSUME NEW S, NEW T, IsFiniteSet(T), S \subseteq T, NEW n \in Nat, Cardinality(T) <= n
    PROVE  Cardinality(S) <= n
<1>1. IsFiniteSet(S) /\ Cardinality(S) <= Cardinality(T)
  BY FS_Subset
<1>2. Cardinality(S) \in Nat /\ Cardinality(T) \in Nat
  BY <1>1, FS_CardinalityType
<1> QED  BY <1>1, <1>2

LEMMA FiniteParts ==
    ASSUME TypeOK
    PROVE  IsFiniteSet(table) /\ \A s \in Sessions : IsFiniteSet(SeatsTaken(s))
<1>1. IsFiniteSet(table)
  <2>1. table \subseteq Sessions
    BY DEF TypeOK
  <2> QED  BY <2>1, SessionAssumption, FS_Subset
<1>2. ASSUME NEW s \in Sessions PROVE IsFiniteSet(SeatsTaken(s))
  <2>1. SeatsTaken(s) \subseteq Viewers
    BY DEF TypeOK, SeatsTaken
  <2> QED  BY <2>1, SessionAssumption, FS_Subset
<1> QED  BY <1>1, <1>2

(* Only a reservation adds a seat to a session. *)
LEMMA SeatsShrink ==
    ASSUME TypeOK, SeatsBounded, NEW s \in Sessions, SeatsTaken(s)' \subseteq SeatsTaken(s)
    PROVE  Cardinality(SeatsTaken(s)') <= MaxPerSession
BY FiniteParts, StillBounded, SessionAssumption DEF SeatsBounded

LEMMA SeatsSame ==
    ASSUME TypeOK, SeatsBounded, UNCHANGED <<of, reservations>>
    PROVE  SeatsBounded'
BY DEF SeatsBounded, SeatsTaken

LEMMA TableShrinks ==
    ASSUME TypeOK, TableBounded, table' \subseteq table
    PROVE  TableBounded'
BY FiniteParts, StillBounded, SessionAssumption DEF TableBounded

LEMMA ReservationsStep ==
    TypeOK /\ ReservationsExact /\ [Next]_vars => ReservationsExact'
<1> SUFFICES ASSUME TypeOK, ReservationsExact, [Next]_vars PROVE ReservationsExact'
  OBVIOUS
<1> USE DEF Codes, tableVars, revokeVars, viewerVars, closeVars, TypeOK, ReservationsExact, Reserved
<1>1. CASE Tick
  BY <1>1 DEF Tick
<1>2. ASSUME NEW t \in 0..now, Prune(t) PROVE ReservationsExact'
  BY <1>2 DEF Prune, Drop, Remove, Unauthorize, Expired
<1>3. ASSUME NEW s \in Sessions, StartLogin(s) PROVE ReservationsExact'
  BY <1>3 DEF StartLogin
<1>4. ASSUME NEW s \in Sessions, LoginFails(s) PROVE ReservationsExact'
  BY <1>4 DEF LoginFails
<1>5. ASSUME NEW s \in Sessions, NEW old \in made \cup {NoSession}, CreateSession(s, old)
      PROVE  ReservationsExact'
  BY <1>5 DEF CreateSession, Unauthorize
<1>6. ASSUME NEW s \in Sessions, DeleteSession(s) PROVE ReservationsExact'
  BY <1>6 DEF DeleteSession, Drop, Remove, Unauthorize
<1>7. ASSUME NEW s \in Sessions, GetSession(s) PROVE ReservationsExact'
  BY <1>7 DEF GetSession, Drop, Remove, Unauthorize, Expired
<1>8. ASSUME NEW s \in Sessions, NEW code \in Codes, Revoke(s, code) PROVE ReservationsExact'
  BY <1>8 DEF Revoke
<1>9. ASSUME NEW v \in Viewers, NEW s \in Sessions, StartViewer(v, s) PROVE ReservationsExact'
  BY <1>9 DEF StartViewer, Move
<1>10. ASSUME NEW v \in Viewers, Authenticate(v) PROVE ReservationsExact'
  BY <1>10 DEF Authenticate, Move, Remove, Unauthorize
<1>11. ASSUME NEW v \in Viewers, Reserve(v) PROVE ReservationsExact'
  BY <1>11 DEF Reserve, Move
<1>12. ASSUME NEW v \in Viewers, EnterRoom(v) PROVE ReservationsExact'
  BY <1>12 DEF EnterRoom, Move
<1>13. ASSUME NEW v \in Viewers, Upgrade(v) PROVE ReservationsExact'
  BY <1>13 DEF Upgrade, Move
<1>14. ASSUME NEW v \in Viewers, AttachRoom(v) PROVE ReservationsExact'
  BY <1>14 DEF AttachRoom, Move
<1>15. ASSUME NEW v \in Viewers, AttachSession(v) PROVE ReservationsExact'
  BY <1>15 DEF AttachSession, Move, SendClose, MayAttach
<1>16. ASSUME NEW v \in Viewers, StreamEnds(v) PROVE ReservationsExact'
  BY <1>16 DEF StreamEnds, Move
<1>17. ASSUME NEW v \in Viewers, Release(v) PROVE ReservationsExact'
  BY <1>17 DEF Release, Move
<1>18. ASSUME NEW v \in Viewers, ExpiryTimer(v) PROVE ReservationsExact'
  BY <1>18 DEF ExpiryTimer, Unauthorize
<1>19. ASSUME NEW v \in Viewers, NEW code \in Codes, CloseConn(v, code) PROVE ReservationsExact'
  BY <1>19 DEF CloseConn, SendClose
<1>20. CASE SetUnready
  BY <1>20 DEF SetUnready
<1>21. CASE ClearTable
  BY <1>21 DEF ClearTable
<1>22. CASE CloseRooms
  BY <1>22 DEF CloseRooms
<1>23. CASE EndClose
  BY <1>23 DEF EndClose
<1>u. CASE UNCHANGED vars
  BY <1>u DEF vars
<1> QED  BY <1>1, <1>2, <1>3, <1>4, <1>5, <1>6, <1>7, <1>8, <1>9, <1>10, <1>11, <1>12, <1>13,
  <1>14, <1>15, <1>16, <1>17, <1>18, <1>19, <1>20, <1>21, <1>22, <1>23, <1>u
        DEF Next, SessionStep, ViewerStep, ShutdownStep, Finished, Codes

LEMMA SeatsStep ==
    TypeOK /\ ReservationsExact /\ SeatsBounded /\ [Next]_vars => SeatsBounded'
<1> SUFFICES ASSUME TypeOK, ReservationsExact, SeatsBounded, [Next]_vars PROVE SeatsBounded'
  OBVIOUS
<1> USE DEF Codes, tableVars, revokeVars, viewerVars, closeVars, Move
<1>1. CASE Tick
  BY <1>1, SeatsSame DEF Tick
<1>2. ASSUME NEW t \in 0..now, Prune(t) PROVE SeatsBounded'
  BY <1>2, SeatsSame DEF Prune, Drop
<1>3. ASSUME NEW s \in Sessions, StartLogin(s) PROVE SeatsBounded'
  BY <1>3, SeatsSame DEF StartLogin
<1>4. ASSUME NEW s \in Sessions, LoginFails(s) PROVE SeatsBounded'
  BY <1>4, SeatsSame DEF LoginFails
<1>5. ASSUME NEW s \in Sessions, NEW old \in made \cup {NoSession}, CreateSession(s, old)
      PROVE  SeatsBounded'
  BY <1>5, SeatsSame DEF CreateSession
<1>6. ASSUME NEW s \in Sessions, DeleteSession(s) PROVE SeatsBounded'
  BY <1>6, SeatsSame DEF DeleteSession, Drop
<1>7. ASSUME NEW s \in Sessions, GetSession(s) PROVE SeatsBounded'
  BY <1>7, SeatsSame DEF GetSession, Drop
<1>8. ASSUME NEW s \in Sessions, NEW code \in Codes, Revoke(s, code) PROVE SeatsBounded'
  BY <1>8, SeatsSame DEF Revoke
<1>9. ASSUME NEW v \in Viewers, NEW s \in Sessions, StartViewer(v, s) PROVE SeatsBounded'
  <2>1. v \notin reservations
    BY <1>9 DEF StartViewer, ReservationsExact, Reserved
  <2>2. \A r \in Sessions : SeatsTaken(r)' = SeatsTaken(r)
    BY <1>9, <2>1 DEF StartViewer, SeatsTaken, TypeOK
  <2> QED  BY <2>2 DEF SeatsBounded
<1>10. ASSUME NEW v \in Viewers, Authenticate(v) PROVE SeatsBounded'
  BY <1>10, SeatsSame DEF Authenticate
<1>11. ASSUME NEW v \in Viewers, Reserve(v) PROVE SeatsBounded'
  <2>1. CASE reservations' = reservations
    BY <1>11, <2>1, SeatsSame DEF Reserve
  <2>2. CASE reservations' # reservations
    <3>1. /\ reservations' = reservations \cup {v} /\ of' = of
          /\ Cardinality(SeatsTaken(of[v])) < MaxPerSession
      BY <1>11, <2>2 DEF Reserve
    <3>2. ASSUME NEW r \in Sessions, r # of[v] PROVE Cardinality(SeatsTaken(r)') <= MaxPerSession
      <4>1. SeatsTaken(r)' \subseteq SeatsTaken(r)
        BY <3>1, <3>2 DEF SeatsTaken
      <4> QED  BY <4>1, <3>2, SeatsShrink
    <3>3. ASSUME NEW r \in Sessions, r = of[v] PROVE Cardinality(SeatsTaken(r)') <= MaxPerSession
      <4>1. SeatsTaken(r)' = SeatsTaken(r) \cup {v}
        BY <3>1, <3>3 DEF SeatsTaken
      <4>2. IsFiniteSet(SeatsTaken(r)) /\ Cardinality(SeatsTaken(r)) \in Nat
        BY FiniteParts, FS_CardinalityType
      <4>3. v \notin SeatsTaken(r)
        BY <1>11 DEF Reserve, ReservationsExact, Reserved, SeatsTaken
      <4>4. Cardinality(SeatsTaken(r) \cup {v}) = Cardinality(SeatsTaken(r)) + 1
        BY <4>2, <4>3, FS_AddElement
      <4> QED  BY <3>1, <3>3, <4>1, <4>2, <4>4, SessionAssumption
    <3> QED  BY <3>2, <3>3 DEF SeatsBounded
  <2> QED  BY <2>1, <2>2
<1>12. ASSUME NEW v \in Viewers, EnterRoom(v) PROVE SeatsBounded'
  BY <1>12, SeatsSame DEF EnterRoom
<1>13. ASSUME NEW v \in Viewers, Upgrade(v) PROVE SeatsBounded'
  BY <1>13, SeatsSame DEF Upgrade
<1>14. ASSUME NEW v \in Viewers, AttachRoom(v) PROVE SeatsBounded'
  BY <1>14, SeatsSame DEF AttachRoom
<1>15. ASSUME NEW v \in Viewers, AttachSession(v) PROVE SeatsBounded'
  BY <1>15, SeatsSame DEF AttachSession
<1>16. ASSUME NEW v \in Viewers, StreamEnds(v) PROVE SeatsBounded'
  BY <1>16, SeatsSame DEF StreamEnds
<1>17. ASSUME NEW v \in Viewers, Release(v) PROVE SeatsBounded'
  <2>1. \A r \in Sessions : SeatsTaken(r)' \subseteq SeatsTaken(r)
    BY <1>17 DEF Release, SeatsTaken
  <2> QED  BY <2>1, SeatsShrink DEF SeatsBounded
<1>18. ASSUME NEW v \in Viewers, ExpiryTimer(v) PROVE SeatsBounded'
  BY <1>18, SeatsSame DEF ExpiryTimer
<1>19. ASSUME NEW v \in Viewers, NEW code \in Codes, CloseConn(v, code) PROVE SeatsBounded'
  BY <1>19, SeatsSame DEF CloseConn
<1>20. CASE SetUnready
  BY <1>20, SeatsSame DEF SetUnready
<1>21. CASE ClearTable
  BY <1>21, SeatsSame DEF ClearTable
<1>22. CASE CloseRooms
  BY <1>22, SeatsSame DEF CloseRooms
<1>23. CASE EndClose
  BY <1>23, SeatsSame DEF EndClose
<1>u. CASE UNCHANGED vars
  BY <1>u, SeatsSame DEF vars
<1> QED  BY <1>1, <1>2, <1>3, <1>4, <1>5, <1>6, <1>7, <1>8, <1>9, <1>10, <1>11, <1>12, <1>13,
  <1>14, <1>15, <1>16, <1>17, <1>18, <1>19, <1>20, <1>21, <1>22, <1>23, <1>u
        DEF Next, SessionStep, ViewerStep, ShutdownStep, Finished, Codes

LEMMA TableStep == TypeOK /\ TableBounded /\ [Next]_vars => TableBounded'
<1> SUFFICES ASSUME TypeOK, TableBounded, [Next]_vars PROVE TableBounded'
  OBVIOUS
<1> USE DEF Codes, tableVars, revokeVars, viewerVars, closeVars
<1>1. CASE Tick
  BY <1>1, TableShrinks DEF Tick
<1>2. ASSUME NEW t \in 0..now, Prune(t) PROVE TableBounded'
  BY <1>2, TableShrinks DEF Prune, Drop, Remove
<1>3. ASSUME NEW s \in Sessions, StartLogin(s) PROVE TableBounded'
  BY <1>3, TableShrinks DEF StartLogin
<1>4. ASSUME NEW s \in Sessions, LoginFails(s) PROVE TableBounded'
  BY <1>4, TableShrinks DEF LoginFails
<1>5. ASSUME NEW s \in Sessions, NEW old \in made \cup {NoSession}, CreateSession(s, old)
      PROVE  TableBounded'
  <2> DEFINE kept == table \ (Expired(loginAt[s]) \cup {old})
  <2>1. CASE TableFull(kept, old)
    BY <1>5, <2>1, TableShrinks DEF CreateSession
  <2>2. CASE ~TableFull(kept, old)
    <3>1. IsFiniteSet(kept) /\ Cardinality(kept) \in Nat
      BY FiniteParts, FS_Subset, FS_CardinalityType
    <3>2. Cardinality(kept) < MaxSessions
      BY <2>2, <3>1, SessionAssumption DEF TableFull
    <3>3. Cardinality(kept \cup {s}) \in {Cardinality(kept), Cardinality(kept) + 1}
      BY <3>1, FS_AddElement
    <3>4. table' = kept \cup {s}
      BY <1>5, <2>2 DEF CreateSession
    <3> QED  BY <3>1, <3>2, <3>3, <3>4, SessionAssumption DEF TableBounded
  <2> QED  BY <2>1, <2>2
<1>6. ASSUME NEW s \in Sessions, DeleteSession(s) PROVE TableBounded'
  BY <1>6, TableShrinks DEF DeleteSession, Drop, Remove
<1>7. ASSUME NEW s \in Sessions, GetSession(s) PROVE TableBounded'
  BY <1>7, TableShrinks DEF GetSession, Drop, Remove
<1>8. ASSUME NEW s \in Sessions, NEW code \in Codes, Revoke(s, code) PROVE TableBounded'
  BY <1>8, TableShrinks DEF Revoke
<1>9. ASSUME NEW v \in Viewers, NEW s \in Sessions, StartViewer(v, s) PROVE TableBounded'
  BY <1>9, TableShrinks DEF StartViewer
<1>10. ASSUME NEW v \in Viewers, Authenticate(v) PROVE TableBounded'
  BY <1>10, TableShrinks DEF Authenticate, Remove
<1>11. ASSUME NEW v \in Viewers, Reserve(v) PROVE TableBounded'
  BY <1>11, TableShrinks DEF Reserve
<1>12. ASSUME NEW v \in Viewers, EnterRoom(v) PROVE TableBounded'
  BY <1>12, TableShrinks DEF EnterRoom
<1>13. ASSUME NEW v \in Viewers, Upgrade(v) PROVE TableBounded'
  BY <1>13, TableShrinks DEF Upgrade
<1>14. ASSUME NEW v \in Viewers, AttachRoom(v) PROVE TableBounded'
  BY <1>14, TableShrinks DEF AttachRoom
<1>15. ASSUME NEW v \in Viewers, AttachSession(v) PROVE TableBounded'
  BY <1>15, TableShrinks DEF AttachSession
<1>16. ASSUME NEW v \in Viewers, StreamEnds(v) PROVE TableBounded'
  BY <1>16, TableShrinks DEF StreamEnds
<1>17. ASSUME NEW v \in Viewers, Release(v) PROVE TableBounded'
  BY <1>17, TableShrinks DEF Release
<1>18. ASSUME NEW v \in Viewers, ExpiryTimer(v) PROVE TableBounded'
  BY <1>18, TableShrinks DEF ExpiryTimer
<1>19. ASSUME NEW v \in Viewers, NEW code \in Codes, CloseConn(v, code) PROVE TableBounded'
  BY <1>19, TableShrinks DEF CloseConn
<1>20. CASE SetUnready
  BY <1>20, TableShrinks DEF SetUnready
<1>21. CASE ClearTable
  BY <1>21, TableShrinks DEF ClearTable
<1>22. CASE CloseRooms
  BY <1>22, TableShrinks DEF CloseRooms
<1>23. CASE EndClose
  BY <1>23, TableShrinks DEF EndClose
<1>u. CASE UNCHANGED vars
  BY <1>u, TableShrinks DEF vars
<1> QED  BY <1>1, <1>2, <1>3, <1>4, <1>5, <1>6, <1>7, <1>8, <1>9, <1>10, <1>11, <1>12, <1>13,
  <1>14, <1>15, <1>16, <1>17, <1>18, <1>19, <1>20, <1>21, <1>22, <1>23, <1>u
        DEF Next, SessionStep, ViewerStep, ShutdownStep, Finished, Codes

(* Reservations are exactly those of the running handlers, no session is    *)
(* oversold and the table stays within its capacity.                        *)
THEOREM QuotasAreExact == Spec => []QuotasExact
<1> DEFINE Inv == TypeOK /\ ReservationsExact /\ SeatsBounded /\ TableBounded
<1>1. Init => Inv
  <2> SUFFICES ASSUME Init PROVE Inv
    OBVIOUS
  <2>1. Cardinality({}) = 0
    BY FS_EmptySet
  <2>2. table = {} /\ \A s \in Sessions : SeatsTaken(s) = {}
    BY DEF Init, SeatsTaken
  <2>3. ReservationsExact
    BY DEF Init, ReservationsExact, Reserved
  <2> QED  BY <2>1, <2>2, <2>3, TypeInit, SessionAssumption DEF SeatsBounded, TableBounded
<1>2. Inv /\ [Next]_vars => Inv'
  BY TypeStep, ReservationsStep, SeatsStep, TableStep
<1>3. Inv => QuotasExact
  BY DEF QuotasExact, ReservationsExact, SeatsBounded, TableBounded
<1> QED  BY <1>1, <1>2, <1>3, PTL DEF Spec
-----------------------------------------------------------------------------
LEMMA ForgottenStep ==
    TypeOK /\ NoSessionForgotten /\ [Next]_vars => NoSessionForgotten'
<1> SUFFICES ASSUME TypeOK, NoSessionForgotten, [Next]_vars PROVE NoSessionForgotten'
  OBVIOUS
<1> USE DEF Codes, tableVars, revokeVars, viewerVars, closeVars, NoSessionForgotten
<1>1. CASE Tick
  BY <1>1 DEF Tick
<1>2. ASSUME NEW t \in 0..now, Prune(t) PROVE NoSessionForgotten'
  BY <1>2 DEF Prune, Drop, Remove, Unauthorize, Expired
<1>3. ASSUME NEW s \in Sessions, StartLogin(s) PROVE NoSessionForgotten'
  BY <1>3 DEF StartLogin
<1>4. ASSUME NEW s \in Sessions, LoginFails(s) PROVE NoSessionForgotten'
  BY <1>4 DEF LoginFails
<1>5. ASSUME NEW s \in Sessions, NEW old \in made \cup {NoSession}, CreateSession(s, old)
      PROVE  NoSessionForgotten'
  BY <1>5 DEF CreateSession, Unauthorize
<1>6. ASSUME NEW s \in Sessions, DeleteSession(s) PROVE NoSessionForgotten'
  BY <1>6 DEF DeleteSession, Drop, Remove, Unauthorize
<1>7. ASSUME NEW s \in Sessions, GetSession(s) PROVE NoSessionForgotten'
  BY <1>7 DEF GetSession, Drop, Remove, Unauthorize, Expired
<1>8. ASSUME NEW s \in Sessions, NEW code \in Codes, Revoke(s, code) PROVE NoSessionForgotten'
  BY <1>8 DEF Revoke
<1>9. ASSUME NEW v \in Viewers, NEW s \in Sessions, StartViewer(v, s) PROVE NoSessionForgotten'
  BY <1>9 DEF StartViewer, Move
<1>10. ASSUME NEW v \in Viewers, Authenticate(v) PROVE NoSessionForgotten'
  BY <1>10 DEF Authenticate, Move, Remove, Unauthorize
<1>11. ASSUME NEW v \in Viewers, Reserve(v) PROVE NoSessionForgotten'
  BY <1>11 DEF Reserve, Move
<1>12. ASSUME NEW v \in Viewers, EnterRoom(v) PROVE NoSessionForgotten'
  BY <1>12 DEF EnterRoom, Move
<1>13. ASSUME NEW v \in Viewers, Upgrade(v) PROVE NoSessionForgotten'
  BY <1>13 DEF Upgrade, Move
<1>14. ASSUME NEW v \in Viewers, AttachRoom(v) PROVE NoSessionForgotten'
  BY <1>14 DEF AttachRoom, Move
<1>15. ASSUME NEW v \in Viewers, AttachSession(v) PROVE NoSessionForgotten'
  BY <1>15 DEF AttachSession, Move, SendClose, MayAttach
<1>16. ASSUME NEW v \in Viewers, StreamEnds(v) PROVE NoSessionForgotten'
  BY <1>16 DEF StreamEnds, Move
<1>17. ASSUME NEW v \in Viewers, Release(v) PROVE NoSessionForgotten'
  BY <1>17 DEF Release, Move
<1>18. ASSUME NEW v \in Viewers, ExpiryTimer(v) PROVE NoSessionForgotten'
  BY <1>18 DEF ExpiryTimer, Unauthorize
<1>19. ASSUME NEW v \in Viewers, NEW code \in Codes, CloseConn(v, code) PROVE NoSessionForgotten'
  BY <1>19 DEF CloseConn, SendClose
<1>20. CASE SetUnready
  BY <1>20 DEF SetUnready
<1>21. CASE ClearTable
  BY <1>21 DEF ClearTable
<1>22. CASE CloseRooms
  BY <1>22 DEF CloseRooms
<1>23. CASE EndClose
  BY <1>23 DEF EndClose
<1>u. CASE UNCHANGED vars
  BY <1>u DEF vars
<1> QED  BY <1>1, <1>2, <1>3, <1>4, <1>5, <1>6, <1>7, <1>8, <1>9, <1>10, <1>11, <1>12, <1>13,
  <1>14, <1>15, <1>16, <1>17, <1>18, <1>19, <1>20, <1>21, <1>22, <1>23, <1>u
        DEF Next, SessionStep, ViewerStep, ShutdownStep, Finished, Codes

(* A session that left the table is revoked, or its revocation is pending.  *)
THEOREM NoneForgotten == Spec => []NoSessionForgotten
<1>1. Init => TypeOK /\ NoSessionForgotten
  BY TypeInit DEF Init, NoSessionForgotten
<1>2. TypeOK /\ NoSessionForgotten /\ [Next]_vars => TypeOK' /\ NoSessionForgotten'
  BY TypeStep, ForgottenStep
<1> QED  BY <1>1, <1>2, PTL DEF Spec
-----------------------------------------------------------------------------
LEMMA CutStep ==
    TypeOK /\ ReservationsExact /\ RevokedStreamsAreCut /\ [Next]_vars => RevokedStreamsAreCut'
<1> SUFFICES ASSUME TypeOK, ReservationsExact, RevokedStreamsAreCut, [Next]_vars
    PROVE  RevokedStreamsAreCut'
  OBVIOUS
<1> USE DEF Codes, tableVars, revokeVars, viewerVars, closeVars, RevokedStreamsAreCut, TypeOK,
  Reserved
<1>1. CASE Tick
  BY <1>1 DEF Tick
<1>2. ASSUME NEW t \in 0..now, Prune(t) PROVE RevokedStreamsAreCut'
  BY <1>2 DEF Prune, Drop, Remove, Unauthorize, Expired
<1>3. ASSUME NEW s \in Sessions, StartLogin(s) PROVE RevokedStreamsAreCut'
  BY <1>3 DEF StartLogin
<1>4. ASSUME NEW s \in Sessions, LoginFails(s) PROVE RevokedStreamsAreCut'
  BY <1>4 DEF LoginFails
<1>5. ASSUME NEW s \in Sessions, NEW old \in made \cup {NoSession}, CreateSession(s, old)
      PROVE  RevokedStreamsAreCut'
  BY <1>5 DEF CreateSession, Unauthorize
<1>6. ASSUME NEW s \in Sessions, DeleteSession(s) PROVE RevokedStreamsAreCut'
  BY <1>6 DEF DeleteSession, Drop, Remove, Unauthorize
<1>7. ASSUME NEW s \in Sessions, GetSession(s) PROVE RevokedStreamsAreCut'
  BY <1>7 DEF GetSession, Drop, Remove, Unauthorize, Expired
<1>8. ASSUME NEW s \in Sessions, NEW code \in Codes, Revoke(s, code) PROVE RevokedStreamsAreCut'
  BY <1>8 DEF Revoke, ReservationsExact, Reserved
<1>9. ASSUME NEW v \in Viewers, NEW s \in Sessions, StartViewer(v, s) PROVE RevokedStreamsAreCut'
  BY <1>9 DEF StartViewer, Move
<1>10. ASSUME NEW v \in Viewers, Authenticate(v) PROVE RevokedStreamsAreCut'
  BY <1>10 DEF Authenticate, Move, Remove, Unauthorize
<1>11. ASSUME NEW v \in Viewers, Reserve(v) PROVE RevokedStreamsAreCut'
  BY <1>11 DEF Reserve, Move
<1>12. ASSUME NEW v \in Viewers, EnterRoom(v) PROVE RevokedStreamsAreCut'
  BY <1>12 DEF EnterRoom, Move
<1>13. ASSUME NEW v \in Viewers, Upgrade(v) PROVE RevokedStreamsAreCut'
  BY <1>13 DEF Upgrade, Move
<1>14. ASSUME NEW v \in Viewers, AttachRoom(v) PROVE RevokedStreamsAreCut'
  BY <1>14 DEF AttachRoom, Move
<1>15. ASSUME NEW v \in Viewers, AttachSession(v) PROVE RevokedStreamsAreCut'
  BY <1>15 DEF AttachSession, Move, SendClose, MayAttach, Valid
<1>16. ASSUME NEW v \in Viewers, StreamEnds(v) PROVE RevokedStreamsAreCut'
  BY <1>16 DEF StreamEnds, Move
<1>17. ASSUME NEW v \in Viewers, Release(v) PROVE RevokedStreamsAreCut'
  BY <1>17 DEF Release, Move
<1>18. ASSUME NEW v \in Viewers, ExpiryTimer(v) PROVE RevokedStreamsAreCut'
  BY <1>18 DEF ExpiryTimer, Unauthorize
<1>19. ASSUME NEW v \in Viewers, NEW code \in Codes, CloseConn(v, code) PROVE RevokedStreamsAreCut'
  BY <1>19 DEF CloseConn, SendClose
<1>20. CASE SetUnready
  BY <1>20 DEF SetUnready
<1>21. CASE ClearTable
  BY <1>21 DEF ClearTable
<1>22. CASE CloseRooms
  BY <1>22 DEF CloseRooms
<1>23. CASE EndClose
  BY <1>23 DEF EndClose
<1>u. CASE UNCHANGED vars
  BY <1>u DEF vars
<1> QED  BY <1>1, <1>2, <1>3, <1>4, <1>5, <1>6, <1>7, <1>8, <1>9, <1>10, <1>11, <1>12, <1>13,
  <1>14, <1>15, <1>16, <1>17, <1>18, <1>19, <1>20, <1>21, <1>22, <1>23, <1>u
        DEF Next, SessionStep, ViewerStep, ShutdownStep, Finished, Codes

(* However its handshake raced the revocation, an open stream of a revoked  *)
(* session is on the list of a goroutine that closes it.                    *)
THEOREM StreamsAreCut == Spec => []RevokedStreamsAreCut
<1> DEFINE Inv == TypeOK /\ ReservationsExact /\ RevokedStreamsAreCut
<1>1. Init => Inv
  BY TypeInit DEF Init, ReservationsExact, Reserved, RevokedStreamsAreCut
<1>2. Inv /\ [Next]_vars => Inv'
  BY TypeStep, ReservationsStep, CutStep
<1> QED  BY <1>1, <1>2, PTL DEF Spec
-----------------------------------------------------------------------------
(* A refused login removes nothing but expired sessions: when it removed    *)
(* the client's live session there was room again for the new one.          *)
THEOREM RefusalIsFree == Spec => RefusalCostsNothing
<1> DEFINE Inv == TypeOK /\ TableBounded
           Free(s) == loginPc[s] = "checked" /\ loginPc'[s] = "refused" =>
                         table \ table' \subseteq Expired(loginAt[s])
<1>1. Init => Inv
  <2>1. Cardinality({}) = 0
    BY FS_EmptySet
  <2> QED  BY <2>1, TypeInit, SessionAssumption DEF Init, TableBounded
<1>2. Inv /\ [Next]_vars => Inv'
  BY TypeStep, TableStep
<1>3. Inv /\ [Next]_vars => [\A s \in Sessions : Free(s)]_vars
  <2> SUFFICES ASSUME Inv, Next, NEW s \in Sessions,
                      loginPc[s] = "checked", loginPc'[s] = "refused"
               PROVE  table \ table' \subseteq Expired(loginAt[s])
    OBVIOUS
  <2>1. \/ LoginFails(s)
        \/ \E old \in made \cup {NoSession} : CreateSession(s, old)
    <3>1. Next => loginPc' = loginPc \/ \E r \in Sessions :
             StartLogin(r) \/ LoginFails(r)
             \/ \E old \in made \cup {NoSession} : CreateSession(r, old)
      <4> USE DEF tableVars, Drop
      <4>1. ASSUME NEW r \in Sessions, SessionStep(r)
            PROVE  loginPc' = loginPc \/ StartLogin(r) \/ LoginFails(r)
                      \/ \E old \in made \cup {NoSession} : CreateSession(r, old)
        BY <4>1 DEF SessionStep, DeleteSession, GetSession, Revoke
      <4>2. ASSUME NEW v \in Viewers, ViewerStep(v) PROVE loginPc' = loginPc
        BY <4>2 DEF ViewerStep, StartViewer, Authenticate, Reserve, EnterRoom, Upgrade,
             AttachRoom, AttachSession, StreamEnds, Release, ExpiryTimer, CloseConn
      <4>3. ASSUME Tick \/ (\E t \in 0..now : Prune(t)) \/ ShutdownStep \/ Finished
            PROVE  loginPc' = loginPc
        BY <4>3 DEF Tick, Prune, ShutdownStep, SetUnready, ClearTable, CloseRooms, EndClose,
             Finished, vars
      <4> QED  BY <4>1, <4>2, <4>3 DEF Next
    <3>2. PICK r \in Sessions : StartLogin(r) \/ LoginFails(r)
                 \/ \E old \in made \cup {NoSession} : CreateSession(r, old)
      BY <3>1
    <3>3. r = s /\ ~StartLogin(r)
      BY <3>2 DEF StartLogin, LoginFails, CreateSession, TypeOK
    <3> QED  BY <3>2, <3>3
  <2>2. CASE LoginFails(s)
    BY <2>2 DEF LoginFails
  <2>3. ASSUME NEW old \in made \cup {NoSession}, CreateSession(s, old)
        PROVE  table \ table' \subseteq Expired(loginAt[s])
    <3> DEFINE expired == Expired(loginAt[s])
               kept == table \ (expired \cup {old})
    <3>1. TableFull(kept, old) /\ table' = kept
      BY <2>3 DEF CreateSession, TypeOK
    <3>2. old \notin table \ expired
      <4> SUFFICES ASSUME old \in table PROVE old \in expired
        OBVIOUS
      <4>1. IsFiniteSet(table) /\ Cardinality(table) \in Nat
        BY FiniteParts, FS_CardinalityType
      <4>2. IsFiniteSet(table \ {old}) /\ Cardinality(table \ {old}) = Cardinality(table) - 1
        BY <4>1, FS_RemoveElement
      <4>3. Cardinality(kept) >= MaxSessions
        BY <3>1 DEF TableFull
      <4>4. Cardinality(kept) <= Cardinality(table \ {old})
        <5>1. kept \subseteq table \ {old}
          OBVIOUS
        <5> QED  BY <4>2, <5>1, FS_Subset
      <4>5. Cardinality(kept) \in Nat
        BY <4>1, FS_Subset, FS_CardinalityType
      <4> QED  BY <4>1, <4>2, <4>3, <4>4, <4>5, SessionAssumption DEF TableBounded
    <3> QED  BY <3>1, <3>2
  <2> QED  BY <2>1, <2>2, <2>3
<1> QED  BY <1>1, <1>2, <1>3, PTL DEF Spec, RefusalCostsNothing

(* Sessions and the places they hold are neither forgotten nor oversold.    *)
THEOREM SessionsAreAccounted == Spec => []SessionsAccounted
  BY NoneForgotten, QuotasAreExact, PTL DEF SessionsAccounted
-----------------------------------------------------------------------------
(* The mailbox of a viewer.                                                 *)

Inside == {"locked", "drained"}

(* At most one offerer is inside the lock, and while nobody has drained the *)
(* channel the counters agree with it.                                      *)
BoxInv ==
    /\ BoxTypeOK
    /\ \A o \in Offerers : pc[o] \in Inside <=> holder = {o}
    /\ \A o \in Offerers : pc[o] = "drained" =>
          newest = update[o] /\ put < newest /\ updates = 0
    /\ (\A o \in Offerers : pc[o] # "drained") => newest = put /\ updates = shadow
    /\ updates # 0 => updates = shadow /\ updates = put
    /\ updates = 0 /\ (\A o \in Offerers : pc[o] # "drained") => taken = put

LEMMA BoxInvInit == BoxInit => BoxInv
BY DEF BoxInit, BoxInv, BoxTypeOK, Inside

LEMMA BoxInvStep == BoxInv /\ [BoxNext]_boxVars => BoxInv'
<1> SUFFICES ASSUME BoxInv, [BoxNext]_boxVars PROVE BoxInv'
  OBVIOUS
<1> USE DEF BoxInv, BoxTypeOK, Inside
<1>1. CASE Receive
  BY <1>1 DEF Receive
<1>2. ASSUME NEW o \in Offerers, NEW g \in Nat \ {0}, Begin(o, g) PROVE BoxInv'
  BY <1>2 DEF Begin
<1>3. ASSUME NEW o \in Offerers, Lock(o) PROVE BoxInv'
  BY <1>3 DEF Lock, MutexFree
<1>4. ASSUME NEW o \in Offerers, Reject(o) PROVE BoxInv'
  BY <1>4 DEF Reject
<1>5. ASSUME NEW o \in Offerers, Drain(o) PROVE BoxInv'
  <2>1. \A q \in Offerers : pc[q] # "drained"
    BY <1>5 DEF Drain
  <2>2. newest = put
    BY <2>1
  <2>3. BoxTypeOK'
    BY <1>5 DEF Drain, Raise
  <2>4. \A q \in Offerers : pc'[q] = "drained" <=> q = o
    BY <1>5, <2>1 DEF Drain
  <2>5. put' < newest' /\ newest' = update'[o] /\ updates' = 0
    BY <1>5, <2>2 DEF Drain, Raise, IsNewer
  <2> QED  BY <1>5, <2>3, <2>4, <2>5 DEF Drain
<1>6. ASSUME NEW o \in Offerers, Put(o) PROVE BoxInv'
  BY <1>6 DEF Put
<1>7. CASE UNCHANGED boxVars
  BY <1>7 DEF boxVars
<1> QED  BY <1>1, <1>2, <1>3, <1>4, <1>5, <1>6, <1>7 DEF BoxNext

(* The newest frame offered waits in the channel or was the last received.  *)
THEOREM NothingLost == BoxSpec => []NewestNotLost
<1>1. BoxInv => NewestNotLost
  BY DEF BoxInv, NewestNotLost, BoxTypeOK
<1> QED  BY <1>1, BoxInvInit, BoxInvStep, PTL DEF BoxSpec

(* The lock and the two steps inside it implement one atomic offer.         *)
THEOREM OfferIsAtomic == BoxSpec => SlotSpec
<1>1. BoxInit => Slot!Init
  BY DEF BoxInit, Slot!Init
<1>2. BoxInv /\ [BoxNext]_boxVars => [Slot!Next]_(Slot!vars)
  <2> SUFFICES ASSUME BoxInv, [BoxNext]_boxVars PROVE [Slot!Next]_(Slot!vars)
    OBVIOUS
  <2> USE DEF Slot!vars
  <2>1. CASE Receive
    BY <2>1 DEF Receive, BoxInv, BoxTypeOK, Slot!Next, Slot!Take
  <2>2. ASSUME NEW o \in Offerers, Put(o) PROVE Slot!Next
    <3>1. updates = 0 /\ put < update[o] /\ update[o] \in Nat
      BY <2>2 DEF Put, BoxInv, BoxTypeOK
    <3> QED  BY <2>2, <3>1 DEF Put, Slot!Next, Slot!Offer
  <2>3. ASSUME NEW o \in Offerers, NEW g \in Nat \ {0}, Begin(o, g)
        PROVE  UNCHANGED Slot!vars
    BY <2>3 DEF Begin
  <2>4. ASSUME NEW o \in Offerers, Lock(o) \/ Reject(o) \/ Drain(o)
        PROVE  UNCHANGED Slot!vars
    BY <2>4 DEF Lock, Reject, Drain
  <2>5. CASE UNCHANGED boxVars
    BY <2>5 DEF boxVars
  <2> QED  BY <2>1, <2>2, <2>3, <2>4, <2>5 DEF BoxNext
<1> QED  BY <1>1, <1>2, BoxInvInit, BoxInvStep, PTL DEF BoxSpec, SlotSpec, Slot!Spec
=============================================================================
