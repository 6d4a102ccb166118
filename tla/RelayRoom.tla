----------------------------- MODULE RelayRoom ------------------------------
(***************************************************************************)
(* One room of the public radar relay (radar-relay/internal/relay/room.go)  *)
(* with the handlers that use it: producer connections (handleProducer),    *)
(* viewer connections (handleViewer) with their writer goroutines           *)
(* (writeViewer), the janitor's frame expiry and the shutdown of the room.  *)
(*                                                                          *)
(* A member of Producers or Viewers is one HTTP request and, after its      *)
(* upgrade, its WebSocket; it is served once.  Steps of different           *)
(* goroutines interleave; a step is one critical section of the room's or   *)
(* the viewer's mutex, or one operation on a connection.  Early returns     *)
(* that precede the first change of the room (method, readiness,            *)
(* credentials) change nothing and are left out.                            *)
(*                                                                          *)
(* A frame is named by its generation and 0 is Go's zero frame (no prepared *)
(* message); publishedAt holds the immutable publishedAt field of each      *)
(* frame.  room.latestAt always equals that field of room.latest, so it is  *)
(* not a variable.  Whether the viewer's login session was revoked or is    *)
(* past its expiry is the variable sessionOver; RelaySessions models how    *)
(* that comes about.                                                        *)
(***************************************************************************)
EXTENDS Naturals, FiniteSets

CONSTANTS
    Producers,      \* producer requests
    Viewers,        \* viewer requests
    NoConn,         \* nil connection
    MaxViewers,     \* room.maxViewers
    TTL,            \* config SnapshotTTL, in ticks
    WriteTimeout,   \* the five seconds a frame write may take, in ticks
    MaxFrame,       \* bound of the model: frames published
    MaxTime         \* bound of the model: ticks of the clock

ASSUME RoomAssumption ==
    /\ Producers \cap Viewers = {}
    /\ NoConn \notin Producers \cup Viewers
    /\ IsFiniteSet(Viewers)
    /\ MaxViewers \in Nat /\ TTL \in Nat /\ WriteTimeout \in Nat
    /\ MaxFrame \in Nat /\ MaxTime \in Nat

VARIABLES
    now,                \* wall clock
    producerActive, producerGeneration, producerConn,       \* room fields
    viewers, latest, frameGeneration, closing,              \* room fields
    publishedAt,        \* publishedAt[g] of the frame of generation g
    conn,               \* conn[c]: "none", "open" or "closed"
    ppc,                \* where the producer handler is
    claim,              \* generation claimProducer gave the handler
    received,           \* clock read when its last message arrived
    update,             \* frame it is offering
    targets,            \* viewers it still has to offer that frame to
    vpc,                \* where the viewer handler is
    captured,           \* frame addViewer returned to the handler
    joined,             \* frameGeneration when the viewer was added (history)
    newest, slot,       \* viewer.newestGeneration and the updates channel
    wpc,                \* where the viewer's writer goroutine is
    taken, deadline,    \* frame the writer took last and its write deadline
    sent,               \* last frame written (history)
    sessionOver,        \* the viewer's session is revoked or past expiry
    closePc, toClose    \* closeConnections and the connections it owes

roomVars   == <<producerActive, producerGeneration, producerConn, viewers,
                latest, frameGeneration, closing, publishedAt>>
producerVars == <<ppc, claim, received, update, targets>>
viewerVars == <<vpc, captured, joined>>
boxVars    == <<newest, slot>>
writerVars == <<wpc, taken, deadline, sent>>
closeVars  == <<closePc, toClose>>
vars == <<now, roomVars, conn, producerVars, viewerVars, boxVars, writerVars,
          sessionOver, closeVars>>

Conns == Producers \cup Viewers

(* Handler states in which the producer slot of the room is claimed. *)
Claiming == {"claimed", "upgraded", "reading", "received", "offering", "leaving"}
ProducerPc == {"idle", "gone"} \cup Claiming
(* Handler states in which the viewer occupies a place of the room. *)
Seated   == {"added", "upgraded", "attached", "streaming", "leaving"}
(* Handler states in which room.attachViewer has recorded the connection. *)
Attached == {"attached", "streaming"}
ViewerPc == {"idle", "gone"} \cup Seated
WriterPc == {"none", "waiting", "taken", "writing", "exited"}

TypeOK ==
    /\ now \in Nat
    /\ producerActive \in BOOLEAN /\ producerGeneration \in Nat
    /\ producerConn \in Producers \cup {NoConn}
    /\ viewers \subseteq Viewers
    /\ frameGeneration \in 0..MaxFrame /\ latest \in 0..frameGeneration
    /\ closing \in BOOLEAN
    /\ publishedAt \in [1..MaxFrame -> 0..now]
    /\ conn \in [Conns -> {"none", "open", "closed"}]
    /\ ppc \in [Producers -> ProducerPc]
    /\ claim \in [Producers -> Nat]
    /\ received \in [Producers -> 0..now]
    /\ update \in [Producers -> 0..frameGeneration]
    /\ targets \in [Producers -> SUBSET Viewers]
    /\ vpc \in [Viewers -> ViewerPc]
    /\ captured \in [Viewers -> 0..frameGeneration]
    /\ joined \in [Viewers -> 0..frameGeneration]
    /\ newest \in [Viewers -> 0..frameGeneration]
    /\ slot \in [Viewers -> 0..frameGeneration]
    /\ wpc \in [Viewers -> WriterPc]
    /\ taken \in [Viewers -> 0..frameGeneration]
    /\ sent \in [Viewers -> 0..frameGeneration]
    /\ deadline \in [Viewers -> Nat]
    /\ \A v \in Viewers : wpc[v] \in {"taken", "writing"} => taken[v] # 0
    /\ sessionOver \in [Viewers -> BOOLEAN]
    /\ closePc \in {"running", "closing", "closed"}
    /\ toClose \subseteq Conns

Init ==
    /\ now = 0
    /\ producerActive = FALSE /\ producerGeneration = 0 /\ producerConn = NoConn
    /\ viewers = {} /\ latest = 0 /\ frameGeneration = 0 /\ closing = FALSE
    /\ publishedAt = [g \in 1..MaxFrame |-> 0]
    /\ conn = [c \in Conns |-> "none"]
    /\ ppc = [p \in Producers |-> "idle"]
    /\ claim = [p \in Producers |-> 0]
    /\ received = [p \in Producers |-> 0]
    /\ update = [p \in Producers |-> 0]
    /\ targets = [p \in Producers |-> {}]
    /\ vpc = [v \in Viewers |-> "idle"]
    /\ captured = [v \in Viewers |-> 0] /\ joined = [v \in Viewers |-> 0]
    /\ newest = [v \in Viewers |-> 0] /\ slot = [v \in Viewers |-> 0]
    /\ wpc = [v \in Viewers |-> "none"]
    /\ taken = [v \in Viewers |-> 0] /\ deadline = [v \in Viewers |-> 0]
    /\ sent = [v \in Viewers |-> 0]
    /\ sessionOver = [v \in Viewers |-> FALSE]
    /\ closePc = "running" /\ toClose = {}
-----------------------------------------------------------------------------
(* Time and the janitor *)

Tick ==
    /\ now < MaxTime
    /\ now' = now + 1
    /\ UNCHANGED <<roomVars, conn, producerVars, viewerVars, boxVars,
                   writerVars, sessionOver, closeVars>>

(* room.expire with the time t its ticker delivered, which may lag the     *)
(* clock.  Server.Close joins the janitor before it closes the rooms.       *)
ExpireLatest(t) ==
    /\ closePc = "running"
    /\ latest # 0
    /\ t > publishedAt[latest] + TTL
    /\ latest' = 0
    /\ UNCHANGED <<now, producerActive, producerGeneration, producerConn,
                   viewers, frameGeneration, closing, publishedAt, conn,
                   producerVars, viewerVars, boxVars, writerVars, sessionOver,
                   closeVars>>
-----------------------------------------------------------------------------
(* Producer connections *)

ClaimProducer(p) ==
    /\ ppc[p] = "idle"
    /\ ~closing /\ ~producerActive
    /\ producerActive' = TRUE
    /\ producerGeneration' = producerGeneration + 1
    /\ claim' = [claim EXCEPT ![p] = producerGeneration']
    /\ ppc' = [ppc EXCEPT ![p] = "claimed"]
    /\ UNCHANGED <<now, producerConn, viewers, latest, frameGeneration, closing,
                   publishedAt, conn, received, update, targets, viewerVars,
                   boxVars, writerVars, sessionOver, closeVars>>

ClaimRefused(p) ==
    /\ ppc[p] = "idle"
    /\ closing \/ producerActive
    /\ ppc' = [ppc EXCEPT ![p] = "gone"]
    /\ UNCHANGED <<now, roomVars, conn, claim, received, update, targets,
                   viewerVars, boxVars, writerVars, sessionOver, closeVars>>

UpgradeProducer_ForgetsRelease(p) ==
    /\ ppc[p] = "claimed"
    /\ \/ /\ conn' = [conn EXCEPT ![p] = "open"]
          /\ ppc' = [ppc EXCEPT ![p] = "upgraded"]
       \/ /\ ppc' = [ppc EXCEPT ![p] = "gone"]
          /\ UNCHANGED conn
    /\ UNCHANGED <<now, roomVars, claim, received, update, targets, viewerVars,
                   boxVars, writerVars, sessionOver, closeVars>>
UpgradeProducer(p) ==
    /\ ppc[p] = "claimed"
    /\ \/ /\ conn' = [conn EXCEPT ![p] = "open"]
          /\ ppc' = [ppc EXCEPT ![p] = "upgraded"]
       \/ /\ ppc' = [ppc EXCEPT ![p] = "leaving"]
          /\ UNCHANGED conn
    /\ UNCHANGED <<now, roomVars, claim, received, update, targets, viewerVars,
                   boxVars, writerVars, sessionOver, closeVars>>

MayAttachProducer(p) ==
    ~closing /\ producerActive /\ claim[p] = producerGeneration

AttachProducer(p) ==
    /\ ppc[p] = "upgraded"
    /\ MayAttachProducer(p)
    /\ producerConn' = p
    /\ ppc' = [ppc EXCEPT ![p] = "reading"]
    /\ UNCHANGED <<now, producerActive, producerGeneration, viewers, latest,
                   frameGeneration, closing, publishedAt, conn, claim, received,
                   update, targets, viewerVars, boxVars, writerVars,
                   sessionOver, closeVars>>

AttachProducerFails(p) ==
    /\ ppc[p] = "upgraded"
    /\ ~MayAttachProducer(p)
    /\ conn' = [conn EXCEPT ![p] = "closed"]
    /\ ppc' = [ppc EXCEPT ![p] = "leaving"]
    /\ UNCHANGED <<now, roomVars, claim, received, update, targets, viewerVars,
                   boxVars, writerVars, sessionOver, closeVars>>

(* ReadMessage returned and the handler read the clock. *)
ReceiveSnapshot(p) ==
    /\ ppc[p] = "reading" /\ conn[p] = "open"
    /\ received' = [received EXCEPT ![p] = now]
    /\ ppc' = [ppc EXCEPT ![p] = "received"]
    /\ UNCHANGED <<now, roomVars, conn, claim, update, targets, viewerVars,
                   boxVars, writerVars, sessionOver, closeVars>>

(* The handler returns: read error or idle deadline, a frame that is not    *)
(* text, over the rate, invalid, or captured outside the allowed window.    *)
ProducerReturns(p) ==
    /\ ppc[p] \in {"reading", "received"}
    /\ conn' = [conn EXCEPT ![p] = "closed"]
    /\ received' = [received EXCEPT ![p] = 0]
    /\ ppc' = [ppc EXCEPT ![p] = "leaving"]
    /\ UNCHANGED <<now, roomVars, claim, update, targets, viewerVars,
                   boxVars, writerVars, sessionOver, closeVars>>

NumberFrame ==
    /\ frameGeneration' = frameGeneration + 1
    /\ latest' = frameGeneration + 1

Recipients_Streaming == {v \in viewers : vpc[v] = "streaming"}
Recipients == viewers

(* The locked part of publish: number the frame, make it the latest and     *)
(* copy the set of viewers to offer it to.                                  *)
Publish(p) ==
    /\ ppc[p] = "received"
    /\ frameGeneration < MaxFrame
    /\ NumberFrame
    /\ publishedAt' = [publishedAt EXCEPT ![frameGeneration + 1] = received[p]]
    /\ received' = [received EXCEPT ![p] = 0]
    /\ update' = [update EXCEPT ![p] = frameGeneration + 1]
    /\ targets' = [targets EXCEPT ![p] = Recipients]
    /\ ppc' = [ppc EXCEPT ![p] = "offering"]
    /\ UNCHANGED <<now, producerActive, producerGeneration, producerConn,
                   viewers, closing, conn, claim, viewerVars, boxVars,
                   writerVars, sessionOver, closeVars>>

OfferTo_Unordered(v, g) ==
    IF g # 0
    THEN /\ newest' = [newest EXCEPT ![v] = g]
         /\ slot' = [slot EXCEPT ![v] = g]
    ELSE UNCHANGED boxVars

OfferTo_Blocks(v, g) ==
    IF g > newest[v]
    THEN /\ slot[v] = 0
         /\ newest' = [newest EXCEPT ![v] = g]
         /\ slot' = [slot EXCEPT ![v] = g]
    ELSE UNCHANGED boxVars

(* viewer.offer, atomic here; ViewerMailbox shows it may be. *)
OfferTo(v, g) ==
    IF g > newest[v]
    THEN /\ newest' = [newest EXCEPT ![v] = g]
         /\ slot' = [slot EXCEPT ![v] = g]
    ELSE UNCHANGED boxVars

(* One turn of publish's loop, outside the room's lock. *)
Offer(p, v) ==
    /\ ppc[p] = "offering" /\ v \in targets[p]
    /\ OfferTo(v, update[p])
    /\ targets' = [targets EXCEPT ![p] = @ \ {v}]
    /\ UNCHANGED <<now, roomVars, conn, ppc, claim, received, update, viewerVars,
                   writerVars, sessionOver, closeVars>>

OffersDone(p) ==
    /\ ppc[p] = "offering" /\ targets[p] = {}
    /\ update' = [update EXCEPT ![p] = 0]
    /\ ppc' = [ppc EXCEPT ![p] = "reading"]
    /\ UNCHANGED <<now, roomVars, conn, claim, received, targets,
                   viewerVars, boxVars, writerVars, sessionOver, closeVars>>

(* The deferred releaseProducer: only the current claim is released. *)
ReleaseProducer(p) ==
    /\ ppc[p] = "leaving"
    /\ ppc' = [ppc EXCEPT ![p] = "gone"]
    /\ IF claim[p] = producerGeneration
       THEN producerActive' = FALSE /\ producerConn' = NoConn
       ELSE UNCHANGED <<producerActive, producerConn>>
    /\ UNCHANGED <<now, producerGeneration, viewers, latest, frameGeneration,
                   closing, publishedAt, conn, claim, received, update, targets,
                   viewerVars, boxVars, writerVars, sessionOver, closeVars>>
-----------------------------------------------------------------------------
(* Viewer connections *)

(* room.addViewer, with a clock t read before the room's lock was taken.    *)
AddViewer(v, t) ==
    /\ vpc[v] = "idle"
    /\ ~closing /\ Cardinality(viewers) < MaxViewers
    /\ viewers' = viewers \cup {v}
    /\ captured' = [captured EXCEPT ![v] =
           IF latest # 0 /\ t <= publishedAt[latest] + TTL THEN latest ELSE 0]
    /\ joined' = [joined EXCEPT ![v] = frameGeneration]
    /\ vpc' = [vpc EXCEPT ![v] = "added"]
    /\ UNCHANGED <<now, producerActive, producerGeneration, producerConn, latest,
                   frameGeneration, closing, publishedAt, conn, producerVars,
                   boxVars, writerVars, sessionOver, closeVars>>

AddViewerRefused(v) ==
    /\ vpc[v] = "idle"
    /\ closing \/ Cardinality(viewers) >= MaxViewers
    /\ vpc' = [vpc EXCEPT ![v] = "gone"]
    /\ UNCHANGED <<now, roomVars, conn, producerVars, captured, joined, boxVars,
                   writerVars, sessionOver, closeVars>>

UpgradeViewer_ForgetsRemoval(v) ==
    /\ vpc[v] = "added"
    /\ \/ /\ conn' = [conn EXCEPT ![v] = "open"]
          /\ vpc' = [vpc EXCEPT ![v] = "upgraded"]
       \/ /\ vpc' = [vpc EXCEPT ![v] = "gone"]
          /\ UNCHANGED conn
    /\ UNCHANGED <<now, roomVars, producerVars, captured, joined, boxVars,
                   writerVars, sessionOver, closeVars>>
UpgradeViewer(v) ==
    /\ vpc[v] = "added"
    /\ \/ /\ conn' = [conn EXCEPT ![v] = "open"]
          /\ vpc' = [vpc EXCEPT ![v] = "upgraded"]
       \/ /\ vpc' = [vpc EXCEPT ![v] = "leaving"]
          /\ UNCHANGED conn
    /\ UNCHANGED <<now, roomVars, producerVars, captured, joined, boxVars,
                   writerVars, sessionOver, closeVars>>

MayAttachViewer_WhileClosing(v) == v \in viewers
MayAttachViewer(v) == ~closing /\ v \in viewers

(* room.attachViewer: from here on shutdown knows the connection. *)
AttachViewer(v) ==
    /\ vpc[v] = "upgraded"
    /\ MayAttachViewer(v)
    /\ vpc' = [vpc EXCEPT ![v] = "attached"]
    /\ UNCHANGED <<now, roomVars, conn, producerVars, captured, joined, boxVars,
                   writerVars, sessionOver, closeVars>>

(* The handler gives up before it streams and closes its connection. *)
GiveUp(v) ==
    /\ conn' = [conn EXCEPT ![v] = "closed"]
    /\ vpc' = [vpc EXCEPT ![v] = "leaving"]
    /\ UNCHANGED <<now, roomVars, producerVars, captured, joined, boxVars,
                   writerVars, sessionOver, closeVars>>

AttachViewerFails(v) ==
    /\ vpc[v] = "upgraded" /\ ~MayAttachViewer(v)
    /\ GiveUp(v)

AttachSessionFails(v) ==
    /\ vpc[v] = "attached" /\ sessionOver[v]
    /\ GiveUp(v)

(* session.attachViewer succeeds, the frame captured by addViewer is        *)
(* offered (late: publishers may have offered newer ones), the writer       *)
(* goroutine starts and the handler reads until the connection ends.        *)
StartStream(v) ==
    /\ vpc[v] = "attached" /\ ~sessionOver[v]
    /\ OfferTo(v, captured[v])
    /\ wpc' = [wpc EXCEPT ![v] = "waiting"]
    /\ vpc' = [vpc EXCEPT ![v] = "streaming"]
    /\ UNCHANGED <<now, roomVars, conn, producerVars, captured, joined, taken,
                   deadline, sent, sessionOver, closeVars>>

(* The read loop ends: read error or deadline, or a message from the        *)
(* viewer.  Deferred: close(done), conn.Close.                               *)
ViewerReturns(v) ==
    /\ vpc[v] = "streaming"
    /\ conn' = [conn EXCEPT ![v] = "closed"]
    /\ vpc' = [vpc EXCEPT ![v] = "leaving"]
    /\ UNCHANGED <<now, roomVars, producerVars, captured, joined, boxVars,
                   writerVars, sessionOver, closeVars>>

RemoveViewer(v) ==
    /\ vpc[v] = "leaving"
    /\ viewers' = viewers \ {v}
    /\ vpc' = [vpc EXCEPT ![v] = "gone"]
    /\ UNCHANGED <<now, producerActive, producerGeneration, producerConn, latest,
                   frameGeneration, closing, publishedAt, conn, producerVars,
                   captured, joined, boxVars, writerVars, sessionOver, closeVars>>

(* Logout, replacement, expiry: seen here only as the end of the session,   *)
(* which closes the connections that session.attachViewer recorded.         *)
SessionEnds(v) ==
    /\ vpc[v] \in Seated /\ ~sessionOver[v]
    /\ sessionOver' = [sessionOver EXCEPT ![v] = TRUE]
    /\ UNCHANGED <<now, roomVars, conn, producerVars, viewerVars, boxVars,
                   writerVars, closeVars>>

SessionClosesConn(v) ==
    /\ vpc[v] = "streaming" /\ sessionOver[v] /\ conn[v] = "open"
    /\ conn' = [conn EXCEPT ![v] = "closed"]
    /\ UNCHANGED <<now, roomVars, producerVars, viewerVars, boxVars, writerVars,
                   sessionOver, closeVars>>
-----------------------------------------------------------------------------
(* The writer goroutine of a viewer *)

TakeFrame_LeavesIt(v) ==
    /\ wpc[v] = "waiting" /\ slot[v] # 0
    /\ taken' = [taken EXCEPT ![v] = slot[v]]
    /\ wpc' = [wpc EXCEPT ![v] = "taken"]
    /\ UNCHANGED <<now, roomVars, conn, producerVars, viewerVars, boxVars,
                   deadline, sent, sessionOver, closeVars>>
TakeFrame(v) ==
    /\ wpc[v] = "waiting" /\ slot[v] # 0
    /\ taken' = [taken EXCEPT ![v] = slot[v]]
    /\ slot' = [slot EXCEPT ![v] = 0]
    /\ wpc' = [wpc EXCEPT ![v] = "taken"]
    /\ UNCHANGED <<now, roomVars, conn, producerVars, viewerVars, newest,
                   deadline, sent, sessionOver, closeVars>>

ExpiryOf(g) == publishedAt[g] + TTL
Earlier_Ignored(s, t) == t
Earlier(s, t) == IF s < t THEN s ELSE t

(* The clock is read: an expired frame is dropped, another one is written   *)
(* before it expires and within WriteTimeout.                               *)
JudgeFrame(v) ==
    /\ wpc[v] = "taken"
    /\ \/ /\ ExpiryOf(taken[v]) <= now
          /\ wpc' = [wpc EXCEPT ![v] = "waiting"]
          /\ UNCHANGED deadline
       \/ /\ ExpiryOf(taken[v]) > now
          /\ deadline' = [deadline EXCEPT ![v] =
                            Earlier(ExpiryOf(taken[v]), now + WriteTimeout)]
          /\ wpc' = [wpc EXCEPT ![v] = "writing"]
    /\ UNCHANGED <<now, roomVars, conn, producerVars, viewerVars, boxVars,
                   taken, sent, sessionOver, closeVars>>

(* The connection accepted the frame; no write succeeds on a closed         *)
(* connection or past its deadline.                                         *)
WriteFrame(v) ==
    /\ wpc[v] = "writing"
    /\ conn[v] = "open" /\ now <= deadline[v]
    /\ sent' = [sent EXCEPT ![v] = taken[v]]
    /\ deadline' = [deadline EXCEPT ![v] = 0]
    /\ wpc' = [wpc EXCEPT ![v] = "waiting"]
    /\ UNCHANGED <<now, roomVars, conn, producerVars, viewerVars, boxVars, taken,
                   sessionOver, closeVars>>

(* A frame write or the periodic ping fails: close and exit. *)
WriteFails(v) ==
    /\ wpc[v] \in {"writing", "waiting"}
    /\ conn' = [conn EXCEPT ![v] = "closed"]
    /\ deadline' = [deadline EXCEPT ![v] = 0]
    /\ wpc' = [wpc EXCEPT ![v] = "exited"]
    /\ UNCHANGED <<now, roomVars, producerVars, viewerVars, boxVars, taken, sent,
                   sessionOver, closeVars>>

(* done, session.done or the expiry timer ends the writer. *)
WriterStops(v) ==
    /\ wpc[v] = "waiting"
    /\ vpc[v] # "streaming" \/ sessionOver[v]
    /\ wpc' = [wpc EXCEPT ![v] = "exited"]
    /\ UNCHANGED <<now, roomVars, conn, producerVars, viewerVars, boxVars, taken,
                   deadline, sent, sessionOver, closeVars>>
-----------------------------------------------------------------------------
(* Shutdown of the room *)

(* The locked part of closeConnections. *)
BeginClose ==
    /\ closePc = "running"
    /\ closing' = TRUE
    /\ toClose' = {v \in viewers : vpc[v] \in Attached} \cup
                  ({producerConn} \ {NoConn})
    /\ closePc' = "closing"
    /\ UNCHANGED <<now, producerActive, producerGeneration, producerConn,
                   viewers, latest, frameGeneration, publishedAt, conn,
                   producerVars, viewerVars, boxVars, writerVars, sessionOver>>

CloseConn(c) ==
    /\ closePc = "closing" /\ c \in toClose
    /\ conn' = [conn EXCEPT ![c] = "closed"]
    /\ toClose' = toClose \ {c}
    /\ UNCHANGED <<now, roomVars, producerVars, viewerVars, boxVars, writerVars,
                   sessionOver, closePc>>

EndClose ==
    /\ closePc = "closing" /\ toClose = {}
    /\ closePc' = "closed"
    /\ UNCHANGED <<now, roomVars, conn, producerVars, viewerVars, boxVars,
                   writerVars, sessionOver, toClose>>
-----------------------------------------------------------------------------
ProducerStep(p) ==
    \/ ClaimProducer(p) \/ ClaimRefused(p) \/ UpgradeProducer(p)
    \/ AttachProducer(p) \/ AttachProducerFails(p)
    \/ ReceiveSnapshot(p) \/ ProducerReturns(p)
    \/ Publish(p) \/ (\E v \in Viewers : Offer(p, v)) \/ OffersDone(p)
    \/ ReleaseProducer(p)

ViewerStep(v) ==
    \/ (\E t \in 0..now : AddViewer(v, t)) \/ AddViewerRefused(v)
    \/ UpgradeViewer(v) \/ AttachViewer(v) \/ AttachViewerFails(v)
    \/ AttachSessionFails(v) \/ StartStream(v) \/ ViewerReturns(v)
    \/ RemoveViewer(v) \/ SessionEnds(v) \/ SessionClosesConn(v)

WriterStep(v) ==
    TakeFrame(v) \/ JudgeFrame(v) \/ WriteFrame(v) \/ WriteFails(v) \/ WriterStops(v)

CloseStep == BeginClose \/ (\E c \in Conns : CloseConn(c)) \/ EndClose

(* Every request was served and the room is closed. *)
Finished ==
    /\ closePc = "closed" /\ now = MaxTime
    /\ \A p \in Producers : ppc[p] = "gone"
    /\ \A v \in Viewers : vpc[v] = "gone" /\ wpc[v] \in {"none", "exited"}
    /\ UNCHANGED vars

Next ==
    \/ Tick
    \/ \E t \in 0..now : ExpireLatest(t)
    \/ \E p \in Producers : ProducerStep(p)
    \/ \E v \in Viewers : ViewerStep(v) \/ WriterStep(v)
    \/ CloseStep
    \/ Finished

Spec == Init /\ [][Next]_vars

(* Goroutines that are not blocked keep running.  Arrivals, messages,       *)
(* logouts and the moment of the shutdown are left to the environment; a    *)
(* read on a closed connection returns; a write returns by its deadline     *)
(* because the clock advances.                                              *)
Fairness ==
    /\ \A p \in Producers :
        /\ WF_vars(UpgradeProducer(p))
        /\ WF_vars(AttachProducer(p) \/ AttachProducerFails(p))
        /\ WF_vars(conn[p] = "closed" /\ ProducerReturns(p))
        /\ WF_vars(ppc[p] = "received" /\ (Publish(p) \/ ProducerReturns(p)))
        /\ WF_vars((\E v \in Viewers : Offer(p, v)) \/ OffersDone(p))
        /\ WF_vars(ReleaseProducer(p))
    /\ \A v \in Viewers :
        /\ WF_vars(UpgradeViewer(v))
        /\ WF_vars(AttachViewer(v) \/ AttachViewerFails(v))
        /\ WF_vars(StartStream(v) \/ AttachSessionFails(v))
        /\ WF_vars(conn[v] = "closed" /\ ViewerReturns(v))
        /\ WF_vars(RemoveViewer(v))
        /\ WF_vars(SessionClosesConn(v))
        /\ WF_vars(TakeFrame(v) \/ WriterStops(v))
        /\ WF_vars(JudgeFrame(v))
        /\ WF_vars(WriteFrame(v) \/ (wpc[v] = "writing" /\ WriteFails(v)))
    /\ WF_vars((\E c \in Conns : CloseConn(c)) \/ EndClose)

FairSpec == Spec /\ Fairness
-----------------------------------------------------------------------------
(* Safety *)

(* The producer slot of the room is held by exactly the handlers that will  *)
(* still release it, and by at most one of them: every error path between   *)
(* claimProducer and the end of handleProducer gives it back, and a release *)
(* never frees the claim of a successor.                                    *)
OneClaim ==
    /\ producerActive <=> \E p \in Producers : ppc[p] \in Claiming
    /\ \A p, q \in Producers :
          ppc[p] \in Claiming /\ ppc[q] \in Claiming => p = q

(* The places of the room are held by exactly the viewer handlers that will *)
(* still give them back, so failed upgrades and refused attachments leak    *)
(* none, and there are never more than maxViewers of them.                  *)
SeatsExact ==
    /\ viewers = {v \in Viewers : vpc[v] \in Seated}
    /\ Cardinality(viewers) <= MaxViewers

(* Neither the slot nor a place is ever leaked or given away twice.         *)
ClaimsExact == OneClaim /\ SeatsExact

(* Whatever the interleaving of publishers, the late offer of the captured  *)
(* frame and the writer: the newest frame offered to a viewer waits in its  *)
(* slot or is the last one its writer took; an older one never hides it.    *)
NewestKept ==
    \A v \in Viewers :
        IF slot[v] = 0 THEN taken[v] = newest[v]
                       ELSE slot[v] = newest[v] /\ taken[v] < slot[v]

(* A viewer in the room is owed every frame published since it joined: once *)
(* no publisher has it left in its loop, the newest such frame was offered, *)
(* and a streaming viewer was offered the frame captured when it joined.    *)
NoMissedFrame ==
    \A v \in Viewers :
        /\ vpc[v] \in Seated /\ joined[v] < frameGeneration =>
              newest[v] = frameGeneration \/ \E p \in Producers : v \in targets[p]
        /\ vpc[v] = "streaming" => newest[v] >= captured[v]

(* After closeConnections took the room's lock, a connection that is open   *)
(* is on its list or belongs to a handler whose attachment will be refused: *)
(* when it is done, nobody streams or publishes on an open connection.      *)
NoConnEscapesClose ==
    /\ closing => \A v \in Viewers :
          vpc[v] \in Attached /\ conn[v] = "open" => v \in toClose
    /\ closing => \A p \in Producers :
          ppc[p] \in {"reading", "received", "offering"} /\ conn[p] = "open"
             => p \in toClose
    /\ closePc = "closed" => toClose = {}

(* Action properties *)

(* A viewer's connection carries strictly newer frames only: no frame twice *)
(* and none after a newer one, although its handler offers an old one late. *)
SentIncrease == [][\A v \in Viewers : WriteFrame(v) => taken[v] > sent[v]]_vars

(* No frame is handed to a viewer later than SnapshotTTL after it was       *)
(* received, however long it waited in the slot or the writer was blocked.  *)
SentFresh == [][\A v \in Viewers : WriteFrame(v) => now <= ExpiryOf(taken[v])]_vars

(* What is written to a viewer is newer than what it has, and not too old.  *)
WritesNewAndFresh == SentIncrease /\ SentFresh

(* Each viewer's mailbox implements the newest-wins slot. *)
Mailbox(v) == INSTANCE LatestSlot
    WITH accepted <- newest[v], waiting <- slot[v], taken <- taken[v]
MailboxSpec ==
    /\ \A v \in Viewers : Mailbox(v)!Init
    /\ [][\A v \in Viewers : [Mailbox(v)!Next]_(Mailbox(v)!vars)]_vars

(* Liveness *)

(* After shutdown began, every handler and every writer ends. *)
ShutdownDrains ==
    closing ~> /\ \A p \in Producers : ppc[p] \in {"idle", "gone"}
               /\ \A v \in Viewers : /\ vpc[v] \in {"idle", "gone"}
                                     /\ wpc[v] \in {"none", "exited"}

(* A frame that waits for a running writer is taken or replaced by a newer  *)
(* one, unless the writer ends: a blocked write delays it, never forever.   *)
WaitingFrameTaken ==
    \A v \in Viewers :
        wpc[v] = "waiting" /\ slot[v] # 0 ~> slot[v] = 0 \/ wpc[v] = "exited"

(* A publisher is never held up by a viewer: its loop over the viewers ends *)
(* even when some of them have stopped taking frames.                       *)
PublishCompletes ==
    \A p \in Producers : ppc[p] = "offering" ~> ppc[p] # "offering"

(* Frames keep moving from the producer's connection to the viewers'.       *)
FramesMove == PublishCompletes /\ WaitingFrameTaken

(* The room works while it is open, and everybody leaves it when it closes. *)
RoomProgress == FramesMove /\ ShutdownDrains
=============================================================================
