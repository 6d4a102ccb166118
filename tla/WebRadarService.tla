-------------------------- MODULE WebRadarService ---------------------------
(***************************************************************************)
(* The embedded WebSocket server of web_radar_service.cpp.  Four kinds of   *)
(* threads meet here:                                                       *)
(*   - the owner, in start() or stop() under lifecycleOperationMutex_;      *)
(*   - the data thread, in publish();                                       *)
(*   - one CivetWeb worker per connection, in the StreamHandler callbacks;  *)
(*   - one writer per Viewer, in writeLoop().                               *)
(* Each critical section of the code (viewersMutex_, snapshotMutex_,        *)
(* Viewer::mutex_) is one step; the threads interleave between them.        *)
(*                                                                          *)
(* A connection is the mg_connection of one worker, which the library uses  *)
(* again for a later client.  Payloads are named by their generation.       *)
(***************************************************************************)
EXTENDS Naturals, FiniteSets

CONSTANTS
    Conns,      \* mg_connection objects of the library's workers
    MaxViewers, \* config_.maxViewers
    MaxFrames   \* bound of the model: generations published

ASSUME ServiceAssumption ==
    /\ IsFiniteSet(Conns)
    /\ MaxViewers \in Nat \ {0}
    /\ MaxFrames \in Nat

VARIABLES
    state,      \* state_
    accepting,  \* acceptingViewers_
    server,     \* server_: "none", "up", or "closing" inside mg_stop
    library,    \* libraryAcquired_
    lpc,        \* where start() or stop() is
    victim,     \* the viewer stopAllViewers has erased and joins, as a set
    viewers,    \* keys of viewers_; viewerCount_ is its size, under the lock
    generation, \* publishedGeneration_, that of latestSnapshot_ as well
    ppc, todo,  \* where publish() is, and the viewers it has yet to offer to
    cpc,        \* where the worker of each connection is
    latest,     \* addViewer's copy of latestSnapshot_
    mustClose,  \* CivetWeb's close flag of the connection
    writer,     \* the viewer's thread
    pending, newest, closing,   \* the Viewer's fields
    sending,    \* frame inside mg_websocket_write
    got         \* history: last frame written to the peer

lifecycle == <<state, accepting, server, library, lpc, victim>>
publisher == <<generation, ppc, todo>>
worker == <<cpc, latest>>
viewer == <<pending, newest, closing>>
io == <<writer, sending, got>>
vars == <<lifecycle, publisher, worker, viewer, io, viewers, mustClose>>

TypeOK ==
    /\ state \in {"stopped", "starting", "running", "stopping", "failed"}
    /\ {accepting, library} \subseteq BOOLEAN
    /\ server \in {"none", "up", "closing"}
    /\ lpc \in {"idle", "start", "install", "clear", "join", "close", "release"}
    /\ victim \subseteq Conns /\ Cardinality(victim) <= 1
    /\ viewers \subseteq Conns /\ todo \subseteq Conns
    /\ generation \in 0..(IF ppc = "entered" THEN MaxFrames - 1 ELSE MaxFrames)
    /\ ppc \in {"idle", "entered", "numbered", "offering"}
    /\ cpc \in [Conns -> {"free", "admitted", "started", "inserted", "captured",
                          "rejected", "open", "closing", "teardown"}]
    /\ mustClose \in [Conns -> BOOLEAN] /\ closing \in [Conns -> BOOLEAN]
    /\ writer \in [Conns -> {"none", "waiting", "writing", "ended"}]
    /\ latest \in [Conns -> 0..MaxFrames] /\ pending \in [Conns -> 0..MaxFrames]
    /\ newest \in [Conns -> 0..MaxFrames] /\ sending \in [Conns -> 0..MaxFrames]
    /\ got \in [Conns -> 0..MaxFrames]

Init ==
    /\ state = "stopped" /\ accepting = FALSE /\ server = "none"
    /\ library = FALSE /\ lpc = "idle" /\ victim = {} /\ viewers = {}
    /\ generation = 0 /\ ppc = "idle" /\ todo = {}
    /\ cpc = [c \in Conns |-> "free"] /\ writer = [c \in Conns |-> "none"]
    /\ mustClose = [c \in Conns |-> FALSE] /\ closing = [c \in Conns |-> FALSE]
    /\ latest = [c \in Conns |-> 0] /\ pending = latest /\ newest = latest
    /\ sending = latest /\ got = latest
-----------------------------------------------------------------------------
(* The owner: start(), stop() and the clean-up of a failed start.           *)

Start ==
    /\ lpc = "idle" /\ state # "running"
    /\ state' = "starting" /\ lpc' = "start"
    /\ UNCHANGED <<accepting, server, library, victim, publisher, worker,
                   viewer, io, viewers, mustClose>>

(* Validation failed, or CivetWeb lacks a feature: nothing was acquired.    *)
StartRefused ==
    /\ lpc = "start"
    /\ state' = "failed" /\ lpc' = "idle"
    /\ UNCHANGED <<accepting, server, library, victim, publisher, worker,
                   viewer, io, viewers, mustClose>>

(* CivetServer listens from its constructor on, before server_ is set.      *)
CreateServer ==
    /\ lpc = "start"
    /\ library' = TRUE /\ server' = "up" /\ lpc' = "install"
    /\ UNCHANGED <<state, accepting, victim, publisher, worker, viewer, io,
                   viewers, mustClose>>

(* A constructor or addHandler throws: cleanupFailedStart runs.  (A server  *)
(* not yet in server_ is closed by its destructor; nobody was accepted.)    *)
StartThrows ==
    /\ lpc \in {"start", "install"}
    /\ library' = TRUE
    /\ accepting' = FALSE /\ lpc' = "clear"
    /\ UNCHANGED <<state, server, victim, publisher, worker, viewer, io,
                   viewers, mustClose>>

Install ==
    /\ lpc = "install"
    /\ accepting' = TRUE /\ state' = "running" /\ lpc' = "idle"
    /\ UNCHANGED <<server, library, victim, publisher, worker, viewer, io,
                   viewers, mustClose>>

Stop ==
    /\ lpc = "idle" /\ state # "stopped"
    /\ state' = "stopping" /\ accepting' = FALSE /\ lpc' = "clear"
    /\ UNCHANGED <<server, library, victim, publisher, worker, viewer, io,
                   viewers, mustClose>>

(* Viewer::stopAndJoin, up to the join. *)
Cancel(c) ==
    /\ closing' = [closing EXCEPT ![c] = TRUE]
    /\ pending' = [pending EXCEPT ![c] = 0]
    /\ UNCHANGED newest

(* stopAllViewers, one round of its loop: erase under viewersMutex_, ...    *)
EraseOne ==
    /\ lpc = "clear"
    /\ \E c \in viewers :
        /\ viewers' = viewers \ {c} /\ victim' = {c}
        /\ Cancel(c)
    /\ lpc' = "join"
    /\ UNCHANGED <<state, accepting, server, library, publisher, worker, io,
                   mustClose>>

(* ... then join outside it. *)
JoinOne ==
    /\ lpc = "join"
    /\ \A c \in victim : writer[c] = "ended"
    /\ writer' = [c \in Conns |-> IF c \in victim THEN "none" ELSE writer[c]]
    /\ victim' = {} /\ lpc' = "clear"
    /\ UNCHANGED <<state, accepting, server, library, publisher, worker,
                   viewer, sending, got, viewers, mustClose>>

SignalWorkers_Not == UNCHANGED server
(* server->close(): mg_stop tells every worker to leave and joins them.     *)
SignalWorkers == server' = IF server = "up" THEN "closing" ELSE server

AllErased ==
    /\ lpc = "clear" /\ viewers = {}
    /\ SignalWorkers
    /\ lpc' = "close"
    /\ UNCHANGED <<state, accepting, library, victim, publisher, worker,
                   viewer, io, viewers, mustClose>>

(* mg_stop returns when every worker has ended. *)
WorkersEnded == \A c \in Conns : cpc[c] = "free"

ServerClosed ==
    /\ lpc = "close" /\ WorkersEnded
    /\ server' = "none" /\ lpc' = "release"
    /\ UNCHANGED <<state, accepting, library, victim, publisher, worker,
                   viewer, io, viewers, mustClose>>

LibraryAfterRelease_Kept == TRUE
LibraryAfterRelease == FALSE

(* The library is released; fail() or stop() sets the final state.          *)
Release ==
    /\ lpc = "release"
    /\ library' = LibraryAfterRelease
    /\ state' = IF state = "starting" THEN "failed" ELSE "stopped"
    /\ lpc' = "idle"
    /\ UNCHANGED <<accepting, server, victim, publisher, worker, viewer, io,
                   viewers, mustClose>>
-----------------------------------------------------------------------------
(* The data thread: publish().                                              *)

Publish ==
    /\ ppc = "idle" /\ state = "running" /\ generation < MaxFrames
    /\ ppc' = "entered"
    /\ UNCHANGED <<lifecycle, generation, todo, worker, viewer, io, viewers,
                   mustClose>>

NumberSnapshot ==
    /\ ppc = "entered"
    /\ generation' = generation + 1 /\ ppc' = "numbered"
    /\ UNCHANGED <<lifecycle, todo, worker, viewer, io, viewers, mustClose>>

CopyViewers ==
    /\ ppc = "numbered"
    /\ todo' = viewers /\ ppc' = "offering"
    /\ UNCHANGED <<lifecycle, generation, worker, viewer, io, viewers, mustClose>>

IsNewer_Always(c, g) == TRUE
IsNewer(c, g) == g > newest[c]

(* writeLoop lets go of Viewer::mutex_ before it writes to the network.     *)
MutexFree(c) == TRUE

(* Viewer::enqueue; a null payload, generation 0, is never newer.           *)
Enqueue(c, g) ==
    /\ MutexFree(c)
    /\ IF ~closing[c] /\ g # 0 /\ IsNewer(c, g)
       THEN /\ newest' = [newest EXCEPT ![c] = g]
            /\ pending' = [pending EXCEPT ![c] = g]
       ELSE UNCHANGED <<newest, pending>>
    /\ UNCHANGED closing

(* The copy holds shared pointers: a Viewer erased meanwhile is closing, or *)
(* its object is no longer reachable from the connection (it left todo).    *)
OfferNext ==
    /\ ppc = "offering"
    /\ \E c \in todo :
        /\ Enqueue(c, generation)
        /\ todo' = todo \ {c}
    /\ UNCHANGED <<lifecycle, generation, ppc, worker, io, viewers, mustClose>>

PublishReturns ==
    /\ ppc = "offering" /\ todo = {}
    /\ ppc' = "idle"
    /\ UNCHANGED <<lifecycle, generation, todo, worker, viewer, io, viewers,
                   mustClose>>
-----------------------------------------------------------------------------
(* The CivetWeb worker of connection c.  A handshake refused by             *)
(* handleConnection (stopping, unauthorized, viewer limit) changes nothing. *)

Handshake(c) ==
    /\ cpc[c] = "free" /\ server = "up"
    /\ accepting /\ Cardinality(viewers) < MaxViewers
    /\ cpc' = [cpc EXCEPT ![c] = "admitted"]
    /\ mustClose' = [mustClose EXCEPT ![c] = FALSE]
    /\ UNCHANGED <<lifecycle, publisher, latest, viewer, io, viewers>>

(* addViewer: a Viewer is made and its writer started, ...                  *)
StartWriter(c) ==
    /\ cpc[c] = "admitted"
    /\ cpc' = [cpc EXCEPT ![c] = "started"]
    /\ writer' = [writer EXCEPT ![c] = "waiting"]
    /\ pending' = [pending EXCEPT ![c] = 0]
    /\ newest' = [newest EXCEPT ![c] = 0]
    /\ closing' = [closing EXCEPT ![c] = FALSE]
    /\ got' = [got EXCEPT ![c] = 0]
    /\ todo' = todo \ {c}
    /\ UNCHANGED <<lifecycle, generation, ppc, latest, sending, viewers, mustClose>>

(* The thread or the object could not be made. *)
StartWriterThrows(c) ==
    /\ cpc[c] = "admitted"
    /\ cpc' = [cpc EXCEPT ![c] = "open"]
    /\ mustClose' = [mustClose EXCEPT ![c] = TRUE]
    /\ UNCHANGED <<lifecycle, publisher, latest, viewer, io, viewers>>

HasPlace_Prechecked == accepting
HasPlace == accepting /\ Cardinality(viewers) < MaxViewers

(* ... inserted if the service still accepts and has room, ...              *)
Insert(c) ==
    /\ cpc[c] = "started" /\ HasPlace
    /\ viewers' = viewers \cup {c}
    /\ cpc' = [cpc EXCEPT ![c] = "inserted"]
    /\ UNCHANGED <<lifecycle, publisher, latest, viewer, io, mustClose>>

(* ... stopped again if not. *)
Reject(c) ==
    /\ cpc[c] = "started" /\ ~HasPlace
    /\ Cancel(c)
    /\ cpc' = [cpc EXCEPT ![c] = "rejected"]
    /\ UNCHANGED <<lifecycle, publisher, latest, io, viewers, mustClose>>

JoinRejected(c) ==
    /\ cpc[c] = "rejected" /\ writer[c] = "ended"
    /\ writer' = [writer EXCEPT ![c] = "none"]
    /\ mustClose' = [mustClose EXCEPT ![c] = TRUE]
    /\ cpc' = [cpc EXCEPT ![c] = "open"]
    /\ UNCHANGED <<lifecycle, publisher, latest, viewer, sending, got, viewers>>

(* The newest snapshot is read after the insertion, so that one published   *)
(* in between is either read here or offered by publish.                    *)
CaptureLatest(c) ==
    /\ cpc[c] = "inserted"
    /\ latest' = [latest EXCEPT ![c] = generation]
    /\ cpc' = [cpc EXCEPT ![c] = "captured"]
    /\ UNCHANGED <<lifecycle, publisher, viewer, io, viewers, mustClose>>

FirstFrame_None(c) == 0
FirstFrame(c) == latest[c]

OfferLatest(c) ==
    /\ cpc[c] = "captured"
    /\ Enqueue(c, FirstFrame(c))
    /\ latest' = [latest EXCEPT ![c] = 0]
    /\ cpc' = [cpc EXCEPT ![c] = "open"]
    /\ UNCHANGED <<lifecycle, publisher, io, viewers, mustClose>>

(* The worker leaves its read loop: the peer closed or sent data, a read    *)
(* failed, the close flag is set or the server stops.  removeViewer erases  *)
(* the viewer, if it is still there.                                        *)
HandleClose(c) ==
    /\ cpc[c] = "open"
    /\ IF c \in viewers
       THEN /\ Cancel(c) /\ viewers' = viewers \ {c}
            /\ cpc' = [cpc EXCEPT ![c] = "closing"]
       ELSE /\ cpc' = [cpc EXCEPT ![c] = "teardown"]
            /\ UNCHANGED <<viewer, viewers>>
    /\ UNCHANGED <<lifecycle, publisher, latest, io, mustClose>>

WriterEnded_NotAwaited(c) == TRUE
WriterEnded(c) == writer[c] = "ended"

JoinRemoved(c) ==
    /\ cpc[c] = "closing" /\ WriterEnded(c)
    /\ writer' = [writer EXCEPT ![c] = IF @ = "ended" THEN "none" ELSE @]
    /\ cpc' = [cpc EXCEPT ![c] = "teardown"]
    /\ UNCHANGED <<lifecycle, publisher, latest, viewer, sending, got, viewers,
                   mustClose>>

(* CivetWeb closes the socket; the object serves the next client.           *)
Teardown(c) ==
    /\ cpc[c] = "teardown"
    /\ cpc' = [cpc EXCEPT ![c] = "free"]
    /\ UNCHANGED <<lifecycle, publisher, latest, viewer, io, viewers, mustClose>>
-----------------------------------------------------------------------------
(* The writer of the viewer on c: writeLoop().                              *)

WriterLeaves(c) ==
    /\ writer[c] = "waiting" /\ closing[c]
    /\ writer' = [writer EXCEPT ![c] = "ended"]
    /\ UNCHANGED <<lifecycle, publisher, worker, viewer, sending, got, viewers,
                   mustClose>>

WriterTakes(c) ==
    /\ writer[c] = "waiting" /\ ~closing[c] /\ pending[c] # 0
    /\ sending' = [sending EXCEPT ![c] = pending[c]]
    /\ pending' = [pending EXCEPT ![c] = 0]
    /\ writer' = [writer EXCEPT ![c] = "writing"]
    /\ UNCHANGED <<lifecycle, publisher, worker, newest, closing, got, viewers,
                   mustClose>>


Written(c) ==
    /\ writer[c] = "writing"
    /\ got' = [got EXCEPT ![c] = sending[c]]
    /\ sending' = [sending EXCEPT ![c] = 0]
    /\ writer' = [writer EXCEPT ![c] = "waiting"]
    /\ UNCHANGED <<lifecycle, publisher, worker, viewer, viewers, mustClose>>

FlagClose(c) == mustClose' = [mustClose EXCEPT ![c] = TRUE]

WriteFails(c) ==
    /\ writer[c] = "writing"
    /\ FlagClose(c)
    /\ Cancel(c)
    /\ sending' = [sending EXCEPT ![c] = 0]
    /\ writer' = [writer EXCEPT ![c] = "ended"]
    /\ UNCHANGED <<lifecycle, publisher, worker, got, viewers>>
-----------------------------------------------------------------------------
Owner ==
    \/ Start \/ StartRefused \/ CreateServer \/ StartThrows \/ Install
    \/ Stop \/ EraseOne \/ JoinOne \/ AllErased \/ ServerClosed \/ Release

Publisher ==
    Publish \/ NumberSnapshot \/ CopyViewers \/ OfferNext \/ PublishReturns

AddViewer(c) ==
    \/ StartWriter(c) \/ StartWriterThrows(c) \/ Insert(c) \/ Reject(c)
    \/ JoinRejected(c) \/ CaptureLatest(c) \/ OfferLatest(c)

Worker(c) ==
    \/ Handshake(c) \/ AddViewer(c) \/ HandleClose(c) \/ JoinRemoved(c)
    \/ Teardown(c)

Writer(c) == WriterLeaves(c) \/ WriterTakes(c) \/ Written(c) \/ WriteFails(c)

Next ==
    \/ Owner
    \/ Publisher
    \/ \E c \in Conns : Worker(c) \/ Writer(c)

Spec == Init /\ [][Next]_vars

(* A write is bounded by websocket_timeout_ms; a worker notices the close   *)
(* flag, the server's stop flag and its peer's silence within its own       *)
(* timeouts.  Nobody has to call stop(), and no client has to come.         *)
LeavesOnDemand(c) ==
    (mustClose[c] \/ server = "closing") /\ HandleClose(c)

PublisherFairness == WF_vars(Publisher /\ ppc # "idle")

Fairness ==
    /\ PublisherFairness
    /\ WF_vars(Owner /\ lpc # "idle")
    /\ \A c \in Conns :
        /\ WF_vars(AddViewer(c) \/ JoinRemoved(c) \/ Teardown(c))
        /\ WF_vars(LeavesOnDemand(c))
        /\ WF_vars(Writer(c))

FairSpec == Spec /\ Fairness
-----------------------------------------------------------------------------
(* The limit holds although two handshakes may pass the early check at once.*)
ViewersBounded == Cardinality(viewers) <= MaxViewers

(* Once stop() or a failed start is done nothing of the server remains: no  *)
(* viewer, no writer thread, no worker inside a callback, no library.       *)
NothingRemains ==
    (lpc = "idle" /\ state \in {"stopped", "failed"}) =>
        /\ ~accepting /\ viewers = {} /\ server = "none" /\ ~library
        /\ \A c \in Conns : writer[c] = "none" /\ cpc[c] = "free"

(* A frame published while a viewer joins is not missed: when neither       *)
(* publish nor addViewer is at work, every viewer was offered the newest.   *)
JoinMissesNothing ==
    ppc = "idle" =>
        \A c \in viewers :
            (cpc[c] = "open" /\ ~closing[c]) => newest[c] = generation

(* The frame a viewer was offered last is never lost, it waits, is being    *)
(* written or was written, until the viewer closes.                         *)
NewestNotLost ==
    \A c \in viewers :
        ~closing[c] => newest[c] \in {pending[c], sending[c], got[c]}

(* Each viewer is up to date as far as its writer can be.                   *)
ViewersUpToDate == JoinMissesNothing /\ NewestNotLost

(* A viewer receives each snapshot at most once, and newer ones only.       *)
FramesIncrease ==
    [][\A c \in Conns : Written(c) => sending[c] > got[c]]_vars

(* The writer uses the connection only while its worker keeps it: the       *)
(* worker leaves handleClose after the writer ended, except for the one     *)
(* viewer stop() has erased and waits for; and even then a new client of    *)
(* the same connection object never meets the writer of the last one.       *)
WriterOutlivedByConnection ==
    \A c \in Conns :
        /\ cpc[c] = "admitted" => writer[c] = "none"
        /\ cpc[c] \in {"free", "teardown"} => writer[c] = "none" \/ c \in victim

(* A viewer is given the newest snapshot, and never one it has had.         *)
ViewersServed == []ViewersUpToDate /\ FramesIncrease

(* Writers, workers and the library are gone when those who use them are.   *)
NothingOutlives == NothingRemains /\ WriterOutlivedByConnection

(* stop(), and a start that fails, come to an end.                          *)
StopEnds == (lpc = "clear") ~> (lpc = "idle")

(* A viewer whose write failed leaves its place.                            *)
FailedLeaves ==
    \A c \in Conns :
        (c \in viewers /\ closing[c]) ~> ~(c \in viewers /\ closing[c])

(* Neither stop() nor the place of a failed viewer is held up for ever.     *)
ServiceProgress == StopEnds /\ FailedLeaves
=============================================================================
