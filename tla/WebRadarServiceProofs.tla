----------------------- MODULE WebRadarServiceProofs ------------------------
(***************************************************************************)
(* Theorems about WebRadarService for any set of connections, any viewer    *)
(* limit and any number of snapshots.                                       *)
(***************************************************************************)
EXTENDS WebRadarService, TLAPS, FiniteSetTheorems

(* The lifecycle: connections are accepted in the running state only, and   *)
(* before the server is made and after it is gone every worker is idle.     *)
AllFree == viewers = {} /\ \A c \in Conns : cpc[c] = "free"
Lifecycle ==
    /\ accepting => lpc = "idle" /\ state = "running"
    /\ victim # {} => lpc = "join"
    /\ lpc \in {"start", "install"} => state = "starting" /\ AllFree
    /\ lpc = "start" => server = "none" /\ ~library
    /\ lpc \in {"clear", "join", "close", "release"} => state \in {"starting", "stopping"}
    /\ lpc \in {"close", "release"} => viewers = {}
    /\ lpc = "release" => server = "none" /\ AllFree
    /\ lpc = "idle" => state \in {"running", "stopped", "failed"}
    /\ lpc = "idle" /\ state # "running" =>
          AllFree /\ server = "none" /\ ~library

(* A writer thread exists exactly while somebody is bound to join it: the   *)
(* table, stop(), or the worker in addViewer or removeViewer.               *)
Joining(c) == cpc[c] \in {"started", "rejected", "closing"}
WriterOwned(c) ==
    /\ writer[c] # "none" <=> (Joining(c) \/ c \in viewers \/ c \in victim)
    /\ c \in viewers => cpc[c] \in {"inserted", "captured", "open"} /\ c \notin victim
    /\ c \in victim => cpc[c] \in {"inserted", "captured", "open", "teardown", "free"}
Owned == \A c \in Conns : WriterOwned(c)

(* The frames of one viewer. *)
FramesOf(c) ==
    /\ newest[c] <= generation /\ latest[c] <= generation
    /\ pending[c] # 0 => pending[c] = newest[c] /\ pending[c] > got[c] /\ pending[c] > sending[c]
    /\ writer[c] = "writing" => sending[c] > got[c]
    /\ writer[c] # "writing" => sending[c] = 0
    /\ sending[c] <= newest[c] /\ got[c] <= newest[c]
    /\ ~closing[c] => newest[c] \in {pending[c], sending[c], got[c]}
Frames == \A c \in Conns : FramesOf(c)

(* A viewer that does not know the newest snapshot is about to be told: by  *)
(* addViewer, which has yet to read it or to offer what it read, or by      *)
(* publish, which has yet to copy the viewers or to offer to this one.      *)
Told(c) ==
    \/ newest[c] = generation
    \/ cpc[c] = "inserted"
    \/ cpc[c] = "captured" /\ latest[c] = generation
    \/ ppc = "numbered"
    \/ ppc = "offering" /\ c \in todo
AllTold == \A c \in viewers : ~closing[c] => Told(c)

LEMMA InitHolds == Init => TypeOK /\ Lifecycle /\ Owned /\ Frames /\ AllTold /\ ViewersBounded
<1> SUFFICES ASSUME Init
             PROVE  TypeOK /\ Lifecycle /\ Owned /\ Frames /\ AllTold /\ ViewersBounded
  OBVIOUS
<1> USE ServiceAssumption
<1>1. Cardinality({}) = 0 /\ 0 \in 0..MaxFrames
  BY FS_EmptySet
<1>2. latest \in [Conns -> 0..MaxFrames] /\ generation \in 0..MaxFrames /\ ViewersBounded
  BY <1>1 DEF Init, ViewersBounded
<1>t. TypeOK
  <2>1. victim \subseteq Conns /\ Cardinality(victim) <= 1
    BY <1>1 DEF Init
  <2>2. {accepting, library} \subseteq BOOLEAN /\ state = "stopped"
    BY DEF Init
  <2>3. generation \in 0..(IF ppc = "entered" THEN MaxFrames - 1 ELSE MaxFrames)
    BY <1>2 DEF Init
  <2>4. pending = latest /\ newest = latest /\ sending = latest /\ got = latest
    BY DEF Init
  <2> QED  BY <1>2, <2>1, <2>2, <2>3, <2>4 DEF Init, TypeOK
<1>3. Lifecycle /\ Owned /\ Frames /\ AllTold
  BY DEF Init, Lifecycle, AllFree, Owned, WriterOwned, Joining, Frames, FramesOf, AllTold
<1> QED  BY <1>2, <1>t, <1>3

LEMMA TypeStep == TypeOK /\ [Next]_vars => TypeOK'
<1> DEFINE Goal == TypeOK'
<1> SUFFICES ASSUME TypeOK, [Next]_vars PROVE Goal
  OBVIOUS
<1> USE DEF lifecycle, publisher, worker, viewer, io, TypeOK, Goal
<1> USE ServiceAssumption
<1>1. CASE Start
  BY <1>1 DEF Start
<1>2. CASE StartRefused
  BY <1>2 DEF StartRefused
<1>3. CASE CreateServer
  BY <1>3 DEF CreateServer
<1>4. CASE StartThrows
  BY <1>4 DEF StartThrows
<1>5. CASE Install
  BY <1>5 DEF Install
<1>6. CASE Stop
  BY <1>6 DEF Stop
<1>7. CASE EraseOne
  <2>1. PICK c \in viewers : viewers' = viewers \ {c} /\ victim' = {c} /\ Cancel(c)
    BY <1>7 DEF EraseOne
  <2>2. Cardinality({c}) = 1
    BY FS_Singleton
  <2>3. victim' \subseteq Conns /\ Cardinality(victim') <= 1
    BY <2>1, <2>2
  <2> QED  BY <1>7, <2>1, <2>3 DEF EraseOne, Cancel
<1>8. CASE JoinOne
  <2>1. Cardinality({}) = 0
    BY FS_EmptySet
  <2>2. victim' \subseteq Conns /\ Cardinality(victim') <= 1
    BY <1>8, <2>1 DEF JoinOne
  <2> QED  BY <1>8, <2>2 DEF JoinOne
<1>9. CASE AllErased
  BY <1>9 DEF AllErased, SignalWorkers
<1>10. CASE ServerClosed
  BY <1>10 DEF ServerClosed, WorkersEnded
<1>11. CASE Release
  BY <1>11 DEF Release, LibraryAfterRelease
<1>12. CASE Publish
  BY <1>12 DEF Publish
<1>13. CASE NumberSnapshot
  BY <1>13 DEF NumberSnapshot
<1>14. CASE CopyViewers
  BY <1>14 DEF CopyViewers
<1>15. CASE OfferNext
  BY <1>15 DEF OfferNext, Enqueue, MutexFree, IsNewer
<1>16. CASE PublishReturns
  BY <1>16 DEF PublishReturns
<1>17. ASSUME NEW c \in Conns, Handshake(c) PROVE Goal
  BY <1>17 DEF Handshake
<1>18. ASSUME NEW c \in Conns, StartWriter(c) PROVE Goal
  BY <1>18 DEF StartWriter
<1>19. ASSUME NEW c \in Conns, StartWriterThrows(c) PROVE Goal
  BY <1>19 DEF StartWriterThrows
<1>20. ASSUME NEW c \in Conns, Insert(c) PROVE Goal
  BY <1>20 DEF Insert, HasPlace
<1>21. ASSUME NEW c \in Conns, Reject(c) PROVE Goal
  BY <1>21 DEF Reject, HasPlace, Cancel
<1>22. ASSUME NEW c \in Conns, JoinRejected(c) PROVE Goal
  BY <1>22 DEF JoinRejected
<1>23. ASSUME NEW c \in Conns, CaptureLatest(c) PROVE Goal
  BY <1>23 DEF CaptureLatest
<1>24. ASSUME NEW c \in Conns, OfferLatest(c) PROVE Goal
  BY <1>24 DEF OfferLatest, Enqueue, MutexFree, IsNewer, FirstFrame
<1>25. ASSUME NEW c \in Conns, HandleClose(c) PROVE Goal
  <2>0. 0 \in 0..MaxFrames
    OBVIOUS
  <2>1. CASE c \in viewers
    <3>0. Cancel(c)
      BY <1>25, <2>1 DEF HandleClose
    <3>1. closing' \in [Conns -> BOOLEAN] /\ pending' \in [Conns -> 0..MaxFrames]
      BY <2>0, <3>0 DEF Cancel
    <3>2. cpc' = [cpc EXCEPT ![c] = "closing"] /\ viewers' = viewers \ {c}
      BY <1>25, <2>1 DEF HandleClose, Cancel
    <3>3. UNCHANGED <<lifecycle, publisher, latest, io, newest, mustClose>>
      BY <1>25, <2>1 DEF HandleClose, Cancel
    <3> QED  BY <3>1, <3>2, <3>3
  <2>2. CASE c \notin viewers
    BY <1>25, <2>2 DEF HandleClose, Cancel
  <2> QED  BY <2>1, <2>2
<1>26. ASSUME NEW c \in Conns, JoinRemoved(c) PROVE Goal
  BY <1>26 DEF JoinRemoved, WriterEnded
<1>27. ASSUME NEW c \in Conns, Teardown(c) PROVE Goal
  BY <1>27 DEF Teardown
<1>28. ASSUME NEW c \in Conns, WriterLeaves(c) PROVE Goal
  BY <1>28 DEF WriterLeaves
<1>29. ASSUME NEW c \in Conns, WriterTakes(c) PROVE Goal
  BY <1>29 DEF WriterTakes
<1>30. ASSUME NEW c \in Conns, Written(c) PROVE Goal
  BY <1>30 DEF Written
<1>31. ASSUME NEW c \in Conns, WriteFails(c) PROVE Goal
  BY <1>31 DEF WriteFails, FlagClose, Cancel
<1>u. CASE UNCHANGED vars
  BY <1>u DEF vars
<1> QED  BY <1>1, <1>2, <1>3, <1>4, <1>5, <1>6, <1>7, <1>8, <1>9, <1>10, <1>11, <1>12, <1>13,
  <1>14, <1>15, <1>16, <1>17, <1>18, <1>19, <1>20, <1>21, <1>22, <1>23, <1>24, <1>25, <1>26,
    <1>27, <1>28, <1>29, <1>30, <1>31, <1>u
        DEF Next, Owner, Publisher, Worker, AddViewer, Writer

LEMMA LifecycleStep == TypeOK /\ Lifecycle /\ [Next]_vars => Lifecycle'
<1> DEFINE Goal == Lifecycle'
<1> SUFFICES ASSUME TypeOK, Lifecycle, [Next]_vars PROVE Goal
  OBVIOUS
<1> USE DEF lifecycle, publisher, worker, viewer, io, TypeOK, Lifecycle, AllFree, Goal
<1>1. CASE Start
  BY <1>1 DEF Start
<1>2. CASE StartRefused
  BY <1>2 DEF StartRefused
<1>3. CASE CreateServer
  BY <1>3 DEF CreateServer
<1>4. CASE StartThrows
  BY <1>4 DEF StartThrows
<1>5. CASE Install
  BY <1>5 DEF Install
<1>6. CASE Stop
  BY <1>6 DEF Stop
<1>7. CASE EraseOne
  BY <1>7 DEF EraseOne, Cancel
<1>8. CASE JoinOne
  BY <1>8 DEF JoinOne
<1>9. CASE AllErased
  BY <1>9 DEF AllErased, SignalWorkers
<1>10. CASE ServerClosed
  BY <1>10 DEF ServerClosed, WorkersEnded
<1>11. CASE Release
  BY <1>11 DEF Release, LibraryAfterRelease
<1>12. CASE Publish
  BY <1>12 DEF Publish
<1>13. CASE NumberSnapshot
  BY <1>13 DEF NumberSnapshot
<1>14. CASE CopyViewers
  BY <1>14 DEF CopyViewers
<1>15. CASE OfferNext
  BY <1>15 DEF OfferNext, Enqueue, MutexFree, IsNewer
<1>16. CASE PublishReturns
  BY <1>16 DEF PublishReturns
<1>17. ASSUME NEW c \in Conns, Handshake(c) PROVE Goal
  BY <1>17 DEF Handshake
<1>18. ASSUME NEW c \in Conns, StartWriter(c) PROVE Goal
  BY <1>18 DEF StartWriter
<1>19. ASSUME NEW c \in Conns, StartWriterThrows(c) PROVE Goal
  BY <1>19 DEF StartWriterThrows
<1>20. ASSUME NEW c \in Conns, Insert(c) PROVE Goal
  BY <1>20 DEF Insert, HasPlace
<1>21. ASSUME NEW c \in Conns, Reject(c) PROVE Goal
  BY <1>21 DEF Reject, HasPlace, Cancel
<1>22. ASSUME NEW c \in Conns, JoinRejected(c) PROVE Goal
  BY <1>22 DEF JoinRejected
<1>23. ASSUME NEW c \in Conns, CaptureLatest(c) PROVE Goal
  BY <1>23 DEF CaptureLatest
<1>24. ASSUME NEW c \in Conns, OfferLatest(c) PROVE Goal
  BY <1>24 DEF OfferLatest, Enqueue, MutexFree, IsNewer, FirstFrame
<1>25. ASSUME NEW c \in Conns, HandleClose(c) PROVE Goal
  <2>1. cpc[c] # "free" /\ ~AllFree /\ UNCHANGED lifecycle /\ viewers' \subseteq viewers
    BY <1>25 DEF HandleClose, Cancel
  <2> QED  BY <2>1
<1>26. ASSUME NEW c \in Conns, JoinRemoved(c) PROVE Goal
  BY <1>26 DEF JoinRemoved, WriterEnded
<1>27. ASSUME NEW c \in Conns, Teardown(c) PROVE Goal
  BY <1>27 DEF Teardown
<1>28. ASSUME NEW c \in Conns, WriterLeaves(c) PROVE Goal
  BY <1>28 DEF WriterLeaves
<1>29. ASSUME NEW c \in Conns, WriterTakes(c) PROVE Goal
  BY <1>29 DEF WriterTakes
<1>30. ASSUME NEW c \in Conns, Written(c) PROVE Goal
  BY <1>30 DEF Written
<1>31. ASSUME NEW c \in Conns, WriteFails(c) PROVE Goal
  BY <1>31 DEF WriteFails, FlagClose, Cancel
<1>u. CASE UNCHANGED vars
  BY <1>u DEF vars
<1> QED  BY <1>1, <1>2, <1>3, <1>4, <1>5, <1>6, <1>7, <1>8, <1>9, <1>10, <1>11, <1>12, <1>13,
  <1>14, <1>15, <1>16, <1>17, <1>18, <1>19, <1>20, <1>21, <1>22, <1>23, <1>24, <1>25, <1>26,
    <1>27, <1>28, <1>29, <1>30, <1>31, <1>u
        DEF Next, Owner, Publisher, Worker, AddViewer, Writer

LEMMA OwnedStep == TypeOK /\ Lifecycle /\ Owned /\ [Next]_vars => Owned'
<1> DEFINE Goal == Owned'
<1> SUFFICES ASSUME TypeOK, Lifecycle, Owned, [Next]_vars PROVE Goal
  OBVIOUS
<1> USE DEF lifecycle, publisher, worker, viewer, io, TypeOK, Owned, WriterOwned, Joining, Goal
<1>1. CASE Start
  BY <1>1 DEF Start
<1>2. CASE StartRefused
  BY <1>2 DEF StartRefused
<1>3. CASE CreateServer
  BY <1>3 DEF CreateServer
<1>4. CASE StartThrows
  BY <1>4 DEF StartThrows
<1>5. CASE Install
  BY <1>5 DEF Install
<1>6. CASE Stop
  BY <1>6 DEF Stop
<1>7. CASE EraseOne
  BY <1>7 DEF EraseOne, Cancel, Lifecycle
<1>8. CASE JoinOne
  BY <1>8 DEF JoinOne
<1>9. CASE AllErased
  BY <1>9 DEF AllErased, SignalWorkers
<1>10. CASE ServerClosed
  BY <1>10 DEF ServerClosed, WorkersEnded
<1>11. CASE Release
  BY <1>11 DEF Release, LibraryAfterRelease
<1>12. CASE Publish
  BY <1>12 DEF Publish
<1>13. CASE NumberSnapshot
  BY <1>13 DEF NumberSnapshot
<1>14. CASE CopyViewers
  BY <1>14 DEF CopyViewers
<1>15. CASE OfferNext
  BY <1>15 DEF OfferNext, Enqueue, MutexFree, IsNewer
<1>16. CASE PublishReturns
  BY <1>16 DEF PublishReturns
<1>17. ASSUME NEW c \in Conns, Handshake(c) PROVE Goal
  BY <1>17 DEF Handshake, Lifecycle
<1>18. ASSUME NEW c \in Conns, StartWriter(c) PROVE Goal
  BY <1>18 DEF StartWriter
<1>19. ASSUME NEW c \in Conns, StartWriterThrows(c) PROVE Goal
  BY <1>19 DEF StartWriterThrows
<1>20. ASSUME NEW c \in Conns, Insert(c) PROVE Goal
  BY <1>20 DEF Insert, HasPlace
<1>21. ASSUME NEW c \in Conns, Reject(c) PROVE Goal
  BY <1>21 DEF Reject, HasPlace, Cancel
<1>22. ASSUME NEW c \in Conns, JoinRejected(c) PROVE Goal
  BY <1>22 DEF JoinRejected
<1>23. ASSUME NEW c \in Conns, CaptureLatest(c) PROVE Goal
  BY <1>23 DEF CaptureLatest
<1>24. ASSUME NEW c \in Conns, OfferLatest(c) PROVE Goal
  BY <1>24 DEF OfferLatest, Enqueue, MutexFree, IsNewer, FirstFrame
<1>25. ASSUME NEW c \in Conns, HandleClose(c) PROVE Goal
  BY <1>25 DEF HandleClose, Cancel
<1>26. ASSUME NEW c \in Conns, JoinRemoved(c) PROVE Goal
  BY <1>26 DEF JoinRemoved, WriterEnded
<1>27. ASSUME NEW c \in Conns, Teardown(c) PROVE Goal
  BY <1>27 DEF Teardown
<1>28. ASSUME NEW c \in Conns, WriterLeaves(c) PROVE Goal
  BY <1>28 DEF WriterLeaves
<1>29. ASSUME NEW c \in Conns, WriterTakes(c) PROVE Goal
  BY <1>29 DEF WriterTakes
<1>30. ASSUME NEW c \in Conns, Written(c) PROVE Goal
  BY <1>30 DEF Written
<1>31. ASSUME NEW c \in Conns, WriteFails(c) PROVE Goal
  BY <1>31 DEF WriteFails, FlagClose, Cancel
<1>u. CASE UNCHANGED vars
  BY <1>u DEF vars
<1> QED  BY <1>1, <1>2, <1>3, <1>4, <1>5, <1>6, <1>7, <1>8, <1>9, <1>10, <1>11, <1>12, <1>13,
  <1>14, <1>15, <1>16, <1>17, <1>18, <1>19, <1>20, <1>21, <1>22, <1>23, <1>24, <1>25, <1>26,
    <1>27, <1>28, <1>29, <1>30, <1>31, <1>u
        DEF Next, Owner, Publisher, Worker, AddViewer, Writer

LEMMA FramesStep == TypeOK /\ Owned /\ Frames /\ [Next]_vars => Frames'
<1> DEFINE Goal == Frames'
<1> SUFFICES ASSUME TypeOK, Owned, Frames, [Next]_vars PROVE Goal
  OBVIOUS
<1> USE DEF lifecycle, publisher, worker, viewer, io, TypeOK, Frames, FramesOf, Goal
<1>1. CASE Start
  BY <1>1 DEF Start
<1>2. CASE StartRefused
  BY <1>2 DEF StartRefused
<1>3. CASE CreateServer
  BY <1>3 DEF CreateServer
<1>4. CASE StartThrows
  BY <1>4 DEF StartThrows
<1>5. CASE Install
  BY <1>5 DEF Install
<1>6. CASE Stop
  BY <1>6 DEF Stop
<1>7. CASE EraseOne
  BY <1>7 DEF EraseOne, Cancel
<1>8. CASE JoinOne
  BY <1>8 DEF JoinOne
<1>9. CASE AllErased
  BY <1>9 DEF AllErased, SignalWorkers
<1>10. CASE ServerClosed
  BY <1>10 DEF ServerClosed, WorkersEnded
<1>11. CASE Release
  BY <1>11 DEF Release, LibraryAfterRelease
<1>12. CASE Publish
  BY <1>12 DEF Publish
<1>13. CASE NumberSnapshot
  BY <1>13 DEF NumberSnapshot
<1>14. CASE CopyViewers
  BY <1>14 DEF CopyViewers
<1>15. CASE OfferNext
  BY <1>15 DEF OfferNext, Enqueue, MutexFree, IsNewer
<1>16. CASE PublishReturns
  BY <1>16 DEF PublishReturns
<1>17. ASSUME NEW c \in Conns, Handshake(c) PROVE Goal
  BY <1>17 DEF Handshake
<1>18. ASSUME NEW c \in Conns, StartWriter(c) PROVE Goal
  <2>1. sending[c] = 0 /\ writer[c] = "none"
    BY <1>18 DEF StartWriter, Owned, WriterOwned, Joining
  <2> QED  BY <1>18, <2>1 DEF StartWriter
<1>19. ASSUME NEW c \in Conns, StartWriterThrows(c) PROVE Goal
  BY <1>19 DEF StartWriterThrows
<1>20. ASSUME NEW c \in Conns, Insert(c) PROVE Goal
  BY <1>20 DEF Insert, HasPlace
<1>21. ASSUME NEW c \in Conns, Reject(c) PROVE Goal
  BY <1>21 DEF Reject, HasPlace, Cancel
<1>22. ASSUME NEW c \in Conns, JoinRejected(c) PROVE Goal
  BY <1>22 DEF JoinRejected
<1>23. ASSUME NEW c \in Conns, CaptureLatest(c) PROVE Goal
  BY <1>23 DEF CaptureLatest
<1>24. ASSUME NEW c \in Conns, OfferLatest(c) PROVE Goal
  BY <1>24 DEF OfferLatest, Enqueue, MutexFree, IsNewer, FirstFrame
<1>25. ASSUME NEW c \in Conns, HandleClose(c) PROVE Goal
  BY <1>25 DEF HandleClose, Cancel
<1>26. ASSUME NEW c \in Conns, JoinRemoved(c) PROVE Goal
  BY <1>26 DEF JoinRemoved, WriterEnded
<1>27. ASSUME NEW c \in Conns, Teardown(c) PROVE Goal
  BY <1>27 DEF Teardown
<1>28. ASSUME NEW c \in Conns, WriterLeaves(c) PROVE Goal
  BY <1>28 DEF WriterLeaves
<1>29. ASSUME NEW c \in Conns, WriterTakes(c) PROVE Goal
  BY <1>29 DEF WriterTakes
<1>30. ASSUME NEW c \in Conns, Written(c) PROVE Goal
  BY <1>30 DEF Written
<1>31. ASSUME NEW c \in Conns, WriteFails(c) PROVE Goal
  BY <1>31 DEF WriteFails, FlagClose, Cancel
<1>u. CASE UNCHANGED vars
  BY <1>u DEF vars
<1> QED  BY <1>1, <1>2, <1>3, <1>4, <1>5, <1>6, <1>7, <1>8, <1>9, <1>10, <1>11, <1>12, <1>13,
  <1>14, <1>15, <1>16, <1>17, <1>18, <1>19, <1>20, <1>21, <1>22, <1>23, <1>24, <1>25, <1>26,
    <1>27, <1>28, <1>29, <1>30, <1>31, <1>u
        DEF Next, Owner, Publisher, Worker, AddViewer, Writer

LEMMA ToldStep == TypeOK /\ Owned /\ Frames /\ AllTold /\ [Next]_vars => AllTold'
<1> DEFINE Goal == AllTold'
<1> SUFFICES ASSUME TypeOK, Owned, Frames, AllTold, [Next]_vars PROVE Goal
  OBVIOUS
<1> USE DEF lifecycle, publisher, worker, viewer, io, TypeOK, AllTold, Told, Goal
<1>1. CASE Start
  BY <1>1 DEF Start
<1>2. CASE StartRefused
  BY <1>2 DEF StartRefused
<1>3. CASE CreateServer
  BY <1>3 DEF CreateServer
<1>4. CASE StartThrows
  BY <1>4 DEF StartThrows
<1>5. CASE Install
  BY <1>5 DEF Install
<1>6. CASE Stop
  BY <1>6 DEF Stop
<1>7. CASE EraseOne
  BY <1>7 DEF EraseOne, Cancel
<1>8. CASE JoinOne
  BY <1>8 DEF JoinOne
<1>9. CASE AllErased
  BY <1>9 DEF AllErased, SignalWorkers
<1>10. CASE ServerClosed
  BY <1>10 DEF ServerClosed, WorkersEnded
<1>11. CASE Release
  BY <1>11 DEF Release, LibraryAfterRelease
<1>12. CASE Publish
  BY <1>12 DEF Publish
<1>13. CASE NumberSnapshot
  BY <1>13 DEF NumberSnapshot
<1>14. CASE CopyViewers
  BY <1>14 DEF CopyViewers
<1>15. CASE OfferNext
  BY <1>15 DEF OfferNext, Enqueue, MutexFree, IsNewer, Frames, FramesOf
<1>16. CASE PublishReturns
  BY <1>16 DEF PublishReturns
<1>17. ASSUME NEW c \in Conns, Handshake(c) PROVE Goal
  BY <1>17 DEF Handshake
<1>18. ASSUME NEW c \in Conns, StartWriter(c) PROVE Goal
  BY <1>18 DEF StartWriter, Owned, WriterOwned
<1>19. ASSUME NEW c \in Conns, StartWriterThrows(c) PROVE Goal
  BY <1>19 DEF StartWriterThrows
<1>20. ASSUME NEW c \in Conns, Insert(c) PROVE Goal
  BY <1>20 DEF Insert, HasPlace
<1>21. ASSUME NEW c \in Conns, Reject(c) PROVE Goal
  BY <1>21 DEF Reject, HasPlace, Cancel
<1>22. ASSUME NEW c \in Conns, JoinRejected(c) PROVE Goal
  BY <1>22 DEF JoinRejected
<1>23. ASSUME NEW c \in Conns, CaptureLatest(c) PROVE Goal
  BY <1>23 DEF CaptureLatest
<1>24. ASSUME NEW c \in Conns, OfferLatest(c) PROVE Goal
  BY <1>24 DEF OfferLatest, Enqueue, MutexFree, IsNewer, FirstFrame, Frames, FramesOf
<1>25. ASSUME NEW c \in Conns, HandleClose(c) PROVE Goal
  BY <1>25 DEF HandleClose, Cancel
<1>26. ASSUME NEW c \in Conns, JoinRemoved(c) PROVE Goal
  BY <1>26 DEF JoinRemoved, WriterEnded
<1>27. ASSUME NEW c \in Conns, Teardown(c) PROVE Goal
  BY <1>27 DEF Teardown
<1>28. ASSUME NEW c \in Conns, WriterLeaves(c) PROVE Goal
  BY <1>28 DEF WriterLeaves
<1>29. ASSUME NEW c \in Conns, WriterTakes(c) PROVE Goal
  BY <1>29 DEF WriterTakes
<1>30. ASSUME NEW c \in Conns, Written(c) PROVE Goal
  BY <1>30 DEF Written
<1>31. ASSUME NEW c \in Conns, WriteFails(c) PROVE Goal
  BY <1>31 DEF WriteFails, FlagClose, Cancel
<1>u. CASE UNCHANGED vars
  BY <1>u DEF vars
<1> QED  BY <1>1, <1>2, <1>3, <1>4, <1>5, <1>6, <1>7, <1>8, <1>9, <1>10, <1>11, <1>12, <1>13,
  <1>14, <1>15, <1>16, <1>17, <1>18, <1>19, <1>20, <1>21, <1>22, <1>23, <1>24, <1>25, <1>26,
    <1>27, <1>28, <1>29, <1>30, <1>31, <1>u
        DEF Next, Owner, Publisher, Worker, AddViewer, Writer

LEMMA BoundStep == TypeOK /\ ViewersBounded /\ [Next]_vars => ViewersBounded'
<1> SUFFICES ASSUME TypeOK, ViewersBounded, [Next]_vars PROVE ViewersBounded'
  OBVIOUS
<1>1. IsFiniteSet(viewers) /\ Cardinality(viewers) \in Nat /\ MaxViewers \in Nat
  BY ServiceAssumption, FS_Subset, FS_CardinalityType DEF TypeOK
<1>2. CASE viewers' \subseteq viewers
  <2>1. Cardinality(viewers') <= Cardinality(viewers) /\ Cardinality(viewers') \in Nat
    BY <1>1, <1>2, FS_Subset, FS_CardinalityType
  <2> QED  BY <1>1, <2>1 DEF ViewersBounded
<1>3. ASSUME NEW c \in Conns, Insert(c) PROVE ViewersBounded'
  <2>1. Cardinality(viewers) < MaxViewers /\ viewers' = viewers \cup {c}
    BY <1>3 DEF Insert, HasPlace
  <2>2. CASE c \in viewers
    BY <2>1, <2>2 , <1>2
  <2>3. CASE c \notin viewers
    <3>1. Cardinality(viewers \cup {c}) = Cardinality(viewers) + 1
      BY <1>1, <2>3, FS_AddElement
    <3> QED  BY <1>1, <2>1, <3>1 DEF ViewersBounded
  <2> QED  BY <2>2, <2>3
<1>4. (\E c \in Conns : Insert(c)) \/ viewers' \subseteq viewers
  <2>1. CASE Owner
    BY <2>1 DEF Owner, Start, StartRefused, CreateServer, StartThrows, Install, Stop,
       EraseOne, JoinOne, AllErased, ServerClosed, Release
  <2>2. CASE Publisher
    BY <2>2 DEF Publisher, Publish, NumberSnapshot, CopyViewers, OfferNext, PublishReturns
  <2>3. ASSUME NEW c \in Conns, Worker(c) \/ Writer(c)
        PROVE  Insert(c) \/ viewers' \subseteq viewers
    BY <2>3 DEF Worker, AddViewer, Writer, Handshake, StartWriter, StartWriterThrows, Reject,
       JoinRejected, CaptureLatest, OfferLatest, HandleClose, JoinRemoved, Teardown,
       WriterLeaves, WriterTakes, Written, WriteFails
  <2>4. CASE UNCHANGED vars
    BY <2>4 DEF vars
  <2> QED  BY <2>1, <2>2, <2>3, <2>4 DEF Next
<1> QED  BY <1>2, <1>3, <1>4

IInv == TypeOK /\ Lifecycle /\ Owned /\ Frames /\ AllTold /\ ViewersBounded

LEMMA Inductive == Spec => []IInv
<1>1. Init => IInv
  BY InitHolds DEF IInv
<1>2. IInv /\ [Next]_vars => IInv'
  BY TypeStep, LifecycleStep, OwnedStep, FramesStep, ToldStep, BoundStep DEF IInv
<1> QED  BY <1>1, <1>2, PTL DEF Spec

(* Every reachable state of the service is well typed.                      *)
THEOREM TypeCorrect == Spec => []TypeOK
<1>1. IInv => TypeOK
  BY DEF IInv
<1> QED  BY <1>1, Inductive, PTL

(* Handshakes that pass the early check together never exceed the limit.    *)
THEOREM LimitHolds == Spec => []ViewersBounded
<1>1. IInv => ViewersBounded
  BY DEF IInv
<1> QED  BY <1>1, Inductive, PTL

(* After stop() no viewer, thread or library reference is left.             *)
THEOREM StopIsComplete == Spec => []NothingRemains
<1>1. IInv => NothingRemains
  BY DEF IInv, Lifecycle, AllFree, Owned, WriterOwned, Joining, NothingRemains
<1> QED  BY <1>1, Inductive, PTL

(* A snapshot published while a viewer joins reaches it.                    *)
THEOREM JoinIsSeamless == Spec => []JoinMissesNothing
<1>1. IInv => JoinMissesNothing
  BY DEF IInv, AllTold, Told, JoinMissesNothing
<1> QED  BY <1>1, Inductive, PTL

(* The frame offered last to an open viewer is never lost.                  *)
THEOREM NothingLost == Spec => []NewestNotLost
<1>1. IInv => NewestNotLost
  BY DEF IInv, Frames, FramesOf, NewestNotLost, TypeOK
<1> QED  BY <1>1, Inductive, PTL

(* What publish, addViewer and the writers owe to every open viewer.        *)
THEOREM ViewersAreServed == Spec => []ViewersUpToDate
  BY JoinIsSeamless, NothingLost, PTL DEF ViewersUpToDate

(* A connection object is never given to a new client while a writer of the *)
(* last one may use it.                                                     *)
THEOREM WriterNeverOutlives == Spec => []WriterOutlivedByConnection
<1>1. IInv => WriterOutlivedByConnection
  BY DEF IInv, Owned, WriterOwned, Joining, WriterOutlivedByConnection
<1> QED  BY <1>1, Inductive, PTL

(* Each viewer receives strictly newer snapshots.                           *)
THEOREM ViewersMoveForward == Spec => FramesIncrease
<1> DEFINE Forward == \A c \in Conns : Written(c) => sending[c] > got[c]
<1>1. IInv /\ [Next]_vars => [Forward]_vars
  BY DEF IInv, Frames, FramesOf, Written
<1> QED  BY <1>1, Inductive, PTL DEF Spec, FramesIncrease

(* A viewer is given the newest snapshot, and never one it has had.         *)
THEOREM ViewersGetNewest == Spec => ViewersServed
  BY ViewersAreServed, ViewersMoveForward DEF ViewersServed

(* Writers, workers and the library are gone when those who use them are.   *)
THEOREM NothingLeftBehind == Spec => []NothingOutlives
  BY StopIsComplete, WriterNeverOutlives, PTL DEF NothingOutlives
=============================================================================
