------------------------ MODULE OverlayWindowProofs ------------------------
(***************************************************************************)
(* Theorems about the overlay's window: ViewportDetection for any           *)
(* rectangles and pictures, OverlayRenderer for any images and any size of  *)
(* the cache, OverlayHotkeys for any keys and any number held at once.      *)
(***************************************************************************)
EXTENDS ViewportDetection, OverlayRenderer, OverlayHotkeys, TLAPS

(* The worker has a job exactly while it is busy.                           *)
Working == worker = "busy" <=> job # None

(* In a frame that may take a detection, the mode is the one applied, the   *)
(* last detection taken is what is pending, and with none taken the pending *)
(* viewport is the one shown.                                               *)
Agreement ==
    session = "on" =>
        /\ pc = "detect" => applied = mode
        /\ detected = <<>> => pendingViewport \in {viewport, None}
        /\ detected # <<>> /\ pendingViewport # None =>
                detected[Len(detected)] = pendingViewport.view

ViewportInv == ViewportTypeOK /\ ViewportOfWindow /\ Working /\ Agreement

LEMMA SeenTyped ==
    ASSUME ViewportTypeOK, NEW r \in Rects
    PROVE  Seen(r) \subseteq Views
BY ViewportAssumption DEF Seen, InsideBars, ViewportTypeOK

LEMMA OldTyped ==
    /\ \A j \in Jobs \cup {None} : Old(j) \in Jobs \cup {None} /\ (Old(j) = None <=> j = None)
    /\ \A d \in Detections \cup {None} : Old(d) \in Detections \cup {None}
BY ViewportAssumption DEF Old, Jobs, Detections

LEMMA RequestTyped == \A r \in Rects : [rect |-> r, current |-> TRUE] \in Jobs
BY DEF Jobs

LEMMA AskTyped == ViewportTypeOK /\ Ask => request' \in Jobs
BY RequestTyped DEF Ask, ViewportTypeOK

LEMMA ViewportInitInv == ViewportInit => ViewportInv
BY ViewportAssumption DEF ViewportInit, ViewportInv, ViewportTypeOK, ViewportOfWindow, Working,
   Agreement, Viewports, Fixed

LEMMA ConsumeTyped ==
    ASSUME ViewportTypeOK, NEW match \in Viewports, Consume(match)
    PROVE  /\ viewport' \in {viewport, match} /\ pendingViewport' = match /\ agreed' \in 0..2
           /\ detected' \in Seq(Views) /\ detected' # <<>>
           /\ detected'[Len(detected')] = match.view
<1>1. viewport' \in {viewport, match} /\ pendingViewport' = match /\ agreed' \in 0..2
  BY DEF Consume, ViewportTypeOK
<1>2. CASE detected = <<>>
  BY <1>1, <1>2 DEF Consume, Viewports
<1>3. CASE detected # <<>>
  <2>1. Len(detected) \in 1..Len(detected) /\ detected[Len(detected)] \in Views
    BY <1>3 DEF ViewportTypeOK
  <2> QED  BY <1>1, <1>3, <2>1 DEF Consume, Viewports
<1> QED  BY <1>2, <1>3

LEMMA ViewportStep == ViewportInv /\ [ViewportNext]_viewportVars => ViewportInv'
<1> SUFFICES ASSUME ViewportInv, [ViewportNext]_viewportVars PROVE ViewportInv'
  OBVIOUS
<1> USE ViewportAssumption
    DEF ViewportInv, ViewportTypeOK, ViewportOfWindow, Working, Agreement, Viewports,
        ClientRect
<1>1. CASE GameMoves
  BY <1>1 DEF GameMoves, choice, shown, thread
<1>2. CASE PictureChanges
  BY <1>2 DEF PictureChanges, choice, shown, thread
<1>3. CASE CaptureChanges \/ SizeChanges
  BY <1>3 DEF CaptureChanges, SizeChanges, choice, shown, thread
<1>4. CASE ChangeMode
  BY <1>4 DEF ChangeMode, game, shown, thread
<1>5. CASE ToggleMenu
  BY <1>5 DEF ToggleMenu, game, shown, thread
<1>6. CASE InitWindow
  BY <1>6, SeenTyped DEF InitWindow, game, choice, Fixed
<1>7. CASE StopWorker
  BY <1>7 DEF StopWorker, game, choice, shown, thread
<1>8. CASE Destroy
  BY <1>8 DEF Destroy, game, choice, thread
<1>9. CASE Place
  <2>1. /\ session = "on" /\ pc' = "detect" /\ geometry' = rect /\ canvas' = sdl
        /\ applied' = mode /\ UNCHANGED <<game, choice, session, worker>>
    BY <1>9 DEF Place
  <2>2. /\ viewport' \in Viewports
        /\ canvas' = geometry' => viewport'.of = geometry'
    <3>1. viewport' \in PlacedViewport
      BY <1>9 DEF Place
    <3>2. CASE mode = "fixed" /\ (Switched \/ (Moved /\ ~Resized))
      BY <2>1, <3>1, <3>2 DEF PlacedViewport, Fixed
    <3>3. CASE ~(mode = "fixed" /\ (Switched \/ (Moved /\ ~Resized))) /\ Resized
      BY <2>1, <3>1, <3>3 DEF PlacedViewport, Fixed, game
    <3>4. CASE ~(mode = "fixed" /\ (Switched \/ (Moved /\ ~Resized))) /\ ~Resized /\ Moved
      BY <2>1, <3>1, <3>4 DEF PlacedViewport, Remapped
    <3>5. CASE ~(mode = "fixed" /\ (Switched \/ (Moved /\ ~Resized))) /\ ~Resized /\ ~Moved
      BY <2>1, <3>1, <3>5 DEF PlacedViewport, Moved, Resized
    <3> QED  BY <3>2, <3>3, <3>4, <3>5
  <2>3. pendingViewport' \in Viewports \cup {None} /\ agreed' \in 0..2 /\ detected' \in Seq(Views)
    <3>1. CASE UNCHANGED <<pendingViewport, agreed, detected>>
      BY <3>1
    <3>2. CASE detected' = <<>> /\ pendingViewport' \in {viewport', None} /\ agreed' \in {0, 1}
      BY <2>2, <3>2
    <3>3. \/ UNCHANGED <<pendingViewport, agreed, detected>>
          \/ detected' = <<>> /\ pendingViewport' \in {viewport', None} /\ agreed' \in {0, 1}
      BY <1>9 DEF Place
    <3> QED  BY <3>1, <3>2, <3>3
  <2>4. /\ request' \in Jobs \cup {None} /\ job' \in Jobs \cup {None}
        /\ result' \in Detections \cup {None} /\ (job' = None <=> job = None)
    <3>1. CASE NewGeneration(rect)
      BY <3>1, OldTyped, RequestTyped DEF NewGeneration
    <3>2. CASE UNCHANGED <<request, job, result>>
      BY <3>2
    <3> QED  BY <1>9, <3>1, <3>2 DEF Place
  <2>5. Agreement'
    <3>1. CASE Moved \/ Switched \/ Resized
      <4>1. detected' = <<>> /\ pendingViewport' \in {viewport', None}
        BY <1>9, <3>1 DEF Place
      <4> QED  BY <2>1, <4>1 DEF choice
    <3>2. CASE ~(Moved \/ Switched \/ Resized)
      <4>1. viewport' = viewport /\ UNCHANGED <<pendingViewport, agreed, detected>>
        BY <1>9, <3>2 DEF Place, PlacedViewport
      <4> QED  BY <2>1, <3>2, <4>1 DEF Switched, choice
    <3> QED  BY <3>1, <3>2
  <2> QED  BY <2>1, <2>2, <2>3, <2>4, <2>5 DEF game, choice
<1>10. ASSUME NEW due \in BOOLEAN, Detect(due) PROVE ViewportInv'
  <2> DEFINE taken == [of |-> result.rect, view |-> result.found]
  <2>1. CASE mode = "auto" /\ result # None /\ Current(result)
    <3>1. taken \in Viewports /\ taken.of = geometry /\ Consume(taken)
      BY <1>10, <2>1 DEF Detect, Current, Detections
    <3>2. ViewportTypeOK'
      <4>1. request' \in Jobs \cup {None} /\ result' \in Detections \cup {None}
        BY <1>10, <2>1, AskTyped DEF Detect
      <4> QED  BY <1>10, <2>1, <3>1, <4>1, ConsumeTyped DEF Detect, game, choice, thread
    <3>3. ViewportOfWindow' /\ Working'
      BY <1>10, <2>1, <3>1, ConsumeTyped DEF Detect, game, choice, thread
    <3>4. Agreement'
      BY <1>10, <2>1, <3>1, ConsumeTyped DEF Detect, game, choice, thread
    <3> QED  BY <3>2, <3>3, <3>4
  <2>2. CASE ~(mode = "auto" /\ result # None /\ Current(result))
    <3>1. request' \in Jobs \cup {None} /\ result' \in Detections \cup {None}
      BY <1>10, <2>2, AskTyped DEF Detect
    <3>2. UNCHANGED <<game, choice, session, geometry, canvas, applied, thread, viewport,
                      pendingViewport, agreed, detected>> /\ pc' = "place"
      BY <1>10, <2>2 DEF Detect
    <3> QED  BY <3>1, <3>2 DEF game, choice, thread
  <2> QED  BY <2>1, <2>2
<1>11. CASE WorkerTakes
  BY <1>11 DEF WorkerTakes, game, choice, shown
<1>12. CASE WorkerDetects
  <2>1. job \in Jobs
    BY <1>12 DEF WorkerDetects
  <2>2. Seen(job.rect) \subseteq Views
    BY <2>1, SeenTyped DEF Jobs
  <2> QED  BY <1>12, <2>1, <2>2 DEF WorkerDetects, game, choice, shown, Jobs, Detections
<1>13. CASE WorkerLeaves
  BY <1>13 DEF WorkerLeaves, game, choice, shown
<1>14. CASE UNCHANGED viewportVars
  BY <1>14 DEF viewportVars, game, choice, shown, thread
<1> QED
  BY <1>1, <1>2, <1>3, <1>4, <1>5, <1>6, <1>7, <1>8, <1>9, <1>10, <1>11, <1>12, <1>13, <1>14
  DEF ViewportNext, WindowThread, Worker

LEMMA ViewportInductive == ViewportSpec => []ViewportInv
BY ViewportInitInv, ViewportStep, PTL DEF ViewportSpec

(* A detection of where the window was never moves the viewport off where   *)
(* it is, whatever the main thread and the worker do between, and whatever  *)
(* sizes SDL tells in passing.                                              *)
THEOREM ViewportStaysInWindow == ViewportSpec => []ViewportInOrder
<1>1. ViewportInv => ViewportInOrder
  BY DEF ViewportInv, ViewportInOrder
<1> QED  BY <1>1, ViewportInductive, PTL

(* One detection alone, or two of which one is from before a move, do not   *)
(* change the viewport.                                                     *)
THEOREM ViewportNeedsTwo == ViewportSpec => TwoAgree
<1> DEFINE Agreed == session = "on" /\ pc = "detect" /\ viewport' # viewport =>
                       detected' = <<viewport'.view, viewport'.view>>
<1>1. ViewportInv /\ [ViewportNext]_viewportVars => [Agreed]_viewportVars
  <2> SUFFICES ASSUME ViewportInv, ViewportNext, session = "on", pc = "detect",
                      viewport' # viewport
               PROVE  detected' = <<viewport'.view, viewport'.view>>
    OBVIOUS
  <2>1. PICK due \in BOOLEAN : Detect(due)
    BY DEF ViewportNext, WindowThread, Worker, GameMoves, PictureChanges, CaptureChanges,
           SizeChanges, ChangeMode, ToggleMenu, InitWindow, StopWorker, Destroy, Place, WorkerTakes,
           WorkerDetects, WorkerLeaves, shown
  <2> DEFINE taken == [of |-> result.rect, view |-> result.found]
  <2>2. Consume(taken) /\ taken \in Viewports
    BY <2>1 DEF Detect, ViewportInv, ViewportTypeOK, Detections, Viewports
  <2>3. pendingViewport = taken /\ viewport' = taken
    BY <2>2 DEF Consume, Enough
  <2>4. detected # <<>> /\ detected[Len(detected)] = taken.view
    BY <2>2, <2>3, ViewportAssumption DEF ViewportInv, Agreement, Viewports
  <2>5. detected' = <<detected[Len(detected)], taken.view>>
    BY <2>2, <2>4 DEF Consume
  <2> QED  BY <2>3, <2>4, <2>5
<1> QED  BY <1>1, ViewportInductive, PTL DEF ViewportSpec, TwoAgree
-----------------------------------------------------------------------------
(* OverlayRenderer.                                                         *)

(* Up to the drawing of a frame the running program has all it draws with.  *)
Equipped ==
    /\ running /\ InLoop /\ at \in {"poll", "begin", "draw"} => imgui = "ready"
    /\ InLoop /\ at = "draw" => renderer

(* The images of the present renderer, and no others, are alive.            *)
Holds(sequence, textures) == \A k \in 1..Len(sequence) : sequence[k].texture \in textures
Alive == {"live", "failed", "due"}
Gone == {"dead", "failed", "due"}
Living ==
    IF cacheCurrent /\ renderer THEN Holds(entries, Alive) ELSE Holds(entries, Gone)

RendererInv ==
    TypeOK /\ FramesAreReady /\ RoundsStartClean /\ Equipped /\ Living /\ TexturesAccounted

LEMMA DidBounds ==
    ASSUME NEW sequence \in Seq(Entry), NEW what
    PROVE  /\ Holds(sequence, Alive) => Did(what, sequence) \subseteq {<<what, "live">>}
           /\ Holds(sequence, Gone) => Did(what, sequence) \subseteq {<<what, "dead">>}
BY DEF Holds, Alive, Gone, Did

LEMMA KilledTyped ==
    ASSUME TypeOK
    PROVE  /\ Killed(entries) \in Seq(Entry) /\ Len(Killed(entries)) = Len(entries)
           /\ Holds(Killed(entries), Gone)
           /\ entries = <<>> => Killed(entries) = <<>>
<1> DEFINE killed == Killed(entries)
<1>1. \A k \in 1..Len(entries) : entries[k] \in Entry
  BY DEF TypeOK
<1>2. \A k \in 1..Len(entries) : killed[k] \in Entry /\ killed[k].texture \in Gone
  <2> SUFFICES ASSUME NEW k \in 1..Len(entries)
               PROVE  killed[k] \in Entry /\ killed[k].texture \in Gone
    OBVIOUS
  <2>1. killed[k] = IF entries[k].texture = "live" THEN [entries[k] EXCEPT !.texture = "dead"]
                                                    ELSE entries[k]
    BY DEF Killed
  <2> QED  BY <1>1, <2>1 DEF Entry, Textures, Gone
<1>3. Len(entries) \in Nat /\ killed \in Seq(Entry) /\ Len(killed) = Len(entries)
  BY <1>2 DEF Killed, TypeOK
<1>4. Holds(killed, Gone)
  BY <1>2, <1>3 DEF Holds
<1>5. entries = <<>> => killed = <<>>
  BY <1>3
<1> QED  BY <1>3, <1>4, <1>5

LEMMA WithoutTyped ==
    ASSUME NEW sequence \in Seq(Entry), NEW k \in 1..Len(sequence)
    PROVE  /\ Without(sequence, k) \in Seq(Entry)
           /\ Len(Without(sequence, k)) = Len(sequence) - 1
           /\ \A T : Holds(sequence, T) => Holds(Without(sequence, k), T)
<1> DEFINE rest == Without(sequence, k)
<1>1. \A j \in 1..Len(sequence) - 1 : j \in 1..Len(sequence) /\ j + 1 \in 1..Len(sequence)
  OBVIOUS
<1>2. \A j \in 1..Len(sequence) - 1 : rest[j] \in {sequence[j], sequence[j + 1]}
  BY DEF Without
<1>3. \A j \in 1..Len(sequence) - 1 : rest[j] \in Entry
  BY <1>1, <1>2
<1>4. Len(sequence) - 1 \in Nat /\ rest \in Seq(Entry) /\ Len(rest) = Len(sequence) - 1
  BY <1>3 DEF Without
<1> QED  BY <1>1, <1>2, <1>4 DEF Holds

LEMMA ResetSteps == RendererInv /\ ResetTextures =>
    entries' = <<>> /\ cacheCurrent' = FALSE /\ TexturesAccounted'
<1> SUFFICES ASSUME RendererInv, ResetTextures
             PROVE  entries' = <<>> /\ cacheCurrent' = FALSE /\ TexturesAccounted'
  OBVIOUS
<1>1. entries \in Seq(Entry)
  BY DEF RendererInv, TypeOK
<1> QED  BY <1>1, DidBounds DEF ResetTextures, RendererInv, Living, TexturesAccounted

LEMMA RecoverSteps == RendererInv /\ RecoverRenderer =>
    /\ entries' \in Seq(Entry) /\ Len(entries') = Len(entries) /\ Living'
    /\ renderer' \in BOOLEAN /\ imgui' \in {"none", "context", "ready"}
    /\ cacheCurrent' \in BOOLEAN
    /\ imgui' = "ready" => renderer'
    /\ renderer' => imgui' = imgui
<1> SUFFICES ASSUME RendererInv, RecoverRenderer
             PROVE  /\ entries' \in Seq(Entry) /\ Len(entries') = Len(entries) /\ Living'
                    /\ renderer' \in BOOLEAN /\ imgui' \in {"none", "context", "ready"}
                    /\ cacheCurrent' \in BOOLEAN
                    /\ imgui' = "ready" => renderer'
                    /\ renderer' => imgui' = imgui
  OBVIOUS
<1>1. /\ entries' \in Seq(Entry) /\ Len(entries') = Len(entries) /\ Holds(entries', Gone)
  BY KilledTyped DEF RecoverRenderer, RendererInv
<1>2. ~(cacheCurrent' /\ renderer')
  BY DEF RecoverRenderer, CreateRenderer, NewRevision
<1>3. Living'
  BY <1>1, <1>2 DEF Living, Holds
<1> QED  BY <1>1, <1>3 DEF RecoverRenderer, CreateRenderer, NewRevision, RendererInv, TypeOK

LEMMA RendererInitInv == Init => RendererInv
<1> SUFFICES ASSUME Init PROVE RendererInv
  OBVIOUS
<1>1. entries \in Seq(Entry) /\ Len(entries) <= MaxCached /\ Living
  BY RendererAssumption DEF Init, Living, Holds
<1>2. acts \subseteq Acts /\ TexturesAccounted
  BY DEF Init, TexturesAccounted
<1>3. TypeOK
  BY <1>1, <1>2 DEF Init, TypeOK
<1> QED
  BY <1>1, <1>2, <1>3
  DEF Init, RendererInv, FramesAreReady, RoundsStartClean, Equipped, InLoop

(* What the drawing of one image does to the cache.                         *)
LEMMA DrawSteps == RendererInv /\ DrawMap =>
    entries' \in Seq(Entry) /\ Len(entries') <= MaxCached /\ Living' /\ TexturesAccounted'
<1> SUFFICES ASSUME RendererInv, DrawMap
             PROVE  /\ entries' \in Seq(Entry) /\ Len(entries') <= MaxCached
                    /\ Living' /\ TexturesAccounted'
  OBVIOUS
<1> DEFINE kept == IF cacheCurrent THEN entries ELSE <<>>
<1>1. wanted \in Images /\ renderer /\ renderer' /\ cacheCurrent'
  BY DEF DrawMap, RendererInv, TypeOK, Equipped, InLoop
<1>2. /\ kept \in Seq(Entry) /\ Len(kept) <= MaxCached /\ Holds(kept, Alive)
      /\ ~cacheCurrent => Did("forget", entries) \subseteq {<<"forget", "dead">>}
  <2>1. CASE cacheCurrent
    BY <1>1, <2>1 DEF RendererInv, TypeOK, Living
  <2>2. CASE ~cacheCurrent
    <3>1. Holds(kept, Alive) /\ Len(kept) = 0 /\ kept \in Seq(Entry)
      BY <2>2 DEF Holds
    <3>2. Did("forget", entries) \subseteq {<<"forget", "dead">>}
      BY <2>2, DidBounds DEF RendererInv, TypeOK, Living
    <3> QED  BY <3>1, <3>2, RendererAssumption
  <2> QED  BY <2>1, <2>2
<1>3. ASSUME NEW s \in Seq(Entry), Holds(s, Alive), Len(s) < MaxCached,
             NEW texture \in Alive, entries' = Append(s, [image |-> wanted, texture |-> texture])
      PROVE  entries' \in Seq(Entry) /\ Len(entries') <= MaxCached /\ Living'
  <2>1. [image |-> wanted, texture |-> texture] \in Entry
    BY <1>1 DEF Entry, Textures, Alive
  <2>2. /\ entries' \in Seq(Entry) /\ Len(entries') = Len(s) + 1
        /\ \A k \in 1..Len(s) : entries'[k] = s[k]
        /\ entries'[Len(s) + 1] = [image |-> wanted, texture |-> texture]
    BY <1>3, <2>1
  <2>3. Holds(entries', Alive)
    BY <1>3, <2>2 DEF Holds
  <2> QED  BY <1>1, <1>3, <2>2, <2>3, RendererAssumption DEF Living, Holds
<1>4. ASSUME NEW texture \in Alive
      PROVE  Did("use", <<[image |-> wanted, texture |-> texture]>>) \subseteq {<<"use", "live">>}
  BY DEF Did, Alive
<1>5. Load \in Alive
  BY DEF Load, Alive
<1>6. CASE DrawCached(kept)
  <2>1. PICK k \in 1..Len(kept) :
          LET texture == IF Retry(kept[k].texture) THEN Load ELSE kept[k].texture
              entry == [image |-> wanted, texture |-> texture]
          IN  entries' = Append(Without(kept, k), entry) /\ acts' = Did("use", <<entry>>)
    BY <1>6 DEF DrawCached
  <2> DEFINE texture == IF Retry(kept[k].texture) THEN Load ELSE kept[k].texture
  <2>2. texture \in Alive
    BY <1>2, <1>5 DEF Holds
  <2>3. /\ Without(kept, k) \in Seq(Entry) /\ Len(Without(kept, k)) < MaxCached
        /\ Holds(Without(kept, k), Alive)
    <3>1. Len(kept) \in Nat /\ MaxCached \in Nat
      BY <1>2, RendererAssumption
    <3> HIDE DEF kept
    <3> QED  BY <1>2, <3>1, WithoutTyped
  <2>4. TexturesAccounted'
    BY <1>4, <2>1, <2>2 DEF TexturesAccounted
  <2> QED  BY <1>3, <2>1, <2>2, <2>3, <2>4
<1>7. CASE DrawLoaded(kept)
  <2> DEFINE full == Len(kept) >= MaxCached
             rest == IF full THEN Tail(kept) ELSE kept
             entry == [image |-> wanted, texture |-> Load]
  <2>1. /\ entries' = Append(rest, entry)
        /\ acts' = Did("use", <<entry>>)
                     \cup (IF full THEN Did("destroy", <<Head(kept)>>) ELSE {})
                     \cup (IF cacheCurrent THEN {} ELSE Did("forget", entries))
    BY <1>7 DEF DrawLoaded
  <2>2. rest \in Seq(Entry) /\ Len(rest) < MaxCached /\ Holds(rest, Alive)
    BY <1>2, RendererAssumption DEF Holds
  <2>3. full => Did("destroy", <<Head(kept)>>) \subseteq {<<"destroy", "live">>}
    <3> SUFFICES ASSUME full PROVE Did("destroy", <<Head(kept)>>) \subseteq {<<"destroy", "live">>}
      OBVIOUS
    <3>1. Head(kept) \in Entry /\ Head(kept).texture \in Alive
      BY <1>2, RendererAssumption DEF Holds
    <3>2. <<Head(kept)>> \in Seq(Entry) /\ Holds(<<Head(kept)>>, Alive)
      BY <3>1 DEF Holds
    <3> QED  BY <3>2, DidBounds
  <2>4. TexturesAccounted'
    BY <1>2, <1>4, <1>5, <2>1, <2>3 DEF TexturesAccounted
  <2> QED  BY <1>3, <1>5, <2>1, <2>2, <2>4
<1> QED  BY <1>6, <1>7 DEF DrawMap

LEMMA RendererStep == RendererInv /\ [Next]_vars => RendererInv'
<1> SUFFICES ASSUME RendererInv, [Next]_vars PROVE RendererInv'
  OBVIOUS
<1> USE DEF InLoop
<1>1. CASE StartWaiting
  <2>1. Living' /\ acts' = {}
    BY <1>1 DEF StartWaiting, CreateRenderer, RendererInv, RoundsStartClean, Living, Holds
  <2>2. TypeOK'
    BY <1>1, <2>1 DEF StartWaiting, CreateRenderer, NewRevision, RendererInv, TypeOK, user
  <2> QED
    BY <1>1, <2>1, <2>2 DEF StartWaiting, CreateRenderer, RendererInv, FramesAreReady,
       RoundsStartClean, Equipped, TexturesAccounted
<1>2. CASE Attach
  <2>1. entries' = <<>> /\ cacheCurrent' \in BOOLEAN /\ TexturesAccounted'
    BY <1>2, ResetSteps DEF Attach, CreateRenderer, NewRevision, RendererInv, RoundsStartClean,
       TexturesAccounted
  <2>2. Living' /\ entries' \in Seq(Entry) /\ Len(entries') <= MaxCached
        /\ acts' \subseteq Acts
    BY <2>1, RendererAssumption DEF Living, Holds, TexturesAccounted, Acts
  <2>3. TypeOK'
    BY <1>2, <2>1, <2>2 DEF Attach, CreateRenderer, RendererInv, TypeOK, user
  <2> QED
    BY <1>2, <2>1, <2>2, <2>3 DEF Attach, CreateRenderer, RendererInv, FramesAreReady,
       RoundsStartClean, Equipped
<1>3. CASE Poll
  <2>1. Living' /\ entries' \in Seq(Entry) /\ Len(entries') <= MaxCached
        /\ cacheCurrent' \in BOOLEAN
    BY <1>3, RecoverSteps DEF Poll, RendererInv, TypeOK, Living
  <2>2. /\ renderer' \in BOOLEAN /\ imgui' \in {"none", "context", "ready"}
        /\ running' \in BOOLEAN /\ (imgui' = "ready" => renderer')
        /\ (running' => running /\ imgui' = "ready")
    <3>1. running \in BOOLEAN /\ renderer \in BOOLEAN /\ imgui \in {"none", "context", "ready"}
          /\ (imgui = "ready" => renderer) /\ (running => imgui = "ready")
      BY <1>3 DEF Poll, RendererInv, TypeOK, FramesAreReady, Equipped
    <3>2. CASE RecoverRenderer
      <4>1. /\ renderer' \in BOOLEAN /\ imgui' \in {"none", "context", "ready"}
            /\ (imgui' = "ready" => renderer') /\ (renderer' => imgui' = imgui)
        BY <3>2, RecoverSteps
      <4>2. running' \in BOOLEAN /\ (running' => running /\ renderer')
        BY <1>3, <3>1, <3>2 DEF Poll, Quits, GivesUp
      <4> QED  BY <3>1, <4>1, <4>2
    <3>3. CASE ~RecoverRenderer
      BY <1>3, <3>1, <3>3 DEF Poll, Quits
    <3> QED  BY <3>2, <3>3
  <2>3. TypeOK'
    BY <1>3, <2>1, <2>2 DEF Poll, RendererInv, TypeOK, user
  <2> QED
    BY <1>3, <2>1, <2>2, <2>3 DEF Poll, RendererInv, FramesAreReady, RoundsStartClean,
       Equipped, TexturesAccounted
<1>4. CASE BeginFrame
  <2>1. Living' /\ entries' \in Seq(Entry) /\ Len(entries') <= MaxCached
        /\ cacheCurrent' \in BOOLEAN
    BY <1>4, RecoverSteps DEF BeginFrame, RendererInv, TypeOK, Living
  <2>2. /\ renderer' \in BOOLEAN /\ imgui' \in {"none", "context", "ready"}
        /\ running' \in BOOLEAN /\ (imgui' = "ready" => renderer') /\ (at' = "draw" => renderer')
        /\ (running' => running /\ imgui' = "ready")
    <3>1. running \in BOOLEAN /\ renderer \in BOOLEAN /\ imgui \in {"none", "context", "ready"}
          /\ (imgui = "ready" => renderer) /\ (running => imgui = "ready")
      BY <1>4 DEF BeginFrame, RendererInv, TypeOK, FramesAreReady, Equipped
    <3>2. CASE RecoverRenderer
      <4>1. /\ renderer' \in BOOLEAN /\ imgui' \in {"none", "context", "ready"}
            /\ (imgui' = "ready" => renderer') /\ (renderer' => imgui' = imgui)
        BY <3>2, RecoverSteps
      <4>2. /\ running' \in BOOLEAN /\ (running' => running)
            /\ (running' \/ at' = "draw" => renderer' \/ UNCHANGED <<renderer, imgui>>)
        BY <1>4, <3>1 DEF BeginFrame
      <4>3. at' = "draw" => renderer'
        BY <1>4, <3>1 DEF BeginFrame
      <4> QED  BY <3>1, <4>1, <4>2, <4>3
    <3>3. CASE ~RecoverRenderer
      BY <1>4, <3>1, <3>3 DEF BeginFrame
    <3> QED  BY <3>2, <3>3
  <2>3. TypeOK'
    BY <1>4, <2>1, <2>2 DEF BeginFrame, RendererInv, TypeOK, user
  <2> QED
    BY <1>4, <2>1, <2>2, <2>3 DEF BeginFrame, RendererInv, FramesAreReady, RoundsStartClean,
       Equipped, TexturesAccounted
<1>5. CASE DrawWaiting
  BY <1>5 DEF DrawWaiting, NextTurn, RendererInv, TypeOK, user, FramesAreReady,
     RoundsStartClean, Equipped, Living, TexturesAccounted
<1>6. CASE DrawNoMap
  <2>1. Living' /\ entries' \in Seq(Entry) /\ Len(entries') <= MaxCached
        /\ cacheCurrent' \in BOOLEAN /\ TexturesAccounted'
    <3>1. CASE ResetTextures
      <4>1. entries' = <<>> /\ cacheCurrent' = FALSE /\ TexturesAccounted'
        BY <3>1, ResetSteps
      <4>2. Living'
        BY <4>1 DEF Living, Holds
      <4>3. entries' \in Seq(Entry) /\ Len(entries') <= MaxCached
        BY <4>1, RendererAssumption
      <4> QED  BY <4>1, <4>2, <4>3
    <3>2. CASE acts' = {} /\ UNCHANGED <<cacheCurrent, entries>>
      BY <1>6, <3>2 DEF DrawNoMap, RendererInv, TypeOK, Living, TexturesAccounted
    <3> QED  BY <1>6, <3>1, <3>2 DEF DrawNoMap
  <2>2. acts' \subseteq Acts
    BY <2>1 DEF TexturesAccounted, Acts
  <2> QED
    BY <1>6, <2>1, <2>2 DEF DrawNoMap, NextTurn, RendererInv, TypeOK, user, FramesAreReady,
       RoundsStartClean, Equipped
<1>7. CASE DrawMap
  <2>1. acts' \subseteq Acts
    BY <1>7, DrawSteps DEF TexturesAccounted, Acts
  <2> QED
    BY <1>7, <2>1, DrawSteps DEF DrawMap, NextTurn, RendererInv, TypeOK, user, FramesAreReady,
       RoundsStartClean, Equipped
<1>8. CASE Leave
  <2>1. entries' = <<>> /\ cacheCurrent' = FALSE /\ TexturesAccounted'
    BY <1>8, ResetSteps DEF Leave
  <2>2. Living' /\ entries' \in Seq(Entry) /\ Len(entries') <= MaxCached
        /\ acts' \subseteq Acts
    BY <2>1, RendererAssumption DEF Living, Holds, TexturesAccounted, Acts
  <2> QED
    BY <1>8, <2>1, <2>2 DEF Leave, ShutDownImGui, RendererInv, TypeOK, user,
       FramesAreReady, RoundsStartClean, Equipped
<1>9. CASE WantedChanges \/ FilesChange
  <2>1. UNCHANGED <<loop, renderer, imgui, cache>>
        /\ wanted' \in Images \cup {Nothing} /\ readable' \in BOOLEAN
    BY <1>9 DEF WantedChanges, FilesChange, RendererInv, TypeOK
  <2> QED
    BY <2>1 DEF loop, cache, RendererInv, TypeOK, FramesAreReady, RoundsStartClean, Equipped,
       Living, TexturesAccounted
<1>10. CASE RetryTimeComes
  <2>1. PICK k \in 1..Len(entries) : /\ entries[k].texture = "failed"
                                    /\ entries' = [entries EXCEPT ![k].texture = "due"]
    BY <1>10 DEF RetryTimeComes
  <2>2. entries \in Seq(Entry) /\ entries[k] \in Entry
    BY DEF RendererInv, TypeOK
  <2>3. [entries[k] EXCEPT !.texture = "due"] \in Entry
    BY <2>2 DEF Entry, Textures
  <2>4. /\ entries' \in Seq(Entry) /\ Len(entries') = Len(entries)
        /\ \A j \in 1..Len(entries) : entries'[j].texture \in {entries[j].texture, "due"}
    BY <2>1, <2>2, <2>3 DEF Entry
  <2>5. Living'
    BY <1>10, <2>4 DEF RetryTimeComes, RendererInv, Living, Holds, Alive, Gone
  <2> QED
    BY <1>10, <2>4, <2>5 DEF RetryTimeComes, loop, user, RendererInv, TypeOK, FramesAreReady,
       RoundsStartClean, Equipped, TexturesAccounted
<1>11. CASE UNCHANGED vars
  BY <1>11 DEF vars, loop, cache, user, RendererInv, TypeOK, FramesAreReady, RoundsStartClean,
     Equipped, Living, TexturesAccounted
<1> QED
  BY <1>1, <1>2, <1>3, <1>4, <1>5, <1>6, <1>7, <1>8, <1>9, <1>10, <1>11 DEF Next, Main

LEMMA RendererInductive == Spec => []RendererInv
BY RendererInitInv, RendererStep, PTL DEF Spec

(* No image of a renderer that was destroyed is drawn or destroyed again,   *)
(* and none of the present one is forgotten, wherever the device is lost.   *)
THEOREM TexturesAreAccounted == Spec => []TexturesAccounted
<1>1. RendererInv => TexturesAccounted
  BY DEF RendererInv
<1> QED  BY <1>1, RendererInductive, PTL

(* However recovery ends, no backend outlives its renderer, each round       *)
(* starts clean, and every frame of a program that still runs has a renderer *)
(* with the backends of ImGui.  The frame that may follow a recovery which   *)
(* failed and ended the program is excepted: FramesHaveBackends is not so.   *)
THEOREM RendererStaysWhole == Spec => []RendererIsWhole
<1>1. RendererInv => RendererIsWhole
  BY DEF RendererInv, RendererIsWhole
<1> QED  BY <1>1, RendererInductive, PTL
-----------------------------------------------------------------------------
(* OverlayHotkeys.                                                          *)

(* Held keys act only with the menu hidden, or about to open.               *)
Closed ==
    /\ clickThrough = ~menuOpen
    /\ turn = "button" => menuOpen
    /\ inputAllowed => (~menuOpen \/ turn = "gate") /\ ~suppressed

(* A key that was not let go since it was bound is bound still, and hotkeys *)
(* sleep until it is; a next binding waits for it too.                      *)
Sleeping ==
    /\ binding # "none" => suppressed
    /\ binding # "none" /\ ~awaiting => unreleased = {}
    /\ ~suppressed => unreleased = {}
    /\ unreleased \subseteq BoundKeys \cap down

(* What a poll takes for a press was pressed since the last one.            *)
Awake == ~suppressed => \A t \in Pressable : Pressed(t) => bound[t] \in recent

HotkeysInv == HotkeysTypeOK /\ Distinct(bound) /\ Closed /\ Sleeping /\ Awake

LEMMA ConfigTyped ==
    ASSUME NEW keys \in [Targets -> Bindable], NEW b \in BOOLEAN
    PROVE  Config(keys, b) \in Configs
BY DEF Config, Configs, Targets

LEMMA HotkeysInitInv == HotkeysInit => HotkeysInv
<1> SUFFICES ASSUME HotkeysInit PROVE HotkeysInv
  OBVIOUS
<1>1. told \in Configs /\ config \in Configs
  BY ConfigTyped DEF HotkeysInit
<1>2. HotkeysTypeOK
  BY <1>1 DEF HotkeysInit, HotkeysTypeOK
<1> QED  BY <1>2 DEF HotkeysInit, HotkeysInv, Closed, Sleeping, Awake, Pressed

LEMMA HotkeysTypeStep == HotkeysTypeOK /\ [HotkeysNext]_hotkeyVars => HotkeysTypeOK'
<1> SUFFICES ASSUME HotkeysTypeOK, [HotkeysNext]_hotkeyVars PROVE HotkeysTypeOK'
  OBVIOUS
<1> USE DEF HotkeysTypeOK, round, window, bindings, keyboard
<1>0. /\ Config(bound, FALSE) \in Configs /\ Config(bound, TRUE) \in Configs
      /\ MayAct \in BOOLEAN
  BY ConfigTyped DEF MayAct
<1>1. CASE PollSuppressed
  <2>1. tracked' \in [Pressable -> SUBSET Bindable]
    BY <1>1 DEF PollSuppressed
  <2>2. CASE binding = "none" /\ ReleasedKeys
    <3>1. binding' = "none" /\ ~suppressed' /\ latched' \subseteq latched
      BY <1>1, <2>2 DEF PollSuppressed, Polled
    <3>2. told' = Config(bound, FALSE)
      BY <1>1, <2>2, <3>1 DEF PollSuppressed, Publish
    <3> QED  BY <1>0, <1>1, <2>1, <3>1, <3>2 DEF PollSuppressed, Polled
  <2>3. CASE ~(binding = "none" /\ ReleasedKeys)
    <3>1. latched' \subseteq latched /\ UNCHANGED <<suppressed, told>>
      BY <1>1, <2>3 DEF PollSuppressed, LeftOf
    <3> QED  BY <1>1, <2>1, <3>1 DEF PollSuppressed, Polled
  <2> QED  BY <2>2, <2>3
<1>2. ASSUME NEW inFront, PollKeys(inFront)
      PROVE  /\ tracked' \in [Pressable -> SUBSET Bindable]
             /\ latched' \subseteq Keys /\ UNCHANGED <<suppressed, told>>
  BY <1>2 DEF PollKeys, Sample, Pressable, Targets
<1>3. ASSUME NEW inFront, PollIdle(inFront) PROVE HotkeysTypeOK'
  <2> QED  BY <1>2, <1>3 DEF PollIdle, Polled
<1>4. CASE PollExit
  BY <1>2, <1>4 DEF PollExit, Polled
<1>5. CASE PollToggle
  BY <1>2, <1>5 DEF PollToggle, ShowMenu
<1>6. CASE PollToggleFails
  BY <1>2, <1>6 DEF PollToggleFails, Polled, Revert
<1>7. CASE Gate \/ PlaceTooEarly \/ PlaceWindow \/ PlaceGone
  BY <1>0, <1>7 DEF Gate, PlaceTooEarly, PlaceWindow, PlaceGone
<1>8. CASE DrawHidden \/ NothingToBind \/ CancelBinding
  BY <1>8 DEF DrawHidden, Draws, NothingToBind, CancelBinding
<1>15. CASE AwaitRelease
  <2>1. latched' \subseteq latched
    BY <1>15 DEF AwaitRelease, LeftOf
  <2> QED  BY <1>15, <2>1 DEF AwaitRelease, Draws, AnyKeyDown
<1>9. ASSUME NEW k \in Bindable, CaptureKey(k) PROVE HotkeysTypeOK'
  <2>1. latched' \subseteq latched /\ k \in Keys
    BY <1>9 DEF CaptureKey, LeftOf, Keys
  <2> QED  BY <1>9, <2>1 DEF CaptureKey, Draws
<1>10. CASE Button
  <2>1. binding' \in Targets \cup {"none"} /\ awaiting' \in BOOLEAN /\ suppressed' \in BOOLEAN
    BY <1>10 DEF Button, BeginBinding
  <2>2. told' \in Configs
    BY <1>10, <2>1, ConfigTyped DEF Button, Publish
  <2> QED  BY <1>10, <2>1, <2>2 DEF Button
<1>11. CASE AttachGame \/ LeaveSession \/ EndProgram
  BY <1>11 DEF AttachGame, LeaveSession, EndProgram, ShowMenu
<1>12. ASSUME NEW k \in Keys, Press(k) \/ Release(k) \/ LatchTaken(k) PROVE HotkeysTypeOK'
  BY <1>12 DEF Press, Release, LatchTaken
<1>13. CASE TakeConfig
  BY <1>13 DEF TakeConfig
<1>14. CASE UNCHANGED hotkeyVars
  BY <1>14 DEF hotkeyVars
<1> QED
  BY <1>1, <1>3, <1>4, <1>5, <1>6, <1>7, <1>8, <1>9, <1>10, <1>11, <1>12, <1>13, <1>14,
     <1>15 DEF HotkeysNext, MainLoop, Keyboard

(* What a step of a poll that samples the keys leaves behind.               *)
LEMMA SampledKeys ==
    ASSUME HotkeysInv, NEW inFront, PollKeys(inFront)
    PROVE  /\ ~suppressed /\ binding = "none" /\ unreleased = {}
           /\ UNCHANGED <<suppressed, told>>
           /\ \A t \in Pressable : bound[t] \notin latched'
           /\ \A t \in Pressable : bound[t] \in down => bound[t] \in tracked'[t]
<1>1. ~suppressed /\ binding = "none" /\ UNCHANGED <<suppressed, told>>
  BY DEF PollKeys
<1>2. \A t \in Pressable : tracked'[t] = {bound[t]} \cap down /\ bound[t] \notin latched'
  BY DEF PollKeys, Sample
<1> QED  BY <1>1, <1>2 DEF HotkeysInv, Sleeping

LEMMA DistinctStep == HotkeysInv /\ [HotkeysNext]_hotkeyVars => Distinct(bound)'
<1> SUFFICES ASSUME HotkeysInv, [HotkeysNext]_hotkeyVars PROVE Distinct(bound)'
  OBVIOUS
<1>1. ASSUME NEW k \in Bindable, CaptureKey(k) PROVE Distinct(bound)'
  <2>1. CASE Conflicts(binding, k)
    BY <1>1, <2>1 DEF CaptureKey, HotkeysInv, Distinct
  <2>2. CASE ~Conflicts(binding, k)
    <3>1. /\ binding \in Targets /\ bound \in [Targets -> Bindable]
          /\ bound' = [bound EXCEPT ![binding] = k]
      BY <1>1, <2>2 DEF CaptureKey, HotkeysInv, HotkeysTypeOK
    <3>2. \A u \in Targets \ {binding} : bound[u] # k
      BY <2>2 DEF Conflicts
    <3> QED  BY <3>1, <3>2 DEF HotkeysInv, Distinct
  <2> QED  BY <2>1, <2>2
<1>2. CASE UNCHANGED bound
  BY <1>2 DEF HotkeysInv, Distinct
<1>3. (\E k \in Bindable : CaptureKey(k)) \/ UNCHANGED bound
  <2> USE DEF bindings
  <2>1. CASE PollSuppressed \/ PollExit \/ PollToggleFails
    BY <2>1 DEF PollSuppressed, PollExit, PollToggleFails, Polled
  <2>2. CASE PollToggle \/ \E inFront \in InFront : PollIdle(inFront)
    BY <2>2 DEF PollToggle, PollIdle, Polled
  <2>3. CASE Gate \/ PlaceTooEarly \/ PlaceWindow \/ PlaceGone
    BY <2>3 DEF Gate, PlaceTooEarly, PlaceWindow, PlaceGone
  <2>4. CASE DrawHidden \/ NothingToBind \/ CancelBinding \/ AwaitRelease \/ Button
    BY <2>4 DEF DrawHidden, NothingToBind, CancelBinding, AwaitRelease, Button
  <2>5. CASE AttachGame \/ LeaveSession \/ EndProgram \/ TakeConfig
    BY <2>5 DEF AttachGame, LeaveSession, EndProgram, TakeConfig
  <2>6. CASE Keyboard
    BY <2>6 DEF Keyboard, Press, Release, LatchTaken
  <2>7. CASE UNCHANGED hotkeyVars
    BY <2>7 DEF hotkeyVars
  <2> QED  BY <2>1, <2>2, <2>3, <2>4, <2>5, <2>6, <2>7 DEF HotkeysNext, MainLoop
<1> QED  BY <1>1, <1>2, <1>3

LEMMA ClosedStep == HotkeysInv /\ [HotkeysNext]_hotkeyVars => Closed'
<1> SUFFICES ASSUME HotkeysInv, [HotkeysNext]_hotkeyVars PROVE Closed'
  OBVIOUS
<1>0. HotkeysTypeOK /\ Closed /\ Sleeping
  BY DEF HotkeysInv
<1> USE DEF Closed, round, window, bindings, keyboard
<1>1. CASE PollSuppressed
  <2>1. suppressed' => suppressed
    BY <1>1 DEF PollSuppressed
  <2> QED  BY <1>0, <1>1, <2>1 DEF PollSuppressed, Polled, Polls
<1>2. ASSUME NEW inFront \in InFront, PollIdle(inFront) PROVE Closed'
  BY <1>0, <1>2, SampledKeys DEF PollIdle, Polled, PollKeys, Polls
<1>3. CASE PollExit
  BY <1>0, <1>3, SampledKeys DEF PollExit, Polled, PollKeys, Polls
<1>4. CASE PollToggle
  BY <1>0, <1>4, SampledKeys DEF PollToggle, ShowMenu, HotkeysTypeOK
<1>5. CASE PollToggleFails
  BY <1>0, <1>5 DEF PollToggleFails, Polled, Revert, PollKeys, Polls
<1>6. CASE Gate \/ PlaceWindow
  <2>1. inputAllowed' => ~menuOpen /\ ~suppressed
    BY <1>6 DEF Gate, PlaceWindow, MayAct
  <2>2. UNCHANGED <<menuOpen, clickThrough, suppressed>> /\ turn' # "button"
    BY <1>6 DEF Gate, PlaceWindow
  <2> QED  BY <1>0, <2>1, <2>2
<1>13. CASE PlaceTooEarly \/ PlaceGone
  BY <1>0, <1>13 DEF PlaceTooEarly, PlaceGone
<1>7. CASE DrawHidden
  BY <1>0, <1>7 DEF DrawHidden
<1>8. CASE Draws
  BY <1>0, <1>8 DEF Draws
<1>9. CASE Button
  BY <1>0, <1>9 DEF Button
<1>10. CASE AttachGame \/ LeaveSession \/ EndProgram
  BY <1>0, <1>10 DEF AttachGame, LeaveSession, EndProgram, ShowMenu
<1>11. CASE Keyboard \/ TakeConfig
  <2>1. UNCHANGED <<turn, menuOpen, clickThrough, inputAllowed, suppressed>>
    BY <1>11 DEF Keyboard, Press, Release, LatchTaken, TakeConfig
  <2> QED  BY <1>0, <2>1
<1>12. CASE UNCHANGED hotkeyVars
  BY <1>0, <1>12 DEF hotkeyVars
<1> QED
  BY <1>1, <1>2, <1>3, <1>4, <1>5, <1>6, <1>7, <1>8, <1>9, <1>10, <1>11, <1>12, <1>13
  DEF HotkeysNext, MainLoop, NothingToBind, CancelBinding, AwaitRelease, CaptureKey

LEMMA SleepingStep == HotkeysInv /\ [HotkeysNext]_hotkeyVars => Sleeping'
<1> SUFFICES ASSUME HotkeysInv, [HotkeysNext]_hotkeyVars PROVE Sleeping'
  OBVIOUS
<1>0. HotkeysTypeOK /\ Sleeping
  BY DEF HotkeysInv
<1> USE DEF Sleeping, BoundKeys, round, window, bindings, keyboard
<1>1. CASE PollSuppressed
  BY <1>0, <1>1 DEF PollSuppressed, Polled, ReleasedKeys
<1>2. ASSUME NEW inFront \in InFront, PollIdle(inFront) PROVE Sleeping'
  BY <1>0, <1>2, SampledKeys DEF PollIdle, Polled
<1>3. CASE PollExit \/ PollToggleFails
  BY <1>0, <1>3, SampledKeys DEF PollExit, PollToggleFails, Polled
<1>4. CASE PollToggle
  BY <1>0, <1>4, SampledKeys DEF PollToggle
<1>5. CASE Gate \/ PlaceTooEarly \/ PlaceWindow \/ PlaceGone \/ DrawHidden
  BY <1>0, <1>5 DEF Gate, PlaceTooEarly, PlaceWindow, PlaceGone, DrawHidden
<1>6. CASE NothingToBind
  BY <1>0, <1>6 DEF NothingToBind, Draws, PressedKeys
<1>7. CASE CancelBinding
  BY <1>0, <1>7 DEF CancelBinding, Draws
<1>8. CASE AwaitRelease
  BY <1>0, <1>8 DEF AwaitRelease, Draws, AnyKeyDown
<1>9. ASSUME NEW k \in Bindable, CaptureKey(k) PROVE Sleeping'
  <2>1. /\ binding \in Targets /\ binding # "none" /\ suppressed /\ unreleased = {}
        /\ bound \in [Targets -> Bindable] /\ k \in down /\ UNCHANGED down
    BY <1>0, <1>9 DEF CaptureKey, Draws, HotkeysTypeOK, PressedKeys
  <2>2. CASE Conflicts(binding, k)
    BY <1>9, <2>1, <2>2 DEF CaptureKey
  <2>3. CASE ~Conflicts(binding, k)
    <3>1. /\ bound' = [bound EXCEPT ![binding] = k] /\ binding' = "none" /\ suppressed'
          /\ unreleased' = {k}
      BY <1>9, <2>1, <2>3 DEF CaptureKey
    <3>2. bound'[binding] = k
      BY <2>1, <3>1
    <3> QED  BY <2>1, <3>1, <3>2
  <2> QED  BY <2>2, <2>3
<1>10. CASE Button
  BY <1>0, <1>10 DEF Button, BeginBinding
<1>11. CASE AttachGame \/ LeaveSession \/ EndProgram \/ TakeConfig
  BY <1>0, <1>11 DEF AttachGame, LeaveSession, EndProgram, TakeConfig
<1>12. CASE Keyboard
  BY <1>0, <1>12 DEF Keyboard, Press, Release, LatchTaken
<1>13. CASE UNCHANGED hotkeyVars
  BY <1>0, <1>13 DEF hotkeyVars
<1> QED
  BY <1>1, <1>2, <1>3, <1>4, <1>5, <1>6, <1>7, <1>8, <1>9, <1>10, <1>11, <1>12, <1>13
  DEF HotkeysNext, MainLoop

LEMMA AwakeStep == HotkeysInv /\ [HotkeysNext]_hotkeyVars => Awake'
<1> SUFFICES ASSUME HotkeysInv, [HotkeysNext]_hotkeyVars PROVE Awake'
  OBVIOUS
<1>0. HotkeysTypeOK /\ Sleeping /\ Awake
  BY DEF HotkeysInv
<1> USE DEF Awake, Pressed, round, window, bindings, keyboard
<1>1. CASE PollSuppressed
  <2>1. CASE binding = "none" /\ ReleasedKeys
    <3>1. \A t \in Pressable : bound[t] \in BoundKeys
      BY DEF BoundKeys, Targets
    <3> QED  BY <1>1, <2>1, <3>1 DEF PollSuppressed, Polled, ReleasedKeys
  <2>2. CASE ~(binding = "none" /\ ReleasedKeys)
    <3>1. suppressed'
      BY <1>0, <1>1, <2>2 DEF PollSuppressed, Sleeping
    <3> QED  BY <3>1
  <2> QED  BY <2>1, <2>2
<1>2. ASSUME NEW inFront \in InFront, PollKeys(inFront), UNCHANGED <<bound, down>>
      PROVE  Awake'
  BY <1>2, SampledKeys
<1>3. CASE \E inFront \in InFront : PollIdle(inFront)
  BY <1>2, <1>3 DEF PollIdle, Polled
<1>4. CASE PollExit \/ PollToggle \/ PollToggleFails
  BY <1>2, <1>4 DEF PollExit, PollToggle, PollToggleFails, Polled, InFront
<1>5. CASE Gate \/ PlaceTooEarly \/ PlaceWindow \/ PlaceGone \/ DrawHidden
  BY <1>0, <1>5 DEF Gate, PlaceTooEarly, PlaceWindow, PlaceGone, DrawHidden
<1>6. CASE NothingToBind
  BY <1>0, <1>6 DEF NothingToBind, Draws, PressedKeys
<1>7. CASE CancelBinding
  BY <1>7 DEF CancelBinding
<1>8. CASE AwaitRelease
  BY <1>0, <1>8 DEF AwaitRelease, Draws, Sleeping
<1>9. ASSUME NEW k \in Bindable, CaptureKey(k) PROVE Awake'
  BY <1>0, <1>9 DEF CaptureKey, Draws, Sleeping
<1>10. CASE Button
  BY <1>0, <1>10 DEF Button, BeginBinding
<1>11. CASE AttachGame \/ LeaveSession \/ EndProgram \/ TakeConfig
  BY <1>0, <1>11 DEF AttachGame, LeaveSession, EndProgram, TakeConfig
<1>12. ASSUME NEW k \in Keys, Press(k) \/ Release(k) \/ LatchTaken(k) PROVE Awake'
  BY <1>0, <1>12 DEF Press, Release, LatchTaken
<1>13. CASE UNCHANGED hotkeyVars
  BY <1>0, <1>13 DEF hotkeyVars
<1> QED
  BY <1>1, <1>3, <1>4, <1>5, <1>6, <1>7, <1>8, <1>9, <1>10, <1>11, <1>12, <1>13
  DEF HotkeysNext, MainLoop, Keyboard

LEMMA HotkeysInductive == HotkeysSpec => []HotkeysInv
<1>1. HotkeysInv /\ [HotkeysNext]_hotkeyVars => HotkeysInv'
  BY HotkeysTypeStep, DistinctStep, ClosedStep, SleepingStep, AwakeStep DEF HotkeysInv
<1> QED  BY HotkeysInitInv, <1>1, PTL DEF HotkeysSpec

(* No key means two things, held keys are heeded only with the menu hidden, *)
(* no press is replayed, and the press that binds a key does not use it.    *)
THEOREM KeysStayMeant == HotkeysSpec => KeysAreMeant
<1>1. HotkeysInv => InputIsMeant
  <2> SUFFICES ASSUME HotkeysInv PROVE InputIsMeant
    OBVIOUS
  <2>1. LetsThrough => binding = "none" /\ unreleased = {} /\ (~menuOpen \/ turn = "gate")
    BY DEF HotkeysInv, LetsThrough, Closed, Sleeping
  <2> QED  BY <2>1 DEF HotkeysInv, InputIsMeant, Closed
<1>2. HotkeysInv /\ [HotkeysNext]_hotkeyVars => [PressIsMeant]_hotkeyVars
  <2> SUFFICES ASSUME HotkeysInv, HotkeysNext PROVE PressIsMeant
    BY DEF PressIsMeant, Toggled, hotkeyVars, round, window
  <2> USE DEF round, window, bindings, keyboard, PressIsMeant, Toggled
  <2>1. ASSUME NEW t \in Pressable, PollKeys(TRUE), Pressed(t)
        PROVE  bound[t] \in recent \ unreleased
    BY <2>1, SampledKeys DEF HotkeysInv, Awake
  <2>2. CASE PollExit
    BY <2>1, <2>2 DEF PollExit, Pressable
  <2>3. CASE PollToggle
    BY <2>1, <2>3 DEF PollToggle, Pressable
  <2>4. CASE PollSuppressed \/ PollToggleFails
    BY <2>4 DEF PollSuppressed, PollToggleFails, Revert
  <2>5. CASE \E inFront \in InFront : PollIdle(inFront)
    BY <2>5 DEF PollIdle
  <2>6. CASE Gate \/ PlaceTooEarly \/ PlaceWindow \/ PlaceGone
    BY <2>6 DEF Gate, PlaceTooEarly, PlaceWindow, PlaceGone
  <2>7. CASE DrawHidden \/ Draws \/ Button
    BY <2>7 DEF DrawHidden, Draws, Button
  <2>8. CASE AttachGame \/ LeaveSession \/ EndProgram \/ TakeConfig
    BY <2>8 DEF AttachGame, LeaveSession, EndProgram, TakeConfig
  <2>9. CASE Keyboard
    BY <2>9 DEF Keyboard, Press, Release, LatchTaken
  <2> QED
    BY <2>2, <2>3, <2>4, <2>5, <2>6, <2>7, <2>8, <2>9
    DEF HotkeysNext, MainLoop, NothingToBind, CancelBinding, AwaitRelease, CaptureKey
<1>3. ASSUME HotkeysInv, HotkeysInv', [HotkeysNext]_hotkeyVars
      PROVE  [InputIsMeant' /\ PressIsMeant]_hotkeyVars
  <2>1. InputIsMeant'
    BY <1>1, <1>3, PTL
  <2> QED  BY <1>2, <1>3, <2>1
<1> QED  BY <1>1, <1>3, HotkeysInductive, PTL DEF HotkeysSpec, KeysAreMeant
=============================================================================
