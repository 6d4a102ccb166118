------------------------- MODULE ViewportDetection -------------------------
(***************************************************************************)
(* The overlay's viewport in sdl_renderer.cpp: which part of the game's     *)
(* window holds the picture.  The main thread follows the window in         *)
(* updateWindowPosition; a worker thread looks at the screen for black bars *)
(* (detectContentViewport), and the two talk through one request slot and   *)
(* one result slot under viewportWorkerMutex.                               *)
(*                                                                          *)
(* A detection that was asked for before the window moved or the mode       *)
(* changed is told by its generation.  All the code asks of a generation is *)
(* whether it is the current one, and so that is what is kept of it.        *)
(* A call that finds the window hidden, spanning two monitors or refusing   *)
(* to be placed returns early and changes nothing here.  What SDL tells of  *)
(* the size of the overlay's own window need not be what it was given.      *)
(***************************************************************************)
EXTENDS Naturals, Sequences

CONSTANTS
    Rects,      \* client rectangles of the game's window, each of its own size
    Views,      \* where the picture may lie in a client rectangle
    Full,       \* the whole of it
    None

ASSUME ViewportAssumption ==
    /\ Full \in Views
    /\ None \notin [of : Rects, view : Views]
    /\ None \notin [rect : Rects, current : BOOLEAN]

VARIABLES
    rect, content,  \* the game: its client rectangle, and the picture in it
    capturable,     \* the desktop can be captured
    sdl,            \* SDL_GetWindowSize of the overlay's window
    mode, applied,  \* menu::viewportMode and appliedViewportMode
    menuVisible,
    session,        \* "off", "on" between init and destroy, "stopping" in destroy
    pc,             \* the main thread is to "place" the window or to "detect"
    geometry,       \* currentGeometry.gameClient
    canvas,         \* WINDOW_W and WINDOW_H, which the overlay draws with
    viewport,       \* currentViewport
    pendingViewport, agreed,    \* agreed is pendingViewportSamples
    request, result,    \* the slots
    worker, job,        \* "none", "wait" or "busy", and what it works on
    detected        \* history: the last detections taken since a new generation

game == <<rect, content, capturable, sdl>>
choice == <<mode, menuVisible>>
shown == <<geometry, canvas, viewport, pendingViewport, agreed, applied>>
thread == <<worker, job>>
viewportVars == <<game, choice, session, pc, shown, request, result, thread, detected>>

Viewports == [of : Rects, view : Views]
Jobs == [rect : Rects, current : BOOLEAN]
Detections == [rect : Rects, current : BOOLEAN, found : Views]

ViewportTypeOK ==
    /\ rect \in Rects /\ content \in Views /\ geometry \in Rects
    /\ sdl \in Rects /\ canvas \in Rects
    /\ mode \in {"auto", "fixed"} /\ applied \in {"auto", "fixed"}
    /\ {menuVisible, capturable} \subseteq BOOLEAN
    /\ session \in {"off", "on", "stopping"} /\ pc \in {"place", "detect"}
    /\ viewport \in Viewports /\ pendingViewport \in Viewports \cup {None}
    /\ agreed \in 0..2
    /\ request \in Jobs \cup {None} /\ job \in Jobs \cup {None}
    /\ result \in Detections \cup {None}
    /\ worker \in {"none", "wait", "busy"}
    /\ detected \in Seq(Views)

ViewportInit ==
    /\ rect \in Rects /\ content \in Views /\ capturable = TRUE
    /\ mode = "auto" /\ applied = "auto" /\ menuVisible = TRUE
    /\ session = "off" /\ pc = "place"
    /\ sdl = rect /\ canvas = rect
    /\ geometry = rect /\ viewport = [of |-> rect, view |-> Full]
    /\ pendingViewport = None /\ agreed = 0
    /\ request = None /\ result = None /\ worker = "none" /\ job = None
    /\ detected = <<>>

Fixed(r) == [of |-> r, view |-> Full]
Old(d) == IF d = None THEN None ELSE [d EXCEPT !.current = FALSE]
-----------------------------------------------------------------------------
(* The game and the user.                                                   *)
GameMoves ==
    /\ rect' \in Rects \ {rect}
    /\ UNCHANGED <<content, capturable, sdl, choice, session, pc, shown, request, result,
                   thread, detected>>

PictureChanges ==
    /\ content' \in Views \ {content}
    /\ UNCHANGED <<rect, capturable, sdl, choice, session, pc, shown, request, result,
                   thread, detected>>

CaptureChanges ==
    /\ capturable' = ~capturable
    /\ UNCHANGED <<rect, content, sdl, choice, session, pc, shown, request, result, thread,
                   detected>>

(* The overlay's window gets another size, or SDL comes to know it.         *)
SizeChanges ==
    /\ sdl' \in Rects \ {sdl}
    /\ UNCHANGED <<rect, content, capturable, choice, session, pc, shown, request, result,
                   thread, detected>>

ChangeMode ==
    /\ pc = "place"
    /\ mode' \in {"auto", "fixed"} \ {mode}
    /\ UNCHANGED <<game, menuVisible, session, pc, shown, request, result, thread, detected>>

ToggleMenu ==
    /\ pc = "place"
    /\ menuVisible' = ~menuVisible
    /\ UNCHANGED <<game, mode, session, pc, shown, request, result, thread, detected>>
-----------------------------------------------------------------------------
(* getGameDisplayGeometry: where the game's window is now.                  *)
ClientRect == rect

(* detectContentViewport: what its bars leave of a captured rectangle of    *)
(* the screen.  Where the game's window no longer is there may be anything. *)
InsideBars(r) == IF r = ClientRect THEN {content} ELSE Views

(* captureClientSample: one that fails counts as a picture without bars.    *)
Seen(r) == IF capturable THEN InsideBars(r) ELSE {Full}

(* sdl_renderer::init and destroy.  The first viewport is detected at once, *)
(* on the main thread; updateRenderDimensions comes last.                   *)
InitWindow ==
    LET resized == sdl # ClientRect
    IN  /\ session = "off" /\ worker = "none"
        /\ session' = "on" /\ pc' = "place"
        /\ geometry' = ClientRect /\ applied' = mode /\ canvas' = sdl
        /\ \E seen \in Seen(ClientRect) :
             viewport' = IF resized THEN Fixed(sdl)
                         ELSE [of |-> ClientRect,
                               view |-> IF mode = "auto" THEN seen ELSE Full]
        /\ pendingViewport' = (IF resized THEN None ELSE viewport')
        /\ agreed' = IF resized THEN 0 ELSE 1
        /\ request' = None /\ result' = None /\ worker' = "wait" /\ job' = None
        /\ detected' = <<>>
        /\ UNCHANGED <<game, choice>>

StopWorker ==
    /\ session = "on" /\ pc = "place"
    /\ session' = "stopping"
    /\ request' = None
    /\ UNCHANGED <<game, choice, pc, shown, result, thread, detected>>

Destroy ==
    /\ session = "stopping" /\ worker = "none"
    /\ session' = "off"
    /\ result' = None /\ pendingViewport' = None /\ agreed' = 0 /\ detected' = <<>>
    /\ UNCHANGED <<game, choice, pc, geometry, canvas, viewport, applied, request, thread>>
-----------------------------------------------------------------------------
(* updateWindowPosition, first half: the window is followed, its size as    *)
(* SDL tells it taken over, and a change of the mode applied, in this order.*)
(* In automatic mode a new generation of detections begins when the window  *)
(* has moved or the mode was set; but a size SDL alone tells does not.      *)
NewGeneration(r) ==
    /\ request' = [rect |-> r, current |-> TRUE]
    /\ job' = Old(job) /\ result' = Old(result)

Moved == ClientRect # geometry
Switched == mode # applied

(* updateRenderDimensions                                                   *)
Resized == sdl # IF Moved THEN ClientRect ELSE canvas

(* The viewport moves along with the window it belongs to.                  *)
Remapped ==
    [of : {ClientRect}, view : IF viewport.of = geometry THEN {viewport.view} ELSE Views]

(* The last of the three to happen decides.                                 *)
PlacedViewport ==
    IF mode = "fixed" /\ (Switched \/ (Moved /\ ~Resized)) THEN {Fixed(ClientRect)}
    ELSE IF Resized THEN {Fixed(sdl)}
    ELSE IF Moved THEN Remapped ELSE {viewport}

Place ==
    /\ session = "on" /\ pc = "place" /\ pc' = "detect"
    /\ geometry' = ClientRect /\ applied' = mode /\ canvas' = sdl
    /\ viewport' \in PlacedViewport
    /\ IF mode = "auto" /\ (Moved \/ Switched)
       THEN NewGeneration(ClientRect) ELSE UNCHANGED <<request, job, result>>
    /\ IF Moved \/ Switched \/ Resized
       THEN /\ detected' = <<>>
            /\ IF mode = "auto" /\ (Switched \/ ~Resized)
               THEN pendingViewport' = viewport' /\ agreed' = 1
               ELSE pendingViewport' = None /\ agreed' = 0
       ELSE UNCHANGED <<pendingViewport, agreed, detected>>
    /\ UNCHANGED <<game, choice, session, worker>>

(* Second half: a detection is asked for from time to time, and the one     *)
(* that is ready is taken.  A viewport that differs must be found twice.    *)
Ask == request' = [rect |-> geometry, current |-> TRUE]

Current_Unchecked(d) == TRUE
Current(d) == d.current /\ d.rect = geometry

Enough_AtOnce(n) == n >= 1
Enough_Never(n) == n > 2
Enough(n) == n >= 2

Consume(found) ==
    LET same == pendingViewport = found
        count == IF same THEN IF agreed < 2 THEN agreed + 1 ELSE 2 ELSE 1
    IN  /\ pendingViewport' = found /\ agreed' = count
        /\ viewport' = IF Enough(count) THEN found ELSE viewport
        /\ detected' = IF detected = <<>> THEN <<found.view>>
                       ELSE <<detected[Len(detected)], found.view>>

Detect(due) ==
    /\ session = "on" /\ pc = "detect" /\ pc' = "place"
    /\ result' = IF mode = "auto" THEN None ELSE result
    /\ IF mode = "auto" /\ result # None /\ Current(result)
       THEN LET found == [of |-> result.rect, view |-> result.found]
            IN  /\ Consume(found)
                /\ IF pendingViewport # found \/ (due /\ ~menuVisible)
                   THEN Ask ELSE UNCHANGED request
       ELSE /\ UNCHANGED <<viewport, pendingViewport, agreed, detected>>
            /\ IF due /\ ~menuVisible /\ mode = "auto" THEN Ask ELSE UNCHANGED request
    /\ UNCHANGED <<game, choice, session, geometry, canvas, applied, thread>>
-----------------------------------------------------------------------------
(* The worker takes the request, detects without the lock, and publishes.   *)
Stopping_Never == FALSE
Stopping == session = "stopping"

WorkerTakes ==
    /\ worker = "wait" /\ ~Stopping /\ request # None
    /\ worker' = "busy" /\ job' = request /\ request' = None
    /\ UNCHANGED <<game, choice, session, pc, shown, result, detected>>

WorkerDetects ==
    /\ worker = "busy"
    /\ worker' = "wait" /\ job' = None
    /\ \E seen \in Seen(job.rect) :
            result' = IF Stopping THEN result
                      ELSE [rect |-> job.rect, current |-> job.current, found |-> seen]
    /\ UNCHANGED <<game, choice, session, pc, shown, request, detected>>

WorkerLeaves ==
    /\ worker = "wait" /\ Stopping
    /\ worker' = "none"
    /\ UNCHANGED <<game, choice, session, pc, shown, request, result, job, detected>>
-----------------------------------------------------------------------------
WindowThread == InitWindow \/ StopWorker \/ Destroy \/ Place \/ Detect(TRUE) \/ Detect(FALSE)
Worker == WorkerTakes \/ WorkerDetects \/ WorkerLeaves

ViewportNext ==
    \/ GameMoves \/ PictureChanges \/ CaptureChanges \/ SizeChanges
    \/ ChangeMode \/ ToggleMenu
    \/ WindowThread \/ Worker

ViewportSpec == ViewportInit /\ [][ViewportNext]_viewportVars
-----------------------------------------------------------------------------
(* The viewport is one of the window the overlay covers, whenever SDL tells *)
(* the size that window was given: a late detection of where the window was *)
(* is not applied to where it is, and no viewport of a passing size stays.  *)
ViewportOfWindow == session # "off" /\ canvas = geometry => viewport.of = geometry

(* The window, the viewport and the slots of the worker are in order.       *)
ViewportInOrder == ViewportTypeOK /\ ViewportOfWindow

(* Between two moves of the window the viewport changes only to what two    *)
(* detections in a row have found, both asked for since the last move.      *)
TwoAgree ==
    [][session = "on" /\ pc = "detect" /\ viewport' # viewport =>
         detected' = <<viewport'.view, viewport'.view>>]_viewportVars

(* When the window, its size and the picture rest and can be captured, the  *)
(* overlay comes to fit the picture, whatever detections failed before,     *)
(* were under way, lost or overwritten.                                     *)
ViewportSettles ==
    \A r \in Rects, v \in Views :
        <>[](session = "on" /\ mode = "auto" /\ ~menuVisible /\ capturable
             /\ rect = r /\ sdl = r /\ content = v)
            => <>[](viewport = [of |-> r, view |-> v])

(* destroy() never waits for ever for the worker.                           *)
DestroyEnds == []<>(session # "stopping")

(* What the worker finds comes into effect, and the worker goes when told.  *)
DetectionServes == ViewportSettles /\ DestroyEnds
=============================================================================
