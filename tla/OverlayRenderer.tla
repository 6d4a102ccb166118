-------------------------- MODULE OverlayRenderer --------------------------
(***************************************************************************)
(* The overlay's window in the rounds of main(): a waiting screen, then a   *)
(* session with the game, then a waiting screen again, each with an SDL     *)
(* renderer and ImGui of its own (sdl_renderer.cpp), and the map images of  *)
(* the local radar, which live in the renderer (local_fixed_radar.cpp).     *)
(* Everything runs on the main thread.  The graphics device may be lost in  *)
(* any frame; then the renderer is made anew under the same window.         *)
(*                                                                          *)
(* All that is asked of a renderer's revision is whether it is still the    *)
(* one the cached images were loaded for, and so that is what is kept of it.*)
(* Hotkeys and SDL's quit event appear as choices of the user.              *)
(***************************************************************************)
EXTENDS Naturals, Sequences

CONSTANTS
    Images,         \* images of maps and of their levels
    Nothing,        \* no image: the local radar is switched off
    MaxCached       \* MAX_CACHED_RADAR_TEXTURES

ASSUME RendererAssumption == MaxCached \in Nat \ {0} /\ Nothing \notin Images

VARIABLES
    phase,      \* "between" rounds, "waiting", "attaching", "session", "ended"
    at,         \* the frame: "poll", "begin", "draw"; or "leave" the loop
    running, found,
    renderer,   \* there is an SDL renderer
    imgui,      \* "none", "context" without backends, or "ready"
    cacheCurrent,   \* textureCache.rendererRevision is the renderer's
    entries,    \* textureCache.entries, the least recently used first
    wanted, readable,   \* the image to draw, and whether files can be read
    acts        \* history: what the last step did to which textures

loop == <<phase, at, running, found>>
cache == <<cacheCurrent, entries, acts>>
user == <<wanted, readable>>
vars == <<loop, renderer, imgui, cache, user>>

Textures == {"live", "dead", "failed", "due"}   \* no texture in the last two
Entry == [image : Images, texture : Textures]
Acts == {"use", "destroy", "forget"} \X {"live", "dead"}

TypeOK ==
    /\ phase \in {"between", "waiting", "attaching", "session", "ended"}
    /\ at \in {"poll", "begin", "draw", "leave"}
    /\ {running, found, renderer, cacheCurrent, readable} \subseteq BOOLEAN
    /\ imgui \in {"none", "context", "ready"}
    /\ entries \in Seq(Entry) /\ Len(entries) <= MaxCached
    /\ wanted \in Images \cup {Nothing}
    /\ acts \subseteq Acts

Init ==
    /\ phase = "between" /\ at = "poll" /\ running = TRUE /\ found = FALSE
    /\ renderer = FALSE /\ imgui = "none"
    /\ cacheCurrent = TRUE /\ entries = <<>> /\ acts = {}
    /\ wanted = Nothing /\ readable \in BOOLEAN

Did(what, sequence) ==
    {<<what, sequence[k].texture>> :
        k \in {j \in 1..Len(sequence) : sequence[j].texture \in {"live", "dead"}}}

(* A renderer takes its textures along.                                     *)
Killed(sequence) ==
    [k \in 1..Len(sequence) |->
        IF sequence[k].texture = "live" THEN [sequence[k] EXCEPT !.texture = "dead"]
                                        ELSE sequence[k]]
-----------------------------------------------------------------------------
(* createRenderer: a new renderer has a new revision.                       *)
NewRevision_Unnoticed == cacheCurrent
NewRevision == FALSE

CreateRenderer ==
    /\ renderer' = TRUE
    /\ cacheCurrent' = NewRevision

(* recoverRenderer: without a renderer afterwards if none can be made, or   *)
(* if the backends of ImGui cannot be attached to it.                       *)
RecoverRenderer ==
    /\ entries' = Killed(entries)
    /\ \/ CreateRenderer /\ UNCHANGED imgui
       \/ /\ renderer' = FALSE
          /\ imgui' = IF imgui = "ready" THEN "context" ELSE imgui
          /\ \/ UNCHANGED cacheCurrent
             \/ imgui = "ready" /\ cacheCurrent' = NewRevision

(* shutdownImGui                                                            *)
ShutDownImGui_WhenReady == IF imgui = "ready" THEN "none" ELSE imgui
ShutDownImGui == "none"

(* local_fixed_radar::reset, after which the cache fits no renderer.        *)
ResetTextures ==
    /\ entries' = <<>> /\ cacheCurrent' = FALSE
    /\ acts' = Did(IF cacheCurrent /\ renderer THEN "destroy" ELSE "forget", entries)
-----------------------------------------------------------------------------
(* initWaiting and initImGui; without them the program ends.                *)
StartWaiting ==
    /\ phase = "between" /\ running
    /\ \/ /\ phase' = "waiting" /\ at' = "poll" /\ found' = FALSE
          /\ CreateRenderer /\ imgui' = "ready"
       \/ /\ phase' = "ended" /\ cacheCurrent' \in {cacheCurrent, NewRevision}
          /\ UNCHANGED <<at, found, renderer, imgui>>
    /\ acts' = {}
    /\ UNCHANGED <<running, entries, user>>

(* init for the game's window, initImGui and aimbot::init; when they fail,  *)
(* all is taken down and the next round begins.                             *)
Attach ==
    /\ phase = "attaching"
    /\ \/ /\ phase' = "session" /\ at' = "poll"
          /\ CreateRenderer /\ imgui' = "ready"
          /\ UNCHANGED entries /\ acts' = {}
       \/ /\ phase' = "between"
          /\ ResetTextures
          /\ UNCHANGED <<at, renderer, imgui>>
    /\ UNCHANGED <<running, found, user>>

InLoop == phase \in {"waiting", "session"}
Quits(stop) == running' = IF stop THEN FALSE ELSE running

(* pollEvents; the renderer is recovered when the device was reset.  In     *)
(* waiting the game may then be found, in a session be hidden.              *)
GivesUp_NotYet == running
GivesUp == FALSE

Poll ==
    /\ InLoop /\ at = "poll"
    /\ acts' = {}
    /\ \/ /\ \E stop \in BOOLEAN : Quits(stop)
          /\ UNCHANGED <<renderer, imgui, cacheCurrent, entries>>
       \/ /\ RecoverRenderer
          /\ IF renderer' THEN \E stop \in BOOLEAN : Quits(stop)
                          ELSE running' = GivesUp
    /\ \/ at' = "begin" /\ UNCHANGED found
       \/ phase = "waiting" /\ at' = "leave" /\ found' = TRUE
       \/ /\ phase = "session" /\ UNCHANGED found
          /\ at' \in IF running' THEN {"poll", "leave"} ELSE {"leave"}
    /\ UNCHANGED <<phase, user>>

(* beginFrame: a renderer that is missing, or fails to clear, is recovered  *)
(* and cleared; or the loop is left.                                        *)
BeginFrame ==
    /\ InLoop /\ at = "begin"
    /\ acts' = {}
    /\ \/ renderer /\ at' = "draw" /\ UNCHANGED <<running, renderer, imgui, cacheCurrent, entries>>
       \/ /\ RecoverRenderer
          /\ IF renderer' THEN at' = "draw" /\ UNCHANGED running
                          ELSE at' = "leave" /\ running' = FALSE
       \/ RecoverRenderer /\ at' = "leave" /\ running' = FALSE
    /\ UNCHANGED <<phase, found, user>>

(* The game may be gone when a frame of a session ends.                     *)
NextTurn ==
    \/ at' = "poll" /\ running
    \/ at' = "leave" /\ (running => phase = "session")

DrawWaiting ==
    /\ phase = "waiting" /\ at = "draw"
    /\ NextTurn /\ acts' = {}
    /\ UNCHANGED <<phase, running, found, renderer, imgui, cacheCurrent, entries, user>>

(* The local radar is switched off, or has no map to draw.                  *)
DrawNoMap ==
    /\ phase = "session" /\ at = "draw" /\ NextTurn
    /\ \/ wanted = Nothing /\ ResetTextures
       \/ wanted # Nothing /\ acts' = {} /\ UNCHANGED <<cacheCurrent, entries>>
    /\ UNCHANGED <<phase, running, found, renderer, imgui, user>>

(* textureForImage: images of an older renderer are forgotten.  An image     *)
(* that is cached becomes the last used; one that failed is read again      *)
(* after two seconds.                                                       *)
Retry_Never(texture) == FALSE
Retry(texture) == texture = "due"

(* loadPngTexture                                                           *)
Load == IF readable THEN "live" ELSE "failed"

Without(sequence, k) ==
    [j \in 1..Len(sequence) - 1 |-> IF j < k THEN sequence[j] ELSE sequence[j + 1]]

DrawCached(kept) ==
    \E k \in 1..Len(kept) :
        LET texture == IF Retry(kept[k].texture) THEN Load ELSE kept[k].texture
            entry == [image |-> wanted, texture |-> texture]
        IN  /\ kept[k].image = wanted
            /\ entries' = Append(Without(kept, k), entry)
            /\ acts' = Did("use", <<entry>>)

(* An image that is not: the least recently used one makes place.           *)
DrawLoaded(kept) ==
    LET full == Len(kept) >= MaxCached
        entry == [image |-> wanted, texture |-> Load]
    IN  /\ \A k \in 1..Len(kept) : kept[k].image # wanted
        /\ entries' = Append(IF full THEN Tail(kept) ELSE kept, entry)
        /\ acts' = Did("use", <<entry>>)
                     \cup (IF full THEN Did("destroy", <<Head(kept)>>) ELSE {})
                     \cup (IF cacheCurrent THEN {} ELSE Did("forget", entries))

DrawMap ==
    /\ phase = "session" /\ at = "draw" /\ wanted # Nothing /\ NextTurn
    /\ LET kept == IF cacheCurrent THEN entries ELSE <<>>
       IN  DrawCached(kept) \/ DrawLoaded(kept)
    /\ cacheCurrent' = TRUE
    /\ UNCHANGED <<phase, running, found, renderer, imgui, user>>

(* shutdownImGui, reset and destroy at the end of a loop.                   *)
Leave ==
    /\ InLoop /\ at = "leave"
    /\ imgui' = ShutDownImGui
    /\ ResetTextures
    /\ renderer' = FALSE
    /\ phase' = IF ~running THEN "ended"
                ELSE IF phase = "waiting" /\ found THEN "attaching" ELSE "between"
    /\ UNCHANGED <<at, running, found, user>>
-----------------------------------------------------------------------------
(* The user's choices, the map that is played, its level; files; the clock. *)
WantedChanges ==
    /\ wanted' \in (Images \cup {Nothing}) \ {wanted}
    /\ UNCHANGED <<loop, renderer, imgui, cache, readable>>

FilesChange ==
    /\ readable' = ~readable
    /\ UNCHANGED <<loop, renderer, imgui, cache, wanted>>

RetryTimeComes ==
    /\ \E k \in 1..Len(entries) :
         /\ entries[k].texture = "failed"
         /\ entries' = [entries EXCEPT ![k].texture = "due"]
    /\ UNCHANGED <<loop, renderer, imgui, cacheCurrent, acts, user>>
-----------------------------------------------------------------------------
Main ==
    \/ StartWaiting \/ Attach \/ Poll \/ BeginFrame
    \/ DrawWaiting \/ DrawNoMap \/ DrawMap \/ Leave

Next == Main \/ WantedChanges \/ FilesChange \/ RetryTimeComes

Spec == Init /\ [][Next]_vars
-----------------------------------------------------------------------------
(* No image of a renderer that is gone is drawn or destroyed, and none of   *)
(* the present one is forgotten before it is destroyed.                     *)
TexturesAccounted ==
    acts \subseteq {<<"use", "live">>, <<"destroy", "live">>, <<"forget", "dead">>}

(* While the program runs, each frame is drawn by a renderer with the        *)
(* backends of ImGui attached, however often the device was lost; and in     *)
(* any case the backends never outlive their renderer.  Not covered is the   *)
(* one frame that may follow once a failed recovery has told the program to  *)
(* end.                                                                      *)
FramesAreReady ==
    /\ imgui = "ready" => renderer
    /\ running /\ InLoop /\ at \in {"poll", "draw"} => imgui = "ready"

(* What ImGui asserts at the start of each frame: its backends are attached. *)
(* The program does not keep it: when a recovery in pollEvents has failed,   *)
(* the frame goes on, and beginFrame may recover the renderer without them.  *)
FramesHaveBackends == InLoop /\ at = "draw" => imgui = "ready"

(* What one round made, nothing of it is left to the next.                  *)
RoundsStartClean ==
    ~InLoop => ~renderer /\ imgui = "none" /\ entries = <<>>

(* In a running program the renderer and ImGui come and go together, and no *)
(* round begins with anything of the last.                                  *)
RendererIsWhole == TypeOK /\ FramesAreReady /\ RoundsStartClean

(* An image that could not be read comes to be drawn once it can be, also   *)
(* when the device is lost again and again.                                 *)
MapComesBack ==
    \A i \in Images :
        <>[](phase = "session" /\ wanted = i /\ readable) => []<>(<<"use", "live">> \in acts)
=============================================================================
