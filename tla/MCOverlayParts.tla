---------------------------- MODULE MCOverlayParts ----------------------------
(***************************************************************************)
(* Three parts of the overlay's process side by side: the renderer with the *)
(* images that live in it, the viewport with its detection worker, and the  *)
(* recorder.  They share no variable and none waits for another, so that    *)
(* what one does in a behaviour of all three it does in one of its own as   *)
(* well: it is enough to let, in each behaviour, a single part move.        *)
(***************************************************************************)
EXTENDS OverlayRenderer, ViewportDetection, RadarRecording

VARIABLE part       \* the part that moves: "renderer", "viewport" or "recorder"

partVars == <<vars, viewportVars, recordingVars, part>>

(* Of a part that rests one initial state is enough.                        *)
PartsInit ==
    /\ part \in {"renderer", "viewport", "recorder"}
    /\ Init /\ (part = "renderer" \/ readable)
    /\ ViewportInit
    /\ \/ part = "viewport"
       \/ content = Full /\ rect = CHOOSE r \in Rects : TRUE
    /\ RecordingInit

Renderer(A) == part = "renderer" /\ A /\ UNCHANGED <<viewportVars, recordingVars, part>>
Viewport(A) == part = "viewport" /\ A /\ UNCHANGED <<vars, recordingVars, part>>
Recorder(A) == part = "recorder" /\ A /\ UNCHANGED <<vars, viewportVars, part>>

PartsNext == Renderer(Next) \/ Viewport(ViewportNext) \/ Recorder(RecordingNext)

(* Renderer: the main thread runs, the game's window is visible again and   *)
(* again and its map known, and time passes.  Viewport: frames go on while  *)
(* the game is attached, every two seconds one of them asks for a detection,*)
(* a destroy that has begun is carried through, and the worker is scheduled.*)
(* Recorder: the writer is scheduled and sync() is called in every frame.   *)
(* As one part only moves, strong fairness of two parts' steps is the       *)
(* strong fairness of their disjunction.                                    *)
PartsFairness ==
    /\ WF_partVars(Renderer(Main))
    /\ SF_partVars(Renderer(Poll /\ at' = "begin"))
    /\ SF_partVars(Renderer(DrawMap) \/ Viewport(Detect(TRUE)))
    /\ WF_partVars(Renderer(RetryTimeComes))
    /\ WF_partVars(Viewport(Place))
    /\ WF_partVars(Viewport(Detect(TRUE) \/ Detect(FALSE)))
    /\ WF_partVars(Viewport(Destroy))
    /\ WF_partVars(Viewport(Worker))
    /\ WF_partVars(Recorder(Writer))
    /\ WF_partVars(Recorder(Start \/ StopBegin \/ Join \/ StopEnd))

PartsSpec == PartsInit /\ [][PartsNext]_partVars /\ PartsFairness
=============================================================================
