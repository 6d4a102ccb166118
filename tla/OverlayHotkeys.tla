--------------------------- MODULE OverlayHotkeys ---------------------------
(***************************************************************************)
(* The hotkeys of the overlay: which press of a key does what.  The main    *)
(* thread samples the keys that end the program and show the menu           *)
(* (sdl_renderer::pollEvents), decides whether held keys may act in the     *)
(* game (inputAllowed, in pollEvents and updateWindowPosition), and lets    *)
(* the user bind keys anew in the menu (UpdateKeyBinding and                *)
(* RenderHotkeyButton of menu.hpp).  The data thread works with the copy of *)
(* the settings it took last, and asks inputAllowed before it heeds a held  *)
(* key (aimbot::update, aimbot::updateTriggerbot).                          *)
(*                                                                          *)
(* GetAsyncKeyState tells whether a key is down, and whether it was pressed *)
(* since any program last asked.  Which window is in front is read anew by  *)
(* each handler and may be any.  The order in which keys are asked for is   *)
(* left open: of several keys that are down any may be met first.  The      *)
(* window's close event and lost graphics devices belong to OverlayRenderer.*)
(***************************************************************************)
EXTENDS Naturals, FiniteSets

CONSTANTS
    Bindable,   \* keys that may be bound
    Escape,     \* VK_ESCAPE, which cancels a binding
    Held,       \* targets of keys that act while held: "aim", "trigger"
    MaxDown,    \* bound of the model: keys held down at once
    MaxRecent   \* bound of the model: keys pressed and not yet asked for

ASSUME HotkeysAssumption ==
    /\ Escape \notin Bindable
    /\ {"menu", "exit", "none"} \cap Held = {}
    /\ MaxDown \in Nat /\ MaxRecent \in Nat

Keys == Bindable \cup {Escape}
Pressable == {"menu", "exit"}
Targets == Pressable \cup Held

VARIABLES
    turn,           \* main thread: "waiting" for the game; in a session "poll", "gate",
                    \* "place", "draw" or "button"; or "ended"
    alive, lost,    \* sdl_renderer::running and gameDisconnected
    menuOpen,       \* sdl_renderer::menuVisible
    clickThrough,   \* WS_EX_TRANSPARENT of the overlay's window
    inputAllowed,
    bound,          \* menuToggleKey, exitKey, aimbotKey and triggerbotKey
    binding,        \* bindingKeyTarget, "none" while isBindingKey is unset
    awaiting,       \* bindingWaitingForRelease
    suppressed,     \* suppressHotkeysUntilRelease
    tracked,        \* the trackers: the key, if it was down when last sampled
    told, config,   \* runtimeConfigSnapshot, and the data thread's copy
    down, latched,  \* the keyboard, as GetAsyncKeyState reports it
    \* history
    recent,         \* keys pressed since the last poll
    unreleased      \* keys not let go since they were bound

keyboard == <<down, latched, recent, unreleased>>
round == <<alive, lost>>
window == <<menuOpen, clickThrough>>
bindings == <<bound, binding, awaiting>>
hotkeyVars == <<turn, round, window, inputAllowed, bindings, suppressed, tracked, told,
                config, keyboard>>

Configs == [suppressed : BOOLEAN, keys : [Held -> Bindable]]

HotkeysTypeOK ==
    /\ turn \in {"waiting", "poll", "gate", "place", "draw", "button", "ended"}
    /\ alive \in BOOLEAN /\ lost \in BOOLEAN
    /\ menuOpen \in BOOLEAN /\ clickThrough \in BOOLEAN /\ inputAllowed \in BOOLEAN
    /\ bound \in [Targets -> Bindable]
    /\ binding \in Targets \cup {"none"}
    /\ awaiting \in BOOLEAN /\ suppressed \in BOOLEAN
    /\ tracked \in [Pressable -> SUBSET Bindable]
    /\ told \in Configs /\ config \in Configs
    /\ down \subseteq Keys /\ latched \subseteq Keys
    /\ recent \subseteq Keys /\ unreleased \subseteq Keys

Distinct(keys) == \A t, u \in Targets : keys[t] = keys[u] => t = u

(* buildRuntimeConfig, as far as keys go.                                   *)
Config(keys, suppresses) ==
    [suppressed |-> suppresses, keys |-> [t \in Held |-> keys[t]]]

(* foregroundBelongsToGameUi and isGameClientForeground: either may be.     *)
InFront == BOOLEAN

(* What may be left latched after the first of the keys asked for that is   *)
(* down has ended the search.                                               *)
LeftOf(keys) == {latched \ asked : asked \in SUBSET (keys \cap latched)}

HotkeysInit ==
    /\ turn = "waiting" /\ alive = TRUE /\ lost = FALSE
    /\ menuOpen = TRUE /\ clickThrough = FALSE /\ inputAllowed = FALSE
    /\ bound \in [Targets -> Bindable] /\ Distinct(bound)
    /\ binding = "none" /\ awaiting = FALSE /\ suppressed = FALSE
    /\ tracked = [t \in Pressable |-> {}]
    /\ told = Config(bound, FALSE) /\ config = told
    /\ down \in SUBSET Keys /\ Cardinality(down) <= MaxDown
    /\ latched = down /\ recent = down /\ unreleased = {}
-----------------------------------------------------------------------------
(* The user, and the keyboard's own repetition of a key that is held.       *)
Press(k) ==
    /\ Cardinality(down \cup {k}) <= MaxDown
    /\ Cardinality(latched \cup recent \cup {k}) <= MaxRecent
    /\ down' = down \cup {k}
    /\ latched' = latched \cup {k}
    /\ recent' = recent \cup {k}
    /\ UNCHANGED <<turn, round, window, inputAllowed, bindings, suppressed, tracked, told,
                   config, unreleased>>

Release(k) ==
    /\ k \in down
    /\ down' = down \ {k}
    /\ unreleased' = unreleased \ {k}
    /\ UNCHANGED <<turn, round, window, inputAllowed, bindings, suppressed, tracked, told,
                   config, latched, recent>>

(* Another program, or the data thread, asks for the key.                   *)
LatchTaken(k) ==
    /\ k \in latched
    /\ latched' = latched \ {k}
    /\ UNCHANGED <<turn, round, window, inputAllowed, bindings, suppressed, tracked, told,
                   config, down, recent, unreleased>>
-----------------------------------------------------------------------------
(* pollEvents.                                                              *)
InSession == turn \notin {"waiting", "ended"}
Polls == alive /\ (turn = "waiting" \/ (turn = "poll" /\ ~lost))
Polled ==
    /\ turn' = IF turn = "poll" THEN "place" ELSE turn
    /\ recent' = {}
    /\ UNCHANGED <<lost, bindings, config, down, unreleased>>

(* publishRuntimeConfig.                                                    *)
Publish == told' = Config(bound, binding' # "none" \/ suppressed')

BoundKeys == {bound[t] : t \in Targets}
ReleasedKeys_Unasked == TRUE
(* ConfiguredHotkeysReleased.                                               *)
ReleasedKeys == BoundKeys \cap down = {}

(* While a key is bound, and afterwards until the bound keys are let go.    *)
PollSuppressed ==
    /\ Polls /\ (binding # "none" \/ suppressed)
    /\ Polled
    /\ tracked' = [t \in Pressable |-> {}]
    /\ IF binding = "none" /\ ReleasedKeys
       THEN /\ suppressed' = FALSE
            /\ Publish
            /\ latched' = latched \ BoundKeys
       ELSE /\ latched' \in LeftOf(IF binding = "none" THEN BoundKeys ELSE {})
            /\ UNCHANGED <<suppressed, told>>
    /\ UNCHANGED <<alive, window, inputAllowed>>

(* consumeAsyncKeyPress.                                                    *)
Pressed(t) == bound[t] \in latched \cup (down \ tracked[t])

Sample_InFront(inFront) ==
    IF inFront THEN /\ tracked' = [t \in Pressable |-> {bound[t]} \cap down]
                    /\ latched' = latched \ {bound[t] : t \in Pressable}
               ELSE UNCHANGED <<tracked, latched>>
Sample(inFront) ==
    /\ tracked' = [t \in Pressable |-> {bound[t]} \cap down]
    /\ latched' = latched \ {bound[t] : t \in Pressable}

PollKeys(inFront) ==
    /\ Polls /\ binding = "none" /\ ~suppressed
    /\ Sample(inFront)
    /\ UNCHANGED <<suppressed, told>>

PollIdle(inFront) ==
    /\ inFront => ~Pressed("exit") /\ ~(Pressed("menu") /\ turn = "poll")
    /\ PollKeys(inFront) /\ Polled
    /\ UNCHANGED <<alive, window, inputAllowed>>

PollExit ==
    /\ Pressed("exit")
    /\ PollKeys(TRUE) /\ Polled
    /\ alive' = FALSE
    /\ UNCHANGED <<window, inputAllowed>>

ShowMenu(visible) == menuOpen' = visible /\ clickThrough' = ~visible

(* The menu is shown or hidden; inputAllowed follows in a step of its own,  *)
(* which the data thread may precede.                                       *)
PollToggle ==
    /\ turn = "poll" /\ Pressed("menu") /\ ~Pressed("exit")
    /\ PollKeys(TRUE)
    /\ ShowMenu(~menuOpen)
    /\ turn' = "gate" /\ recent' = {}
    /\ UNCHANGED <<round, inputAllowed, bindings, config, down, unreleased>>

(* setClickThrough fails: the menu stays what it was.                       *)
Revert_Forgotten == menuOpen' = ~menuOpen
Revert == menuOpen' = menuOpen

PollToggleFails ==
    /\ turn = "poll" /\ Pressed("menu") /\ ~Pressed("exit")
    /\ PollKeys(TRUE) /\ Polled
    /\ Revert
    /\ inputAllowed' = FALSE
    /\ UNCHANGED <<alive, clickThrough>>

MayAct_UnderMenu == binding = "none" /\ ~suppressed
MayAct == ~menuOpen /\ binding = "none" /\ ~suppressed

Gate ==
    /\ turn = "gate" /\ turn' = "place"
    /\ inputAllowed' \in {FALSE, MayAct}
    /\ UNCHANGED <<round, window, bindings, suppressed, tracked, told, config, keyboard>>
-----------------------------------------------------------------------------
(* updateWindowPosition, called again too early: a frame is drawn if the    *)
(* last full call found the game's window to be seen.                       *)
PlaceTooEarly ==
    /\ turn = "place" /\ turn' \in {"draw", "poll"}
    /\ UNCHANGED <<round, window, inputAllowed, bindings, suppressed, tracked, told, config,
                   keyboard>>

(* The game's window is in front or not, hidden, in the way or fine.        *)
PlaceWindow ==
    /\ turn = "place" /\ turn' \in {"draw", "poll"}
    /\ inputAllowed' \in {FALSE, MayAct}
    /\ UNCHANGED <<round, window, bindings, suppressed, tracked, told, config, keyboard>>

PlaceGone ==
    /\ turn = "place" /\ turn' \in {"draw", "poll"}
    /\ lost' = TRUE /\ inputAllowed' = FALSE
    /\ UNCHANGED <<alive, window, bindings, suppressed, tracked, told, config, keyboard>>
-----------------------------------------------------------------------------
(* GetPressedKey and AnyBindableKeyDown.                                    *)
PressedKeys == down \ {Escape}
AnyKeyDown == down # {}

(* menu::render.  The keys asked for on the way lose what was latched.      *)
DrawHidden ==
    /\ turn = "draw" /\ ~menuOpen
    /\ turn' = "poll"
    /\ UNCHANGED <<round, window, inputAllowed, bindings, suppressed, tracked, told, config,
                   keyboard>>

Draws ==
    /\ turn = "draw" /\ menuOpen
    /\ turn' = "button"
    /\ UNCHANGED <<round, window, inputAllowed, tracked, told, config, down, recent>>

(* UpdateKeyBinding.                                                        *)
NothingToBind ==
    /\ Draws
    /\ binding # "none" => Escape \notin down /\ ~awaiting /\ PressedKeys = {}
    /\ latched' = IF binding = "none" THEN latched ELSE {}
    /\ UNCHANGED <<bindings, suppressed, unreleased>>

CancelBinding ==
    /\ Draws /\ binding # "none" /\ Escape \in down
    /\ binding' = "none" /\ awaiting' = FALSE /\ suppressed' = TRUE
    /\ latched' = latched \ {Escape}
    /\ UNCHANGED <<bound, unreleased>>

AwaitRelease ==
    /\ Draws /\ binding # "none" /\ Escape \notin down /\ awaiting
    /\ awaiting' = AnyKeyDown
    /\ latched' \in IF AnyKeyDown THEN LeftOf(Keys) ELSE {{}}
    /\ UNCHANGED <<bound, binding, suppressed, unreleased>>

Conflicts_Never(t, k) == FALSE
(* FindHotkeyConflict.                                                      *)
Conflicts(t, k) == \E u \in Targets \ {t} : bound[u] = k

CaptureKey(k) ==
    /\ Draws /\ binding # "none" /\ Escape \notin down /\ ~awaiting
    /\ k \in PressedKeys
    /\ latched' \in LeftOf(Keys) /\ k \notin latched'
    /\ IF Conflicts(binding, k)
       THEN /\ awaiting' = TRUE
            /\ UNCHANGED <<bound, binding, suppressed, unreleased>>
       ELSE /\ bound' = [bound EXCEPT ![binding] = k]
            /\ binding' = "none" /\ awaiting' = FALSE /\ suppressed' = TRUE
            /\ unreleased' = unreleased \cup {k}

(* RenderHotkeyButton.                                                      *)
BeginBinding(t) == binding' = t /\ awaiting' = TRUE /\ suppressed' = TRUE

(* A button is clicked or none; the new settings are told.                  *)
Button ==
    /\ turn = "button" /\ turn' = "poll"
    /\ \/ \E t \in Targets : BeginBinding(t)
       \/ UNCHANGED <<binding, awaiting, suppressed>>
    /\ Publish
    /\ UNCHANGED <<round, window, inputAllowed, bound, tracked, config, keyboard>>
-----------------------------------------------------------------------------
(* The rounds of main().  A binding that was begun is not given up.         *)
AttachGame ==
    /\ turn = "waiting" /\ alive
    /\ turn' = "poll"
    /\ lost' \in BOOLEAN
    /\ config' = told
    /\ UNCHANGED <<alive, window, inputAllowed, bindings, suppressed, tracked, told, keyboard>>

(* The game is gone or the program ends, or no frame can be begun.          *)
LeaveSession ==
    /\ (turn = "poll" /\ (lost \/ ~alive)) \/ turn = "draw"
    /\ inputAllowed' = FALSE
    /\ IF alive
       THEN /\ turn' = "waiting"
            /\ ShowMenu(TRUE)
       ELSE /\ turn' = "ended"
            /\ UNCHANGED window
    /\ UNCHANGED <<round, bindings, suppressed, tracked, told, config, keyboard>>

(* The exit key, or a waiting screen that cannot be set up.                 *)
EndProgram ==
    /\ turn = "waiting"
    /\ turn' = "ended"
    /\ UNCHANGED <<round, window, inputAllowed, bindings, suppressed, tracked, told, config,
                   keyboard>>
-----------------------------------------------------------------------------
(* The data thread.                                                         *)
TakeConfig ==
    /\ InSession
    /\ config' = told
    /\ UNCHANGED <<turn, round, window, inputAllowed, bindings, suppressed, tracked, told,
                   keyboard>>

(* It goes on to look at its held keys, when the game is in front as well.  *)
LetsThrough == InSession /\ ~config.suppressed /\ inputAllowed

MainLoop ==
    \/ PollSuppressed \/ PollExit \/ PollToggle \/ PollToggleFails
    \/ \E inFront \in InFront : PollIdle(inFront)
    \/ Gate \/ PlaceTooEarly \/ PlaceWindow \/ PlaceGone
    \/ DrawHidden \/ NothingToBind \/ CancelBinding \/ AwaitRelease
    \/ \E k \in Bindable : CaptureKey(k)
    \/ Button \/ AttachGame \/ LeaveSession \/ EndProgram

(* Once the program has ended its keys no longer matter.                    *)
Keyboard ==
    /\ turn # "ended"
    /\ \E k \in Keys : Press(k) \/ Release(k) \/ LatchTaken(k)

HotkeysNext == MainLoop \/ Keyboard \/ TakeConfig

HotkeysSpec == HotkeysInit /\ [][HotkeysNext]_hotkeyVars
-----------------------------------------------------------------------------
(* No key means two things, the menu takes the mouse just when it is shown, *)
(* and when the data thread may heed held keys, the menu is hidden, nothing *)
(* is being bound, and a key was let go since it was bound: the press that  *)
(* binds a key does not use it.  The menu that opens closes the way a step  *)
(* later.                                                                   *)
InputIsMeant ==
    /\ Distinct(bound)
    /\ clickThrough = ~menuOpen
    /\ LetsThrough =>
         /\ binding = "none"
         /\ ~menuOpen \/ turn = "gate"
         /\ \A t \in Held : config.keys[t] \notin unreleased

(* The program ends, and the menu is shown or hidden, only by a key pressed *)
(* since the last poll and let go since it was bound: no press made long    *)
(* ago, in another window, is replayed.                                     *)
Toggled == turn = "poll" /\ menuOpen' # menuOpen /\ turn' # "waiting"
PressIsMeant ==
    /\ alive' # alive => bound["exit"] \in recent \ unreleased
    /\ Toggled => bound["menu"] \in recent \ unreleased

KeysAreMeant == InputIsMeant /\ [][InputIsMeant' /\ PressIsMeant]_hotkeyVars
=============================================================================
