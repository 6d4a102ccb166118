--------------------------- MODULE OverlayProgram ---------------------------
(***************************************************************************)
(* main.cpp as a whole: the loop of main() that waits for the game, runs a  *)
(* session and waits again; the data thread of a session; and the three     *)
(* consumers of its snapshots, the embedded server (WebRadarRuntime), the   *)
(* public relay (PublicRelayRuntime, which this module extends) and the     *)
(* recorder.                                                                *)
(*                                                                          *)
(* In every frame the main thread draws the menu, then brings the server,   *)
(* then the relay in step with the settings.  An iteration of the data      *)
(* thread copies the settings, samples the game or clears what it sampled,  *)
(* and hands the snapshot to the server, the relay and the recorder in this *)
(* order.                                                                   *)
(***************************************************************************)
EXTENDS PublicRelayRuntime, RadarJson

CONSTANTS
    Places,     \* address and port of the embedded server
    Shares,     \* serialization options the user may choose
    Lives       \* snapshots of a connected game

(* The options of the menu before anyone changes them.                      *)
Default == [names |-> TRUE, steamIds |-> FALSE, team |-> "all"]

ASSUME ProgramAssumption ==
    /\ Off \notin Places /\ Unset \notin Places
    /\ Shares \subseteq Options /\ Default \in Shares
    /\ \A s \in Lives : s \in Snapshots /\ s.connected

VARIABLES
    web, share, pause,  \* menu: webRadarEnabled with its place, options, pause
    relayShare,         \* menu: the options of the public relay
    recording,          \* menu: radarRecordingEnabled
    focus,              \* sdl_renderer::isGameForeground()
    frame,      \* the main thread: "menu", "web", "install", "relay", "ending"
    webSettings,        \* settings_ of WebRadarRuntime
    service,            \* service_ is set
    token,              \* token_, named by the period it was made for, or 0
    latest,             \* the latest frame of the current server, or Null
    step,       \* the publishing thread: "idle", "web", "deliver", "relay", "record"
    job,                \* its copy of the settings
    holds,              \* its copy of service_: "none", "current", "old"
    snapshot, entries,  \* esp::gameSnapshot, and what is serialized of it
    cleared,            \* stateClearedWhileInactive
    periods,    \* history: how often the server was switched on
    unlucky,    \* history: no token could be made in this period
    given       \* history: what the last step handed over, and to what options

options == <<web, share, pause, relayShare, recording>>
server == <<webSettings, service, token, latest, periods, unlucky>>
thread == <<step, job, holds, snapshot, entries, cleared, given>>
program == <<options, focus, frame, server, thread>>
allVars == <<vars, program>>

Blank == [connected |-> FALSE, localTeam |-> "NONE", players |-> {}]
Sanitized == [names |-> FALSE, steamIds |-> FALSE, team |-> "all"]
Frames == {SerializeSnapshot(s, o) : s \in Lives \cup {Blank},
                                     o \in Shares \cup {Sanitized}}

ProgramTypeOK ==
    /\ web \in Places \cup {Off} /\ share \in Shares /\ relayShare \in Shares
    /\ {pause, recording, focus, service, cleared, unlucky} \subseteq BOOLEAN
    /\ frame \in {"menu", "web", "install", "relay", "ending"}
    /\ webSettings \in Places \cup {Off, Unset}
    /\ token \in Nat /\ periods \in Nat /\ token <= periods
    /\ latest \in Frames \cup {Null}
    /\ step \in {"idle", "web", "deliver", "relay", "record"}
    /\ job \in [share : Shares, relayShare : Shares, record : BOOLEAN]
    /\ holds \in {"none", "current", "old"}
    /\ snapshot \in Lives \cup {Blank} /\ entries \subseteq Shares \cup {Sanitized}
    /\ given \in [frame : Frames, options : Options] \cup {Null}

(* Only the pause and the server's names and team policy are kept in the    *)
(* settings file.                                                           *)
ProgramInit ==
    /\ Init
    /\ web = Off /\ share \in {s \in Shares : ~s.steamIds} /\ pause \in BOOLEAN
    /\ relayShare = Default /\ recording = FALSE
    /\ focus = FALSE /\ frame = "menu"
    /\ webSettings = Unset /\ service = FALSE /\ token = 0 /\ latest = Null
    /\ step = "idle" /\ holds = "none"
    /\ job = [share |-> share, relayShare |-> share, record |-> FALSE]
    /\ snapshot = Blank /\ entries = {} /\ cleared = FALSE
    /\ periods = 0 /\ unlucky = FALSE /\ given = Null
-----------------------------------------------------------------------------
(* Publishing, as the settings that were copied say; nothing more is read   *)
(* of the menu until the next iteration.                                    *)
FirstStep(toWeb, toRelay, record) ==
    CASE toWeb -> "web" [] ~toWeb /\ toRelay -> "relay"
      [] ~toWeb /\ ~toRelay /\ record -> "record"
      [] OTHER -> "idle"

StartPublishing(record) ==
    /\ job' = [share |-> share, relayShare |-> relayShare, record |-> record]
    /\ step' = FirstStep(web # Off, desired # Off, record)
    /\ given' = Null

AfterRelay == IF job.record THEN "record" ELSE "idle"
AfterWeb == IF dpc # "idle" THEN "relay" ELSE AfterRelay

HandOver(o) ==
    /\ given' = [frame |-> SerializeCached(snapshot, o, entries), options |-> o]
    /\ entries' = Remembered(o, entries)

(* WebRadarRuntime::publish: the server is copied under the mutex, and may  *)
(* have been replaced when the frame arrives.                               *)
PickService ==
    /\ step = "web"
    /\ holds' = IF service THEN "current" ELSE "none"
    /\ step' = IF service THEN "deliver" ELSE AfterWeb
    /\ given' = Null
    /\ UNCHANGED <<vars, options, focus, frame, server, job, snapshot, entries, cleared>>

Deliver ==
    /\ step = "deliver"
    /\ HandOver(job.share)
    /\ latest' = IF holds = "current" THEN given'.frame ELSE latest
    /\ holds' = "none" /\ step' = AfterWeb
    /\ UNCHANGED <<vars, options, focus, frame, webSettings, service, token, periods,
                   unlucky, job, snapshot, cleared>>

(* PublicRelayRuntime::publish.                                             *)
RelayPublishes ==
    /\ step = "relay"
    /\ \/ (Pick \/ ReadStatus) /\ given' = Null /\ UNCHANGED entries
       \/ Offer /\ HandOver(job.relayShare)
    /\ step' = IF dpc' = "idle" THEN AfterRelay ELSE "relay"
    /\ UNCHANGED <<options, focus, frame, server, job, holds, snapshot, cleared>>

Record ==
    /\ step = "record" /\ step' = "idle"
    /\ HandOver(Sanitized)
    /\ UNCHANGED <<vars, options, focus, frame, server, job, holds, snapshot, cleared>>
-----------------------------------------------------------------------------
(* The data thread.                                                         *)
RadarSnapshotEnabled == web # Off \/ desired # Off \/ recording
BackgroundSampling == (web # Off \/ desired # Off) /\ ~pause
Inactive == ~focus /\ ~BackgroundSampling

StartsIteration == mode = "session" /\ step = "idle" /\ dpc = "idle"

(* esp::clearRuntimeState                                                   *)
ClearRuntimeState_KeepsSnapshot == UNCHANGED <<snapshot, entries>>
ClearRuntimeState == snapshot' = Blank /\ entries' = {}

(* The readers of the relay are offered the snapshot when it is enabled.    *)
OfferToRelay == IF desired # Off THEN PublishBegin ELSE UNCHANGED vars

(* Once, when the game goes to the background.                              *)
GoInactive ==
    /\ StartsIteration /\ Inactive /\ ~cleared
    /\ ClearRuntimeState
    /\ cleared' = TRUE
    /\ StartPublishing(FALSE) /\ OfferToRelay
    /\ UNCHANGED <<options, focus, frame, server, holds>>

(* esp::updateEntities may have captured a snapshot, left the last one or,  *)
(* after failures, cleared it.                                              *)
Capture ==
    \/ UNCHANGED <<snapshot, entries>>
    \/ ClearRuntimeState
    \/ RadarSnapshotEnabled /\ snapshot' \in Lives /\ entries' = {}

SampleAndPublish ==
    /\ StartsIteration /\ ~Inactive /\ RadarSnapshotEnabled
    /\ cleared' = FALSE
    /\ Capture
    /\ StartPublishing(recording) /\ OfferToRelay
    /\ UNCHANGED <<options, focus, frame, server, holds>>

(* No radar, or nextRadarTime has not come.                                 *)
SampleOnly ==
    /\ StartsIteration /\ ~Inactive
    /\ cleared' = FALSE /\ given' = Null
    /\ Capture
    /\ UNCHANGED <<vars, options, focus, frame, server, step, job, holds>>

DataThread ==
    \/ PickService \/ Deliver \/ RelayPublishes \/ Record
    \/ GoInactive \/ SampleAndPublish \/ SampleOnly
-----------------------------------------------------------------------------
(* main(): a session begins when the game is found and everything can be    *)
(* initialised; what fails before is undone, and shows nowhere here.        *)
SessionBegins ==
    /\ BeginSession
    /\ frame = "menu" /\ step = "idle"
    /\ cleared' = FALSE /\ entries' = {}
    /\ UNCHANGED <<options, focus, frame, server, step, job, holds, snapshot, given>>

(* The data thread is joined, the state cleared, and the blank snapshot     *)
(* published by the main thread.                                            *)
SessionEnds ==
    /\ EndSession
    /\ frame = "menu" /\ step = "idle"
    /\ ClearRuntimeState
    /\ StartPublishing(FALSE)
    /\ UNCHANGED <<options, focus, frame, server, holds, cleared>>

FocusChanges ==
    /\ mode = "session"
    /\ focus' = ~focus
    /\ UNCHANGED <<vars, options, frame, server, thread>>

(* menu::render and publishRuntimeConfig: at most one setting changes in a  *)
(* frame.                                                                   *)
ChangeOptions ==
    \/ /\ web' \in (Places \cup {Off}) \ {web}
       /\ UNCHANGED <<share, pause, relayShare, recording>>
    \/ share' \in Shares \ {share} /\ UNCHANGED <<web, pause, relayShare, recording>>
    \/ pause' = ~pause /\ UNCHANGED <<web, share, relayShare, recording>>
    \/ relayShare' \in Shares \ {relayShare} /\ UNCHANGED <<web, share, pause, recording>>
    \/ recording' = ~recording /\ UNCHANGED <<web, share, pause, relayShare>>

DrawMenu ==
    /\ mode = "session" /\ frame = "menu" /\ frame' = "web"
    /\ \/ ChangeSettings /\ desired' # desired /\ UNCHANGED options
       \/ ChangeSettings /\ desired' = desired /\ ChangeOptions
       \/ UNCHANGED <<vars, options>>
    /\ UNCHANGED <<focus, server, thread>>
-----------------------------------------------------------------------------
(* WebRadarRuntime::sync                                                    *)
SyncWebSame ==
    /\ frame = "web" /\ webSettings = web
    /\ frame' = "relay"
    /\ UNCHANGED <<vars, options, focus, server, thread>>

RotateToken_WhenNone == FALSE
RotateToken == web # Off /\ webSettings \in {Unset, Off}

(* detachAndStop: whoever copied the server before holds an old one now.    *)
DetachAndStop ==
    /\ service' = FALSE /\ latest' = Null
    /\ holds' = IF holds = "current" THEN "old" ELSE holds

(* A new token is named by the period it is made in.                        *)
MakeViewerToken == token' = periods' /\ unlucky' = FALSE

(* The new server starts, or its start is refused, or no token can be made. *)
SyncWebChanged ==
    LET rotate == RotateToken
        generate == rotate \/ token = 0
    IN  /\ frame = "web" /\ webSettings # web
        /\ webSettings' = web
        /\ DetachAndStop
        /\ periods' = IF web # Off /\ webSettings \in {Unset, Off} THEN periods + 1 ELSE periods
        /\ \/ /\ web = Off /\ frame' = "relay"
             /\ UNCHANGED <<token, unlucky>>
          \/ /\ web # Off /\ generate /\ frame' = "relay"
             /\ unlucky' = TRUE /\ UNCHANGED token
          \/ /\ web # Off /\ frame' \in {"install", "relay"}
             /\ IF generate THEN MakeViewerToken ELSE UNCHANGED <<token, unlucky>>
        /\ UNCHANGED <<vars, options, focus, step, job, snapshot, entries, cleared, given>>

InstallService ==
    /\ frame = "install" /\ frame' = "relay"
    /\ service' = TRUE
    /\ UNCHANGED <<vars, options, focus, webSettings, token, latest, periods, unlucky, thread>>

(* WebRadarRuntime::stop, then PublicRelayRuntime::stop.                    *)
StopWeb ==
    /\ mode = "waiting" /\ frame = "menu" /\ step = "idle" /\ dpc = "idle"
    /\ frame' = "ending" /\ webSettings' = Unset
    /\ DetachAndStop
    /\ UNCHANGED <<vars, options, focus, token, periods, unlucky, step, job, snapshot,
                   entries, cleared, given>>

StopRelay == Stop /\ frame = "ending" /\ UNCHANGED program

(* isAuthorized: the server opens to a link with its own token only.        *)
Opens(link) == service /\ link = token

(* PublicRelayRuntime::sync, at the end of the frame.                       *)
SyncRelay ==
    /\ \/ frame = "relay" /\ (SyncChanged \/ SyncSame)
       \/ RequestStop \/ SpawnReaper \/ SpawnReaperThrows
       \/ Check \/ Create \/ CreateThrows \/ Install
    /\ frame' = IF frame = "relay" /\ rpc' = "idle" THEN "menu" ELSE frame
    /\ UNCHANGED <<options, focus, server, thread>>

Threads == (\E p \in Ids : WorkerEnds(p) \/ ReaperEnds(p)) /\ UNCHANGED program
-----------------------------------------------------------------------------
MainThread ==
    \/ DrawMenu \/ SyncWebSame \/ SyncWebChanged \/ InstallService \/ SyncRelay
    \/ StopRelay

ProgramNext ==
    \/ SessionBegins \/ SessionEnds \/ FocusChanges \/ StopWeb
    \/ MainThread \/ DataThread \/ Threads

ProgramSpec == ProgramInit /\ [][ProgramNext]_allVars

(* Frames keep coming in a session, iterations of the data thread too, and  *)
(* the radar's time comes again and again; memory is not exhausted for      *)
(* ever, and a reaper whose worker has ended goes on.  Nothing is asked of  *)
(* a worker: a send may hang.                                               *)
ProgramFairness ==
    /\ WF_allVars(MainThread)
    /\ SF_allVars(Create /\ SyncRelay)
    /\ WF_allVars(DataThread)
    /\ SF_allVars(SampleAndPublish)
    /\ WF_allVars((\E p \in Ids : ReaperEnds(p)) /\ UNCHANGED program)

FairProgram == ProgramSpec /\ ProgramFairness
-----------------------------------------------------------------------------
Publishing == step # "idle" \/ dpc # "idle"
InStep == frame = "menu" /\ webSettings = web

(* While the program waits for the game no server goes on showing the last  *)
(* position of a game that is gone.                                         *)
NoFrozenGame ==
    mode # "session" /\ ~Publishing /\ service => latest = Null \/ ~latest.connected

(* With the pause switched on, viewers do not see where the game was left   *)
(* when it went to the background.                                          *)
PausedIsBlank ==
    mode = "session" /\ Inactive /\ cleared /\ ~Publishing /\ InStep /\ service
        => latest = Null \/ ~latest.connected

(* No viewer goes on looking at a game nobody samples.                      *)
UnsampledIsBlank == ProgramTypeOK /\ NoFrozenGame /\ PausedIsBlank

(* Three consumers with options of their own share the serialized payloads: *)
(* each gets what its own options permit.                                   *)
SharedAsAsked == given # Null => Permitted(given.frame, given.options)

(* Options chosen for the viewers of the server reach what they see.        *)
ShareTakesEffect ==
    \A s \in Shares :
        <>[](mode = "session" /\ web # Off /\ share = s)
            => <>[](latest # Null => Permitted(latest, s))

(* What the user chose last takes effect, at the relay and at the server.   *)
ChoicesTakeEffect == SettingsTakeEffect /\ ShareTakesEffect

(* Links given out before the server was switched off do not open the one   *)
(* started later, unless Windows could not make a token then.               *)
OldLinksDie == \A link \in 0..periods : Opens(link) => link = periods \/ unlucky
=============================================================================
