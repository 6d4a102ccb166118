------------------------- MODULE PublicRelayRuntime -------------------------
(***************************************************************************)
(* PublicRelayRuntime of main.cpp: it keeps the public relay connection in  *)
(* step with the settings in the menu.  Three kinds of threads meet:        *)
(*   - the main thread runs the menu and sync() in every frame, and stop()  *)
(*     at the end;                                                          *)
(*   - the data thread publishes while the game is attached;                *)
(*   - a detached reaper joins each retired producer.                       *)
(* A producer is seen from outside: it accepts snapshots until requestStop, *)
(* and its worker thread uses the network until it ends, which              *)
(* PublicRelayProducer models.                                              *)
(***************************************************************************)
EXTENDS Naturals, FiniteSets

CONSTANTS
    Connections,    \* PublicRelayConnectionSettings the user may enter
    Off, Unset,     \* publicRelayEnabled is false; settings_ is empty
    None,           \* no producer
    MaxChanges      \* bound of the model: changes of the settings

ASSUME RuntimeAssumption ==
    /\ MaxChanges \in Nat
    /\ Off \notin Connections /\ Unset \notin Connections \cup {Off}
    /\ None \notin Nat

Settings == Connections \cup {Off}

VARIABLES
    mode,       \* "session" with the data thread, "waiting" for the game, "ended"
    desired,    \* menu::getRuntimeConfig()
    changes,
    settings,   \* settings_
    rpc,        \* where the main thread is in sync() or stop()
    retiree,    \* the producer beginRetirement has taken
    producer,   \* producer_
    retirement, \* retirement_, as the producer of its ticket
    complete,   \* producers whose ticket is complete
    failed,     \* retirementFailed_
    abandoned,  \* abandonedPublicRelayProducerSlot
    made,       \* producers made so far; they are 1..made
    of,         \* the connection of each
    stopping,   \* producers told to stop
    working,    \* producers whose worker thread runs
    reaped,     \* producers a reaper thread holds
    dpc, picked,    \* the publishing thread and its copy of producer_
    accepted    \* history: producers that took a snapshot in the last step

main == <<settings, rpc, retiree>>
slots == <<producer, retirement, failed, abandoned>>
producers == <<made, of, stopping, working, complete, reaped>>
data == <<dpc, picked, accepted>>
menu == <<mode, desired, changes>>
vars == <<main, slots, producers, data, menu>>

Ids == 1..made
Maybe == Ids \cup {None}

TypeOK ==
    /\ mode \in {"session", "waiting", "ended"}
    /\ desired \in Settings /\ settings \in Settings \cup {Unset}
    /\ changes \in 0..MaxChanges /\ made \in Nat
    /\ rpc \in {"idle", "retire", "reap", "check", "create", "install"}
    /\ {producer, retirement, abandoned, retiree, picked} \subseteq Maybe
    /\ of \in [Ids -> Connections]
    /\ failed \in BOOLEAN
    /\ \A s \in {complete, stopping, working, reaped, accepted} : s \subseteq Ids
    /\ dpc \in {"idle", "pick", "status", "offer"}

Init ==
    /\ mode = "waiting" /\ desired = Off /\ changes = 0
    /\ settings = Unset /\ rpc = "idle" /\ retiree = None
    /\ producer = None /\ retirement = None /\ failed = FALSE /\ abandoned = None
    /\ made = 0 /\ of \in [{} -> Connections] /\ stopping = {} /\ working = {}
    /\ complete = {} /\ reaped = {}
    /\ dpc = "idle" /\ picked = None /\ accepted = {}
-----------------------------------------------------------------------------
(* The game is found, and lost: the data thread is joined, and the main     *)
(* thread publishes once more.                                              *)
BeginSession ==
    /\ mode = "waiting" /\ rpc = "idle" /\ dpc = "idle"
    /\ mode' = "session"
    /\ UNCHANGED <<main, slots, producers, data, desired, changes>>

EndSession ==
    /\ mode = "session" /\ rpc = "idle" /\ dpc = "idle"
    /\ mode' = "waiting"
    /\ dpc' = IF desired # Off THEN "pick" ELSE "idle"
    /\ accepted' = {}
    /\ UNCHANGED <<main, slots, producers, picked, desired, changes>>

(* The menu is drawn before sync() in the same frame.  The connection can   *)
(* be entered only while the relay is switched off; or something else is    *)
(* changed, which is no concern of the relay.                               *)
ChangeSettings ==
    /\ mode = "session" /\ rpc = "idle" /\ changes < MaxChanges
    /\ desired' \in {desired} \cup IF desired = Off THEN Connections ELSE {Off}
    /\ changes' = changes + 1
    /\ UNCHANGED <<main, slots, producers, data, mode>>
-----------------------------------------------------------------------------
(* sync() *)

(* beginRetirement, first half: producer_ is swapped out under its mutex.   *)
Detach(next) ==
    /\ retiree' = producer /\ producer' = None
    /\ rpc' = IF producer = None THEN next ELSE "retire"

SyncChanged ==
    /\ mode = "session" /\ rpc = "idle" /\ settings # desired
    /\ settings' = desired
    /\ IF failed
       THEN rpc' = "check" /\ UNCHANGED <<retiree, producer>>
       ELSE Detach("check")
    /\ UNCHANGED <<retirement, failed, abandoned, producers, data, menu>>

SyncSame ==
    /\ mode = "session" /\ rpc = "idle" /\ settings = desired
    /\ rpc' = "check"
    /\ UNCHANGED <<settings, retiree, slots, producers, data, menu>>

StopRequested_ByReaper == UNCHANGED stopping
StopRequested == stopping' = stopping \cup {retiree}

(* producer->requestStop(): from here on it takes no snapshot.              *)
RequestStop ==
    /\ rpc = "retire"
    /\ StopRequested
    /\ rpc' = "reap"
    /\ UNCHANGED <<settings, retiree, slots, made, of, working, complete, reaped,
                   data, menu>>

AfterRetirement == IF mode = "ended" THEN "idle" ELSE "check"

SpawnReaper ==
    /\ rpc = "reap"
    /\ reaped' = reaped \cup {retiree} /\ retirement' = retiree
    /\ retiree' = None /\ rpc' = AfterRetirement
    /\ UNCHANGED <<settings, producer, failed, abandoned, made, of, stopping,
                   working, complete, data, menu>>

(* retainAbandonedPublicRelayProducer, of which there is one place.         *)
Retain(p) == abandoned' = p

(* The thread cannot be made or detached.                                   *)
SpawnReaperThrows ==
    /\ rpc = "reap"
    /\ Retain(retiree) /\ retirement' = None /\ failed' = TRUE
    /\ retiree' = None /\ rpc' = AfterRetirement
    /\ UNCHANGED <<settings, producer, producers, data, menu>>

Pending_Kept == retirement
(* consumeCompletedRetirement *)
Pending == IF retirement \in complete THEN None ELSE retirement

MayCreate_WhileRetiring == ~failed /\ settings # Off /\ producer = None
MayCreate == ~failed /\ Pending = None /\ settings # Off /\ producer = None

Check ==
    /\ rpc = "check"
    /\ retirement' = Pending
    /\ rpc' = IF MayCreate THEN "create" ELSE "idle"
    /\ UNCHANGED <<settings, retiree, producer, failed, abandoned, producers,
                   data, menu>>

(* make_shared and start(): the worker runs, or the producer is made but    *)
(* has failed, or an exception leaves nothing.                              *)
Create ==
    /\ rpc = "create"
    /\ made' = made + 1
    /\ of' = [p \in 1..made + 1 |-> IF p \in Ids THEN of[p] ELSE settings]
    /\ working' \in {working, working \cup {made + 1}}
    /\ rpc' = "install"
    /\ UNCHANGED <<settings, retiree, slots, stopping, complete, reaped, data, menu>>

CreateThrows ==
    /\ rpc = "create"
    /\ rpc' = "idle"
    /\ UNCHANGED <<settings, retiree, slots, producers, data, menu>>

Install ==
    /\ rpc = "install"
    /\ producer' = made
    /\ rpc' = "idle"
    /\ UNCHANGED <<settings, retiree, retirement, failed, abandoned, producers,
                   data, menu>>

(* stop(), when the program ends.                                           *)
Stop ==
    /\ mode = "waiting" /\ rpc = "idle" /\ dpc = "idle"
    /\ mode' = "ended" /\ settings' = Unset
    /\ retirement' = Pending
    /\ IF failed THEN UNCHANGED <<rpc, retiree, producer>> ELSE Detach("idle")
    /\ UNCHANGED <<failed, abandoned, producers, data, desired, changes>>
-----------------------------------------------------------------------------
(* The worker of a producer ends by itself (rejected, failed), or after it  *)
(* was told to stop.  The reaper returns from stop() then, and completes    *)
(* the ticket.                                                              *)
WorkerEnds(p) ==
    /\ p \in working
    /\ working' = working \ {p}
    /\ UNCHANGED <<main, slots, made, of, stopping, complete, reaped, data, menu>>

Joined_Early(p) == TRUE
Joined(p) == p \notin working

ReaperEnds(p) ==
    /\ p \in reaped /\ Joined(p)
    /\ reaped' = reaped \ {p} /\ complete' = complete \cup {p}
    /\ UNCHANGED <<main, slots, made, of, stopping, working, data, menu>>
-----------------------------------------------------------------------------
(* publish(), on the data thread: enabled as the configuration read at the  *)
(* start of the sample says.                                                *)
PublishBegin ==
    /\ mode = "session" /\ dpc = "idle" /\ desired # Off
    /\ dpc' = "pick" /\ accepted' = {}
    /\ UNCHANGED <<main, slots, producers, picked, menu>>

Pick ==
    /\ dpc = "pick"
    /\ picked' = producer
    /\ dpc' = IF producer = None THEN "idle" ELSE "status"
    /\ UNCHANGED <<main, slots, producers, accepted, menu>>

(* The state of the producer is read; a failed or retiring one is skipped.  *)
ReadStatus ==
    /\ dpc = "status"
    /\ dpc' = IF picked \in working \ stopping THEN "offer" ELSE "idle"
    /\ picked' = IF picked \in working \ stopping THEN picked ELSE None
    /\ UNCHANGED <<main, slots, producers, accepted, menu>>

(* PublicRelayProducer::publish looks again, under the producer's mutex.    *)
Offer ==
    /\ dpc = "offer"
    /\ accepted' = {picked} \ stopping
    /\ dpc' = "idle" /\ picked' = None
    /\ UNCHANGED <<main, slots, producers, menu>>
-----------------------------------------------------------------------------
Main ==
    \/ SyncChanged \/ SyncSame \/ RequestStop \/ SpawnReaper \/ SpawnReaperThrows
    \/ Check \/ Create \/ CreateThrows \/ Install \/ Stop

Publisher == PublishBegin \/ Pick \/ ReadStatus \/ Offer

Next ==
    \/ BeginSession \/ EndSession \/ ChangeSettings
    \/ Main
    \/ Publisher
    \/ \E p \in Ids : WorkerEnds(p) \/ ReaperEnds(p)

Spec == Init /\ [][Next]_vars
-----------------------------------------------------------------------------
(* The relay sees at most one connection of this program: a new producer is *)
(* started only after the worker of the last one has ended.                 *)
OneConnection == Cardinality(working) <= 1

(* A connection the user switched off or replaced takes no more snapshots   *)
(* once sync() has seen the change, not even one a publish has under way.   *)
NothingToTheOld ==
    [][\A p \in accepted' \ accepted :
         settings = of[p] \/ rpc \in {"retire"}]_vars

(* After a producer could not be retired no other is started, and the slot  *)
(* that keeps it is never needed again in the life of the process.          *)
FailureIsFinal ==
    [][failed => /\ failed' /\ abandoned' = abandoned
                 /\ working' \subseteq working]_vars

(* No producer is forgotten: one whose worker runs is the current one, is   *)
(* being retired, or is in the slot.                                        *)
NoneForgotten ==
    \A p \in working :
        \/ p = producer \/ p = retiree \/ p \in reaped \/ p = abandoned
        \/ rpc = "install" /\ p = made

(* At most one worker uses the relay, and no worker is let go unwatched.    *)
WorkersAccounted == OneConnection /\ NoneForgotten

(* A worker was told to stop and has not ended: it may be in a send, which  *)
(* nobody can cancel.                                                       *)
Hangs == stopping \cap working # {}

(* When the settings rest, in a session, switching off takes effect even if *)
(* a worker hangs for ever; and the connection they ask for comes to be if  *)
(* none does, unless a producer could not be retired.                       *)
SettingsTakeEffect ==
    /\ (changes = MaxChanges /\ mode = "session" /\ desired = Off) ~>
            (mode # "session" \/ producer = None)
    /\ []<>~Hangs =>
        (changes = MaxChanges /\ mode = "session" /\ desired # Off) ~>
            \/ mode # "session" \/ failed
            \/ producer # None /\ of[producer] = desired
=============================================================================
