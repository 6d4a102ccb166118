------------------------ MODULE OverlayProgramProofs ------------------------
(***************************************************************************)
(* Theorems about PublicRelayRuntime, for any connections and any number of *)
(* changes of the settings, and about OverlayProgram, for any settings and  *)
(* snapshots.  The program implements the runtime of the public relay, so   *)
(* what is proved of PublicRelayRuntime in the first part holds of it.      *)
(***************************************************************************)
EXTENDS OverlayProgram, TLAPS, FiniteSetTheorems

(* Who holds a producer: producer_, the main thread, a reaper or the slot.  *)
(* While producer_ is set or is being made, nothing is being retired.       *)
Making == {"create", "install"}
Retiring == {"retire", "reap"}
Holders ==
    /\ retiree # None <=> rpc \in Retiring
    /\ rpc \in Making \cup Retiring => producer = None
    /\ (producer # None \/ rpc \in Making \cup Retiring) => retirement = None /\ ~failed
    /\ producer # None => producer \notin complete
    /\ retiree # None => retiree \notin complete
    /\ rpc = "install" => made \in Ids /\ made \notin complete
    /\ rpc = "create" => working = {}
    /\ \A p \in reaped : p = retirement
    /\ \A p \in complete : p \notin working /\ p \notin reaped
    /\ failed <=> abandoned # None
    /\ working \subseteq {made}

(* The producer that may take snapshots belongs to the current settings.    *)
Current ==
    /\ producer # None => of[producer] = settings
    /\ rpc = "install" => of[made] = settings
    /\ \A p \in Ids \ stopping :
          \/ p = producer
          \/ p = retiree /\ rpc = "retire"
          \/ p = made /\ rpc = "install"
    /\ dpc \in {"status", "offer"} => picked \in Ids
    /\ rpc \in {"check", "create", "install"} => settings # Unset /\ mode # "ended"
    /\ rpc \in Retiring /\ mode # "ended" => settings # Unset
    /\ rpc = "create" => settings # Off

LEMMA TypeStep == TypeOK /\ Holders /\ Current /\ [Next]_vars => TypeOK'
<1> DEFINE Goal == TypeOK'
<1> SUFFICES ASSUME TypeOK, Holders, Current, [Next]_vars PROVE Goal
  OBVIOUS
<1> USE RuntimeAssumption DEF main, slots, producers, data, menu, TypeOK, Ids, Maybe, Settings, Goal
<1>1. CASE BeginSession
  BY <1>1 DEF BeginSession
<1>2. CASE EndSession
  BY <1>2 DEF EndSession
<1>3. CASE ChangeSettings
  BY <1>3 DEF ChangeSettings
<1>4. CASE SyncChanged
  BY <1>4 DEF SyncChanged, Detach
<1>5. CASE SyncSame
  BY <1>5 DEF SyncSame
<1>6. CASE RequestStop
  BY <1>6 DEF RequestStop, StopRequested, Holders, Retiring
<1>7. CASE SpawnReaper
  BY <1>7 DEF SpawnReaper, AfterRetirement, Holders, Retiring
<1>8. CASE SpawnReaperThrows
  BY <1>8 DEF SpawnReaperThrows, Retain, AfterRetirement
<1>9. CASE Check
  BY <1>9 DEF Check, Pending, MayCreate
<1>10. CASE Create
  BY <1>10 DEF Create, Current
<1>11. CASE CreateThrows
  BY <1>11 DEF CreateThrows
<1>12. CASE Install
  BY <1>12 DEF Install, Holders
<1>13. CASE Stop
  BY <1>13 DEF Stop, Detach, Pending
<1>14. CASE PublishBegin
  BY <1>14 DEF PublishBegin
<1>15. CASE Pick
  BY <1>15 DEF Pick
<1>16. CASE ReadStatus
  BY <1>16 DEF ReadStatus
<1>17. CASE Offer
  BY <1>17 DEF Offer, Current
<1>18. ASSUME NEW p \in Ids, WorkerEnds(p) PROVE Goal
  BY <1>18 DEF WorkerEnds
<1>19. ASSUME NEW p \in Ids, ReaperEnds(p) PROVE Goal
  BY <1>19 DEF ReaperEnds, Joined
<1>u. CASE UNCHANGED vars
  BY <1>u DEF vars
<1> QED  BY <1>1, <1>2, <1>3, <1>4, <1>5, <1>6, <1>7, <1>8, <1>9, <1>10, <1>11, <1>12, <1>13,
  <1>14, <1>15, <1>16, <1>17, <1>18, <1>19, <1>u
        DEF Next, Main, Publisher

LEMMA HoldersStep == TypeOK /\ Holders /\ NoneForgotten /\ [Next]_vars => Holders'
<1> DEFINE Goal == Holders'
<1> SUFFICES ASSUME TypeOK, Holders, NoneForgotten, [Next]_vars PROVE Goal
  OBVIOUS
<1> USE RuntimeAssumption DEF main, slots, producers, data, menu, TypeOK, Ids, Maybe, Settings,
  Holders, Making, Retiring, Goal
<1>1. CASE BeginSession
  BY <1>1 DEF BeginSession
<1>2. CASE EndSession
  BY <1>2 DEF EndSession
<1>3. CASE ChangeSettings
  BY <1>3 DEF ChangeSettings
<1>4. CASE SyncChanged
  BY <1>4 DEF SyncChanged, Detach
<1>5. CASE SyncSame
  BY <1>5 DEF SyncSame
<1>6. CASE RequestStop
  BY <1>6 DEF RequestStop, StopRequested
<1>7. CASE SpawnReaper
  BY <1>7 DEF SpawnReaper, AfterRetirement
<1>8. CASE SpawnReaperThrows
  BY <1>8 DEF SpawnReaperThrows, Retain, AfterRetirement
<1>9. CASE Check
  BY <1>9 DEF Check, Pending, MayCreate, NoneForgotten
<1>10. CASE Create
  BY <1>10 DEF Create
<1>11. CASE CreateThrows
  BY <1>11 DEF CreateThrows
<1>12. CASE Install
  BY <1>12 DEF Install
<1>13. CASE Stop
  BY <1>13 DEF Stop, Detach, Pending
<1>14. CASE PublishBegin
  BY <1>14 DEF PublishBegin
<1>15. CASE Pick
  BY <1>15 DEF Pick
<1>16. CASE ReadStatus
  BY <1>16 DEF ReadStatus
<1>17. CASE Offer
  BY <1>17 DEF Offer
<1>18. ASSUME NEW p \in Ids, WorkerEnds(p) PROVE Goal
  BY <1>18 DEF WorkerEnds
<1>19. ASSUME NEW p \in Ids, ReaperEnds(p) PROVE Goal
  BY <1>19 DEF ReaperEnds, Joined
<1>u. CASE UNCHANGED vars
  BY <1>u DEF vars
<1> QED  BY <1>1, <1>2, <1>3, <1>4, <1>5, <1>6, <1>7, <1>8, <1>9, <1>10, <1>11, <1>12, <1>13,
  <1>14, <1>15, <1>16, <1>17, <1>18, <1>19, <1>u
        DEF Next, Main, Publisher

LEMMA ForgottenStep == TypeOK /\ Holders /\ NoneForgotten /\ [Next]_vars => NoneForgotten'
<1> DEFINE Goal == NoneForgotten'
<1> SUFFICES ASSUME TypeOK, Holders, NoneForgotten, [Next]_vars PROVE Goal
  OBVIOUS
<1> USE RuntimeAssumption DEF main, slots, producers, data, menu, TypeOK, Ids, Maybe, Settings,
  Holders, Making, Retiring, NoneForgotten, Goal
<1>1. CASE BeginSession
  BY <1>1 DEF BeginSession
<1>2. CASE EndSession
  BY <1>2 DEF EndSession
<1>3. CASE ChangeSettings
  BY <1>3 DEF ChangeSettings
<1>4. CASE SyncChanged
  BY <1>4 DEF SyncChanged, Detach
<1>5. CASE SyncSame
  BY <1>5 DEF SyncSame
<1>6. CASE RequestStop
  BY <1>6 DEF RequestStop, StopRequested
<1>7. CASE SpawnReaper
  BY <1>7 DEF SpawnReaper, AfterRetirement
<1>8. CASE SpawnReaperThrows
  BY <1>8 DEF SpawnReaperThrows, Retain, AfterRetirement
<1>9. CASE Check
  BY <1>9 DEF Check, Pending, MayCreate
<1>10. CASE Create
  BY <1>10 DEF Create
<1>11. CASE CreateThrows
  BY <1>11 DEF CreateThrows
<1>12. CASE Install
  BY <1>12 DEF Install
<1>13. CASE Stop
  BY <1>13 DEF Stop, Detach, Pending
<1>14. CASE PublishBegin
  BY <1>14 DEF PublishBegin
<1>15. CASE Pick
  BY <1>15 DEF Pick
<1>16. CASE ReadStatus
  BY <1>16 DEF ReadStatus
<1>17. CASE Offer
  BY <1>17 DEF Offer
<1>18. ASSUME NEW p \in Ids, WorkerEnds(p) PROVE Goal
  BY <1>18 DEF WorkerEnds
<1>19. ASSUME NEW p \in Ids, ReaperEnds(p) PROVE Goal
  BY <1>19 DEF ReaperEnds, Joined
<1>u. CASE UNCHANGED vars
  BY <1>u DEF vars
<1> QED  BY <1>1, <1>2, <1>3, <1>4, <1>5, <1>6, <1>7, <1>8, <1>9, <1>10, <1>11, <1>12, <1>13,
  <1>14, <1>15, <1>16, <1>17, <1>18, <1>19, <1>u
        DEF Next, Main, Publisher

LEMMA CurrentStep == TypeOK /\ Holders /\ Current /\ [Next]_vars => Current'
<1> DEFINE Goal == Current'
<1> SUFFICES ASSUME TypeOK, Holders, Current, [Next]_vars PROVE Goal
  OBVIOUS
<1> USE RuntimeAssumption DEF main, slots, producers, data, menu, TypeOK, Ids, Maybe, Settings,
  Current, Making, Retiring, Holders, Goal
<1>1. CASE BeginSession
  BY <1>1 DEF BeginSession
<1>2. CASE EndSession
  BY <1>2 DEF EndSession
<1>3. CASE ChangeSettings
  BY <1>3 DEF ChangeSettings
<1>4. CASE SyncChanged
  BY <1>4 DEF SyncChanged, Detach
<1>5. CASE SyncSame
  BY <1>5 DEF SyncSame
<1>6. CASE RequestStop
  BY <1>6 DEF RequestStop, StopRequested
<1>7. CASE SpawnReaper
  BY <1>7 DEF SpawnReaper, AfterRetirement
<1>8. CASE SpawnReaperThrows
  BY <1>8 DEF SpawnReaperThrows, Retain, AfterRetirement
<1>9. CASE Check
  BY <1>9 DEF Check, Pending, MayCreate
<1>10. CASE Create
  BY <1>10 DEF Create
<1>11. CASE CreateThrows
  BY <1>11 DEF CreateThrows
<1>12. CASE Install
  BY <1>12 DEF Install
<1>13. CASE Stop
  BY <1>13 DEF Stop, Detach, Pending
<1>14. CASE PublishBegin
  BY <1>14 DEF PublishBegin
<1>15. CASE Pick
  BY <1>15 DEF Pick
<1>16. CASE ReadStatus
  BY <1>16 DEF ReadStatus
<1>17. CASE Offer
  BY <1>17 DEF Offer
<1>18. ASSUME NEW p \in Ids, WorkerEnds(p) PROVE Goal
  BY <1>18 DEF WorkerEnds
<1>19. ASSUME NEW p \in Ids, ReaperEnds(p) PROVE Goal
  BY <1>19 DEF ReaperEnds, Joined
<1>u. CASE UNCHANGED vars
  BY <1>u DEF vars
<1> QED  BY <1>1, <1>2, <1>3, <1>4, <1>5, <1>6, <1>7, <1>8, <1>9, <1>10, <1>11, <1>12, <1>13,
  <1>14, <1>15, <1>16, <1>17, <1>18, <1>19, <1>u
        DEF Next, Main, Publisher

IInv == TypeOK /\ Holders /\ NoneForgotten /\ Current

LEMMA Inductive == Spec => []IInv
<1>1. ASSUME Init PROVE IInv
  <2> USE <1>1, RuntimeAssumption DEF Init, Ids, Maybe, Settings
  <2>1. Ids = {} /\ changes \in 0..MaxChanges
    OBVIOUS
  <2>2. TypeOK
    BY <2>1 DEF TypeOK
  <2>3. Holders /\ NoneForgotten /\ Current
    BY <2>1 DEF Holders, Making, Retiring, NoneForgotten, Current
  <2> QED  BY <2>2, <2>3 DEF IInv
<1>2. IInv /\ [Next]_vars => IInv'
  BY TypeStep, HoldersStep, ForgottenStep, CurrentStep DEF IInv
<1> QED  BY <1>1, <1>2, PTL DEF Spec

(* Every reachable state of the runtime is well typed; every producer is    *)
(* made for a connection the user entered.                                  *)
THEOREM TypeCorrect == Spec => []TypeOK
<1>1. IInv => TypeOK
  BY DEF IInv
<1> QED  BY <1>1, Inductive, PTL

(* The relay never sees two connections of one program.                     *)
THEOREM ConnectsOnce == Spec => []OneConnection
<1>1. IInv => OneConnection
  <2> SUFFICES ASSUME IInv PROVE OneConnection
    OBVIOUS
  <2>1. working = {} \/ working = {made}
    BY DEF IInv, Holders
  <2>2. Cardinality({}) = 0 /\ Cardinality({made}) = 1
    BY FS_EmptySet, FS_Singleton
  <2> QED  BY <2>1, <2>2 DEF OneConnection
<1> QED  BY <1>1, Inductive, PTL

(* A worker that runs has somebody who will join it or keep it.             *)
THEOREM WorkersAreHeld == Spec => []NoneForgotten
<1>1. IInv => NoneForgotten
  BY DEF IInv
<1> QED  BY <1>1, Inductive, PTL

(* A connection switched off takes no more snapshots.                       *)
THEOREM OldTakesNothing == Spec => NothingToTheOld
<1> DEFINE Only == \A p \in accepted' \ accepted :
                      settings = of[p] \/ rpc \in {"retire"}
<1>1. IInv /\ [Next]_vars => [Only]_vars
  <2> SUFFICES ASSUME IInv, Next, NEW p \in accepted' \ accepted
               PROVE  settings = of[p] \/ rpc \in {"retire"}
    OBVIOUS
  <2> USE DEF main, slots, producers, data, menu
  <2>1. CASE Offer
    <3>1. p = picked /\ p \notin stopping /\ p \in Ids
      BY <2>1 DEF Offer, IInv, Current
    <3>2. p # None
      BY <3>1, RuntimeAssumption DEF Ids, IInv, TypeOK
    <3> QED  BY <3>1, <3>2 DEF IInv, Current
  <2>2. CASE EndSession \/ PublishBegin \/ BeginSession \/ ChangeSettings \/ Pick \/ ReadStatus
    BY <2>2 DEF EndSession, PublishBegin, BeginSession, ChangeSettings, Pick, ReadStatus
  <2>3. CASE Main
    BY <2>3 DEF Main, SyncChanged, SyncSame, RequestStop, SpawnReaper, SpawnReaperThrows, Retain,
       Check, Create, CreateThrows, Install, Stop
  <2>4. CASE \E q \in Ids : WorkerEnds(q) \/ ReaperEnds(q)
    BY <2>4 DEF WorkerEnds, ReaperEnds
  <2> QED  BY <2>1, <2>2, <2>3, <2>4 DEF Next, Publisher
<1> QED  BY <1>1, Inductive, PTL DEF Spec, NothingToTheOld

(* A failed retirement is final: nothing is started, the slot is used once. *)
THEOREM FailureLasts == Spec => FailureIsFinal
<1> DEFINE Final == failed => failed' /\ abandoned' = abandoned /\ working' \subseteq working
<1>1. IInv /\ [Next]_vars => [Final]_vars
  <2> SUFFICES ASSUME IInv, Next, failed
               PROVE  failed' /\ abandoned' = abandoned /\ working' \subseteq working
    OBVIOUS
  <2> USE DEF main, slots, producers, data, menu
  <2>1. rpc \notin {"create", "install", "retire", "reap"}
    BY DEF IInv, Holders, Making, Retiring
  <2>2. CASE Main
    BY <2>1, <2>2 DEF Main, SyncChanged, SyncSame, RequestStop, SpawnReaper,
       SpawnReaperThrows, Retain, Check, Create, CreateThrows, Install, Stop
  <2>3. CASE Publisher
    BY <2>3 DEF Publisher, PublishBegin, Pick, ReadStatus, Offer
  <2>4. CASE BeginSession \/ EndSession \/ ChangeSettings
    BY <2>4 DEF BeginSession, EndSession, ChangeSettings
  <2>5. CASE \E q \in Ids : WorkerEnds(q) \/ ReaperEnds(q)
    BY <2>5 DEF WorkerEnds, ReaperEnds
  <2> QED  BY <2>2, <2>3, <2>4, <2>5 DEF Next
<1> QED  BY <1>1, Inductive, PTL DEF Spec, FailureIsFinal

(* At most one worker uses the relay, and no worker is let go unwatched.    *)
THEOREM WorkersAreAccounted == Spec => []WorkersAccounted
  BY ConnectsOnce, WorkersAreHeld, PTL DEF WorkersAccounted
-----------------------------------------------------------------------------
(* Every step of the program is one of the runtime, or none.                *)
LEMMA ProgramStep == ASSUME ProgramNext PROVE [Next]_vars
<1>1. CASE SessionBegins \/ SessionEnds
  BY <1>1 DEF SessionBegins, SessionEnds, Next
<1>2. CASE FocusChanges \/ StopWeb
  BY <1>2 DEF FocusChanges, StopWeb
<1>3. CASE DrawMenu
  BY <1>3 DEF DrawMenu, Next
<1>4. CASE SyncWebSame \/ SyncWebChanged \/ InstallService
  BY <1>4 DEF SyncWebSame, SyncWebChanged, InstallService
<1>5. CASE SyncRelay \/ StopRelay
  BY <1>5 DEF SyncRelay, StopRelay, Next, Main
<1>6. CASE PickService \/ Deliver \/ Record \/ SampleOnly
  BY <1>6 DEF PickService, Deliver, Record, SampleOnly
<1>7. CASE RelayPublishes
  BY <1>7 DEF RelayPublishes, Next, Publisher
<1>8. CASE GoInactive \/ SampleAndPublish
  BY <1>8 DEF GoInactive, SampleAndPublish, OfferToRelay, Next, Publisher
<1>9. CASE Threads
  BY <1>9 DEF Threads, Next
<1> QED  BY <1>1, <1>2, <1>3, <1>4, <1>5, <1>6, <1>7, <1>8, <1>9
         DEF ProgramNext, MainThread, DataThread

(* The program, seen as what it does with the relay, is the runtime.        *)
THEOREM ProgramImplementsRuntime == ProgramSpec => Spec
<1>1. ProgramInit => Init
  BY DEF ProgramInit
<1>2. [ProgramNext]_allVars => [Next]_vars
  BY ProgramStep DEF allVars
<1> QED  BY <1>1, <1>2, PTL DEF ProgramSpec, Spec

(* At most one worker of the program uses the relay, whatever the menu, the *)
(* game and the data thread do, and none is let go unwatched.               *)
THEOREM ProgramAccountsWorkers == ProgramSpec => []WorkersAccounted
  BY ProgramImplementsRuntime, WorkersAreAccounted, PTL

(* A connection that was switched off in the menu takes no more snapshots.  *)
THEOREM ProgramLeavesTheOld == ProgramSpec => NothingToTheOld
  BY ProgramImplementsRuntime, OldTakesNothing, PTL

LEMMA RuntimeInductive == ProgramSpec => []IInv
  BY ProgramImplementsRuntime, Inductive, PTL
-----------------------------------------------------------------------------
(* What is serialized.                                                      *)

LEMMA CachedIsOwn ==
    ASSUME NEW s, NEW o, NEW es
    PROVE  SerializeCached(s, o, es) = SerializeSnapshot(s, o)
<1>1. CASE \E e \in es : Matches(e, o)
  <2>1. (CHOOSE e \in es : Matches(e, o)) = o
    BY <1>1 DEF Matches
  <2> QED  BY <2>1, <1>1 DEF SerializeCached
<1> QED  BY <1>1 DEF SerializeCached

LEMMA RememberedIsKnown ==
    ASSUME NEW S, NEW o \in S, NEW es \in SUBSET S
    PROVE  Remembered(o, es) \in SUBSET S
  BY DEF Remembered

(* No consumer is shown more than its options permit.                       *)
LEMMA SerializedIsPermitted ==
    ASSUME NEW s \in Snapshots, NEW o \in Options
    PROVE  Permitted(SerializeSnapshot(s, o), o)
<1> DEFINE f == SerializeSnapshot(s, o)
<1> SUFFICES ASSUME NEW p \in f.players
             PROVE  /\ ~o.names => p.name = Null
                    /\ ~o.steamIds => p.steamId = Null
                    /\ o.team = "localTeamOnly" => p.team = f.localTeam
                    /\ o.team = "opponentsOnly" => p.team \in Sides \ {f.localTeam}
  BY DEF Permitted
<1>1. PICK q \in s.players : p = AppendPlayer(q, o) /\ IncludePlayer(s, q, o.team)
  BY DEF SerializeSnapshot
<1>2. q \in Player
  BY DEF Snapshots
<1>3. /\ ~o.names => p.name = Null
      /\ ~o.steamIds => p.steamId = Null
      /\ p.team = q.team
  BY <1>1, <1>2 DEF AppendPlayer, Player
<1>4. f.localTeam = s.localTeam
  BY DEF SerializeSnapshot
<1> QED  BY <1>1, <1>3, <1>4 DEF IncludePlayer, Options
-----------------------------------------------------------------------------
LEMMA OptionsKnown ==
    /\ Sanitized \in Options /\ Shares \cup {Sanitized} \subseteq Options
    /\ Lives \cup {Blank} \subseteq Snapshots
<1>1. Sanitized \in Options
  BY DEF Sanitized, Options, Policies
<1>2. Blank \in Snapshots
  BY DEF Blank, Snapshots, Teams
<1> QED  BY <1>1, <1>2, ProgramAssumption

(* What a hand-over gives.                                                  *)
LEMMA Handed ==
    ASSUME ProgramTypeOK, NEW o \in Shares \cup {Sanitized}, HandOver(o)
    PROVE  /\ given' = [frame |-> SerializeSnapshot(snapshot, o), options |-> o]
           /\ given'.frame \in Frames
           /\ given' \in [frame : Frames, options : Options]
           /\ entries' \subseteq Shares \cup {Sanitized}
           /\ given'.frame.connected = snapshot.connected
           /\ Permitted(given'.frame, given'.options)
<1>1. given' = [frame |-> SerializeSnapshot(snapshot, o), options |-> o]
  BY CachedIsOwn DEF HandOver
<1>2. snapshot \in Lives \cup {Blank} /\ snapshot \in Snapshots /\ o \in Options
  BY OptionsKnown DEF ProgramTypeOK
<1>3. SerializeSnapshot(snapshot, o) \in Frames
  BY <1>2 DEF Frames
<1>4. entries' \in SUBSET (Shares \cup {Sanitized})
  <2>1. entries \in SUBSET (Shares \cup {Sanitized}) /\ entries' = Remembered(o, entries)
    BY DEF HandOver, ProgramTypeOK
  <2> QED  BY <2>1, RememberedIsKnown
<1>5. SerializeSnapshot(snapshot, o).connected = snapshot.connected
  BY DEF SerializeSnapshot
<1>6. Permitted(SerializeSnapshot(snapshot, o), o)
  BY <1>2, SerializedIsPermitted
<1> QED  BY <1>1, <1>2, <1>3, <1>4, <1>5, <1>6
-----------------------------------------------------------------------------
(* The frame of the main thread, and the server it keeps.                   *)
Synced ==
    /\ frame # "web" => webSettings \in {web, Unset}
    /\ service \/ frame = "install" => webSettings \in Places
    /\ ~service => latest = Null /\ holds # "current"
    /\ mode # "session" => frame \in {"menu", "ending"}

(* The token in use is the one of this period, or none could be made.       *)
Linked == webSettings \in Places => token = periods \/ unlucky

(* While nobody samples the game the server shows none, or a publish is on  *)
(* its way to it, or it is about to be stopped.                             *)
Settled == latest = Null \/ ~latest.connected
OnItsWay == step = "web" \/ (step = "deliver" /\ holds = "current")
Blanked ==
    mode # "session" \/ cleared =>
        /\ snapshot = Blank
        /\ service => Settled \/ OnItsWay \/ (frame = "web" /\ webSettings # web)

PInv == ProgramTypeOK /\ Synced /\ Linked /\ Blanked /\ SharedAsAsked

LEMMA HandedShare == ProgramTypeOK /\ HandOver(job.share) =>
    /\ given'.frame \in Frames /\ given' \in [frame : Frames, options : Options]
    /\ entries' \subseteq Shares \cup {Sanitized}
    /\ given'.frame.connected = snapshot.connected
    /\ Permitted(given'.frame, given'.options)
  BY Handed DEF ProgramTypeOK

LEMMA HandedRelay == ProgramTypeOK /\ HandOver(job.relayShare) =>
    /\ given' \in [frame : Frames, options : Options]
    /\ entries' \subseteq Shares \cup {Sanitized}
    /\ Permitted(given'.frame, given'.options)
  BY Handed DEF ProgramTypeOK

LEMMA HandedRecord == ProgramTypeOK /\ HandOver(Sanitized) =>
    /\ given' \in [frame : Frames, options : Options]
    /\ entries' \subseteq Shares \cup {Sanitized}
    /\ Permitted(given'.frame, given'.options)
  BY Handed

(* Who changes the mode.                                                    *)
LEMMA ModeKept ==
    /\ DrawMenu \/ SyncRelay \/ RelayPublishes \/ GoInactive \/ SampleAndPublish
         \/ SampleOnly \/ Threads => mode' = mode
    /\ SessionBegins => mode' = "session"
    /\ SessionEnds => mode' = "waiting"
    /\ StopRelay => mode = "waiting" /\ mode' = "ended"
<1> USE DEF vars, menu, main, slots, producers, data
<1>1. DrawMenu \/ SampleOnly => mode' = mode
  BY DEF DrawMenu, ChangeSettings, SampleOnly
<1>2. SyncRelay => mode' = mode
  BY DEF SyncRelay, SyncChanged, SyncSame, RequestStop, SpawnReaper, SpawnReaperThrows, Retain,
         Check, Create, CreateThrows, Install
<1>3. RelayPublishes \/ GoInactive \/ SampleAndPublish => mode' = mode
  BY DEF RelayPublishes, Pick, ReadStatus, Offer, GoInactive, SampleAndPublish,
         OfferToRelay, PublishBegin
<1>4. Threads => mode' = mode
  BY DEF Threads, WorkerEnds, ReaperEnds
<1>5. /\ SessionBegins => mode' = "session"
      /\ SessionEnds => mode' = "waiting"
      /\ StopRelay => mode = "waiting" /\ mode' = "ended"
  BY DEF SessionBegins, BeginSession, SessionEnds, EndSession, StopRelay, Stop
<1> QED  BY <1>1, <1>2, <1>3, <1>4, <1>5

LEMMA CaptureTyped == ProgramTypeOK /\ Capture =>
    snapshot' \in Lives \cup {Blank} /\ entries' \subseteq Shares \cup {Sanitized}
  BY DEF ProgramTypeOK, Capture, ClearRuntimeState

LEMMA ProgramTypeStep == PInv /\ [ProgramNext]_allVars => ProgramTypeOK'
<1> DEFINE Goal == ProgramTypeOK'
<1> SUFFICES ASSUME PInv, [ProgramNext]_allVars PROVE Goal
  OBVIOUS
<1> USE RuntimeAssumption, ProgramAssumption
  DEF PInv, allVars, program, options, server, thread, vars, main, slots, producers, data, menu,
      ProgramTypeOK, Goal
<1>1. CASE SessionBegins
  BY <1>1 DEF SessionBegins
<1>2. CASE SessionEnds
  BY <1>2 DEF SessionEnds, ClearRuntimeState, StartPublishing, FirstStep
<1>3. CASE FocusChanges
  BY <1>3 DEF FocusChanges
<1>4. CASE StopWeb
  BY <1>4 DEF StopWeb, DetachAndStop
<1>5. CASE DrawMenu
  <2>1. /\ web' \in Places \cup {Off} /\ share' \in Shares /\ relayShare' \in Shares
        /\ pause' \in BOOLEAN /\ recording' \in BOOLEAN
    BY <1>5 DEF DrawMenu, ChangeOptions
  <2>2. frame' = "web" /\ UNCHANGED <<focus, server, thread>>
    BY <1>5 DEF DrawMenu
  <2> QED  BY <2>1, <2>2
<1>6. CASE SyncWebSame
  BY <1>6 DEF SyncWebSame
<1>7. CASE SyncWebChanged
  <2>1. periods' \in Nat /\ periods <= periods'
    BY <1>7 DEF SyncWebChanged, MakeViewerToken
  <2>2. token' \in {token, periods'} /\ unlucky' \in BOOLEAN
    BY <1>7 DEF SyncWebChanged, MakeViewerToken
  <2>3. webSettings' \in Places \cup {Off, Unset} /\ latest' = Null /\ service' = FALSE
    BY <1>7 DEF SyncWebChanged, MakeViewerToken, DetachAndStop
  <2>4. holds' \in {"none", "current", "old"} /\ frame' \in {"install", "relay"}
    BY <1>7 DEF SyncWebChanged, MakeViewerToken, DetachAndStop
  <2>5. UNCHANGED <<options, focus, step, job, snapshot, entries, cleared, given>>
    BY <1>7 DEF SyncWebChanged, MakeViewerToken
  <2>6. token' \in Nat /\ token' <= periods'
    BY <2>1, <2>2
  <2> QED  BY <2>1, <2>2, <2>3, <2>4, <2>5, <2>6
<1>8. CASE InstallService
  BY <1>8 DEF InstallService
<1>9. CASE SyncRelay
  BY <1>9 DEF SyncRelay
<1>10. CASE StopRelay
  BY <1>10 DEF StopRelay
<1>11. CASE PickService
  BY <1>11 DEF PickService, AfterWeb, AfterRelay
<1>12. CASE Deliver
  BY <1>12, HandedShare DEF Deliver, AfterWeb, AfterRelay
<1>13. CASE RelayPublishes
  BY <1>13, HandedRelay DEF RelayPublishes, AfterRelay
<1>14. CASE Record
  BY <1>14, HandedRecord DEF Record
<1>15. CASE GoInactive
  BY <1>15 DEF GoInactive, ClearRuntimeState, StartPublishing, FirstStep, OfferToRelay
<1>16. CASE SampleAndPublish
  <2>1. snapshot' \in Lives \cup {Blank} /\ entries' \subseteq Shares \cup {Sanitized}
    BY <1>16, CaptureTyped DEF SampleAndPublish
  <2> QED  BY <2>1, <1>16 DEF SampleAndPublish, StartPublishing, FirstStep
<1>17. CASE SampleOnly
  <2>1. snapshot' \in Lives \cup {Blank} /\ entries' \subseteq Shares \cup {Sanitized}
    BY <1>17, CaptureTyped DEF SampleOnly
  <2> QED  BY <2>1, <1>17 DEF SampleOnly
<1>18. CASE Threads
  BY <1>18 DEF Threads
<1>u. CASE UNCHANGED allVars
  BY <1>u
<1> QED  BY <1>1, <1>2, <1>3, <1>4, <1>5, <1>6, <1>7, <1>8, <1>9, <1>10, <1>11, <1>12, <1>13,
  <1>14, <1>15, <1>16, <1>17, <1>18, <1>u
        DEF ProgramNext, MainThread, DataThread

LEMMA SyncedStep == PInv /\ [ProgramNext]_allVars => Synced'
<1> DEFINE Goal == Synced'
<1> SUFFICES ASSUME PInv, [ProgramNext]_allVars PROVE Goal
  OBVIOUS
<1> USE RuntimeAssumption, ProgramAssumption
  DEF PInv, allVars, program, options, server, thread, vars, main, slots, producers, data, menu,
      ProgramTypeOK, Synced, Goal
<1>1. CASE SessionBegins
  BY ModeKept, <1>1 DEF SessionBegins
<1>2. CASE SessionEnds
  BY ModeKept, <1>2 DEF SessionEnds, ClearRuntimeState, StartPublishing, FirstStep
<1>3. CASE FocusChanges
  BY ModeKept, <1>3 DEF FocusChanges
<1>4. CASE StopWeb
  BY ModeKept, <1>4 DEF StopWeb, DetachAndStop
<1>5. CASE DrawMenu
  BY ModeKept, <1>5 DEF DrawMenu, ChangeOptions
<1>6. CASE SyncWebSame
  BY ModeKept, <1>6 DEF SyncWebSame
<1>7. CASE SyncWebChanged
  BY ModeKept, <1>7 DEF SyncWebChanged, MakeViewerToken, RotateToken, DetachAndStop
<1>8. CASE InstallService
  BY ModeKept, <1>8 DEF InstallService
<1>9. CASE SyncRelay
  BY ModeKept, <1>9 DEF SyncRelay
<1>10. CASE StopRelay
  BY ModeKept, <1>10 DEF StopRelay
<1>11. CASE PickService
  BY ModeKept, <1>11 DEF PickService, AfterWeb, AfterRelay
<1>12. CASE Deliver
  BY ModeKept, <1>12, HandedShare DEF Deliver, AfterWeb, AfterRelay
<1>13. CASE RelayPublishes
  BY ModeKept, <1>13, HandedRelay DEF RelayPublishes, AfterRelay
<1>14. CASE Record
  BY ModeKept, <1>14, HandedRecord DEF Record
<1>15. CASE GoInactive
  BY ModeKept, <1>15 DEF GoInactive, ClearRuntimeState, StartPublishing, FirstStep, OfferToRelay
<1>16. CASE SampleAndPublish
  BY ModeKept, <1>16 DEF SampleAndPublish, Capture, ClearRuntimeState, StartPublishing,
    FirstStep, OfferToRelay
<1>17. CASE SampleOnly
  BY ModeKept, <1>17 DEF SampleOnly, Capture, ClearRuntimeState
<1>18. CASE Threads
  BY ModeKept, <1>18 DEF Threads
<1>u. CASE UNCHANGED allVars
  BY ModeKept, <1>u
<1> QED  BY <1>1, <1>2, <1>3, <1>4, <1>5, <1>6, <1>7, <1>8, <1>9, <1>10, <1>11, <1>12, <1>13,
  <1>14, <1>15, <1>16, <1>17, <1>18, <1>u
        DEF ProgramNext, MainThread, DataThread

LEMMA LinkedStep == PInv /\ [ProgramNext]_allVars => Linked'
<1> DEFINE Goal == Linked'
<1> SUFFICES ASSUME PInv, [ProgramNext]_allVars PROVE Goal
  OBVIOUS
<1> USE RuntimeAssumption, ProgramAssumption
  DEF PInv, allVars, program, options, server, thread, vars, main, slots, producers, data, menu,
      ProgramTypeOK, Synced, Linked, Goal
<1>1. CASE SessionBegins
  BY <1>1 DEF SessionBegins
<1>2. CASE SessionEnds
  BY <1>2 DEF SessionEnds, ClearRuntimeState, StartPublishing, FirstStep
<1>3. CASE FocusChanges
  BY <1>3 DEF FocusChanges
<1>4. CASE StopWeb
  BY <1>4 DEF StopWeb, DetachAndStop
<1>5. CASE DrawMenu
  BY <1>5 DEF DrawMenu, ChangeOptions
<1>6. CASE SyncWebSame
  BY <1>6 DEF SyncWebSame
<1>7. CASE SyncWebChanged
  BY <1>7 DEF SyncWebChanged, MakeViewerToken, RotateToken, DetachAndStop
<1>8. CASE InstallService
  BY <1>8 DEF InstallService
<1>9. CASE SyncRelay
  BY <1>9 DEF SyncRelay
<1>10. CASE StopRelay
  BY <1>10 DEF StopRelay
<1>11. CASE PickService
  BY <1>11 DEF PickService, AfterWeb, AfterRelay
<1>12. CASE Deliver
  BY <1>12, HandedShare DEF Deliver, AfterWeb, AfterRelay
<1>13. CASE RelayPublishes
  BY <1>13, HandedRelay DEF RelayPublishes, AfterRelay
<1>14. CASE Record
  BY <1>14, HandedRecord DEF Record
<1>15. CASE GoInactive
  BY <1>15 DEF GoInactive, ClearRuntimeState, StartPublishing, FirstStep, OfferToRelay
<1>16. CASE SampleAndPublish
  BY <1>16 DEF SampleAndPublish, Capture, ClearRuntimeState, StartPublishing, FirstStep,
    OfferToRelay
<1>17. CASE SampleOnly
  BY <1>17 DEF SampleOnly, Capture, ClearRuntimeState
<1>18. CASE Threads
  BY <1>18 DEF Threads
<1>u. CASE UNCHANGED allVars
  BY <1>u
<1> QED  BY <1>1, <1>2, <1>3, <1>4, <1>5, <1>6, <1>7, <1>8, <1>9, <1>10, <1>11, <1>12, <1>13,
  <1>14, <1>15, <1>16, <1>17, <1>18, <1>u
        DEF ProgramNext, MainThread, DataThread

LEMMA BlankedStep == PInv /\ [ProgramNext]_allVars => Blanked'
<1> DEFINE Goal == Blanked'
<1> SUFFICES ASSUME PInv, [ProgramNext]_allVars PROVE Goal
  OBVIOUS
<1> USE RuntimeAssumption, ProgramAssumption
  DEF PInv, allVars, program, options, server, thread, vars, main, slots, producers, data, menu,
      ProgramTypeOK, Synced, Blanked, Settled, OnItsWay, Blank, Goal
<1>1. CASE SessionBegins
  BY ModeKept, <1>1 DEF SessionBegins
<1>2. CASE SessionEnds
  BY ModeKept, <1>2 DEF SessionEnds, ClearRuntimeState, StartPublishing, FirstStep
<1>3. CASE FocusChanges
  BY ModeKept, <1>3 DEF FocusChanges
<1>4. CASE StopWeb
  BY ModeKept, <1>4 DEF StopWeb, DetachAndStop
<1>5. CASE DrawMenu
  BY ModeKept, <1>5 DEF DrawMenu, ChangeOptions
<1>6. CASE SyncWebSame
  BY ModeKept, <1>6 DEF SyncWebSame
<1>7. CASE SyncWebChanged
  BY ModeKept, <1>7 DEF SyncWebChanged, MakeViewerToken, RotateToken, DetachAndStop
<1>8. CASE InstallService
  BY ModeKept, <1>8 DEF InstallService
<1>9. CASE SyncRelay
  BY ModeKept, <1>9 DEF SyncRelay
<1>10. CASE StopRelay
  BY ModeKept, <1>10 DEF StopRelay
<1>11. CASE PickService
  BY ModeKept, <1>11 DEF PickService, AfterWeb, AfterRelay
<1>12. CASE Deliver
  BY ModeKept, <1>12, HandedShare DEF Deliver, AfterWeb, AfterRelay
<1>13. CASE RelayPublishes
  BY ModeKept, <1>13, HandedRelay DEF RelayPublishes, AfterRelay
<1>14. CASE Record
  BY ModeKept, <1>14, HandedRecord DEF Record
<1>15. CASE GoInactive
  BY ModeKept, <1>15 DEF GoInactive, ClearRuntimeState, StartPublishing, FirstStep, OfferToRelay
<1>16. CASE SampleAndPublish
  BY ModeKept, <1>16 DEF SampleAndPublish, StartsIteration, Capture, ClearRuntimeState,
    StartPublishing, FirstStep, OfferToRelay
<1>17. CASE SampleOnly
  BY ModeKept, <1>17 DEF SampleOnly, StartsIteration, Capture, ClearRuntimeState
<1>18. CASE Threads
  BY ModeKept, <1>18 DEF Threads
<1>u. CASE UNCHANGED allVars
  BY ModeKept, <1>u
<1> QED  BY <1>1, <1>2, <1>3, <1>4, <1>5, <1>6, <1>7, <1>8, <1>9, <1>10, <1>11, <1>12, <1>13,
  <1>14, <1>15, <1>16, <1>17, <1>18, <1>u
        DEF ProgramNext, MainThread, DataThread

LEMMA SharedStep == PInv /\ [ProgramNext]_allVars => SharedAsAsked'
<1> DEFINE Goal == SharedAsAsked'
<1> SUFFICES ASSUME PInv, [ProgramNext]_allVars PROVE Goal
  OBVIOUS
<1> USE RuntimeAssumption, ProgramAssumption
  DEF PInv, allVars, program, options, server, thread, vars, main, slots, producers, data, menu,
      ProgramTypeOK, SharedAsAsked, Goal
<1>1. CASE SessionBegins
  BY <1>1 DEF SessionBegins
<1>2. CASE SessionEnds
  BY <1>2 DEF SessionEnds, ClearRuntimeState, StartPublishing, FirstStep
<1>3. CASE FocusChanges
  BY <1>3 DEF FocusChanges
<1>4. CASE StopWeb
  BY <1>4 DEF StopWeb, DetachAndStop
<1>5. CASE DrawMenu
  BY <1>5 DEF DrawMenu, ChangeOptions
<1>6. CASE SyncWebSame
  BY <1>6 DEF SyncWebSame
<1>7. CASE SyncWebChanged
  BY <1>7 DEF SyncWebChanged, MakeViewerToken, RotateToken, DetachAndStop
<1>8. CASE InstallService
  BY <1>8 DEF InstallService
<1>9. CASE SyncRelay
  BY <1>9 DEF SyncRelay
<1>10. CASE StopRelay
  BY <1>10 DEF StopRelay
<1>11. CASE PickService
  BY <1>11 DEF PickService, AfterWeb, AfterRelay
<1>12. CASE Deliver
  BY <1>12, HandedShare DEF Deliver, AfterWeb, AfterRelay
<1>13. CASE RelayPublishes
  BY <1>13, HandedRelay DEF RelayPublishes, AfterRelay
<1>14. CASE Record
  BY <1>14, HandedRecord DEF Record
<1>15. CASE GoInactive
  BY <1>15 DEF GoInactive, ClearRuntimeState, StartPublishing, FirstStep, OfferToRelay
<1>16. CASE SampleAndPublish
  BY <1>16 DEF SampleAndPublish, Capture, ClearRuntimeState, StartPublishing, FirstStep,
    OfferToRelay
<1>17. CASE SampleOnly
  BY <1>17 DEF SampleOnly, Capture, ClearRuntimeState
<1>18. CASE Threads
  BY <1>18 DEF Threads
<1>u. CASE UNCHANGED allVars
  BY <1>u
<1> QED  BY <1>1, <1>2, <1>3, <1>4, <1>5, <1>6, <1>7, <1>8, <1>9, <1>10, <1>11, <1>12, <1>13,
  <1>14, <1>15, <1>16, <1>17, <1>18, <1>u
        DEF ProgramNext, MainThread, DataThread

-----------------------------------------------------------------------------
LEMMA ProgramInductive == ProgramSpec => []PInv
<1>1. ASSUME ProgramInit PROVE PInv
  <2> USE <1>1, RuntimeAssumption, ProgramAssumption DEF ProgramInit, Init
  <2>1. ProgramTypeOK
    <3>1. share \in Shares /\ token \in Nat /\ periods \in Nat /\ token <= periods
      OBVIOUS
    <3>3. {pause, recording, focus, service, cleared, unlucky} = {pause, FALSE}
      OBVIOUS
    <3>4. {pause, recording, focus, service, cleared, unlucky} \subseteq BOOLEAN
      <4>1. pause \in BOOLEAN
        BY ZenonT(20)
      <4> QED  BY <3>3, <4>1, ZenonT(20)
    <3>2. job \in [share : Shares, relayShare : Shares, record : BOOLEAN]
      OBVIOUS
    <3> QED  BY <3>1, <3>2, <3>4 DEF ProgramTypeOK
  <2>2. Synced /\ Linked /\ Blanked /\ SharedAsAsked
    BY DEF Synced, Linked, Blanked, SharedAsAsked
  <2> QED  BY <2>1, <2>2 DEF PInv
<1>2. PInv /\ [ProgramNext]_allVars => PInv'
  BY ProgramTypeStep, SyncedStep, LinkedStep, BlankedStep, SharedStep DEF PInv
<1> QED  BY <1>1, <1>2, PTL DEF ProgramSpec

(* Every reachable state of the program is well typed.                      *)
THEOREM ProgramIsTyped == ProgramSpec => []ProgramTypeOK
<1>1. PInv => ProgramTypeOK
  BY DEF PInv
<1> QED  BY <1>1, ProgramInductive, PTL

(* Whoever looks at the embedded server while no game is sampled, because   *)
(* it is lost or pushed to the background with the pause switched on, is    *)
(* not shown the last position for ever.                                    *)
THEOREM ViewersSeeNoLostGame == ProgramSpec => []UnsampledIsBlank
<1>1. PInv => UnsampledIsBlank
  <2> SUFFICES ASSUME PInv PROVE UnsampledIsBlank
    OBVIOUS
  <2> USE DEF PInv, Synced, Blanked, Settled, OnItsWay
  <2>1. NoFrozenGame
    BY DEF NoFrozenGame, Publishing
  <2>2. PausedIsBlank
    BY DEF PausedIsBlank, Publishing, InStep
  <2> QED  BY <2>1, <2>2 DEF UnsampledIsBlank
<1> QED  BY <1>1, ProgramInductive, PTL

(* Each consumer gets what its own options permit, whoever made the payload *)
(* before it.                                                               *)
THEOREM PayloadsAreOwn == ProgramSpec => []SharedAsAsked
<1>1. PInv => SharedAsAsked
  BY DEF PInv
<1> QED  BY <1>1, ProgramInductive, PTL

(* A link given out in an earlier period does not open the server.          *)
THEOREM LinksDie == ProgramSpec => []OldLinksDie
<1>1. PInv => OldLinksDie
  BY DEF PInv, Synced, Linked, OldLinksDie, Opens
<1> QED  BY <1>1, ProgramInductive, PTL
=============================================================================
