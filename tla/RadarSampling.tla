--------------------------- MODULE RadarSampling ---------------------------
(***************************************************************************)
(* esp::updateEntities: one pass of the data thread over the game's memory, *)
(* as far as it builds the radar snapshot, with the retention of last-known *)
(* positions of radar_player_sample.hpp.                                    *)
(*                                                                          *)
(* The game is not part of the model.  It runs while a pass reads it, so    *)
(* each read of a pass may answer anything, independently of the reads      *)
(* before it: another map, another pawn in the slot, a failure.  What the   *)
(* code must not do is mix what it has just read of a player or a target    *)
(* with what it kept from an earlier map, life, player or session, or what  *)
(* it has read of the bomb with an earlier session.  That the bomb is of    *)
(* the map it is shown in the code does not ensure.                         *)
(*                                                                          *)
(* Yaw is kept by the same rules as the position and is left out; so are    *)
(* the lists of opponents and of grenades that the same pass makes for the  *)
(* overlay.  Time is kept as ages, cut off where they no longer matter.     *)
(***************************************************************************)
EXTENDS Naturals

CONSTANTS
    Players,    \* player controllers of the entity list; makeOpaquePlayerId
    Pawns,      \* pawns: an address, a handle with its serial number, a team
    Accounts,   \* Steam identities
    Maps,       \* normalised map ids
    Spots,      \* valid positions
    Zero,       \* the world origin, and what an entity in the making tells
    None,       \* a failed read, an empty id, an empty optional
    MaxAge,     \* kLastKnownMaximumAgeMs, in units of the model's clock
    MaxFailures \* consecutive failures that end a session: 3

Ages == 0..MaxAge + 1
Cached == [pawn : Pawns, account : Accounts \cup {None}, named : BOOLEAN]
Sample == [pawn : Pawns, account : Accounts \cup {None}, alive : BOOLEAN,
           pos : Spots \cup {None}, at : Ages, seenAt : Ages]
Life == [pawn : Pawns, account : Accounts \cup {None}, alive : BOOLEAN, at : Ages]
Marker == [alive : BOOLEAN, dormant : BOOLEAN, pos : Spots \cup {None}]
Sight == [pawn : Pawns, at : Ages]

ASSUME SamplingAssumption ==
    /\ MaxAge \in Nat /\ MaxFailures \in Nat \ {0}
    /\ Zero \in Spots
    /\ None \notin Players \cup Pawns \cup Accounts \cup Maps \cup Spots \cup Nat
    /\ None \notin Cached /\ None \notin Sample /\ None \notin Life
    /\ None \notin Marker /\ None \notin Sight

VARIABLES
    pc,         \* where updateEntities is
    radar,      \* this pass: config.radarSnapshotEnabled()
    capture,    \* this pass: captureRadarSnapshot
    todo,       \* this pass: cached pawns the loop has not reached
    drawn,      \* this pass: sampledPlayers
    watched,    \* this pass: sampledObservedPlayerId
    observed,   \* this pass: sampledObservedPawnHandle
    bomb,       \* this pass: snapshot->bomb
    failures,   \* consecutiveReadFailures
    valid,      \* localPlayer.isValid
    cache,      \* cachedPawns, by player
    epoch,      \* radarSamplingLocalPawn
    mapId,      \* radarSamplingMapId; during a capture also cachedMapState.id
    samples,    \* radarPlayerLastKnownSamples
    target,     \* cachedObservedPawnHandle and when it was sampled
    c4,         \* cachedWorldEntities has a C4 without an owner
    dropped,    \* droppedBombPosition is set
    planted,    \* bombInfo.isPlanted: ticking, exploded or defused
    shown,      \* gameSnapshot
    fresh,      \* history: age of the last position read of each player since
                \* the reads last told a different game, life or player
    seen,       \* history: what was last read of each player since then
    looked,     \* history: the last observer target read since then
    plantedRead, droppedRead    \* history: what was last read of them, in
                \* this session and since they were last asked for

pass == <<radar, capture, todo, drawn, watched, observed, bomb>>
kept == <<cache, epoch, mapId, samples, target>>
health == <<failures, valid>>
world == <<c4, dropped, planted, plantedRead, droppedRead>>
history == <<fresh, seen, looked>>
vars == <<pc, pass, health, kept, world, shown, history>>

Nobody == [p \in Players |-> None]
Blank == [connected |-> FALSE, map |-> None, players |-> Nobody, observed |-> None]

TypeOK ==
    /\ pc \in {"idle", "cache", "map", "observer", "players", "publish"}
    /\ radar \in BOOLEAN /\ capture \in BOOLEAN /\ todo \subseteq Players
    /\ drawn \in [Players -> Marker \cup {None}]
    /\ watched \in Players \cup {None} /\ observed \in Pawns \cup {None}
    /\ failures \in 0..MaxFailures - 1 /\ valid \in BOOLEAN
    /\ cache \in [Players -> Cached \cup {None}]
    /\ epoch \in Pawns \cup {None} /\ mapId \in Maps \cup {None}
    /\ samples \in [Players -> Sample \cup {None}]
    /\ target \in Sight \cup {None}
    /\ shown \in [connected : BOOLEAN, map : Maps \cup {None},
                  players : [Players -> Marker \cup {None}],
                  observed : Players \cup {None}]
    /\ fresh \in [Players -> Ages \cup {None}]
    /\ seen \in [Players -> Life \cup {None}]
    /\ looked \in Sight \cup {None}
    /\ bomb \in {"unknown", "planted", "carried", "dropped"}
    /\ c4 \in BOOLEAN /\ dropped \in BOOLEAN /\ planted \in BOOLEAN
    /\ plantedRead \in BOOLEAN /\ droppedRead \in BOOLEAN

Init ==
    /\ pc = "idle" /\ radar = FALSE /\ capture = FALSE
    /\ todo = {} /\ drawn = Nobody /\ watched = None /\ observed = None
    /\ bomb = "unknown"
    /\ c4 = FALSE /\ dropped = FALSE /\ planted = FALSE
    /\ plantedRead = FALSE /\ droppedRead = FALSE
    /\ failures = 0 /\ valid = FALSE
    /\ cache = Nobody /\ epoch = None /\ mapId = None /\ samples = Nobody
    /\ target = None /\ shown = Blank
    /\ fresh = Nobody /\ seen = Nobody /\ looked = None
-----------------------------------------------------------------------------
Older(age, dt) == IF age + dt > MaxAge THEN MaxAge + 1 ELSE age + dt

AgedSamples(dt) ==
    [p \in Players |->
       IF samples[p] = None THEN None
       ELSE [samples[p] EXCEPT !.at = Older(@, dt), !.seenAt = Older(@, dt)]]
AgedSight(s, dt) == IF s = None THEN None ELSE [s EXCEPT !.at = Older(@, dt)]

(* The history grows old too.                                               *)
AgedHistory(dt) ==
    /\ fresh' = [p \in Players |->
                   IF fresh[p] = None THEN None ELSE Older(fresh[p], dt)]
    /\ seen' = [p \in Players |-> AgedSight(seen[p], dt)]
    /\ looked' = AgedSight(looked, dt)

(* The reads tell another game from here on.                                *)
NewGame == fresh' = Nobody /\ seen' = Nobody /\ looked' = None
EndPass == /\ todo' = {} /\ drawn' = Nobody /\ watched' = None /\ observed' = None
           /\ bomb' = "unknown" /\ capture' = FALSE /\ pc' = "idle"

(* esp::clearRuntimeState                                                   *)
ForgetBomb_ButPlanted == c4' = FALSE /\ dropped' = FALSE /\ UNCHANGED planted
ForgetBomb == c4' = FALSE /\ dropped' = FALSE /\ planted' = FALSE

ClearState ==
    /\ cache' = Nobody /\ epoch' = None /\ mapId' = None /\ samples' = Nobody
    /\ target' = None /\ failures' = 0 /\ valid' = FALSE
    /\ shown' = Blank
    /\ ForgetBomb /\ plantedRead' = FALSE /\ droppedRead' = FALSE
    /\ NewGame

(* The game lost the focus, or the session ended.                           *)
ClearRuntimeState ==
    /\ pc = "idle"
    /\ ClearState
    /\ UNCHANGED <<pc, pass>>

RecordUpdateFailure ==
    IF failures + 1 >= MaxFailures
    THEN ClearState
    ELSE /\ failures' = failures + 1 /\ valid' = FALSE
         /\ UNCHANGED <<kept, world, shown, history>>

(* The local pawn, its position, angles or team, or the view matrix cannot  *)
(* be read or makes no sense.                                               *)
LocalSampleFails ==
    /\ pc = "idle"
    /\ RecordUpdateFailure
    /\ UNCHANGED <<pc, pass>>

SameEpoch(r, pawn) == r /\ epoch = pawn

(* The local player is read coherently and dt has passed.  A pass without   *)
(* the radar forgets; another local pawn is another sampling epoch.         *)
BeginPass(r, pawn, due, dt) ==
    /\ pc = "idle" /\ pc' = "cache"
    /\ failures' = 0 /\ valid' = TRUE
    /\ radar' = r /\ capture' = (r /\ due)
    /\ epoch' = IF r THEN pawn ELSE None
    /\ IF SameEpoch(r, pawn)
       THEN /\ samples' = AgedSamples(dt) /\ target' = AgedSight(target, dt)
            /\ UNCHANGED mapId
       ELSE samples' = Nobody /\ target' = None /\ mapId' = None
    /\ IF r /\ pawn = epoch
       THEN AgedHistory(dt)
       ELSE NewGame
    /\ UNCHANGED <<todo, drawn, watched, observed, bomb, cache, world, shown>>
-----------------------------------------------------------------------------
(* The cache of pawns is refreshed when it is empty, when it was made       *)
(* without the radar and has no identities, or when its time has come.      *)
Incomplete_Never == FALSE
Incomplete == radar /\ \E p \in Players : cache[p] # None /\ ~cache[p].named

AfterCache == IF capture THEN "map" ELSE "players"

KeepCache ==
    /\ pc = "cache" /\ cache # Nobody /\ ~Incomplete
    /\ pc' = AfterCache
    /\ UNCHANGED <<pass, health, kept, world, shown, history>>

(* Without the radar only live opponents are cached, and no identity read.  *)
Readable == IF radar THEN [pawn : Pawns, account : Accounts \cup {None}, named : {TRUE}]
                     ELSE [pawn : Pawns, account : {None}, named : {FALSE}]

RefreshEntityCache ==
    /\ pc = "cache"
    /\ cache' \in [Players -> Readable \cup {None}]
    /\ pc' = AfterCache
    /\ UNCHANGED <<pass, health, epoch, mapId, samples, target, world, shown, history>>

(* No entity list, no local pawn or no team any more.                       *)
RefreshFails ==
    /\ pc = "cache"
    /\ cache' = Nobody /\ samples' = Nobody /\ epoch' = None /\ mapId' = None
    /\ target' = None
    /\ NewGame
    /\ pc' = AfterCache
    /\ UNCHANGED <<pass, health, world, shown>>
-----------------------------------------------------------------------------
MapChanged(m) == m = None \/ mapId # m

(* Positions and observer handles belong to one map; an empty id is a       *)
(* boundary too.                                                            *)
SampleMapState(m) ==
    /\ pc = "map"
    /\ mapId' = m
    /\ IF MapChanged(m)
       THEN samples' = Nobody /\ target' = None
       ELSE UNCHANGED <<samples, target>>
    /\ IF m = None \/ m # mapId THEN NewGame ELSE UNCHANGED history
    /\ IF m = None
       THEN pc' = "players" /\ todo' = {p \in Players : cache[p] # None}
       ELSE pc' = "observer" /\ UNCHANGED todo
    /\ UNCHANGED <<radar, capture, drawn, watched, observed, bomb, health,
                   cache, epoch, world, shown>>

Reusable_Always == target # None
Reusable == target # None /\ target.at <= MaxAge

ObserverDone(t, o) ==
    /\ pc = "observer" /\ pc' = "players"
    /\ todo' = {p \in Players : cache[p] # None}
    /\ target' = t /\ observed' = o
    /\ UNCHANGED <<radar, capture, drawn, watched, bomb, health, cache, epoch,
                   mapId, samples, world, shown, fresh, seen>>

ObserverKnown(pawn) ==
    /\ ObserverDone(IF pawn = None THEN None ELSE [pawn |-> pawn, at |-> 0], pawn)
    /\ looked' = IF pawn = None THEN None ELSE [pawn |-> pawn, at |-> 0]

ObserverUnknown ==
    /\ IF Reusable THEN ObserverDone(target, target.pawn) ELSE ObserverDone(None, None)
    /\ UNCHANGED looked
-----------------------------------------------------------------------------
(* isCompatibleIdentityObservation: an account that cannot be read is no    *)
(* evidence of another player.                                              *)
Conflicts(a, b) == a # None /\ b # None /\ a # b
Compatible_AnyAccount(s, pawn, account) == s.pawn = pawn
Compatible(s, pawn, account) == s.pawn = pawn /\ ~Conflicts(s.account, account)

Revived(s, alive) == ~s.alive /\ alive

(* The entry retainPlayerSample goes on with: the kept one, which may now   *)
(* be bound to an account, or a new one.                                    *)
Continued(p, pawn, account, alive) ==
    LET old == samples[p] IN
    IF old = None \/ ~Compatible(old, pawn, account) \/ Revived(old, alive)
    THEN [pawn |-> pawn, account |-> account, alive |-> alive, pos |-> None,
          at |-> 0, seenAt |-> 0]
    ELSE [old EXCEPT !.account = IF account # None THEN account ELSE @,
                     !.alive = alive, !.seenAt = 0]

Takes_Moving(s, dormant, pos) == pos # None
(* A dead or dormant player keeps the position it was last known at; one    *)
(* that moves takes each position read.                                     *)
Takes(s, dormant, pos) == pos # None /\ ((s.alive /\ ~dormant) \/ s.pos = None)

Stored(s, dormant, pos) ==
    IF Takes(s, dormant, pos) THEN [s EXCEPT !.pos = pos, !.at = 0] ELSE s

CanReuseLastKnown_Old(s) == TRUE
CanReuseLastKnown(s) == s.at <= MaxAge

Retained(s, dormant) ==
    IF ~s.alive \/ dormant \/ CanReuseLastKnown(s) THEN s.pos ELSE None

(* The owning controller, the health and the team of a cached pawn are read *)
(* again before it is used.                                                 *)
SkipPlayer(p) ==
    /\ pc = "players" /\ p \in todo
    /\ todo' = todo \ {p}
    /\ UNCHANGED <<pc, radar, capture, drawn, watched, observed, bomb, health,
                   kept, world, shown, history>>

(* The scene node counts only if its owner is the pawn; a zero in it is     *)
(* believed only for want of something better.                              *)
ChoosePosition(absolute, old) ==
    IF absolute = None \/ (absolute = Zero /\ old \notin {None, Zero})
    THEN old ELSE absolute

NoNode == [owned |-> FALSE, dormant |-> TRUE, absolute |-> None]
Scenes == {NoNode} \cup
          [owned : {TRUE}, dormant : BOOLEAN, absolute : Spots \cup {None}]

Readings == {[dormant |-> scene.dormant, pos |-> ChoosePosition(scene.absolute, old)] :
                scene \in Scenes, old \in Spots \cup {None}}

(* The history: is this the same life of the same player as last read?      *)
SameLife(p, pawn, account, alive) ==
    /\ seen[p] # None
    /\ seen[p].pawn = pawn /\ ~Conflicts(seen[p].account, account)
    /\ ~(~seen[p].alive /\ alive)

Remember(p, pawn, account, alive, pos) ==
    /\ seen' = [seen EXCEPT ![p] =
          [pawn |-> pawn, alive |-> alive, at |-> 0,
           account |-> IF account = None /\ SameLife(p, pawn, account, alive)
                       THEN seen[p].account ELSE account]]
    /\ fresh' = [fresh EXCEPT ![p] =
          IF pos # None THEN 0
          ELSE IF SameLife(p, pawn, account, alive) THEN @ ELSE None]

Watches(p, alive) == observed # None /\ observed = cache[p].pawn /\ alive

SamplePlayer(p, alive, dormant, pos) ==
    LET c == cache[p]
        s == Stored(Continued(p, c.pawn, c.account, alive), dormant, pos)
        keeps == mapId # None /\ c.named
    IN  /\ pc = "players" /\ p \in todo
        /\ todo' = todo \ {p}
        /\ samples' = IF keeps THEN [samples EXCEPT ![p] = s] ELSE samples
        /\ drawn' = [drawn EXCEPT ![p] =
              [alive |-> alive, dormant |-> dormant,
               pos |-> IF keeps THEN Retained(s, dormant) ELSE pos]]
        /\ watched' = IF Watches(p, alive) THEN p ELSE watched
        /\ Remember(p, c.pawn, c.account, alive, pos)
        /\ UNCHANGED <<pc, radar, capture, observed, bomb, health, cache, epoch, mapId,
                       target, world, shown, looked>>

-----------------------------------------------------------------------------
(* The second half of every pass: the entities of the world and the bomb,   *)
(* each in a rhythm of its own, and each also for the overlay alone.        *)
ClearWorldEntities == c4' = FALSE /\ dropped' = FALSE /\ droppedRead' = FALSE

(* Only for the radar a C4 without an owner is looked for.                  *)
RefreshWorldEntityCache == c4' \in IF radar THEN BOOLEAN ELSE {FALSE}

(* A cached C4 may have lost its place in the entity list since.            *)
UpdateWorldEntityPositions ==
    /\ dropped' \in IF c4' THEN BOOLEAN ELSE {FALSE}
    /\ droppedRead' = dropped'

(* other: config.grenadeESP or config.droppedWeaponESP                      *)
SampleWorldEntities(other) ==
    IF radar \/ other
    THEN /\ RefreshWorldEntityCache \/ UNCHANGED c4
         /\ UpdateWorldEntityPositions \/ UNCHANGED <<dropped, droppedRead>>
    ELSE ClearWorldEntities

ClearBombInfo == planted' = FALSE /\ plantedRead' = FALSE

(* A bomb is read, or found not to be there; when a read fails half-way,    *)
(* what was published before stays.                                         *)
UpdateBombInfo ==
    \/ planted' = TRUE /\ plantedRead' = TRUE
    \/ ClearBombInfo
    \/ UNCHANGED <<planted, plantedRead>>

(* timer: config.bombTimer                                                  *)
SampleBomb(timer) == IF radar \/ timer THEN UpdateBombInfo ELSE ClearBombInfo

(* What is planted goes before what is carried, and that before what lies.  *)
BombState(carried) ==
    IF planted' THEN "planted" ELSE IF carried THEN "carried"
    ELSE IF dropped' THEN "dropped" ELSE "unknown"

(* Players not read for too long are forgotten.                             *)
ForgetUnseen ==
    /\ samples' = [p \in Players |->
          IF samples[p] # None /\ samples[p].seenAt > MaxAge THEN None ELSE samples[p]]
    /\ LET gone == {p \in Players : seen[p] # None /\ seen[p].at > MaxAge}
       IN  /\ seen' = [p \in Players |-> IF p \in gone THEN None ELSE seen[p]]
           /\ fresh' = [p \in Players |-> IF p \in gone THEN None ELSE fresh[p]]

(* After the last cached pawn.  With the radar it does not matter what the  *)
(* overlay asks for.  One of those drawn may carry the bomb.                *)
SampleWorld(other, timer, carried) ==
    /\ pc = "players" /\ todo = {}
    /\ radar => other /\ timer
    /\ carried => drawn # Nobody
    /\ SampleWorldEntities(other)
    /\ SampleBomb(timer)
    /\ IF capture
       THEN pc' = "publish" /\ bomb' = BombState(carried) /\ ForgetUnseen
       ELSE pc' = "idle" /\ UNCHANGED <<bomb, samples, seen, fresh>>
    /\ UNCHANGED <<radar, capture, todo, drawn, watched, observed, health, cache, epoch,
                   mapId, target, shown, looked>>

(* The snapshot is handed to the readers in one step, under dataMutex.      *)
Publish ==
    /\ pc = "publish"
    /\ shown' = [connected |-> TRUE, map |-> mapId, players |-> drawn,
                 observed |-> watched]
    /\ EndPass
    /\ UNCHANGED <<radar, health, kept, world, history>>
-----------------------------------------------------------------------------
Next ==
    \/ ClearRuntimeState \/ LocalSampleFails
    \/ \E r, due \in BOOLEAN, pawn \in Pawns, dt \in Ages : BeginPass(r, pawn, due, dt)
    \/ KeepCache \/ RefreshFails
    \/ RefreshEntityCache
    \/ \E m \in Maps \cup {None} : SampleMapState(m)
    \/ \E pawn \in Pawns \cup {None} : ObserverKnown(pawn)
    \/ ObserverUnknown
    \/ \E p \in Players : SkipPlayer(p)
    \/ \E p \in Players, alive \in BOOLEAN, reading \in Readings :
         SamplePlayer(p, alive, reading.dormant, reading.pos)
    \/ \E other, timer \in BOOLEAN, carried \in BOOLEAN : SampleWorld(other, timer, carried)
    \/ Publish

Spec == Init /\ [][Next]_vars
-----------------------------------------------------------------------------
(* A position in a snapshot was read of the player it is drawn for, in the  *)
(* life, map and session it is drawn in.                                    *)
RetainedIsOwn ==
    \A p \in Players : drawn[p] # None /\ drawn[p].pos # None => fresh[p] # None

(* A player who is alive and in sight is not drawn where it was longer ago  *)
(* than the maximum age.                                                    *)
LiveIsRecent ==
    \A p \in Players :
        drawn[p] # None /\ drawn[p].pos # None /\ drawn[p].alive /\ ~drawn[p].dormant
            => fresh[p] # None /\ fresh[p] <= MaxAge

(* Everyone in a snapshot has an identity, although the cache may have been *)
(* filled while nobody asked for one.                                       *)
EveryoneNamed == \A p \in Players : drawn[p] # None => cache[p].named

(* The bomb of a snapshot is one of this session, read since bombs were     *)
(* last asked for; and none that was read is left out.  This says nothing   *)
(* of the map: the program keeps a bomb over a change of map.               *)
BombIsOwn ==
    pc = "publish" => /\ (bomb = "planted") = plantedRead
                      /\ bomb = "dropped" => droppedRead

(* The player the snapshot says is watched is alive, and is the one the     *)
(* game named, in this map, no longer ago than the maximum age.             *)
ObservedIsCurrent ==
    watched # None =>
        /\ drawn[watched] # None /\ drawn[watched].alive
        /\ looked # None /\ looked.pawn = cache[watched].pawn /\ looked.at <= MaxAge

(* What is kept of a player or of the watched one is told only of him, in   *)
(* the life, map and session it was read in; and what is kept of the bomb   *)
(* only in the session it was read in.                                      *)
SnapshotIsTrue ==
    /\ TypeOK /\ RetainedIsOwn /\ LiveIsRecent /\ EveryoneNamed
    /\ ObservedIsCurrent /\ BombIsOwn

(* The mark of a dead or hidden player does not move: from one snapshot to  *)
(* the next it stays, as long as the reads tell the same player in the same *)
(* game.                                                                    *)
Hidden(m) == m # None /\ m.pos # None /\ (~m.alive \/ m.dormant)
SameReader(p) ==
    /\ seen[p] # None
    /\ seen'[p].pawn = seen[p].pawn
    /\ seen[p].account \in {None, seen'[p].account}
    /\ ~(~seen[p].alive /\ seen'[p].alive)
FrozenStays ==
    [][\A p \in Players :
         /\ pc = "players" /\ drawn[p] = None /\ Hidden(drawn'[p])
         /\ shown.connected /\ Hidden(shown.players[p]) /\ SameReader(p)
         => drawn'[p].pos = shown.players[p].pos]_vars
=============================================================================
