------------------------ MODULE RadarSnapshotProofs ------------------------
(***************************************************************************)
(* Theorems about the way of a snapshot from the game's memory to a file:   *)
(* RadarSampling for any players, pawns, accounts, maps, positions, ages    *)
(* and limits; RadarRecording for any intervals, limits and numbers of      *)
(* snapshots.  The two components share no state here.                      *)
(***************************************************************************)
EXTENDS RadarSampling, RadarRecording, TLAPS

(* What a pass holds in hand it has got after its map was read; the loop    *)
(* reaches each player once.                                                *)
Sampling == capture /\ pc \in {"players", "publish"}
PassInOrder ==
    /\ capture => radar
    /\ pc = "idle" => ~capture
    /\ pc \in {"map", "observer", "publish"} => capture
    /\ pc = "observer" => mapId # None
    /\ ~Sampling => drawn = Nobody /\ watched = None /\ observed = None /\ todo = {}
    /\ \A p \in todo : cache[p] # None /\ drawn[p] = None
    /\ \A p \in Players : drawn[p] # None => cache[p] # None

(* Past the cache nobody in it lacks the identity the radar asks for.       *)
CacheNamed ==
    capture /\ pc # "cache" => \A p \in Players : cache[p] # None => cache[p].named

(* The kept target is the last one read; the one this pass looks for is     *)
(* not too old.                                                             *)
SightKept ==
    /\ target # None => looked = target
    /\ observed # None => looked # None /\ looked.pawn = observed /\ looked.at <= MaxAge

(* What is kept of each player is what was last read of it in this game;    *)
(* without a map nothing is kept.                                           *)
KeptIsSeen(p) ==
    /\ (samples[p] = None) <=> (seen[p] = None)
    /\ samples[p] # None =>
          /\ seen[p].pawn = samples[p].pawn /\ seen[p].account = samples[p].account
          /\ seen[p].alive = samples[p].alive /\ seen[p].at = samples[p].seenAt
SamplesKept ==
    /\ mapId # None => \A p \in Players : KeptIsSeen(p)
    /\ mapId = None => samples = Nobody
    /\ \A p \in Players :
          /\ capture /\ pc = "players" /\ mapId = None /\ drawn[p] = None => seen[p] = None
          /\ drawn[p] # None => seen[p] # None /\ seen[p].at = 0

(* The position kept is as old as its clock says, or younger.               *)
PositionsKept ==
    \A p \in Players : samples[p] # None /\ samples[p].pos # None =>
        fresh[p] # None /\ fresh[p] <= samples[p].at

(* The position of a hidden player in the last snapshot, and in this one,   *)
(* is the one kept.                                                         *)
MarksKept ==
    \A p \in Players : samples[p] # None =>
        /\ Hidden(drawn[p]) => drawn[p].pos = samples[p].pos
        /\ shown.connected /\ drawn[p] = None /\ Hidden(shown.players[p])
              => samples[p].pos = shown.players[p].pos

WorldKept == planted = plantedRead /\ dropped = droppedRead

SamplingInv ==
    /\ TypeOK /\ PassInOrder /\ CacheNamed /\ SightKept /\ SamplesKept /\ PositionsKept
    /\ MarksKept /\ WorldKept
    /\ RetainedIsOwn /\ LiveIsRecent /\ ObservedIsCurrent /\ BombIsOwn

LEMMA NobodyTyped ==
    ASSUME NEW S PROVE Nobody \in [Players -> S \cup {None}]
BY DEF Nobody

(* Growing old keeps the order of ages.                                     *)
LEMMA OlderIsAge ==
    \A dt \in Ages : \A a \in Ages :
        /\ Older(a, dt) \in Ages
        /\ \A b \in Ages : a <= b => Older(a, dt) <= Older(b, dt)
BY SamplingAssumption DEF Older, Ages

LEMMA AgedSightTyped ==
    ASSUME NEW dt \in Ages, NEW s \in Sight \cup {None}
    PROVE  /\ AgedSight(s, dt) \in Sight \cup {None}
           /\ s # None => AgedSight(s, dt) # None
           /\ s = None => AgedSight(s, dt) = None
<1>1. CASE s = None
  BY <1>1 DEF AgedSight
<1>2. CASE s \in Sight
  <2>1. Older(s.at, dt) \in Ages
    BY <1>2, OlderIsAge DEF Sight
  <2>2. AgedSight(s, dt) \in Sight
    BY <1>2, <2>1, SamplingAssumption DEF AgedSight, Sight
  <2> QED  BY <1>2, <2>2, SamplingAssumption
<1> QED  BY <1>1, <1>2

LEMMA AgedLifeTyped ==
    ASSUME NEW dt \in Ages, NEW s \in Life \cup {None}
    PROVE  /\ AgedSight(s, dt) \in Life \cup {None}
           /\ s = None => AgedSight(s, dt) = None
           /\ s # None =>
                /\ AgedSight(s, dt) # None
                /\ AgedSight(s, dt).pawn = s.pawn /\ AgedSight(s, dt).account = s.account
                /\ AgedSight(s, dt).alive = s.alive /\ AgedSight(s, dt).at = Older(s.at, dt)
<1>1. CASE s = None
  BY <1>1 DEF AgedSight
<1>2. CASE s \in Life
  <2>1. Older(s.at, dt) \in Ages
    BY <1>2, OlderIsAge DEF Life
  <2>2. AgedSight(s, dt) = [s EXCEPT !.at = Older(s.at, dt)] /\ s # None
    BY <1>2, SamplingAssumption DEF AgedSight
  <2>3. AgedSight(s, dt) \in Life
    BY <1>2, <2>1, <2>2 DEF Life
  <2>4. /\ AgedSight(s, dt).pawn = s.pawn /\ AgedSight(s, dt).account = s.account
        /\ AgedSight(s, dt).alive = s.alive /\ AgedSight(s, dt).at = Older(s.at, dt)
    BY <1>2, <2>2 DEF Life
  <2> QED  BY <2>2, <2>3, <2>4, SamplingAssumption
<1> QED  BY <1>1, <1>2

(* Samples grow old without becoming those of somebody else.                *)
LEMMA AgedSamplesTyped ==
    ASSUME TypeOK, NEW dt \in Ages
    PROVE  /\ AgedSamples(dt) \in [Players -> Sample \cup {None}]
           /\ \A p \in Players :
                 /\ samples[p] = None => AgedSamples(dt)[p] = None
                 /\ samples[p] # None =>
                      /\ AgedSamples(dt)[p] # None
                      /\ AgedSamples(dt)[p].pawn = samples[p].pawn
                      /\ AgedSamples(dt)[p].account = samples[p].account
                      /\ AgedSamples(dt)[p].alive = samples[p].alive
                      /\ AgedSamples(dt)[p].pos = samples[p].pos
                      /\ AgedSamples(dt)[p].at = Older(samples[p].at, dt)
                      /\ AgedSamples(dt)[p].seenAt = Older(samples[p].seenAt, dt)
<1>1. \A p \in Players : samples[p] \in Sample \cup {None}
  BY DEF TypeOK
<1>2. ASSUME NEW s \in Sample
      PROVE  LET t == [s EXCEPT !.at = Older(@, dt), !.seenAt = Older(@, dt)] IN
             /\ t \in Sample /\ t # None
             /\ t.pawn = s.pawn /\ t.account = s.account /\ t.alive = s.alive /\ t.pos = s.pos
             /\ t.at = Older(s.at, dt) /\ t.seenAt = Older(s.seenAt, dt)
  <2>1. Older(s.at, dt) \in Ages /\ Older(s.seenAt, dt) \in Ages
    BY OlderIsAge DEF Sample
  <2> QED  BY <2>1, SamplingAssumption DEF Sample
<1> QED  BY <1>1, <1>2, SamplingAssumption DEF AgedSamples

LEMMA SamplingInitInv == Init => SamplingInv
<1> SUFFICES ASSUME Init PROVE SamplingInv
  OBVIOUS
<1>1. TypeOK
  <2>1. /\ drawn \in [Players -> Marker \cup {None}] /\ cache \in [Players -> Cached \cup {None}]
        /\ samples \in [Players -> Sample \cup {None}]
        /\ fresh \in [Players -> Ages \cup {None}] /\ seen \in [Players -> Life \cup {None}]
    BY NobodyTyped DEF Init
  <2>2. shown \in [connected : BOOLEAN, map : Maps \cup {None},
                   players : [Players -> Marker \cup {None}], observed : Players \cup {None}]
    BY NobodyTyped DEF Init, Blank
  <2>3. failures \in 0..MaxFailures - 1
    BY SamplingAssumption DEF Init
  <2>4. /\ pc = "idle" /\ radar = FALSE /\ capture = FALSE /\ todo = {} /\ watched = None
        /\ observed = None /\ valid = FALSE /\ epoch = None /\ mapId = None /\ target = None
        /\ looked = None /\ bomb = "unknown" /\ c4 = FALSE /\ dropped = FALSE
        /\ planted = FALSE /\ plantedRead = FALSE /\ droppedRead = FALSE
    BY DEF Init
  <2> QED  BY <2>1, <2>2, <2>3, <2>4 DEF TypeOK
<1>2. \A p \in Players : Nobody[p] = None
  BY DEF Nobody
<1>3. PassInOrder /\ CacheNamed /\ SightKept /\ WorldKept
  BY <1>2 DEF Init, PassInOrder, Sampling, CacheNamed, SightKept, WorldKept
<1>4. SamplesKept /\ PositionsKept /\ MarksKept
  BY <1>2 DEF Init, SamplesKept, KeptIsSeen, PositionsKept, MarksKept
<1>5. RetainedIsOwn /\ LiveIsRecent /\ ObservedIsCurrent /\ BombIsOwn
  BY <1>2 DEF Init, RetainedIsOwn, LiveIsRecent, ObservedIsCurrent, BombIsOwn
<1> QED  BY <1>1, <1>3, <1>4, <1>5 DEF SamplingInv

(* A session that ends leaves nothing behind.                               *)
LEMMA ClearKeepsInv ==
    ASSUME SamplingInv, pc = "idle", ClearState, UNCHANGED <<pc, pass>>
    PROVE  SamplingInv'
<1>1. \A p \in Players : Nobody[p] = None
  BY DEF Nobody
<1>2. TypeOK'
  <2>1. /\ cache' \in [Players -> Cached \cup {None}]
        /\ samples' \in [Players -> Sample \cup {None}]
        /\ fresh' \in [Players -> Ages \cup {None}] /\ seen' \in [Players -> Life \cup {None}]
    BY NobodyTyped DEF ClearState, NewGame
  <2>2. shown' \in [connected : BOOLEAN, map : Maps \cup {None},
                    players : [Players -> Marker \cup {None}], observed : Players \cup {None}]
    BY NobodyTyped DEF ClearState, Blank
  <2>3. failures' \in 0..MaxFailures - 1
    BY SamplingAssumption DEF ClearState
  <2>4. /\ valid' = FALSE /\ epoch' = None /\ mapId' = None /\ target' = None
        /\ looked' = None /\ c4' = FALSE /\ dropped' = FALSE
        /\ planted' = FALSE /\ plantedRead' = FALSE /\ droppedRead' = FALSE
    BY DEF ClearState, NewGame, ForgetBomb
  <2> QED  BY <2>1, <2>2, <2>3, <2>4 DEF TypeOK, SamplingInv, pass
<1>3. PassInOrder' /\ CacheNamed' /\ SightKept' /\ WorldKept'
  <2>1. drawn = Nobody /\ observed = None /\ todo = {} /\ ~capture
    BY DEF SamplingInv, PassInOrder, Sampling
  <2> QED
    BY <1>1, <2>1 DEF SamplingInv, PassInOrder, Sampling, CacheNamed, SightKept, WorldKept,
       ClearState, NewGame, ForgetBomb, pass
<1>4. SamplesKept' /\ PositionsKept' /\ MarksKept'
  <2>1. drawn' = Nobody /\ samples' = Nobody /\ mapId' = None /\ pc' = "idle"
    BY DEF SamplingInv, PassInOrder, Sampling, ClearState, pass
  <2> QED  BY <1>1, <2>1 DEF SamplesKept, PositionsKept, MarksKept
<1>5. RetainedIsOwn' /\ LiveIsRecent' /\ ObservedIsCurrent' /\ BombIsOwn'
  <2>1. drawn' = Nobody /\ watched' = None /\ pc' = "idle"
    BY DEF SamplingInv, PassInOrder, Sampling, pass
  <2> QED  BY <1>1, <2>1 DEF RetainedIsOwn, LiveIsRecent, ObservedIsCurrent, BombIsOwn
<1> QED  BY <1>2, <1>3, <1>4, <1>5 DEF SamplingInv

LEMMA FailureKeepsInv == SamplingInv /\ LocalSampleFails => SamplingInv'
<1> SUFFICES ASSUME SamplingInv, LocalSampleFails PROVE SamplingInv'
  OBVIOUS
<1>1. CASE failures + 1 >= MaxFailures
  BY <1>1, ClearKeepsInv DEF LocalSampleFails, RecordUpdateFailure
<1>2. CASE ~(failures + 1 >= MaxFailures)
  <2>1. /\ failures' = failures + 1 /\ valid' = FALSE
        /\ UNCHANGED <<pc, pass, kept, world, shown, history>>
    BY <1>2 DEF LocalSampleFails, RecordUpdateFailure
  <2>2. TypeOK'
    <3>1. failures' \in 0..MaxFailures - 1
      BY <1>2, <2>1, SamplingAssumption DEF SamplingInv, TypeOK
    <3>2. valid' \in BOOLEAN
      BY <2>1
    <3> QED
      BY <2>1, <3>1, <3>2 DEF SamplingInv, TypeOK, pass, kept, world, history
  <2>3. PassInOrder' /\ CacheNamed' /\ SightKept' /\ WorldKept'
    BY <2>1 DEF SamplingInv, PassInOrder, Sampling, CacheNamed, SightKept, WorldKept,
       pass, kept, world, history
  <2>4. SamplesKept' /\ PositionsKept' /\ MarksKept'
    BY <2>1 DEF SamplingInv, SamplesKept, KeptIsSeen, PositionsKept, MarksKept, pass, kept, history
  <2>5. RetainedIsOwn' /\ LiveIsRecent' /\ ObservedIsCurrent' /\ BombIsOwn'
    BY <2>1 DEF SamplingInv, RetainedIsOwn, LiveIsRecent, ObservedIsCurrent, BombIsOwn,
       pass, kept, world, history
  <2> QED  BY <2>2, <2>3, <2>4, <2>5 DEF SamplingInv
<1> QED  BY <1>1, <1>2

(* What is kept over a pass grows old together with what it was read from.  *)
LEMMA BeginKeepsInv ==
    ASSUME SamplingInv, NEW r \in BOOLEAN, NEW ready \in BOOLEAN, NEW pawn \in Pawns,
           NEW dt \in Ages, BeginPass(r, pawn, ready, dt)
    PROVE  SamplingInv'
<1>1. \A p \in Players : Nobody[p] = None
  BY DEF Nobody
<1>2. /\ pc = "idle" /\ pc' = "cache" /\ failures' = 0 /\ valid' = TRUE
      /\ radar' = r /\ capture' = (r /\ ready)
      /\ UNCHANGED <<todo, drawn, watched, observed, bomb, cache, world, shown>>
  BY DEF BeginPass
<1>3. todo = {} /\ drawn = Nobody /\ watched = None /\ observed = None
  BY <1>2 DEF SamplingInv, PassInOrder, Sampling
<1>4. PassInOrder' /\ CacheNamed' /\ WorldKept'
  BY <1>1, <1>2, <1>3 DEF SamplingInv, PassInOrder, Sampling, CacheNamed, WorldKept, world
<1>5. RetainedIsOwn' /\ LiveIsRecent' /\ ObservedIsCurrent' /\ BombIsOwn'
  BY <1>1, <1>2, <1>3 DEF RetainedIsOwn, LiveIsRecent, ObservedIsCurrent, BombIsOwn
<1>6. epoch' \in Pawns \cup {None}
  BY DEF BeginPass
<1>7. TypeOK /\ SamplesKept /\ PositionsKept /\ MarksKept /\ SightKept
  BY DEF SamplingInv
<1>8. ASSUME /\ samples' \in [Players -> Sample \cup {None}]
             /\ target' \in Sight \cup {None} /\ mapId' \in Maps \cup {None}
             /\ fresh' \in [Players -> Ages \cup {None}]
             /\ seen' \in [Players -> Life \cup {None}] /\ looked' \in Sight \cup {None}
      PROVE  TypeOK'
  <2>1. failures' \in 0..MaxFailures - 1
    BY <1>2, SamplingAssumption
  <2>2. /\ radar' \in BOOLEAN /\ capture' \in BOOLEAN /\ valid' \in BOOLEAN /\ pc' = "cache"
    BY <1>2
  <2> QED  BY <1>2, <1>6, <1>7, <1>8, <2>1, <2>2 DEF TypeOK, world
<1>9. CASE SameEpoch(r, pawn)
  <2>1. /\ samples' = AgedSamples(dt) /\ target' = AgedSight(target, dt) /\ mapId' = mapId
        /\ fresh' = [p \in Players |-> IF fresh[p] = None THEN None ELSE Older(fresh[p], dt)]
        /\ seen' = [p \in Players |-> AgedSight(seen[p], dt)]
        /\ looked' = AgedSight(looked, dt)
    BY <1>9 DEF BeginPass, SameEpoch, AgedHistory
  <2>2. TypeOK'
    <3>1. samples' \in [Players -> Sample \cup {None}]
      BY <1>7, <2>1, AgedSamplesTyped
    <3>2. target' \in Sight \cup {None} /\ looked' \in Sight \cup {None}
      BY <1>7, <2>1, AgedSightTyped DEF TypeOK
    <3>3. seen' \in [Players -> Life \cup {None}]
      BY <1>7, <2>1, AgedLifeTyped DEF TypeOK
    <3>4. fresh' \in [Players -> Ages \cup {None}]
      BY <1>7, <2>1, OlderIsAge DEF TypeOK
    <3> QED  BY <1>7, <1>8, <2>1, <3>1, <3>2, <3>3, <3>4 DEF TypeOK
  <2>3. SightKept'
    <3>1. target # None => target' = looked'
      BY <1>7, <2>1 DEF SightKept
    <3>2. target = None => target' = None
      BY <1>7, <2>1, AgedSightTyped DEF TypeOK
    <3> QED  BY <1>2, <1>3, <3>1, <3>2 DEF SightKept
  <2>4. SamplesKept'
    <3>1. mapId' # None => \A p \in Players : KeptIsSeen(p)'
      <4> SUFFICES ASSUME mapId # None, NEW p \in Players PROVE KeptIsSeen(p)'
        BY <2>1
      <4>1. KeptIsSeen(p) /\ seen[p] \in Life \cup {None} /\ samples[p] \in Sample \cup {None}
        BY <1>7 DEF SamplesKept, TypeOK
      <4>2. seen'[p] = AgedSight(seen[p], dt)
        BY <2>1
      <4> QED  BY <1>7, <2>1, <4>1, <4>2, AgedSamplesTyped, AgedLifeTyped DEF KeptIsSeen
    <3>2. mapId' = None => samples' = Nobody
      <4> SUFFICES ASSUME mapId = None PROVE samples' = Nobody
        BY <2>1
      <4>1. samples = Nobody
        BY <1>7 DEF SamplesKept
      <4> QED  BY <1>1, <2>1, <4>1 DEF AgedSamples, Nobody
    <3> QED  BY <1>1, <1>2, <1>3, <3>1, <3>2 DEF SamplesKept
  <2>5. PositionsKept'
    <3> SUFFICES ASSUME NEW p \in Players, samples'[p] # None, samples'[p].pos # None
                 PROVE  fresh'[p] # None /\ fresh'[p] <= samples'[p].at
      BY DEF PositionsKept
    <3>1. samples[p] # None /\ samples[p].pos # None /\ samples'[p].at = Older(samples[p].at, dt)
      BY <1>7, <2>1, AgedSamplesTyped
    <3>2. fresh[p] # None /\ fresh[p] <= samples[p].at
      BY <1>7, <3>1 DEF PositionsKept
    <3>3. fresh[p] \in Ages /\ samples[p].at \in Ages
      BY <1>7, <3>1, <3>2 DEF TypeOK, Sample
    <3>4. fresh'[p] = Older(fresh[p], dt)
      BY <2>1, <3>2
    <3>5. fresh'[p] \in Ages /\ fresh'[p] <= samples'[p].at
      BY <3>1, <3>2, <3>3, <3>4, OlderIsAge
    <3> QED  BY <3>5, SamplingAssumption DEF Ages
  <2>6. MarksKept'
    BY <1>1, <1>2, <1>3, <1>7, <2>1, AgedSamplesTyped DEF MarksKept, Hidden
  <2> QED  BY <1>4, <1>5, <2>2, <2>3, <2>4, <2>5, <2>6 DEF SamplingInv
<1>10. CASE ~SameEpoch(r, pawn)
  <2>1. /\ samples' = Nobody /\ target' = None /\ mapId' = None
        /\ fresh' = Nobody /\ seen' = Nobody /\ looked' = None
    BY <1>10 DEF BeginPass, SameEpoch, NewGame
  <2>2. TypeOK'
    BY <1>8, <2>1, NobodyTyped
  <2>3. SightKept' /\ SamplesKept' /\ PositionsKept' /\ MarksKept'
    BY <1>1, <1>2, <1>3, <2>1 DEF SightKept, SamplesKept, PositionsKept, MarksKept
  <2> QED  BY <1>4, <1>5, <2>2, <2>3 DEF SamplingInv
<1> QED  BY <1>9, <1>10

(* The cache changes only before anything of the pass is in hand.           *)
LEMMA CacheKeepsInv ==
    ASSUME SamplingInv, KeepCache \/ RefreshEntityCache
    PROVE  SamplingInv'
<1>1. /\ pc = "cache" /\ pc' = AfterCache
      /\ UNCHANGED <<pass, health, epoch, mapId, samples, target, world, shown, history>>
  BY DEF KeepCache, RefreshEntityCache, kept
<1>2. /\ cache' \in [Players -> Cached \cup {None}]
      /\ radar => \A p \in Players : cache'[p] # None => cache'[p].named
  <2>1. CASE KeepCache
    BY <2>1 DEF KeepCache, Incomplete, kept, SamplingInv, TypeOK, Cached
  <2>2. CASE RefreshEntityCache
    <3>1. cache' \in [Players -> Readable \cup {None}]
      BY <2>2 DEF RefreshEntityCache
    <3>2. Readable \subseteq Cached /\ (radar => \A c \in Readable : c.named)
      BY DEF Readable, Cached
    <3> QED  BY <3>1, <3>2
  <2> QED  BY <2>1, <2>2
<1>3. \A p \in Players : Nobody[p] = None
  BY DEF Nobody
<1>4. drawn = Nobody /\ watched = None /\ observed = None /\ todo = {}
  BY <1>1 DEF SamplingInv, PassInOrder, Sampling
<1>5. TypeOK'
  BY <1>1, <1>2 DEF SamplingInv, TypeOK, AfterCache, pass, health, world, history
<1>6. PassInOrder' /\ CacheNamed' /\ SightKept' /\ WorldKept'
  BY <1>1, <1>2, <1>3, <1>4 DEF SamplingInv, PassInOrder, Sampling, CacheNamed, SightKept,
     WorldKept, AfterCache, pass, world, history
<1>7. SamplesKept' /\ PositionsKept' /\ MarksKept'
  BY <1>1, <1>3, <1>4 DEF SamplingInv, SamplesKept, KeptIsSeen, PositionsKept, MarksKept,
     PassInOrder, AfterCache, pass, history
<1>8. RetainedIsOwn' /\ LiveIsRecent' /\ ObservedIsCurrent' /\ BombIsOwn'
  BY <1>1, <1>3, <1>4 DEF RetainedIsOwn, LiveIsRecent, ObservedIsCurrent, BombIsOwn,
     AfterCache, pass
<1> QED  BY <1>5, <1>6, <1>7, <1>8 DEF SamplingInv

LEMMA NoCacheKeepsInv == SamplingInv /\ RefreshFails => SamplingInv'
<1> SUFFICES ASSUME SamplingInv, RefreshFails PROVE SamplingInv'
  OBVIOUS
<1>1. /\ pc = "cache" /\ pc' = AfterCache /\ cache' = Nobody /\ samples' = Nobody
      /\ epoch' = None /\ mapId' = None /\ target' = None
      /\ fresh' = Nobody /\ seen' = Nobody /\ looked' = None
      /\ UNCHANGED <<pass, health, world, shown>>
  BY DEF RefreshFails, NewGame
<1>2. \A p \in Players : Nobody[p] = None
  BY DEF Nobody
<1>3. drawn = Nobody /\ watched = None /\ observed = None /\ todo = {}
  BY <1>1 DEF SamplingInv, PassInOrder, Sampling
<1>4. TypeOK'
  BY <1>1, NobodyTyped DEF SamplingInv, TypeOK, AfterCache, pass, health, world
<1>5. PassInOrder' /\ CacheNamed' /\ SightKept' /\ WorldKept'
  BY <1>1, <1>2, <1>3 DEF SamplingInv, PassInOrder, Sampling, CacheNamed, SightKept, WorldKept,
     AfterCache, pass, world
<1>6. SamplesKept' /\ PositionsKept' /\ MarksKept'
  BY <1>1, <1>2, <1>3 DEF SamplesKept, PositionsKept, MarksKept, pass
<1>7. RetainedIsOwn' /\ LiveIsRecent' /\ ObservedIsCurrent' /\ BombIsOwn'
  BY <1>1, <1>2, <1>3 DEF RetainedIsOwn, LiveIsRecent, ObservedIsCurrent, BombIsOwn,
     AfterCache, pass
<1> QED  BY <1>4, <1>5, <1>6, <1>7 DEF SamplingInv

(* Another map, or none, takes everything kept with it.                     *)
LEMMA MapKeepsInv ==
    ASSUME SamplingInv, NEW m \in Maps \cup {None}, SampleMapState(m)
    PROVE  SamplingInv'
<1>1. /\ pc = "map" /\ mapId' = m /\ capture
      /\ UNCHANGED <<radar, capture, drawn, watched, observed, bomb, health,
                     cache, epoch, world, shown>>
  BY DEF SampleMapState, SamplingInv, PassInOrder
<1>2. \A p \in Players : Nobody[p] = None
  BY DEF Nobody
<1>3. drawn = Nobody /\ watched = None /\ observed = None /\ todo = {}
  BY <1>1 DEF SamplingInv, PassInOrder, Sampling
<1>4. \/ /\ MapChanged(m) /\ samples' = Nobody /\ target' = None
         /\ fresh' = Nobody /\ seen' = Nobody /\ looked' = None
      \/ m # None /\ m = mapId /\ UNCHANGED <<samples, target, history>>
  BY DEF SampleMapState, MapChanged, NewGame
<1>5. \/ m = None /\ pc' = "players" /\ todo' = {p \in Players : cache[p] # None}
      \/ m # None /\ pc' = "observer" /\ todo' = todo
  BY DEF SampleMapState
<1>6. TypeOK'
  <2>1. /\ samples' \in [Players -> Sample \cup {None}] /\ target' \in Sight \cup {None}
        /\ fresh' \in [Players -> Ages \cup {None}] /\ seen' \in [Players -> Life \cup {None}]
        /\ looked' \in Sight \cup {None}
    BY <1>4, NobodyTyped DEF SamplingInv, TypeOK, history
  <2>2. todo' \subseteq Players /\ pc' \in {"players", "observer"}
    BY <1>3, <1>5
  <2> QED  BY <1>1, <2>1, <2>2 DEF SamplingInv, TypeOK, health, world
<1>7. PassInOrder' /\ CacheNamed' /\ WorldKept'
  BY <1>1, <1>2, <1>3, <1>5 DEF SamplingInv, PassInOrder, Sampling, CacheNamed, WorldKept, world
<1>8. SightKept'
  BY <1>1, <1>3, <1>4 DEF SamplingInv, SightKept, history
<1>9. SamplesKept' /\ PositionsKept' /\ MarksKept'
  BY <1>1, <1>2, <1>3, <1>4, <1>5
  DEF SamplingInv, SamplesKept, KeptIsSeen, PositionsKept, MarksKept, Hidden, history
<1>10. RetainedIsOwn' /\ LiveIsRecent' /\ ObservedIsCurrent' /\ BombIsOwn'
  BY <1>1, <1>2, <1>3, <1>5 DEF RetainedIsOwn, LiveIsRecent, ObservedIsCurrent, BombIsOwn
<1> QED  BY <1>6, <1>7, <1>8, <1>9, <1>10 DEF SamplingInv

LEMMA ObserverKeepsInv ==
    ASSUME SamplingInv,
           ObserverUnknown \/ \E pawn \in Pawns \cup {None} : ObserverKnown(pawn)
    PROVE  SamplingInv'
<1> USE DEF SamplingInv
<1>1. PICK t, o : ObserverDone(t, o)
  BY DEF ObserverUnknown, ObserverKnown
<1>2. /\ pc = "observer" /\ pc' = "players" /\ capture
      /\ todo' = {p \in Players : cache[p] # None}
      /\ UNCHANGED <<radar, capture, drawn, watched, bomb, health, cache, epoch,
                     mapId, samples, world, shown, fresh, seen>>
  BY <1>1 DEF ObserverDone, PassInOrder
<1>3. \A p \in Players : Nobody[p] = None
  BY DEF Nobody
<1>4. drawn = Nobody /\ watched = None /\ observed = None /\ mapId # None
  BY <1>2 DEF PassInOrder, Sampling
<1>5. /\ target' \in Sight \cup {None} /\ observed' \in Pawns \cup {None}
      /\ looked' \in Sight \cup {None} /\ SightKept'
  <2>1. ASSUME NEW pawn \in Pawns \cup {None}, ObserverKnown(pawn)
        PROVE  /\ target' \in Sight \cup {None} /\ observed' \in Pawns \cup {None}
               /\ looked' \in Sight \cup {None} /\ SightKept'
    <3>1. /\ observed' = pawn /\ target' = looked'
          /\ looked' = IF pawn = None THEN None ELSE [pawn |-> pawn, at |-> 0]
      BY <2>1 DEF ObserverKnown, ObserverDone
    <3>2. 0 \in Ages /\ 0 <= MaxAge
      BY SamplingAssumption DEF Ages
    <3>3. pawn # None => looked' \in Sight /\ looked'.pawn = pawn /\ looked'.at = 0
      BY <3>1, <3>2 DEF Sight
    <3> QED  BY <3>1, <3>2, <3>3, SamplingAssumption DEF SightKept
  <2>2. CASE ObserverUnknown
    <3>1. /\ looked' = looked
          /\ IF Reusable THEN target' = target /\ observed' = target.pawn
             ELSE target' = None /\ observed' = None
      BY <2>2 DEF ObserverUnknown, ObserverDone
    <3> QED  BY <3>1 DEF Reusable, SightKept, TypeOK, Sight
  <2> QED  BY <2>1, <2>2
<1>6. TypeOK'
  <2>1. todo' \subseteq Players
    BY <1>2
  <2> QED  BY <1>2, <1>5, <2>1 DEF TypeOK, health, world
<1>7. PassInOrder' /\ CacheNamed' /\ WorldKept'
  BY <1>2, <1>3, <1>4 DEF PassInOrder, Sampling, CacheNamed, WorldKept, world
<1>8. SamplesKept' /\ PositionsKept' /\ MarksKept'
  BY <1>2, <1>3, <1>4 DEF SamplesKept, KeptIsSeen, PositionsKept, MarksKept, Hidden
<1>9. RetainedIsOwn' /\ LiveIsRecent' /\ ObservedIsCurrent' /\ BombIsOwn'
  BY <1>2, <1>3, <1>4 DEF RetainedIsOwn, LiveIsRecent, ObservedIsCurrent, BombIsOwn
<1> QED  BY <1>5, <1>6, <1>7, <1>8, <1>9

LEMMA SkipKeepsInv ==
    ASSUME SamplingInv, NEW p \in Players, SkipPlayer(p)
    PROVE  SamplingInv'
<1> USE DEF SamplingInv
<1>1. /\ pc = "players" /\ todo' = todo \ {p} /\ todo' \subseteq todo
      /\ UNCHANGED <<pc, radar, capture, drawn, watched, observed, bomb, health,
                     kept, world, shown, history>>
  BY DEF SkipPlayer
<1>2. TypeOK'
  BY <1>1 DEF TypeOK, health, kept, world, history
<1>3. PassInOrder' /\ CacheNamed' /\ SightKept' /\ WorldKept'
  BY <1>1 DEF PassInOrder, Sampling, CacheNamed, SightKept, WorldKept, kept, world, history
<1>4. SamplesKept' /\ PositionsKept' /\ MarksKept'
  BY <1>1 DEF SamplesKept, KeptIsSeen, PositionsKept, MarksKept, kept, history
<1>5. RetainedIsOwn' /\ LiveIsRecent' /\ ObservedIsCurrent' /\ BombIsOwn'
  BY <1>1 DEF RetainedIsOwn, LiveIsRecent, ObservedIsCurrent, BombIsOwn, kept, world, history
<1> QED  BY <1>2, <1>3, <1>4, <1>5

(* An entry goes on as long as the reads tell the same life of the player.  *)
Continues(p, pawn, account, alive) ==
    /\ samples[p] # None
    /\ Compatible(samples[p], pawn, account) /\ ~Revived(samples[p], alive)

LEMMA ContinuedTyped ==
    ASSUME TypeOK, NEW p \in Players, NEW pawn \in Pawns, NEW account \in Accounts \cup {None},
           NEW alive \in BOOLEAN
    PROVE  LET c == Continued(p, pawn, account, alive) IN
           /\ c \in Sample /\ c.pawn = pawn /\ c.alive = alive /\ c.seenAt = 0
           /\ ~Continues(p, pawn, account, alive) => c.pos = None /\ c.account = account
           /\ Continues(p, pawn, account, alive) =>
                /\ c.pos = samples[p].pos /\ c.at = samples[p].at
                /\ c.account = IF account # None THEN account ELSE samples[p].account
<1>1. 0 \in Ages
  BY SamplingAssumption DEF Ages
<1>2. CASE Continues(p, pawn, account, alive)
  <2>1. samples[p] \in Sample /\ samples[p].pawn = pawn
    BY <1>2 DEF Continues, Compatible, TypeOK
  <2>2. Continued(p, pawn, account, alive) =
          [samples[p] EXCEPT !.account = IF account # None THEN account ELSE @,
                             !.alive = alive, !.seenAt = 0]
    BY <1>2 DEF Continues, Continued
  <2> QED  BY <1>1, <1>2, <2>1, <2>2 DEF Sample
<1>3. CASE ~Continues(p, pawn, account, alive)
  <2>1. Continued(p, pawn, account, alive) =
          [pawn |-> pawn, account |-> account, alive |-> alive, pos |-> None,
           at |-> 0, seenAt |-> 0]
    BY <1>3 DEF Continues, Continued
  <2> QED  BY <1>1, <1>3, <2>1 DEF Sample
<1> QED  BY <1>2, <1>3

LEMMA StoredTyped ==
    ASSUME NEW s \in Sample, NEW dormant \in BOOLEAN, NEW pos \in Spots \cup {None}
    PROVE  LET t == Stored(s, dormant, pos) IN
           /\ t \in Sample /\ t # None
           /\ t.pawn = s.pawn /\ t.account = s.account /\ t.alive = s.alive
           /\ t.seenAt = s.seenAt
           /\ Takes(s, dormant, pos) => t.pos = pos /\ t.at = 0
           /\ ~Takes(s, dormant, pos) => t = s
<1>1. 0 \in Ages
  BY SamplingAssumption DEF Ages
<1>2. CASE Takes(s, dormant, pos)
  BY <1>1, <1>2, SamplingAssumption DEF Stored, Sample
<1>3. CASE ~Takes(s, dormant, pos)
  BY <1>3, SamplingAssumption DEF Stored
<1> QED  BY <1>2, <1>3

LEMMA ReadingTyped ==
    \A reading \in Readings : reading.dormant \in BOOLEAN /\ reading.pos \in Spots \cup {None}
<1> SUFFICES ASSUME NEW scene \in Scenes, NEW old \in Spots \cup {None}
             PROVE  scene.dormant \in BOOLEAN
                    /\ ChoosePosition(scene.absolute, old) \in Spots \cup {None}
  BY DEF Readings
<1>1. scene.dormant \in BOOLEAN /\ scene.absolute \in Spots \cup {None}
  <2>1. CASE scene = NoNode
    BY <2>1 DEF NoNode
  <2>2. CASE scene \in [owned : {TRUE}, dormant : BOOLEAN, absolute : Spots \cup {None}]
    BY <2>2
  <2> QED  BY <2>1, <2>2 DEF Scenes
<1> QED  BY <1>1 DEF ChoosePosition

LEMMA PlayerKeepsInv ==
    ASSUME SamplingInv, NEW p \in Players, NEW alive \in BOOLEAN, NEW dormant \in BOOLEAN,
           NEW pos \in Spots \cup {None}, SamplePlayer(p, alive, dormant, pos)
    PROVE  SamplingInv'
<1> USE DEF SamplingInv
<1> DEFINE c == cache[p]
           k == Continued(p, c.pawn, c.account, alive)
           s == Stored(k, dormant, pos)
           go == Continues(p, c.pawn, c.account, alive)
           mark == [alive |-> alive, dormant |-> dormant,
                    pos |-> IF mapId # None THEN Retained(s, dormant) ELSE pos]
<1>1. /\ pc = "players" /\ p \in todo /\ todo' = todo \ {p} /\ capture /\ drawn[p] = None
      /\ c \in Cached /\ c.named
  <2>1. pc = "players" /\ p \in todo /\ todo' = todo \ {p}
    BY DEF SamplePlayer
  <2>2. capture /\ drawn[p] = None /\ c # None
    BY <2>1 DEF PassInOrder, Sampling
  <2> QED  BY <2>1, <2>2 DEF CacheNamed, TypeOK
<1>2. c.pawn \in Pawns /\ c.account \in Accounts \cup {None}
  BY <1>1 DEF Cached
<1>3. /\ k \in Sample /\ k.pawn = c.pawn /\ k.alive = alive /\ k.seenAt = 0
      /\ ~go => k.pos = None /\ k.account = c.account
      /\ go => /\ k.pos = samples[p].pos /\ k.at = samples[p].at
               /\ k.account = IF c.account # None THEN c.account ELSE samples[p].account
  BY <1>2, ContinuedTyped
<1>4. /\ s \in Sample /\ s # None /\ s.pawn = c.pawn /\ s.account = k.account
      /\ s.alive = alive /\ s.seenAt = 0
      /\ Takes(k, dormant, pos) => s.pos = pos /\ s.at = 0
      /\ ~Takes(k, dormant, pos) => s = k
  BY <1>3, StoredTyped
<1>5. /\ samples' = IF mapId # None THEN [samples EXCEPT ![p] = s] ELSE samples
      /\ drawn' = [drawn EXCEPT ![p] = mark]
      /\ watched' = IF Watches(p, alive) THEN p ELSE watched
      /\ Remember(p, c.pawn, c.account, alive, pos)
      /\ UNCHANGED <<pc, radar, capture, observed, bomb, health, cache, epoch, mapId,
                     target, world, shown, looked>>
  BY <1>1 DEF SamplePlayer
<1> HIDE DEF c, k, s
<1>6. s.pos \in Spots \cup {None} /\ s.at \in Ages
  BY <1>4 DEF Sample
<1>7. mark \in Marker /\ mark # None
  <2>1. mark \in Marker
    BY <1>6 DEF Marker, Retained
  <2> QED  BY <2>1, SamplingAssumption
<1> HIDE DEF mark
<1>8. /\ drawn' \in [Players -> Marker \cup {None}] /\ drawn'[p] = mark
      /\ \A q \in Players \ {p} : drawn'[q] = drawn[q]
  BY <1>5, <1>7 DEF TypeOK
<1>9. /\ samples' \in [Players -> Sample \cup {None}]
      /\ mapId # None => samples'[p] = s
      /\ mapId = None => samples' = samples
      /\ \A q \in Players \ {p} : samples'[q] = samples[q]
  BY <1>4, <1>5 DEF TypeOK
<1> DEFINE same == SameLife(p, cache[p].pawn, cache[p].account, alive)
           life == [pawn |-> cache[p].pawn, alive |-> alive, at |-> 0,
                    account |-> IF cache[p].account = None /\ same THEN seen[p].account
                                ELSE cache[p].account]
<1>10. /\ life \in Life /\ life # None /\ life.pawn = cache[p].pawn /\ life.alive = alive
       /\ life.at = 0
       /\ life.account = IF cache[p].account = None /\ same THEN seen[p].account
                         ELSE cache[p].account
  <2>1. 0 \in Ages
    BY SamplingAssumption DEF Ages
  <2>2. same => seen[p].account \in Accounts \cup {None}
    BY DEF SameLife, TypeOK, Life
  <2>3. cache[p].pawn \in Pawns /\ cache[p].account \in Accounts \cup {None}
    BY <1>2 DEF c
  <2>4. life \in Life
    BY <2>1, <2>2, <2>3 DEF Life
  <2> QED  BY <2>4, SamplingAssumption
<1>11. seen' = [seen EXCEPT ![p] = life]
  BY <1>5 DEF Remember, c
<1> HIDE DEF life
<1>12. /\ seen' \in [Players -> Life \cup {None}] /\ seen'[p] = life
       /\ \A q \in Players \ {p} : seen'[q] = seen[q]
  BY <1>10, <1>11 DEF TypeOK
<1>13. /\ fresh' \in [Players -> Ages \cup {None}]
       /\ fresh'[p] = IF pos # None THEN 0 ELSE IF same THEN fresh[p] ELSE None
       /\ \A q \in Players \ {p} : fresh'[q] = fresh[q]
  <2>1. 0 \in Ages
    BY SamplingAssumption DEF Ages
  <2> QED  BY <1>5, <2>1 DEF Remember, TypeOK, c
<1>14. TypeOK'
  <2>1. todo' \subseteq Players /\ watched' \in Players \cup {None}
    BY <1>1, <1>5 DEF TypeOK
  <2> QED  BY <1>5, <1>8, <1>9, <1>12, <1>13, <2>1 DEF TypeOK, health, world
<1>15. PassInOrder'
  <2>1. \A q \in todo' : q # p /\ q \in todo /\ q \in Players
    BY <1>1 DEF TypeOK
  <2>2. c # None
    BY <1>1, SamplingAssumption
  <2> QED  BY <1>1, <1>5, <1>8, <2>1, <2>2 DEF PassInOrder, Sampling, c
<1>16. CacheNamed' /\ SightKept' /\ WorldKept' /\ BombIsOwn'
  BY <1>1, <1>5 DEF CacheNamed, SightKept, WorldKept, BombIsOwn, world
(* The kept entry goes on exactly when the reads tell the same life.        *)
<1>17. mapId # None => (go <=> same)
  <2>1. mapId # None => KeptIsSeen(p)
    BY DEF SamplesKept
  <2> QED  BY <2>1 DEF KeptIsSeen, Continues, Compatible, Revived, SameLife, c
<1>18. SamplesKept'
  <2>1. mapId # None => KeptIsSeen(p)'
    <3> SUFFICES ASSUME mapId # None PROVE KeptIsSeen(p)'
      OBVIOUS
    <3>1. go => seen[p].account = samples[p].account
      BY DEF SamplesKept, KeptIsSeen, Continues
    <3>2. life.account = s.account
      BY <1>3, <1>4, <1>10, <1>17, <3>1 DEF c
    <3>3. samples'[p] = s /\ seen'[p] = life /\ s # None /\ life # None
      BY <1>4, <1>9, <1>10, <1>12
    <3> QED  BY <1>4, <1>10, <3>2, <3>3 DEF KeptIsSeen, c
  <2>2. mapId # None => \A q \in Players \ {p} : KeptIsSeen(q)'
    BY <1>9, <1>12 DEF SamplesKept, KeptIsSeen
  <2>3. seen'[p] # None /\ seen'[p].at = 0 /\ drawn'[p] # None
    BY <1>7, <1>8, <1>10, <1>12
  <2>4. \A q \in Players :
           /\ capture /\ mapId = None /\ drawn'[q] = None => seen'[q] = None
           /\ drawn'[q] # None => seen'[q] # None /\ seen'[q].at = 0
    BY <1>1, <1>8, <1>12, <2>3 DEF SamplesKept
  <2> QED  BY <1>5, <1>9, <2>1, <2>2, <2>4 DEF SamplesKept
<1>19. PositionsKept'
  <2>1. mapId # None /\ s.pos # None => fresh'[p] # None /\ fresh'[p] <= s.at
    <3> SUFFICES ASSUME mapId # None, s.pos # None
                 PROVE  fresh'[p] # None /\ fresh'[p] <= s.at
      OBVIOUS
    <3>1. CASE pos # None
      BY <1>6, <1>13, <3>1, SamplingAssumption DEF Ages
    <3>2. CASE pos = None
      <4>1. s = k /\ go
        BY <1>3, <1>4, <3>2 DEF Takes
      <4>2. samples[p].pos = s.pos /\ samples[p].at = s.at /\ samples[p] # None
        BY <1>3, <4>1 DEF Continues
      <4> QED  BY <1>13, <1>17, <3>2, <4>1, <4>2 DEF PositionsKept
    <3> QED  BY <3>1, <3>2
  <2>2. mapId = None => samples'[p] = None
    BY <1>5 DEF SamplesKept, Nobody
  <2> QED  BY <1>9, <1>13, <2>1, <2>2 DEF PositionsKept
<1>20. MarksKept'
  <2>1. mapId # None /\ Hidden(mark) => mark.pos = s.pos
    BY <1>4 DEF mark, Hidden, Retained
  <2>2. mapId = None => samples'[p] = None
    BY <1>5 DEF SamplesKept, Nobody
  <2> QED  BY <1>5, <1>7, <1>8, <1>9, <2>1, <2>2 DEF MarksKept, Hidden
<1>21. RetainedIsOwn' /\ LiveIsRecent'
  <2>1. mark.pos # None =>
          /\ fresh'[p] # None
          /\ mark.alive /\ ~mark.dormant => fresh'[p] <= MaxAge
    <3>1. CASE mapId = None
      <4>1. mark.pos = pos
        BY <3>1 DEF mark
      <4> QED  BY <1>13, <4>1, SamplingAssumption
    <3>2. CASE mapId # None
      <4>1. mark.pos # None =>
              /\ s.pos # None
              /\ mark.alive /\ ~mark.dormant => s.at <= MaxAge
        BY <1>4, <3>2 DEF mark, Retained, CanReuseLastKnown
      <4>2. s.pos # None => fresh'[p] # None /\ fresh'[p] <= s.at
        BY <1>4, <1>9, <1>19, <3>2 DEF PositionsKept
      <4>3. fresh'[p] # None => fresh'[p] \in Nat
        BY <1>13 DEF Ages
      <4> QED  BY <1>6, <4>1, <4>2, <4>3, SamplingAssumption DEF Ages
    <3> QED  BY <3>1, <3>2
  <2> QED  BY <1>8, <1>13, <2>1 DEF RetainedIsOwn, LiveIsRecent
<1>22. ObservedIsCurrent'
  <2>1. CASE Watches(p, alive)
    <3>1. watched' = p /\ drawn'[p] # None /\ drawn'[p].alive
      BY <1>5, <1>7, <1>8, <2>1 DEF mark, Watches
    <3> QED  BY <1>5, <2>1, <3>1 DEF Watches, SightKept, ObservedIsCurrent
  <2>2. CASE ~Watches(p, alive)
    <3>1. (watched' = watched /\ watched # p) \/ watched = None
      BY <1>1, <1>5, <2>2 DEF ObservedIsCurrent
    <3> QED  BY <1>5, <1>8, <2>2, <3>1 DEF ObservedIsCurrent, TypeOK
  <2> QED  BY <2>1, <2>2
<1> QED  BY <1>14, <1>15, <1>16, <1>18, <1>19, <1>20, <1>21, <1>22

(* Only players not read for long are forgotten, none of those drawn.       *)
LEMMA WorldKeepsInv ==
    ASSUME SamplingInv, NEW other \in BOOLEAN, NEW timer \in BOOLEAN, NEW carried \in BOOLEAN,
           SampleWorld(other, timer, carried)
    PROVE  SamplingInv'
<1> USE DEF SamplingInv
<1>1. /\ pc = "players" /\ todo = {}
      /\ IF capture
         THEN pc' = "publish" /\ bomb' = BombState(carried) /\ ForgetUnseen
         ELSE pc' = "idle" /\ UNCHANGED <<bomb, samples, seen, fresh>>
      /\ UNCHANGED <<radar, capture, todo, drawn, watched, observed, health, cache, epoch,
                     mapId, target, shown, looked>>
  BY DEF SampleWorld
<1>2. /\ c4' \in BOOLEAN /\ dropped' \in BOOLEAN /\ droppedRead' \in BOOLEAN
      /\ dropped' = droppedRead'
  <2>1. SampleWorldEntities(other)
    BY DEF SampleWorld
  <2>2. CASE radar \/ other
    <3>1. c4' \in BOOLEAN
      BY <2>1, <2>2 DEF SampleWorldEntities, RefreshWorldEntityCache, TypeOK
    <3> QED
      BY <2>1, <2>2, <3>1 DEF SampleWorldEntities, UpdateWorldEntityPositions, TypeOK, WorldKept
  <2>3. CASE ~(radar \/ other)
    BY <2>1, <2>3 DEF SampleWorldEntities, ClearWorldEntities
  <2> QED  BY <2>2, <2>3
<1>3. planted' \in BOOLEAN /\ plantedRead' \in BOOLEAN /\ planted' = plantedRead'
  <2>1. SampleBomb(timer)
    BY DEF SampleWorld
  <2>2. \/ planted' = TRUE /\ plantedRead' = TRUE
        \/ planted' = FALSE /\ plantedRead' = FALSE
        \/ planted' = planted /\ plantedRead' = plantedRead
    BY <2>1 DEF SampleBomb, UpdateBombInfo, ClearBombInfo
  <2> QED  BY <2>2 DEF TypeOK, WorldKept
<1>4. bomb' \in {"unknown", "planted", "carried", "dropped"}
  BY <1>1 DEF BombState, TypeOK
<1>5. \A p \in Players :
        /\ samples'[p] = samples[p] /\ seen'[p] = seen[p] /\ fresh'[p] = fresh[p]
        \/ /\ capture /\ drawn[p] = None
           /\ samples'[p] \in {samples[p], None} /\ seen'[p] \in {seen[p], None}
           /\ fresh'[p] \in {fresh[p], None}
           /\ samples[p] # None => samples'[p] = IF samples[p].seenAt > MaxAge THEN None
                                                ELSE samples[p]
           /\ seen[p] # None => seen'[p] = IF seen[p].at > MaxAge THEN None ELSE seen[p]
           /\ fresh'[p] # fresh[p] => seen[p] # None /\ seen[p].at > MaxAge
  <2>1. CASE ~capture
    BY <1>1, <2>1
  <2>2. ASSUME capture, NEW p \in Players
        PROVE  /\ samples'[p] = IF samples[p] # None /\ samples[p].seenAt > MaxAge
                                THEN None ELSE samples[p]
               /\ seen'[p] = IF seen[p] # None /\ seen[p].at > MaxAge THEN None ELSE seen[p]
               /\ fresh'[p] = IF seen[p] # None /\ seen[p].at > MaxAge THEN None ELSE fresh[p]
    BY <1>1, <2>2 DEF ForgetUnseen
  <2>3. ASSUME capture, NEW p \in Players, drawn[p] # None
        PROVE  samples'[p] = samples[p] /\ seen'[p] = seen[p] /\ fresh'[p] = fresh[p]
    <3>1. seen[p] # None /\ seen[p].at = 0
      BY <2>3 DEF SamplesKept
    <3>2. samples[p] # None => samples[p].seenAt = 0
      <4>1. samples[p] # None => mapId # None
        BY DEF SamplesKept, Nobody
      <4> QED  BY <3>1, <4>1 DEF SamplesKept, KeptIsSeen
    <3> QED  BY <2>2, <2>3, <3>1, <3>2, SamplingAssumption
  <2> QED  BY <2>1, <2>2, <2>3
<1>6. /\ samples' \in [Players -> Sample \cup {None}]
      /\ seen' \in [Players -> Life \cup {None}]
      /\ fresh' \in [Players -> Ages \cup {None}]
  BY <1>1 DEF ForgetUnseen, TypeOK
<1>7. TypeOK'
  <2>1. pc' \in {"publish", "idle"}
    BY <1>1
  <2> QED  BY <1>1, <1>2, <1>3, <1>4, <1>6, <2>1 DEF TypeOK, health
<1>8. PassInOrder' /\ CacheNamed' /\ SightKept' /\ WorldKept'
  BY <1>1, <1>2, <1>3 DEF PassInOrder, Sampling, CacheNamed, SightKept, WorldKept
<1>9. SamplesKept'
  <2>1. mapId # None => \A p \in Players : KeptIsSeen(p)'
    <3> SUFFICES ASSUME mapId # None, NEW p \in Players PROVE KeptIsSeen(p)'
      OBVIOUS
    <3>1. KeptIsSeen(p)
      BY DEF SamplesKept
    <3> QED  BY <1>5, <3>1 DEF KeptIsSeen
  <2>2. mapId = None => samples' = Nobody
    <3> SUFFICES ASSUME mapId = None PROVE samples' = Nobody
      OBVIOUS
    <3>1. samples = Nobody
      BY DEF SamplesKept
    <3> QED  BY <1>5, <1>6, <3>1 DEF Nobody
  <2>3. \A p \in Players : drawn[p] # None => seen'[p] # None /\ seen'[p].at = 0
    BY <1>5 DEF SamplesKept
  <2> QED  BY <1>1, <2>1, <2>2, <2>3 DEF SamplesKept
<1>10. PositionsKept'
  <2> SUFFICES ASSUME NEW p \in Players, samples'[p] # None, samples'[p].pos # None
               PROVE  fresh'[p] # None /\ fresh'[p] <= samples'[p].at
    BY DEF PositionsKept
  <2>1. samples'[p] = samples[p]
    BY <1>5
  <2>2. KeptIsSeen(p)
    <3>1. mapId # None
      BY <2>1 DEF SamplesKept, Nobody
    <3> QED  BY <3>1 DEF SamplesKept
  <2>3. fresh'[p] = fresh[p]
    BY <1>5, <2>1, <2>2 DEF KeptIsSeen
  <2> QED  BY <2>1, <2>3 DEF PositionsKept
<1>11. MarksKept'
  BY <1>1, <1>5 DEF MarksKept
<1>12. RetainedIsOwn' /\ LiveIsRecent' /\ ObservedIsCurrent'
  BY <1>1, <1>5 DEF RetainedIsOwn, LiveIsRecent, ObservedIsCurrent
<1>13. BombIsOwn'
  BY <1>1, <1>2, <1>3 DEF BombIsOwn, BombState
<1> QED  BY <1>7, <1>8, <1>9, <1>10, <1>11, <1>12, <1>13

LEMMA PublishKeepsInv == SamplingInv /\ Publish => SamplingInv'
<1> SUFFICES ASSUME SamplingInv, Publish PROVE SamplingInv'
  OBVIOUS
<1> USE DEF SamplingInv
<1>1. /\ pc = "publish" /\ pc' = "idle" /\ capture' = FALSE /\ bomb' = "unknown"
      /\ todo' = {} /\ drawn' = Nobody /\ watched' = None /\ observed' = None
      /\ shown' = [connected |-> TRUE, map |-> mapId, players |-> drawn, observed |-> watched]
      /\ UNCHANGED <<radar, health, kept, world, history>>
  BY DEF Publish, EndPass
<1>2. \A p \in Players : Nobody[p] = None
  BY DEF Nobody
<1>3. TypeOK'
  <2>1. drawn' \in [Players -> Marker \cup {None}]
    BY <1>1, NobodyTyped
  <2>2. shown' \in [connected : BOOLEAN, map : Maps \cup {None},
                    players : [Players -> Marker \cup {None}], observed : Players \cup {None}]
    BY <1>1 DEF TypeOK
  <2> QED  BY <1>1, <2>1, <2>2 DEF TypeOK, health, kept, world, history
<1>4. PassInOrder' /\ CacheNamed' /\ SightKept' /\ WorldKept'
  BY <1>1, <1>2 DEF PassInOrder, Sampling, CacheNamed, SightKept, WorldKept, kept, world, history
<1>5. SamplesKept' /\ PositionsKept'
  BY <1>1, <1>2 DEF SamplesKept, KeptIsSeen, PositionsKept, kept, history
<1>6. MarksKept'
  BY <1>1, <1>2 DEF MarksKept, Hidden, kept
<1>7. RetainedIsOwn' /\ LiveIsRecent' /\ ObservedIsCurrent' /\ BombIsOwn'
  BY <1>1, <1>2 DEF RetainedIsOwn, LiveIsRecent, ObservedIsCurrent, BombIsOwn
<1> QED  BY <1>3, <1>4, <1>5, <1>6, <1>7

LEMMA SamplingStep == SamplingInv /\ [Next]_vars => SamplingInv'
<1> SUFFICES ASSUME SamplingInv, [Next]_vars PROVE SamplingInv'
  OBVIOUS
<1>1. CASE ClearRuntimeState
  BY <1>1, ClearKeepsInv DEF ClearRuntimeState
<1>2. CASE \E p \in Players, alive \in BOOLEAN, reading \in Readings :
              SamplePlayer(p, alive, reading.dormant, reading.pos)
  BY <1>2, ReadingTyped, PlayerKeepsInv
<1>3. CASE UNCHANGED vars
  <2>1. UNCHANGED <<pc, pass, health, kept, world, shown, history>>
    BY <1>3 DEF vars
  <2> USE <2>1 DEF SamplingInv
  <2>2. TypeOK'
    BY DEF TypeOK, pass, health, kept, world, history
  <2>3. PassInOrder' /\ CacheNamed' /\ SightKept' /\ WorldKept'
    BY DEF PassInOrder, Sampling, CacheNamed, SightKept, WorldKept, pass, kept, world, history
  <2>4. SamplesKept' /\ PositionsKept' /\ MarksKept'
    BY DEF SamplesKept, KeptIsSeen, PositionsKept, MarksKept, pass, kept, history
  <2>5. RetainedIsOwn' /\ LiveIsRecent' /\ ObservedIsCurrent' /\ BombIsOwn'
    BY DEF RetainedIsOwn, LiveIsRecent, ObservedIsCurrent, BombIsOwn, pass, kept, world, history
  <2> QED  BY <2>2, <2>3, <2>4, <2>5
<1> QED
  BY <1>1, <1>2, <1>3, FailureKeepsInv, BeginKeepsInv, CacheKeepsInv, NoCacheKeepsInv,
     MapKeepsInv, ObserverKeepsInv, SkipKeepsInv, WorldKeepsInv, PublishKeepsInv
  DEF Next

(* What a snapshot tells of a player, and whom it calls the watched one, was *)
(* read of that player in this life, map and session and is no older than    *)
(* it may be; everyone has an identity; and the bomb it tells of was read in *)
(* this session.  That the bomb is of this map is not stated, and not so.    *)
THEOREM SnapshotStaysTrue == Spec => []SnapshotIsTrue
<1>1. SamplingInv => SnapshotIsTrue
  <2> SUFFICES ASSUME SamplingInv PROVE EveryoneNamed
    BY DEF SamplingInv, SnapshotIsTrue
  <2> SUFFICES ASSUME NEW p \in Players, drawn[p] # None PROVE cache[p].named
    BY DEF EveryoneNamed
  <2>1. Sampling /\ cache[p] # None
    BY DEF SamplingInv, PassInOrder, Nobody
  <2> QED  BY <2>1 DEF SamplingInv, Sampling, CacheNamed
<1> QED  BY <1>1, SamplingInitInv, SamplingStep, PTL DEF Spec

(* Who is drawn again in the life it was drawn in goes on with the entry    *)
(* that gave the mark its place, and whoever is dead or dormant does not    *)
(* move it.                                                                 *)
LEMMA MarkStays ==
    ASSUME SamplingInv, NEW p \in Players, NEW alive \in BOOLEAN, NEW dormant \in BOOLEAN,
           NEW pos \in Spots \cup {None}, SamplePlayer(p, alive, dormant, pos),
           drawn[p] = None, Hidden(drawn'[p]), shown.connected, Hidden(shown.players[p]),
           SameReader(p)
    PROVE  drawn'[p].pos = shown.players[p].pos
<1> USE DEF SamplingInv
<1> DEFINE c == cache[p]
           k == Continued(p, c.pawn, c.account, alive)
           s == Stored(k, dormant, pos)
<1>1. /\ pc = "players" /\ p \in todo /\ capture /\ c \in Cached /\ c.named
      /\ seen[p] # None
  <2>1. pc = "players" /\ p \in todo
    BY DEF SamplePlayer
  <2>2. capture /\ c # None
    BY <2>1 DEF PassInOrder, Sampling
  <2> QED  BY <2>1, <2>2 DEF CacheNamed, TypeOK, SameReader
<1>2. mapId # None /\ KeptIsSeen(p) /\ samples[p] # None
  BY <1>1 DEF SamplesKept, KeptIsSeen
<1>3. drawn'[p] = [alive |-> alive, dormant |-> dormant, pos |-> Retained(s, dormant)]
  BY <1>1, <1>2 DEF SamplePlayer, TypeOK
<1>4. /\ seen'[p].pawn = c.pawn /\ seen'[p].alive = alive
      /\ seen'[p].account = IF c.account = None /\ SameLife(p, c.pawn, c.account, alive)
                            THEN seen[p].account ELSE c.account
  BY DEF SamplePlayer, Remember, TypeOK
<1>5. Continues(p, c.pawn, c.account, alive)
  <2>1. seen[p].pawn = c.pawn /\ ~(~seen[p].alive /\ alive)
    BY <1>4 DEF SameReader
  <2>2. ~Conflicts(seen[p].account, c.account)
    BY <1>4 DEF SameReader, Conflicts
  <2> QED  BY <1>2, <2>1, <2>2 DEF KeptIsSeen, Continues, Compatible, Revived
<1>6. k \in Sample /\ k.alive = alive /\ k.pos = samples[p].pos
  BY <1>1, <1>5, ContinuedTyped DEF Cached
<1>7. samples[p].pos = shown.players[p].pos /\ samples[p].pos # None
  BY <1>2 DEF MarksKept, Hidden
<1>8. ~alive \/ dormant
  BY <1>3 DEF Hidden
<1>9. s = k
  BY <1>6, <1>7, <1>8 DEF Stored, Takes
<1> QED  BY <1>3, <1>6, <1>7, <1>8, <1>9 DEF Retained

(* The mark of a dead or hidden player stays where it is from one snapshot  *)
(* to the next, while the reads tell the same player in the same game.      *)
THEOREM FrozenMarksStay == Spec => FrozenStays
<1> DEFINE Frozen ==
      \A p \in Players :
         /\ pc = "players" /\ drawn[p] = None /\ Hidden(drawn'[p])
         /\ shown.connected /\ Hidden(shown.players[p]) /\ SameReader(p)
         => drawn'[p].pos = shown.players[p].pos
<1>1. ASSUME SamplingInv, [Next]_vars PROVE [Frozen]_vars
  <2> SUFFICES ASSUME NEW p \in Players, pc = "players", drawn[p] = None, Hidden(drawn'[p]),
                      Next, shown.connected, Hidden(shown.players[p]), SameReader(p)
               PROVE  drawn'[p].pos = shown.players[p].pos
    BY <1>1 DEF Frozen
  <2>1. drawn'[p] # None
    BY DEF Hidden
  <2>2. PICK q \in Players, alive \in BOOLEAN, reading \in Readings :
           SamplePlayer(q, alive, reading.dormant, reading.pos)
    BY <2>1 DEF Next, ClearRuntimeState, LocalSampleFails, BeginPass, KeepCache, RefreshFails,
       RefreshEntityCache, SampleMapState, ObserverKnown, ObserverUnknown, ObserverDone,
       SkipPlayer, SampleWorld, Publish
  <2>3. q = p
    BY <2>1, <2>2 DEF SamplePlayer, SamplingInv, TypeOK
  <2> QED  BY <1>1, <2>2, <2>3, ReadingTyped, MarkStays
<1> QED  BY <1>1, SamplingInitInv, SamplingStep, PTL DEF Spec, FrozenStays
-----------------------------------------------------------------------------
(* Where the owner and the writer of a recording can be at the same time.   *)
Lifecycle ==
    /\ ~recorderRunning => spc = "idle" /\ wpc = "none" /\ ~stopping /\ ~recording /\ pending = <<>>
    /\ recorderRunning /\ spc # "reset" => wpc # "none"
    /\ spc = "join" => recorderRunning /\ stopping
    /\ spc = "reset" => recorderRunning /\ stopping /\ wpc = "none"
    /\ wpc = "ended" => stopping
    /\ wpc \in {"ended", "none"} => pending = <<>>
    /\ recording /\ stopping => spc # "idle"
    /\ hand # <<>> <=> wpc \in {"held", "count"}

(* The status lags behind the file by the frame that is being counted.      *)
Counted ==
    /\ wpc \in {"open", "wait", "held"} => written = Len(file)
    /\ wpc = "count" => written + 1 = Len(file)
    /\ Len(file) <= MaximumFrames

(* What is in the file is no newer than the frame in hand, that no newer    *)
(* than the one that is pending, and that no newer than the last snapshot.  *)
AtMost(frame) == \A i \in 1..Len(file) : file[i] <= frame
Ordered ==
    /\ RecordedInOrder /\ AtMost(snapshot)
    /\ hand # <<>> => AtMost(hand[1]) /\ hand[1] <= snapshot
    /\ pending # <<>> => AtMost(pending[1]) /\ pending[1] <= snapshot
    /\ hand # <<>> /\ pending # <<>> => hand[1] <= pending[1]

RecordingInv == RecordingTypeOK /\ Lifecycle /\ Counted /\ NothingSkipped /\ Ordered

LEMMA RecordingInitInv == RecordingInit => RecordingInv
<1> SUFFICES ASSUME RecordingInit PROVE RecordingInv
  OBVIOUS
<1>1. RecordingTypeOK
  <2>1. file \in Seq(Frame) /\ pending \in MaybeFrame /\ hand \in MaybeFrame
    BY DEF RecordingInit, MaybeFrame
  <2>2. snapshot \in Frame /\ age \in 0..Interval /\ due \in 0..Interval /\ starts \in 0..MaxStarts
    BY RecordingAssumption DEF RecordingInit, Frame
  <2>3. /\ dpc = "sample" /\ readFailures = 0 /\ inactive = FALSE /\ config = FALSE
        /\ enabled = FALSE /\ spc = "idle" /\ recorderRunning = FALSE /\ stopping = FALSE
        /\ recording = FALSE /\ wpc = "none"
    BY DEF RecordingInit
  <2>4. written \in Nat /\ replaced \in Nat /\ accepted \in Nat /\ readFailures \in 0..2
    BY DEF RecordingInit
  <2> QED  BY <2>1, <2>2, <2>3, <2>4 DEF RecordingTypeOK
<1>2. Lifecycle
  BY DEF RecordingInit, Lifecycle
<1>3. Counted /\ NothingSkipped
  BY RecordingAssumption DEF RecordingInit, Counted, NothingSkipped
<1>4. Ordered
  BY DEF RecordingInit, Ordered, RecordedInOrder, AtMost
<1> QED  BY <1>1, <1>2, <1>3, <1>4 DEF RecordingInv

(* The data thread never takes a snapshot back.                             *)
LEMMA SampleTyped ==
    ASSUME RecordingTypeOK, SampleRound \/ Unfocused
    PROVE  /\ snapshot' \in Frame /\ snapshot <= snapshot'
           /\ dpc' \in {"sample", "publish"} /\ readFailures' \in 0..2
           /\ age' \in 0..Interval /\ due' \in 0..Interval
           /\ config' \in BOOLEAN /\ inactive' \in BOOLEAN
<1> USE RecordingAssumption DEF RecordingTypeOK, Frame
<1>1. CASE Unfocused
  BY <1>1 DEF Unfocused, Clear, SequenceAfterClear
<1>2. CASE SampleRound
  <2>1. PICK wait \in 0..MaxStep, duration \in 0..MaxStep :
          /\ SampleFails(wait, duration) \/ SampleSucceeds(wait, duration)
          /\ due' = IF due > wait + duration THEN due - wait - duration ELSE 0
          /\ dpc' = IF due' = 0 THEN "publish" ELSE "sample"
    BY <1>2 DEF SampleRound
  <2>2. due' \in 0..Interval /\ dpc' \in {"sample", "publish"}
    BY <2>1
  <2>3. snapshot < MaxSequence /\ config' \in BOOLEAN /\ inactive' \in BOOLEAN
    BY <1>2 DEF SampleRound
  <2>4. age \in Nat /\ wait \in Nat /\ duration \in Nat /\ Interval \in Nat
    OBVIOUS
  <2>5. /\ Smaller(age + wait + duration, Interval) \in 0..Interval
        /\ Smaller(duration, Interval) \in 0..Interval /\ Interval \in 0..Interval
    BY <2>4 DEF Smaller
  <2>6. CASE SampleFails(wait, duration)
    <3>1. snapshot' \in Frame /\ snapshot <= snapshot'
      BY <2>3, <2>6 DEF SampleFails, Clear, SequenceAfterClear
    <3>2. readFailures' \in 0..2
      BY <2>6 DEF SampleFails, KeepsState, Clear
    <3>3. age' \in 0..Interval
      BY <2>5, <2>6 DEF SampleFails, Clear
    <3> QED  BY <2>2, <2>3, <3>1, <3>2, <3>3
  <2>7. CASE SampleSucceeds(wait, duration)
    <3>1. snapshot' \in Frame /\ snapshot <= snapshot' /\ readFailures' \in 0..2
      BY <2>3, <2>7 DEF SampleSucceeds
    <3>2. age' \in 0..Interval
      BY <2>5, <2>7 DEF SampleSucceeds
    <3> QED  BY <2>2, <2>3, <3>1, <3>2
  <2> QED  BY <2>1, <2>6, <2>7
<1> QED  BY <1>1, <1>2

LEMMA RecordingStep == RecordingInv /\ [RecordingNext]_recordingVars => RecordingInv'
<1> SUFFICES ASSUME RecordingInv, [RecordingNext]_recordingVars PROVE RecordingInv'
  OBVIOUS
<1> USE DEF RecordingInv
<1>0. /\ pending \in MaybeFrame /\ hand \in MaybeFrame /\ snapshot \in Nat
      /\ file \in Seq(Frame) /\ Len(file) \in Nat
      /\ \A i \in 1..Len(file) : file[i] \in Frame /\ file[i] \in Nat
  <2>1. /\ pending \in MaybeFrame /\ hand \in MaybeFrame /\ snapshot \in Frame
        /\ file \in Seq(Frame) /\ Len(file) \in Nat
        /\ \A i \in 1..Len(file) : file[i] \in Frame
    BY DEF RecordingTypeOK
  <2>2. \A f \in Frame : f \in Nat
    BY DEF Frame
  <2> QED  BY <2>1, <2>2
<1>a. \A f \in MaybeFrame : /\ f # <<>> => Len(f) = 1 /\ f[1] \in Frame /\ f = <<f[1]>>
                            /\ f = <<>> => Len(f) = 0
  BY DEF MaybeFrame
<1>1. CASE SampleRound \/ Unfocused
  <2>1. UNCHANGED <<owner, status, pending, writer, accepted>>
    BY <1>1 DEF SampleRound, Unfocused
  <2>2. RecordingTypeOK'
    BY <1>1, <2>1, SampleTyped DEF RecordingTypeOK, owner, status, writer
  <2>3. Ordered'
    <3>1. snapshot' \in Nat /\ snapshot <= snapshot'
      BY <1>1, SampleTyped DEF Frame
    <3> QED  BY <1>0, <1>a, <2>1, <3>1
             DEF Ordered, RecordedInOrder, AtMost, writer, Frame
  <2> QED
    BY <2>1, <2>2, <2>3 DEF Lifecycle, Counted, NothingSkipped, owner, status, writer
<1>2. CASE PublishNewest
  <2>1. CASE config /\ recorderRunning /\ ~stopping
    <3>1. pending' = <<snapshot>> /\ replaced' = replaced + Len(pending)
          /\ accepted' = accepted + 1
      BY <1>2, <2>1 DEF PublishNewest
    <3>2. pending' \in MaybeFrame /\ Len(pending') = 1 /\ pending'[1] = snapshot
      BY <3>1 DEF MaybeFrame, RecordingTypeOK
    <3>3. RecordingTypeOK'
      <4>1. replaced' \in Nat /\ accepted' \in Nat
        BY <1>0, <1>a, <3>1 DEF RecordingTypeOK
      <4>2. due' \in 0..Interval /\ dpc' = "sample"
        BY <1>2, RecordingAssumption DEF PublishNewest
      <4> QED  BY <1>2, <3>2, <4>1, <4>2 DEF PublishNewest, RecordingTypeOK, owner, writer
    <3>4. Lifecycle' /\ Counted'
      BY <1>2, <2>1 DEF PublishNewest, Lifecycle, Counted, owner, writer
    <3>5. NothingSkipped'
      BY <1>0, <1>2, <1>a, <2>1, <3>1, <3>2
      DEF PublishNewest, NothingSkipped, Lifecycle, RecordingTypeOK, owner, writer
    <3>6. Ordered'
      BY <1>0, <1>2, <3>2 DEF PublishNewest, Ordered, RecordedInOrder, AtMost, owner, writer
    <3> QED  BY <3>3, <3>4, <3>5, <3>6
  <2>2. CASE ~(config /\ recorderRunning /\ ~stopping)
    <3>1. /\ due' \in 0..Interval /\ dpc' = "sample"
          /\ UNCHANGED <<snapshot, readFailures, age, inactive, config, owner, status, pending,
                         accepted, writer>>
      BY <1>2, <2>2, RecordingAssumption DEF PublishNewest, status
    <3> QED
      BY <3>1 DEF RecordingTypeOK, Lifecycle, Counted, NothingSkipped, Ordered,
         RecordedInOrder, AtMost, owner, status, writer
  <2> QED  BY <2>1, <2>2
<1>3. CASE Toggle
  BY <1>3 DEF Toggle, RecordingTypeOK, Lifecycle, Counted, NothingSkipped, Ordered,
     RecordedInOrder, AtMost, sampler, status, writer
<1>4. CASE Start
  <2>1. pending = <<>> /\ hand = <<>> /\ spc = "idle"
    BY <1>4 DEF Start, Lifecycle
  <2>2. file' = <<>> /\ file' \in Seq(Frame) /\ Len(file') = 0
    BY <1>4 DEF Start
  <2>3. RecordingTypeOK'
    <3>1. starts' \in 0..MaxStarts
      BY <1>4, RecordingAssumption DEF Start, RecordingTypeOK
    <3>2. /\ written' = 0 /\ replaced' = 0 /\ accepted' = 0 /\ wpc' = "open"
          /\ recorderRunning' = TRUE /\ stopping' = FALSE /\ recording' = TRUE
          /\ UNCHANGED <<sampler, enabled, spc, pending, hand>>
      BY <1>4 DEF Start
    <3>3. file' \in Seq(Frame)
      BY <2>2
    <3> QED  BY <3>1, <3>2, <3>3 DEF RecordingTypeOK, sampler
  <2>4. Counted' /\ Ordered'
    BY <1>4, <2>1, <2>2, RecordingAssumption
    DEF Start, Counted, Ordered, RecordedInOrder, AtMost, sampler
  <2>5. Lifecycle' /\ NothingSkipped'
    BY <1>4, <1>a, <2>1, <2>2 DEF Start, Lifecycle, NothingSkipped, sampler
  <2> QED  BY <2>3, <2>4, <2>5
<1>5. CASE StopBegin
  BY <1>5 DEF StopBegin, RecordingTypeOK, Lifecycle, Counted, NothingSkipped, Ordered,
     RecordedInOrder, AtMost, sampler, writer
<1>6. CASE Join
  BY <1>6 DEF Join, RecordingTypeOK, Lifecycle, Counted, NothingSkipped, Ordered,
     RecordedInOrder, AtMost, sampler, status
<1>7. CASE StopEnd
  <2>1. <<>> \in MaybeFrame
    BY DEF MaybeFrame
  <2> QED
    BY <1>7, <2>1 DEF StopEnd, RecordingTypeOK, Lifecycle, Counted, NothingSkipped, Ordered,
       RecordedInOrder, AtMost, sampler, writer
<1>8. CASE Open
  BY <1>8 DEF Open, RecordingTypeOK, Lifecycle, Counted, NothingSkipped, Ordered,
     RecordedInOrder, AtMost, sampler, owner, status
<1>9. CASE OpenFails \/ LimitReached \/ WriteFails
  <2>1. /\ ~recording' /\ stopping' /\ pending' = <<>> /\ wpc' = "ended" /\ hand' = <<>>
        /\ recorderRunning /\ spc # "reset"
        /\ UNCHANGED <<sampler, owner, recorderRunning, written, replaced, file, accepted>>
    BY <1>9 DEF OpenFails, LimitReached, WriteFails, Fail, Lifecycle
  <2>2. pending' \in MaybeFrame /\ hand' \in MaybeFrame
    BY <2>1 DEF MaybeFrame
  <2>3. RecordingTypeOK'
    <3>1. /\ recording' = FALSE /\ stopping' = TRUE /\ wpc' = "ended"
          /\ UNCHANGED <<sampler, owner, recorderRunning, written, replaced, file, accepted>>
      BY <1>9 DEF OpenFails, LimitReached, WriteFails, Fail
    <3> QED  BY <2>2, <3>1 DEF RecordingTypeOK, sampler, owner
  <2>4. Lifecycle' /\ Counted' /\ NothingSkipped'
    BY <2>1 DEF Lifecycle, Counted, NothingSkipped, owner
  <2>5. Ordered'
    BY <2>1 DEF Ordered, RecordedInOrder, AtMost, sampler
  <2> QED  BY <2>3, <2>4, <2>5
<1>10. CASE Wait
  <2>1. CASE Leaves
    BY <1>10, <2>1 DEF Wait, Leaves, RecordingTypeOK, Lifecycle, Counted, NothingSkipped, Ordered,
       RecordedInOrder, AtMost, sampler, owner, status
  <2>2. CASE ~Leaves
    <3>1. pending # <<>> /\ hand = <<>> /\ wpc = "wait" /\ pending' = <<>> /\ hand' = pending
          /\ wpc' = "held" /\ recorderRunning /\ spc # "reset"
          /\ UNCHANGED <<sampler, owner, status, file, accepted>>
      BY <1>10, <2>2 DEF Wait, Wakes, Leaves, Lifecycle
    <3>2. pending' \in MaybeFrame /\ Len(pending') = 0 /\ Len(pending) = 1
      BY <1>0, <1>a, <3>1 DEF MaybeFrame
    <3>3. RecordingTypeOK'
      BY <3>1, <3>2 DEF RecordingTypeOK, sampler, owner, status
    <3>4. Lifecycle' /\ Counted'
      BY <3>1 DEF Lifecycle, Counted, owner, status
    <3>5. NothingSkipped'
      BY <3>1, <3>2 DEF NothingSkipped, RecordingTypeOK, status
    <3>6. Ordered'
      BY <3>1 DEF Ordered, RecordedInOrder, AtMost, sampler
    <3> QED  BY <3>3, <3>4, <3>5, <3>6
  <2> QED  BY <2>1, <2>2
<1>11. CASE Write
  <2>1. /\ hand # <<>> /\ wpc' = "count" /\ recorderRunning /\ spc # "reset" /\ written = Len(file)
        /\ written + 1 <= MaximumFrames
        /\ UNCHANGED <<sampler, owner, status, pending, hand, accepted>>
    BY <1>11 DEF Write, Fits, Lifecycle, Counted
  <2>2. hand[1] \in Frame /\ hand = <<hand[1]>>
    BY <1>0, <1>a, <2>1
  <2>3. /\ file' \in Seq(Frame) /\ Len(file') = Len(file) + 1
        /\ \A i \in 1..Len(file) : file'[i] = file[i]
        /\ file'[Len(file) + 1] = hand[1]
    BY <1>0, <1>11, <2>2 DEF Write
  <2>4. RecordingTypeOK'
    BY <2>1, <2>3 DEF RecordingTypeOK, sampler, owner, status
  <2>5. Lifecycle' /\ Counted' /\ NothingSkipped'
    BY <1>0, <1>11, <2>1, <2>3
    DEF Write, Lifecycle, Counted, NothingSkipped, RecordingTypeOK, owner, status
  <2>6. \A f \in Nat : AtMost(f) /\ hand[1] <= f => (\A i \in 1..Len(file') : file'[i] <= f)
    BY <1>0, <2>3 DEF AtMost
  <2>7. RecordedInOrder'
    BY <1>0, <2>1, <2>3 DEF RecordedInOrder, Ordered, AtMost
  <2>8. AtMost(snapshot)' /\ AtMost(hand[1])' /\ (pending # <<>> => AtMost(pending[1])')
    BY <1>0, <1>a, <2>1, <2>2, <2>6 DEF Ordered, AtMost, sampler, Frame
  <2>9. Ordered'
    BY <2>1, <2>7, <2>8 DEF Ordered, sampler
  <2> QED  BY <2>4, <2>5, <2>9
<1>12. CASE Count
  <2>1. <<>> \in MaybeFrame
    BY DEF MaybeFrame
  <2> QED
    BY <1>12, <2>1 DEF Count, RecordingTypeOK, Lifecycle, Counted, NothingSkipped, Ordered,
       RecordedInOrder, AtMost, sampler, owner
<1>13. CASE UNCHANGED recordingVars
  BY <1>13 DEF recordingVars, RecordingTypeOK, Lifecycle, Counted, NothingSkipped, Ordered,
     RecordedInOrder, AtMost, sampler, owner, status, writer
<1> QED
  BY <1>1, <1>2, <1>3, <1>4, <1>5, <1>6, <1>7, <1>8, <1>9, <1>10, <1>11, <1>12, <1>13
  DEF RecordingNext, DataThread, MainThread, Writer

(* The file holds the frames its status counts, in order and within the     *)
(* limit; while no write fails every accepted frame is accounted for; and a *)
(* recorder whose writer has failed does not claim to record.               *)
THEOREM RecorderStaysHonest == RecordingSpec => []RecorderIsHonest
<1>1. RecordingInv => RecorderIsHonest
  BY DEF RecordingInv, RecorderIsHonest, FileAccounted, SizeLimited, StatusIsTrue, Lifecycle,
     Counted, Ordered
<1> QED  BY <1>1, RecordingInitInv, RecordingStep, PTL DEF RecordingSpec
=============================================================================
