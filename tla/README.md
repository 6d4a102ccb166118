# TLA+ models of the web radar and its public relay

This directory holds TLA+ models of the concurrent parts of the repository, the
TLC configurations that check them on small instances, and theorems about them
checked by TLAPS. `PROJECT.json` maps every definition to the lines it
translates; paths below are relative to the repository root.

Contents: 1 the system, 2 the modules, 3 the runs, 4 fairness, 5 proofs,
6 disagreements noticed, 7 what is not modelled, 8 plan.

## 1. The system

A Windows program samples the state of a game and shows it in an overlay and,
as JSON snapshots, in web pages. The snapshots go two ways: to an embedded web
server for the local network, and, through one outgoing WebSocket, to a public
relay that passes them on to logged-in viewers.

```
 esp.cpp (sampling) ──► data thread of main.cpp ──┬─► SnapshotRecorder ─► .ndjson file ─► page (replay)
                                                  ├─► WebRadarService ───────────────┐
   menu ─► main thread ─► WebRadarRuntime         │    (embedded server)             ├─► page:
                          PublicRelayRuntime ─────┴─► PublicRelayProducer ─► relay ──┘  useRadarStream
                                                                          (Go, rooms and sessions)
```

| component | state it keeps | operations | what is hard |
|---|---|---|---|
| relay room (`room.go`, handlers in `server.go`) | producer claim and generation, latest frame, viewers, closing flag; per viewer a one-place channel | claim, attach, publish, release; add, attach, remove viewer; expire; close connections | goroutines interleave between critical sections; captured frames grow old during a handshake; shutdown meets handshakes |
| relay sessions (`session.go`, handlers in `server.go`) | table of logins; per session expiry, revocation, reserved and attached connections | login, replacement, logout, authenticate, prune, reserve, attach, revoke, Close | sessions leave the table under one lock and are revoked after it |
| relay limits, metrics, validation | buckets; counters | allow; count; check a header | eviction of entries |
| embedded server (`web_radar_service.cpp`) | lifecycle state, viewers with a pending frame and a writer thread each, latest snapshot | start, stop, publish, the callbacks of CivetWeb, the writers | four kinds of threads, objects of the library that are used again, stop against handshakes |
| public relay producer (`public_relay_producer.cpp`) | one pending snapshot with its generation, connection, status, backoff | start, requestStop, stop, publish, the worker | late answers of the network, replacement during a send, token wiped while restart is possible |
| public relay runtime (`main.cpp`) | settings, the current producer, the retirement, the abandoned slot | sync (each frame), publish, stop | joining a worker may take long and must not block a frame; a thread may not be created |
| recorder and sampling (`snapshot_recorder.hpp`, `main.cpp`, `esp.cpp`) | pending frame, file, limits; sequence, two throttles | sync, publish, write loop; sample | two rhythms meet, write failures, stop with a frame in hand |
| sampling (`esp::updateEntities`, `radar_player_sample.hpp`) | cached pawns and world entities, last-known positions, observer target, bomb, map, epoch, failures | one pass of reads; clear | the game runs while it is read: slots, addresses and handles are used again, a read may fail anywhere |
| embedded server's runtime, main loop (`main.cpp`) | settings, server, token, retry, payloads; attached or waiting, focus | sync (each frame), publish, blank, stop | two threads, three consumers with options of their own, a game that goes away |
| overlay window (`sdl_renderer.cpp`, `local_fixed_radar.cpp`) | renderer, ImGui's backends, cached images; viewport with a worker | init, poll, begin, draw, destroy; place, detect | a lost device in any frame, failed recovery; late detections |
| hotkeys (`sdl_renderer.cpp`, `menu.hpp`, `aimbot.cpp`) | bound keys, a binding that waits, suppression, trackers, `inputAllowed`, the data thread's copy of the settings | poll keys, toggle the menu, place the window, begin, capture and cancel a binding; heed held keys | the system latches presses until somebody asks; the menu opens before the gate closes; the data thread's settings are of the time before |
| page stream (`useRadarStream.ts`) | one socket, timers, attempt number, staleness | connect, schedule, retry, resume, online and offline, probe of the session | events of what was given up still arrive |
| page login (`useRelaySession.ts`, `App.tsx`) | access state, requests that are out | probe, log in, log out, expire, refuse | late answers; a stream that ends only with the next rendering |
| page replay, views | loaded file; settings | load, seek; draw | |

How they interact. The data thread calls `publish` of the three consumers with
the same snapshot; none may make it wait. `PublicRelayRuntime` creates and
retires `PublicRelayProducer` objects. The producer's WebSocket is served by
`handleProducer`, which publishes into a room; `handleViewer` connects a room, a
session and one viewer's WebSocket, whose other end is `useRadarStream`. The
close code and the HTTP status the relay answers with decide whether the page
reconnects or asks for a login.

What makes each part correct:

- **room**: one publisher at a time, and its claim is always given back; exact
  places; a viewer misses no frame and gets none twice, late or out of order;
  shutdown closes everything, also what is in the middle of its handshake.
- **sessions**: an ended login ends its streams however it ended; places and
  capacity are exact; a refused login costs nobody a session.
- **embedded server**: a stop leaves nothing behind and comes to an end; the
  writer thread never uses a connection that serves somebody else.
- **producer**: what is counted as sent was delivered; order; after a stop
  request no late answer changes the status; the worker ends.
- **runtime**: one connection per program, no producer forgotten, nothing goes to
  a connection switched off; the user's last choice takes effect, switching off
  always, another connection as soon as no worker hangs in a send.
- **program**: no viewer goes on looking at a game nobody samples; each consumer
  gets what its own options permit; an old link does not open a new server.
- **sampling**: nothing kept of one life, player, map or session of the game is
  told of another player or target; the bomb is one of this session (that it is
  one of this map is not so, see 6); the mark of a dead or hidden player does not
  move.
- **overlay window**: no image outlives its renderer, a running program draws
  with its backends attached (the frame in which it ends may not, see 6), and
  what could not be loaded is tried again; the viewport fits the window, changes
  only on two agreeing detections, and settles.
- **hotkeys**: a key does only what it is bound to; the press that binds a key
  does not use it; no press made in another window is replayed; held keys are
  heeded only with the menu hidden.
- **recorder**: the file holds what the status says and never goes back (that it
  goes on with every frame is not so, see 6); stop ends.
- **page**: one connection, always waiting for exactly one thing, honest display,
  late events ignored, attempts end; one decision at a time about who is logged
  in, which the stream follows.

## 2. The modules

| module | models | composed with |
|---|---|---|
| `LatestSlot` | abstract: a place that keeps the newest of the values offered | implemented by the two below |
| `ViewerMailbox` | `viewer.offer` with its lock, against the receiving writer | implements `LatestSlot` step by step |
| `RelayRoom` | a room with its handlers | its mailboxes implement `LatestSlot` |
| `RelaySessions` | logins and the streams that depend on them | supplies what `RelayRoom` has as `sessionOver` |
| `WebRadarService` | the embedded server | |
| `PublicRelayProducer` | the uploading worker | is the producer `PublicRelayRuntime` sees from outside |
| `PublicRelayRuntime` | creation and retirement of producers | |
| `RadarJson` | what a serialized snapshot tells under which options, and the cache of payloads | used by `OverlayProgram` |
| `OverlayProgram` | `main.cpp`: the rounds of waiting and playing, the embedded server's runtime, the data thread's delivery to three consumers | EXTENDS `PublicRelayRuntime` and implements it |
| `RadarSampling` | one pass of `updateEntities` and all it keeps | makes the snapshots of `OverlayProgram` and `RadarRecording` |
| `RadarRecording` | from sample to file | |
| `OverlayRenderer` | the window's renderer, ImGui, the cached map images | |
| `ViewportDetection` | the viewport and its detection worker | |
| `OverlayHotkeys` | which press of a key does what, with the menu's key binding | |
| `RadarStream` | the page's connection | |
| `RelayPage` | the page with its login, which mounts and unmounts the stream | EXTENDS `RadarStream` and implements it |
| `*Proofs` | theorems about the module of that name; some are about several modules, see 5 | |
| `MCOverlayParts` | `OverlayRenderer`, `ViewportDetection` and `RadarRecording` side by side, with their fairness | EXTENDS the three |
| other `MC*` | model values and symmetry for TLC | |

In every model a step is one critical section, one operation on a connection, or
one handler of an event loop. Steps of different threads interleave freely.

**RelayRoom.** State of a room: `producerActive`, `producerGeneration`,
`producerConn`, `frameGeneration`, `viewers`, `closing`, and the latest frame; a
frame is its generation and `publishedAt` gives its time. A producer request
walks through `ClaimProducer`, `UpgradeProducer`, `AttachProducer`,
`ReceiveSnapshot`, `Publish`, `Offer` for each viewer copied under the lock, and
`ReleaseProducer`, with the error exits of `handleProducer` between them. A
viewer request: `AddViewer` (which captures the latest frame), `UpgradeViewer`,
`AttachViewer`, `StartStream` (the late offer), `ViewerReturns`, `RemoveViewer`;
its writer goroutine `TakeFrame`, `JudgeFrame` (age and deadline), `WriteFrame`
or `WriteFails`. Close is `BeginClose`, `CloseConn`, `EndClose`. The janitor's
`ExpireLatest` works with the time it read before it took the lock.

**ViewerMailbox** opens up the one action `OfferTo` of `RelayRoom`: lock, compare
generations, drain the channel, put, unlock, while the writer receives without
the lock. That the room may treat it as atomic is what the refinement shows; it is proved
(`OfferIsAtomic`) and not run.

**RelaySessions.** A session is the login request that makes it. `owed` holds the
revocations that some goroutine has decided under `sessionsMu` and has still to
do; `toClose` the connections a revocation has listed and not yet closed.
`CreateSession` does, in one step, what the code does under one lock: prune,
remove the replaced session, compare with the capacity, insert. `GetSession`,
`DeleteSession`, `Prune` and `ClearTable` are the other ways out of the table. A
viewer is authenticated, reserves, enters the room, upgrades, attaches to the
room and then to the session; every failing exit reaches `Release`.

**WebRadarService.** `lpc` is where the owner is inside `start` or `stop`, `ppc`
where the data thread is inside `publish`, `cpc[c]` where CivetWeb's worker is
with the connection object `c`, and `writer[c]` the viewer's writer thread. The
connection object is used again for later clients, as the library does. The
latest snapshot survives a stop, as in the code.

**PublicRelayProducer.** `wpc` is the worker: connecting, waiting, sending, sent,
failing, backing off, exited. `pendingGeneration` and `sentGeneration` are the
code's counters; `delivered` records what the relay accepted. `connect()` and
the send have a free outcome; a keepalive that fails is one way to fail.

**PublicRelayRuntime.** `sync()` is a sequence of steps of the main thread, `rpc`
tells which: retire the old producer, hand it to a reaper thread (or, if that
thread cannot be created, to the abandoned slot), see that the worker has ended,
create and install the next. The data thread copies the producer, reads its
status and offers a snapshot in separate steps.

**RadarRecording.** The data thread samples and, in a rhythm of its own,
publishes; a sample may fail and then leaves the snapshot as it was. The writer
takes the pending frame, writes it or fails, stops at the size limit. A tick is
a unit of the two throttles.

**OverlayProgram.** The main thread's frame is `DrawMenu` (any change of the
options), the sync of the server (`SyncWebSame`, `SyncWebChanged`,
`InstallService`) and the sync of the relay, which are the steps of
`PublicRelayRuntime`. The data thread samples or clears (`GoInactive`), then gives
the snapshot to the server (`PickService`, `Deliver`), the relay and the recorder,
each step without what the others hold. A token is named by the period of the
server it was made for. The lives of the game are a set of snapshots; a
disconnected one stands for the blank frame.

**RadarSampling.** The game is not modelled: every read of a pass may answer
anything. `pc` follows `updateEntities`; a step is a group of reads that are used
together. What is compared with the code's memory is a history of what was last
read: `fresh`, `seen` and `looked` are forgotten when the reads tell another
map, life, player or session. Clocks are ages cut off at the maximum age.

**OverlayRenderer.** `phase` is the round of `main()`, `at` the place in a frame.
Any frame may lose the device; recovery may fail before or after it has made a
renderer. The cache of images is the sequence `entries`, oldest first, each live,
dead (its renderer is gone), failed or due to be tried again.

**ViewportDetection.** The main thread alternates `Place` and `Detect`; the worker
takes the request slot, detects without the lock and fills the result slot.
`geometry` is the window as it was placed, `canvas` its size as SDL told it when
it was last asked, and `sdl` what SDL would tell now: `Place` does what
`updateWindowPosition` does about the three, `updateRenderDimensions` included. Of a
generation only whether it is the current one is kept. The picture on the screen
is one of a set of views; a failed capture counts as one without bars, and a
detection of where the window no longer is may find anything.

**OverlayHotkeys.** `turn` is the main thread's place in a frame. A key is down,
and *latched* if it was pressed since any program last asked; `recent` and
`unreleased` are histories. Which window is in front is read anew by each
handler and may be any. `PollToggle` shows or hides the menu and `Gate` sets
`inputAllowed` after it, so that the data thread may look between the two; what
is promised is its check, after which it acts within its pass. The order in
which several keys are asked for is left open, and a binding is one key.

**RelayPage.** `access` is the state of `useRelaySession`; the request of its probe
and that of a login or logout are out until their answer is handled. Rendering
is a step of its own (`Render`): the stream of a session that has ended is still
there for a moment, and its events arrive. A refusal of the stream calls
`invalidate` in the same handler.

**RadarStream.** Every WebSocket the hook ever made is an object with its own
`readyState` and its own session probe, so that those it has given up go on to
open, close and answer. `current` is the socket whose attempt number is the
latest; the code's comparison of numbers is `IsOld`. Network events wait in a
queue because `navigator.onLine` changes before its event is handled.

## 3. The runs

| run | instance | asks |
|---|---|---|
| room_handover | 2 producers, 2 viewers, 1 frame, clock stopped, symmetric | can claims, places or connections be lost or doubled in a handover, a failed handshake or a shutdown; is a frame missed |
| room_delivery | 1 producer, 1 viewer, 2 frames, 2 ticks | order and age of what is written; mailbox refinement; do shutdown, publication and delivery come to an end |
| sessions | 2 logins, 2 viewers, table of one, one viewer per session, expiry after one tick | the login properties, with replacement, expiry and shutdown |
| service | 2 connections, limit one, 2 snapshots, any number of starts and stops | the server's lifecycle and its viewers |
| producer | 3 snapshots, 2 ticks, age limit one | delivery, status and liveness of the worker |
| program | 2 connections, 1 address, 2 choices of options, 3 changes, a game of two sides | retirement and replacement, blank frames, options, tokens, in the program as a whole |
| sampling | 1 player, 2 pawns, 2 accounts, 2 maps, 2 positions, a maximum age of one, sessions that end with two failures, symmetric | what is kept over passes |
| overlay_parts | renderer: 3 images, a cache of 2; viewport: 2 rectangles, 2 views; recorder: 3 samples, 2 recordings, files of 2 frames | images, renderer and backends over lost devices and rounds; the worker, the slots, a moving window; the recorder and its file |
| hotkeys | 4 keys and Escape, 3 targets, two keys down and two not yet asked for, symmetric | does a key do what it is bound to, once |
| page | 3 sockets, 2 queued network events | the page's login and connection |
| recording_replay | 3 samples, one recording | does a recording go on with every frame, as the page asks (expected to fail) |
| renderer_last_frame | 1 image, a cache of 1 | does every frame find ImGui's backends attached (expected to fail) |

The last two state what the page or ImGui asks of this code and what the code does
not keep; TLC's counterexamples are told in 6. Each is the strict form of a property
that a passing run checks and the proofs cover as far as it holds:
`RecordedInOrder` and `FramesAreReady`.

The three parts of `overlay_parts` share no variable and none waits for another, so
whatever one does in a behaviour of all three it also does in one of its own. The
run therefore lets a single part move in each behaviour (`part`); its states are the
sum of those of the three and not the product.

Why the bounds are enough for the question. Two requests are what a handover, a
race for the last place and a replacement need; a third repeats the role of one
of the two, which is why the requests are symmetric. In `room_delivery` a frame
may be captured, published over and expire, which takes two frames and two
ticks; the other viewer would take no part in the order of this viewer's frames.
A table of one makes every second login meet the full table. Three snapshots let
one be delivered, one be in flight and one replace it. Three changes of settings
let the user change back while a retirement is under way. One player is enough in
`sampling`: players meet only in the observer target and the bomb, and a slot
that is given to another player is the same player with another pawn or account.
Two failures end a session there instead of three: one that does not end it and
one that does are all the code tells apart. A cache of two images is full while
the third is wanted. Two rectangles let the window come back to where it was,
which only the generation tells from a window that never moved, and let SDL tell
the other size. Three targets are
one of each kind (the menu, the exit, a held key), the fourth key is the free one
a binding may take, and two keys down are what a conflict, or a cancelled
binding with another key held, needs. Three sockets let two
that were given up live beside the current one: an attempt that finds no free
object waits, so the state space is that of pages with at most three sockets
alive. `MaxTime` and `MaxFrame` end the runs; where liveness is checked the
properties ask only for what can happen within them, and the clock of
`RelaySessions` reaches every expiry.

`program` takes the place of a run of `PublicRelayRuntime` alone and asks the same
of it, and `page` does so for `RadarStream`: the free environment of the parts is
replaced by the code that drives them. The proofs are about the parts for any
environment.

Deadlock is checked in `room_handover`, `sessions`, `service`, `sampling` and
`page`. It is switched off where the bounded or the real program stops: in
`room_delivery`, `recording_replay` and the recorder of `overlay_parts` everything
allowed has happened, in `producer` a send may never return, in `program`,
`renderer_last_frame`, `hotkeys` and the renderer of `overlay_parts` the program has
ended.

Every property of a passing run is violated when one definition is replaced by a
plausible faulty form of it; `PROJECT.json` names the pairs ("mutants") and the
faulty forms stand beside the definitions, named `Definition_Fault`.

## 4. Fairness

A thread or goroutine that is not blocked keeps running (weak fairness of its
steps), and timers fire. What the outside decides has none: requests, messages,
logouts, changes of settings, peers that stop, the moment of a shutdown. In
particular:

- `RelayRoom`: a read returns only when the connection is closed; a write ends
  by its deadline, which the clock reaches. The server's own read deadlines are
  not relied upon, here or in `RelaySessions`.
- `RelaySessions`: the clock advances and the expiry timer of a stream fires.
- `WebRadarService`: a write is bounded by `websocket_timeout_ms`; a worker
  notices the close flag and the library's stop flag. Nobody has to call stop.
- `PublicRelayProducer`: connecting is bounded by WinHTTP's timeouts; a send is
  not, so it has no fairness and the properties except it.
- `PublicRelayRuntime` is run inside `OverlayProgram`. Nothing is asked of a
  producer's worker, as in `PublicRelayProducer`: the worker alone owns its WinHTTP
  handles, no stop closes them, and a send has no cancellation deadline
  (`public_relay_producer.cpp:250-254`). So a retirement may stay pending for ever.
  `SettingsTakeEffect` (a part of `ChoicesTakeEffect`) asks for the connection of the
  last settings only if again and again no stopped worker is still at work
  (`Hangs`); that switching off takes effect it asks without that. A reaper whose
  worker has ended goes on, and creating a producer has strong fairness: memory is
  not exhausted for ever.
- `OverlayProgram`: frames and iterations of the data thread keep coming while a
  session lasts, and the radar's time comes again and again; a game need not
  last, nor must the user do anything.
- `RadarRecording`: the writer runs and `sync()` is called in each frame.
- `OverlayRenderer`: frames go on, the window is visible again and again (the code
  draws nothing while it is not), and the time to try an image again comes.
- `ViewportDetection`: frames go on while the game is attached, one asks for a
  detection every two seconds, a `destroy()` that has begun goes on, and the
  worker is scheduled. That `Place` is fair presumes a visible window, as a hidden
  one is not placed (`sdl_renderer.cpp:1465-1470`). The window, its size as SDL tells
  it, the picture and the capture owe nothing: the property asks only for what
  happens when they rest and SDL's size is the window's.
- `RelayPage`: the browser as in `RadarStream`, React renders, the timer of the
  session fires. Answers of the relay may never come. The fairness
  `RadarStream` asks of its host, that a refused stream is unmounted, is not
  assumed here but checked (`HostIsFair`).
- `RadarStream`: the browser delivers what is due. The peer owes nothing. The
  time limit of a session probe ends when the headers of the answer have come
  (`web-radar/src/lib/session.ts:56-63`); a body that never ends is excepted as
  `Stalled` in `Retries`.

## 5. Proofs

The theorems hold for every value of the constants that satisfies the `ASSUME`
of the module (finite sets where cardinalities occur, natural numbers, special
values outside the sets; in `RadarSampling` also that "no sample" is not a
sample, which TLC's model values satisfy). Each follows the same way: an invariant
that is inductive, the three facts about it, temporal logic at the end.

| module | inductive invariant | theorems |
|---|---|---|
| `RelayRoomProofs` | one strengthening per question, on top of `TypeOK`: `ClaimInv` (a claiming handler holds the current generation: without it a late release could free the successor's claim), `MailInv` (what was sent is older than what was taken), seats, freshness, missed frames, closing | `TypeCorrect`, `ClaimIsExclusive`, `SeatsAreExact`, `NewestFrameKept`, `DeliveryIncreases`, `MailboxImplementsSlot`, `WritesAreFresh`, `NoFrameIsMissed`, `CloseMissesNone`; together `ClaimsAreExact`, `WritesAreRight` |
| `RelaySessionsProofs` | `TypeOK`; the exact reservations; who is owed a revocation, and who is listed for closing | `TypeCorrect`, `QuotasAreExact`, `NoneForgotten`, `StreamsAreCut`, `RefusalIsFree`; together `SessionsAreAccounted` |
| the same, for `ViewerMailbox` | what the offerer that holds the lock has done so far | `OfferIsAtomic` (refinement), `NothingLost` |
| `WebRadarServiceProofs` | `Lifecycle`, `Owned` (a writer exists exactly while somebody will join it), `Frames`, `AllTold` (a viewer that lacks the newest frame is about to be told by one of two threads) | `TypeCorrect`, `LimitHolds`, `StopIsComplete`, `ViewersAreServed`, `WriterNeverOutlives`, `ViewersMoveForward`; together `NothingLeftBehind`, `ViewersGetNewest` |
| `PublicRelayProducerProofs` | `Life` (lifecycle against worker and status), `Frames` (the snapshot in flight against the pending one) | `TypeCorrect`, `SentWasDelivered`, `StatusTells`, `TokenIsWhole`, `DeliveriesIncrease`, `RetiringStays`; together `DeliveryExact` |
| `OverlayProgramProofs`, for `PublicRelayRuntime` | `Holders` (who holds which producer in which step of sync), `Current` (who may still take snapshots) | `TypeCorrect`, `ConnectsOnce`, `WorkersAreHeld`, `WorkersAreAccounted`, `OldTakesNothing`, `FailureLasts` |
| the same, for `OverlayProgram` | on top of the runtime's: types, `Synced` (server and settings agree between frames), `Linked` (the token belongs to the period), `Blanked` (what the current server was last given), `SharedAsAsked` | `ProgramImplementsRuntime` (refinement), `ProgramAccountsWorkers`, `ProgramLeavesTheOld`, `ViewersSeeNoLostGame`, `PayloadsAreOwn`, `LinksDie` |
| `RadarSnapshotProofs`, for `RadarSampling` | `SamplesKept` (each kept sample is what was last read of that player in this game), `PositionsKept` (a kept position is no older than its clock says), `SightKept` and `WorldKept` (the same of the observer's target and the bomb), `MarksKept` (the mark of a hidden player in the last snapshot is the position kept), `CacheNamed`, `PassInOrder`; without them a snapshot's truth says nothing of what the next pass will carry over | `SnapshotStaysTrue`, `FrozenMarksStay` |
| the same, for `RadarRecording` | `Lifecycle` (where owner and writer can be at the same time), `Counted` (the status lags by the frame in hand), `NothingSkipped`, `Ordered` (file, hand, pending frame and snapshot follow each other) | `RecorderStaysHonest` |
| `OverlayWindowProofs`, for `ViewportDetection` | `Working` (a busy worker has a job), `Agreement` (what is pending is the last detection taken) | `ViewportStaysInWindow`, `ViewportNeedsTwo` |
| the same, for `OverlayRenderer` | `Equipped` (what a frame draws with exists), `Living` (the cached images alive are those of the present renderer) | `TexturesAreAccounted`, `RendererStaysWhole` |
| the same, for `OverlayHotkeys` | `Closed` (`inputAllowed` only with the menu hidden or about to open), `Sleeping` (a key not let go since it was bound keeps the hotkeys asleep), `Awake` (what a poll takes for a press was pressed since the last one: each poll of awake hotkeys takes every latch it asks for) | `KeysStayMeant` |
| `RadarStreamProofs` | `Links` (socket, attempt number, watchdog and probe belong together), `Waits` (what each status waits for), `WillStale`, `Queue` (the queue of events ends in the present state of the network) | `TypeCorrect`, `StreamIsSingle`, `NobodyIsStranded`, `PageConnectsOnce`, `PageTellsTheTruth`, `OldEventsIgnored` |
| `RadarStreamProofs`, for `RelayPage` | `EntryInv` (which request can be out in which access state, and when the stream can be mounted), with the invariant of the stream: only a mounted stream tells of a refusal | `PageImplementsStream` (refinement), `PageDecidesOnce`, `SessionEndsForAReason` |

`PublicRelayProducer.NoAttemptWithoutToken` and `PublicRelayRuntime.FailureIsFinal`
are proved and are no property of a run. Type invariants are part of the inductive
invariants; where a theorem states one it is not run again.

Every safety property of every passing run, invariant or action property, is stated by a
theorem; where a run's property is a conjunction (`ClaimsExact`, `NothingOutlives`,
`KeysAreMeant`, ...) a last theorem puts together those about its parts.

The two compositions inherit what is proved of their parts: `OverlayProgram`
implements `PublicRelayRuntime` and `RelayPage` implements `RadarStream`, under the
identity mapping of the part's variables.

Only model-checked: the liveness properties, since fairness and ENABLED are beyond
the prover. They are `RoomProgress`, `StreamsEnd`, `ServiceProgress`,
`WorkerProgress`, `ChoicesTakeEffect`, `StopEnds`, `MapComesBack`,
`DetectionServes`, `KeepsTrying` and `AccessFollows`.

## 6. Disagreements noticed

Between the code and what its documents, its comments or other parts of the
repository say. The models follow the code; two have a run that TLC finds
violated, named in front, the others were only met while reading.

- A server shutdown closes streams with 1001 (`server.go:145`); the design document
  says 4401 (`docs/public-radar-relay-design.md:144-146`). A page that receives
  1001 reconnects rather than asks for a login.
- **recording_replay**: capture and publication have throttles of their own, and a
  failed sample leaves the old snapshot to be published again (`main.cpp:1019`), so
  that a recording may hold a sequence number twice. The page's loader refuses
  such a file (`web-radar/src/lib/replay.ts:18-19`), though `README_EN.md:79` promises
  that recordings load. What holds is that a file never goes back.
- `probeRelaySession` throws for an HTTP 403 (`lib/session.ts:119`), which the hook
  treats as a failure of the network and reconnects for ever
  (`useRadarStream.ts:265-268`); the page's README makes it a login prompt
  (`web-radar/README.md:26`).
- `viewerCount_` is refreshed only by `sync()`, which is not called while the overlay
  is hidden: a viewer that joins then gets the idle rate, not the 10 Hz of
  `features/web_radar/README.md:18-20`.
- A team policy filters the players of a payload, but not the identities in
  `observedPlayerId` and in the bomb's `carrierPlayerId`.
- **renderer_last_frame**: a recovery in `pollEvents` that fails half-way clears
  `running`, but `main.cpp:1053-1065` goes on to draw the frame; its `beginFrame`
  may recover the renderer with `restoreImGui` false (`sdl_renderer.cpp:1316`) and
  then starts ImGui's frame without backend data. What holds is that this
  frame is the last.
- Nothing ends a key binding when the game is lost: `isBindingKey` stays set
  (`menu.hpp:830`), the waiting screen's poll suppresses the hotkeys
  (`sdl_renderer.cpp:1374`) and draws no menu that could end it, so that its
  "Press F9 to exit" (`main.cpp:124`, `README_EN.md:53`) does nothing. The text names
  F9 whatever the exit key is. `OverlayHotkeys` keeps the binding over `LeaveSession`.
- `bombInfo` and the dropped bomb are not tied to the map, although
  the comment at `esp.cpp:1242` calls world coordinates local to a map: while its
  reads fail (`esp.cpp:966`), a bomb of the last map is still published. What
  `RadarSampling` promises of the bomb, and what is proved, is that it is of this
  session.

## 7. What is not modelled, and limits of the models

- Rate limits (`limiter.go`): one function under one mutex, whose answer depends
  on elapsed time alone. `RelaySessions` lets any login be refused and
  `RelayRoom` any frame be dropped.
- Drawing, geometry, and aim assistance beyond the gate of its keys: floating-point arithmetic over the samples
  of one frame. The generated offsets (`client_dll.hpp`, a third of the
  implementation's lines) are constants without behaviour.
- The menu but for the settings of the radar and the binding of keys, memory
  access, configuration parsing, metrics, static files, replay in the page,
  deployment scripts: pure functions, or calls into the system without a protocol
  of their own. Third-party code is modelled from the calls made to it.
- `RadarJson` has what a payload tells of players under each option; text, numbers
  and the bomb's fields are left out.
- `RadarSampling`: yaw follows the rules of the position and is left out, and so are
  health, weapons, money and the lists made for the overlay alone. The history
  counts a player as gone when the code could not have read it for the maximum age.
- `OverlayRenderer` and `ViewportDetection` leave out window styles, monitors and the
  arithmetic of the bars. A call that finds the window hidden or on two
  monitors returns early and changes nothing there.
- `RelayPage`: delays and the texts of errors are left out; a request that was
  replaced is aborted and its answer not handled, as the code's check of its
  signal does.
- `RelayRoom` and `RelaySessions` are two views of `handleViewer`: frames are in
  one, logins in the other. A viewer's session may end at any time in the
  first; the second leaves out frames and has one free outcome for entering
  the room.
- `WebRadarService`: an insertion into `viewers_` that throws for want of memory
  (`web_radar_service.cpp:672,681`) is left out.
- `WebRadarService`: `WriterOutlivedByConnection` excepts the one viewer whose
  writer `stop()` has erased and joins; there the code relies on CivetWeb
  keeping its `mg_connection` valid until `mg_stop`. That `publish` does not
  wait for a write is visible in the model, since the writer holds no mutex
  while it writes, and is not a property.
- `OverlayProgram` has the embedded server and the producer as they look from
  outside; their insides are `WebRadarService` and `PublicRelayProducer`.
- `PublicRelayProducer` does not implement `LatestSlot`: after a failed
  send it offers the same snapshot again.
- `RadarRecording`: all frames have one size, and the overlay keeps sampling on;
  with the web consumers alone the sampling follows other conditions.
- `RadarStream`: delays are left out but for the age of the last frame;
  attempt numbers are abstracted to `current`; messages other than snapshots
  change only an error line and are left out.

## 8. Plan

Written in this order, the most important behaviour first: `LatestSlot`,
`RelayRoom`, `RelaySessions`, `ViewerMailbox`, `WebRadarService`,
`PublicRelayProducer`, `PublicRelayRuntime`, `RadarRecording`, `RadarStream` with
their proofs; then `RadarJson`, `OverlayProgram` and its proofs, `RadarSampling`,
`OverlayRenderer`, `ViewportDetection`, and `RelayPage` with its proofs; then the
proofs about sampling, recorder, viewport and renderer, and `OverlayHotkeys` with
its proofs.

Left, in this order:

1. The mailbox of the embedded `Viewer` shown to implement `LatestSlot`, as the
   relay's does.
2. End to end: producer, room and page as three stages of order-preserving
   slots, so that a page never shows an older snapshot after a newer one within
   one connection.
3. The limits of `limiter.go`: whether pruning an idle entry can give away a burst
   (with the defaults the bucket is full by then, with other settings it need
   not be), and whether the number of entries is bounded.
