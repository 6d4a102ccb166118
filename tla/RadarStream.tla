---------------------------- MODULE RadarStream ----------------------------
(***************************************************************************)
(* The useRadarStream hook of the web radar: it keeps one WebSocket to the  *)
(* relay or the embedded server and replaces it when it fails.  Everything  *)
(* runs on the page's event loop, so a step is one event handler; the hard  *)
(* part is that events of sockets, timers and session probes the hook has   *)
(* given up still arrive.                                                   *)
(*                                                                          *)
(* The hook numbers its attempts (generation) and every handler compares    *)
(* the number it was made with; the model keeps the socket whose number is  *)
(* still the latest (current), so a bump of the number sets it to None.  A  *)
(* cleanup bumps it too, so that handlers of a disposed effect are old as   *)
(* well.  Delays and clocks are left out but for the age of the last frame. *)
(***************************************************************************)
EXTENDS Naturals, Sequences, FiniteSets

CONSTANTS
    Sockets,    \* bound of the model: WebSocket objects that exist at once
    None,
    MaxEvents   \* bound of the model: network events that wait at once

ASSUME StreamAssumption == None \notin Sockets /\ MaxEvents \in Nat

VARIABLES
    mode, mounted,
    status, retryIn, stale,     \* what the page shows
    attempt,        \* attemptRef: 0, or 1 for every larger count
    current, socket,
    reconnectTimer, watchdog, staleTimer,   \* timers that are armed
    age,            \* of lastReceivedAtRef: "none", "fresh", 3 s "stale", 10 s "silent"
    ready,          \* readyState of each socket; an unused one is closed
    probes,         \* session probe after each socket's close
    online, netEvents   \* navigator.onLine and the events not yet handled

page == <<status, retryIn>>
staleness == <<stale, staleTimer, age>>
control == <<page, attempt, current, socket, reconnectTimer, watchdog>>
browser == <<ready, probes>>
network == <<online, netEvents>>
host == <<mode, mounted>>
vars == <<host, control, staleness, browser, network>>

TypeOK ==
    /\ mode \in {"relay", "embedded"} /\ mounted \in BOOLEAN
    /\ status \in {"connecting", "connected", "reconnecting", "offline", "disconnected"}
    /\ retryIn \in BOOLEAN /\ stale \in BOOLEAN /\ attempt \in {0, 1}
    /\ current \in Sockets \cup {None} /\ socket \in Sockets \cup {None}
    /\ reconnectTimer \in BOOLEAN /\ staleTimer \in BOOLEAN
    /\ watchdog \in Sockets \cup {None}
    /\ age \in {"none", "fresh", "stale", "silent"}
    /\ ready \in [Sockets -> {"closed", "connecting", "open", "closing"}]
    /\ probes \in [Sockets -> {"none", "asked", "body", "aborted"}]
    /\ online \in BOOLEAN /\ netEvents \in Seq({"online", "offline"})

(* The page is loaded and the hook not yet mounted. *)
Init ==
    /\ mode \in {"relay", "embedded"} /\ mounted = FALSE
    /\ status = "connecting" /\ retryIn = FALSE /\ attempt = 0
    /\ stale = TRUE /\ staleTimer = FALSE /\ age = "none"
    /\ current = None /\ socket = None
    /\ reconnectTimer = FALSE /\ watchdog = None
    /\ ready = [c \in Sockets |-> "closed"] /\ probes = [c \in Sockets |-> "none"]
    /\ online \in BOOLEAN /\ netEvents = <<>>
-----------------------------------------------------------------------------
(* closeSocket: an engine may refuse to close a socket that is connecting.  *)
CloseStates(s) ==
    CASE s = "connecting" -> {"connecting", "closing"}
      [] s = "open" -> {"closing"}
      [] OTHER -> {s}

AfterClose(c) ==
    IF c = None THEN {ready}
    ELSE {[ready EXCEPT ![c] = s] : s \in CloseStates(ready[c])}

Aborted(p) == [c \in Sockets |-> IF p[c] = "none" THEN "none" ELSE "aborted"]

RefreshStaleness_NotArmed ==
    /\ stale' = (age # "fresh") /\ staleTimer' = FALSE
    /\ UNCHANGED age
RefreshStaleness ==
    /\ stale' = (age # "fresh") /\ staleTimer' = (age = "fresh")
    /\ UNCHANGED age

(* Of the handlers below only markOffline refreshes the staleness. *)
StalenessFollows ==
    IF status' = "offline" THEN RefreshStaleness ELSE UNCHANGED staleness

(* markOffline, with the states its socket may be left in. *)
MarkOffline(states, probing) ==
    /\ ready' \in states /\ probes' = Aborted(probing)
    /\ current' = None /\ socket' = None
    /\ reconnectTimer' = FALSE /\ retryIn' = FALSE /\ watchdog' = None
    /\ status' = "offline" /\ UNCHANGED attempt

(* scheduleReconnect; no handler asks for an immediate one. *)
ScheduleReconnect(states, latest, probing) ==
    IF online
    THEN /\ ready' \in states /\ probes' = probing
         /\ current' = latest /\ socket' = None
         /\ reconnectTimer' = TRUE /\ retryIn' = TRUE /\ watchdog' = None
         /\ status' = "reconnecting" /\ attempt' = 1
    ELSE MarkOffline(states, probing)

WatchdogOf_Unset(c) == None
WatchdogOf(c) == c

(* new WebSocket, with the generation of this attempt. *)
Dial(states, count) ==
    \E r \in states : \E c \in Sockets :
        /\ r[c] = "closed" /\ probes[c] = "none"
        /\ ready' = [r EXCEPT ![c] = "connecting"] /\ probes' = Aborted(probes)
        /\ current' = c /\ socket' = c /\ watchdog' = WatchdogOf(c)
        /\ reconnectTimer' = FALSE /\ retryIn' = FALSE /\ attempt' = count
        /\ status' = IF count = 0 THEN "connecting" ELSE "reconnecting"

(* connect; the WebSocket constructor may throw. *)
Connect(states, count) ==
    IF online
    THEN Dial(states, count) \/ ScheduleReconnect(states, None, Aborted(probes))
    ELSE MarkOffline(states, probes)

(* restartNow *)
Restart == Connect(AfterClose(socket), 0)

(* rejectSession; onSessionRejected asks the host to unmount the hook. *)
RejectSession(answered) ==
    /\ status' = "disconnected" /\ retryIn' = FALSE /\ watchdog' = None
    /\ ready' = answered
    /\ UNCHANGED <<attempt, current, reconnectTimer>>
-----------------------------------------------------------------------------
(* Events of a socket *)

Opens_Unchecked(c) ==
    /\ ready[c] = "connecting"
    /\ ready' = [ready EXCEPT ![c] = "open"]
    /\ status' = "connected" /\ retryIn' = FALSE /\ watchdog' = None
    /\ UNCHANGED <<host, attempt, current, socket, reconnectTimer, staleness,
                   probes, network>>
Opens(c) ==
    /\ ready[c] = "connecting"
    /\ IF current = c
       THEN /\ ready' = [ready EXCEPT ![c] = "open"]
            /\ status' = "connected" /\ retryIn' = FALSE /\ watchdog' = None
            /\ UNCHANGED <<attempt, current, socket, reconnectTimer>>
       ELSE /\ ready' = [ready EXCEPT ![c] = "closing"]     \* closes itself
            /\ UNCHANGED control
    /\ UNCHANGED <<host, staleness, probes, network>>

PeerCloses(c) ==
    /\ ready[c] = "open"
    /\ ready' = [ready EXCEPT ![c] = "closing"]
    /\ UNCHANGED <<host, control, staleness, probes, network>>

(* A snapshot; other messages change only the error line of the page.       *)
Message(c) ==
    /\ ready[c] = "open" /\ current = c
    /\ age' = "fresh" /\ stale' = FALSE /\ staleTimer' = TRUE
    /\ attempt' = 0
    /\ UNCHANGED <<host, page, current, socket, reconnectTimer, watchdog,
                   browser, network>>

CloseCodes(c) == IF ready[c] = "connecting" THEN {1006} ELSE {1000, 1006, 4401}

IsOld_Never(c) == FALSE
IsOld(c) == current # c

StartProbe_KeepsSocket(c, states) ==
    /\ status' = "reconnecting" /\ watchdog' = None /\ UNCHANGED socket
    /\ ready' = states /\ probes' = [probes EXCEPT ![c] = "asked"]
    /\ UNCHANGED <<retryIn, attempt, current, reconnectTimer>>
StartProbe(c, states) ==
    /\ status' = "reconnecting" /\ watchdog' = None /\ socket' = None
    /\ ready' = states /\ probes' = [probes EXCEPT ![c] = "asked"]
    /\ UNCHANGED <<retryIn, attempt, current, reconnectTimer>>

(* The relay's 4401 ends the session; 1006 may hide the HTTP status of a    *)
(* refused upgrade, which the probe asks for.                               *)
Closes(c, code) ==
    /\ ready[c] # "closed" /\ code \in CloseCodes(c)
    /\ LET after == [ready EXCEPT ![c] = "closed"] IN
       IF IsOld(c)
       THEN ready' = after /\ UNCHANGED <<control, staleness, probes>>
       ELSE /\ \/ /\ mode = "relay" /\ code = 4401
                  /\ RejectSession(after) /\ socket' = None /\ UNCHANGED probes
               \/ /\ mode = "relay" /\ code = 1006 /\ online
                  /\ StartProbe(c, after)
               \/ /\ ~(mode = "relay" /\ code = 4401)
                  /\ ~(mode = "relay" /\ code = 1006 /\ online)
                  /\ ScheduleReconnect({after}, c, probes)
            /\ StalenessFollows
    /\ UNCHANGED <<host, network>>
-----------------------------------------------------------------------------
(* probeRelaySession: its time limit covers the answer's headers, not the   *)
(* reading of the body.                                                     *)

ProbeAnswered(c) ==
    /\ probes[c] = "asked" /\ probes' = [probes EXCEPT ![c] = "body"]
    /\ UNCHANGED <<host, control, staleness, ready, network>>

Answers(c) ==
    CASE probes[c] = "asked" -> {"401", "403", "404", "failed"}
      [] probes[c] = "body" -> {"session", "failed"}
      [] OTHER -> {"failed"}

ProbeEnds(c, answer) ==
    /\ probes[c] # "none" /\ answer \in Answers(c)
    /\ LET left == [probes EXCEPT ![c] = "none"] IN
       IF IsOld(c)
       THEN probes' = left /\ UNCHANGED <<control, staleness, ready>>
       ELSE /\ \/ /\ answer \in {"401", "404"}
                  /\ RejectSession(ready) /\ probes' = left /\ UNCHANGED socket
               \/ /\ answer \notin {"401", "404"}
                  /\ ScheduleReconnect({ready}, c, left)
            /\ StalenessFollows
    /\ UNCHANGED <<host, network>>
-----------------------------------------------------------------------------
(* Timers *)

ReconnectFires ==
    /\ reconnectTimer
    /\ Connect({ready}, attempt) /\ StalenessFollows
    /\ UNCHANGED <<host, network>>

WatchdogFires ==
    /\ watchdog # None
    /\ IF IsOld(watchdog) \/ ready[watchdog] # "connecting"
       THEN /\ watchdog' = None
            /\ UNCHANGED <<page, attempt, current, socket, reconnectTimer, staleness, browser>>
       ELSE ScheduleReconnect(AfterClose(watchdog), None, probes) /\ StalenessFollows
    /\ UNCHANGED <<host, network>>

StaleFires ==
    /\ staleTimer /\ age # "fresh"
    /\ stale' = TRUE /\ staleTimer' = FALSE
    /\ UNCHANGED <<host, control, age, browser, network>>

FrameAges ==
    /\ \/ age = "fresh" /\ age' = "stale"
       \/ age = "stale" /\ age' = "silent"
    /\ UNCHANGED <<host, control, stale, staleTimer, browser, network>>
-----------------------------------------------------------------------------
(* Events of the page *)

NetChanges ==
    /\ Len(netEvents) < MaxEvents
    /\ online' = ~online
    /\ netEvents' = Append(netEvents, IF online THEN "offline" ELSE "online")
    /\ UNCHANGED <<host, control, staleness, browser>>

NetEvent ==
    /\ netEvents # <<>> /\ netEvents' = Tail(netEvents)
    /\ IF ~mounted THEN UNCHANGED <<control, staleness, browser>>
       ELSE /\ IF Head(netEvents) = "online"
               THEN Restart
               ELSE MarkOffline(AfterClose(socket), probes)
            /\ StalenessFollows
    /\ UNCHANGED <<host, online>>

(* handleResume decides by the age of the connection or of the last frame.  *)
SocketState == IF socket = None THEN "closed" ELSE ready[socket]

Resume ==
    /\ mounted
    /\ \/ /\ \/ ~online \/ SocketState \in {"closed", "closing", "connecting"}
             \/ SocketState = "open" /\ age = "silent"
          /\ Restart
       \/ /\ online
          /\ \/ SocketState = "connecting"
             \/ SocketState = "open" /\ age # "silent"
          /\ UNCHANGED <<control, browser>>
    /\ RefreshStaleness
    /\ UNCHANGED <<host, network>>

(* retry: the effect is cleaned up and run again.  (Offline, the count of   *)
(* attempts is kept here; whatever ends the offline state resets it.)       *)
Retry ==
    /\ mounted /\ Restart /\ RefreshStaleness
    /\ UNCHANGED <<host, network>>

Mount ==
    /\ ~mounted /\ mounted' = TRUE
    /\ Connect({ready}, 0)
    /\ UNCHANGED <<mode, staleness, network>>

(* The cleanup of the effect; the state of the component is gone. *)
Unmount ==
    /\ mounted /\ mounted' = FALSE
    /\ ready' \in AfterClose(socket) /\ probes' = Aborted(probes)
    /\ current' = None /\ socket' = None
    /\ reconnectTimer' = FALSE /\ watchdog' = None
    /\ status' = "connecting" /\ retryIn' = FALSE /\ attempt' = 0
    /\ stale' = TRUE /\ staleTimer' = FALSE /\ age' = "none"
    /\ UNCHANGED <<mode, network>>
-----------------------------------------------------------------------------
SocketEvent(c) ==
    \/ Opens(c) \/ PeerCloses(c) \/ Message(c)
    \/ \E code \in {1000, 1006, 4401} : Closes(c, code)
    \/ ProbeAnswered(c)
    \/ \E answer \in {"401", "403", "404", "failed", "session"} : ProbeEnds(c, answer)

Next ==
    \/ \E c \in Sockets : SocketEvent(c)
    \/ ReconnectFires \/ WatchdogFires \/ StaleFires \/ FrameAges
    \/ NetChanges \/ NetEvent \/ Resume \/ Retry \/ Mount \/ Unmount

Spec == Init /\ [][Next]_vars

(* The browser delivers what is due: timers, queued events, the close of a  *)
(* socket that is closing, the end of an aborted or timed-out request and   *)
(* of a handshake nobody waits for.  The peer owes nothing, and the body of *)
(* a probe's answer may never come.  The host unmounts a rejected hook.     *)
HandshakeEnds(c) == current # c /\ ready[c] = "connecting" /\ (Opens(c) \/ Closes(c, 1006))

BrowserFairness ==
    /\ WF_vars(ReconnectFires) /\ WF_vars(WatchdogFires) /\ WF_vars(StaleFires)
    /\ WF_vars(NetEvent)
    /\ \A c \in Sockets :
        /\ WF_vars(ready[c] = "closing" /\ \E code \in {1000, 1006, 4401} : Closes(c, code))
        /\ WF_vars(HandshakeEnds(c))
        /\ WF_vars(/\ probes[c] = "asked"
                   /\ ProbeAnswered(c) \/ \E answer \in Answers(c) : ProbeEnds(c, answer))
        /\ WF_vars(probes[c] = "aborted" /\ ProbeEnds(c, "failed"))

Fairness == BrowserFairness /\ WF_vars(status = "disconnected" /\ Unmount)

FairSpec == Spec /\ Fairness
-----------------------------------------------------------------------------
(* The page has at most one open connection, the one the hook knows: those  *)
(* it gave up while they were connecting close as soon as they open.        *)
OneStream ==
    \A c \in Sockets : ready[c] = "open" => mounted /\ socket = c /\ current = c

(* What the hook waits for: its socket, its timer, or its probe.            *)
Awaited ==
    (IF socket # None THEN {"socket"} ELSE {})
        \cup (IF reconnectTimer THEN {"timer"} ELSE {})
        \cup (IF current # None /\ probes[current] # "none" THEN {"probe"} ELSE {})

(* A page that promises to connect waits for exactly one thing that makes   *)
(* it go on, so it neither hangs nor connects twice; an offline or rejected *)
(* page waits for none of them.                                             *)
NeverStranded ==
    mounted =>
        IF status \in {"connecting", "connected", "reconnecting"}
        THEN /\ Cardinality(Awaited) = 1
             /\ socket # None => ready[socket] # "closed"
             /\ socket # None /\ ready[socket] = "connecting" => watchdog = socket
        ELSE Awaited = {}

(* The page connects once and never waits for nothing.                      *)
ConnectsOnce == OneStream /\ NeverStranded

(* The page shows what is so: a countdown runs exactly while a reconnection *)
(* is due, a frame that is shown as current will be marked stale, connected *)
(* has a socket that was opened, and offline ends when the network is back. *)
PageIsHonest ==
    mounted =>
        /\ retryIn = reconnectTimer
        /\ ~stale => staleTimer
        /\ status = "connected" => socket # None /\ ready[socket] \in {"open", "closing"}
        /\ status = "offline" => ~online \/ "online" \in {netEvents[i] : i \in 1..Len(netEvents)}

(* The end of a socket or of a probe the hook has given up changes nothing: *)
(* it does not reject the session, reconnect or disturb the new connection. *)
OldEventsInert ==
    [][\A c \in Sockets :
         current # c /\ (\/ ready[c] # "closed" /\ ready'[c] = "closed"
                         \/ probes[c] # "none" /\ probes'[c] = "none")
            => UNCHANGED <<control, staleness>>]_vars

(* No attempt hangs, and while the network is up the page tries again,      *)
(* unless the session is over or a probe waits for the body of its answer.  *)
AttemptsEnd ==
    \A c \in Sockets : (socket = c /\ ready[c] = "connecting")
                            ~> (socket # c \/ ready[c] # "connecting")
Trying == socket # None /\ ready[socket] \in {"connecting", "open"}
Stalled == \E c \in Sockets : probes[c] = "body"
Retries ==
    (mounted /\ status \in {"reconnecting", "offline"})
        ~> (Trying \/ Stalled \/ ~mounted \/ ~online \/ status = "disconnected")
KeepsTrying == AttemptsEnd /\ Retries
=============================================================================
