-------------------------- MODULE RadarStreamProofs --------------------------
(***************************************************************************)
(* Proofs about RadarStream, for any number of sockets.  The invariant says *)
(* how the socket, the timers and the probe belong together (Links), what   *)
(* the page waits for in each status (Waits), and that the queue of network *)
(* events ends in the present state of the network (Queue).  The page as a  *)
(* whole implements RadarStream, and adds what its entry decides (EntryInv).*)
(***************************************************************************)
EXTENDS RelayPage, FiniteSetTheorems, TLAPS

Live == {"connecting", "connected", "reconnecting"}
ReadyStates == {"closed", "connecting", "open", "closing"}
ProbeStates == {"none", "asked", "body", "aborted"}
Maybe == Sockets \cup {None}

ControlType ==
    /\ status \in Live \cup {"offline", "disconnected"}
    /\ retryIn \in BOOLEAN /\ attempt \in {0, 1}
    /\ current \in Maybe /\ socket \in Maybe /\ watchdog \in Maybe
    /\ reconnectTimer \in BOOLEAN
    /\ ready \in [Sockets -> ReadyStates] /\ probes \in [Sockets -> ProbeStates]

OtherType ==
    /\ mode \in {"relay", "embedded"} /\ mounted \in BOOLEAN
    /\ stale \in BOOLEAN /\ staleTimer \in BOOLEAN
    /\ age \in {"none", "fresh", "stale", "silent"}
    /\ online \in BOOLEAN /\ netEvents \in Seq({"online", "offline"})

ProbeRuns == current # None /\ probes[current] # "none"

Links ==
    /\ \A c \in Sockets :
        /\ ready[c] = "open" => socket = c
        /\ probes[c] \in {"asked", "body"} => current = c
        /\ current = c => probes[c] # "aborted"
    /\ socket # None => /\ current = socket /\ ready[socket] # "closed"
                        /\ probes[socket] = "none"
                        /\ ready[socket] = "connecting" => watchdog = socket
    /\ watchdog # None => socket = watchdog /\ ready[watchdog] = "connecting"
    /\ reconnectTimer => socket = None /\ ~ProbeRuns
    /\ current # None /\ socket = None => ready[current] = "closed"

Waits ==
    /\ mounted /\ status \in Live => socket # None \/ reconnectTimer \/ ProbeRuns
    /\ (mounted => status \notin Live) =>
          socket = None /\ ~reconnectTimer /\ ~ProbeRuns
    /\ ~mounted => current = None
    /\ mounted => retryIn = reconnectTimer
    /\ mounted /\ status = "connected" =>
          socket # None /\ ready[socket] \in {"open", "closing"}

WillStale == ~stale => staleTimer

Queue ==
    /\ netEvents # <<>> =>
          netEvents[Len(netEvents)] = IF online THEN "online" ELSE "offline"
    /\ mounted /\ status = "offline" /\ online => netEvents # <<>>

IInv == ControlType /\ OtherType /\ Links /\ Waits /\ WillStale /\ Queue
-----------------------------------------------------------------------------
LEMMA TypeParts == TypeOK <=> ControlType /\ OtherType
  BY DEF TypeOK, ControlType, OtherType, Live, ReadyStates, ProbeStates, Maybe

LEMMA InitInv == Init => IInv
<1> SUFFICES ASSUME Init PROVE IInv
  OBVIOUS
<1>1. ControlType
  BY DEF Init, ControlType, Live, ReadyStates, ProbeStates, Maybe
<1>2. OtherType
  <2>1. netEvents \in Seq({"online", "offline"})
    BY DEF Init
  <2>2. online \in BOOLEAN /\ mounted \in BOOLEAN
    BY DEF Init
  <2>3. /\ mode \in {"relay", "embedded"} /\ stale \in BOOLEAN /\ staleTimer \in BOOLEAN
        /\ age \in {"none", "fresh", "stale", "silent"}
    BY DEF Init
  <2> QED BY <2>1, <2>2, <2>3 DEF OtherType
<1>3. Links
  BY DEF Init, Links, ProbeRuns
<1>4. Waits
  BY DEF Init, Waits, ProbeRuns, Live
<1>5. WillStale /\ Queue
  BY DEF Init, WillStale, Queue
<1> QED BY <1>1, <1>2, <1>3, <1>4, <1>5 DEF IInv

(* What a socket may be left in is no open socket.                          *)
NoneOpen(states) ==
    /\ states \subseteq [Sockets -> ReadyStates]
    /\ \A r \in states, c \in Sockets : r[c] # "open"

LEMMA CloseLeavesNoneOpen ==
  ASSUME ControlType, Links PROVE NoneOpen(AfterClose(socket))
<1> SUFFICES ASSUME NEW r \in AfterClose(socket)
             PROVE  r \in [Sockets -> ReadyStates] /\ \A c \in Sockets : r[c] # "open"
  BY DEF NoneOpen
<1>1. CASE socket = None
  BY <1>1, StreamAssumption DEF AfterClose, ControlType, Links
<1>2. CASE socket # None
  <2>1. socket \in Sockets /\ ready[socket] \in ReadyStates
    BY <1>2 DEF ControlType, Maybe
  <2>2. PICK s \in CloseStates(ready[socket]) : r = [ready EXCEPT ![socket] = s]
    BY <1>2 DEF AfterClose
  <2>3. s \in ReadyStates /\ s # "open"
    BY <2>1 DEF CloseStates, ReadyStates
  <2> QED BY <2>1, <2>2, <2>3 DEF ControlType, Links
<1> QED BY <1>1, <1>2

LEMMA OfflineEffect ==
  ASSUME ControlType, NEW S, NoneOpen(S), NEW p \in [Sockets -> ProbeStates],
         MarkOffline(S, p), mounted' \in BOOLEAN
  PROVE  ControlType' /\ Links' /\ Waits'
<1>1. ready' \in [Sockets -> ReadyStates] /\ \A c \in Sockets : ready'[c] # "open"
  BY DEF MarkOffline, NoneOpen
<1>2. probes' \in [Sockets -> {"none", "aborted"}]
  BY DEF MarkOffline, Aborted
<1> QED BY <1>1, <1>2, StreamAssumption DEF MarkOffline, ControlType, Links, Waits, Live,
           Maybe, ProbeStates, ProbeRuns

LEMMA ScheduleEffect ==
  ASSUME ControlType, NEW S, NoneOpen(S), NEW p \in [Sockets -> ProbeStates],
         \A c \in Sockets : p[c] \in {"none", "aborted"},
         NEW latest \in Maybe,
         latest # None => p[latest] = "none" /\ \A r \in S : r[latest] = "closed",
         ScheduleReconnect(S, latest, p), mounted' = TRUE
  PROVE  ControlType' /\ Links' /\ Waits' /\ (status' = "offline" => ~online)
<1>1. CASE ~online
  BY <1>1, OfflineEffect DEF ScheduleReconnect
<1>2. CASE online
  <2>1. ready' \in [Sockets -> ReadyStates] /\ \A c \in Sockets : ready'[c] # "open"
    BY <1>2 DEF ScheduleReconnect, NoneOpen
  <2> QED BY <1>2, <2>1, StreamAssumption DEF ScheduleReconnect, ControlType, Links, Waits,
             Live, Maybe, ProbeStates, ProbeRuns
<1> QED BY <1>1, <1>2

LEMMA ConnectEffect ==
  ASSUME ControlType, NEW S, NoneOpen(S), NEW n \in {0, 1}, Connect(S, n), mounted' = TRUE
  PROVE  ControlType' /\ Links' /\ Waits' /\ (status' = "offline" => ~online)
<1>1. CASE ~online
  BY <1>1, OfflineEffect DEF Connect, ControlType
<1>2. CASE online /\ Dial(S, n)
  <2>1. PICK r \in S, c \in Sockets :
           /\ r[c] = "closed" /\ probes[c] = "none"
           /\ ready' = [r EXCEPT ![c] = "connecting"] /\ probes' = Aborted(probes)
           /\ current' = c /\ socket' = c /\ watchdog' = c
           /\ reconnectTimer' = FALSE /\ retryIn' = FALSE /\ attempt' = n
           /\ status' = IF n = 0 THEN "connecting" ELSE "reconnecting"
    BY <1>2 DEF Dial, WatchdogOf
  <2>2. /\ r \in [Sockets -> ReadyStates] /\ \A d \in Sockets : r[d] # "open"
    BY DEF NoneOpen
  <2>3. /\ ready' \in [Sockets -> ReadyStates] /\ ready'[c] = "connecting"
        /\ \A d \in Sockets : ready'[d] # "open"
    BY <2>1, <2>2 DEF ReadyStates
  <2>4. probes' \in [Sockets -> {"none", "aborted"}] /\ probes'[c] = "none"
    BY <2>1 DEF Aborted
  <2> QED BY <2>1, <2>3, <2>4, StreamAssumption DEF ControlType, Links, Waits, Live, Maybe,
             ProbeStates, ProbeRuns
<1>3. CASE online /\ ScheduleReconnect(S, None, Aborted(probes))
  <2>1. /\ Aborted(probes) \in [Sockets -> ProbeStates]
        /\ \A c \in Sockets : Aborted(probes)[c] \in {"none", "aborted"}
    BY DEF Aborted, ProbeStates
  <2> QED BY <1>3, <2>1, ScheduleEffect DEF Maybe
<1> QED BY <1>1, <1>2, <1>3 DEF Connect

LEMMA RestartEffect ==
  ASSUME ControlType, Links, Restart, mounted' = TRUE
  PROVE  ControlType' /\ Links' /\ Waits' /\ (status' = "offline" => ~online)
        
  BY CloseLeavesNoneOpen, ConnectEffect DEF Restart

LEMMA RejectEffect ==
  ASSUME ControlType, Links, NEW a \in [Sockets -> ReadyStates], NEW p \in [Sockets -> ProbeStates],
         \A d \in Sockets : a[d] # "open" /\ p[d] \in {"none", "aborted"},
         current # None => a[current] = "closed" /\ p[current] = "none",
         ~reconnectTimer, RejectSession(a), socket' = None, probes' = p, mounted' = TRUE
  PROVE  ControlType' /\ Links' /\ Waits' /\ status' # "offline"
<1>1. ControlType'
  BY DEF RejectSession, ControlType, Live, Maybe
<1>2. Links'
  BY StreamAssumption DEF RejectSession, ControlType, Links, Maybe, ProbeRuns
<1>3. Waits'
  BY DEF RejectSession, ControlType, Waits, Live, ProbeRuns, Maybe
<1> QED BY <1>1, <1>2, <1>3 DEF RejectSession

LEMMA StalenessEffect ==
  ASSUME OtherType, WillStale, StalenessFollows \/ RefreshStaleness
  PROVE  /\ WillStale' /\ stale' \in BOOLEAN /\ staleTimer' \in BOOLEAN
         /\ age' \in {"none", "fresh", "stale", "silent"}
  BY DEF OtherType, WillStale, StalenessFollows, RefreshStaleness, staleness
-----------------------------------------------------------------------------
LEMMA OpensStep == ASSUME IInv, NEW c \in Sockets, Opens(c) PROVE IInv'
<1>1. ready[c] = "connecting" /\ UNCHANGED <<host, staleness, probes, network>>
  BY DEF Opens
<1>2. OtherType' /\ WillStale'
  BY <1>1 DEF Opens, IInv, OtherType, WillStale, host, staleness, network, control
<1>3. CASE current = c
  <2>1. /\ ready' = [ready EXCEPT ![c] = "open"]
        /\ status' = "connected" /\ retryIn' = FALSE /\ watchdog' = None
        /\ UNCHANGED <<attempt, current, socket, reconnectTimer>>
    BY <1>3 DEF Opens
  <2>2. socket = c /\ mounted /\ ~reconnectTimer /\ c # None
    BY <1>1, <1>3, StreamAssumption DEF IInv, Links, Waits
  <2>3. ControlType'
    BY <1>1, <2>1 DEF IInv, ControlType, Live, ReadyStates, Maybe
  <2>4. Links'
    BY <1>1, <1>3, <2>1, <2>2 DEF IInv, ControlType, Links, ProbeRuns
  <2>5. Waits'
    BY <1>1, <2>1, <2>2 DEF IInv, ControlType, Waits, Live, host
  <2>6. Queue'
    BY <1>1, <2>1 DEF IInv, Queue, network
  <2> QED BY <1>2, <2>3, <2>4, <2>5, <2>6 DEF IInv
<1>4. CASE current # c
  <2>1. ready' = [ready EXCEPT ![c] = "closing"] /\ UNCHANGED control
    BY <1>4 DEF Opens
  <2>2. socket # c
    BY <1>4, StreamAssumption DEF IInv, Links
  <2>3. ControlType'
    BY <1>1, <2>1 DEF IInv, ControlType, ReadyStates, control, page
  <2>4. Links'
    BY <1>1, <1>4, <2>1, <2>2 DEF IInv, ControlType, Links, ProbeRuns, Maybe, control, page
  <2>5. Waits' /\ Queue'
    BY <1>1, <2>1, <2>2 DEF IInv, ControlType, Waits, Queue, ProbeRuns, Maybe, host, network,
       control, page
  <2> QED BY <1>2, <2>3, <2>4, <2>5 DEF IInv
<1> QED BY <1>3, <1>4

LEMMA PeerClosesStep == ASSUME IInv, NEW c \in Sockets, PeerCloses(c) PROVE IInv'
<1>1. /\ ready[c] = "open" /\ ready' = [ready EXCEPT ![c] = "closing"]
      /\ UNCHANGED <<host, control, staleness, probes, network>>
  BY DEF PeerCloses
<1>2. OtherType' /\ WillStale' /\ Queue'
  BY <1>1 DEF IInv, OtherType, WillStale, Queue, host, staleness, network, control, page
<1>3. ControlType'
  BY <1>1 DEF IInv, ControlType, ReadyStates, control, page
<1>4. Links'
  BY <1>1, StreamAssumption DEF IInv, ControlType, Links, ProbeRuns, Maybe, control, page
<1>5. Waits'
  BY <1>1 DEF IInv, ControlType, Waits, ProbeRuns, Maybe, host, control, page
<1> QED BY <1>2, <1>3, <1>4, <1>5 DEF IInv

LEMMA MessageStep == ASSUME IInv, NEW c \in Sockets, Message(c) PROVE IInv'
<1>1. /\ UNCHANGED <<host, page, current, socket, reconnectTimer, watchdog>>
      /\ UNCHANGED <<browser, network>>
      /\ age' = "fresh" /\ stale' = FALSE /\ staleTimer' = TRUE /\ attempt' = 0
  BY DEF Message
<1>2. ControlType'
  BY <1>1 DEF IInv, ControlType, page, browser
<1>3. OtherType'
  BY <1>1 DEF IInv, OtherType, host, network
<1>4. Links'
  BY <1>1 DEF IInv, Links, ProbeRuns, browser
<1>5. Waits'
  BY <1>1 DEF IInv, Waits, ProbeRuns, host, page, browser
<1>6. WillStale' /\ Queue'
  BY <1>1 DEF IInv, WillStale, Queue, host, page, network
<1> QED BY <1>2, <1>3, <1>4, <1>5, <1>6 DEF IInv

LEMMA ClosesStep ==
  ASSUME IInv, NEW c \in Sockets, NEW code \in {1000, 1006, 4401}, Closes(c, code)
  PROVE  IInv'
<1> DEFINE after == [ready EXCEPT ![c] = "closed"]
<1>1. /\ ready[c] # "closed" /\ UNCHANGED <<host, network>>
      /\ after \in [Sockets -> ReadyStates] /\ after[c] = "closed"
      /\ \A d \in Sockets : d # c => after[d] = ready[d]
  BY DEF Closes, IInv, ControlType, ReadyStates
<1>2. CASE IsOld(c)
  <2>1. ready' = after /\ UNCHANGED <<control, staleness, probes>> /\ current # c
    BY <1>2 DEF Closes, IsOld
  <2> HIDE DEF after
  <2> QED BY <1>1, <2>1, StreamAssumption DEF IInv, ControlType, OtherType, Links, Waits, WillStale,
             Queue, Maybe, ProbeRuns, control, page, staleness, host, network
<1>3. CASE ~IsOld(c)
  <2>1. /\ current = c /\ socket = c /\ mounted /\ probes[c] = "none" /\ ~reconnectTimer
        /\ retryIn = reconnectTimer /\ c # None
    BY <1>1, <1>3, StreamAssumption DEF IInv, Links, Waits, IsOld
  <2>2. StalenessFollows
    BY <1>3 DEF Closes
  <2>3. WillStale' /\ OtherType'
    BY <1>1, <2>2, StalenessEffect DEF IInv, OtherType, host, network
  <2>4. NoneOpen({after})
    <3> HIDE DEF after
    <3> QED BY <1>1, <2>1 DEF NoneOpen, IInv, Links
  <2>5. CASE RejectSession(after) /\ socket' = None /\ UNCHANGED probes
    <3>1. \A d \in Sockets : after[d] # "open" /\ probes[d] \in {"none", "aborted"}
      <4> HIDE DEF after
      <4> QED BY <2>1, <2>4 DEF NoneOpen, IInv, ControlType, Links, ProbeStates
    <3>2. ControlType' /\ Links' /\ Waits' /\ status' # "offline"
      <4>1. probes \in [Sockets -> ProbeStates] /\ mounted' = TRUE
        BY <1>1, <2>1 DEF IInv, ControlType, OtherType, host
      <4> HIDE DEF after
      <4> QED BY <1>1, <2>1, <2>5, <3>1, <4>1, RejectEffect DEF IInv
    <3>3. Queue'
      BY <1>1, <3>2 DEF IInv, Queue, network
    <3> QED BY <2>3, <3>2, <3>3 DEF IInv
  <2>6. CASE StartProbe(c, after)
    <3>1. ControlType' /\ Links' /\ Waits' /\ Queue'
      <4> HIDE DEF after
      <4> QED BY <1>1, <2>1, <2>4, <2>6, StreamAssumption DEF StartProbe, IInv, ControlType, Links,
           Waits, Queue, Live, Maybe, ProbeRuns, ProbeStates, NoneOpen, host, network
    <3> QED BY <2>3, <3>1 DEF IInv
  <2>7. CASE ScheduleReconnect({after}, c, probes)
    <3>1. \A d \in Sockets : probes[d] \in {"none", "aborted"}
      BY <2>1 DEF IInv, ControlType, Links, ProbeStates
    <3>2. probes \in [Sockets -> ProbeStates] /\ c \in Maybe /\ mounted' = TRUE
      BY <1>1, <2>1 DEF IInv, ControlType, Maybe, host
    <3>3. ControlType' /\ Links' /\ Waits' /\ (status' = "offline" => ~online)
      <4>1. c # None => probes[c] = "none" /\ \A r \in {after} : r[c] = "closed"
        BY <1>1, <2>1
      <4> HIDE DEF after
      <4> QED BY <2>4, <2>7, <3>1, <3>2, <4>1, ScheduleEffect DEF IInv
    <3>4. Queue'
      BY <1>1, <3>3 DEF IInv, Queue, network
    <3> QED BY <2>3, <3>3, <3>4 DEF IInv
  <2> QED BY <1>3, <2>5, <2>6, <2>7 DEF Closes
<1> QED BY <1>2, <1>3

LEMMA ProbeAnsweredStep == ASSUME IInv, NEW c \in Sockets, ProbeAnswered(c) PROVE IInv'
  BY DEF ProbeAnswered, IInv, ControlType, OtherType, Links, Waits, WillStale, Queue,
     ProbeStates, ProbeRuns, staleness, network, host, control, page

LEMMA ProbeEndsStep ==
  ASSUME IInv, NEW c \in Sockets, NEW answer, ProbeEnds(c, answer) PROVE IInv'
<1> DEFINE left == [probes EXCEPT ![c] = "none"]
<1>1. /\ probes[c] # "none" /\ UNCHANGED <<host, network>>
      /\ left \in [Sockets -> ProbeStates] /\ left[c] = "none"
      /\ \A d \in Sockets : d # c => left[d] = probes[d]
  BY DEF ProbeEnds, IInv, ControlType, ProbeStates
<1>2. CASE IsOld(c)
  <2>1. probes' = left /\ UNCHANGED <<control, staleness, ready>> /\ current # c
    BY <1>2 DEF ProbeEnds, IsOld
  <2> HIDE DEF left
  <2> QED BY <1>1, <2>1, StreamAssumption DEF IInv, ControlType, OtherType, Links, Waits, WillStale,
             Queue, Maybe, ProbeRuns, control, page, staleness, host, network
<1>3. CASE ~IsOld(c)
  <2>1. /\ current = c /\ socket = None /\ mounted /\ ~reconnectTimer /\ retryIn = reconnectTimer
        /\ c # None /\ ready[c] = "closed"
    BY <1>1, <1>3, StreamAssumption DEF IInv, ControlType, Maybe, Links, Waits, IsOld, ProbeRuns
  <2>2. StalenessFollows
    BY <1>3 DEF ProbeEnds
  <2>3. WillStale' /\ OtherType'
    BY <1>1, <2>2, StalenessEffect DEF IInv, OtherType, host, network
  <2>4. \A d \in Sockets : left[d] \in {"none", "aborted"}
    <3> HIDE DEF left
    <3> QED BY <1>1, <2>1 DEF IInv, ControlType, Links, ProbeStates
  <2>5. NoneOpen({ready})
    <3>1. \A d \in Sockets : ready[d] # "open"
      BY <2>1, StreamAssumption DEF IInv, Links
    <3> QED BY <3>1 DEF IInv, ControlType, NoneOpen
  <2>6. CASE RejectSession(ready) /\ probes' = left /\ UNCHANGED socket
    <3>1. ControlType' /\ Links' /\ Waits' /\ status' # "offline"
      <4>1. ready \in [Sockets -> ReadyStates] /\ mounted' = TRUE
        BY <1>1, <2>1 DEF IInv, ControlType, OtherType, host
      <4>2. \A d \in Sockets : ready[d] # "open"
        BY <2>5 DEF NoneOpen
      <4> HIDE DEF left
      <4> QED BY <1>1, <2>1, <2>4, <2>6, <4>1, <4>2, RejectEffect DEF IInv
    <3>2. Queue'
      BY <1>1, <3>1 DEF IInv, Queue, network
    <3> QED BY <2>3, <3>1, <3>2 DEF IInv
  <2>7. CASE ScheduleReconnect({ready}, c, left)
    <3>1. ControlType' /\ Links' /\ Waits' /\ (status' = "offline" => ~online)
      <4>1. c # None => left[c] = "none" /\ \A r \in {ready} : r[c] = "closed"
        BY <1>1, <2>1
      <4>2. c \in Maybe /\ mounted' = TRUE
        BY <1>1, <2>1 DEF Maybe, host, IInv, OtherType
      <4> HIDE DEF left
      <4> QED BY <1>1, <2>4, <2>5, <2>7, <4>1, <4>2, ScheduleEffect DEF IInv
    <3>2. Queue'
      BY <1>1, <3>1 DEF IInv, Queue, network
    <3> QED BY <2>3, <3>1, <3>2 DEF IInv
  <2> QED BY <1>3, <2>6, <2>7 DEF ProbeEnds
<1> QED BY <1>2, <1>3
-----------------------------------------------------------------------------
LEMMA ReconnectStep == ASSUME IInv, ReconnectFires PROVE IInv'
<1>1. NoneOpen({ready}) /\ mounted' = TRUE /\ attempt \in {0, 1}
  BY StreamAssumption DEF ReconnectFires, IInv, ControlType, OtherType, Links, Waits, NoneOpen, host
<1>2. ControlType' /\ Links' /\ Waits' /\ (status' = "offline" => ~online)
  BY <1>1, ConnectEffect DEF ReconnectFires, IInv
<1>3. WillStale' /\ OtherType'
  BY StalenessEffect DEF ReconnectFires, IInv, OtherType, host, network
<1>4. Queue'
  BY <1>2 DEF ReconnectFires, IInv, Queue, network
<1> QED BY <1>2, <1>3, <1>4 DEF IInv

LEMMA WatchdogStep == ASSUME IInv, WatchdogFires PROVE IInv'
<1>1. /\ watchdog \in Sockets /\ watchdog = socket /\ watchdog = current
      /\ ready[watchdog] = "connecting" /\ mounted
  BY StreamAssumption DEF WatchdogFires, IInv, ControlType, OtherType, Links, Waits, Maybe
<1>2. /\ ScheduleReconnect(AfterClose(socket), None, probes) /\ StalenessFollows
      /\ UNCHANGED <<host, network>>
  BY <1>1 DEF WatchdogFires, IsOld
<1>3. \A d \in Sockets : probes[d] \in {"none", "aborted"}
  <2> SUFFICES ASSUME NEW d \in Sockets, probes[d] \notin {"none", "aborted"} PROVE FALSE
    OBVIOUS
  <2>1. probes[d] \in {"asked", "body"}
    BY DEF IInv, ControlType, ProbeStates
  <2>2. current = d /\ probes[socket] = "none"
    BY <1>1, <2>1, StreamAssumption DEF IInv, Links
  <2> QED BY <1>1, <2>1, <2>2
<1>4. ControlType' /\ Links' /\ Waits' /\ (status' = "offline" => ~online)
  <2>1. NoneOpen(AfterClose(socket)) /\ probes \in [Sockets -> ProbeStates] /\ mounted' = TRUE
    BY <1>1, <1>2, CloseLeavesNoneOpen DEF IInv, ControlType, OtherType, host
  <2> QED BY <1>2, <1>3, <2>1, ScheduleEffect DEF IInv, Maybe
<1>5. WillStale' /\ OtherType'
  BY <1>2, StalenessEffect DEF IInv, OtherType, host, network
<1>6. Queue'
  BY <1>2, <1>4 DEF IInv, Queue, network
<1> QED BY <1>4, <1>5, <1>6 DEF IInv

LEMMA AgeStep == ASSUME IInv, StaleFires \/ FrameAges PROVE IInv'
<1>1. UNCHANGED <<host, control, browser, network>>
  BY DEF StaleFires, FrameAges
<1>2. ControlType' /\ Links'
  BY <1>1 DEF IInv, ControlType, Links, ProbeRuns, control, page, browser
<1>3. Waits' /\ Queue'
  BY <1>1 DEF IInv, Waits, Queue, ProbeRuns, host, control, page, browser, network
<1>4. WillStale'
  BY DEF StaleFires, FrameAges, IInv, WillStale
<1>5. OtherType'
  <2>1. /\ stale' \in BOOLEAN /\ staleTimer' \in BOOLEAN
        /\ age' \in {"none", "fresh", "stale", "silent"}
    BY DEF StaleFires, FrameAges, IInv, OtherType
  <2> QED BY <1>1, <2>1 DEF IInv, OtherType, host, control, network
<1> QED BY <1>2, <1>3, <1>4, <1>5 DEF IInv

LEMMA NetChangesStep == ASSUME IInv, NetChanges PROVE IInv'
<1> DEFINE e == IF online THEN "offline" ELSE "online"
<1>1. /\ netEvents' = Append(netEvents, e) /\ online' = ~online
      /\ UNCHANGED <<host, control, staleness, browser>>
  BY DEF NetChanges
<1>2. /\ netEvents \in Seq({"online", "offline"}) /\ e \in {"online", "offline"}
      /\ online \in BOOLEAN
  BY DEF IInv, OtherType
<1>3. /\ netEvents' \in Seq({"online", "offline"}) /\ netEvents' # <<>>
      /\ netEvents'[Len(netEvents')] = e
  BY <1>1, <1>2
<1>4. Queue' /\ OtherType'
  BY <1>1, <1>2, <1>3 DEF IInv, Queue, OtherType, host, control, staleness
<1>5. ControlType' /\ Links' /\ Waits' /\ WillStale'
  BY <1>1 DEF IInv, ControlType, Links, Waits, WillStale, ProbeRuns, host, control, page,
     staleness, browser
<1> QED BY <1>4, <1>5 DEF IInv

LEMMA NetEventStep == ASSUME IInv, NetEvent PROVE IInv'
<1>1. /\ netEvents # <<>> /\ netEvents' = Tail(netEvents) /\ UNCHANGED <<host, online>>
      /\ netEvents \in Seq({"online", "offline"})
  BY DEF NetEvent, IInv, OtherType
<1>2. /\ netEvents' \in Seq({"online", "offline"})
      /\ netEvents' # <<>> => netEvents'[Len(netEvents')] = netEvents[Len(netEvents)]
      /\ netEvents' = <<>> => netEvents[Len(netEvents)] = Head(netEvents)
  BY <1>1
<1>3. CASE ~mounted
  <2>1. UNCHANGED <<control, staleness, browser>>
    BY <1>3 DEF NetEvent
  <2>2. ControlType' /\ Links' /\ Waits' /\ WillStale'
    BY <1>1, <2>1 DEF IInv, ControlType, Links, Waits, WillStale, ProbeRuns, host, control, page,
       staleness, browser
  <2> QED BY <1>1, <1>2, <1>3, <2>1, <2>2 DEF IInv, OtherType, Queue, host, control, staleness
<1>4. CASE mounted
  <2>1. StalenessFollows /\ mounted' = TRUE
    BY <1>1, <1>4 DEF NetEvent, host
  <2>2. ControlType' /\ Links' /\ Waits'
        /\ (status' = "offline" => ~online \/ Head(netEvents) # "online")
    <3>1. CASE Head(netEvents) = "online"
      BY <1>4, <2>1, <3>1, RestartEffect DEF NetEvent, IInv
    <3>2. CASE Head(netEvents) # "online"
      <4>1. MarkOffline(AfterClose(socket), probes)
        BY <1>4, <3>2 DEF NetEvent
      <4> QED BY <2>1, <3>2, <4>1, CloseLeavesNoneOpen, OfflineEffect
        DEF IInv, ControlType, OtherType
    <3> QED BY <3>1, <3>2
  <2>3. WillStale' /\ OtherType'
    BY <1>1, <1>2, <2>1, <2>2, StalenessEffect DEF IInv, OtherType, host
  <2>4. Queue'
    BY <1>1, <1>2, <2>2 DEF IInv, Queue
  <2> QED BY <2>2, <2>3, <2>4 DEF IInv
<1> QED BY <1>3, <1>4 DEF IInv, OtherType

LEMMA ResumeStep == ASSUME IInv, Resume \/ Retry PROVE IInv'
<1>1. RefreshStaleness /\ UNCHANGED <<host, network>> /\ mounted' = TRUE
  BY DEF Resume, Retry, host, IInv, OtherType
<1>2. CASE Restart
  <2>1. ControlType' /\ Links' /\ Waits' /\ (status' = "offline" => ~online)
    BY <1>1, <1>2, RestartEffect DEF IInv
  <2> QED BY <1>1, <2>1, StalenessEffect DEF IInv, OtherType, Queue, host, network
<1>3. CASE UNCHANGED <<control, browser>>
  <2>1. ControlType' /\ Links' /\ Waits' /\ Queue'
    BY <1>1, <1>3 DEF IInv, ControlType, Links, Waits, Queue, ProbeRuns, host, network,
       control, page, browser
  <2> QED BY <1>1, <2>1, StalenessEffect DEF IInv, OtherType, host, network
<1> QED BY <1>2, <1>3 DEF Resume, Retry

LEMMA MountStep == ASSUME IInv, Mount PROVE IInv'
<1>1. NoneOpen({ready})
  BY StreamAssumption DEF Mount, IInv, ControlType, Links, Waits, NoneOpen
<1>2. ControlType' /\ Links' /\ Waits' /\ (status' = "offline" => ~online)
  BY <1>1, ConnectEffect DEF Mount, IInv
<1> QED BY <1>2 DEF Mount, IInv, OtherType, WillStale, Queue, staleness, network

LEMMA UnmountStep == ASSUME IInv, Unmount PROVE IInv'
<1>1. ready' \in [Sockets -> ReadyStates] /\ \A c \in Sockets : ready'[c] # "open"
  BY CloseLeavesNoneOpen DEF Unmount, IInv, NoneOpen
<1>2. probes' \in [Sockets -> {"none", "aborted"}]
  BY DEF Unmount, Aborted
<1>3. ControlType' /\ Links' /\ Waits'
  BY <1>1, <1>2, StreamAssumption DEF Unmount, ControlType, Links, Waits, Live, Maybe, ProbeStates,
     ProbeRuns
<1> QED BY <1>3 DEF Unmount, IInv, OtherType, WillStale, Queue, network

LEMMA StepInv == IInv /\ [Next]_vars => IInv'
<1> SUFFICES ASSUME IInv, [Next]_vars PROVE IInv'
  OBVIOUS
<1>1. CASE UNCHANGED vars
  BY <1>1 DEF vars, IInv, ControlType, OtherType, Links, Waits, WillStale, Queue, ProbeRuns,
     host, control, page, staleness, browser, network
<1>2. CASE \E c \in Sockets : SocketEvent(c)
  BY <1>2, OpensStep, PeerClosesStep, MessageStep, ClosesStep, ProbeAnsweredStep, ProbeEndsStep
     DEF SocketEvent
<1>3. CASE ReconnectFires \/ WatchdogFires \/ StaleFires \/ FrameAges
  BY <1>3, ReconnectStep, WatchdogStep, AgeStep
<1>4. CASE NetChanges \/ NetEvent \/ Resume \/ Retry \/ Mount \/ Unmount
  BY <1>4, NetChangesStep, NetEventStep, ResumeStep, MountStep, UnmountStep
<1> QED BY <1>1, <1>2, <1>3, <1>4 DEF Next

LEMMA Invariance == Spec => []IInv
  BY InitInv, StepInv, PTL DEF Spec
-----------------------------------------------------------------------------
(* Every reachable state of the hook is well typed.                         *)
THEOREM TypeCorrect == Spec => []TypeOK
<1>1. IInv => TypeOK
  BY TypeParts DEF IInv
<1> QED BY <1>1, Invariance, PTL

(* The page has one open connection at most, the one the hook knows.        *)
THEOREM StreamIsSingle == Spec => []OneStream
<1>1. IInv => OneStream
  BY StreamAssumption DEF IInv, Links, Waits, OneStream, ControlType, OtherType, Maybe
<1> QED BY <1>1, Invariance, PTL

(* The hook waits for exactly one thing while it promises a connection.     *)
THEOREM NobodyIsStranded == Spec => []NeverStranded
<1>1. IInv => NeverStranded
  <2> SUFFICES ASSUME IInv, mounted PROVE NeverStranded
    BY DEF NeverStranded
  <2>1. CASE status \in Live
    <3>1. \E x : Awaited = {x}
      <4>1. CASE socket # None
        <5>1. ~reconnectTimer /\ ~ProbeRuns
          BY <4>1, StreamAssumption DEF IInv, Links, ProbeRuns
        <5> QED BY <4>1, <5>1 DEF Awaited, ProbeRuns
      <4>2. CASE socket = None /\ reconnectTimer
        <5>1. ~ProbeRuns
          BY <4>2 DEF IInv, Links
        <5> QED BY <4>2, <5>1 DEF Awaited, ProbeRuns
      <4>3. CASE socket = None /\ ~reconnectTimer
        <5>1. ProbeRuns
          BY <2>1, <4>3 DEF IInv, Waits
        <5> QED BY <4>3, <5>1 DEF Awaited, ProbeRuns
      <4> QED BY <4>1, <4>2, <4>3
    <3>2. Cardinality(Awaited) = 1
      BY <3>1, FS_Singleton
    <3> QED BY <2>1, <3>2 DEF NeverStranded, IInv, Links, Live
  <2>2. CASE status \notin Live
    BY <2>2 DEF IInv, Waits, NeverStranded, Awaited, ProbeRuns, Live
  <2> QED BY <2>1, <2>2
<1> QED BY <1>1, Invariance, PTL

(* What the page shows is so.                                               *)
THEOREM PageTellsTheTruth == Spec => []PageIsHonest
<1>1. IInv => PageIsHonest
  <2> SUFFICES ASSUME IInv, mounted PROVE PageIsHonest
    BY DEF PageIsHonest
  <2>1. status = "offline" =>
           ~online \/ "online" \in {netEvents[i] : i \in 1..Len(netEvents)}
    <3> SUFFICES ASSUME status = "offline", online
                 PROVE  "online" \in {netEvents[i] : i \in 1..Len(netEvents)}
      OBVIOUS
    <3>1. netEvents # <<>> /\ netEvents[Len(netEvents)] = "online"
      BY DEF IInv, Queue
    <3>2. Len(netEvents) \in 1..Len(netEvents)
      BY <3>1 DEF IInv, OtherType
    <3> QED BY <3>1, <3>2
  <2> QED BY <2>1 DEF IInv, Waits, WillStale, PageIsHonest
<1> QED BY <1>1, Invariance, PTL
-----------------------------------------------------------------------------
(* A socket closes, and a probe ends, by its own event alone.               *)
KeepsSocket(d) == ready'[d] = "closed" => ready[d] = "closed"
KeepsProbe(d) == probes'[d] = "none" => probes[d] = "none"
Keeps(d) == KeepsSocket(d) /\ KeepsProbe(d)

LEMMA CloseKeeps ==
  ASSUME ControlType, NEW c \in Maybe, NEW r \in AfterClose(c), NEW d \in Sockets, r[d] = "closed"
  PROVE  ready[d] = "closed"
<1>1. CASE c = None
  BY <1>1 DEF AfterClose
<1>2. CASE c # None
  <2>1. c \in Sockets /\ ready[c] \in ReadyStates
    BY <1>2 DEF ControlType, Maybe
  <2>2. PICK s \in CloseStates(ready[c]) : r = [ready EXCEPT ![c] = s]
    BY <1>2 DEF AfterClose
  <2>3. s = "closed" => ready[c] = "closed"
    BY <2>1 DEF CloseStates, ReadyStates
  <2> QED BY <2>1, <2>2, <2>3 DEF ControlType
<1> QED BY <1>1, <1>2

LEMMA ConnectKeeps ==
  ASSUME NEW S, NEW n, Connect(S, n), S \subseteq [Sockets -> ReadyStates], NEW d \in Sockets,
         \A r \in S : r[d] = "closed" => ready[d] = "closed"
  PROVE  Keeps(d)
<1>1. CASE online /\ Dial(S, n)
  <2>1. PICK r \in S, c \in Sockets :
           ready' = [r EXCEPT ![c] = "connecting"] /\ probes' = Aborted(probes)
    BY <1>1 DEF Dial
  <2> QED BY <2>1 DEF Aborted, Keeps, KeepsSocket, KeepsProbe
<1>2. CASE ~(online /\ Dial(S, n))
  <2>1. ready' \in S /\ (probes' = Aborted(probes) \/ probes' = Aborted(Aborted(probes)))
    BY <1>2 DEF Connect, ScheduleReconnect, MarkOffline
  <2> QED BY <2>1 DEF Aborted, Keeps, KeepsSocket, KeepsProbe
<1> QED BY <1>1, <1>2

LEMMA RestartKeeps == ASSUME IInv, Restart, NEW d \in Sockets PROVE Keeps(d)
<1>1. AfterClose(socket) \subseteq [Sockets -> ReadyStates]
  BY CloseLeavesNoneOpen DEF IInv, NoneOpen
<1>2. \A r \in AfterClose(socket) : r[d] = "closed" => ready[d] = "closed"
  BY CloseKeeps DEF IInv, ControlType
<1> QED BY <1>1, <1>2, ConnectKeeps DEF Restart

LEMMA ClosesKeeps ==
  ASSUME IInv, NEW c \in Sockets, NEW code, Closes(c, code), NEW d \in Sockets, current # d
  PROVE  Keeps(d) \/ UNCHANGED <<control, staleness>>
<1>1. CASE IsOld(c)
  BY <1>1 DEF Closes
<1>2. CASE ~IsOld(c)
  <2>1. c # d /\ \A x : [ready EXCEPT ![c] = x][d] = ready[d]
    BY <1>2 DEF IsOld, IInv, ControlType
  <2>2. ready' = [ready EXCEPT ![c] = "closed"]
    BY <1>2 DEF Closes, RejectSession, StartProbe, ScheduleReconnect, MarkOffline
  <2>3. \/ probes' = probes \/ probes' = Aborted(probes)
        \/ probes' = [probes EXCEPT ![c] = "asked"]
    BY <1>2 DEF Closes, RejectSession, StartProbe, ScheduleReconnect, MarkOffline
  <2>4. KeepsProbe(d)
    BY <2>1, <2>3 DEF KeepsProbe, Aborted, IInv, ControlType
  <2> QED BY <2>1, <2>2, <2>4 DEF Keeps, KeepsSocket
<1> QED BY <1>1, <1>2

LEMMA ProbeEndsKeeps ==
  ASSUME IInv, NEW c \in Sockets, NEW answer, ProbeEnds(c, answer), NEW d \in Sockets,
         current # d
  PROVE  Keeps(d) \/ UNCHANGED <<control, staleness>>
<1>1. CASE IsOld(c)
  BY <1>1 DEF ProbeEnds
<1>2. CASE ~IsOld(c)
  <2>1. c # d /\ [probes EXCEPT ![c] = "none"][d] = probes[d]
    BY <1>2 DEF IsOld, IInv, ControlType
  <2>2. ready' = ready
    BY <1>2 DEF ProbeEnds, RejectSession, ScheduleReconnect, MarkOffline
  <2>3. \/ probes' = [probes EXCEPT ![c] = "none"]
        \/ probes' = Aborted([probes EXCEPT ![c] = "none"])
    BY <1>2 DEF ProbeEnds, RejectSession, ScheduleReconnect, MarkOffline
  <2>4. KeepsProbe(d)
    BY <2>1, <2>3 DEF KeepsProbe, Aborted
  <2> QED BY <2>2, <2>4 DEF Keeps, KeepsSocket
<1> QED BY <1>1, <1>2

LEMMA EventKeeps ==
  ASSUME IInv, NEW c \in Sockets, SocketEvent(c), NEW d \in Sockets, current # d
  PROVE  Keeps(d) \/ UNCHANGED <<control, staleness>>
<1>1. CASE Opens(c) \/ PeerCloses(c) \/ Message(c) \/ ProbeAnswered(c)
  BY <1>1 DEF Opens, PeerCloses, Message, ProbeAnswered, browser, IInv, ControlType, Keeps,
     KeepsSocket, KeepsProbe
<1>2. CASE \E code \in {1000, 1006, 4401} : Closes(c, code)
  BY <1>2, ClosesKeeps
<1>3. CASE \E answer \in {"401", "403", "404", "failed", "session"} : ProbeEnds(c, answer)
  BY <1>3, ProbeEndsKeeps
<1> QED BY <1>1, <1>2, <1>3 DEF SocketEvent

LEMMA OthersKeep ==
  ASSUME IInv, [Next]_vars, ~(\E c \in Sockets : SocketEvent(c)), NEW d \in Sockets
  PROVE  Keeps(d)
<1>1. CASE UNCHANGED vars
  BY <1>1 DEF vars, browser, Keeps, KeepsSocket, KeepsProbe
<1>2. CASE StaleFires \/ FrameAges \/ NetChanges
  BY <1>2 DEF StaleFires, FrameAges, NetChanges, browser, Keeps, KeepsSocket, KeepsProbe
<1>3. CASE ReconnectFires \/ Mount
  <2>1. Connect({ready}, attempt) \/ Connect({ready}, 0)
    BY <1>3 DEF ReconnectFires, Mount
  <2> QED BY <2>1, ConnectKeeps DEF IInv, ControlType
<1>4. CASE WatchdogFires
  <2>1. watchdog \in Maybe
    BY DEF IInv, ControlType
  <2>2. \/ UNCHANGED browser
        \/ /\ ready' \in AfterClose(watchdog)
           /\ probes' = probes \/ probes' = Aborted(probes)
    BY <1>4 DEF WatchdogFires, ScheduleReconnect, MarkOffline
  <2> QED BY <2>1, <2>2, CloseKeeps DEF IInv, browser, Aborted, Keeps, KeepsSocket, KeepsProbe
<1>5. CASE NetEvent \/ Resume \/ Retry \/ Unmount
  <2>1. \/ UNCHANGED browser \/ Restart
        \/ ready' \in AfterClose(socket) /\ probes' = Aborted(probes)
    BY <1>5 DEF NetEvent, Resume, Retry, Unmount, MarkOffline
  <2>2. socket \in Maybe
    BY DEF IInv, ControlType
  <2> QED BY <2>1, <2>2, RestartKeeps, CloseKeeps
          DEF IInv, browser, Aborted, Keeps, KeepsSocket, KeepsProbe
<1> QED BY <1>1, <1>2, <1>3, <1>4, <1>5 DEF Next

(* The end of a connection or of a probe the hook has given up is ignored.  *)
THEOREM OldEventsIgnored == Spec => OldEventsInert
<1>1. IInv /\ [Next]_vars =>
         [\A c \in Sockets :
            current # c /\ (\/ ready[c] # "closed" /\ ready'[c] = "closed"
                            \/ probes[c] # "none" /\ probes'[c] = "none")
               => UNCHANGED <<control, staleness>>]_vars
  <2> SUFFICES ASSUME IInv, [Next]_vars, NEW c \in Sockets, current # c,
                      \/ ready[c] # "closed" /\ ready'[c] = "closed"
                      \/ probes[c] # "none" /\ probes'[c] = "none"
               PROVE  UNCHANGED <<control, staleness>>
    OBVIOUS
  <2>1. ~Keeps(c)
    BY DEF Keeps, KeepsSocket, KeepsProbe
  <2>2. PICK d \in Sockets : SocketEvent(d)
    BY <2>1, OthersKeep
  <2> QED BY <2>1, <2>2, EventKeeps
<1> QED BY <1>1, Invariance, PTL DEF Spec, OldEventsInert

(* The page connects once and never waits for nothing.                      *)
THEOREM PageConnectsOnce == Spec => []ConnectsOnce
  BY StreamIsSingle, NobodyIsStranded, PTL DEF ConnectsOnce
-----------------------------------------------------------------------------
(* The page as a whole: each of its steps is one of the stream, or leaves   *)
(* it alone.                                                                *)
LEMMA PageStep == ASSUME [PageNext]_pageVars PROVE [Next]_vars
<1>1. CASE StreamRuns
  BY <1>1 DEF StreamRuns, Next
<1>2. CASE PageNetEvent
  BY <1>2 DEF PageNetEvent, Next
<1>3. CASE PageResumes
  BY <1>3 DEF PageResumes, Next
<1>4. CASE Render
  BY <1>4 DEF Render, Next
<1>5. CASE ProbeEffect \/ SubmitLogin \/ Logout \/ LogoutEnds \/ CheckAgain
  BY <1>5 DEF ProbeEffect, SubmitLogin, Logout, LogoutEnds, CheckAgain
<1>6. CASE SessionExpires \/ ExpiryFires
  BY <1>6 DEF SessionExpires, ExpiryFires
<1>7. ASSUME NEW answer \in Answered, AccessProbeEnds(answer) \/ LoginEnds(answer)
      PROVE  [Next]_vars
  BY <1>7 DEF AccessProbeEnds, LoginEnds
<1>8. CASE UNCHANGED pageVars
  BY <1>8 DEF pageVars
<1> QED BY <1>1, <1>2, <1>3, <1>4, <1>5, <1>6, <1>7, <1>8 DEF PageNext

(* The page is a host RadarStream allows: what is proved of the stream for  *)
(* any host holds in the page with its login.                               *)
THEOREM PageImplementsStream == PageSpec => Spec
<1>1. PageInit => Init
  BY DEF PageInit
<1> QED BY <1>1, PageStep, PTL DEF PageSpec, Spec

EntryInv ==
    /\ probing => access = "loading"
    /\ recheck => access = "error"
    /\ operation # "none" => access = "anonymous"
    /\ operation = "login" => ~mounted
    /\ mounted => access \in {"bypassed", "authenticated", "anonymous"}

(* Only a mounted stream, whose connection is still the current one, tells  *)
(* of a refusal.                                                            *)
LEMMA OnlyMountedRejected == ASSUME IInv, StreamRuns, Rejected PROVE mounted
<1>1. current # None => mounted
  BY DEF IInv, Waits
<1>2. \A S, n : Connect(S, n) => status' # "disconnected"
  BY DEF Connect, Dial, ScheduleReconnect, MarkOffline
<1>3. \A c \in Sockets : c # None
  BY StreamAssumption
<1>4. ASSUME NEW c \in Sockets, SocketEvent(c) PROVE mounted
  <2>1. CASE Opens(c) \/ PeerCloses(c) \/ Message(c) \/ ProbeAnswered(c)
    BY <2>1 DEF Opens, PeerCloses, Message, ProbeAnswered, Rejected, control, page
  <2>2. CASE \E code \in {1000, 1006, 4401} : Closes(c, code)
    <3>1. ~IsOld(c)
      BY <2>2 DEF Closes, Rejected, control, page
    <3> QED BY <1>1, <1>3, <3>1 DEF IsOld
  <2>3. CASE \E answer \in {"401", "403", "404", "failed", "session"} : ProbeEnds(c, answer)
    <3>1. ~IsOld(c)
      BY <2>3 DEF ProbeEnds, Rejected, control, page
    <3> QED BY <1>1, <1>3, <3>1 DEF IsOld
  <2> QED BY <1>4, <2>1, <2>2, <2>3 DEF SocketEvent
<1>5. CASE ReconnectFires \/ Retry
  BY <1>2, <1>5 DEF ReconnectFires, Retry, Restart, Rejected
<1>6. CASE WatchdogFires
  BY <1>6 DEF WatchdogFires, ScheduleReconnect, MarkOffline, Rejected, page
<1>7. CASE StaleFires \/ FrameAges \/ NetChanges
  BY <1>7 DEF StaleFires, FrameAges, NetChanges, control, page, Rejected
<1> QED BY <1>4, <1>5, <1>6, <1>7 DEF StreamRuns

LEMMA StreamKeepsHost == ASSUME StreamRuns PROVE mounted' = mounted
<1>1. ASSUME NEW c \in Sockets, SocketEvent(c) PROVE mounted' = mounted
  BY <1>1 DEF SocketEvent, Opens, PeerCloses, Message, Closes, ProbeAnswered, ProbeEnds, host
<1>2. CASE ReconnectFires \/ WatchdogFires \/ StaleFires \/ FrameAges \/ NetChanges \/ Retry
  BY <1>2 DEF ReconnectFires, WatchdogFires, StaleFires, FrameAges, NetChanges, Retry, host
<1> QED BY <1>1, <1>2 DEF StreamRuns

LEMMA EntryStep == ASSUME IInv, EntryInv, [PageNext]_pageVars PROVE EntryInv'
<1>1. CASE StreamRuns
  <2>1. mounted' = mounted /\ UNCHANGED <<expired, probing, recheck, operation>>
    BY <1>1, StreamKeepsHost DEF StreamRuns, StreamFollows
  <2>2. CASE Rejected
    <3>1. mounted /\ access' = "anonymous"
      BY <1>1, <2>2, OnlyMountedRejected DEF StreamRuns, StreamFollows, Invalidate
    <3> QED BY <2>1, <3>1 DEF EntryInv
  <2>3. CASE ~Rejected
    BY <1>1, <2>1, <2>3 DEF StreamRuns, StreamFollows, EntryInv
  <2> QED BY <2>2, <2>3
<1>2. CASE PageNetEvent \/ PageResumes
  <2>1. mounted' = mounted
    BY <1>2 DEF PageNetEvent, PageResumes, NetEvent, Resume, host, vars
  <2>2. CASE ResumeAccess
    BY <2>1, <2>2 DEF ResumeAccess, EntryInv
  <2>3. CASE UNCHANGED entry
    BY <2>1, <2>3 DEF entry, EntryInv
  <2> QED BY <1>2, <2>2, <2>3 DEF PageNetEvent, PageResumes
<1>3. CASE Render
  BY <1>3 DEF Render, Admitted, Mount, Unmount, EntryInv, entry
<1>4. CASE ProbeEffect \/ SubmitLogin \/ Logout \/ LogoutEnds \/ CheckAgain
  BY <1>4 DEF ProbeEffect, SubmitLogin, FormShown, Logout, Leave, LogoutEnds, CheckAgain,
     EntryInv, vars, host
<1>5. CASE SessionExpires \/ ExpiryFires
  BY <1>5 DEF SessionExpires, ExpiryFires, EntryInv, vars, host
<1>6. ASSUME NEW answer \in Answered, AccessProbeEnds(answer) \/ LoginEnds(answer)
      PROVE  EntryInv'
  BY <1>6 DEF AccessProbeEnds, LoginEnds, EntryInv, vars, host
<1>7. CASE UNCHANGED pageVars
  BY <1>7 DEF pageVars, entry, vars, host, EntryInv
<1> QED BY <1>1, <1>2, <1>3, <1>4, <1>5, <1>6, <1>7 DEF PageNext

LEMMA PageInvariance == PageSpec => [](IInv /\ EntryInv)
<1>1. PageInit => EntryInv
  BY DEF PageInit, Init, EntryInv
<1>2. PageSpec => []IInv
  BY PageImplementsStream, Invariance, PTL
<1> QED BY <1>1, <1>2, EntryStep, PTL DEF PageSpec

(* No request of the page is out that could overwrite what a newer one has  *)
(* decided about the session.                                               *)
THEOREM PageDecidesOnce == PageSpec => []OneDecision
<1>1. EntryInv => OneDecision
  BY DEF EntryInv, OneDecision
<1> QED BY <1>1, PageInvariance, PTL

(* A session that was entered ends for one of three reasons.                *)
THEOREM SessionEndsForAReason == PageSpec => SessionStays
<1>1. IInv /\ EntryInv /\ [PageNext]_pageVars =>
         [access = "authenticated" /\ access' # "authenticated"
            => expired \/ Rejected \/ (operation = "none" /\ operation' = "logout")]_pageVars
  <2> SUFFICES ASSUME EntryInv, [PageNext]_pageVars,
                      access = "authenticated", access' # "authenticated", ~expired, ~Rejected
               PROVE  operation = "none" /\ operation' = "logout"
    OBVIOUS
  <2>1. ~probing /\ ~recheck /\ operation = "none"
    BY DEF EntryInv
  <2>2. ~(StreamRuns \/ PageNetEvent \/ PageResumes \/ Render)
    BY DEF StreamRuns, StreamFollows, PageNetEvent, PageResumes, ResumeAccess, Render, entry
  <2>3. ~(ProbeEffect \/ SubmitLogin \/ LogoutEnds \/ CheckAgain \/ SessionExpires \/ ExpiryFires)
    BY <2>1 DEF ProbeEffect, SubmitLogin, LogoutEnds, CheckAgain, SessionExpires, ExpiryFires
  <2>4. \A answer : ~AccessProbeEnds(answer) /\ ~LoginEnds(answer)
    BY <2>1 DEF AccessProbeEnds, LoginEnds
  <2>5. Logout
    BY <2>2, <2>3, <2>4 DEF PageNext, pageVars, entry
  <2> QED BY <2>5 DEF Logout
<1> QED BY <1>1, PageInvariance, PTL DEF PageSpec, SessionStays
=============================================================================
