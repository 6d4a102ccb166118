------------------------ MODULE PublicRelayProducer -------------------------
(***************************************************************************)
(* PublicRelayProducer::Impl of public_relay_producer.cpp: the thread that  *)
(* uploads snapshots to the relay, its lifecycle calls and its one pending  *)
(* snapshot.  Lifecycle calls and publish come from any thread, start and   *)
(* stop exclude each other; every section under mutex_ is one action.       *)
(*                                                                          *)
(* A snapshot is its serial number in order of publication.  connect() and  *)
(* WinHttpWebSocketSend are calls with a free outcome; backoff delays are   *)
(* abstracted to "some time"; statistics are left out.                      *)
(***************************************************************************)
EXTENDS Naturals

CONSTANTS
    MaxFrame,   \* bound of the model: snapshots published
    MaxTime,    \* bound of the model: ticks of the clock
    MaxAge      \* maximumQueuedSnapshotAgeMilliseconds, in ticks

ASSUME ProducerAssumption == MaxFrame \in Nat /\ MaxTime \in Nat /\ MaxAge \in Nat

VARIABLES
    now,
    lifecycle,      \* who is inside start or stop
    started, stopping,
    state,          \* status_.state
    tokenErased,    \* config_.token was wiped
    wpc,            \* the worker thread; "none" when there is none to join
    failureCount,
    pending,        \* 0 or the pending snapshot, and when it was queued
    pendingAt,
    pendingGeneration, sentGeneration,
    inFlight,       \* snapshot and generation the worker took
    \* history
    serial,         \* snapshots published so far
    delivered       \* snapshots WinHTTP accepted, newest last known

statusVars == <<started, stopping, state, tokenErased>>
frameVars == <<pending, pendingAt, pendingGeneration, sentGeneration>>
workVars == <<wpc, failureCount, inFlight>>
vars == <<now, lifecycle, statusVars, workVars, frameVars, serial, delivered>>

Running == {"attempt", "connecting", "rejected", "opened", "waiting", "sending",
            "sent", "failing", "backoff"}
FailureCap == 5     \* shift beyond which the delay no longer grows

TypeOK ==
    /\ now \in 0..MaxTime
    /\ lifecycle \in {"free", "starting", "joining"}
    /\ started \in BOOLEAN /\ stopping \in BOOLEAN /\ tokenErased \in BOOLEAN
    /\ state \in {"disabled", "connecting", "connected", "backoff", "retiring", "failed"}
    /\ wpc \in {"none", "exited"} \cup Running
    /\ failureCount \in 0..FailureCap
    /\ {pending, delivered} \subseteq 0..serial /\ serial \in 0..MaxFrame
    /\ pendingAt \in 0..now
    /\ pendingGeneration \in 0..serial /\ sentGeneration \in 0..pendingGeneration
    /\ inFlight \in [frame : 0..serial, generation : 0..serial]

NoFrame == [frame |-> 0, generation |-> 0]

Init ==
    /\ now = 0 /\ lifecycle = "free"
    /\ started = FALSE /\ stopping = FALSE /\ state = "disabled" /\ tokenErased = FALSE
    /\ wpc = "none" /\ failureCount = 0 /\ inFlight = NoFrame
    /\ pending = 0 /\ pendingAt = 0 /\ pendingGeneration = 0 /\ sentGeneration = 0
    /\ serial = 0 /\ delivered = 0

Tick ==
    /\ now < MaxTime /\ now' = now + 1
    /\ UNCHANGED <<lifecycle, statusVars, workVars, frameVars, serial, delivered>>
-----------------------------------------------------------------------------
(* start, stop, requestStop *)

(* validatePublicRelayConfig; an erased token never passes it. *)
ConfigValid == ~tokenErased

StartBegin ==
    /\ lifecycle = "free" /\ ~started
    /\ IF ConfigValid
       THEN /\ lifecycle' = "starting"
            /\ stopping' = FALSE /\ started' = TRUE /\ state' = "connecting"
       ELSE /\ state' = "failed"
            /\ UNCHANGED <<lifecycle, started, stopping>>
    /\ UNCHANGED <<now, tokenErased, workVars, frameVars, serial, delivered>>

(* The thread starts, or creating it throws. *)
StartThread ==
    /\ lifecycle = "starting" /\ lifecycle' = "free"
    /\ \/ wpc' = "attempt" /\ failureCount' = 0 /\ UNCHANGED <<started, state>>
       \/ started' = FALSE /\ state' = "failed" /\ UNCHANGED <<wpc, failureCount>>
    /\ UNCHANGED <<now, stopping, tokenErased, inFlight, frameVars, serial, delivered>>

RequestStop ==
    /\ started /\ ~stopping
    /\ stopping' = TRUE /\ state' = "retiring"
    /\ UNCHANGED <<now, lifecycle, started, tokenErased, workVars, frameVars, serial,
                   delivered>>

StopBegin ==
    /\ lifecycle = "free"
    /\ IF started THEN lifecycle' = "joining" /\ stopping' = TRUE /\ UNCHANGED state
                  ELSE state' = "disabled" /\ UNCHANGED <<lifecycle, stopping>>
    /\ UNCHANGED <<now, started, tokenErased, workVars, frameVars, serial, delivered>>

ForgetFrames ==
    /\ pending' = 0 /\ pendingAt' = 0
    /\ pendingGeneration' = 0 /\ sentGeneration' = 0

(* stop returns from the join; the thread object is gone. *)
StopEnd ==
    /\ lifecycle = "joining" /\ wpc \in {"none", "exited"}
    /\ lifecycle' = "free" /\ wpc' = "none"
    /\ started' = FALSE /\ stopping' = FALSE /\ state' = "disabled"
    /\ ForgetFrames
    /\ UNCHANGED <<now, tokenErased, failureCount, inFlight, serial, delivered>>
-----------------------------------------------------------------------------
(* publish *)

Accepting == started /\ ~stopping

Publish ==
    /\ serial < MaxFrame /\ Accepting
    /\ serial' = serial + 1
    /\ pending' = serial' /\ pendingAt' = now
    /\ pendingGeneration' = pendingGeneration + 1
    /\ UNCHANGED <<now, lifecycle, statusVars, workVars, sentGeneration, delivered>>

Discard == pending' = 0 /\ pendingAt' = 0 /\ UNCHANGED <<pendingGeneration, sentGeneration>>

(* A snapshot too large to send also drops the one that waits. *)
PublishOversize ==
    /\ serial < MaxFrame /\ Accepting
    /\ serial' = serial + 1
    /\ Discard
    /\ UNCHANGED <<now, lifecycle, statusVars, workVars, delivered>>
-----------------------------------------------------------------------------
(* The worker *)

Work(from, to) == wpc = from /\ wpc' = to
Exit(from) == stopping /\ Work(from, "exited") /\ UNCHANGED <<statusVars, failureCount>>
(* A section under mutex_: stopping ends the worker, else it goes on. *)
Unless_EvenStopping(from, to, newState) ==
    /\ Work(from, to) /\ state' = newState
    /\ UNCHANGED <<started, stopping, tokenErased, failureCount>>
Unless(from, to, newState) ==
    \/ Exit(from)
    \/ /\ ~stopping /\ Work(from, to) /\ state' = newState
       /\ UNCHANGED <<started, stopping, tokenErased, failureCount>>
Quiet == UNCHANGED <<now, lifecycle, inFlight, frameVars, serial, delivered>>

Attempt == Unless("attempt", "connecting", "connecting") /\ Quiet

(* The answer to connect(): upgraded, failed for now, or rejected for good.  *)
Answers == {"opened", "failing", "rejected"}

(* What fails before the request is sent fails for now or for good as well. *)
Connect ==
    /\ \E result \in Answers : Work("connecting", result)
    /\ UNCHANGED <<statusVars, failureCount>> /\ Quiet

(* The token is wiped after a permanent rejection. *)
Rejected ==
    /\ \/ Exit("rejected")
       \/ /\ ~stopping /\ Work("rejected", "exited")
          /\ state' = "failed" /\ tokenErased' = TRUE
          /\ UNCHANGED <<started, stopping, failureCount>>
    /\ Quiet

Opened == Unless("opened", "waiting", "connected") /\ Quiet

Ready_AnyPending == pending # 0
Ready == pending # 0 /\ pendingGeneration # sentGeneration
Expired == now - pendingAt > MaxAge

Wake == Ready

StopWaiting_OnlyWithFrame == Ready /\ Exit("waiting") /\ Quiet
StopWaiting == Exit("waiting") /\ Quiet

TakeFrame ==
    /\ ~stopping /\ Wake
    /\ IF Expired
       THEN Discard /\ UNCHANGED <<wpc, inFlight>>
       ELSE /\ Work("waiting", "sending")
            /\ inFlight' = [frame |-> pending, generation |-> pendingGeneration]
            /\ UNCHANGED frameVars
    /\ wpc = "waiting"
    /\ UNCHANGED <<now, lifecycle, statusVars, failureCount, serial, delivered>>

SendOk ==
    /\ Work("sending", "sent")
    /\ delivered' = inFlight.frame
    /\ UNCHANGED <<now, lifecycle, statusVars, failureCount, inFlight, frameVars, serial>>

RecordedGeneration_Current == pendingGeneration
RecordedGeneration == inFlight.generation

RecordSent ==
    /\ Work("sent", "waiting")
    /\ sentGeneration' = RecordedGeneration
    /\ UNCHANGED <<now, lifecycle, statusVars, failureCount, inFlight, pending, pendingAt,
                   pendingGeneration, serial, delivered>>

(* The peer may have got a frame whose send failed.  A connection that      *)
(* stayed up long enough forgives the failures before it.                   *)
SendFails ==
    /\ Work("sending", "failing")
    /\ failureCount' \in {failureCount, 0}
    /\ UNCHANGED statusVars /\ Quiet

(* waitAfterFailure *)
WaitAfterFailure_Silent == Unless("failing", "backoff", state) /\ Quiet
WaitAfterFailure == Unless("failing", "backoff", "backoff") /\ Quiet

NextFailureCount == IF failureCount < FailureCap THEN failureCount + 1 ELSE FailureCap

BackoffEnds ==
    /\ \/ Exit("backoff")
       \/ /\ ~stopping /\ Work("backoff", "attempt")
          /\ failureCount' = NextFailureCount /\ UNCHANGED statusVars
    /\ Quiet

(* An allocation fails in connect() or while an error is put into words.    *)
WorkerThrows ==
    /\ wpc \in {"connecting", "sending"} /\ wpc' = "exited"
    /\ state' = IF stopping THEN state ELSE "failed"
    /\ tokenErased' = TRUE
    /\ UNCHANGED <<started, stopping, failureCount>> /\ Quiet
-----------------------------------------------------------------------------
WorkerStep ==
    \/ Attempt \/ Connect \/ Rejected \/ Opened \/ StopWaiting \/ TakeFrame
    \/ SendOk \/ RecordSent \/ SendFails \/ WaitAfterFailure \/ BackoffEnds
    \/ WorkerThrows

LifecycleStep == StartBegin \/ StartThread \/ RequestStop \/ StopBegin \/ StopEnd

Next == Tick \/ LifecycleStep \/ Publish \/ PublishOversize \/ WorkerStep

Spec == Init /\ [][Next]_vars

(* The worker runs while it can; connect() is bounded by the WinHTTP        *)
(* timeouts, while a send has no documented bound and gets no fairness.     *)
Fairness ==
    /\ WF_vars(WorkerStep /\ wpc # "sending")
    /\ WF_vars(StartThread \/ StopEnd)

FairSpec == Spec /\ Fairness
-----------------------------------------------------------------------------
(* What is counted as sent was delivered: a snapshot published while an     *)
(* older one is on the wire is never mistaken for it and never lost.        *)
SentMeansDelivered ==
    pending # 0 /\ pendingGeneration = sentGeneration => delivered = pending

(* Snapshots reach the relay in order of publication, across replacements,  *)
(* drops, reconnects and restarts, and none is sent again once WinHTTP      *)
(* accepted it.                                                             *)
DeliveryIncreases == [][SendOk => inFlight.frame > delivered]_vars

(* The relay is sent each snapshot once, in order, and what the producer    *)
(* believes to have sent is what it sent.                                   *)
DeliveryIsExact == []SentMeansDelivered /\ DeliveryIncreases

(* Once asked to stop, no late answer of the network changes what the       *)
(* status reports, unless the thread could not even be created.             *)
RetiringIsFinal ==
    [][state = "retiring" /\ wpc # "none" => state' \in {"retiring", "disabled"}]_vars

(* A wiped token is never presented, whoever starts the producer again.     *)
NoAttemptWithoutToken == tokenErased => wpc \in {"none", "exited"}

(* The reported state is the worker's: failed means that no thread uses the *)
(* network, connected that the socket is open.                              *)
StatusIsTrue ==
    /\ state = "failed" => wpc \in {"none", "exited"}
    /\ state = "connected" => wpc \in {"waiting", "sending", "sent", "failing", "exited"}
    /\ state = "disabled" => ~started /\ wpc = "none"

(* A stop request ends the worker; only a send that WinHTTP does not return *)
(* from can hold it up, and no send starts after the request.               *)
StopEndsWorker ==
    (stopping /\ wpc # "sending") ~> (wpc \in {"none", "exited"} \/ ~stopping)

(* While the producer runs, a waiting snapshot is taken (or dropped for its *)
(* age) once the connection is up.                                          *)
WaitingFrameTaken == (wpc = "waiting" /\ Ready) ~> (wpc # "waiting" \/ ~Ready)

(* The worker never gives up on its own but for a permanent failure.        *)
FailureIsRetried == (wpc = "failing") ~> (wpc \in {"connecting", "exited"})

(* Stop requests, waiting snapshots and failures are all served.            *)
WorkerProgress == StopEndsWorker /\ WaitingFrameTaken /\ FailureIsRetried
=============================================================================
