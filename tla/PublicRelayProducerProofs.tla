--------------------- MODULE PublicRelayProducerProofs ----------------------
(***************************************************************************)
(* Theorems about PublicRelayProducer for any number of snapshots, any      *)
(* clock and any age limit.                                                 *)
(***************************************************************************)
EXTENDS PublicRelayProducer, TLAPS

LEMMA TypeInit == Init => TypeOK
<1> SUFFICES ASSUME Init PROVE TypeOK
  OBVIOUS
<1>1. 0 \in 0..MaxTime /\ 0 \in 0..MaxFrame /\ 0 \in 0..0 /\ 0 \in 0..FailureCap
  BY ProducerAssumption DEF FailureCap
<1>2. inFlight \in [frame : 0..serial, generation : 0..serial]
  BY <1>1 DEF Init, NoFrame
<1> QED  BY <1>1, <1>2 DEF Init, TypeOK

(* What connects the lifecycle to the worker and the status.                *)
Life ==
    /\ lifecycle = "starting" =>
          /\ started /\ wpc = "none" /\ ~tokenErased
          /\ state \in {"connecting", "retiring"}
    /\ lifecycle = "joining" => started /\ stopping
    /\ ~started => wpc = "none"
    /\ state = "retiring" => started /\ stopping
    /\ StatusIsTrue /\ NoAttemptWithoutToken

(* The snapshot in flight against the pending one.  Recorded is what        *)
(* sentGeneration is or is about to be.                                     *)
OnWire == wpc \in {"sending", "sent"}
Recorded == IF wpc = "sent" THEN inFlight.generation ELSE sentGeneration
Frames ==
    /\ OnWire =>
          /\ sentGeneration < inFlight.generation
          /\ inFlight.generation <= pendingGeneration
          /\ pending # 0 /\ pendingGeneration = inFlight.generation => inFlight.frame = pending
          /\ pending # 0 /\ pendingGeneration # inFlight.generation => pending > inFlight.frame
    /\ wpc = "sending" => inFlight.frame > delivered
    /\ wpc = "sent" => inFlight.frame = delivered
    /\ pending # 0 /\ pendingGeneration # Recorded => pending > delivered
    /\ SentMeansDelivered

LEMMA TypeStep == TypeOK /\ Frames /\ [Next]_vars => TypeOK'
<1> SUFFICES ASSUME TypeOK, Frames, [Next]_vars PROVE TypeOK'
  OBVIOUS
<1> USE ProducerAssumption DEF statusVars, workVars, frameVars, TypeOK, Running, FailureCap,
  OnWire, Frames
<1>1. CASE Tick
  BY <1>1 DEF Tick
<1>2. CASE StartBegin
  BY <1>2 DEF StartBegin, ConfigValid
<1>3. CASE StartThread
  <2>1. 0 \in 0..FailureCap
    BY DEF FailureCap
  <2>2. wpc' \in {"none", "exited"} \cup Running /\ failureCount' \in 0..FailureCap
    BY <1>3, <2>1 DEF StartThread
  <2>3. started' \in BOOLEAN /\ state' \in {"disabled", "connecting", "connected", "backoff",
    "retiring", "failed"}
    BY <1>3 DEF StartThread
  <2> QED  BY <1>3, <2>2, <2>3 DEF StartThread
<1>4. CASE RequestStop
  BY <1>4 DEF RequestStop
<1>5. CASE StopBegin
  BY <1>5 DEF StopBegin
<1>6. CASE StopEnd
  <2>1. 0 \in 0..now /\ 0 \in 0..serial /\ 0 \in 0..0
    OBVIOUS
  <2> QED  BY <1>6, <2>1 DEF StopEnd, ForgetFrames
<1>7. CASE Publish
  BY <1>7 DEF Publish, Accepting
<1>8. CASE PublishOversize
  BY <1>8 DEF PublishOversize, Accepting, Discard
<1>9. CASE Attempt
  BY <1>9 DEF Attempt, Unless, Exit, Work, Quiet
<1>10. CASE Connect
  BY <1>10 DEF Connect, Answers, Work, Quiet
<1>11. CASE Rejected
  BY <1>11 DEF Rejected, Exit, Work, Quiet
<1>12. CASE Opened
  BY <1>12 DEF Opened, Unless, Exit, Work, Quiet
<1>13. CASE StopWaiting
  BY <1>13 DEF StopWaiting, Exit, Work, Quiet
<1>14. CASE TakeFrame
  BY <1>14 DEF TakeFrame, Wake, Ready, Discard, Work
<1>15. CASE SendOk
  BY <1>15 DEF SendOk, Work
<1>16. CASE RecordSent
  BY <1>16 DEF RecordSent, RecordedGeneration, Work
<1>17. CASE SendFails
  BY <1>17 DEF SendFails, Work, Quiet
<1>18. CASE WaitAfterFailure
  BY <1>18 DEF WaitAfterFailure, Unless, Exit, Work, Quiet
<1>19. CASE BackoffEnds
  BY <1>19 DEF BackoffEnds, Exit, Work, Quiet, NextFailureCount
<1>20. CASE WorkerThrows
  BY <1>20 DEF WorkerThrows, Quiet
<1>u. CASE UNCHANGED vars
  BY <1>u DEF vars
<1> QED  BY <1>1, <1>2, <1>3, <1>4, <1>5, <1>6, <1>7, <1>8, <1>9, <1>10, <1>11, <1>12, <1>13,
  <1>14, <1>15, <1>16, <1>17, <1>18, <1>19, <1>20, <1>u
        DEF Next, LifecycleStep, WorkerStep

LEMMA LifeStep == TypeOK /\ Life /\ [Next]_vars => Life'
<1> SUFFICES ASSUME TypeOK, Life, [Next]_vars PROVE Life'
  OBVIOUS
<1> USE DEF statusVars, workVars, frameVars, TypeOK, Running, Life, StatusIsTrue,
  NoAttemptWithoutToken
<1>1. CASE Tick
  BY <1>1 DEF Tick
<1>2. CASE StartBegin
  BY <1>2 DEF StartBegin, ConfigValid
<1>3. CASE StartThread
  <2>1. started /\ wpc = "none" /\ ~tokenErased /\ state \in {"connecting", "retiring"}
    BY <1>3 DEF StartThread
  <2>2. CASE wpc' = "attempt" /\ UNCHANGED <<started, state>>
    BY <1>3, <2>1, <2>2 DEF StartThread
  <2>3. CASE started' = FALSE /\ state' = "failed" /\ UNCHANGED wpc
    BY <1>3, <2>1, <2>3 DEF StartThread
  <2> QED  BY <1>3, <2>2, <2>3 DEF StartThread
<1>4. CASE RequestStop
  BY <1>4 DEF RequestStop
<1>5. CASE StopBegin
  BY <1>5 DEF StopBegin
<1>6. CASE StopEnd
  BY <1>6 DEF StopEnd, ForgetFrames
<1>7. CASE Publish
  BY <1>7 DEF Publish, Accepting
<1>8. CASE PublishOversize
  BY <1>8 DEF PublishOversize, Accepting, Discard
<1>9. CASE Attempt
  BY <1>9 DEF Attempt, Unless, Exit, Work, Quiet
<1>10. CASE Connect
  BY <1>10 DEF Connect, Answers, Work, Quiet
<1>11. CASE Rejected
  BY <1>11 DEF Rejected, Exit, Work, Quiet
<1>12. CASE Opened
  BY <1>12 DEF Opened, Unless, Exit, Work, Quiet
<1>13. CASE StopWaiting
  BY <1>13 DEF StopWaiting, Exit, Work, Quiet
<1>14. CASE TakeFrame
  BY <1>14 DEF TakeFrame, Wake, Ready, Discard, Work
<1>15. CASE SendOk
  BY <1>15 DEF SendOk, Work
<1>16. CASE RecordSent
  BY <1>16 DEF RecordSent, RecordedGeneration, Work
<1>17. CASE SendFails
  BY <1>17 DEF SendFails, Work, Quiet
<1>18. CASE WaitAfterFailure
  BY <1>18 DEF WaitAfterFailure, Unless, Exit, Work, Quiet
<1>19. CASE BackoffEnds
  BY <1>19 DEF BackoffEnds, Exit, Work, Quiet, NextFailureCount
<1>20. CASE WorkerThrows
  BY <1>20 DEF WorkerThrows, Quiet
<1>u. CASE UNCHANGED vars
  BY <1>u DEF vars
<1> QED  BY <1>1, <1>2, <1>3, <1>4, <1>5, <1>6, <1>7, <1>8, <1>9, <1>10, <1>11, <1>12, <1>13,
  <1>14, <1>15, <1>16, <1>17, <1>18, <1>19, <1>20, <1>u
        DEF Next, LifecycleStep, WorkerStep

LEMMA FramesStep == TypeOK /\ Life /\ Frames /\ [Next]_vars => Frames'
<1> SUFFICES ASSUME TypeOK, Life, Frames, [Next]_vars PROVE Frames'
  OBVIOUS
<1> USE DEF statusVars, workVars, frameVars, TypeOK, Running, Frames, OnWire, Recorded,
  SentMeansDelivered
<1>1. CASE Tick
  BY <1>1 DEF Tick
<1>2. CASE StartBegin
  BY <1>2 DEF StartBegin, ConfigValid
<1>3. CASE StartThread
  <2>1. wpc = "none"
    BY <1>3 DEF StartThread, Life
  <2> QED  BY <1>3, <2>1 DEF StartThread
<1>4. CASE RequestStop
  BY <1>4 DEF RequestStop
<1>5. CASE StopBegin
  BY <1>5 DEF StopBegin
<1>6. CASE StopEnd
  BY <1>6 DEF StopEnd, ForgetFrames, Life
<1>7. CASE Publish
  BY <1>7 DEF Publish, Accepting
<1>8. CASE PublishOversize
  BY <1>8 DEF PublishOversize, Accepting, Discard
<1>9. CASE Attempt
  BY <1>9 DEF Attempt, Unless, Exit, Work, Quiet
<1>10. CASE Connect
  BY <1>10 DEF Connect, Answers, Work, Quiet
<1>11. CASE Rejected
  BY <1>11 DEF Rejected, Exit, Work, Quiet
<1>12. CASE Opened
  BY <1>12 DEF Opened, Unless, Exit, Work, Quiet
<1>13. CASE StopWaiting
  BY <1>13 DEF StopWaiting, Exit, Work, Quiet
<1>14. CASE TakeFrame
  BY <1>14 DEF TakeFrame, Wake, Ready, Discard, Work
<1>15. CASE SendOk
  BY <1>15 DEF SendOk, Work
<1>16. CASE RecordSent
  BY <1>16 DEF RecordSent, RecordedGeneration, Work
<1>17. CASE SendFails
  BY <1>17 DEF SendFails, Work, Quiet
<1>18. CASE WaitAfterFailure
  BY <1>18 DEF WaitAfterFailure, Unless, Exit, Work, Quiet
<1>19. CASE BackoffEnds
  BY <1>19 DEF BackoffEnds, Exit, Work, Quiet, NextFailureCount
<1>20. CASE WorkerThrows
  BY <1>20 DEF WorkerThrows, Quiet
<1>u. CASE UNCHANGED vars
  BY <1>u DEF vars
<1> QED  BY <1>1, <1>2, <1>3, <1>4, <1>5, <1>6, <1>7, <1>8, <1>9, <1>10, <1>11, <1>12, <1>13,
  <1>14, <1>15, <1>16, <1>17, <1>18, <1>19, <1>20, <1>u
        DEF Next, LifecycleStep, WorkerStep

IInv == TypeOK /\ Life /\ Frames

LEMMA Inductive == Spec => []IInv
<1>1. Init => IInv
  BY TypeInit DEF Init, IInv, Life, StatusIsTrue, NoAttemptWithoutToken, Frames, OnWire,
     Recorded, SentMeansDelivered, Running
<1>2. IInv /\ [Next]_vars => IInv'
  BY TypeStep, LifeStep, FramesStep DEF IInv
<1> QED  BY <1>1, <1>2, PTL DEF Spec

(* Every reachable state of the producer is well typed; in particular the   *)
(* generation counted as sent never runs ahead of the pending one.          *)
THEOREM TypeCorrect == Spec => []TypeOK
<1>1. IInv => TypeOK
  BY DEF IInv
<1> QED  BY <1>1, Inductive, PTL

(* What is counted as sent was delivered.                                   *)
THEOREM SentWasDelivered == Spec => []SentMeansDelivered
<1>1. IInv => SentMeansDelivered
  BY DEF IInv, Frames
<1> QED  BY <1>1, Inductive, PTL

(* The status never claims a failure while the worker still uses the        *)
(* network, nor a connection that is gone.                                  *)
THEOREM StatusTells == Spec => []StatusIsTrue
<1>1. IInv => StatusIsTrue
  BY DEF IInv, Life
<1> QED  BY <1>1, Inductive, PTL

(* No connection attempt is made with a token that was wiped.               *)
THEOREM TokenIsWhole == Spec => []NoAttemptWithoutToken
<1>1. IInv => NoAttemptWithoutToken
  BY DEF IInv, Life
<1> QED  BY <1>1, Inductive, PTL

(* Successive deliveries carry strictly newer snapshots.                    *)
THEOREM DeliveriesIncrease == Spec => DeliveryIncreases
<1>1. IInv => (SendOk => inFlight.frame > delivered)
  BY DEF IInv, Frames, SendOk, Work
<1>2. IInv /\ [Next]_vars => [SendOk => inFlight.frame > delivered]_vars
  BY <1>1
<1> QED  BY <1>2, Inductive, PTL DEF Spec, DeliveryIncreases

(* Nothing but the end of the stop follows the status retiring.             *)
THEOREM RetiringStays == Spec => RetiringIsFinal
<1> DEFINE Final == state = "retiring" /\ wpc # "none" => state' \in {"retiring", "disabled"}
<1>1. IInv /\ [Next]_vars => [Final]_vars
  <2> SUFFICES ASSUME IInv, Next, state = "retiring", wpc # "none"
               PROVE  state' \in {"retiring", "disabled"}
    OBVIOUS
  <2>1. started /\ stopping /\ lifecycle # "starting"
    BY DEF IInv, Life
  <2> USE DEF statusVars
  <2>2. CASE LifecycleStep
    BY <2>1, <2>2 DEF LifecycleStep, StartBegin, StartThread, RequestStop, StopBegin, StopEnd
  <2>3. CASE WorkerStep
    <3> USE <2>1 DEF Unless, Exit, Work, Quiet
    <3>1. CASE Attempt \/ Opened \/ WaitAfterFailure
      BY <3>1 DEF Attempt, Opened, WaitAfterFailure
    <3>2. CASE Connect \/ SendOk \/ RecordSent \/ SendFails \/ TakeFrame
      BY <3>2 DEF Connect, Answers, SendOk, RecordSent, SendFails, TakeFrame
    <3>3. CASE Rejected \/ StopWaiting \/ BackoffEnds \/ WorkerThrows
      BY <3>3 DEF Rejected, StopWaiting, BackoffEnds, WorkerThrows
    <3> QED  BY <2>3, <3>1, <3>2, <3>3 DEF WorkerStep
  <2>4. CASE Tick \/ Publish \/ PublishOversize
    BY <2>4 DEF Tick, Publish, PublishOversize
  <2> QED  BY <2>2, <2>3, <2>4 DEF Next
<1> QED  BY <1>1, Inductive, PTL DEF Spec, RetiringIsFinal

(* The relay is sent each snapshot once, in order, and what the producer    *)
(* believes to have sent is what it sent.                                   *)
THEOREM DeliveryExact == Spec => DeliveryIsExact
  BY SentWasDelivered, DeliveriesIncrease DEF DeliveryIsExact
=============================================================================
