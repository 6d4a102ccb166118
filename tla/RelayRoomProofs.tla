-------------------------- MODULE RelayRoomProofs ---------------------------
(***************************************************************************)
(* Theorems about RelayRoom for every set of producers and viewers, every   *)
(* capacity, time to live and write timeout.                                *)
(***************************************************************************)
EXTENDS RelayRoom, TLAPS, FiniteSetTheorems

(* publish offers to every viewer in the room. *)
USE DEF Recipients

LEMMA TypeInit == Init => TypeOK
<1> SUFFICES ASSUME Init PROVE TypeOK
  OBVIOUS
<1> USE RoomAssumption DEF Init
<1>1. now \in Nat /\ 0 \in 0..now /\ frameGeneration \in 0..MaxFrame /\ 0 \in 0..frameGeneration
  OBVIOUS
<1>2. publishedAt \in [1..MaxFrame -> 0..now]
  BY <1>1
<1>3. /\ conn \in [Conns -> {"none", "open", "closed"}]
      /\ ppc \in [Producers -> ProducerPc] /\ vpc \in [Viewers -> ViewerPc]
      /\ wpc \in [Viewers -> WriterPc]
  BY DEF ProducerPc, ViewerPc, WriterPc
<1> QED BY <1>1, <1>2, <1>3 DEF TypeOK

LEMMA OfferType ==
    ASSUME NEW v \in Viewers, NEW g \in 0..frameGeneration, OfferTo(v, g),
           newest \in [Viewers -> 0..frameGeneration],
           slot \in [Viewers -> 0..frameGeneration]
    PROVE  /\ newest' \in [Viewers -> 0..frameGeneration]
           /\ slot' \in [Viewers -> 0..frameGeneration]
<1>1. CASE g > newest[v]
  BY <1>1 DEF OfferTo
<1>2. CASE ~(g > newest[v])
  BY <1>2 DEF OfferTo, boxVars
<1> QED BY <1>1, <1>2

LEMMA TypeStep == TypeOK /\ [Next]_vars => TypeOK'
<1> SUFFICES ASSUME TypeOK, [Next]_vars PROVE TypeOK'
  OBVIOUS
<1> USE RoomAssumption DEF TypeOK, Conns, ProducerPc, ViewerPc, WriterPc, Claiming,
        Seated, roomVars, producerVars, viewerVars, boxVars, writerVars, closeVars
<1>1. CASE Tick
  BY <1>1 DEF Tick
<1>2. ASSUME NEW t \in 0..now, ExpireLatest(t) PROVE TypeOK'
  <2>1. latest' \in 0..frameGeneration'
    BY <1>2 DEF ExpireLatest
  <2> QED BY <1>2, <2>1 DEF ExpireLatest
<1>3. ASSUME NEW p \in Producers, ProducerStep(p) PROVE TypeOK'
  <2>1. CASE ClaimProducer(p)
    BY <2>1, SMTT(30) DEF ClaimProducer
  <2>2. CASE ClaimRefused(p)
    BY <2>2 DEF ClaimRefused
  <2>3. CASE UpgradeProducer(p)
    BY <2>3 DEF UpgradeProducer
  <2>4. CASE AttachProducer(p)
    BY <2>4 DEF AttachProducer
  <2>5. CASE AttachProducerFails(p)
    BY <2>5 DEF AttachProducerFails
  <2>6. CASE ReceiveSnapshot(p)
    BY <2>6 DEF ReceiveSnapshot
  <2>7. CASE ProducerReturns(p)
    <3>1. received' \in [Producers -> 0..now] /\ ppc' \in [Producers -> ProducerPc]
      <4>1. 0 \in 0..now
        OBVIOUS
      <4> QED BY <2>7, <4>1 DEF ProducerReturns
    <3>2. conn' \in [Conns -> {"none", "open", "closed"}]
      BY <2>7 DEF ProducerReturns
    <3> QED BY <2>7, <3>1, <3>2 DEF ProducerReturns
  <2>8. CASE Publish(p)
    <3>1. /\ frameGeneration' = frameGeneration + 1 /\ frameGeneration' \in 0..MaxFrame
          /\ 0..frameGeneration \subseteq 0..frameGeneration'
          /\ frameGeneration + 1 \in 0..frameGeneration'
          /\ now' = now
      BY <2>8 DEF Publish, NumberFrame
    <3>2. latest' \in 0..frameGeneration'
      BY <2>8, <3>1 DEF Publish, NumberFrame
    <3>3. publishedAt' \in [1..MaxFrame -> 0..now']
      BY <2>8, <3>1 DEF Publish
    <3>4. /\ update' \in [Producers -> 0..frameGeneration']
          /\ received' \in [Producers -> 0..now']
          /\ targets' \in [Producers -> SUBSET Viewers]
          /\ ppc' \in [Producers -> ProducerPc]
      BY <2>8, <3>1 DEF Publish
    <3>5. /\ captured' \in [Viewers -> 0..frameGeneration']
          /\ joined' \in [Viewers -> 0..frameGeneration']
          /\ newest' \in [Viewers -> 0..frameGeneration']
          /\ slot' \in [Viewers -> 0..frameGeneration']
          /\ taken' \in [Viewers -> 0..frameGeneration']
          /\ sent' \in [Viewers -> 0..frameGeneration']
      BY <2>8, <3>1 DEF Publish
    <3> QED BY <2>8, <3>1, <3>2, <3>3, <3>4, <3>5 DEF Publish
  <2>9. ASSUME NEW v \in Viewers, Offer(p, v) PROVE TypeOK'
    <3>1. newest' \in [Viewers -> 0..frameGeneration] /\ slot' \in [Viewers -> 0..frameGeneration]
      BY <2>9, OfferType DEF Offer
    <3>2. targets' \in [Producers -> SUBSET Viewers]
      BY <2>9 DEF Offer
    <3> QED BY <2>9, <3>1, <3>2 DEF Offer
  <2>10. CASE OffersDone(p)
    BY <2>10 DEF OffersDone
  <2>11. CASE ReleaseProducer(p)
    BY <2>11 DEF ReleaseProducer
  <2> QED BY <1>3, <2>1, <2>2, <2>3, <2>4, <2>5, <2>6, <2>7, <2>8, <2>9, <2>10, <2>11
    DEF ProducerStep
<1>4. ASSUME NEW v \in Viewers, ViewerStep(v) PROVE TypeOK'
  <2>1. ASSUME NEW t \in 0..now, AddViewer(v, t) PROVE TypeOK'
    <3>1. viewers' \subseteq Viewers /\ vpc' \in [Viewers -> ViewerPc]
      BY <2>1 DEF AddViewer
    <3>2. /\ captured' \in [Viewers -> 0..frameGeneration]
          /\ joined' \in [Viewers -> 0..frameGeneration]
      <4>1. 0 \in 0..frameGeneration /\ frameGeneration \in 0..frameGeneration
        OBVIOUS
      <4> QED BY <2>1, <4>1 DEF AddViewer
    <3> QED BY <2>1, <3>1, <3>2 DEF AddViewer
  <2>2. CASE AddViewerRefused(v)
    BY <2>2 DEF AddViewerRefused
  <2>3. CASE UpgradeViewer(v)
    <3>1. vpc' \in [Viewers -> ViewerPc]
      BY <2>3 DEF UpgradeViewer
    <3>2. conn' \in [Conns -> {"none", "open", "closed"}]
      BY <2>3 DEF UpgradeViewer
    <3> QED BY <2>3, <3>1, <3>2 DEF UpgradeViewer
  <2>4. CASE AttachViewer(v)
    BY <2>4 DEF AttachViewer
  <2>5. CASE AttachViewerFails(v)
    BY <2>5 DEF AttachViewerFails, GiveUp
  <2>6. CASE AttachSessionFails(v)
    BY <2>6 DEF AttachSessionFails, GiveUp
  <2>7. CASE StartStream(v)
    <3>1. newest' \in [Viewers -> 0..frameGeneration] /\ slot' \in [Viewers -> 0..frameGeneration]
      BY <2>7, OfferType DEF StartStream
    <3>2. vpc' \in [Viewers -> ViewerPc] /\ wpc' \in [Viewers -> WriterPc]
      BY <2>7 DEF StartStream
    <3> QED BY <2>7, <3>1, <3>2 DEF StartStream
  <2>8. CASE ViewerReturns(v)
    BY <2>8 DEF ViewerReturns
  <2>9. CASE RemoveViewer(v)
    BY <2>9 DEF RemoveViewer
  <2>10. CASE SessionEnds(v)
    BY <2>10 DEF SessionEnds
  <2>11. CASE SessionClosesConn(v)
    BY <2>11 DEF SessionClosesConn
  <2> QED BY <1>4, <2>1, <2>2, <2>3, <2>4, <2>5, <2>6, <2>7, <2>8, <2>9, <2>10, <2>11 DEF ViewerStep
<1>5. ASSUME NEW v \in Viewers, WriterStep(v) PROVE TypeOK'
  <2>1. CASE TakeFrame(v)
    <3>1. /\ taken' \in [Viewers -> 0..frameGeneration] /\ slot' \in [Viewers -> 0..frameGeneration]
          /\ wpc' \in [Viewers -> WriterPc]
      BY <2>1 DEF TakeFrame
    <3> QED BY <2>1, <3>1 DEF TakeFrame
  <2>2. CASE JudgeFrame(v)
    <3>1. wpc' \in [Viewers -> WriterPc]
      BY <2>2 DEF JudgeFrame
    <3>2. ExpiryOf(taken[v]) > now => Earlier(ExpiryOf(taken[v]), now + WriteTimeout) \in Nat
      <4>1. taken[v] \in 1..MaxFrame
        BY <2>2 DEF JudgeFrame
      <4>2. publishedAt[taken[v]] \in Nat
        BY <4>1
      <4> QED BY <4>2 DEF ExpiryOf, Earlier
    <3>3. deadline' \in [Viewers -> Nat]
      <4>1. CASE deadline' = deadline
        BY <4>1
      <4>2. CASE /\ ExpiryOf(taken[v]) > now
                 /\ deadline' = [deadline EXCEPT ![v] =
                                   Earlier(ExpiryOf(taken[v]), now + WriteTimeout)]
        BY <3>2, <4>2
      <4> QED BY <2>2, <4>1, <4>2 DEF JudgeFrame
    <3> QED BY <2>2, <3>1, <3>3 DEF JudgeFrame
  <2>3. CASE WriteFrame(v)
    BY <2>3 DEF WriteFrame
  <2>4. CASE WriteFails(v)
    BY <2>4 DEF WriteFails
  <2>5. CASE WriterStops(v)
    BY <2>5 DEF WriterStops
  <2> QED BY <1>5, <2>1, <2>2, <2>3, <2>4, <2>5 DEF WriterStep
<1>6. CASE CloseStep
  <2>1. CASE BeginClose
    BY <2>1 DEF BeginClose
  <2>2. ASSUME NEW c \in Conns, CloseConn(c) PROVE TypeOK'
    BY <2>2 DEF CloseConn
  <2>3. CASE EndClose
    BY <2>3 DEF EndClose
  <2> QED BY <1>6, <2>1, <2>2, <2>3 DEF CloseStep
<1>7. CASE Finished
  BY <1>7 DEF Finished, vars
<1>8. CASE UNCHANGED vars
  BY <1>8 DEF vars
<1> QED BY <1>1, <1>2, <1>3, <1>4, <1>5, <1>6, <1>7, <1>8 DEF Next

(* Every state the room can reach has well-typed fields; in particular no   *)
(* viewer ever holds a generation that was not published.                   *)
THEOREM TypeCorrect == Spec => []TypeOK
  BY TypeInit, TypeStep, PTL DEF Spec
-----------------------------------------------------------------------------
(* Which steps touch what *)

claimVars == <<ppc, claim, producerActive, producerGeneration, producerConn,
               received, update, targets>>
mailVars == <<newest, slot, taken, sent, wpc, deadline>>

LEMMA OtherStepsFrame ==
    ASSUME Tick \/ (\E t \in 0..now : ExpireLatest(t)) \/ CloseStep \/ Finished
           \/ UNCHANGED vars
    PROVE  UNCHANGED <<claimVars, mailVars, viewers, vpc, captured, joined,
                       frameGeneration, publishedAt>>
  BY DEF claimVars, mailVars, Tick, ExpireLatest, CloseStep, BeginClose, CloseConn,
         EndClose, Finished, vars, roomVars, producerVars, viewerVars, boxVars,
         writerVars, closeVars

LEMMA ViewerSideFrame ==
    ASSUME NEW v \in Viewers, ViewerStep(v) \/ WriterStep(v)
    PROVE  UNCHANGED <<claimVars, frameGeneration, publishedAt, closing, closePc,
                       toClose>>
  BY DEF claimVars, ViewerStep, WriterStep, AddViewer, AddViewerRefused,
         UpgradeViewer, AttachViewer, AttachViewerFails, AttachSessionFails, GiveUp,
         StartStream, ViewerReturns, RemoveViewer, SessionEnds, SessionClosesConn,
         TakeFrame, JudgeFrame, WriteFrame, WriteFails, WriterStops,
         roomVars, producerVars, closeVars

LEMMA ProducerSideFrame ==
    ASSUME NEW p \in Producers, ProducerStep(p)
    PROVE  UNCHANGED <<viewers, vpc, captured, joined, wpc, taken, sent, deadline,
                       closing, closePc, toClose>>
  BY DEF ProducerStep, ClaimProducer, ClaimRefused, UpgradeProducer, AttachProducer,
         AttachProducerFails, ReceiveSnapshot, ProducerReturns, Publish, Offer,
         OffersDone, ReleaseProducer, roomVars, viewerVars, writerVars, closeVars
-----------------------------------------------------------------------------
(* One claim *)

(* OneClaim is not inductive alone: a release frees the slot only when the  *)
(* handler's generation is current, so every claiming handler must hold it. *)
ClaimInv ==
    /\ OneClaim
    /\ \A p \in Producers : ppc[p] \in Claiming => claim[p] = producerGeneration

LEMMA ClaimStep == TypeOK /\ ClaimInv /\ [Next]_vars => ClaimInv'
<1> SUFFICES ASSUME TypeOK, ClaimInv, [Next]_vars PROVE ClaimInv'
  OBVIOUS
<1> USE DEF ClaimInv, OneClaim, Claiming
<1>1. ASSUME UNCHANGED claimVars PROVE ClaimInv'
  BY <1>1 DEF claimVars
<1>2. ASSUME NEW p \in Producers, ProducerStep(p) PROVE ClaimInv'
  <2> USE DEF TypeOK
  <2>1. CASE ClaimProducer(p)
    BY <2>1 DEF ClaimProducer
  <2>2. CASE ReleaseProducer(p)
    BY <2>2 DEF ReleaseProducer
  <2>3. ASSUME UNCHANGED <<claim, producerActive, producerGeneration>>,
               NEW s \in ProducerPc, ppc' = [ppc EXCEPT ![p] = s],
               ppc[p] \in Claiming <=> s \in Claiming
        PROVE  ClaimInv'
    BY <2>3
  <2>4. CASE ClaimRefused(p)
    BY <2>4, <2>3 DEF ClaimRefused, roomVars, ProducerPc
  <2>5. CASE UpgradeProducer(p)
    BY <2>5, <2>3 DEF UpgradeProducer, roomVars, ProducerPc
  <2>6. CASE AttachProducer(p)
    BY <2>6, <2>3 DEF AttachProducer, ProducerPc
  <2>7. CASE AttachProducerFails(p)
    BY <2>7, <2>3 DEF AttachProducerFails, roomVars, ProducerPc
  <2>8. CASE ReceiveSnapshot(p)
    BY <2>8, <2>3 DEF ReceiveSnapshot, roomVars, ProducerPc
  <2>9. CASE ProducerReturns(p)
    BY <2>9, <2>3 DEF ProducerReturns, roomVars, ProducerPc
  <2>10. CASE Publish(p)
    BY <2>10, <2>3 DEF Publish, ProducerPc
  <2>11. CASE \E v \in Viewers : Offer(p, v)
    BY <2>11 DEF Offer, roomVars
  <2>12. CASE OffersDone(p)
    BY <2>12, <2>3 DEF OffersDone, roomVars, ProducerPc
  <2> QED BY <1>2, <2>1, <2>2, <2>4, <2>5, <2>6, <2>7, <2>8, <2>9, <2>10, <2>11, <2>12
          DEF ProducerStep
<1> QED BY <1>1, <1>2, OtherStepsFrame, ViewerSideFrame DEF Next, claimVars

(* At any time at most one connection publishes to the room, and the slot   *)
(* it claimed is free again once it has left: claimProducer,                *)
(* attachProducer and releaseProducer.                                      *)
THEOREM ClaimIsExclusive == Spec => []OneClaim
<1>1. Init => ClaimInv
  BY DEF Init, ClaimInv, OneClaim, Claiming
<1>2. ClaimInv => OneClaim
  BY DEF ClaimInv
<1> QED BY <1>1, <1>2, ClaimStep, TypeCorrect, PTL DEF Spec
-----------------------------------------------------------------------------
(* The mailbox of a viewer *)

(* What the writer does between taking a frame and writing it must be known *)
(* to compare the write with the earlier ones.                              *)
MailInv ==
    /\ NewestKept
    /\ \A v \in Viewers :
          /\ sent[v] <= taken[v]
          /\ wpc[v] \in {"taken", "writing"} => sent[v] < taken[v]

(* viewer.offer keeps the newest generation, whatever is offered.           *)
LEMMA OfferKeepsNewest ==
    ASSUME TypeOK, MailInv, NEW v \in Viewers, NEW g \in 0..frameGeneration,
           OfferTo(v, g), UNCHANGED taken
    PROVE  /\ NewestKept'
           /\ newest'[v] >= g
           /\ newest'[v] = g \/ newest'[v] = newest[v]
           /\ \A w \in Viewers : w # v => newest'[w] = newest[w] /\ slot'[w] = slot[w]
<1> USE DEF TypeOK, MailInv, NewestKept
<1>1. CASE g > newest[v]
  <2>1. newest'[v] = g /\ slot'[v] = g
    BY <1>1 DEF OfferTo
  <2>2. \A w \in Viewers : w # v => newest'[w] = newest[w] /\ slot'[w] = slot[w]
    BY <1>1 DEF OfferTo
  <2>3. g # 0 /\ taken[v] < g
    <3>1. /\ taken[v] \in Nat /\ newest[v] \in Nat /\ slot[v] \in Nat
          /\ g \in Nat
      OBVIOUS
    <3>2. IF slot[v] = 0 THEN taken[v] = newest[v]
                         ELSE slot[v] = newest[v] /\ taken[v] < slot[v]
      BY Zenon
    <3>3. taken[v] <= newest[v]
      <4> HIDE DEF TypeOK, MailInv, NewestKept
      <4> QED BY <3>1, <3>2
    <3> QED BY <1>1, <3>1, <3>3
  <2>4. \A w \in Viewers : IF slot'[w] = 0 THEN taken'[w] = newest'[w]
                            ELSE slot'[w] = newest'[w] /\ taken'[w] < slot'[w]
    <3> SUFFICES ASSUME NEW w \in Viewers
                 PROVE  IF slot'[w] = 0 THEN taken'[w] = newest'[w]
                            ELSE slot'[w] = newest'[w] /\ taken'[w] < slot'[w]
      OBVIOUS
    <3>1. taken'[w] = taken[w]
      OBVIOUS
    <3>2. CASE w = v
      <4> HIDE DEF TypeOK, MailInv, NewestKept
      <4> QED BY <2>1, <2>3, <3>1, <3>2
    <3>3. CASE w # v
      <4>1. IF slot[w] = 0 THEN taken[w] = newest[w]
                           ELSE slot[w] = newest[w] /\ taken[w] < slot[w]
        BY Zenon
      <4> HIDE DEF TypeOK, MailInv, NewestKept
      <4> QED BY <2>2, <3>1, <3>3, <4>1
    <3> QED BY <3>2, <3>3
  <2>5. NewestKept'
    BY <2>4 DEF NewestKept
  <2>6. newest'[v] >= g
    BY <2>1
  <2> HIDE DEF TypeOK, MailInv, NewestKept
  <2> QED BY <2>1, <2>2, <2>5, <2>6
<1>2. CASE ~(g > newest[v])
  BY <1>2 DEF OfferTo, boxVars
<1> QED BY <1>1, <1>2

LEMMA MailStep == TypeOK /\ MailInv /\ [Next]_vars => MailInv'
<1> SUFFICES ASSUME TypeOK, MailInv, [Next]_vars PROVE MailInv'
  OBVIOUS
<1>1. ASSUME UNCHANGED mailVars PROVE MailInv'
  BY <1>1 DEF mailVars, MailInv, NewestKept
<1>2. ASSUME NEW v \in Viewers, NEW g \in 0..frameGeneration, OfferTo(v, g),
             UNCHANGED <<taken, sent>>,
             \A w \in Viewers : wpc'[w] \in {"taken", "writing"} => wpc'[w] = wpc[w]
      PROVE  MailInv'
  BY <1>2, OfferKeepsNewest DEF MailInv, TypeOK
<1>3. ASSUME NEW p \in Producers, ProducerStep(p) PROVE MailInv'
  <2>1. ASSUME NEW v \in Viewers, Offer(p, v) PROVE MailInv'
    <3>1. update[p] \in 0..frameGeneration
      BY DEF TypeOK
    <3> QED BY <2>1, <3>1, <1>2 DEF Offer, writerVars
  <2>2. CASE ~\E v \in Viewers : Offer(p, v)
    <3>1. UNCHANGED mailVars
      BY <1>3, <2>2 DEF ProducerStep, ClaimProducer, ClaimRefused, UpgradeProducer,
         AttachProducer, AttachProducerFails, ReceiveSnapshot, ProducerReturns,
         Publish, OffersDone, ReleaseProducer, boxVars, writerVars, mailVars
    <3> QED BY <3>1, <1>1
  <2> QED BY <2>1, <2>2
<1>4. ASSUME NEW v \in Viewers, ViewerStep(v) PROVE MailInv'
  <2>1. CASE StartStream(v)
    <3>1. captured[v] \in 0..frameGeneration
      BY DEF TypeOK
    <3>2. \A w \in Viewers : wpc'[w] \in {"taken", "writing"} => wpc'[w] = wpc[w]
      BY <2>1 DEF StartStream, TypeOK
    <3> QED BY <2>1, <3>1, <3>2, <1>2 DEF StartStream
  <2>2. CASE ~StartStream(v)
    <3>1. UNCHANGED mailVars
      BY <1>4, <2>2 DEF ViewerStep, AddViewer, AddViewerRefused, UpgradeViewer,
         AttachViewer, AttachViewerFails, AttachSessionFails, GiveUp, ViewerReturns,
         RemoveViewer, SessionEnds, SessionClosesConn, boxVars, writerVars, mailVars
    <3> QED BY <3>1, <1>1
  <2> QED BY <2>1, <2>2
<1>5. ASSUME NEW v \in Viewers, WriterStep(v) PROVE MailInv'
  <2> USE DEF TypeOK, MailInv, NewestKept
  <2>1. CASE TakeFrame(v)
    BY <2>1 DEF TakeFrame
  <2>2. CASE JudgeFrame(v)
    BY <2>2 DEF JudgeFrame, boxVars
  <2>3. CASE WriteFrame(v)
    BY <2>3 DEF WriteFrame, boxVars
  <2>4. CASE WriteFails(v)
    BY <2>4 DEF WriteFails, boxVars
  <2>5. CASE WriterStops(v)
    BY <2>5 DEF WriterStops, boxVars
  <2> QED BY <1>5, <2>1, <2>2, <2>3, <2>4, <2>5 DEF WriterStep
<1> QED BY <1>1, <1>3, <1>4, <1>5, OtherStepsFrame DEF Next

LEMMA MailInit == Init => MailInv
  BY DEF Init, MailInv, NewestKept

(* The newest frame offered to a viewer is never lost or hidden by an older *)
(* one: viewer.offer with its late offer of the captured frame.             *)
THEOREM NewestFrameKept == Spec => []NewestKept
<1>1. MailInv => NewestKept
  BY DEF MailInv
<1> QED BY <1>1, MailInit, MailStep, TypeCorrect, PTL DEF Spec

(* Every viewer's connection carries strictly newer frames only: handleViewer, *)
(* publish and writeViewer together.                                           *)
THEOREM DeliveryIncreases == Spec => SentIncrease
<1>1. TypeOK /\ MailInv => \A v \in Viewers : WriteFrame(v) => taken[v] > sent[v]
  <2> SUFFICES ASSUME MailInv, TypeOK, NEW v \in Viewers, WriteFrame(v)
               PROVE  taken[v] > sent[v]
    OBVIOUS
  <2> QED BY DEF MailInv, WriteFrame, TypeOK
<1> QED BY <1>1, MailInit, MailStep, TypeCorrect, PTL DEF Spec, SentIncrease
-----------------------------------------------------------------------------
(* Each mailbox implements LatestSlot *)

LEMMA MailboxStep ==
    ASSUME TypeOK, MailInv, [Next]_vars, NEW v \in Viewers
    PROVE  [Mailbox(v)!Next]_(Mailbox(v)!vars)
<1> USE DEF Mailbox!Next, Mailbox!Offer, Mailbox!Take, Mailbox!vars
<1>1. ASSUME UNCHANGED <<newest, slot, taken>> PROVE [Mailbox(v)!Next]_(Mailbox(v)!vars)
  BY <1>1
<1>2. ASSUME NEW w \in Viewers, NEW g \in 0..frameGeneration, OfferTo(w, g),
             UNCHANGED taken
      PROVE  [Mailbox(v)!Next]_(Mailbox(v)!vars)
  <2>1. CASE w # v \/ ~(g > newest[w])
    BY <1>2, <2>1 DEF OfferTo, boxVars, TypeOK
  <2>2. CASE w = v /\ g > newest[w]
    BY <1>2, <2>2 DEF OfferTo, TypeOK
  <2> QED BY <2>1, <2>2
<1>3. ASSUME NEW p \in Producers, ProducerStep(p)
      PROVE  [Mailbox(v)!Next]_(Mailbox(v)!vars)
  <2>1. ASSUME NEW w \in Viewers, Offer(p, w)
        PROVE  [Mailbox(v)!Next]_(Mailbox(v)!vars)
    <3>1. update[p] \in 0..frameGeneration
      BY DEF TypeOK
    <3> QED BY <2>1, <3>1, <1>2 DEF Offer, writerVars
  <2>2. CASE ~\E w \in Viewers : Offer(p, w)
    <3>1. UNCHANGED <<newest, slot, taken>>
      BY <1>3, <2>2 DEF ProducerStep, ClaimProducer, ClaimRefused, UpgradeProducer,
         AttachProducer, AttachProducerFails, ReceiveSnapshot, ProducerReturns,
         Publish, OffersDone, ReleaseProducer, boxVars, writerVars
    <3> QED BY <3>1, <1>1
  <2> QED BY <2>1, <2>2
<1>4. ASSUME NEW w \in Viewers, ViewerStep(w)
      PROVE  [Mailbox(v)!Next]_(Mailbox(v)!vars)
  <2>1. CASE StartStream(w)
    <3>1. captured[w] \in 0..frameGeneration
      BY DEF TypeOK
    <3> QED BY <2>1, <3>1, <1>2 DEF StartStream
  <2>2. CASE ~StartStream(w)
    <3>1. UNCHANGED <<newest, slot, taken>>
      BY <1>4, <2>2 DEF ViewerStep, AddViewer, AddViewerRefused, UpgradeViewer,
         AttachViewer, AttachViewerFails, AttachSessionFails, GiveUp, ViewerReturns,
         RemoveViewer, SessionEnds, SessionClosesConn, boxVars, writerVars
    <3> QED BY <3>1, <1>1
  <2> QED BY <2>1, <2>2
<1>5. ASSUME NEW w \in Viewers, WriterStep(w)
      PROVE  [Mailbox(v)!Next]_(Mailbox(v)!vars)
  <2>1. CASE TakeFrame(w)
    BY <2>1 DEF TakeFrame, TypeOK
  <2>2. CASE ~TakeFrame(w)
    <3>1. UNCHANGED <<newest, slot, taken>>
      BY <1>5, <2>2 DEF WriterStep, JudgeFrame, WriteFrame, WriteFails, WriterStops, boxVars
    <3> QED BY <3>1, <1>1
  <2> QED BY <2>1, <2>2
<1> QED BY <1>1, <1>3, <1>4, <1>5, OtherStepsFrame DEF Next, mailVars

(* The relay's per-viewer channel with its generation check implements the  *)
(* newest-wins slot, for any number of viewers and producers.               *)
THEOREM MailboxImplementsSlot == Spec => MailboxSpec
<1>1. Init => \A v \in Viewers : Mailbox(v)!Init
  BY DEF Init, Mailbox!Init
<1>2. TypeOK /\ MailInv /\ [Next]_vars =>
        [\A v \in Viewers : [Mailbox(v)!Next]_(Mailbox(v)!vars)]_vars
  BY MailboxStep
<1> QED BY <1>1, <1>2, MailInit, MailStep, TypeCorrect, PTL DEF Spec, MailboxSpec
-----------------------------------------------------------------------------
(* Seats *)

LEMMA SeatsStep == TypeOK /\ SeatsExact /\ [Next]_vars => SeatsExact'
<1> SUFFICES ASSUME TypeOK, SeatsExact, [Next]_vars PROVE SeatsExact'
  OBVIOUS
<1> USE RoomAssumption DEF SeatsExact
<1>1. ASSUME UNCHANGED <<viewers, vpc>> PROVE SeatsExact'
  BY <1>1
<1>2. ASSUME NEW v \in Viewers, NEW s \in ViewerPc, UNCHANGED viewers,
             vpc' = [vpc EXCEPT ![v] = s], vpc[v] \in Seated <=> s \in Seated
      PROVE  SeatsExact'
  BY <1>2 DEF TypeOK
<1>3. IsFiniteSet(viewers)
  BY FS_Subset DEF TypeOK
<1>4. ASSUME NEW v \in Viewers, ViewerStep(v) \/ WriterStep(v) PROVE SeatsExact'
  <2>1. ASSUME NEW t \in 0..now, AddViewer(v, t) PROVE SeatsExact'
    <3>1. v \notin viewers /\ viewers' = viewers \cup {v}
      BY <2>1 DEF AddViewer, Seated
    <3>2. viewers' = {w \in Viewers : vpc'[w] \in Seated}
      BY <2>1, <3>1 DEF AddViewer, Seated, TypeOK
    <3>3. Cardinality(viewers') = Cardinality(viewers) + 1
      BY <1>3, <3>1, FS_AddElement
    <3>4. Cardinality(viewers) \in Nat /\ Cardinality(viewers) < MaxViewers
      BY <1>3, <2>1, FS_CardinalityType DEF AddViewer
    <3> QED BY <3>2, <3>3, <3>4
  <2>2. CASE RemoveViewer(v)
    <3>1. viewers' = {w \in Viewers : vpc'[w] \in Seated}
      BY <2>2 DEF RemoveViewer, Seated, TypeOK
    <3>2. Cardinality(viewers') <= Cardinality(viewers)
      BY <1>3, <2>2, FS_Subset DEF RemoveViewer
    <3>3. Cardinality(viewers) \in Nat /\ Cardinality(viewers') \in Nat
      BY <1>3, <2>2, FS_CardinalityType, FS_Subset DEF RemoveViewer
    <3> QED BY <3>1, <3>2, <3>3
  <2>3. CASE UpgradeViewer(v)
    BY <2>3, <1>2 DEF UpgradeViewer, roomVars, Seated, ViewerPc
  <2>4. CASE AddViewerRefused(v)
    BY <2>4, <1>2 DEF AddViewerRefused, roomVars, Seated, ViewerPc
  <2>5. CASE AttachViewer(v)
    BY <2>5, <1>2 DEF AttachViewer, roomVars, Seated, ViewerPc
  <2>6. CASE AttachViewerFails(v) \/ AttachSessionFails(v)
    BY <2>6, <1>2 DEF AttachViewerFails, AttachSessionFails, GiveUp, roomVars, Seated, ViewerPc
  <2>7. CASE StartStream(v)
    BY <2>7, <1>2 DEF StartStream, roomVars, Seated, ViewerPc
  <2>8. CASE ViewerReturns(v)
    BY <2>8, <1>2 DEF ViewerReturns, roomVars, Seated, ViewerPc
  <2>9. CASE SessionEnds(v) \/ SessionClosesConn(v) \/ WriterStep(v)
    BY <2>9, <1>1 DEF SessionEnds, SessionClosesConn, WriterStep, TakeFrame, JudgeFrame,
       WriteFrame, WriteFails, WriterStops, roomVars, viewerVars
  <2> QED BY <1>4, <2>1, <2>2, <2>3, <2>4, <2>5, <2>6, <2>7, <2>8, <2>9 DEF ViewerStep
<1>5. ASSUME NEW p \in Producers, ProducerStep(p) PROVE SeatsExact'
  BY <1>5, <1>1, ProducerSideFrame
<1> QED BY <1>1, <1>4, <1>5, OtherStepsFrame DEF Next

LEMMA SeatsInit == Init => SeatsExact
<1> SUFFICES ASSUME Init PROVE SeatsExact
  OBVIOUS
<1>1. viewers = {} /\ Cardinality(viewers) = 0
  BY FS_EmptySet DEF Init
<1> QED BY <1>1, RoomAssumption DEF Init, SeatsExact, Seated

(* Seats of the room are neither leaked nor oversold: addViewer, removeViewer *)
(* and every exit of handleViewer.                                            *)
THEOREM SeatsAreExact == Spec => []SeatsExact
  BY SeatsInit, SeatsStep, TypeCorrect, PTL DEF Spec
-----------------------------------------------------------------------------
(* Fresh writes *)

(* A write in progress has a deadline within the frame's time to live; the  *)
(* publication time of an existing frame never changes.                     *)
FreshInv == \A v \in Viewers :
              wpc[v] = "writing" => deadline[v] <= ExpiryOf(taken[v])

LEMMA FreshStep == TypeOK /\ FreshInv /\ [Next]_vars => FreshInv'
<1> SUFFICES ASSUME TypeOK, FreshInv, [Next]_vars PROVE FreshInv'
  OBVIOUS
<1> USE RoomAssumption DEF FreshInv, ExpiryOf
<1>1. ASSUME UNCHANGED <<wpc, deadline, taken, publishedAt>> PROVE FreshInv'
  BY <1>1
<1>2. ASSUME NEW p \in Producers, ProducerStep(p) PROVE FreshInv'
  <2>1. CASE Publish(p)
    <3>1. ASSUME NEW v \in Viewers, wpc[v] = "writing"
          PROVE  publishedAt'[taken[v]] = publishedAt[taken[v]]
      <4>1. taken[v] \in 1..frameGeneration /\ frameGeneration + 1 \in 1..MaxFrame
        BY <2>1, <3>1 DEF TypeOK, Publish
      <4> QED BY <2>1, <4>1 DEF Publish, TypeOK
    <3> QED BY <2>1, <3>1 DEF Publish, writerVars
  <2>2. CASE ~Publish(p)
    <3>1. UNCHANGED <<wpc, deadline, taken, publishedAt>>
      BY <1>2, <2>2 DEF ProducerStep, ClaimProducer, ClaimRefused, UpgradeProducer,
         AttachProducer, AttachProducerFails, ReceiveSnapshot, ProducerReturns,
         Offer, OffersDone, ReleaseProducer, roomVars, writerVars
    <3> QED BY <1>1, <3>1
  <2> QED BY <2>1, <2>2
<1>3. ASSUME NEW v \in Viewers, ViewerStep(v) PROVE FreshInv'
  <2>1. /\ UNCHANGED <<deadline, taken, publishedAt>>
        /\ \A w \in Viewers : wpc'[w] = "writing" => wpc[w] = "writing"
    BY <1>3 DEF ViewerStep, AddViewer, AddViewerRefused, UpgradeViewer, AttachViewer,
       AttachViewerFails, AttachSessionFails, GiveUp, StartStream, ViewerReturns,
       RemoveViewer, SessionEnds, SessionClosesConn, roomVars, writerVars, TypeOK
  <2> QED BY <2>1
<1>4. ASSUME NEW v \in Viewers, WriterStep(v) PROVE FreshInv'
  <2>1. CASE JudgeFrame(v)
    <3>1. UNCHANGED <<taken, publishedAt>>
      BY <2>1 DEF JudgeFrame, roomVars
    <3>2. CASE wpc' = [wpc EXCEPT ![v] = "waiting"] /\ UNCHANGED deadline
      BY <3>1, <3>2 DEF TypeOK
    <3>3. CASE /\ deadline' = [deadline EXCEPT ![v] =
                                 Earlier(ExpiryOf(taken[v]), now + WriteTimeout)]
               /\ wpc' = [wpc EXCEPT ![v] = "writing"]
      <4>1. Earlier(ExpiryOf(taken[v]), now + WriteTimeout) <= ExpiryOf(taken[v])
        <5>1. taken[v] \in 1..MaxFrame
          BY <2>1 DEF JudgeFrame, TypeOK
        <5>2. publishedAt[taken[v]] \in Nat /\ now \in Nat
          BY <5>1 DEF TypeOK
        <5> QED BY <5>2 DEF Earlier
      <4> QED BY <3>1, <3>3, <4>1 DEF TypeOK
    <3> QED BY <2>1, <3>2, <3>3 DEF JudgeFrame
  <2>2. CASE TakeFrame(v)
    BY <2>2 DEF TakeFrame, TypeOK, roomVars
  <2>3. CASE WriteFrame(v)
    BY <2>3 DEF WriteFrame, TypeOK, roomVars
  <2>4. CASE WriteFails(v)
    BY <2>4 DEF WriteFails, TypeOK, roomVars
  <2>5. CASE WriterStops(v)
    BY <2>5 DEF WriterStops, TypeOK, roomVars
  <2> QED BY <1>4, <2>1, <2>2, <2>3, <2>4, <2>5 DEF WriterStep
<1> QED BY <1>1, <1>2, <1>3, <1>4, OtherStepsFrame DEF Next, mailVars

(* No frame reaches a viewer later than SnapshotTTL after it was received:  *)
(* the check and the write deadline of writeViewer.                         *)
THEOREM WritesAreFresh == Spec => SentFresh
<1>1. Init => FreshInv
  BY DEF Init, FreshInv
<1>2. TypeOK /\ FreshInv => \A v \in Viewers : WriteFrame(v) => now <= ExpiryOf(taken[v])
  <2> SUFFICES ASSUME TypeOK, FreshInv, NEW v \in Viewers, WriteFrame(v)
               PROVE  now <= ExpiryOf(taken[v])
    OBVIOUS
  <2>1. taken[v] \in 1..MaxFrame /\ wpc[v] = "writing" /\ now <= deadline[v]
    <3>1. wpc[v] = "writing" /\ now <= deadline[v]
      BY DEF WriteFrame
    <3>2. taken[v] \in 0..frameGeneration /\ frameGeneration \in 0..MaxFrame /\ taken[v] # 0
      BY <3>1 DEF TypeOK
    <3> QED BY <3>1, <3>2, RoomAssumption
  <2>2. publishedAt[taken[v]] \in Nat /\ now \in Nat /\ deadline[v] \in Nat
    BY <2>1 DEF TypeOK
  <2> QED BY <2>1, <2>2, RoomAssumption DEF FreshInv, ExpiryOf
<1> QED BY <1>1, <1>2, FreshStep, TypeCorrect, PTL DEF Spec, SentFresh
-----------------------------------------------------------------------------
(* No missed frame *)

(* Only a handler inside publish's loop owes offers, and what it owes is    *)
(* the newest frame: there is one publisher at a time.                      *)
OwedInv ==
    /\ NoMissedFrame
    /\ \A p \in Producers :
          /\ targets[p] # {} => ppc[p] = "offering"
          /\ ppc[p] = "offering" => update[p] = frameGeneration

LEMMA OwedStep ==
    TypeOK /\ MailInv /\ ClaimInv /\ SeatsExact /\ OwedInv /\ [Next]_vars => OwedInv'
<1> SUFFICES ASSUME TypeOK, MailInv, ClaimInv, SeatsExact, OwedInv, [Next]_vars
             PROVE  OwedInv'
  OBVIOUS
<1> USE DEF OwedInv, NoMissedFrame
<1>1. ASSUME UNCHANGED <<vpc, joined, captured, frameGeneration, newest, targets, ppc, update>>
      PROVE  OwedInv'
  BY <1>1
<1>2. ASSUME NEW p \in Producers, ProducerStep(p) PROVE OwedInv'
  <2>1. UNCHANGED <<vpc, joined, captured, viewers>>
    BY <1>2, ProducerSideFrame
  <2>2. CASE Publish(p)
    <3>1. /\ targets' = [targets EXCEPT ![p] = viewers]
          /\ frameGeneration' = frameGeneration + 1
          /\ UNCHANGED newest
          /\ ppc' = [ppc EXCEPT ![p] = "offering"]
          /\ update' = [update EXCEPT ![p] = frameGeneration + 1]
          /\ ppc[p] = "received"
      BY <2>2 DEF Publish, NumberFrame, boxVars
    <3>2. \A v \in Viewers : vpc[v] \in Seated => v \in targets'[p]
      BY <3>1 DEF SeatsExact, TypeOK
    <3>3. \A q \in Producers : ppc'[q] = "offering" => q = p
      BY <3>1 DEF ClaimInv, OneClaim, Claiming, TypeOK
    <3>4. \A v \in Viewers : vpc'[v] = "streaming" => newest'[v] >= captured'[v]
      BY <2>1, <3>1
    <3>5. \A q \in Producers : targets'[q] # {} => ppc'[q] = "offering"
      BY <3>1 DEF TypeOK
    <3>6. \A q \in Producers : ppc'[q] = "offering" => update'[q] = frameGeneration'
      BY <3>1, <3>3 DEF TypeOK
    <3> QED BY <2>1, <3>2, <3>4, <3>5, <3>6
  <2>3. ASSUME NEW v \in Viewers, Offer(p, v) PROVE OwedInv'
    <3>1. /\ ppc[p] = "offering" /\ update[p] = frameGeneration
          /\ targets' = [targets EXCEPT ![p] = @ \ {v}]
          /\ UNCHANGED <<ppc, update, frameGeneration, taken>>
          /\ OfferTo(v, frameGeneration)
      BY <2>3 DEF Offer, roomVars, writerVars
    <3>2. /\ newest'[v] >= frameGeneration /\ newest'[v] \in 0..frameGeneration
          /\ \A w \in Viewers : w # v => newest'[w] = newest[w]
      <4>1. frameGeneration \in 0..frameGeneration
        BY DEF TypeOK
      <4> QED BY <3>1, <4>1, OfferKeepsNewest, OfferType DEF TypeOK
    <3>3. newest'[v] = frameGeneration /\ captured[v] \in 0..frameGeneration
      BY <3>2 DEF TypeOK
    <3>4. \A w \in Viewers : vpc'[w] \in Seated /\ joined'[w] < frameGeneration' =>
             newest'[w] = frameGeneration' \/ \E q \in Producers : w \in targets'[q]
      <4>1. ASSUME NEW w \in Viewers, w # v, NEW q \in Producers, w \in targets[q]
            PROVE  w \in targets'[q]
        BY <3>1, <4>1 DEF TypeOK
      <4>2. ASSUME NEW w \in Viewers, w # v, vpc'[w] \in Seated, joined'[w] < frameGeneration'
            PROVE  newest'[w] = frameGeneration' \/ \E q \in Producers : w \in targets'[q]
        <5>1. newest[w] = frameGeneration \/ \E q \in Producers : w \in targets[q]
          BY <2>1, <3>1, <4>2
        <5> QED BY <3>1, <3>2, <4>1, <4>2, <5>1
      <4>3. ASSUME NEW w \in Viewers, vpc'[w] \in Seated, joined'[w] < frameGeneration'
            PROVE  newest'[w] = frameGeneration' \/ \E q \in Producers : w \in targets'[q]
        <5>1. CASE w = v
          BY <3>1, <3>3, <5>1
        <5>2. CASE w # v
          BY <4>2, <4>3, <5>2
        <5> QED BY <5>1, <5>2
      <4> QED BY <4>3
    <3>5. \A w \in Viewers : vpc'[w] = "streaming" => newest'[w] >= captured'[w]
      <4>1. frameGeneration \in Nat /\ captured[v] <= frameGeneration
        BY <3>3 DEF TypeOK
      <4>2. \A w \in Viewers : w # v /\ vpc[w] = "streaming" => newest'[w] >= captured[w]
        BY <3>2
      <4> QED BY <2>1, <3>3, <4>1, <4>2
    <3>6. \A q \in Producers : targets'[q] # {} => ppc'[q] = "offering"
      BY <3>1 DEF TypeOK
    <3> QED BY <3>1, <3>4, <3>5, <3>6
  <2>4. CASE OffersDone(p)
    BY <2>1, <2>4 DEF OffersDone, TypeOK, roomVars, boxVars
  <2>5. ASSUME NEW s \in ProducerPc, s # "offering", ppc[p] # "offering",
               UNCHANGED <<frameGeneration, newest, targets, update>>,
               ppc' = [ppc EXCEPT ![p] = s]
        PROVE  OwedInv'
    BY <2>1, <2>5 DEF TypeOK
  <2>6. CASE ClaimProducer(p) \/ ClaimRefused(p)
    BY <2>5, <2>6 DEF ClaimProducer, ClaimRefused, roomVars, boxVars, ProducerPc, Claiming
  <2>7. CASE UpgradeProducer(p)
    BY <2>5, <2>7 DEF UpgradeProducer, roomVars, boxVars, ProducerPc, Claiming
  <2>8. CASE AttachProducer(p) \/ AttachProducerFails(p)
    BY <2>5, <2>8 DEF AttachProducer, AttachProducerFails, roomVars, boxVars, ProducerPc, Claiming
  <2>9. CASE ReceiveSnapshot(p) \/ ProducerReturns(p) \/ ReleaseProducer(p)
    BY <2>5, <2>9 DEF ReceiveSnapshot, ProducerReturns, ReleaseProducer, roomVars, boxVars,
       ProducerPc, Claiming
  <2> QED BY <1>2, <2>2, <2>3, <2>4, <2>6, <2>7, <2>8, <2>9 DEF ProducerStep
<1>3. ASSUME NEW v \in Viewers, ViewerStep(v) PROVE OwedInv'
  <2>1. UNCHANGED <<frameGeneration, targets, ppc, update>>
    BY <1>3, ViewerSideFrame DEF claimVars
  <2>2. ASSUME NEW t \in 0..now, AddViewer(v, t) PROVE OwedInv'
    <3>1. joined'[v] = frameGeneration /\ vpc'[v] = "added" /\ newest' = newest
      BY <2>2 DEF AddViewer, TypeOK, boxVars
    <3>2. \A w \in Viewers : w # v => /\ joined'[w] = joined[w] /\ vpc'[w] = vpc[w]
                                      /\ captured'[w] = captured[w]
      BY <2>2 DEF AddViewer, TypeOK
    <3>3. frameGeneration \in Nat
      BY DEF TypeOK
    <3> QED BY <2>1, <3>1, <3>2, <3>3
  <2>3. CASE StartStream(v)
    <3>1. OfferTo(v, captured[v]) /\ captured[v] \in 0..frameGeneration
          /\ UNCHANGED <<taken, captured, joined>> /\ vpc[v] \in Seated
          /\ vpc' = [vpc EXCEPT ![v] = "streaming"]
      BY <2>3 DEF StartStream, TypeOK, Seated
    <3>2. /\ newest'[v] >= captured[v] /\ newest'[v] \in 0..frameGeneration
          /\ newest'[v] = captured[v] \/ newest'[v] = newest[v]
          /\ \A w \in Viewers : w # v => newest'[w] = newest[w]
      BY <3>1, OfferKeepsNewest, OfferType DEF TypeOK
    <3>3. newest[v] = frameGeneration => newest'[v] = frameGeneration
      <4>1. CASE captured[v] > newest[v]
        BY <3>1, <4>1 DEF TypeOK
      <4>2. CASE ~(captured[v] > newest[v])
        BY <3>1, <4>2 DEF OfferTo, boxVars
      <4> QED BY <4>1, <4>2
    <3> QED BY <2>1, <3>1, <3>2, <3>3 DEF TypeOK
  <2>4. ASSUME NEW s \in ViewerPc, s # "streaming", s \in Seated => vpc[v] \in Seated,
               UNCHANGED <<newest, joined, captured>>, vpc' = [vpc EXCEPT ![v] = s]
        PROVE  OwedInv'
    BY <2>1, <2>4 DEF TypeOK
  <2>5. CASE AddViewerRefused(v) \/ RemoveViewer(v)
    BY <2>4, <2>5 DEF AddViewerRefused, RemoveViewer, boxVars, ViewerPc, Seated
  <2>6. CASE UpgradeViewer(v)
    BY <2>4, <2>6 DEF UpgradeViewer, boxVars, ViewerPc, Seated
  <2>7. CASE AttachViewer(v) \/ ViewerReturns(v)
    BY <2>4, <2>7 DEF AttachViewer, ViewerReturns, boxVars, ViewerPc, Seated
  <2>8. CASE AttachViewerFails(v) \/ AttachSessionFails(v)
    BY <2>4, <2>8 DEF AttachViewerFails, AttachSessionFails, GiveUp, boxVars, ViewerPc, Seated
  <2>9. CASE SessionEnds(v) \/ SessionClosesConn(v)
    BY <1>1, <2>1, <2>9 DEF SessionEnds, SessionClosesConn, boxVars, viewerVars
  <2> QED BY <1>3, <2>2, <2>3, <2>5, <2>6, <2>7, <2>8, <2>9 DEF ViewerStep
<1>4. ASSUME NEW v \in Viewers, WriterStep(v) PROVE OwedInv'
  <2>1. UNCHANGED <<newest, vpc, joined, captured>>
    BY <1>4 DEF WriterStep, TakeFrame, JudgeFrame, WriteFrame, WriteFails, WriterStops,
       boxVars, viewerVars
  <2> QED BY <1>1, <1>4, <2>1, ViewerSideFrame DEF claimVars
<1> QED BY <1>1, <1>2, <1>3, <1>4, OtherStepsFrame DEF Next, claimVars, mailVars

(* A viewer in the room is offered every frame published after it joined:   *)
(* the target set publish copies under the lock, and its loop outside it.   *)
THEOREM NoFrameIsMissed == Spec => []NoMissedFrame
<1>1. Init => OwedInv /\ ClaimInv
  BY DEF Init, OwedInv, NoMissedFrame, Seated, ClaimInv, OneClaim, Claiming
<1>2. OwedInv => NoMissedFrame
  BY DEF OwedInv
<1> QED BY <1>1, <1>2, OwedStep, MailInit, MailStep, ClaimStep, SeatsInit, SeatsStep,
           TypeCorrect, PTL DEF Spec
-----------------------------------------------------------------------------
(* Shutdown *)

(* Before the shutdown the room knows its publishing connection; from then  *)
(* on every open connection of a running handler is on the closer's list.   *)
CloseInv ==
    /\ NoConnEscapesClose
    /\ \A p \in Producers :
          ppc[p] \in {"reading", "received", "offering"} => producerConn = p
    /\ closePc # "running" <=> closing

LEMMA CloseStepInv ==
    TypeOK /\ ClaimInv /\ SeatsExact /\ CloseInv /\ [Next]_vars => CloseInv'
<1> SUFFICES ASSUME TypeOK, ClaimInv, SeatsExact, CloseInv, [Next]_vars PROVE CloseInv'
  OBVIOUS
<1> DEFINE Publishing == {"reading", "received", "offering"}
<1> USE DEF CloseInv, NoConnEscapesClose
<1>1. ASSUME UNCHANGED <<vpc, ppc, producerConn, closing, closePc, toClose>>,
             \A c \in Conns : conn'[c] = "open" => conn[c] = "open"
      PROVE  CloseInv'
  BY <1>1 DEF Conns
<1>2. ASSUME NEW p \in Producers, ProducerStep(p) PROVE CloseInv'
  <2>1. UNCHANGED <<vpc, closing, closePc, toClose>>
    BY <1>2, ProducerSideFrame
  <2>2. \A v \in Viewers : conn'[v] = conn[v]
    BY <1>2, RoomAssumption DEF ProducerStep, ClaimProducer, ClaimRefused, UpgradeProducer,
       AttachProducer, AttachProducerFails, ReceiveSnapshot, ProducerReturns, Publish,
       Offer, OffersDone, ReleaseProducer, TypeOK, Conns
  <2>3. ASSUME NEW s \in ProducerPc, ppc' = [ppc EXCEPT ![p] = s],
               s \in Publishing => ppc[p] \in Publishing /\ conn'[p] = conn[p],
               \A q \in Producers : q # p => conn'[q] = conn[q],
               UNCHANGED producerConn
        PROVE  CloseInv'
    BY <2>1, <2>2, <2>3 DEF TypeOK
  <2>4. CASE AttachProducer(p)
    <3>1. /\ producerConn' = p /\ ~closing /\ ppc[p] = "upgraded"
          /\ ppc' = [ppc EXCEPT ![p] = "reading"] /\ UNCHANGED conn
      BY <2>4 DEF AttachProducer, MayAttachProducer
    <3>2. \A q \in Producers : q # p => ppc[q] \notin Claiming
      BY <3>1 DEF ClaimInv, OneClaim, Claiming
    <3> QED BY <2>1, <3>1, <3>2 DEF TypeOK, Claiming
  <2>5. CASE ReleaseProducer(p)
    <3>1. /\ ppc[p] = "leaving" /\ ppc' = [ppc EXCEPT ![p] = "gone"] /\ UNCHANGED conn
      BY <2>5 DEF ReleaseProducer
    <3>2. \A q \in Producers : q # p => ppc[q] \notin Claiming
      BY <3>1 DEF ClaimInv, OneClaim, Claiming
    <3> QED BY <2>1, <3>1, <3>2 DEF TypeOK, Claiming
  <2>6. CASE ClaimProducer(p) \/ ClaimRefused(p)
    BY <2>3, <2>6 DEF ClaimProducer, ClaimRefused, roomVars, ProducerPc, Claiming
  <2>7. CASE UpgradeProducer(p)
    <3>1. \A q \in Producers : q # p => conn'[q] = conn[q]
      BY <2>7 DEF UpgradeProducer, TypeOK, Conns
    <3> QED BY <2>3, <2>7, <3>1 DEF UpgradeProducer, roomVars, ProducerPc, Claiming
  <2>8. CASE AttachProducerFails(p) \/ ProducerReturns(p)
    <3>1. \A q \in Producers : q # p => conn'[q] = conn[q]
      BY <2>8 DEF AttachProducerFails, ProducerReturns, TypeOK, Conns
    <3> QED BY <2>3, <2>8, <3>1 DEF AttachProducerFails, ProducerReturns, roomVars,
               ProducerPc, Claiming
  <2>9. CASE ReceiveSnapshot(p) \/ Publish(p) \/ OffersDone(p)
    BY <2>3, <2>9 DEF ReceiveSnapshot, Publish, OffersDone, roomVars, ProducerPc, Claiming
  <2>10. CASE \E v \in Viewers : Offer(p, v)
    BY <1>1, <2>1, <2>10 DEF Offer, roomVars
  <2> QED BY <1>2, <2>4, <2>5, <2>6, <2>7, <2>8, <2>9, <2>10 DEF ProducerStep
<1>3. ASSUME NEW v \in Viewers, ViewerStep(v) PROVE CloseInv'
  <2>1. UNCHANGED <<ppc, producerConn, closing, closePc, toClose>>
    BY <1>3, ViewerSideFrame DEF claimVars
  <2>2. \A c \in Conns : c # v => conn'[c] = conn[c]
    BY <1>3 DEF ViewerStep, AddViewer, AddViewerRefused, UpgradeViewer, AttachViewer,
       AttachViewerFails, AttachSessionFails, GiveUp, StartStream, ViewerReturns,
       RemoveViewer, SessionEnds, SessionClosesConn, TypeOK, Conns
  <2>3. ASSUME NEW s \in ViewerPc, vpc' = [vpc EXCEPT ![v] = s],
               s \in Attached => \/ ~closing
                                 \/ vpc[v] \in Attached /\ conn'[v] = conn[v]
        PROVE  CloseInv'
    <3>1. \A p \in Producers : conn'[p] = conn[p]
      BY <2>2, RoomAssumption DEF Conns
    <3>2. \A w \in Viewers : w # v => vpc'[w] = vpc[w] /\ conn'[w] = conn[w]
      BY <2>2, <2>3 DEF TypeOK, Conns
    <3>3. vpc'[v] = s
      BY <2>3 DEF TypeOK
    <3>4. closing => \A w \in Viewers :
             vpc'[w] \in Attached /\ conn'[w] = "open" => w \in toClose
      BY <2>3, <3>2, <3>3
    <3> QED BY <2>1, <3>1, <3>4
  <2>4. CASE \E t \in 0..now : AddViewer(v, t)
    BY <2>3, <2>4 DEF AddViewer, ViewerPc, Seated, Attached
  <2>5. CASE AddViewerRefused(v) \/ RemoveViewer(v)
    BY <2>3, <2>5 DEF AddViewerRefused, RemoveViewer, ViewerPc, Seated, Attached
  <2>6. CASE UpgradeViewer(v)
    BY <2>3, <2>6 DEF UpgradeViewer, ViewerPc, Seated, Attached
  <2>7. CASE AttachViewer(v) \/ StartStream(v)
    BY <2>3, <2>7 DEF AttachViewer, MayAttachViewer, StartStream, ViewerPc, Seated, Attached
  <2>8. CASE AttachViewerFails(v) \/ AttachSessionFails(v) \/ ViewerReturns(v)
    BY <2>3, <2>8 DEF AttachViewerFails, AttachSessionFails, GiveUp, ViewerReturns,
       ViewerPc, Seated, Attached
  <2>9. CASE SessionEnds(v) \/ SessionClosesConn(v)
    BY <1>1, <2>1, <2>9 DEF SessionEnds, SessionClosesConn, viewerVars, TypeOK, Conns
  <2> QED BY <1>3, <2>4, <2>5, <2>6, <2>7, <2>8, <2>9 DEF ViewerStep
<1>4. ASSUME NEW v \in Viewers, WriterStep(v) PROVE CloseInv'
  <2>1. UNCHANGED vpc
    BY <1>4 DEF WriterStep, TakeFrame, JudgeFrame, WriteFrame, WriteFails, WriterStops,
       viewerVars
  <2>2. \A c \in Conns : conn'[c] = "open" => conn[c] = "open"
    BY <1>4 DEF WriterStep, TakeFrame, JudgeFrame, WriteFrame, WriteFails, WriterStops,
       TypeOK, Conns
  <2> QED BY <1>1, <1>4, <2>1, <2>2, ViewerSideFrame DEF claimVars
<1>5. CASE CloseStep
  <2>1. CASE BeginClose
    <3>1. /\ closing' /\ closePc' = "closing" /\ UNCHANGED <<vpc, ppc, producerConn, conn>>
          /\ toClose' = {v \in viewers : vpc[v] \in Attached} \cup ({producerConn} \ {NoConn})
      BY <2>1 DEF BeginClose, producerVars, viewerVars
    <3>2. \A v \in Viewers : vpc[v] \in Attached => v \in toClose'
      BY <3>1 DEF SeatsExact, Attached, Seated
    <3>3. \A p \in Producers : ppc[p] \in Publishing => p \in toClose'
      BY <3>1, RoomAssumption
    <3> QED BY <3>1, <3>2, <3>3
  <2>2. ASSUME NEW c \in Conns, CloseConn(c) PROVE CloseInv'
    <3>1. /\ conn' = [conn EXCEPT ![c] = "closed"] /\ toClose' = toClose \ {c}
          /\ UNCHANGED <<vpc, ppc, producerConn, closing, closePc>> /\ closePc = "closing"
      BY <2>2 DEF CloseConn, roomVars, producerVars, viewerVars
    <3> QED BY <3>1 DEF TypeOK, Conns
  <2>3. CASE EndClose
    BY <2>3 DEF EndClose, roomVars, producerVars, viewerVars
  <2> QED BY <1>5, <2>1, <2>2, <2>3 DEF CloseStep
<1>6. CASE Tick \/ (\E t \in 0..now : ExpireLatest(t)) \/ Finished \/ UNCHANGED vars
  BY <1>1, <1>6 DEF Tick, ExpireLatest, Finished, vars, roomVars, producerVars,
     viewerVars, closeVars
<1> QED BY <1>2, <1>3, <1>4, <1>5, <1>6 DEF Next

(* Shutdown misses no connection, however it races with upgrades and        *)
(* attachments: closeConnections, attachProducer and attachViewer.          *)
THEOREM CloseMissesNone == Spec => []NoConnEscapesClose
<1>1. Init => CloseInv /\ ClaimInv
  BY DEF Init, CloseInv, NoConnEscapesClose, ClaimInv, OneClaim, Claiming
<1>2. CloseInv => NoConnEscapesClose
  BY DEF CloseInv
<1> QED BY <1>1, <1>2, CloseStepInv, ClaimStep, SeatsInit, SeatsStep, TypeCorrect, PTL
        DEF Spec

(* The producer slot and the places are held by those who give them back.   *)
THEOREM ClaimsAreExact == Spec => []ClaimsExact
  BY ClaimIsExclusive, SeatsAreExact, PTL DEF ClaimsExact

(* What is written to a viewer is newer than what it has, and not too old.  *)
THEOREM WritesAreRight == Spec => WritesNewAndFresh
  BY DeliveryIncreases, WritesAreFresh DEF WritesNewAndFresh
=============================================================================
