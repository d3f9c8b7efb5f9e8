------------------------ MODULE SenderPipelineProofs ------------------------
(***************************************************************************)
(* Theorems about SenderPipeline, for any number of workers, any screens,  *)
(* any number of captures, any failures and any batch limit.               *)
(***************************************************************************)
EXTENDS SenderPipeline, DataLemmas

-----------------------------------------------------------------------------
(* Jobs. *)

(* A region update and a full frame are jobs, and no job is Idle.           *)
LEMMA JobTypes ==
  /\ \A region \in SUBSET Cells, n \in Shots : UpdateRegion(region, n) \in Job
  /\ \A grid \in Resolutions, n \in Shots : FullFrame(grid, n) \in Job
  /\ \A job \in Job : job # Idle
  /\ \A job \in Job : IsFull(job) \in BOOLEAN
<1>1. \A region \in SUBSET Cells, n \in Shots : UpdateRegion(region, n) \in Job
  BY DEF UpdateRegion, Job, MessageTypes
<1>2. \A grid \in Resolutions, n \in Shots : FullFrame(grid, n) \in Job
  BY DEF FullFrame, Job, MessageTypes, Cells
<1>3. \A job \in Job : job # Idle
  <2> SUFFICES ASSUME NEW job \in Job PROVE job.type # Idle.type
    OBVIOUS
  <2> QED
    BY DEF Job, Idle, MessageTypes
<1> QED
  BY <1>1, <1>2, <1>3 DEF IsFull

(* What the scan cuts from a dirty set of a grid.                           *)
LEMMA RegionsType ==
  ASSUME NEW grid \in Resolutions, NEW dirty \in SUBSET grid
  PROVE  /\ Regions[grid][dirty] \in Seq(SUBSET Cells)
         /\ dirty # {} => Regions[grid][dirty] # <<>>
<1>1. Regions[grid][dirty] \in Seq(SUBSET grid)
  BY SenderAssumption
<1>2. SUBSET grid \subseteq SUBSET Cells
  BY DEF Cells
<1>3. Regions[grid][dirty] \in Seq(SUBSET Cells)
  BY <1>1, <1>2, SeqMonotonic
<1>4. Scan!CutsExactly(Regions[grid][dirty], dirty)
  BY SenderAssumption
<1>5. ASSUME dirty # {} PROVE Regions[grid][dirty] # <<>>
  <2>1. PICK c \in dirty : TRUE
    BY <1>5
  <2>2. PICK i \in DOMAIN Regions[grid][dirty] : TRUE
    BY <1>4, <2>1 DEF Scan!CutsExactly
  <2> QED
    BY <2>2, <1>1, EmptySeq, LenProperties
<1> QED
  BY <1>3, <1>5

(* The jobs of a sequence of rectangles.                                    *)
LEMMA RegionJobsType ==
  ASSUME NEW regions \in Seq(SUBSET Cells), NEW n \in Shots
  PROVE  RegionJobs(regions, n) \subseteq Job
BY JobTypes, ElementOfSeq, LenProperties DEF RegionJobs

(* The elements of a queue of jobs.                                         *)
LEMMA ToSetType ==
  ASSUME NEW queue \in Seq(Job)
  PROVE  ToSet(queue) \subseteq Job
BY LenProperties DEF ToSet

-----------------------------------------------------------------------------
(* Type correctness.  Each part of TypeOK depends on a few variables only.  *)

LEMMA TypeParts ==
  /\ CaptureTypeOK /\ UNCHANGED <<captureVars, stopRequested>> => CaptureTypeOK'
  /\ EncodeTypeOK /\ UNCHANGED <<regionVars, encodeVars>> => EncodeTypeOK'
  /\ SendTypeOK /\ UNCHANGED <<sendQVars, senderVars>> => SendTypeOK'
  /\ LinkTypeOK /\ UNCHANGED <<linkVars, lost, inputPc>> => LinkTypeOK'
  /\ MainTypeOK /\ UNCHANGED mainVars => MainTypeOK'
<1>1. CaptureTypeOK /\ UNCHANGED <<captureVars, stopRequested>> => CaptureTypeOK'
  BY DEF CaptureTypeOK, captureVars
<1>2. EncodeTypeOK /\ UNCHANGED <<regionVars, encodeVars>> => EncodeTypeOK'
  BY DEF EncodeTypeOK, regionVars, encodeVars
<1>3. SendTypeOK /\ UNCHANGED <<sendQVars, senderVars>> => SendTypeOK'
  BY DEF SendTypeOK, sendQVars, senderVars
<1>4. LinkTypeOK /\ UNCHANGED <<linkVars, lost, inputPc>> => LinkTypeOK'
  BY DEF LinkTypeOK, linkVars
<1>5. MainTypeOK /\ UNCHANGED mainVars => MainTypeOK'
  BY DEF MainTypeOK, mainVars
<1> QED
  BY <1>1, <1>2, <1>3, <1>4, <1>5

LEMMA TypeInit == Init => TypeOK
<1> SUFFICES ASSUME Init PROVE TypeOK
  OBVIOUS
<1>1. 0 \in Shots
  BY SenderAssumption DEF Shots
<1>2. CaptureTypeOK
  <2>1. PICK grid \in Resolutions : previousFrame = [c \in grid |-> 0]
    BY DEF Init
  <2>2. captures = 0 /\ previousFrame \in [grid -> 0..captures]
    BY <2>1 DEF Init
  <2>3. /\ capturePc \in {"loop", "none"} /\ unpublished = <<>>
        /\ stopRequested = FALSE
    BY DEF Init, InitialThreads
  <2>4. <<>> \in Seq(SUBSET Cells)
    BY EmptySeq
  <2> QED
    BY <1>1, <2>2, <2>3, <2>4 DEF CaptureTypeOK
<1>3. regionQueue \in Seq(Job)
  <2>1. PICK grid \in Resolutions : regionQueue = <<FullFrame(grid, 0)>>
    BY DEF Init
  <2>2. FullFrame(grid, 0) \in Job
    BY <1>1, JobTypes
  <2> QED
    BY <2>1, <2>2
<1>4. EncodeTypeOK
  BY <1>3 DEF Init, InitialThreads, EncodeTypeOK
<1>5. SendTypeOK
  BY EmptySeq DEF Init, InitialThreads, SendTypeOK
<1>6. LinkTypeOK
  BY EmptySeq DEF Init, LinkTypeOK
<1>7. MainTypeOK
  BY DEF Init, InitialThreads, MainTypeOK, NormalOrder
<1> QED
  BY <1>2, <1>4, <1>5, <1>6, <1>7 DEF TypeOK

LEMMA CaptureStepType == TypeOK /\ CaptureThread => TypeOK'
<1> SUFFICES ASSUME TypeOK, CaptureThread PROVE TypeOK'
  OBVIOUS
<1> USE DEF TypeOK
<1>0. MaxCaptures \in Nat
  BY SenderAssumption
<1>1. ASSUME NEW changed \in SUBSET Grid, CaptureChange(changed)
      PROVE  TypeOK'
  <2>1. PICK grid \in Resolutions : previousFrame \in [grid -> 0..captures]
    BY DEF CaptureTypeOK
  <2>2. Grid = grid /\ captures + 1 \in Shots
    BY <1>0, <1>1, <2>1 DEF Grid, CaptureChange, CaptureTypeOK, Shots
  <2>3. /\ Regions[Grid][changed] \in Seq(SUBSET Cells)
        /\ Regions[Grid][changed] # <<>>
    BY <1>1, <2>2, RegionsType DEF CaptureChange
  <2>4. previousFrame' \in [grid -> 0..captures']
    <3>1. captures \in Nat /\ captures' = captures + 1
      BY <1>1 DEF CaptureChange, CaptureTypeOK, Shots
    <3>2. previousFrame' = [c \in grid |->
             IF c \in changed THEN captures + 1 ELSE previousFrame[c]]
      BY <1>1, <2>2 DEF CaptureChange
    <3>3. \A c \in grid : previousFrame[c] \in 0..captures
      BY <2>1
    <3> QED
      BY <3>1, <3>2, <3>3
  <2>5. CaptureTypeOK'
    BY <1>1, <2>2, <2>3, <2>4 DEF CaptureChange, Capturing, CaptureTypeOK
  <2>6. LinkTypeOK'
    BY <1>1, <2>2, <2>3, RegionJobsType DEF CaptureChange, LinkTypeOK, linkVars
  <2> QED
    BY <1>1, <2>5, <2>6, TypeParts DEF CaptureChange
<1>2. ASSUME NEW grid \in Resolutions, CaptureResize(grid)
      PROVE  TypeOK'
  <2>1. captures + 1 \in Shots
    BY <1>0, <1>2 DEF CaptureResize, CaptureTypeOK, Shots
  <2>2. CaptureTypeOK'
    BY <1>2, <2>1 DEF CaptureResize, Capturing, CaptureTypeOK, Shots
  <2>3. EncodeTypeOK'
    BY <1>2, <2>1, JobTypes, PushProperties
       DEF CaptureResize, EncodeTypeOK, encodeVars
  <2> QED
    BY <1>2, <2>2, <2>3, TypeParts DEF CaptureResize
<1>3. ASSUME capturePc = "publish"
      PROVE  /\ UpdateRegion(Head(unpublished), captures) \in Job
             /\ Tail(unpublished) \in Seq(SUBSET Cells)
  BY <1>3, JobTypes, HeadTailProperties DEF CaptureTypeOK
<1>4. CASE PublishRegion
  <2>1. CaptureTypeOK'
    BY <1>3, <1>4 DEF PublishRegion, NextCapturePc, CaptureTypeOK
  <2>2. EncodeTypeOK'
    BY <1>3, <1>4, PushProperties DEF PublishRegion, EncodeTypeOK, encodeVars
  <2> QED
    BY <1>4, <2>1, <2>2, TypeParts DEF PublishRegion
<1>5. CASE DropRegion
  <2>1. CaptureTypeOK'
    BY <1>3, <1>5 DEF DropRegion, NextCapturePc, CaptureTypeOK
  <2>2. LinkTypeOK'
    BY <1>3, <1>5 DEF DropRegion, LinkTypeOK, linkVars
  <2> QED
    BY <1>5, <2>1, <2>2, TypeParts DEF DropRegion
<1>6. ASSUME capturePc \in {"loop", "capture"}, EndCapture
      PROVE  TypeOK'
  <2>1. CaptureTypeOK'
    BY <1>6 DEF EndCapture, CaptureTypeOK
  <2> QED
    BY <1>6, <2>1, TypeParts DEF EndCapture
<1>7. CASE CaptureFail
  BY <1>6, <1>7 DEF CaptureFail, Capturing
<1>8. CASE CaptureStop
  BY <1>6, <1>8 DEF CaptureStop
<1>9. CASE CaptureGoesOn \/ CaptureSame
  <2>1. CaptureTypeOK'
    BY <1>9 DEF CaptureGoesOn, CaptureSame, Capturing, CaptureTypeOK
  <2> QED
    BY <1>9, <2>1, TypeParts DEF CaptureGoesOn, CaptureSame
<1> QED
  BY <1>1, <1>2, <1>4, <1>5, <1>7, <1>8, <1>9 DEF CaptureThread, CaptureProgress

LEMMA EncodeStepType ==
  ASSUME TypeOK, NEW w \in Workers, EncodeWorker(w) PROVE TypeOK'
<1> USE DEF TypeOK
<1>1. CASE EncodePop(w)
  <2>1. /\ Head(regionQueue) \in Job /\ Tail(regionQueue) \in Seq(Job)
        /\ Head(regionQueue) # Idle
    BY <1>1, PopProperties, JobTypes DEF EncodePop, EncodeTypeOK
  <2>2. EncodeTypeOK'
    BY <1>1, <2>1 DEF EncodePop, EncodeTypeOK
  <2> QED
    BY <1>1, <2>2, TypeParts DEF EncodePop
<1>2. CASE EncodePopNothing(w)
  <2>1. EncodeTypeOK'
    BY <1>2 DEF EncodePopNothing, EncodeTypeOK, regionVars
  <2> QED
    BY <1>2, <2>1, TypeParts DEF EncodePopNothing
<1>3. CASE EncodeCheckShutdown(w)
  <2>1. EncodeTypeOK'
    BY <1>3 DEF EncodeCheckShutdown, EncodeTypeOK, regionVars
  <2> QED
    BY <1>3, <2>1, TypeParts DEF EncodeCheckShutdown
<1>4. ASSUME EndEncode(w)
      PROVE  EncodeTypeOK' /\ encodeJob[w] \in Job
  BY <1>4 DEF EndEncode, EncodeTypeOK, regionVars
<1>5. CASE EncodePush(w)
  <2>1. EncodeTypeOK' /\ encodeJob[w] \in Job
    BY <1>4, <1>5 DEF EncodePush
  <2>2. SendTypeOK'
    BY <1>5, <2>1, JobTypes, PushProperties
       DEF EncodePush, EndEncode, SendTypeOK, senderVars
  <2> QED
    BY <1>5, <2>1, <2>2, TypeParts DEF EncodePush, EndEncode
<1>6. CASE EncodeDrop(w)
  <2>1. EncodeTypeOK' /\ encodeJob[w] \in Job
    BY <1>4, <1>6 DEF EncodeDrop
  <2>2. LinkTypeOK'
    BY <1>6, <2>1 DEF EncodeDrop, EndEncode, LinkTypeOK, linkVars
  <2> QED
    BY <1>6, <2>1, <2>2, TypeParts DEF EncodeDrop, EndEncode, sendQVars
<1> QED
  BY <1>1, <1>2, <1>3, <1>5, <1>6 DEF EncodeWorker

LEMMA SendStepType == TypeOK /\ SendThread => TypeOK'
<1> SUFFICES ASSUME TypeOK, SendThread PROVE TypeOK'
  OBVIOUS
<1> USE DEF TypeOK
<1>0. \A job \in Job : MessageSize[job.type] \in Nat
  BY SenderAssumption DEF Job
<1>1. ASSUME CanPop(sendQueue)
      PROVE  Head(sendQueue) \in Job /\ Tail(sendQueue) \in Seq(Job)
  BY <1>1, PopProperties DEF SendTypeOK
<1>2. CASE SendPop
  <2>1. Head(sendQueue) \in Job /\ Tail(sendQueue) \in Seq(Job)
    BY <1>1, <1>2 DEF SendPop
  <2>2. SendTypeOK'
    <3>1. sendQueue' \in Seq(Job) /\ sendShutdown' \in BOOLEAN
      BY <1>2, <2>1 DEF SendPop, SendTypeOK
    <3>2. CASE batch' = <<Head(sendQueue)>> /\ sendPc' = "fill"
               /\ batchSize' = MessageSize[Head(sendQueue).type]
      <4>1. batch' \in Seq(Job) /\ batch' # <<>>
        BY <2>1, <3>2
      <4> QED
        BY <1>0, <2>1, <3>1, <3>2, <4>1 DEF SendTypeOK
    <3>3. CASE UNCHANGED senderVars
      BY <3>1, <3>3 DEF SendTypeOK, senderVars
    <3> QED
      BY <1>2, <3>2, <3>3 DEF SendPop
  <2>3. LinkTypeOK'
    BY <1>2, <2>1 DEF SendPop, LinkTypeOK, linkVars
  <2> QED
    BY <1>2, <2>2, <2>3, TypeParts DEF SendPop
<1>3. CASE SendPopNothing
  <2>1. SendTypeOK'
    BY <1>3 DEF SendPopNothing, SendTypeOK, sendQVars
  <2> QED
    BY <1>3, <2>1, TypeParts DEF SendPopNothing
<1>4. CASE SendCheckShutdown
  <2>1. SendTypeOK'
    BY <1>4 DEF SendCheckShutdown, SendTypeOK, sendQVars
  <2> QED
    BY <1>4, <2>1, TypeParts DEF SendCheckShutdown
<1>5. CASE SendCoalesce
  <2>1. Head(sendQueue) \in Job /\ Tail(sendQueue) \in Seq(Job)
    BY <1>1, <1>5 DEF SendCoalesce, CanGrow
  <2>2. /\ Append(batch, Head(sendQueue)) \in Seq(Job)
        /\ Append(batch, Head(sendQueue)) # <<>>
    BY <2>1, AppendProperties DEF SendTypeOK
  <2>3. SendTypeOK'
    <3>1. sendQueue' \in Seq(Job) /\ sendShutdown' \in BOOLEAN
      BY <1>5, <2>1 DEF SendCoalesce, SendTypeOK
    <3>2. CASE batch' = Append(batch, Head(sendQueue)) /\ UNCHANGED sendPc
               /\ batchSize' = batchSize + MessageSize[Head(sendQueue).type]
      <4>1. batchSize' \in Nat
        BY <1>0, <2>1, <3>2 DEF SendTypeOK
      <4> QED
        BY <1>5, <2>2, <3>1, <3>2, <4>1 DEF SendTypeOK, SendCoalesce
    <3>3. CASE sendPc' = "send" /\ UNCHANGED <<batch, batchSize>>
      BY <1>5, <3>1, <3>3 DEF SendTypeOK, SendCoalesce
    <3> QED
      BY <1>5, <3>2, <3>3 DEF SendCoalesce
  <2>4. LinkTypeOK'
    BY <1>5, <2>1 DEF SendCoalesce, LinkTypeOK, linkVars
  <2> QED
    BY <1>5, <2>3, <2>4, TypeParts DEF SendCoalesce
<1>6. CASE SendBatchFull
  <2>1. SendTypeOK'
    BY <1>6 DEF SendBatchFull, SendTypeOK, sendQVars
  <2> QED
    BY <1>6, <2>1, TypeParts DEF SendBatchFull
<1>7. ASSUME EndSend, sendPc' \in {"pop", "done"}
      PROVE  SendTypeOK'
  BY <1>7, EmptySeq DEF EndSend, SendTypeOK, sendQVars
<1>8. CASE SendAll
  <2>1. SendTypeOK'
    BY <1>7, <1>8 DEF SendAll
  <2>2. wire \o batch \in Seq(Job)
    BY ConcatProperties DEF LinkTypeOK, SendTypeOK
  <2>3. LinkTypeOK'
    BY <1>8, <2>2 DEF SendAll, EndSend, LinkTypeOK
  <2> QED
    BY <1>8, <2>1, <2>3, TypeParts DEF SendAll, EndSend
<1>9. CASE SendAllFails
  <2>1. SendTypeOK'
    BY <1>7, <1>9 DEF SendAllFails
  <2>2. PICK sent \in 0..(Len(batch) - 1) :
          /\ wire' = wire \o SubSeq(batch, 1, sent)
          /\ lost' = lost \cup {batch[i] : i \in (sent + 1)..Len(batch)}
    BY <1>9 DEF SendAllFails
  <2>3. Len(batch) \in Nat /\ \A i \in 1..Len(batch) : batch[i] \in Job
    BY LenProperties DEF SendTypeOK
  <2>4. SubSeq(batch, 1, sent) \in Seq(Job)
    BY <2>3, SubSeqProperties
  <2>5. wire' \in Seq(Job)
    BY <2>2, <2>4, ConcatProperties DEF LinkTypeOK
  <2>6. lost' \subseteq Job
    BY <2>2, <2>3 DEF LinkTypeOK
  <2>7. LinkTypeOK'
    BY <1>9, <2>5, <2>6 DEF SendAllFails, EndSend, LinkTypeOK
  <2>8. CaptureTypeOK'
    BY <1>9 DEF SendAllFails, EndSend, CaptureTypeOK, captureVars
  <2> QED
    BY <1>9, <2>1, <2>7, <2>8, TypeParts DEF SendAllFails, EndSend
<1> QED
  BY <1>2, <1>3, <1>4, <1>5, <1>6, <1>8, <1>9 DEF SendThread

\* The connection fails, whoever ends it: the peer that leaves, or the
\* receiver of ScreenMirror.
LinkDrops == LinkChange({"open", "stalled"}, "failed")

Environment == InputRecvFails \/ InputReject \/ LinkDrops \/ PeerStalls

LEMMA EnvironmentStepType == TypeOK /\ Environment => TypeOK'
<1> SUFFICES ASSUME TypeOK, Environment PROVE TypeOK'
  OBVIOUS
<1> USE DEF TypeOK
<1>1. CASE EndInput
  <2>1. LinkTypeOK'
    BY <1>1 DEF EndInput, LinkTypeOK, linkVars
  <2> QED
    BY <1>1, <2>1, TypeParts DEF EndInput
<1>2. ASSUME NEW from, NEW to \in {"failed", "stalled"}, LinkChange(from, to)
      PROVE  TypeOK'
  <2>1. LinkTypeOK'
    BY <1>2 DEF LinkChange, LinkTypeOK
  <2> QED
    BY <1>2, <2>1, TypeParts DEF LinkChange
<1> QED
  BY <1>1, <1>2 DEF Environment, InputRecvFails, InputReject, LinkDrops, PeerStalls

(* The steps of main, by name: Advance(step) leads where its order says.    *)
MainSteps ==
  {"wait", "stop", "shutRegion", "shutSend", "joinCapture", "joinEncode",
   "joinSend", "close", "joinInput", "destroy"}

LEMMA Orders ==
  /\ DOMAIN NormalOrder = MainSteps
  /\ NormalOrder.wait = "stop" /\ FailedOrder.wait = "stop"
  /\ NormalOrder.stop = "shutRegion" /\ FailedOrder.stop = "shutRegion"
  /\ NormalOrder.shutRegion = "shutSend" /\ FailedOrder.shutRegion = "shutSend"
  /\ NormalOrder.shutSend = "joinCapture" /\ FailedOrder.shutSend = "close"
  /\ NormalOrder.joinCapture = "joinEncode"
  /\ FailedOrder.joinCapture = "joinEncode"
  /\ NormalOrder.joinEncode = "joinSend" /\ FailedOrder.joinEncode = "joinSend"
  /\ NormalOrder.joinSend = "close" /\ FailedOrder.joinSend = "joinInput"
  /\ NormalOrder.close = "joinInput" /\ FailedOrder.close = "joinCapture"
  /\ NormalOrder.joinInput = "destroy" /\ FailedOrder.joinInput = "destroy"
  /\ NormalOrder.destroy = "exit" /\ FailedOrder.destroy = "exit"
BY DEF NormalOrder, FailedOrder, MainSteps

LEMMA AdvanceType ==
  ASSUME MainTypeOK, NEW step \in MainSteps, Advance(step)
  PROVE  MainTypeOK'
BY Orders DEF Advance, MainTypeOK, MainSteps

LEMMA MainStepType == TypeOK /\ MainThread => TypeOK'
<1> SUFFICES ASSUME TypeOK, MainThread PROVE TypeOK'
  OBVIOUS
<1> USE DEF TypeOK
<1>1. MainTypeOK'
  <2>1. \E step \in MainSteps : Advance(step)
    BY DEF MainThread, WaitForCaptureOrSend, RequestStop, ShutRegionQueue,
           ShutSendQueue, JoinCapture, JoinEncode, JoinSend, JoinInput, Join,
           CloseTransport, DestroyQueues, MainSteps
  <2> QED
    BY <2>1, AdvanceType
<1>2. CASE WaitForCaptureOrSend
  BY <1>1, <1>2, TypeParts DEF WaitForCaptureOrSend
<1>3. CASE RequestStop
  <2>1. CaptureTypeOK'
    BY <1>3 DEF RequestStop, CaptureTypeOK, captureVars
  <2> QED
    BY <1>1, <1>3, <2>1, TypeParts DEF RequestStop
<1>4. CASE ShutRegionQueue
  <2>1. EncodeTypeOK'
    BY <1>4 DEF ShutRegionQueue, EncodeTypeOK, encodeVars
  <2> QED
    BY <1>1, <1>4, <2>1, TypeParts DEF ShutRegionQueue
<1>5. CASE ShutSendQueue
  <2>1. SendTypeOK'
    BY <1>5 DEF ShutSendQueue, SendTypeOK, senderVars
  <2> QED
    BY <1>1, <1>5, <2>1, TypeParts DEF ShutSendQueue
<1>6. CASE JoinCapture \/ JoinEncode \/ JoinSend \/ JoinInput
  BY <1>1, <1>6, TypeParts DEF JoinCapture, JoinEncode, JoinSend, JoinInput, Join
<1>7. CASE CloseTransport
  <2>1. LinkTypeOK'
    BY <1>7 DEF CloseTransport, LinkTypeOK
  <2> QED
    BY <1>1, <1>7, <2>1, TypeParts DEF CloseTransport
<1>8. CASE DestroyQueues
  <2>1. EncodeTypeOK'
    BY <1>8, EmptySeq DEF DestroyQueues, EncodeTypeOK, encodeVars
  <2>2. SendTypeOK'
    BY <1>8, EmptySeq DEF DestroyQueues, SendTypeOK, senderVars
  <2>3. LinkTypeOK'
    BY <1>8, ToSetType
       DEF DestroyQueues, LinkTypeOK, EncodeTypeOK, SendTypeOK, linkVars
  <2> QED
    BY <1>1, <1>8, <2>1, <2>2, <2>3, TypeParts DEF DestroyQueues
<1> QED
  BY <1>2, <1>3, <1>4, <1>5, <1>6, <1>7, <1>8 DEF MainThread

LEMMA TypeStutter == TypeOK /\ UNCHANGED vars => TypeOK'
BY TypeParts DEF TypeOK, vars

\* Every step of the sender is one of these, and so is one that ends its
\* connection from outside.
PipelineStep ==
  \/ CaptureThread
  \/ \E w \in Workers : EncodeWorker(w)
  \/ SendThread
  \/ Environment
  \/ MainThread
  \/ UNCHANGED vars

LEMMA NextSteps == [Next]_vars => PipelineStep
BY DEF Next, PipelineStep, Environment, PeerLeaves, LinkDrops, Terminated

LEMMA TypeStep == TypeOK /\ PipelineStep => TypeOK'
BY CaptureStepType, EncodeStepType, SendStepType, EnvironmentStepType,
   MainStepType, TypeStutter
   DEF PipelineStep

(* The sender's variables keep their types, workers hold jobs exactly while *)
(* they encode, and the send thread holds a batch exactly while it sends.   *)
THEOREM TypeCorrect == Spec => []TypeOK
  BY TypeInit, TypeStep, NextSteps, PTL DEF Spec

-----------------------------------------------------------------------------
(* What each thread leaves alone. *)

LEMMA CaptureFrame ==
  CaptureThread => UNCHANGED <<regionShutdown, encodeVars, sendQVars, senderVars,
                               linkVars, inputPc, mainVars>>
BY DEF CaptureThread, CaptureProgress, CaptureGoesOn, CaptureSame, PublishRegion,
       DropRegion, CaptureStop, CaptureFail, EndCapture, CaptureChange,
       CaptureResize, regionVars

LEMMA EncodeFrame ==
  ASSUME NEW w \in Workers, EncodeWorker(w)
  PROVE  UNCHANGED <<captureVars, stopRequested, regionShutdown, sendShutdown,
                     senderVars, linkVars, inputPc, mainVars>>
BY DEF EncodeWorker, EncodePop, EncodePopNothing, EncodeCheckShutdown,
       EncodePush, EncodeDrop, EndEncode, regionVars, sendQVars

LEMMA SendFrame ==
  SendThread => UNCHANGED <<captureVars, regionVars, encodeVars, sendShutdown,
                            link, inputPc, mainVars>>
BY DEF SendThread, SendPop, SendPopNothing, SendCheckShutdown, SendCoalesce,
       SendBatchFull, SendAll, SendAllFails, EndSend, sendQVars, linkVars

LEMMA EnvironmentFrame ==
  Environment => UNCHANGED <<captureVars, stopRequested, regionVars, encodeVars,
                             sendQVars, senderVars, wire, lost, mainVars>>
BY DEF Environment, InputRecvFails, InputReject, LinkDrops, PeerStalls,
       EndInput, LinkChange, linkVars

LEMMA MainFrame ==
  MainThread => UNCHANGED <<captureVars, encodeVars, senderVars, wire, inputPc>>
BY DEF MainThread, WaitForCaptureOrSend, RequestStop, ShutRegionQueue,
       ShutSendQueue, JoinCapture, JoinEncode, JoinSend, JoinInput, Join,
       CloseTransport, DestroyQueues, linkVars

-----------------------------------------------------------------------------
(* The limit of a batch. *)

LEMMA BatchStep == TypeOK /\ BatchBounded /\ PipelineStep => BatchBounded'
<1> SUFFICES ASSUME TypeOK, BatchBounded, PipelineStep,
                    NEW t \in MessageTypes,
                    \A u \in MessageTypes : MessageSize[u] <= MessageSize[t]
             PROVE  batchSize' < BatchMax + MessageSize[t]
  BY DEF BatchBounded
<1>1. /\ BatchMax \in Nat \ {0}
      /\ \A u \in MessageTypes : MessageSize[u] \in Nat
      /\ batchSize \in Nat /\ batchSize < BatchMax + MessageSize[t]
  BY SenderAssumption DEF BatchBounded, TypeOK, SendTypeOK
<1>2. ASSUME CanPop(sendQueue) PROVE Head(sendQueue).type \in MessageTypes
  <2>1. Head(sendQueue) \in Job
    BY <1>2, PopProperties DEF TypeOK, SendTypeOK
  <2> QED
    BY <2>1 DEF Job
<1>3. CASE SendPop
  BY <1>1, <1>2, <1>3 DEF SendPop, senderVars
<1>4. CASE SendCoalesce
  BY <1>1, <1>2, <1>4 DEF SendCoalesce, CanGrow
<1>5. CASE SendAll \/ SendAllFails
  BY <1>1, <1>5 DEF SendAll, SendAllFails, EndSend
<1>6. ASSUME UNCHANGED batchSize PROVE batchSize' < BatchMax + MessageSize[t]
  BY <1>1, <1>6
<1>7. CASE SendThread
  BY <1>3, <1>4, <1>5, <1>6, <1>7
     DEF SendThread, SendPopNothing, SendCheckShutdown, SendBatchFull
<1>8. CASE ~SendThread
  BY <1>6, <1>8, CaptureFrame, EncodeFrame, EnvironmentFrame, MainFrame
     DEF PipelineStep, senderVars, vars
<1> QED
  BY <1>7, <1>8

(* A batch never exceeds its limit by more than one message                 *)
(* (sender_send_thread: SENDER_SEND_BATCH_MAX_BYTES).                       *)
THEOREM BatchesBounded == Spec => []BatchBounded
<1>1. Init => BatchBounded
  <2>1. BatchMax \in Nat \ {0} /\ \A t \in MessageTypes : MessageSize[t] \in Nat
    BY SenderAssumption
  <2> QED
    BY <2>1 DEF Init, BatchBounded
<1> QED
  BY <1>1, TypeCorrect, BatchStep, NextSteps, PTL DEF Spec

-----------------------------------------------------------------------------
(* The end of the threads.                                                  *)

(* A thread that is gone does not come back.                                *)
LEMMA GoneStable ==
  ASSUME TypeOK, PipelineStep
  PROVE  /\ Gone(capturePc) => Gone(capturePc')
         /\ Gone(sendPc) => Gone(sendPc')
         /\ Gone(inputPc) => Gone(inputPc')
         /\ \A w \in Workers : Gone(encodePc[w]) => Gone(encodePc'[w])
<1>1. Gone(capturePc) => UNCHANGED capturePc
  <2>1. CaptureThread => ~Gone(capturePc)
    BY DEF CaptureThread, CaptureProgress, CaptureGoesOn, CaptureSame,
           PublishRegion, DropRegion, CaptureStop, CaptureFail, CaptureChange, CaptureResize, Capturing,
           Gone
  <2> QED
    BY <2>1, EncodeFrame, SendFrame, EnvironmentFrame, MainFrame
       DEF PipelineStep, captureVars, vars
<1>2. Gone(sendPc) => UNCHANGED sendPc
  <2>1. SendThread => ~Gone(sendPc)
    BY DEF SendThread, SendPop, SendPopNothing, SendCheckShutdown,
           SendCoalesce, SendBatchFull, SendAll, SendAllFails, EndSend, Gone
  <2> QED
    BY <2>1, CaptureFrame, EncodeFrame, EnvironmentFrame, MainFrame
       DEF PipelineStep, senderVars, vars
<1>3. Gone(inputPc) => UNCHANGED inputPc
  <2>1. Environment => UNCHANGED inputPc \/ ~Gone(inputPc)
    BY DEF Environment, InputRecvFails, InputReject, LinkDrops, PeerStalls,
           EndInput, LinkChange, Gone
  <2> QED
    BY <2>1, CaptureFrame, EncodeFrame, SendFrame, MainFrame DEF PipelineStep, vars
<1>4. ASSUME NEW w \in Workers, Gone(encodePc[w]) PROVE Gone(encodePc'[w])
  <2>1. ASSUME NEW v \in Workers, EncodeWorker(v) PROVE Gone(encodePc'[w])
    <3>1. encodePc[v] \in {"pop", "check", "encode"}
      BY <2>1 DEF EncodeWorker, EncodePop, EncodePopNothing,
                  EncodeCheckShutdown, EncodePush, EncodeDrop, EndEncode
    <3>2. \E pc : encodePc' = [encodePc EXCEPT ![v] = pc]
      BY <2>1 DEF EncodeWorker, EncodePop, EncodePopNothing,
                  EncodeCheckShutdown, EncodePush, EncodeDrop, EndEncode
    <3> QED
      BY <1>4, <3>1, <3>2 DEF TypeOK, EncodeTypeOK, Gone
  <2> QED
    BY <1>4, <2>1, CaptureFrame, SendFrame, EnvironmentFrame, MainFrame
       DEF PipelineStep, encodeVars, vars
<1> QED
  BY <1>1, <1>2, <1>3, <1>4

(* How far main has come: what it has joined.                               *)
CaptureJoined ==
  \/ mainPc \in {"joinEncode", "joinSend", "joinInput", "destroy", "exit"}
  \/ mainPc = "close" /\ ~startupFailed
EncodeJoined ==
  \/ mainPc \in {"joinSend", "joinInput", "destroy", "exit"}
  \/ mainPc = "close" /\ ~startupFailed
SendJoined ==
  \/ mainPc \in {"joinInput", "destroy", "exit"}
  \/ mainPc = "close" /\ ~startupFailed
InputJoined == mainPc \in {"destroy", "exit"}

(* The inductive invariant behind NoUseAfterFree: a thread that main has    *)
(* joined is gone, and after a complete start the transport is closed only  *)
(* once the threads that send have been joined.                             *)
JoinedIsGone ==
  /\ CaptureJoined => Gone(capturePc)
  /\ EncodeJoined => \A w \in Workers : Gone(encodePc[w])
  /\ SendJoined => Gone(sendPc)
  /\ InputJoined => Gone(inputPc)
  /\ link = "closed" /\ ~startupFailed => mainPc \in {"joinInput", "destroy", "exit"}

LEMMA JoinInit == Init => JoinedIsGone
BY DEF Init, JoinedIsGone, CaptureJoined, EncodeJoined, SendJoined, InputJoined

LEMMA MainJoins == TypeOK /\ JoinedIsGone /\ MainThread => JoinedIsGone'
<1> SUFFICES ASSUME TypeOK, JoinedIsGone, MainThread PROVE JoinedIsGone'
  OBVIOUS
<1> DEFINE Joins(step) ==
       /\ step = "joinCapture" => Gone(capturePc)
       /\ step = "joinEncode" => \A w \in Workers : Gone(encodePc[w])
       /\ step = "joinSend" => Gone(sendPc)
       /\ step = "joinInput" => Gone(inputPc)
       /\ IF step = "close" THEN link' = "closed" ELSE UNCHANGED link
<1>1. PICK step \in MainSteps : Advance(step) /\ Joins(step)
  BY DEF MainThread, WaitForCaptureOrSend, RequestStop, ShutRegionQueue,
         ShutSendQueue, JoinCapture, JoinEncode, JoinSend, JoinInput, Join,
         CloseTransport, DestroyQueues, MainSteps, linkVars
<1>2. /\ UNCHANGED <<capturePc, encodePc, sendPc, inputPc, startupFailed>>
      /\ startupFailed \in BOOLEAN
  BY <1>1, MainFrame
     DEF captureVars, encodeVars, senderVars, Advance, TypeOK, MainTypeOK
<1>3. /\ CaptureJoined' => CaptureJoined \/ step = "joinCapture"
      /\ EncodeJoined' => EncodeJoined \/ step = "joinEncode"
      /\ SendJoined' => SendJoined \/ step = "joinSend"
      /\ InputJoined' => InputJoined \/ step = "joinInput"
  BY <1>1, <1>2, Orders DEF Advance, MainSteps, CaptureJoined, EncodeJoined,
                            SendJoined, InputJoined
<1>4. ASSUME link' = "closed", ~startupFailed'
      PROVE  mainPc' \in {"joinInput", "destroy", "exit"}
  BY <1>1, <1>2, <1>4, Orders DEF Advance, MainSteps, JoinedIsGone
<1> QED
  BY <1>1, <1>2, <1>3, <1>4 DEF JoinedIsGone

LEMMA JoinStep == TypeOK /\ JoinedIsGone /\ PipelineStep => JoinedIsGone'
<1> SUFFICES ASSUME TypeOK, JoinedIsGone, PipelineStep, ~MainThread
             PROVE  JoinedIsGone'
  BY MainJoins
<1>1. UNCHANGED mainVars
  BY CaptureFrame, EncodeFrame, SendFrame, EnvironmentFrame DEF PipelineStep, vars
<1>2. link' = "closed" => link = "closed"
  <2>1. Environment => (link' = "closed" => link = "closed")
    BY DEF Environment, InputRecvFails, InputReject, LinkDrops, PeerStalls,
           EndInput, LinkChange, linkVars
  <2> QED
    BY <2>1, CaptureFrame, EncodeFrame, SendFrame DEF PipelineStep, vars, linkVars
<1> QED
  BY <1>1, <1>2, GoneStable DEF mainVars, JoinedIsGone, CaptureJoined,
     EncodeJoined, SendJoined, InputJoined

(* main frees the queues, the locks and the transport only when no thread   *)
(* can use them any more (the end of main in sender.c).                     *)
THEOREM NothingUsedAfterFree == Spec => []NoUseAfterFree
<1>1. JoinedIsGone => NoUseAfterFree
  BY DEF JoinedIsGone, NoUseAfterFree, CaptureJoined, EncodeJoined, SendJoined,
         InputJoined
<1> QED
  BY <1>1, JoinInit, JoinStep, TypeCorrect, NextSteps, PTL DEF Spec

-----------------------------------------------------------------------------
(* The order of the queues.                                                 *)

(* Pushing full frames, and only them, with priority keeps them first.      *)
LEMMA PushFullsFirst ==
  ASSUME NEW queue \in Seq(Job), NEW job \in Job, FullsFirst(queue),
         NEW full \in BOOLEAN, full <=> IsFull(job)
  PROVE  FullsFirst(Push(queue, job, full))
<1> DEFINE new == Push(queue, job, full)
<1>1. /\ new \in Seq(Job) /\ Len(new) = Len(queue) + 1
      /\ full \/ queue = <<>> =>
           new[1] = job /\ \A i \in 1..Len(queue) : new[i + 1] = queue[i]
      /\ ~(full \/ queue = <<>>) =>
           new[Len(queue) + 1] = job /\ \A i \in 1..Len(queue) : new[i] = queue[i]
  <2>1. CASE full \/ queue = <<>>
    <3>1. new = <<job>> \o queue
      BY <2>1 DEF Push
    <3> QED
      BY <2>1, <3>1, PrependProperties
  <2>2. CASE ~(full \/ queue = <<>>)
    <3>1. new = Append(queue, job)
      BY <2>2 DEF Push
    <3> QED
      BY <2>2, <3>1, AppendProperties, LenProperties
  <2> QED
    BY <2>1, <2>2
<1>2. DOMAIN new = 1..(Len(queue) + 1) /\ DOMAIN queue = 1..Len(queue)
  BY <1>1, LenProperties
<1>3. Len(queue) \in Nat
  BY LenProperties
<1> HIDE DEF new
<1> SUFFICES ASSUME NEW i \in DOMAIN new, NEW j \in DOMAIN new,
                    i < j, IsFull(new[j])
             PROVE  IsFull(new[i])
  BY DEF FullsFirst, new
<1>4. CASE full \/ queue = <<>>
  <2>1. CASE i = 1
    <3>1. queue # <<>>
      <4>1. Len(queue) # 0
        BY <1>2, <1>3, <2>1
      <4> QED
        BY <4>1, EmptySeq
    <3> QED
      BY <1>1, <1>4, <2>1, <3>1
  <2>2. CASE i # 1
    <3>1. i - 1 \in 1..Len(queue) /\ j - 1 \in 1..Len(queue)
      BY <1>2, <1>3, <2>2
    <3>2. new[i] = queue[i - 1] /\ new[j] = queue[j - 1]
      BY <1>1, <1>2, <1>3, <1>4, <3>1
    <3> QED
      BY <1>2, <3>1, <3>2 DEF FullsFirst
  <2> QED
    BY <2>1, <2>2
<1>5. CASE ~(full \/ queue = <<>>)
  <2>1. j # Len(queue) + 1
    BY <1>1, <1>5
  <2>2. i \in 1..Len(queue) /\ j \in 1..Len(queue)
    BY <1>2, <1>3, <2>1
  <2> QED
    BY <1>1, <1>2, <1>5, <2>2 DEF FullsFirst
<1> QED
  BY <1>4, <1>5

(* A pop keeps both orders. *)
LEMMA PopKeepsOrder ==
  ASSUME NEW queue \in Seq(Job), CanPop(queue)
  PROVE  /\ FullsFirst(queue) => FullsFirst(Tail(queue))
         /\ CapturesOrdered(queue) => CapturesOrdered(Tail(queue))
<1>1. /\ DOMAIN Tail(queue) = 1..(Len(queue) - 1)
      /\ DOMAIN queue = 1..Len(queue)
      /\ Len(queue) \in Nat \ {0}
      /\ \A i \in DOMAIN Tail(queue) : Tail(queue)[i] = queue[i + 1]
  BY PopProperties, LenProperties
<1>2. \A i \in DOMAIN Tail(queue) : i + 1 \in DOMAIN queue
  BY <1>1
<1>3. \A i, j \in DOMAIN Tail(queue) : i < j => i + 1 < j + 1
  BY <1>1
<1>4. FullsFirst(queue) => FullsFirst(Tail(queue))
  BY <1>1, <1>2, <1>3 DEF FullsFirst
<1>5. CapturesOrdered(queue) => CapturesOrdered(Tail(queue))
  BY <1>1, <1>2, <1>3 DEF CapturesOrdered
<1> QED
  BY <1>4, <1>5

LEMMA JobShots ==
  ASSUME NEW queue \in Seq(Job)
  PROVE  \A i \in DOMAIN queue : queue[i].shot \in Nat
<1>1. \A i \in DOMAIN queue : queue[i] \in Job
  BY ElementOfSeq, LenProperties
<1>2. \A job \in Job : job.shot \in Nat
  BY SenderAssumption DEF Job, Shots
<1> QED
  BY <1>1, <1>2

(* No job of the queue is newer than capture n. *)
NoNewer(queue, n) == \A i \in DOMAIN queue : queue[i].shot <= n

(* A job newer than the queue keeps it ordered: a full frame at its head,   *)
(* an update, as new as the newest, at its tail.                            *)
LEMMA PushCapturesOrdered ==
  ASSUME NEW queue \in Seq(Job), NEW job \in Job, CapturesOrdered(queue),
         NEW full \in BOOLEAN, full <=> IsFull(job),
         NEW n \in Nat, NoNewer(queue, n),
         IF IsFull(job) THEN job.shot = n + 1 ELSE job.shot = n
  PROVE  CapturesOrdered(Push(queue, job, full))
<1> DEFINE new == Push(queue, job, full)
<1>1. /\ new \in Seq(Job) /\ Len(new) = Len(queue) + 1
      /\ full \/ queue = <<>> =>
           new[1] = job /\ \A i \in 1..Len(queue) : new[i + 1] = queue[i]
      /\ ~(full \/ queue = <<>>) =>
           new[Len(queue) + 1] = job /\ \A i \in 1..Len(queue) : new[i] = queue[i]
  <2>1. CASE full \/ queue = <<>>
    <3>1. new = <<job>> \o queue
      BY <2>1 DEF Push
    <3> QED
      BY <2>1, <3>1, PrependProperties
  <2>2. CASE ~(full \/ queue = <<>>)
    <3>1. new = Append(queue, job)
      BY <2>2 DEF Push
    <3> QED
      BY <2>2, <3>1, AppendProperties, LenProperties
  <2> QED
    BY <2>1, <2>2
<1>2. DOMAIN new = 1..(Len(queue) + 1) /\ DOMAIN queue = 1..Len(queue)
  BY <1>1, LenProperties
<1>3. Len(queue) \in Nat /\ \A i \in DOMAIN queue : queue[i].shot \in Nat
  BY JobShots, LenProperties
<1> HIDE DEF new
<1> SUFFICES ASSUME NEW i \in DOMAIN new, NEW j \in DOMAIN new, i < j
             PROVE  /\ IsFull(new[j]) => new[i].shot > new[j].shot
                    /\ ~IsFull(new[i]) => new[i].shot <= new[j].shot
  BY DEF CapturesOrdered, new
<1>4. CASE full \/ queue = <<>>
  <2>0. j - 1 \in 1..Len(queue) /\ new[j] = queue[j - 1]
    BY <1>1, <1>2, <1>3, <1>4
  <2>1. CASE i = 1
    <3>1. IsFull(job)
      <4>1. Len(queue) # 0
        BY <1>3, <2>0
      <4> QED
        BY <1>4, <4>1, EmptySeq
    <3>2. job.shot > queue[j - 1].shot
      BY <1>2, <1>3, <2>0, <3>1 DEF NoNewer
    <3> QED
      BY <1>1, <2>0, <2>1, <3>1, <3>2
  <2>2. CASE i # 1
    <3>1. i - 1 \in 1..Len(queue) /\ new[i] = queue[i - 1] /\ i - 1 < j - 1
      BY <1>1, <1>2, <1>3, <1>4, <2>2
    <3> QED
      BY <1>2, <2>0, <3>1 DEF CapturesOrdered
  <2> QED
    BY <2>1, <2>2
<1>5. CASE ~(full \/ queue = <<>>)
  <2>1. i \in 1..Len(queue) /\ new[i] = queue[i]
    BY <1>1, <1>2, <1>3, <1>5
  <2>2. CASE j = Len(queue) + 1
    BY <1>1, <1>2, <1>5, <2>1, <2>2 DEF NoNewer
  <2>3. CASE j # Len(queue) + 1
    <3>1. j \in 1..Len(queue) /\ new[j] = queue[j]
      BY <1>1, <1>2, <1>3, <1>5, <2>3
    <3> QED
      BY <1>2, <2>1, <3>1 DEF CapturesOrdered
  <2> QED
    BY <2>2, <2>3
<1> QED
  BY <1>4, <1>5

LEMMA PushNoNewer ==
  ASSUME NEW queue \in Seq(Job), NEW job \in Job, NEW full \in BOOLEAN,
         NEW n \in Nat, NoNewer(queue, n), job.shot <= n
  PROVE  NoNewer(Push(queue, job, full), n)
<1>1. CASE full \/ queue = <<>>
  <2>1. Push(queue, job, full) = <<job>> \o queue
    BY <1>1 DEF Push
  <2>2. DOMAIN (<<job>> \o queue) = 1..(Len(queue) + 1)
    BY PrependProperties, LenProperties
  <2>3. \A i \in 1..(Len(queue) + 1) : i = 1 \/ i - 1 \in 1..Len(queue)
    BY LenProperties
  <2>4. \A i \in 1..Len(queue) : queue[i].shot <= n /\ i \in Nat
    BY LenProperties DEF NoNewer
  <2>5. ASSUME NEW i \in 1..(Len(queue) + 1), i # 1
        PROVE  (<<job>> \o queue)[i] = queue[i - 1]
    <3>1. i - 1 \in 1..Len(queue) /\ (i - 1) + 1 = i
      BY <2>3, <2>5
    <3> QED
      BY <3>1, PrependProperties
  <2> QED
    BY <2>1, <2>2, <2>3, <2>4, <2>5, PrependProperties DEF NoNewer
<1>2. CASE ~(full \/ queue = <<>>)
  BY <1>2, AppendProperties, LenProperties DEF Push, NoNewer
<1> QED
  BY <1>1, <1>2

(* The region queue is ordered because what is pushed on it is always the   *)
(* newest: no job of it is newer than the last capture.                     *)
OrderInv == QueuesOrdered /\ NoNewer(regionQueue, captures)

LEMMA OrderInit == Init => OrderInv
<1> SUFFICES ASSUME Init PROVE OrderInv
  OBVIOUS
<1>1. PICK grid \in Resolutions : regionQueue = <<FullFrame(grid, 0)>>
  BY DEF Init
<1>2. sendQueue = <<>> /\ captures = 0
  BY DEF Init
<1>3. \A i \in DOMAIN regionQueue : i = 1 /\ regionQueue[i].shot = 0
  BY <1>1 DEF FullFrame
<1> QED
  BY <1>2, <1>3 DEF OrderInv, QueuesOrdered, FullsFirst, CapturesOrdered, NoNewer

LEMMA CaptureOrders == TypeOK /\ OrderInv /\ CaptureThread => OrderInv'
<1> SUFFICES ASSUME TypeOK, OrderInv, CaptureThread PROVE OrderInv'
  OBVIOUS
<1>1. captures \in Nat /\ regionQueue \in Seq(Job) /\ UNCHANGED sendQueue
  BY CaptureFrame DEF TypeOK, CaptureTypeOK, EncodeTypeOK, Shots, sendQVars
<1>2. ASSUME NEW job \in Job, NEW full \in BOOLEAN, full <=> IsFull(job),
             job.shot = captures', captures' \in Nat,
             IF full THEN captures' = captures + 1 ELSE captures' = captures,
             regionQueue' = Push(regionQueue, job, full)
      PROVE  OrderInv'
  <2>1. NoNewer(regionQueue, captures')
    BY <1>1, <1>2, JobShots DEF OrderInv, NoNewer
  <2>2. NoNewer(regionQueue', captures')
    BY <1>1, <1>2, <2>1, PushNoNewer
  <2>3. FullsFirst(regionQueue') /\ CapturesOrdered(regionQueue')
    BY <1>1, <1>2, PushFullsFirst, PushCapturesOrdered
       DEF OrderInv, QueuesOrdered
  <2> QED
    BY <1>1, <2>2, <2>3 DEF OrderInv, QueuesOrdered
<1>3. CASE PublishRegion
  <2>1. UpdateRegion(Head(unpublished), captures) \in Job
    <3>1. Head(unpublished) \in SUBSET Cells
      BY <1>3, HeadTailProperties DEF PublishRegion, TypeOK, CaptureTypeOK
    <3> QED
      BY <3>1, JobTypes DEF TypeOK, CaptureTypeOK
  <2> DEFINE job == UpdateRegion(Head(unpublished), captures)
  <2>2. ~IsFull(job) /\ job.shot = captures
    BY DEF UpdateRegion, IsFull
  <2>3. captures' = captures /\ regionQueue' = Push(regionQueue, job, FALSE)
    BY <1>3 DEF PublishRegion
  <2> HIDE DEF job
  <2> QED
    BY <1>1, <1>2, <2>1, <2>2, <2>3 DEF job
<1>4. ASSUME NEW grid \in Resolutions, CaptureResize(grid) PROVE OrderInv'
  <2> DEFINE job == FullFrame(grid, captures + 1)
  <2>1. job \in Job
    BY <1>4, JobTypes, SenderAssumption
       DEF CaptureResize, TypeOK, CaptureTypeOK, Shots
  <2>2. IsFull(job) /\ job.shot = captures + 1
    BY DEF FullFrame, IsFull
  <2>3. captures' = captures + 1 /\ regionQueue' = Push(regionQueue, job, TRUE)
    BY <1>4 DEF CaptureResize
  <2>4. /\ TRUE <=> IsFull(job)
        /\ job.shot = captures' /\ captures' \in Nat
    BY <1>1, <2>2, <2>3
  <2> HIDE DEF job
  <2> QED
    BY <1>2, <2>1, <2>3, <2>4
<1>5. ASSUME captures' \in {captures, captures + 1}, regionQueue' = regionQueue
      PROVE  OrderInv'
  <2>1. NoNewer(regionQueue', captures')
    BY <1>1, <1>5, JobShots DEF OrderInv, NoNewer
  <2> QED
    BY <1>1, <1>5, <2>1 DEF OrderInv, QueuesOrdered
<1> QED
  BY <1>3, <1>4, <1>5
  DEF CaptureThread, CaptureProgress, CaptureGoesOn, CaptureSame, DropRegion,
     CaptureStop, CaptureFail, EndCapture, CaptureChange, regionVars

LEMMA EncodeOrders ==
  ASSUME TypeOK, OrderInv, NEW w \in Workers, EncodeWorker(w)
  PROVE  OrderInv'
<1>1. UNCHANGED captures /\ regionQueue \in Seq(Job) /\ sendQueue \in Seq(Job)
  BY EncodeFrame DEF captureVars, TypeOK, EncodeTypeOK, SendTypeOK
<1>2. CASE EncodePop(w)
  <2>1. /\ CanPop(regionQueue) /\ regionQueue' = Tail(regionQueue)
        /\ UNCHANGED sendQueue
    BY <1>2 DEF EncodePop, sendQVars
  <2>2. NoNewer(Tail(regionQueue), captures)
    <3>1. /\ DOMAIN Tail(regionQueue) = 1..(Len(regionQueue) - 1)
          /\ DOMAIN regionQueue = 1..Len(regionQueue)
          /\ Len(regionQueue) \in Nat
          /\ \A i \in DOMAIN Tail(regionQueue) :
               Tail(regionQueue)[i] = regionQueue[i + 1]
      BY <1>1, <2>1, PopProperties, LenProperties
    <3>2. \A i \in DOMAIN Tail(regionQueue) : i + 1 \in DOMAIN regionQueue
      BY <3>1
    <3> QED
      BY <3>1, <3>2 DEF OrderInv, NoNewer
  <2> QED
    BY <1>1, <2>1, <2>2, PopKeepsOrder DEF OrderInv, QueuesOrdered
<1>3. CASE EncodePush(w)
  <2> DEFINE job == encodeJob[w]
             full == IsFull(job)
  <2>1. job \in Job /\ full \in BOOLEAN /\ (full <=> IsFull(job))
    BY <1>3, JobTypes DEF EncodePush, EndEncode, TypeOK, EncodeTypeOK
  <2>2. sendQueue' = Push(sendQueue, job, full) /\ UNCHANGED regionQueue
    BY <1>3 DEF EncodePush, EndEncode, regionVars
  <2> HIDE DEF job, full
  <2>3. FullsFirst(Push(sendQueue, job, full))
    BY <1>1, <2>1, PushFullsFirst DEF OrderInv, QueuesOrdered
  <2> QED
    BY <1>1, <2>2, <2>3 DEF OrderInv, QueuesOrdered
<1>4. ASSUME UNCHANGED <<regionQueue, sendQueue>> PROVE OrderInv'
  BY <1>1, <1>4 DEF OrderInv, QueuesOrdered
<1> QED
  BY <1>2, <1>3, <1>4 DEF EncodeWorker, EncodePopNothing, EncodeCheckShutdown,
     EncodeDrop, EndEncode, regionVars, sendQVars

LEMMA OrderStep == TypeOK /\ OrderInv /\ PipelineStep => OrderInv'
<1> SUFFICES ASSUME TypeOK, OrderInv, PipelineStep PROVE OrderInv'
  OBVIOUS
<1>1. ASSUME UNCHANGED <<captures, regionQueue>>,
             sendQueue' = sendQueue
               \/ (CanPop(sendQueue) /\ sendQueue' = Tail(sendQueue))
      PROVE  OrderInv'
  <2>1. FullsFirst(sendQueue')
    BY <1>1, PopKeepsOrder DEF OrderInv, QueuesOrdered, TypeOK, SendTypeOK
  <2> QED
    BY <1>1, <2>1 DEF OrderInv, QueuesOrdered
<1>2. CASE SendThread
  <2>1. sendQueue' = sendQueue
          \/ (CanPop(sendQueue) /\ sendQueue' = Tail(sendQueue))
    BY <1>2 DEF SendThread, SendPop, SendPopNothing, SendCheckShutdown,
       SendCoalesce, CanGrow, SendBatchFull, SendAll, SendAllFails, EndSend, sendQVars
  <2> QED
    BY <1>1, <1>2, <2>1, SendFrame DEF captureVars, regionVars
<1>3. CASE MainThread
  <2>1. CASE DestroyQueues
    <3>1. regionQueue' = <<>> /\ sendQueue' = <<>>
      BY <2>1 DEF DestroyQueues
    <3> QED
      BY <3>1, EmptySeq DEF OrderInv, QueuesOrdered, FullsFirst, CapturesOrdered,
         NoNewer
  <2>2. CASE ~DestroyQueues
    <3>1. UNCHANGED <<regionQueue, sendQueue>>
      BY <1>3, <2>2 DEF MainThread, WaitForCaptureOrSend, RequestStop,
         ShutRegionQueue, ShutSendQueue, JoinCapture, JoinEncode, JoinSend,
         JoinInput, Join, CloseTransport, regionVars, sendQVars
    <3> QED
      BY <1>1, <1>3, <3>1, MainFrame DEF captureVars
  <2> QED
    BY <2>1, <2>2
<1>4. CASE Environment \/ UNCHANGED vars
  BY <1>1, <1>4, EnvironmentFrame DEF vars, captureVars, regionVars, sendQVars
<1> QED
  BY <1>2, <1>3, <1>4, CaptureOrders, EncodeOrders DEF PipelineStep

(* In both queues the full frames are ahead of the region updates, and the  *)
(* region queue keeps its updates in the order of their captures.           *)
THEOREM QueuesStayOrdered == Spec => []QueuesOrdered
<1>1. OrderInv => QueuesOrdered
  BY DEF OrderInv
<1> QED
  BY <1>1, OrderInit, OrderStep, TypeCorrect, NextSteps, PTL DEF Spec

-----------------------------------------------------------------------------
(* Nothing vanishes.  Whatever exists, was sent or was dropped, is never    *)
(* forgotten: each step moves jobs between these sets or adds new ones.     *)
Known == InFlight \cup ToSet(wire) \cup lost

LEMMA EncodeKnown ==
  ASSUME TypeOK, NEW w \in Workers, EncodeWorker(w)
  PROVE  Known \subseteq Known'
<1>1. UNCHANGED <<Published, ToSet(batch), ToSet(wire)>>
  BY EncodeFrame DEF captureVars, senderVars, linkVars, Published
<1>2. /\ regionQueue \in Seq(Job) /\ sendQueue \in Seq(Job)
      /\ encodePc \in [Workers -> {"pop", "check", "encode", "done", "none"}]
      /\ encodeJob \in [Workers -> Job \cup {Idle}]
      /\ encodePc[w] = "encode" => encodeJob[w] \in Job
  BY DEF TypeOK, EncodeTypeOK, SendTypeOK
<1>3. ASSUME NEW job \in Job, Encoding \subseteq Encoding' \cup {job},
             ToSet(regionQueue) \subseteq ToSet(regionQueue') \cup {job},
             ToSet(sendQueue) \subseteq ToSet(sendQueue'), lost \subseteq lost',
             job \in Encoding' \cup ToSet(sendQueue') \cup lost'
      PROVE  Known \subseteq Known'
  BY <1>1, <1>3 DEF Known, InFlight
<1>4. CASE EncodePop(w)
  <2> DEFINE job == Head(regionQueue)
  <2>1. job \in Job /\ ToSet(regionQueue) = {job} \cup ToSet(regionQueue')
    BY <1>2, <1>4, PopSet, PopProperties DEF EncodePop
  <2>2. /\ encodePc[w] # "encode"
        /\ encodePc' = [encodePc EXCEPT ![w] = "encode"]
        /\ encodeJob' = [encodeJob EXCEPT ![w] = job]
        /\ UNCHANGED <<sendQueue, lost>>
    BY <1>4 DEF EncodePop, sendQVars
  <2> HIDE DEF job
  <2>3. Encoding \subseteq Encoding' /\ job \in Encoding'
    BY <1>2, <2>2 DEF Encoding
  <2> QED
    BY <1>3, <2>1, <2>2, <2>3
<1>5. CASE EncodePopNothing(w) \/ EncodeCheckShutdown(w)
  <2>1. /\ UNCHANGED <<regionQueue, sendQueue, lost, encodeJob>>
        /\ encodePc[w] # "encode"
        /\ \E pc : encodePc' = [encodePc EXCEPT ![w] = pc]
    BY <1>5 DEF EncodePopNothing, EncodeCheckShutdown, regionVars, sendQVars
  <2>2. Encoding \subseteq Encoding'
    BY <1>2, <2>1 DEF Encoding
  <2> QED
    BY <1>1, <2>1, <2>2 DEF Known, InFlight
<1>6. CASE EncodePush(w) \/ EncodeDrop(w)
  <2> DEFINE job == encodeJob[w]
  <2>1. /\ job \in Job /\ UNCHANGED regionQueue
        /\ encodePc' = [encodePc EXCEPT ![w] = "pop"]
        /\ encodeJob' = [encodeJob EXCEPT ![w] = Idle]
    BY <1>2, <1>6 DEF EncodePush, EncodeDrop, EndEncode, regionVars
  <2>2. Encoding \subseteq Encoding' \cup {job}
    BY <1>2, <2>1 DEF Encoding
  <2>3. CASE EncodePush(w)
    <3>1. UNCHANGED lost /\ sendQueue' = Push(sendQueue, job, IsFull(job))
      BY <2>3 DEF EncodePush
    <3>2. IsFull(job) \in BOOLEAN
      BY <2>1, JobTypes
    <3>3. ToSet(sendQueue') = ToSet(sendQueue) \cup {job}
      BY <1>2, <2>1, <3>1, <3>2, PrependSet, AppendSet DEF Push
    <3> QED
      BY <1>3, <2>1, <2>2, <3>1, <3>3
  <2>4. CASE EncodeDrop(w)
    <3>1. lost' = lost \cup {job} /\ UNCHANGED sendQueue
      BY <2>4 DEF EncodeDrop
    <3> QED
      BY <1>3, <2>1, <2>2, <3>1
  <2> QED
    BY <1>6, <2>3, <2>4
<1> QED
  BY <1>4, <1>5, <1>6 DEF EncodeWorker

LEMMA SendKnown == TypeOK /\ SendThread => Known \subseteq Known'
<1> SUFFICES ASSUME TypeOK, SendThread PROVE Known \subseteq Known'
  OBVIOUS
<1>1. UNCHANGED <<Published, ToSet(regionQueue), Encoding>>
  BY SendFrame DEF captureVars, regionVars, encodeVars, Published, Encoding
<1>2. /\ sendQueue \in Seq(Job) /\ batch \in Seq(Job) /\ wire \in Seq(Job)
      /\ sendPc = "pop" => batch = <<>>
  BY DEF TypeOK, SendTypeOK, LinkTypeOK
<1>3. ASSUME ToSet(sendQueue) \cup ToSet(batch) \cup ToSet(wire) \cup lost
               \subseteq ToSet(sendQueue') \cup ToSet(batch') \cup ToSet(wire')
                           \cup lost'
      PROVE  Known \subseteq Known'
  BY <1>1, <1>3 DEF Known, InFlight
<1>4. CASE SendPop \/ SendCoalesce
  <2> DEFINE job == Head(sendQueue)
  <2>1. /\ job \in Job /\ UNCHANGED wire
        /\ ToSet(sendQueue) = {job} \cup ToSet(sendQueue')
    BY <1>2, <1>4, PopSet, PopProperties
       DEF SendPop, SendCoalesce, CanGrow, linkVars
  <2>2. \/ batch' = Append(batch, job) /\ UNCHANGED lost
        \/ UNCHANGED batch /\ lost' = lost \cup {job}
    <3>1. CASE SendPop
      <4>1. batch = <<>>
        BY <1>2, <3>1 DEF SendPop
      <4> QED
        BY <3>1, <4>1 DEF SendPop, senderVars
    <3>2. CASE SendCoalesce
      BY <3>2 DEF SendCoalesce
    <3> QED
      BY <1>4, <3>1, <3>2
  <2> HIDE DEF job
  <2>3. ToSet(batch) \cup lost \cup {job} \subseteq ToSet(batch') \cup lost'
    <3>1. ToSet(Append(batch, job)) = ToSet(batch) \cup {job}
      BY <1>2, <2>1, AppendSet
    <3> QED
      BY <2>2, <3>1
  <2> QED
    BY <1>3, <2>1, <2>3
<1>5. CASE SendPopNothing \/ SendCheckShutdown \/ SendBatchFull
  <2>1. UNCHANGED <<sendQueue, batch, wire, lost>>
    BY <1>5 DEF SendPopNothing, SendCheckShutdown, SendBatchFull, sendQVars, linkVars
  <2> QED
    BY <1>3, <2>1
<1>6. CASE SendAll
  <2>1. UNCHANGED <<sendQueue, lost>> /\ wire' = wire \o batch
    BY <1>6 DEF SendAll, EndSend, sendQVars
  <2>2. ToSet(wire') = ToSet(wire) \cup ToSet(batch)
    BY <1>2, <2>1, ConcatSet
  <2> QED
    BY <1>3, <2>1, <2>2
<1>7. CASE SendAllFails
  <2>1. PICK sent \in 0..(Len(batch) - 1) :
          /\ wire' = wire \o SubSeq(batch, 1, sent)
          /\ lost' = lost \cup {batch[i] : i \in (sent + 1)..Len(batch)}
    BY <1>7 DEF SendAllFails
  <2> DEFINE whole == SubSeq(batch, 1, sent)
  <2>2. /\ Len(batch) \in Nat /\ DOMAIN batch = 1..Len(batch)
        /\ whole \in Seq(Job) /\ DOMAIN whole = 1..sent
        /\ \A i \in 1..sent : whole[i] = batch[i]
    <3>1. Len(batch) \in Nat /\ DOMAIN batch = 1..Len(batch)
      BY <1>2, LenProperties
    <3>2. \A i \in 1..sent : batch[i] \in Job
      BY <1>2, <3>1, ElementOfSeq
    <3>3. /\ whole \in Seq(Job) /\ Len(whole) = sent
          /\ \A i \in 1..sent : whole[i] = batch[i]
      BY <1>2, <3>1, <3>2, SubSeqProperties
    <3> QED
      BY <3>1, <3>3, LenProperties
  <2>7. wire' = wire \o whole
    BY <2>1
  <2> HIDE DEF whole
  <2>3. ToSet(wire') = ToSet(wire) \cup ToSet(whole)
    BY <1>2, <2>2, <2>7, ConcatSet
  <2>4. \A i \in DOMAIN batch : batch[i] \in ToSet(whole) \cup lost'
    <3>1. \A i \in DOMAIN batch : i \in 1..sent \/ i \in (sent + 1)..Len(batch)
      BY <2>2
    <3>2. \A i \in 1..sent : batch[i] \in ToSet(whole)
      BY <2>2, SetOf
    <3>3. \A i \in (sent + 1)..Len(batch) : batch[i] \in lost'
      BY <2>1
    <3> QED
      BY <3>1, <3>2, <3>3
  <2>5. ToSet(batch) \subseteq ToSet(whole) \cup lost'
    BY <2>4, SetOf
  <2>6. UNCHANGED sendQueue /\ lost \subseteq lost'
    BY <1>7, <2>1 DEF SendAllFails, EndSend, sendQVars
  <2> QED
    BY <1>3, <2>3, <2>5, <2>6
<1> QED
  BY <1>4, <1>5, <1>6, <1>7 DEF SendThread

LEMMA MainKnown == TypeOK /\ MainThread => Known \subseteq Known'
<1> SUFFICES ASSUME TypeOK, MainThread PROVE Known \subseteq Known'
  OBVIOUS
<1>1. UNCHANGED <<Published, Encoding, ToSet(batch), ToSet(wire)>>
  BY MainFrame DEF captureVars, encodeVars, senderVars, Published, Encoding
<1>2. CASE DestroyQueues
  <2>1. ToSet(regionQueue) \cup ToSet(sendQueue) \cup lost \subseteq lost'
    BY <1>2 DEF DestroyQueues
  <2> QED
    BY <1>1, <2>1 DEF Known, InFlight
<1>3. CASE ~DestroyQueues
  <2>1. UNCHANGED <<regionQueue, sendQueue, lost>>
    BY <1>3 DEF MainThread, WaitForCaptureOrSend, RequestStop, ShutRegionQueue,
       ShutSendQueue, JoinCapture, JoinEncode, JoinSend, JoinInput, Join,
       CloseTransport, regionVars, sendQVars
  <2> QED
    BY <1>1, <2>1 DEF Known, InFlight
<1> QED
  BY <1>2, <1>3

\* What the capture thread adds to Known, and what it leaves in it.
LEMMA CaptureKnown ==
  ASSUME TypeOK, CaptureThread,
         Published \subseteq Published' \cup ToSet(regionQueue') \cup lost',
         ToSet(regionQueue) \subseteq ToSet(regionQueue'), lost \subseteq lost'
  PROVE  Known \subseteq Known'
<1>1. UNCHANGED <<Encoding, ToSet(sendQueue), ToSet(batch), ToSet(wire)>>
  BY CaptureFrame DEF encodeVars, sendQVars, senderVars, linkVars, Encoding
<1> QED
  BY <1>1 DEF Known, InFlight

LEMMA NothingPublished ==
  ASSUME TypeOK, capturePc = "capture" PROVE unpublished = <<>> /\ Published = {}
<1>1. unpublished = <<>>
  BY DEF TypeOK, CaptureTypeOK
<1> QED
  BY <1>1 DEF Published

LEMMA VanishInit == Init => NothingVanishes
<1> SUFFICES ASSUME Init PROVE NothingVanishes
  OBVIOUS
<1>1. PICK grid \in Resolutions : /\ previousFrame = [c \in grid |-> 0]
                                 /\ regionQueue = <<FullFrame(grid, 0)>>
  BY DEF Init
<1>2. FullFrame(grid, 0) \in ToSet(regionQueue)
  BY <1>1 DEF ToSet
<1> QED
  BY <1>1, <1>2 DEF NothingVanishes, InFlight, Grid, FullFrame

(* A change of the screen puts the changed tiles into Known.                *)
LEMMA ChangeKnown ==
  ASSUME TypeOK, NothingVanishes, NEW changed \in SUBSET Grid,
         CaptureChange(changed)
  PROVE  NothingVanishes'
<1> DEFINE fresh == RegionJobs(Regions[Grid][changed], captures + 1)
<1>1. PICK grid \in Resolutions : Grid = grid
  BY DEF TypeOK, CaptureTypeOK, Grid
<1>2. unpublished = <<>> /\ Published = {}
  BY NothingPublished DEF CaptureChange, Capturing
<1>3. /\ captures' = captures + 1 /\ UNCHANGED regionQueue /\ lost \subseteq lost'
      /\ previousFrame' =
           [c \in Grid |-> IF c \in changed THEN captures + 1 ELSE previousFrame[c]]
  BY DEF CaptureChange, regionVars
<1>4. fresh \subseteq Published' \cup lost'
  BY DEF CaptureChange, RegionJobs, Published
<1>5. Known \subseteq Known'
  BY <1>2, <1>3, CaptureKnown DEF CaptureThread
<1>6. Published' \cup lost' \subseteq Known'
  BY DEF Known, InFlight
<1>7. ASSUME NEW c \in changed
      PROVE  \E job \in fresh : c \in job.cells /\ job.shot = captures + 1
  <2>1. Scan!CutsExactly(Regions[Grid][changed], changed)
    BY <1>1, SenderAssumption
  <2>2. PICK i \in DOMAIN Regions[Grid][changed] : c \in Regions[Grid][changed][i]
    BY <2>1 DEF Scan!CutsExactly
  <2> DEFINE region == Regions[Grid][changed][i]
             job == UpdateRegion(region, captures + 1)
  <2>3. job \in fresh
    BY DEF RegionJobs
  <2>4. job.cells = region /\ job.shot = captures + 1
    BY DEF UpdateRegion
  <2> QED
    BY <2>2, <2>3, <2>4
<1> HIDE DEF fresh
<1>8. SUFFICES ASSUME NEW c \in Grid
               PROVE  \E job \in Known' :
                        c \in job.cells /\ job.shot = previousFrame'[c]
  BY <1>3 DEF NothingVanishes, Known, Grid
<1>9. CASE c \in changed
  BY <1>3, <1>4, <1>6, <1>7, <1>9
<1>10. CASE c \notin changed
  BY <1>3, <1>5, <1>10 DEF NothingVanishes, Known
<1> QED
  BY <1>9, <1>10

LEMMA ResizeKnown ==
  ASSUME TypeOK, NEW grid \in Resolutions, CaptureResize(grid)
  PROVE  NothingVanishes'
<1> DEFINE job == FullFrame(grid, captures + 1)
<1>1. /\ previousFrame' = [c \in grid |-> captures + 1]
      /\ regionQueue' = Push(regionQueue, job, TRUE)
  BY DEF CaptureResize
<1>2. regionQueue \in Seq(Job) /\ job \in Job
  BY JobTypes, SenderAssumption
     DEF CaptureResize, TypeOK, CaptureTypeOK, EncodeTypeOK, Shots
<1>3. job.cells = grid /\ job.shot = captures + 1
  BY DEF FullFrame
<1> HIDE DEF job
<1>4. job \in ToSet(regionQueue')
  BY <1>1, <1>2, PrependSet DEF Push
<1> QED
  BY <1>1, <1>3, <1>4 DEF NothingVanishes, InFlight, Grid

LEMMA CaptureVanish ==
  TypeOK /\ NothingVanishes /\ CaptureThread => NothingVanishes'
<1> SUFFICES ASSUME TypeOK, NothingVanishes, CaptureThread
             PROVE  NothingVanishes'
  OBVIOUS
<1>1. ASSUME UNCHANGED previousFrame, Known \subseteq Known' PROVE NothingVanishes'
  BY <1>1 DEF NothingVanishes, Known, Grid
<1>2. CASE PublishRegion \/ DropRegion
  <2> DEFINE job == UpdateRegion(Head(unpublished), captures)
  <2>1. /\ unpublished \in Seq(SUBSET Cells) /\ unpublished # <<>>
        /\ regionQueue \in Seq(Job)
    BY <1>2 DEF PublishRegion, DropRegion, TypeOK, CaptureTypeOK, EncodeTypeOK
  <2>2. job \in Job
    <3>1. Head(unpublished) \in SUBSET Cells
      BY <2>1, HeadTailProperties
    <3> QED
      BY <3>1, JobTypes DEF TypeOK, CaptureTypeOK
  <2>3. /\ UNCHANGED <<previousFrame, captures>>
        /\ unpublished' = Tail(unpublished)
    BY <1>2 DEF PublishRegion, DropRegion
  <2>4. Published \subseteq Published' \cup {job}
    <3>1. /\ DOMAIN unpublished = 1..Len(unpublished)
          /\ DOMAIN Tail(unpublished) = 1..(Len(unpublished) - 1)
          /\ Len(unpublished) \in Nat
          /\ Head(unpublished) = unpublished[1]
          /\ \A i \in DOMAIN Tail(unpublished) :
               Tail(unpublished)[i] = unpublished[i + 1]
      BY <2>1, HeadTailProperties, LenProperties
    <3>2. \A i \in DOMAIN unpublished :
            \/ i = 1
            \/ i - 1 \in DOMAIN Tail(unpublished) /\ (i - 1) + 1 = i
      BY <3>1
    <3>3. \A i \in DOMAIN unpublished :
            \/ unpublished[i] = Head(unpublished)
            \/ \E k \in DOMAIN Tail(unpublished) :
                 unpublished[i] = Tail(unpublished)[k]
      BY <3>1, <3>2
    <3> QED
      BY <2>3, <3>3 DEF Published
  <2> HIDE DEF job
  <2>5. /\ ToSet(regionQueue) \subseteq ToSet(regionQueue')
        /\ lost \subseteq lost'
        /\ job \in ToSet(regionQueue') \cup lost'
    <3>1. CASE PublishRegion
      <4>1. regionQueue' = Push(regionQueue, job, FALSE) /\ UNCHANGED lost
        BY <3>1 DEF PublishRegion, job
      <4> QED
        BY <2>1, <2>2, <4>1, PrependSet, AppendSet DEF Push
    <3>2. CASE DropRegion
      BY <3>2 DEF DropRegion, regionVars, job
    <3> QED
      BY <1>2, <3>1, <3>2
  <2> QED
    BY <1>1, <2>3, <2>4, <2>5, CaptureKnown
<1>3. CASE CaptureGoesOn \/ CaptureSame \/ CaptureFail \/ CaptureStop
  <2>1. UNCHANGED <<previousFrame, Published, regionQueue, lost>>
    BY <1>3
    DEF CaptureGoesOn, CaptureSame, CaptureFail, CaptureStop, EndCapture,
        regionVars, Published
  <2> QED
    BY <1>1, <2>1, CaptureKnown
<1> QED
  BY <1>2, <1>3, ChangeKnown, ResizeKnown DEF CaptureThread, CaptureProgress

LEMMA VanishStep ==
  TypeOK /\ NothingVanishes /\ PipelineStep => NothingVanishes'
<1> SUFFICES ASSUME TypeOK, NothingVanishes, PipelineStep, ~CaptureThread
             PROVE  NothingVanishes'
  BY CaptureVanish
<1>1. UNCHANGED previousFrame
  BY EncodeFrame, SendFrame, EnvironmentFrame, MainFrame
     DEF PipelineStep, vars, captureVars
<1>2. Known \subseteq Known'
  <2>1. Environment \/ UNCHANGED vars => UNCHANGED Known
    BY EnvironmentFrame DEF vars, captureVars, regionVars, encodeVars, sendQVars,
       senderVars, linkVars, Known, InFlight, Published, Encoding
  <2> QED
    BY <2>1, EncodeKnown, SendKnown, MainKnown DEF PipelineStep
<1> QED
  BY <1>1, <1>2 DEF NothingVanishes, Known, Grid

(* No content of the screen is ever forgotten, with any number of workers   *)
(* and whatever fails: the newest content of every tile is in a queue, with *)
(* a worker, in the batch, sent, or dropped by a failure.                   *)
THEOREM NoContentVanishes == Spec => []NothingVanishes
  BY VanishInit, VanishStep, TypeCorrect, NextSteps, PTL DEF Spec

-----------------------------------------------------------------------------
(* One owner.  The places a job can be at, from the transport back to the   *)
(* scan: sent, in the batch, in the send queue, with a worker, in the       *)
(* region queue, still to be cut; and, at the end, dropped.                 *)

Held == <<ToSet(wire), ToSet(batch), ToSet(sendQueue), Encoding,
          ToSet(regionQueue), Published, lost>>

\* The jobs the scan has still to cut, as a queue.
ScanJobs ==
  [i \in DOMAIN unpublished |-> UpdateRegion(unpublished[i], captures)]

(* The inductive invariant behind OneOwner: no job is twice at one place,   *)
(* none at two places, and none comes from a capture still to be made.      *)
NoneTwice ==
  /\ Apart(wire) /\ Apart(batch) /\ Apart(sendQueue) /\ Apart(regionQueue)
  /\ Apart(ScanJobs)
  /\ \A v, w \in Workers :
       encodePc[v] = "encode" /\ encodePc[w] = "encode" /\ v # w
         => encodeJob[v] # encodeJob[w]

OnePlace == \A p, q \in 1..7 : p # q => Held[p] \cap Held[q] = {}

NoneNewer == \A p \in 1..7 : \A job \in Held[p] : job.shot <= captures

Owned == NoneTwice /\ OnePlace /\ NoneNewer /\ IsFiniteSet(lost)

\* Jobs go from one place to another.
Moved(p, q, jobs) ==
  /\ jobs \subseteq Held[p]
  /\ Held'[p] = Held[p] \ jobs
  /\ Held'[q] = Held[q] \cup jobs
  /\ \A r \in 1..7 : r # p /\ r # q => Held'[r] = Held[r]

\* Jobs of a new capture appear at a place.
Added(q, jobs) ==
  /\ captures' = captures + 1
  /\ \A job \in jobs : job.shot = captures'
  /\ Held'[q] = Held[q] \cup jobs
  /\ \A r \in 1..7 : r # q => Held'[r] = Held[r]

(* Each place by its number; the same after a step.                         *)
LEMMA HeldIs ==
  /\ Held[1] = ToSet(wire) /\ Held[2] = ToSet(batch)
  /\ Held[3] = ToSet(sendQueue) /\ Held[4] = Encoding
  /\ Held[5] = ToSet(regionQueue) /\ Held[6] = Published /\ Held[7] = lost
  /\ \A p \in 1..7 : p = 1 \/ p = 2 \/ p = 3 \/ p = 4 \/ p = 5 \/ p = 6 \/ p = 7
BY DEF Held

LEMMA HeldIsThen ==
  /\ Held'[1] = ToSet(wire') /\ Held'[2] = ToSet(batch')
  /\ Held'[3] = ToSet(sendQueue') /\ Held'[4] = Encoding'
  /\ Held'[5] = ToSet(regionQueue') /\ Held'[6] = Published' /\ Held'[7] = lost'
BY DEF Held

(* What the scan has still to cut is a queue of jobs of the last capture.   *)
LEMMA ScanQueue ==
  ASSUME TypeOK
  PROVE  /\ ScanJobs \in Seq(Job)
         /\ Len(ScanJobs) = Len(unpublished)
         /\ ToSet(ScanJobs) = Published
<1>1. unpublished \in Seq(SUBSET Cells) /\ captures \in Shots
  BY DEF TypeOK, CaptureTypeOK
<1>2. DOMAIN unpublished = 1..Len(unpublished) /\ Len(unpublished) \in Nat
  BY <1>1, LenProperties
<1>3. \A i \in 1..Len(unpublished) : UpdateRegion(unpublished[i], captures) \in Job
  BY <1>1, <1>2, ElementOfSeq, JobTypes
<1>4. ScanJobs \in Seq(Job) /\ Len(ScanJobs) = Len(unpublished)
  BY <1>2, <1>3, IsASeq, LenProperties DEF ScanJobs
<1> QED
  BY <1>4 DEF ScanJobs, Published, ToSet

LEMMA HeldJobs ==
  ASSUME TypeOK, NEW p \in 1..7
  PROVE  Held[p] \subseteq Job
<1>1. /\ wire \in Seq(Job) /\ batch \in Seq(Job) /\ sendQueue \in Seq(Job)
      /\ regionQueue \in Seq(Job) /\ lost \subseteq Job
  BY DEF TypeOK, LinkTypeOK, SendTypeOK, EncodeTypeOK
<1>2. Published \subseteq Job
  BY ScanQueue, ToSetType
<1>3. Encoding \subseteq Job
  BY DEF Encoding, TypeOK, EncodeTypeOK
<1> QED
  BY <1>1, <1>2, <1>3, HeldIs, ToSetType

(* Moving jobs keeps them at one place; so do jobs of a new capture.        *)
LEMMA MovedKeeps ==
  ASSUME OnePlace, NoneNewer, NEW p \in 1..7, NEW q \in 1..7, p # q, NEW jobs,
         Moved(p, q, jobs), UNCHANGED captures
  PROVE  OnePlace' /\ NoneNewer'
BY DEF OnePlace, NoneNewer, Moved

LEMMA AddedKeeps ==
  ASSUME TypeOK, OnePlace, NoneNewer, NEW q \in 1..7, NEW jobs, Added(q, jobs)
  PROVE  OnePlace' /\ NoneNewer'
<1>1. captures \in Nat
  BY DEF TypeOK, CaptureTypeOK, Shots
<1>2. \A p \in 1..7 : \A job \in Held[p] : job.shot <= captures /\ job.shot \in Nat
  BY HeldJobs, SenderAssumption DEF NoneNewer, Job, Shots
<1>3. \A p \in 1..7 : Held[p] \cap jobs = {}
  BY <1>1, <1>2 DEF Added
<1>4. OnePlace'
  BY <1>3 DEF OnePlace, Added
<1>5. NoneNewer'
  BY <1>1, <1>2 DEF NoneNewer, Added
<1> QED
  BY <1>4, <1>5

(* A step that moves nothing.                                               *)
LEMMA StillOwned ==
  ASSUME Owned, UNCHANGED <<wire, batch, sendQueue, regionQueue, captures,
                            unpublished, encodeJob, Held>>,
         \A w \in Workers : encodePc'[w] = "encode" => encodePc[w] = "encode"
  PROVE  Owned'
<1>1. OnePlace' /\ NoneNewer' /\ lost' = lost
  BY DEF Owned, OnePlace, NoneNewer, Held
<1>2. NoneTwice'
  BY DEF Owned, NoneTwice, ScanJobs
<1> QED
  BY <1>1, <1>2 DEF Owned

(* An encode worker takes a job of the region queue, and hands it to the    *)
(* send queue or drops it.                                                  *)
LEMMA EncodeMoves ==
  ASSUME TypeOK, Owned, NEW w \in Workers, EncodeWorker(w)
  PROVE  /\ Owned'
         /\ \/ UNCHANGED Held
            \/ \E job \in Job : Moved(5, 4, {job}) /\ job = Head(regionQueue)
            \/ \E job \in Job : Moved(4, 3, {job}) \/ Moved(4, 7, {job})
<1>1. /\ UNCHANGED <<wire, batch, captures, unpublished>>
      /\ UNCHANGED <<Published, ScanJobs, ToSet(wire), ToSet(batch)>>
  BY EncodeFrame DEF captureVars, senderVars, linkVars, Published, ScanJobs
<1>2. /\ regionQueue \in Seq(Job) /\ sendQueue \in Seq(Job)
      /\ encodePc \in [Workers -> {"pop", "check", "encode", "done", "none"}]
      /\ encodeJob \in [Workers -> Job \cup {Idle}]
      /\ encodePc[w] = "encode" => encodeJob[w] \in Job
  BY DEF TypeOK, EncodeTypeOK, SendTypeOK
<1>3. /\ OnePlace /\ NoneNewer /\ IsFiniteSet(lost)
      /\ Apart(wire) /\ Apart(batch) /\ Apart(sendQueue) /\ Apart(regionQueue)
      /\ Apart(ScanJobs)
      /\ \A u, v \in Workers :
           encodePc[u] = "encode" /\ encodePc[v] = "encode" /\ u # v
             => encodeJob[u] # encodeJob[v]
  BY DEF Owned, NoneTwice
<1>4. CASE EncodePop(w)
  <2> DEFINE job == Head(regionQueue)
  <2>1. /\ CanPop(regionQueue) /\ regionQueue' = Tail(regionQueue)
        /\ encodePc[w] # "encode"
        /\ encodePc' = [encodePc EXCEPT ![w] = "encode"]
        /\ encodeJob' = [encodeJob EXCEPT ![w] = job]
        /\ UNCHANGED <<sendQueue, lost>>
    BY <1>4 DEF EncodePop, sendQVars
  <2>2. /\ job \in Job /\ job \in ToSet(regionQueue)
        /\ ToSet(regionQueue') = ToSet(regionQueue) \ {job}
        /\ Apart(regionQueue')
    BY <1>2, <1>3, <2>1, PopApart, PopProperties
  <2> HIDE DEF job
  <2>3. Encoding' = Encoding \cup {job}
    BY <1>2, <2>1 DEF Encoding
  <2>4. Moved(5, 4, {job})
    BY <1>1, <2>1, <2>2, <2>3, HeldIs, HeldIsThen DEF Moved
  <2>5. job \notin Encoding
    BY <1>3, <2>2, HeldIs DEF OnePlace
  <2>6. \A v \in Workers : encodePc[v] = "encode" => encodeJob[v] # job
    BY <2>5 DEF Encoding
  <2>7. \A u, v \in Workers :
          encodePc'[u] = "encode" /\ encodePc'[v] = "encode" /\ u # v
            => encodeJob'[u] # encodeJob'[v]
    BY <1>2, <1>3, <2>1, <2>6
  <2>8. NoneTwice'
    BY <1>1, <1>3, <2>1, <2>2, <2>7 DEF NoneTwice
  <2>9. OnePlace' /\ NoneNewer'
    BY <1>1, <1>3, <2>4, MovedKeeps
  <2>10. Owned'
    BY <1>3, <2>1, <2>8, <2>9 DEF Owned
  <2> QED
    BY <2>2, <2>4, <2>10 DEF job
<1>5. CASE EncodePopNothing(w) \/ EncodeCheckShutdown(w)
  <2>1. /\ UNCHANGED <<regionQueue, sendQueue, lost, encodeJob>>
        /\ encodePc[w] # "encode"
        /\ \E pc \in {"pop", "check", "done"} :
             encodePc' = [encodePc EXCEPT ![w] = pc]
    BY <1>5 DEF EncodePopNothing, EncodeCheckShutdown, regionVars, sendQVars
  <2>2. Encoding' = Encoding
    BY <1>2, <2>1 DEF Encoding
  <2>3. UNCHANGED Held
    BY <1>1, <2>1, <2>2 DEF Held
  <2>4. \A v \in Workers : encodePc'[v] = "encode" => encodePc[v] = "encode"
    BY <1>2, <2>1
  <2> QED
    BY <1>1, <2>1, <2>3, <2>4, StillOwned
<1>6. CASE EncodePush(w) \/ EncodeDrop(w)
  <2> DEFINE job == encodeJob[w]
  <2>1. /\ job \in Job /\ UNCHANGED regionQueue
        /\ encodePc[w] = "encode"
        /\ encodePc' = [encodePc EXCEPT ![w] = "pop"]
        /\ encodeJob' = [encodeJob EXCEPT ![w] = Idle]
    BY <1>2, <1>6 DEF EncodePush, EncodeDrop, EndEncode, regionVars
  <2>2. job \in Encoding /\ Encoding' = Encoding \ {job}
    BY <1>2, <1>3, <2>1 DEF Encoding
  <2>3. \A u, v \in Workers :
          encodePc'[u] = "encode" /\ encodePc'[v] = "encode" /\ u # v
            => encodeJob'[u] # encodeJob'[v]
    BY <1>2, <1>3, <2>1
  <2>4. CASE EncodePush(w)
    <3>1. UNCHANGED lost /\ sendQueue' = Push(sendQueue, job, IsFull(job))
      BY <2>4 DEF EncodePush
    <3>2. IsFull(job) \in BOOLEAN
      BY <2>1, JobTypes
    <3>3. job \notin ToSet(sendQueue)
      BY <1>3, <2>2, HeldIs DEF OnePlace
    <3> HIDE DEF job
    <3>4. ToSet(sendQueue') = ToSet(sendQueue) \cup {job} /\ Apart(sendQueue')
      BY <1>2, <1>3, <2>1, <3>1, <3>2, <3>3, PushSet, PushApart
    <3>5. Moved(4, 3, {job})
      BY <1>1, <2>1, <2>2, <3>1, <3>4, HeldIs, HeldIsThen DEF Moved
    <3>6. NoneTwice'
      BY <1>1, <1>3, <2>1, <2>3, <3>4 DEF NoneTwice
    <3>7. OnePlace' /\ NoneNewer'
      BY <1>1, <1>3, <3>5, MovedKeeps
    <3>8. Owned'
      BY <1>3, <3>1, <3>6, <3>7 DEF Owned
    <3> QED
      BY <2>1, <3>5, <3>8
  <2>5. CASE EncodeDrop(w)
    <3>1. lost' = lost \cup {job} /\ UNCHANGED sendQueue
      BY <2>5 DEF EncodeDrop
    <3> HIDE DEF job
    <3>2. Moved(4, 7, {job})
      BY <1>1, <2>1, <2>2, <3>1, HeldIs, HeldIsThen DEF Moved
    <3>3. NoneTwice'
      BY <1>1, <1>3, <2>1, <2>3, <3>1 DEF NoneTwice
    <3>4. IsFiniteSet(lost')
      BY <1>3, <3>1, FS_AddElement
    <3>5. OnePlace' /\ NoneNewer'
      BY <1>1, <1>3, <3>2, MovedKeeps
    <3>6. Owned'
      BY <3>3, <3>4, <3>5 DEF Owned
    <3> QED
      BY <2>1, <3>2, <3>6
  <2> QED
    BY <1>6, <2>4, <2>5
<1> QED
  BY <1>4, <1>5, <1>6 DEF EncodeWorker

\* The jobs of a place go, some to one place and the others to another.
MovedApart(p, q, some, r, others) ==
  /\ some \cup others = Held[p] /\ some \cap others = {}
  /\ Held'[p] = {}
  /\ Held'[q] = Held[q] \cup some
  /\ Held'[r] = Held[r] \cup others
  /\ \A s \in 1..7 : s \notin {p, q, r} => Held'[s] = Held[s]

LEMMA MovedApartKeeps ==
  ASSUME OnePlace, NoneNewer, NEW p \in 1..7, NEW q \in 1..7, NEW r \in 1..7,
         p # q, q # r, p # r, NEW some, NEW others,
         MovedApart(p, q, some, r, others), UNCHANGED captures
  PROVE  OnePlace' /\ NoneNewer'
<1>1. \A s \in 1..7 : s \notin {p, q, r} =>
        Held[s] \cap Held[p] = {} /\ Held[s] \cap Held[q] = {} /\ Held[s] \cap Held[r] = {}
  BY DEF OnePlace
<1>2. ASSUME NEW s \in 1..7, NEW t \in 1..7, s # t
      PROVE  Held'[s] \cap Held'[t] = {}
  <2>1. Held[p] \cap Held[q] = {} /\ Held[p] \cap Held[r] = {} /\ Held[q] \cap Held[r] = {}
    BY DEF OnePlace
  <2>2. s \notin {p, q, r} /\ t \notin {p, q, r} => Held[s] \cap Held[t] = {}
    BY <1>2 DEF OnePlace
  <2> QED
    BY <1>1, <1>2, <2>1, <2>2 DEF MovedApart
<1>3. ASSUME NEW s \in 1..7, NEW job \in Held'[s] PROVE job.shot <= captures'
  <2>1. \E t \in 1..7 : job \in Held[t]
    BY <1>3 DEF MovedApart
  <2> QED
    BY <2>1 DEF NoneNewer
<1> QED
  BY <1>2, <1>3 DEF OnePlace, NoneNewer

(* The send thread takes jobs into its batch, and sends or drops them.      *)
LEMMA SendMoves ==
  ASSUME TypeOK, Owned, SendThread
  PROVE  /\ Owned'
         /\ \/ UNCHANGED <<Held, wire>>
            \/ /\ UNCHANGED wire
               /\ \E job \in Job : \/ Moved(3, 2, {job}) /\ job = Head(sendQueue)
                                   \/ Moved(3, 7, {job})
            \/ SendAll /\ batch # <<>> /\ Moved(2, 1, ToSet(batch))
            \/ /\ SendAllFails
               /\ \E sent \in 0..(Len(batch) - 1) :
                    LET front == SubSeq(batch, 1, sent)
                        rest  == {batch[i] : i \in (sent + 1)..Len(batch)}
                    IN  /\ wire' = wire \o front
                        /\ front \in Seq(Job) /\ Apart(front)
                        /\ rest # {}
                        /\ MovedApart(2, 1, ToSet(front), 7, rest)
<1>1. /\ UNCHANGED <<regionQueue, captures, unpublished, encodeJob, encodePc>>
      /\ UNCHANGED <<Published, ScanJobs, ToSet(regionQueue), Encoding>>
  BY SendFrame DEF captureVars, regionVars, encodeVars, Published, ScanJobs, Encoding
<1>2. /\ sendQueue \in Seq(Job) /\ batch \in Seq(Job) /\ wire \in Seq(Job)
      /\ sendPc = "pop" => batch = <<>>
      /\ sendPc = "send" => batch # <<>>
  BY DEF TypeOK, SendTypeOK, LinkTypeOK
<1>3. /\ OnePlace /\ NoneNewer /\ IsFiniteSet(lost)
      /\ Apart(wire) /\ Apart(batch) /\ Apart(sendQueue) /\ Apart(regionQueue)
      /\ Apart(ScanJobs)
      /\ \A u, v \in Workers :
           encodePc[u] = "encode" /\ encodePc[v] = "encode" /\ u # v
             => encodeJob[u] # encodeJob[v]
  BY DEF Owned, NoneTwice
<1>4. ASSUME OnePlace', NoneNewer', IsFiniteSet(lost'), Apart(wire'),
             Apart(batch'), Apart(sendQueue')
      PROVE  Owned'
  BY <1>1, <1>3, <1>4 DEF Owned, NoneTwice
<1>5. CASE SendPop \/ SendCoalesce
  <2> DEFINE job == Head(sendQueue)
  <2>1. /\ UNCHANGED wire
        /\ CanPop(sendQueue) /\ sendQueue' = Tail(sendQueue)
    BY <1>5 DEF SendPop, SendCoalesce, CanGrow, linkVars
  <2>2. /\ job \in Job /\ job \in ToSet(sendQueue)
        /\ ToSet(sendQueue') = ToSet(sendQueue) \ {job}
        /\ Apart(sendQueue')
    BY <1>2, <1>3, <2>1, PopApart, PopProperties
  <2>3. \/ batch' = Append(batch, job) /\ UNCHANGED lost
        \/ UNCHANGED batch /\ lost' = lost \cup {job}
    <3>1. CASE SendPop
      <4>1. batch = <<>>
        BY <1>2, <3>1 DEF SendPop
      <4> QED
        BY <3>1, <4>1 DEF SendPop, senderVars
    <3>2. CASE SendCoalesce
      BY <3>2 DEF SendCoalesce
    <3> QED
      BY <1>5, <3>1, <3>2
  <2>4. job \notin ToSet(batch)
    BY <1>3, <2>2, HeldIs DEF OnePlace
  <2> HIDE DEF job
  <2>5. CASE batch' = Append(batch, job) /\ UNCHANGED lost
    <3>2. ToSet(batch') = ToSet(batch) \cup {job} /\ Apart(batch')
      BY <1>2, <1>3, <2>2, <2>4, <2>5, AppendSet, AppendApart
    <3>3. Moved(3, 2, {job})
      BY <1>1, <2>1, <2>2, <2>5, <3>2, HeldIs, HeldIsThen DEF Moved
    <3>4. OnePlace' /\ NoneNewer'
      BY <1>1, <1>3, <3>3, MovedKeeps
    <3>5. Owned'
      BY <1>3, <1>4, <2>1, <2>2, <2>5, <3>2, <3>4
    <3>6. \E j \in Job : Moved(3, 2, {j}) /\ j = Head(sendQueue)
      BY <2>2, <3>3 DEF job
    <3> QED
      BY <2>1, <3>5, <3>6
  <2>6. CASE UNCHANGED batch /\ lost' = lost \cup {job}
    <3>1. Moved(3, 7, {job})
      BY <1>1, <2>1, <2>2, <2>6, HeldIs, HeldIsThen DEF Moved
    <3>2. OnePlace' /\ NoneNewer'
      BY <1>1, <1>3, <3>1, MovedKeeps
    <3>3. IsFiniteSet(lost')
      BY <1>3, <2>6, FS_AddElement
    <3>4. Owned'
      BY <1>3, <1>4, <2>1, <2>2, <2>6, <3>2, <3>3
    <3> QED
      BY <2>1, <2>2, <3>1, <3>4
  <2> QED
    BY <2>3, <2>5, <2>6
<1>6. CASE SendPopNothing \/ SendCheckShutdown \/ SendBatchFull
  <2>1. UNCHANGED <<sendQueue, batch, wire, lost>>
    BY <1>6 DEF SendPopNothing, SendCheckShutdown, SendBatchFull, sendQVars, linkVars
  <2>2. UNCHANGED Held
    BY <1>1, <2>1 DEF Held
  <2> QED
    BY <1>1, <2>1, <2>2, StillOwned
<1>7. ToSet(wire) \cap ToSet(batch) = {}
  BY <1>3, HeldIs DEF OnePlace
<1>8. ToSet(<<>>) = {} /\ Apart(<<>>)
  BY EmptySeq DEF ToSet, Apart
<1>9. CASE SendAll
  <2>1. /\ UNCHANGED <<sendQueue, lost>> /\ wire' = wire \o batch
        /\ batch' = <<>> /\ batch # <<>>
    BY <1>2, <1>9 DEF SendAll, EndSend, sendQVars
  <2>2. ToSet(wire') = ToSet(wire) \cup ToSet(batch) /\ Apart(wire')
    BY <1>2, <1>3, <1>7, <2>1, ConcatSet, ConcatApart
  <2>3. Moved(2, 1, ToSet(batch))
    BY <1>1, <1>8, <2>1, <2>2, HeldIs, HeldIsThen DEF Moved
  <2>4. OnePlace' /\ NoneNewer'
    BY <1>1, <1>3, <2>3, MovedKeeps
  <2>5. Owned'
    BY <1>3, <1>4, <1>8, <2>1, <2>2, <2>4
  <2> QED
    BY <1>9, <2>1, <2>3, <2>5
<1>10. CASE SendAllFails
  <2>1. PICK sent \in 0..(Len(batch) - 1) :
          /\ wire' = wire \o SubSeq(batch, 1, sent)
          /\ lost' = lost \cup {batch[i] : i \in (sent + 1)..Len(batch)}
    BY <1>10 DEF SendAllFails
  <2> DEFINE front == SubSeq(batch, 1, sent)
             rest  == {batch[i] : i \in (sent + 1)..Len(batch)}
  <2>2. Len(batch) \in Nat /\ sent \in 0..Len(batch)
    BY <1>2, LenProperties
  <2>3. /\ front \in Seq(Job) /\ Apart(front)
        /\ ToSet(batch) = ToSet(front) \cup rest
        /\ ToSet(front) \cap rest = {}
    BY <1>2, <1>3, <2>2, SplitApart
  <2>4. rest # {}
    <3>1. Len(batch) \in (sent + 1)..Len(batch)
      BY <2>2
    <3> QED
      BY <3>1
  <2>5. IsFiniteSet(rest)
    <3>1. rest \subseteq ToSet(batch) /\ IsFiniteSet(ToSet(batch))
      BY <1>2, <1>3, <2>3, ApartCardinality
    <3> QED
      BY <3>1, FS_Subset
  <2>6. /\ wire' = wire \o front /\ lost' = lost \cup rest
        /\ batch' = <<>> /\ UNCHANGED sendQueue
    BY <1>10, <2>1 DEF SendAllFails, EndSend, sendQVars
  <2> HIDE DEF front, rest
  <2>7. ToSet(wire') = ToSet(wire) \cup ToSet(front) /\ Apart(wire')
    BY <1>2, <1>3, <1>7, <2>3, <2>6, ConcatSet, ConcatApart
  <2>8. MovedApart(2, 1, ToSet(front), 7, rest)
    BY <1>1, <1>8, <2>3, <2>6, <2>7, HeldIs, HeldIsThen DEF MovedApart
  <2>9. OnePlace' /\ NoneNewer'
    BY <1>1, <1>3, <2>8, MovedApartKeeps
  <2>10. IsFiniteSet(lost')
    BY <1>3, <2>5, <2>6, FS_Union
  <2>11. Owned'
    BY <1>3, <1>4, <1>8, <2>6, <2>7, <2>9, <2>10
  <2> QED
    BY <1>10, <2>3, <2>4, <2>6, <2>8, <2>11 DEF front, rest
<1> QED
  BY <1>5, <1>6, <1>9, <1>10 DEF SendThread

(* The rectangles cut from a dirty set, as a queue of jobs.                 *)
LEMMA CutQueue ==
  ASSUME NEW grid \in Resolutions, NEW dirty \in SUBSET grid, NEW n \in Shots
  PROVE  LET regions == Regions[grid][dirty]
             cut == [i \in DOMAIN regions |-> UpdateRegion(regions[i], n)]
         IN  /\ cut \in Seq(Job) /\ Apart(cut)
             /\ ToSet(cut) = RegionJobs(regions, n)
             /\ IsFiniteSet(RegionJobs(regions, n))
<1> DEFINE regions == Regions[grid][dirty]
           cut == [i \in DOMAIN regions |-> UpdateRegion(regions[i], n)]
<1>1. regions \in Seq(SUBSET Cells)
  BY RegionsType
<1>2. Scan!CutsExactly(regions, dirty)
  BY SenderAssumption
<1> HIDE DEF regions
<1>3. DOMAIN regions = 1..Len(regions) /\ Len(regions) \in Nat
  BY <1>1, LenProperties
<1>4. \A i \in 1..Len(regions) : UpdateRegion(regions[i], n) \in Job
  BY <1>1, <1>3, ElementOfSeq, JobTypes
<1>5. cut \in Seq(Job)
  BY <1>3, <1>4, IsASeq
<1>6. \A i, j \in DOMAIN regions : i < j => regions[i] # regions[j]
  <2>1. \A i, j \in DOMAIN regions : i < j => i # j
    BY <1>3
  <2> QED
    BY <1>2, <2>1 DEF Scan!CutsExactly
<1>7. \A i, j \in DOMAIN regions :
        i < j => UpdateRegion(regions[i], n) # UpdateRegion(regions[j], n)
  BY <1>6 DEF UpdateRegion
<1>8. Apart(cut)
  BY <1>7 DEF Apart
<1>9. ToSet(cut) = RegionJobs(regions, n)
  BY DEF ToSet, RegionJobs
<1> QED
  BY <1>5, <1>8, <1>9, ApartCardinality DEF regions

(* What the scan has still to cut, once its first rectangle is out.         *)
LEMMA ScanPop ==
  ASSUME TypeOK, capturePc = "publish", unpublished' = Tail(unpublished),
         UNCHANGED captures
  PROVE  /\ CanPop(ScanJobs)
         /\ Head(ScanJobs) = UpdateRegion(Head(unpublished), captures)
         /\ ScanJobs' = Tail(ScanJobs)
<1>1. unpublished \in Seq(SUBSET Cells) /\ unpublished # <<>>
  BY DEF TypeOK, CaptureTypeOK
<1>2. /\ DOMAIN unpublished = 1..Len(unpublished) /\ Len(unpublished) \in Nat \ {0}
      /\ Head(unpublished) = unpublished[1]
      /\ Tail(unpublished) \in Seq(SUBSET Cells)
      /\ DOMAIN Tail(unpublished) = 1..(Len(unpublished) - 1)
      /\ \A i \in 1..(Len(unpublished) - 1) : Tail(unpublished)[i] = unpublished[i + 1]
  BY <1>1, HeadTailProperties, LenProperties, EmptySeq
<1>3. ScanJobs \in Seq(Job) /\ Len(ScanJobs) = Len(unpublished)
  BY ScanQueue
<1>4. ScanJobs # <<>>
  BY <1>2, <1>3, EmptySeq
<1>5. /\ Head(ScanJobs) = ScanJobs[1] /\ Tail(ScanJobs) \in Seq(Job)
      /\ DOMAIN Tail(ScanJobs) = 1..(Len(unpublished) - 1)
      /\ \A i \in 1..(Len(unpublished) - 1) : Tail(ScanJobs)[i] = ScanJobs[i + 1]
  BY <1>3, <1>4, HeadTailProperties, LenProperties
<1>6. \A i \in 1..(Len(unpublished) - 1) : i + 1 \in DOMAIN unpublished
  BY <1>2
<1>7. 1 \in DOMAIN unpublished
  BY <1>2
<1>8. ScanJobs' = [i \in 1..(Len(unpublished) - 1) |->
                     UpdateRegion(unpublished[i + 1], captures)]
  BY <1>2 DEF ScanJobs
<1>9. Tail(ScanJobs) = [i \in 1..(Len(unpublished) - 1) |-> Tail(ScanJobs)[i]]
  BY <1>5, LenProperties
<1>10. \A i \in 1..(Len(unpublished) - 1) :
         Tail(ScanJobs)[i] = UpdateRegion(unpublished[i + 1], captures)
  BY <1>5, <1>6 DEF ScanJobs
<1> QED
  BY <1>2, <1>4, <1>5, <1>7, <1>8, <1>9, <1>10 DEF ScanJobs, CanPop

(* The capture thread brings in the jobs of a new capture, and hands those  *)
(* of the scan to the region queue or drops them.                           *)
LEMMA CaptureMoves ==
  ASSUME TypeOK, Owned, CaptureThread
  PROVE  /\ Owned'
         /\ \/ UNCHANGED <<Held, captures, previousFrame, regionQueue>>
            \/ /\ UNCHANGED <<captures, previousFrame>>
               /\ \E job \in Job :
                    \/ /\ Moved(6, 5, {job})
                       /\ regionQueue' = Push(regionQueue, job, FALSE)
                    \/ Moved(6, 7, {job}) /\ UNCHANGED regionQueue
            \/ \E changed \in SUBSET Grid :
                 LET fresh == RegionJobs(Regions[Grid][changed], captures + 1)
                 IN  /\ CaptureChange(changed)
                     /\ Added(6, fresh) \/ Added(7, fresh)
            \/ \E grid \in Resolutions :
                 /\ CaptureResize(grid)
                 /\ Added(5, {FullFrame(grid, captures + 1)})
<1>1. /\ UNCHANGED <<encodePc, encodeJob, sendQueue, batch, wire>>
      /\ UNCHANGED <<Encoding, ToSet(sendQueue), ToSet(batch), ToSet(wire)>>
  BY CaptureFrame DEF encodeVars, sendQVars, senderVars, linkVars, Encoding
<1>2. regionQueue \in Seq(Job) /\ captures \in Shots
  BY DEF TypeOK, EncodeTypeOK, CaptureTypeOK
<1>3. /\ OnePlace /\ NoneNewer /\ IsFiniteSet(lost)
      /\ Apart(wire) /\ Apart(batch) /\ Apart(sendQueue) /\ Apart(regionQueue)
      /\ Apart(ScanJobs)
      /\ \A u, v \in Workers :
           encodePc[u] = "encode" /\ encodePc[v] = "encode" /\ u # v
             => encodeJob[u] # encodeJob[v]
  BY DEF Owned, NoneTwice
<1>4. ASSUME OnePlace', NoneNewer', IsFiniteSet(lost'), Apart(regionQueue'),
             Apart(ScanJobs')
      PROVE  Owned'
  BY <1>1, <1>3, <1>4 DEF Owned, NoneTwice
<1>6. CASE PublishRegion \/ DropRegion
  <2> DEFINE job == UpdateRegion(Head(unpublished), captures)
  <2>1. /\ UNCHANGED <<captures, previousFrame>> /\ capturePc = "publish"
        /\ unpublished' = Tail(unpublished)
    BY <1>6 DEF PublishRegion, DropRegion
  <2>2. /\ ScanJobs \in Seq(Job) /\ CanPop(ScanJobs) /\ Head(ScanJobs) = job
        /\ ScanJobs' = Tail(ScanJobs)
    BY <2>1, ScanPop, ScanQueue
  <2>3. job \in Job
    BY <2>2, PopProperties
  <2>4. /\ job \in ToSet(ScanJobs) /\ Apart(ScanJobs')
        /\ ToSet(ScanJobs') = ToSet(ScanJobs) \ {job}
    BY <1>3, <2>2, PopApart
  <2>5. ToSet(ScanJobs) = Published /\ ToSet(ScanJobs') = Published'
    BY DEF ToSet, ScanJobs, Published
  <2>6. job \in Published /\ Published' = Published \ {job}
    BY <2>4, <2>5
  <2> HIDE DEF job
  <2>7. CASE PublishRegion
    <3> DEFINE update == FALSE
    <3>0. regionQueue' = Push(regionQueue, job, FALSE)
      BY <2>7 DEF PublishRegion, job
    <3>1. regionQueue' = Push(regionQueue, job, update) /\ UNCHANGED lost
      BY <2>7 DEF PublishRegion, job
    <3>2. job \notin ToSet(regionQueue)
      BY <1>3, <2>6, HeldIs DEF OnePlace
    <3>3. update \in BOOLEAN
      OBVIOUS
    <3> HIDE DEF update
    <3>4. ToSet(regionQueue') = ToSet(regionQueue) \cup {job} /\ Apart(regionQueue')
      BY <1>2, <1>3, <2>3, <3>1, <3>2, <3>3, PushSet, PushApart
    <3>5. Moved(6, 5, {job})
      BY <1>1, <2>6, <3>1, <3>4, HeldIs, HeldIsThen DEF Moved
    <3>6. OnePlace' /\ NoneNewer'
      BY <1>3, <2>1, <3>5, MovedKeeps
    <3>7. Owned'
      BY <1>3, <1>4, <2>4, <3>1, <3>4, <3>6
    <3> QED
      BY <2>1, <2>3, <3>0, <3>5, <3>7
  <2>8. CASE DropRegion
    <3>1. UNCHANGED regionQueue /\ lost' = lost \cup {job}
      BY <2>8 DEF DropRegion, regionVars, job
    <3>2. Moved(6, 7, {job})
      BY <1>1, <2>6, <3>1, HeldIs, HeldIsThen DEF Moved
    <3>3. OnePlace' /\ NoneNewer'
      BY <1>3, <2>1, <3>2, MovedKeeps
    <3>4. IsFiniteSet(lost')
      BY <1>3, <3>1, FS_AddElement
    <3>5. Owned'
      BY <1>3, <1>4, <2>4, <3>1, <3>3, <3>4
    <3> QED
      BY <2>1, <2>3, <3>1, <3>2, <3>5
  <2> QED
    BY <1>6, <2>7, <2>8
<1>7. CASE CaptureGoesOn \/ CaptureSame \/ CaptureFail \/ CaptureStop
  <2>1. UNCHANGED <<previousFrame, captures, unpublished, regionQueue, lost>>
    BY <1>7
    DEF CaptureGoesOn, CaptureSame, CaptureFail, CaptureStop, EndCapture, regionVars
  <2>2. UNCHANGED <<Held, ScanJobs>>
    BY <1>1, <2>1 DEF Held, Published, ScanJobs
  <2> QED
    BY <1>1, <2>1, <2>2, StillOwned
<1>8. ASSUME NEW changed \in SUBSET Grid, CaptureChange(changed)
      PROVE  /\ Owned'
             /\ LET fresh == RegionJobs(Regions[Grid][changed], captures + 1)
                IN  Added(6, fresh) \/ Added(7, fresh)
  <2> DEFINE regions == Regions[Grid][changed]
             fresh == RegionJobs(regions, captures + 1)
             cut == [i \in DOMAIN regions |-> UpdateRegion(regions[i], captures + 1)]
  <2>1. PICK grid \in Resolutions : Grid = grid
    BY DEF TypeOK, CaptureTypeOK, Grid
  <2>2. captures + 1 \in Shots
    BY <1>2, <1>8, SenderAssumption DEF CaptureChange, Shots
  <2>3. /\ cut \in Seq(Job) /\ Apart(cut) /\ ToSet(cut) = fresh
        /\ IsFiniteSet(fresh)
    BY <2>1, <2>2, CutQueue
  <2>4. \A job \in fresh : job.shot = captures + 1
    BY DEF RegionJobs, UpdateRegion
  <2>5. captures' = captures + 1 /\ UNCHANGED regionQueue
    BY <1>8 DEF CaptureChange, regionVars
  <2>6. unpublished = <<>> /\ Published = {} /\ ToSet(ScanJobs) = {}
    BY <1>8, NothingPublished, ScanQueue DEF CaptureChange, Capturing
  <2>7. CASE unpublished' = regions /\ UNCHANGED lost
    <3>1. ScanJobs' = cut
      BY <2>5, <2>7 DEF ScanJobs
    <3>2. Published' = fresh
      BY <2>5, <2>7 DEF Published, RegionJobs
    <3> HIDE DEF fresh, cut, regions
    <3>3. Added(6, fresh)
      BY <1>1, <2>4, <2>5, <2>6, <2>7, <3>2, HeldIs, HeldIsThen DEF Added
    <3>4. OnePlace' /\ NoneNewer'
      BY <1>3, <3>3, AddedKeeps
    <3>5. Owned'
      BY <1>3, <1>4, <2>3, <2>5, <2>7, <3>1, <3>4
    <3> QED
      BY <3>3, <3>5 DEF fresh, regions
  <2>8. CASE lost' = lost \cup fresh /\ UNCHANGED unpublished
    <3>1. Published' = {} /\ ScanJobs' = ScanJobs
      BY <2>6, <2>8 DEF Published, ScanJobs
    <3> HIDE DEF fresh, cut, regions
    <3>2. Added(7, fresh)
      BY <1>1, <2>4, <2>5, <2>6, <2>8, <3>1, HeldIs, HeldIsThen DEF Added
    <3>3. OnePlace' /\ NoneNewer'
      BY <1>3, <3>2, AddedKeeps
    <3>4. IsFiniteSet(lost')
      BY <1>3, <2>3, <2>8, FS_Union
    <3>5. Owned'
      BY <1>3, <1>4, <2>5, <3>1, <3>3, <3>4
    <3> QED
      BY <3>2, <3>5 DEF fresh, regions
  <2> QED
    BY <1>8, <2>7, <2>8 DEF CaptureChange
<1>9. ASSUME NEW grid \in Resolutions, CaptureResize(grid)
      PROVE  Owned' /\ Added(5, {FullFrame(grid, captures + 1)})
  <2> DEFINE job == FullFrame(grid, captures + 1)
             first == TRUE
  <2>1. captures + 1 \in Shots
    BY <1>2, <1>9, SenderAssumption DEF CaptureResize, Shots
  <2>2. job \in Job /\ job.shot = captures + 1
    BY <2>1, JobTypes DEF FullFrame
  <2>3. /\ captures' = captures + 1 /\ UNCHANGED <<unpublished, lost>>
        /\ regionQueue' = Push(regionQueue, job, first)
    BY <1>9 DEF CaptureResize
  <2>4. unpublished = <<>> /\ Published = {}
    BY <1>9, NothingPublished DEF CaptureResize, Capturing
  <2>5. Published' = {} /\ ScanJobs' = ScanJobs
    BY <2>3, <2>4 DEF Published, ScanJobs
  <2>6. first \in BOOLEAN
    OBVIOUS
  <2> HIDE DEF job, first
  <2>7. job \notin ToSet(regionQueue)
    BY <1>2, <1>3, <2>2, HeldIs DEF NoneNewer, Shots
  <2>8. ToSet(regionQueue') = ToSet(regionQueue) \cup {job} /\ Apart(regionQueue')
    BY <1>2, <1>3, <2>2, <2>3, <2>6, <2>7, PushSet, PushApart
  <2>9. Added(5, {job})
    BY <1>1, <2>2, <2>3, <2>4, <2>5, <2>8, HeldIs, HeldIsThen DEF Added
  <2>10. OnePlace' /\ NoneNewer'
    BY <1>3, <2>9, AddedKeeps
  <2>11. Owned'
    BY <1>3, <1>4, <2>3, <2>5, <2>8, <2>10
  <2> QED
    BY <2>9, <2>11 DEF job
<1> QED
  BY <1>6, <1>7, <1>8, <1>9 DEF CaptureThread, CaptureProgress

(* main drops what is left in the queues; nothing else moves a job.         *)
LEMMA OtherMoves ==
  ASSUME TypeOK, Owned, MainThread \/ Environment \/ UNCHANGED vars
  PROVE  /\ Owned'
         /\ UNCHANGED <<captures, previousFrame, wire>>
         /\ \/ UNCHANGED Held
            \/ /\ Held'[3] = {} /\ Held'[5] = {}
               /\ Held'[7] = Held[7] \cup Held[3] \cup Held[5]
               /\ \A p \in {1, 2, 4, 6} : Held'[p] = Held[p]
<1>1. /\ UNCHANGED <<captures, previousFrame, unpublished, encodePc, encodeJob,
                     batch, wire>>
      /\ UNCHANGED <<Published, ScanJobs, Encoding, ToSet(batch), ToSet(wire)>>
  BY MainFrame, EnvironmentFrame
     DEF captureVars, encodeVars, senderVars, linkVars, vars, Published, ScanJobs,
         Encoding
<1>2. CASE DestroyQueues
  <2>1. /\ regionQueue' = <<>> /\ sendQueue' = <<>>
        /\ lost' = lost \cup ToSet(regionQueue) \cup ToSet(sendQueue)
    BY <1>2 DEF DestroyQueues
  <2>2. ToSet(<<>>) = {} /\ Apart(<<>>)
    BY EmptySeq DEF ToSet, Apart
  <2>3. /\ Held'[3] = {} /\ Held'[5] = {}
        /\ Held'[7] = Held[7] \cup Held[3] \cup Held[5]
        /\ \A p \in {1, 2, 4, 6} : Held'[p] = Held[p]
    BY <1>1, <2>1, <2>2, HeldIs, HeldIsThen
  <2>4. NoneTwice'
    BY <1>1, <2>1, <2>2 DEF Owned, NoneTwice
  <2>5. OnePlace'
    <3>1. ASSUME NEW p \in 1..7, NEW q \in 1..7, p # q
          PROVE  Held'[p] \cap Held'[q] = {}
      <4>1. \A r \in 1..7 : r \in {1, 2, 4, 6} \/ r = 3 \/ r = 5 \/ r = 7
        OBVIOUS
      <4>2. \A r, s \in 1..7 : r # s => Held[r] \cap Held[s] = {}
        BY DEF Owned, OnePlace
      <4>3. ASSUME NEW r \in {1, 2, 4, 6} PROVE Held'[r] \cap Held'[7] = {}
        <5>1. /\ Held[r] \cap Held[7] = {} /\ Held[r] \cap Held[3] = {}
              /\ Held[r] \cap Held[5] = {}
          BY <4>2
        <5> QED
          BY <2>3, <5>1
      <4>4. ASSUME NEW r \in {1, 2, 4, 6}, NEW s \in {1, 2, 4, 6}, r # s
            PROVE  Held'[r] \cap Held'[s] = {}
        BY <2>3, <4>2, <4>4
      <4> QED
        BY <2>3, <3>1, <4>1, <4>3, <4>4
    <3> QED
      BY <3>1 DEF OnePlace
  <2>6. NoneNewer'
    <3>1. \A p \in 1..7 : \A job \in Held'[p] : \E q \in 1..7 : job \in Held[q]
      BY <2>3, HeldIs
    <3> QED
      BY <1>1, <3>1 DEF Owned, NoneNewer
  <2>7. IsFiniteSet(lost')
    <3>1. /\ regionQueue \in Seq(Job) /\ sendQueue \in Seq(Job)
          /\ Apart(regionQueue) /\ Apart(sendQueue) /\ IsFiniteSet(lost)
      BY DEF TypeOK, EncodeTypeOK, SendTypeOK, Owned, NoneTwice
    <3>2. IsFiniteSet(ToSet(regionQueue)) /\ IsFiniteSet(ToSet(sendQueue))
      BY <3>1, ApartCardinality
    <3>3. IsFiniteSet(lost \cup ToSet(regionQueue))
      BY <3>1, <3>2, FS_Union
    <3> QED
      BY <2>1, <3>2, <3>3, FS_Union
  <2> QED
    BY <1>1, <2>3, <2>4, <2>5, <2>6, <2>7 DEF Owned
<1>3. CASE ~DestroyQueues
  <2>1. UNCHANGED <<regionQueue, sendQueue, lost>>
    BY <1>3, EnvironmentFrame DEF MainThread, WaitForCaptureOrSend, RequestStop,
       ShutRegionQueue, ShutSendQueue, JoinCapture, JoinEncode, JoinSend, JoinInput,
       Join, CloseTransport, regionVars, sendQVars, vars
  <2>2. UNCHANGED Held
    BY <1>1, <2>1 DEF Held
  <2> QED
    BY <1>1, <2>1, <2>2, StillOwned
<1> QED
  BY <1>2, <1>3

(* Owned holds at the start, after every step, and so always.               *)
LEMMA OwnedInit == Init => Owned
<1> SUFFICES ASSUME Init PROVE Owned
  OBVIOUS
<1>1. PICK grid \in Resolutions : regionQueue = <<FullFrame(grid, 0)>>
  BY DEF Init
<1>2. /\ wire = <<>> /\ batch = <<>> /\ sendQueue = <<>> /\ unpublished = <<>>
      /\ lost = {} /\ captures = 0
      /\ \A w \in Workers : encodePc[w] # "encode"
  BY DEF Init, InitialThreads
<1>3. ToSet(<<>>) = {} /\ Apart(<<>>) /\ DOMAIN <<>> = {}
  BY EmptySeq DEF ToSet, Apart
<1>4. Apart(regionQueue) /\ ToSet(regionQueue) = {FullFrame(grid, 0)}
  BY <1>1 DEF Apart, ToSet
<1>5. Encoding = {} /\ Published = {} /\ Apart(ScanJobs)
  BY <1>2, <1>3 DEF Encoding, Published, ScanJobs, Apart
<1>6. \A p \in 1..7 : p # 5 => Held[p] = {}
  BY <1>2, <1>3, <1>5, HeldIs
<1>7. OnePlace
  BY <1>6 DEF OnePlace
<1>8. NoneNewer
  <2>1. \A job \in Held[5] : job.shot <= captures
    BY <1>2, <1>4, HeldIs DEF FullFrame
  <2> QED
    BY <1>6, <2>1 DEF NoneNewer
<1>9. NoneTwice
  BY <1>2, <1>3, <1>4, <1>5 DEF NoneTwice
<1> QED
  BY <1>2, <1>7, <1>8, <1>9, FS_EmptySet DEF Owned

LEMMA OwnedStep == TypeOK /\ Owned /\ PipelineStep => Owned'
BY CaptureMoves, EncodeMoves, SendMoves, OtherMoves DEF PipelineStep

LEMMA OwnedAlways == Spec => [](TypeOK /\ Owned)
  BY TypeCorrect, OwnedInit, OwnedStep, NextSteps, PTL DEF Spec

(* What the workers hold is finite: OneOwner counts it.                     *)
LEMMA EncodingFinite == TypeOK => IsFiniteSet(Encoding)
<1> SUFFICES ASSUME TypeOK PROVE IsFiniteSet(Encoding)
  OBVIOUS
<1> DEFINE busy == {v \in Workers : encodePc[v] = "encode"}
           f == [w \in busy |-> encodeJob[w]]
<1>1. IsFiniteSet(busy)
  BY SenderAssumption, FS_Subset
<1>2. f \in Surjection(busy, Encoding)
  <2>1. f \in [busy -> Encoding]
    BY DEF Encoding
  <2>2. \A job \in Encoding : \E w \in busy : f[w] = job
    BY DEF Encoding
  <2> QED
    BY <2>1, <2>2, Fun_IsSurj
<1> QED
  BY <1>1, <1>2, FS_Surjection

(* A job is in one hand at a time, with any number of workers and whatever  *)
(* fails: the queues, the workers, the batch, the wire and the dropped jobs *)
(* never share one, and none has one twice.  So no job is sent twice, freed *)
(* twice or leaked (sender.c: sender_region_job_free and send_job_free are  *)
(* called by the thread that holds the job).                                *)
THEOREM EveryJobHasOneOwner == Spec => []OneOwner
<1>1. TypeOK /\ Owned => OneOwner
  <2> SUFFICES ASSUME TypeOK, Owned PROVE OneOwner
    OBVIOUS
  <2>1. /\ regionQueue \in Seq(Job) /\ sendQueue \in Seq(Job)
        /\ batch \in Seq(Job) /\ wire \in Seq(Job) /\ ScanJobs \in Seq(Job)
        /\ ToSet(ScanJobs) = Published /\ Len(ScanJobs) = Len(unpublished)
    BY ScanQueue DEF TypeOK, EncodeTypeOK, SendTypeOK, LinkTypeOK
  <2>2. /\ IsFiniteSet(ToSet(regionQueue)) /\ IsFiniteSet(ToSet(sendQueue))
        /\ IsFiniteSet(ToSet(batch)) /\ IsFiniteSet(ToSet(wire))
        /\ IsFiniteSet(Published)
        /\ Cardinality(ToSet(regionQueue)) = Len(regionQueue)
        /\ Cardinality(ToSet(sendQueue)) = Len(sendQueue)
        /\ Cardinality(ToSet(batch)) = Len(batch)
        /\ Cardinality(ToSet(wire)) = Len(wire)
        /\ Cardinality(Published) = Len(unpublished)
    BY <2>1, ApartCardinality DEF Owned, NoneTwice
  <2>3. IsFiniteSet(Encoding) /\ IsFiniteSet(lost)
    BY EncodingFinite DEF Owned
  <2>4. \A p, q \in 1..7 : p # q => Held[p] \cap Held[q] = {}
    BY DEF Owned, OnePlace
  <2>5. /\ Published \cap ToSet(regionQueue) = {}
        /\ (Published \cup ToSet(regionQueue)) \cap Encoding = {}
        /\ (Published \cup ToSet(regionQueue) \cup Encoding) \cap ToSet(sendQueue) = {}
        /\ (Published \cup ToSet(regionQueue) \cup Encoding \cup ToSet(sendQueue))
             \cap ToSet(batch) = {}
        /\ InFlight \cap ToSet(wire) = {}
        /\ (InFlight \cup ToSet(wire)) \cap lost = {}
    BY <2>4, HeldIs DEF InFlight
  <2> DEFINE a == Published \cup ToSet(regionQueue)
             b == a \cup Encoding
             c == b \cup ToSet(sendQueue)
             d == c \cup ToSet(batch)
             e == d \cup ToSet(wire)
  <2>6. IsFiniteSet(a) /\ Cardinality(a) = Cardinality(Published) + Cardinality(ToSet(regionQueue))
    BY <2>2, <2>5, DisjointCardinality
  <2>7. IsFiniteSet(b) /\ Cardinality(b) = Cardinality(a) + Cardinality(Encoding)
    BY <2>3, <2>5, <2>6, DisjointCardinality
  <2>8. IsFiniteSet(c) /\ Cardinality(c) = Cardinality(b) + Cardinality(ToSet(sendQueue))
    BY <2>2, <2>5, <2>7, DisjointCardinality
  <2>9. IsFiniteSet(d) /\ Cardinality(d) = Cardinality(c) + Cardinality(ToSet(batch))
    BY <2>2, <2>5, <2>8, DisjointCardinality
  <2>10. IsFiniteSet(e) /\ Cardinality(e) = Cardinality(d) + Cardinality(ToSet(wire))
    BY <2>2, <2>5, <2>9, DisjointCardinality DEF InFlight
  <2>11. Cardinality(e \cup lost) = Cardinality(e) + Cardinality(lost)
    BY <2>3, <2>5, <2>10, DisjointCardinality DEF InFlight
  <2>12. e \cup lost = InFlight \cup ToSet(wire) \cup lost
    BY DEF InFlight
  <2> QED
    BY <2>2, <2>6, <2>7, <2>8, <2>9, <2>10, <2>11, <2>12 DEF OneOwner
<1> QED
  BY <1>1, OwnedAlways, PTL

(* What is appended to a sequence is the part after its old length.         *)
LEMMA ConcatSuffix ==
  ASSUME NEW S, NEW s \in Seq(S), NEW t \in Seq(S)
  PROVE  /\ IsPrefix(s, s \o t)
         /\ SubSeq(s \o t, Len(s) + 1, Len(s \o t)) = t
<1> DEFINE u == s \o t
<1>1. /\ u \in Seq(S) /\ Len(u) = Len(s) + Len(t)
      /\ Len(s) \in Nat /\ Len(t) \in Nat
      /\ \A k \in 1..(Len(s) + Len(t)) :
           u[k] = IF k <= Len(s) THEN s[k] ELSE t[k - Len(s)]
  BY ConcatProperties, LenProperties
<1> HIDE DEF u
<1>2. \A i \in 1..Len(s) : s[i] \in S /\ u[i] = s[i] /\ u[i] \in S
  BY <1>1, ElementOfSeq
<1>3. SubSeq(s, 1, Len(s)) = [i \in 1..Len(s) |-> s[i]]
  BY <1>1
<1>4. SubSeq(u, 1, Len(s)) = [i \in 1..Len(s) |-> u[i]]
  BY <1>1
<1>5. IsPrefix(s, u)
  BY <1>1, <1>2, <1>3, <1>4 DEF IsPrefix
<1>6. SubSeq(u, Len(s) + 1, Len(u)) = t
  <2> DEFINE v == SubSeq(u, Len(s) + 1, Len(u))
  <2>1. \A i \in (Len(s) + 1)..Len(u) : u[i] \in S
    BY <1>1, ElementOfSeq
  <2>2. /\ v \in Seq(S)
        /\ Len(v) = IF Len(s) + 1 <= Len(u) THEN Len(u) - (Len(s) + 1) + 1 ELSE 0
        /\ \A i \in 1..(Len(u) - (Len(s) + 1) + 1) : v[i] = u[(Len(s) + 1) + i - 1]
    <3>1. Len(s) + 1 \in Int /\ Len(u) \in Int
      BY <1>1
    <3> QED
      BY <2>1, <3>1, SubSeqProperties
  <2> HIDE DEF v
  <2>3. Len(v) = Len(t)
    BY <1>1, <2>2
  <2>4. ASSUME NEW i \in 1..Len(t) PROVE v[i] = t[i]
    <3>1. /\ (Len(s) + 1) + i - 1 = Len(s) + i
          /\ Len(s) + i \in 1..(Len(s) + Len(t)) /\ ~(Len(s) + i <= Len(s))
          /\ (Len(s) + i) - Len(s) = i
          /\ i \in 1..(Len(u) - (Len(s) + 1) + 1)
      BY <1>1
    <3>2. v[i] = u[Len(s) + i]
      BY <2>2, <3>1
    <3>3. u[Len(s) + i] = t[(Len(s) + i) - Len(s)]
      BY <1>1, <3>1
    <3> QED
      BY <3>1, <3>2, <3>3
  <2>5. v = t
    BY <2>2, <2>3, <2>4, SeqEqual
  <2> QED
    BY <2>5 DEF v
<1> QED
  BY <1>5, <1>6 DEF u

(* The jobs between the screen and the transport, by their places.          *)
LEMMA InFlightIs ==
  /\ InFlight = Held[2] \cup Held[3] \cup Held[4] \cup Held[5] \cup Held[6]
  /\ InFlight' = Held'[2] \cup Held'[3] \cup Held'[4] \cup Held'[5] \cup Held'[6]
  /\ lost = Held[7] /\ lost' = Held'[7]
BY HeldIs, HeldIsThen DEF InFlight

(* UpdateStream's initial states.                                           *)
LEMMA StreamStarts == Init => Stream!StreamInit
<1> SUFFICES ASSUME Init PROVE Stream!StreamInit
  OBVIOUS
<1>1. PICK grid \in Resolutions : /\ previousFrame = [c \in grid |-> 0]
                                 /\ regionQueue = <<FullFrame(grid, 0)>>
  BY DEF Init
<1>2. /\ wire = <<>> /\ batch = <<>> /\ sendQueue = <<>> /\ unpublished = <<>>
      /\ lost = {}
      /\ \A w \in Workers : encodePc[w] # "encode"
  BY DEF Init, InitialThreads
<1>3. ToSet(<<>>) = {} /\ DOMAIN <<>> = {}
  BY EmptySeq DEF ToSet
<1>4. InFlight = {FullFrame(grid, 0)}
  BY <1>1, <1>2, <1>3 DEF InFlight, Published, Encoding, ToSet
<1>5. Stream!Partition(InFlight, DOMAIN previousFrame, 0)
  BY <1>1, <1>4 DEF Stream!Partition, FullFrame
<1> QED
  BY <1>1, <1>2, <1>5 DEF Stream!StreamInit

(* Jobs that leave the pipeline, sent or dropped.                           *)
LEMMA Delivers ==
  ASSUME TypeOK, UNCHANGED previousFrame,
         NEW front \in Seq(Job), Apart(front), wire' = wire \o front,
         NEW gone, gone # {}, gone \subseteq InFlight,
         InFlight' = InFlight \ gone,
         gone = ToSet(front) \cup (lost' \ lost),
         lost \subseteq lost', ToSet(front) \cap lost' = {}
  PROVE  Stream!Deliver
<1>1. wire \in Seq(Job)
  BY DEF TypeOK, LinkTypeOK
<1>2. /\ IsPrefix(wire, wire')
      /\ SubSeq(wire', Len(wire) + 1, Len(wire')) = front
  BY <1>1, ConcatSuffix
<1>3. IsInjective(front)
  <2>1. DOMAIN front \subseteq Nat
    BY LenProperties
  <2>2. \A i, j \in DOMAIN front : i < j \/ j < i \/ i = j
    BY <2>1
  <2> QED
    BY <2>2 DEF Apart, IsInjective
<1>4. /\ Stream!IsPrefix(wire, wire')
      /\ Stream!IsInjective(front)
      /\ Stream!ToSet(front) = ToSet(front)
  BY <1>2, <1>3 DEF Stream!IsPrefix, IsPrefix, Stream!IsInjective, IsInjective,
                    Stream!ToSet, ToSet
<1> QED
  BY <1>2, <1>4 DEF Stream!Deliver

\* A step that leaves the wire alone: what it delivers is what it drops.
LEMMA Drops ==
  ASSUME TypeOK, OnePlace, UNCHANGED <<wire, previousFrame>>,
         NEW gone, gone # {}, gone \subseteq InFlight,
         InFlight' = InFlight \ gone, lost' = lost \cup gone
  PROVE  Stream!Deliver
<1>1. wire \in Seq(Job) /\ <<>> \in Seq(Job)
  BY EmptySeq DEF TypeOK, LinkTypeOK
<1>2. wire' = wire \o <<>> /\ Apart(<<>>) /\ ToSet(<<>>) = {}
  BY <1>1, ConcatEmptySeq, EmptySeq DEF Apart, ToSet
<1>3. gone \cap lost = {}
  BY InFlightIs DEF OnePlace
<1>4. gone = ToSet(<<>>) \cup (lost' \ lost)
  BY <1>2, <1>3
<1> QED
  BY <1>1, <1>2, <1>4, Delivers

\* A job dropped at one place of the pipeline; one that changes place.
LEMMA DropOne ==
  ASSUME TypeOK, OnePlace, UNCHANGED <<wire, previousFrame>>,
         NEW p \in 2..6, NEW job, Moved(p, 7, {job})
  PROVE  Stream!Deliver
<1>1. job \in InFlight /\ lost' = lost \cup {job}
  BY InFlightIs DEF Moved
<1>2. \A q \in 2..6 : q # p => job \notin Held[q]
  BY DEF OnePlace, Moved
<1>3. \A q \in 2..6 : Held'[q] = Held[q] \ {job}
  BY <1>2 DEF Moved
<1>4. InFlight' = InFlight \ {job}
  BY <1>3, InFlightIs
<1> QED
  BY <1>1, <1>4, Drops

LEMMA MovesInside ==
  ASSUME UNCHANGED <<wire, previousFrame>>,
         NEW p \in 2..6, NEW q \in 2..6, p # q, NEW jobs, Moved(p, q, jobs)
  PROVE  UNCHANGED <<previousFrame, InFlight, wire, lost>>
<1>1. p \in {2, 3, 4, 5, 6} /\ q \in {2, 3, 4, 5, 6}
  OBVIOUS
<1> QED
  BY <1>1, InFlightIs DEF Moved

(* The jobs of a new capture are the ones that appear.                      *)
LEMMA Appears ==
  ASSUME TypeOK, Owned, Owned', NEW q \in {5, 6, 7}, NEW fresh, Added(q, fresh)
  PROVE  /\ (InFlight' \ InFlight) \cup (lost' \ lost) = fresh
         /\ InFlight \subseteq InFlight' /\ lost \subseteq lost'
         /\ InFlight' \cap lost' = {}
<1>1. captures \in Nat
  BY DEF TypeOK, CaptureTypeOK, Shots
<1>2. \A p \in 1..7 : \A job \in Held[p] : job.shot <= captures /\ job.shot \in Nat
  BY HeldJobs, SenderAssumption DEF Owned, NoneNewer, Job, Shots
<1>3. \A p \in 1..7 : Held[p] \cap fresh = {}
  BY <1>1, <1>2 DEF Added
<1>4. InFlight \cap fresh = {} /\ lost \cap fresh = {}
  BY <1>3, InFlightIs
<1>5. \/ InFlight' = InFlight \cup fresh /\ lost' = lost
      \/ InFlight' = InFlight /\ lost' = lost \cup fresh
  BY InFlightIs DEF Added
<1>6. InFlight' \cap lost' = {}
  <2>1. \A p \in 2..6 : Held'[p] \cap Held'[7] = {}
    BY DEF Owned, OnePlace
  <2> QED
    BY <2>1, InFlightIs
<1> QED
  BY <1>4, <1>5, <1>6

(* A scan that found changes, and a resize, are UpdateStream's Capture.     *)
LEMMA ChangeStreams ==
  ASSUME TypeOK, Owned, Owned', NEW changed \in SUBSET Grid, CaptureChange(changed),
         NEW q \in {6, 7},
         Added(q, RegionJobs(Regions[Grid][changed], captures + 1))
  PROVE  Stream!Capture
<1> DEFINE regions == Regions[Grid][changed]
           n == captures + 1
           fresh == RegionJobs(regions, n)
<1>1. PICK grid \in Resolutions : previousFrame \in [grid -> 0..captures]
  BY DEF TypeOK, CaptureTypeOK
<1>2. Grid = grid /\ captures \in Nat /\ changed # {} /\ UNCHANGED wire
  BY <1>1 DEF Grid, TypeOK, CaptureTypeOK, Shots, CaptureChange, linkVars
<1>3. previousFrame' = [c \in grid |-> IF c \in changed THEN n ELSE previousFrame[c]]
  BY <1>2 DEF CaptureChange
<1>4. \A c \in grid : previousFrame[c] \in Nat /\ previousFrame[c] < n
  BY <1>1, <1>2
<1>5. Scan!CutsExactly(regions, changed)
  BY <1>2, SenderAssumption
<1> HIDE DEF regions, n
<1>6. /\ \A j \in fresh : j.shot = n
      /\ \A i \in DOMAIN regions : UpdateRegion(regions[i], n) \in fresh
      /\ \A i \in DOMAIN regions : UpdateRegion(regions[i], n).cells = regions[i]
      /\ \A j \in fresh : \E i \in DOMAIN regions : j = UpdateRegion(regions[i], n)
  BY DEF RegionJobs, UpdateRegion
<1> HIDE DEF fresh
<1>7. UNION {j.cells : j \in fresh} = changed
  <2>1. \A j \in fresh : j.cells \subseteq changed
    BY <1>5, <1>6 DEF Scan!CutsExactly
  <2>2. \A c \in changed : \E j \in fresh : c \in j.cells
    BY <1>5, <1>6 DEF Scan!CutsExactly
  <2> QED
    BY <2>1, <2>2
<1>8. \A j, k \in fresh : j # k => j.cells \cap k.cells = {}
  BY <1>5, <1>6 DEF Scan!CutsExactly
<1>9. Stream!Changed(previousFrame, previousFrame') = changed
  BY <1>1, <1>2, <1>3, <1>4 DEF Stream!Changed
<1>10. Stream!Partition(fresh, changed, n)
  BY <1>6, <1>7, <1>8 DEF Stream!Partition
<1>11. PICK j \in fresh : TRUE
  BY <1>2, <1>7
<1>12. previousFrame' # previousFrame
  BY <1>2, <1>3, <1>4
<1>13. /\ (InFlight' \ InFlight) \cup (lost' \ lost) = fresh
       /\ InFlight \subseteq InFlight' /\ lost \subseteq lost'
       /\ InFlight' \cap lost' = {}
  BY Appears DEF fresh, regions, n
<1>14. /\ \A c \in DOMAIN previousFrame : previousFrame[c] < j.shot
       /\ \A c \in changed : previousFrame'[c] = j.shot
  BY <1>1, <1>2, <1>3, <1>4, <1>6
<1> QED
  BY <1>2, <1>6, <1>9, <1>10, <1>11, <1>12, <1>13, <1>14 DEF Stream!Capture

LEMMA ResizeStreams ==
  ASSUME TypeOK, Owned, Owned', NEW grid \in Resolutions, CaptureResize(grid),
         Added(5, {FullFrame(grid, captures + 1)})
  PROVE  Stream!Capture
<1> DEFINE job == FullFrame(grid, captures + 1)
<1>1. PICK old \in Resolutions : previousFrame \in [old -> 0..captures]
  BY DEF TypeOK, CaptureTypeOK
<1>2. /\ captures \in Nat /\ UNCHANGED wire /\ grid # Grid
      /\ previousFrame' = [c \in grid |-> captures + 1]
  BY DEF TypeOK, CaptureTypeOK, Shots, CaptureResize, linkVars
<1>3. \A c \in old : previousFrame[c] \in Nat /\ previousFrame[c] < captures + 1
  BY <1>1, <1>2
<1>4. job.shot = captures + 1 /\ job.cells = grid
  BY DEF FullFrame
<1>5. Stream!Changed(previousFrame, previousFrame') = grid
  BY <1>1, <1>2, <1>3 DEF Stream!Changed
<1> HIDE DEF job
<1>6. Stream!Partition({job}, grid, captures + 1)
  BY <1>4 DEF Stream!Partition
<1>7. previousFrame' # previousFrame
  BY <1>1, <1>2 DEF Grid
<1>8. /\ (InFlight' \ InFlight) \cup (lost' \ lost) = {job}
      /\ InFlight \subseteq InFlight' /\ lost \subseteq lost'
      /\ InFlight' \cap lost' = {}
  BY Appears DEF job
<1>9. /\ \A c \in DOMAIN previousFrame : previousFrame[c] < job.shot
      /\ \A c \in grid : previousFrame'[c] = job.shot
  BY <1>1, <1>2, <1>3, <1>4
<1> QED
  BY <1>2, <1>4, <1>5, <1>6, <1>7, <1>8, <1>9 DEF Stream!Capture

(* Every step of the pipeline is a step of UpdateStream, or none of it.     *)
LEMMA StreamSteps ==
  TypeOK /\ Owned /\ PipelineStep => [Stream!StreamNext]_Stream!streamVars
<1> SUFFICES ASSUME TypeOK, Owned, PipelineStep,
                    ~Stream!Capture, ~Stream!Deliver
             PROVE  UNCHANGED <<previousFrame, InFlight, wire, lost>>
  BY DEF Stream!StreamNext, Stream!streamVars
<1>1. OnePlace
  BY DEF Owned
<1>2. ASSUME UNCHANGED <<Held, wire, previousFrame>>
      PROVE  UNCHANGED <<previousFrame, InFlight, wire, lost>>
  <2>1. \A p \in 1..7 : Held'[p] = Held[p]
    BY <1>2
  <2> QED
    BY <1>2, <2>1, InFlightIs
<1>3. CASE CaptureThread
  <2>1. UNCHANGED wire
    BY <1>3, CaptureFrame DEF linkVars
  <2>2. CASE UNCHANGED <<Held, captures, previousFrame>>
    BY <1>2, <2>1, <2>2
  <2>3. ASSUME UNCHANGED previousFrame, NEW job \in Job,
               Moved(6, 5, {job}) \/ Moved(6, 7, {job})
        PROVE  UNCHANGED <<previousFrame, InFlight, wire, lost>>
    BY <1>1, <2>1, <2>3, DropOne, MovesInside
  <2> QED
    BY <1>3, <2>2, <2>3, CaptureMoves, ChangeStreams, ResizeStreams
<1>4. ASSUME NEW w \in Workers, EncodeWorker(w)
      PROVE  UNCHANGED <<previousFrame, InFlight, wire, lost>>
  <2>1. UNCHANGED <<wire, previousFrame>>
    BY <1>4, EncodeFrame DEF linkVars, captureVars
  <2>2. ASSUME NEW job \in Job,
               Moved(5, 4, {job}) \/ Moved(4, 3, {job}) \/ Moved(4, 7, {job})
        PROVE  UNCHANGED <<previousFrame, InFlight, wire, lost>>
    BY <1>1, <2>1, <2>2, DropOne, MovesInside
  <2> QED
    BY <1>2, <1>4, <2>1, <2>2, EncodeMoves
<1>5. CASE SendThread
  <2>1. UNCHANGED previousFrame
    BY <1>5, SendFrame DEF captureVars
  <2>2. batch \in Seq(Job) /\ Apart(batch)
    BY DEF TypeOK, SendTypeOK, Owned, NoneTwice
  <2>3. /\ \A p \in 2..6 : p # 2 => Held[p] \cap Held[2] = {}
        /\ Held[2] \cap Held[7] = {}
    BY <1>1 DEF OnePlace
  <2>4. ASSUME UNCHANGED wire, NEW job \in Job,
               Moved(3, 2, {job}) \/ Moved(3, 7, {job})
        PROVE  UNCHANGED <<previousFrame, InFlight, wire, lost>>
    BY <1>1, <2>1, <2>4, DropOne, MovesInside
  <2>5. ASSUME SendAll, batch # <<>>, Moved(2, 1, ToSet(batch)) PROVE FALSE
    <3>1. wire' = wire \o batch
      BY <2>5 DEF SendAll
    <3>2. Held'[2] = {} /\ lost' = lost /\ \A p \in 3..6 : Held'[p] = Held[p]
      BY <2>5, InFlightIs, HeldIs DEF Moved
    <3>3. ToSet(batch) \subseteq InFlight /\ InFlight' = InFlight \ ToSet(batch)
      BY <2>3, <3>2, InFlightIs, HeldIs
    <3>4. ToSet(batch) # {}
      <4>1. Head(batch) \in ToSet(batch)
        BY <2>2, <2>5, PopApart DEF CanPop
      <4> QED
        BY <4>1
    <3>5. ToSet(batch) \cap lost' = {}
      BY <2>3, <3>2, HeldIs
    <3> QED
      BY <2>1, <2>2, <3>1, <3>2, <3>3, <3>4, <3>5, Delivers
  <2>6. ASSUME NEW front \in Seq(Job), NEW rest, wire' = wire \o front,
               Apart(front), rest # {}, MovedApart(2, 1, ToSet(front), 7, rest)
        PROVE  FALSE
    <3>1. /\ Held'[2] = {} /\ lost' = lost \cup rest
          /\ \A p \in 3..6 : Held'[p] = Held[p]
          /\ ToSet(front) \cup rest = Held[2] /\ ToSet(front) \cap rest = {}
      BY <2>6, InFlightIs DEF MovedApart
    <3>2. Held[2] \subseteq InFlight /\ InFlight' = InFlight \ Held[2]
      BY <2>3, <3>1, InFlightIs
    <3>3. lost' \ lost = rest /\ ToSet(front) \cap lost' = {}
      BY <2>3, <3>1, HeldIs
    <3> QED
      BY <2>1, <2>6, <3>1, <3>2, <3>3, Delivers
  <2> QED
    BY <1>2, <1>5, <2>1, <2>4, <2>5, <2>6, SendMoves
<1>6. CASE MainThread \/ Environment \/ UNCHANGED vars
  <2>1. UNCHANGED <<captures, previousFrame, wire>>
    BY <1>6, OtherMoves
  <2>2. ASSUME Held'[3] = {}, Held'[5] = {},
               Held'[7] = Held[7] \cup Held[3] \cup Held[5],
               \A p \in {1, 2, 4, 6} : Held'[p] = Held[p]
        PROVE  UNCHANGED <<previousFrame, InFlight, wire, lost>>
    <3> DEFINE gone == Held[3] \cup Held[5]
    <3>1. \A p \in {2, 4, 6} : Held[p] \cap Held[3] = {} /\ Held[p] \cap Held[5] = {}
      BY <1>1 DEF OnePlace
    <3>2. /\ gone \subseteq InFlight /\ InFlight' = InFlight \ gone
          /\ lost' = lost \cup gone
      BY <2>2, <3>1, InFlightIs
    <3>3. gone = {}
      BY <1>1, <2>1, <3>2, Drops
    <3> QED
      BY <2>1, <3>2, <3>3
  <2> QED
    BY <1>2, <1>6, <2>1, <2>2, OtherMoves
<1> QED
  BY <1>3, <1>4, <1>5, <1>6 DEF PipelineStep

(* The pipeline implements UpdateStream: whatever its queues, its workers   *)
(* and its threads do, and whatever fails, every change of the screen is    *)
(* cut at once into disjoint jobs that hold exactly the changed tiles, and  *)
(* each job is handed to the transport once or dropped, and never both.     *)
THEOREM PipelineIsAStream == Spec => ImplementsUpdateStream
  BY StreamStarts, StreamSteps, OwnedAlways, NextSteps, PTL
     DEF Spec, ImplementsUpdateStream, Stream!StreamSpec

-----------------------------------------------------------------------------
(* The order in which jobs are sent, with one encode worker.                *)

OneWorker == \A v, w \in Workers : v = w

\* Job a may be sent ahead of job b.
MayPrecede(a, b) ==
  ~IsFull(a) => IF IsFull(b) THEN a.shot < b.shot ELSE a.shot <= b.shot

InSequence(queue) ==
  \A i, j \in DOMAIN queue : i < j => MayPrecede(queue[i], queue[j])

(* The inductive invariant behind UpdatesInOrder and FullFrameAhead: what   *)
(* is nearer to the transport may be sent ahead of what is farther, from    *)
(* the wire back to the scan; a full frame may overtake anything.           *)
PlacesOrdered ==
  \A p, q \in 1..6 : p < q => \A a \in Held[p], b \in Held[q] : MayPrecede(a, b)

PipeOrdered ==
  /\ PlacesOrdered
  /\ InSequence(wire) /\ InSequence(batch)
  /\ InSequence(sendQueue) /\ InSequence(regionQueue)

(* Taking, pushing and appending keep a queue in sequence.                  *)
LEMMA PopInSequence ==
  ASSUME NEW queue \in Seq(Job), CanPop(queue), InSequence(queue)
  PROVE  /\ InSequence(Tail(queue))
         /\ \A x \in ToSet(queue) \ {Head(queue)} : MayPrecede(Head(queue), x)
<1>1. /\ DOMAIN Tail(queue) = 1..(Len(queue) - 1)
      /\ DOMAIN queue = 1..Len(queue)
      /\ Len(queue) \in Nat \ {0}
      /\ Head(queue) = queue[1]
      /\ \A i \in DOMAIN Tail(queue) : Tail(queue)[i] = queue[i + 1]
  BY PopProperties, LenProperties
<1>2. \A i \in DOMAIN Tail(queue) : i + 1 \in DOMAIN queue
  BY <1>1
<1>3. \A i, j \in DOMAIN Tail(queue) : i < j => i + 1 < j + 1
  BY <1>1
<1>4. InSequence(Tail(queue))
  BY <1>1, <1>2, <1>3 DEF InSequence
<1>5. ASSUME NEW x \in ToSet(queue) \ {Head(queue)} PROVE MayPrecede(Head(queue), x)
  <2>1. PICK j \in DOMAIN queue : x = queue[j]
    BY DEF ToSet
  <2>2. 1 \in DOMAIN queue /\ 1 < j
    BY <1>1, <1>5, <2>1
  <2> QED
    BY <1>1, <2>1, <2>2 DEF InSequence
<1> QED
  BY <1>4, <1>5

LEMMA PushInSequence ==
  ASSUME NEW queue \in Seq(Job), NEW job \in Job, NEW priority \in BOOLEAN,
         InSequence(queue),
         priority => \A x \in ToSet(queue) : MayPrecede(job, x),
         ~priority => \A x \in ToSet(queue) : MayPrecede(x, job)
  PROVE  InSequence(Push(queue, job, priority))
<1> DEFINE new == Push(queue, job, priority)
<1>1. ASSUME NEW i \in DOMAIN new, NEW j \in DOMAIN new, i < j
      PROVE  MayPrecede(new[i], new[j])
  <2> HIDE DEF MayPrecede
  <2>1. \/ priority /\ new[i] = job /\ new[j] \in ToSet(queue)
        \/ ~priority /\ new[j] = job /\ new[i] \in ToSet(queue)
        \/ \E k, l \in DOMAIN queue : k < l /\ new[i] = queue[k] /\ new[j] = queue[l]
    BY <1>1, PushPairs
  <2> HIDE DEF new
  <2> QED
    BY <2>1 DEF InSequence
<1> QED
  BY <1>1 DEF InSequence

LEMMA ConcatInSequence ==
  ASSUME NEW s \in Seq(Job), NEW t \in Seq(Job), InSequence(s), InSequence(t),
         \A a \in ToSet(s), b \in ToSet(t) : MayPrecede(a, b)
  PROVE  InSequence(s \o t)
<1>1. ASSUME NEW i \in DOMAIN (s \o t), NEW j \in DOMAIN (s \o t), i < j
      PROVE  MayPrecede((s \o t)[i], (s \o t)[j])
  <2>1. \/ (s \o t)[i] \in ToSet(s) /\ (s \o t)[j] \in ToSet(t)
        \/ \E k, l \in DOMAIN s : k < l /\ (s \o t)[i] = s[k] /\ (s \o t)[j] = s[l]
        \/ \E k, l \in DOMAIN t : k < l /\ (s \o t)[i] = t[k] /\ (s \o t)[j] = t[l]
    BY <1>1, ConcatPairs
  <2> QED
    BY <2>1 DEF InSequence
<1> QED
  BY <1>1 DEF InSequence

LEMMA AppendInSequence ==
  ASSUME NEW s \in Seq(Job), NEW job \in Job, InSequence(s),
         \A a \in ToSet(s) : MayPrecede(a, job)
  PROVE  InSequence(Append(s, job))
<1>1. <<job>> \in Seq(Job) /\ DOMAIN <<job>> = 1..1 /\ <<job>>[1] = job
  OBVIOUS
<1>2. InSequence(<<job>>) /\ ToSet(<<job>>) = {job}
  BY <1>1 DEF InSequence, ToSet
<1>3. Append(s, job) = s \o <<job>>
  BY AppendIsConcat
<1> QED
  BY <1>1, <1>2, <1>3, ConcatInSequence

\* A job goes one place on, ahead of those it leaves behind; jobs go away;
\* the batch, or a part of it, goes to the wire; a new capture comes in.
LEMMA OneOn ==
  ASSUME PlacesOrdered, NEW q \in 1..5, NEW job, Moved(q + 1, q, {job}),
         \A x \in Held[q + 1] \ {job} : MayPrecede(job, x)
  PROVE  PlacesOrdered'
<1>1. ASSUME NEW p \in 1..6, NEW r \in 1..6, p < r, NEW a \in Held'[p], NEW b \in Held'[r]
      PROVE  MayPrecede(a, b)
  <2>1. q + 1 \in 1..6 /\ job \in Held[q + 1]
    BY DEF Moved
  <2>2. a \in Held[p] \/ (p = q /\ a = job)
    BY <1>1, <2>1 DEF Moved
  <2>3. b \in Held[r] \/ (r = q /\ b = job)
    BY <1>1, <2>1 DEF Moved
  <2>4. CASE a \in Held[p] /\ b \in Held[r]
    BY <1>1, <2>4 DEF PlacesOrdered
  <2>5. CASE p = q /\ a = job
    <3>1. CASE r = q + 1
      <4>1. b \in Held[q + 1] \ {job}
        BY <1>1, <3>1 DEF Moved
      <4> QED
        BY <2>5, <4>1
    <3>2. CASE r # q + 1
      <4>1. b \in Held[r] /\ q + 1 < r
        BY <1>1, <2>3, <2>5, <3>2
      <4> QED
        BY <2>1, <2>5, <4>1 DEF PlacesOrdered
    <3> QED
      BY <3>1, <3>2
  <2>6. CASE r = q /\ b = job
    <3>1. a \in Held[p] /\ p < q + 1
      BY <1>1, <2>2, <2>6
    <3> QED
      BY <2>1, <2>6, <3>1 DEF PlacesOrdered
  <2> QED
    BY <2>2, <2>3, <2>4, <2>5, <2>6
<1> QED
  BY <1>1 DEF PlacesOrdered

LEMMA Fewer ==
  ASSUME PlacesOrdered, \A p \in 1..6 : Held'[p] \subseteq Held[p]
  PROVE  PlacesOrdered'
BY DEF PlacesOrdered

LEMMA ToTheWire ==
  ASSUME PlacesOrdered, Held'[1] \subseteq Held[1] \cup Held[2], Held'[2] = {},
         \A p \in 3..6 : Held'[p] = Held[p]
  PROVE  PlacesOrdered'
<1>1. ASSUME NEW p \in 1..6, NEW r \in 1..6, p < r, NEW a \in Held'[p], NEW b \in Held'[r]
      PROVE  MayPrecede(a, b)
  <2>1. r \in 3..6 /\ b \in Held[r]
    BY <1>1
  <2>2. CASE p \in {1, 2}
    BY <1>1, <2>1, <2>2 DEF PlacesOrdered
  <2>3. CASE p \notin {1, 2}
    <3>1. a \in Held[p]
      BY <2>3
    <3> QED
      BY <1>1, <2>1, <3>1 DEF PlacesOrdered
  <2> QED
    BY <2>2, <2>3
<1> QED
  BY <1>1 DEF PlacesOrdered

LEMMA ComesIn ==
  ASSUME TypeOK, NoneNewer, PlacesOrdered, NEW q \in 5..6, NEW jobs, Added(q, jobs),
         q = 6 \/ \A job \in jobs : IsFull(job)
  PROVE  PlacesOrdered'
<1>1. captures \in Nat
  BY DEF TypeOK, CaptureTypeOK, Shots
<1>2. \A p \in 1..7 : \A job \in Held[p] : job.shot <= captures /\ job.shot \in Nat
  BY HeldJobs, SenderAssumption DEF NoneNewer, Job, Shots
<1>3. ASSUME NEW p \in 1..6, NEW r \in 1..6, p < r, NEW a \in Held'[p], NEW b \in Held'[r]
      PROVE  MayPrecede(a, b)
  <2>1. CASE a \in Held[p] /\ b \in Held[r]
    BY <1>3, <2>1 DEF PlacesOrdered
  <2>2. CASE a \notin Held[p]
    <3>1. IsFull(a)
      BY <1>3, <2>2 DEF Added
    <3> QED
      BY <3>1 DEF MayPrecede
  <2>3. CASE a \in Held[p] /\ b \notin Held[r]
    <3>1. b.shot = captures + 1
      BY <1>3, <2>3 DEF Added
    <3> QED
      BY <1>1, <1>2, <2>3, <3>1 DEF MayPrecede
  <2> QED
    BY <2>1, <2>2, <2>3
<1> QED
  BY <1>3 DEF PlacesOrdered

(* PipeOrdered holds at the start, and each thread's steps keep it.         *)
LEMMA OrderedInit == Init => PipeOrdered
<1> SUFFICES ASSUME Init PROVE PipeOrdered
  OBVIOUS
<1>1. PICK grid \in Resolutions : regionQueue = <<FullFrame(grid, 0)>>
  BY DEF Init
<1>2. /\ wire = <<>> /\ batch = <<>> /\ sendQueue = <<>> /\ unpublished = <<>>
      /\ \A w \in Workers : encodePc[w] # "encode"
  BY DEF Init, InitialThreads
<1>3. ToSet(<<>>) = {} /\ InSequence(<<>>) /\ DOMAIN <<>> = {}
  BY EmptySeq DEF ToSet, InSequence
<1>4. InSequence(regionQueue)
  <2>1. DOMAIN regionQueue = {1}
    BY <1>1
  <2>2. \A i, j \in {1} : ~(i < j)
    OBVIOUS
  <2> QED
    BY <2>1, <2>2 DEF InSequence
<1>5. Encoding = {} /\ Published = {}
  BY <1>2, <1>3 DEF Encoding, Published
<1>6. \A p \in 1..6 : p # 5 => Held[p] = {}
  BY <1>2, <1>3, <1>5, HeldIs
<1>7. \A p, q \in 1..6 : p < q => Held[p] = {} \/ Held[q] = {}
  <2>1. \A p, q \in 1..6 : p < q => p # 5 \/ q # 5
    OBVIOUS
  <2> QED
    BY <1>6, <2>1
<1>8. PlacesOrdered
  BY <1>7 DEF PlacesOrdered
<1> QED
  BY <1>2, <1>3, <1>4, <1>8 DEF PipeOrdered

LEMMA CaptureOrdered ==
  ASSUME TypeOK, Owned, PipeOrdered, CaptureThread
  PROVE  PipeOrdered'
<1>1. UNCHANGED <<sendQueue, batch, wire>>
  BY CaptureFrame DEF sendQVars, senderVars, linkVars
<1>2. regionQueue \in Seq(Job) /\ PlacesOrdered /\ InSequence(regionQueue)
  BY DEF TypeOK, EncodeTypeOK, PipeOrdered
<1>3. ASSUME PlacesOrdered', InSequence(regionQueue') PROVE PipeOrdered'
  BY <1>1, <1>3 DEF PipeOrdered
<1>4. CASE UNCHANGED <<Held, captures, previousFrame, regionQueue>>
  <2>1. PlacesOrdered'
    BY <1>2, <1>4, Fewer
  <2> QED
    BY <1>2, <1>3, <1>4, <2>1
<1>5. ASSUME NEW job \in Job, Moved(6, 5, {job}),
             regionQueue' = Push(regionQueue, job, FALSE)
      PROVE  PipeOrdered'
  <2>1. \A x \in Held[6] : ~IsFull(x) /\ x.shot = captures
    BY HeldIs DEF Published, UpdateRegion, IsFull
  <2>2. captures \in Nat
    BY DEF TypeOK, CaptureTypeOK, Shots
  <2>3. job \in Held[6]
    BY <1>5 DEF Moved
  <2>4. \A x \in Held[6] \ {job} : MayPrecede(job, x)
    BY <2>1, <2>2, <2>3 DEF MayPrecede
  <2>5. PlacesOrdered'
    <3> DEFINE q == 5
    <3>1. q \in 1..5 /\ q + 1 = 6
      OBVIOUS
    <3>2. Moved(q + 1, q, {job}) /\ \A x \in Held[q + 1] \ {job} : MayPrecede(job, x)
      BY <1>5, <2>4, <3>1
    <3> HIDE DEF q
    <3> QED
      BY <1>2, <3>1, <3>2, OneOn
  <2>6. \A x \in ToSet(regionQueue) : MayPrecede(x, job)
    BY <1>2, <2>3, HeldIs DEF PlacesOrdered
  <2> DEFINE update == FALSE
  <2>7. update \in BOOLEAN /\ ~update /\ regionQueue' = Push(regionQueue, job, update)
    BY <1>5
  <2> HIDE DEF update
  <2>8. InSequence(regionQueue')
    BY <1>2, <2>6, <2>7, PushInSequence
  <2> QED
    BY <1>3, <2>5, <2>8
<1>6. ASSUME NEW job \in Job, Moved(6, 7, {job}), UNCHANGED regionQueue
      PROVE  PipeOrdered'
  <2>1. \A p \in 1..6 : Held'[p] \subseteq Held[p]
    BY <1>6 DEF Moved
  <2> QED
    BY <1>2, <1>3, <1>6, <2>1, Fewer
<1>7. ASSUME NEW changed \in SUBSET Grid, CaptureChange(changed), NEW jobs,
             Added(6, jobs) \/ Added(7, jobs)
      PROVE  PipeOrdered'
  <2>1. UNCHANGED regionQueue
    BY <1>7 DEF CaptureChange, regionVars
  <2>2. PlacesOrdered'
    <3>1. CASE Added(6, jobs)
      <4>1. 6 \in 5..6
        OBVIOUS
      <4> QED
        BY <1>2, <3>1, <4>1, ComesIn DEF Owned
    <3>2. CASE Added(7, jobs)
      <4>1. \A p \in 1..6 : Held'[p] \subseteq Held[p]
        BY <3>2 DEF Added
      <4> QED
        BY <1>2, <4>1, Fewer
    <3> QED
      BY <1>7, <3>1, <3>2
  <2> QED
    BY <1>2, <1>3, <2>1, <2>2
<1>8. ASSUME NEW grid \in Resolutions, CaptureResize(grid),
             Added(5, {FullFrame(grid, captures + 1)})
      PROVE  PipeOrdered'
  <2> DEFINE job == FullFrame(grid, captures + 1)
             first == TRUE
  <2>1. job \in Job
    BY <1>8, JobTypes, SenderAssumption
       DEF CaptureResize, TypeOK, CaptureTypeOK, Shots
  <2>2. IsFull(job)
    BY DEF FullFrame, IsFull
  <2>3. regionQueue' = Push(regionQueue, job, first) /\ first \in BOOLEAN
    BY <1>8 DEF CaptureResize
  <2> HIDE DEF job
  <2>4. \A x \in ToSet(regionQueue) : MayPrecede(job, x)
    BY <2>2 DEF MayPrecede
  <2>5. first
    OBVIOUS
  <2> HIDE DEF first
  <2>6. InSequence(regionQueue')
    BY <1>2, <2>1, <2>3, <2>4, <2>5, PushInSequence
  <2>7. \A x \in {job} : IsFull(x)
    BY <2>2
  <2>8. Added(5, {job})
    BY <1>8 DEF job
  <2>9. PlacesOrdered'
    BY <1>2, <2>7, <2>8, ComesIn DEF Owned
  <2> QED
    BY <1>3, <2>6, <2>9
<1> QED
  BY <1>4, <1>5, <1>6, <1>7, <1>8, CaptureMoves

LEMMA EncodeOrdered ==
  ASSUME OneWorker, TypeOK, Owned, PipeOrdered, NEW w \in Workers, EncodeWorker(w)
  PROVE  PipeOrdered'
<1>1. UNCHANGED <<batch, wire>>
  BY EncodeFrame DEF senderVars, linkVars
<1>2. /\ regionQueue \in Seq(Job) /\ sendQueue \in Seq(Job)
      /\ PlacesOrdered /\ InSequence(regionQueue) /\ InSequence(sendQueue)
      /\ encodePc[w] = "encode" => encodeJob[w] \in Job
  BY DEF TypeOK, EncodeTypeOK, SendTypeOK, PipeOrdered
<1>3. ASSUME PlacesOrdered', InSequence(regionQueue'), InSequence(sendQueue')
      PROVE  PipeOrdered'
  BY <1>1, <1>3 DEF PipeOrdered
<1>4. Encoding \subseteq {encodeJob[w]} /\ (encodePc[w] # "encode" => Encoding = {})
  BY DEF OneWorker, Encoding
<1>5. CASE EncodePop(w)
  <2> DEFINE job == Head(regionQueue)
  <2>1. /\ CanPop(regionQueue) /\ regionQueue' = Tail(regionQueue)
        /\ UNCHANGED sendQueue /\ encodePc[w] # "encode"
        /\ encodeJob' = [encodeJob EXCEPT ![w] = job]
        /\ encodePc' = [encodePc EXCEPT ![w] = "encode"]
    BY <1>5 DEF EncodePop, sendQVars
  <2>2. /\ InSequence(regionQueue')
        /\ \A x \in ToSet(regionQueue) \ {job} : MayPrecede(job, x)
    BY <1>2, <2>1, PopInSequence
  <2>3. /\ job \in ToSet(regionQueue)
        /\ ToSet(regionQueue') = ToSet(regionQueue) \ {job}
    BY <1>2, <2>1, PopApart DEF Owned, NoneTwice
  <2> HIDE DEF job
  <2>4. Encoding' = {job}
    BY <2>1 DEF OneWorker, Encoding, TypeOK, EncodeTypeOK
  <2> DEFINE q == 4
  <2>5. Moved(q + 1, q, {job}) /\ \A x \in Held[q + 1] \ {job} : MayPrecede(job, x)
    <3>1. /\ UNCHANGED <<Published, ToSet(batch), ToSet(wire), ToSet(sendQueue), lost>>
      BY <1>5, EncodeFrame DEF EncodePop, captureVars, senderVars, linkVars,
         sendQVars, Published
    <3>2. Encoding = {}
      BY <1>4, <2>1
    <3>3. Moved(5, 4, {job})
      BY <2>3, <2>4, <3>1, <3>2, HeldIs, HeldIsThen DEF Moved
    <3> QED
      BY <2>2, <3>3, HeldIs
  <2>6. q \in 1..5
    OBVIOUS
  <2> HIDE DEF q
  <2>7. PlacesOrdered'
    BY <1>2, <2>5, <2>6, OneOn
  <2> QED
    BY <1>2, <1>3, <2>1, <2>2, <2>7
<1>6. CASE EncodePush(w)
  <2> DEFINE job == encodeJob[w]
             full == IsFull(job)
  <2>1. /\ job \in Job /\ UNCHANGED regionQueue /\ encodePc[w] = "encode"
        /\ sendQueue' = Push(sendQueue, job, full)
    BY <1>2, <1>6 DEF EncodePush, EndEncode, regionVars
  <2>2. full \in BOOLEAN /\ (full <=> IsFull(job))
    BY <2>1, JobTypes
  <2>3. job \in Held[4] /\ Held[4] = {job}
    BY <1>4, <2>1, HeldIs DEF Encoding
  <2> HIDE DEF job, full
  <2>4. \A x \in ToSet(sendQueue) : MayPrecede(x, job)
    BY <1>2, <2>3, HeldIs DEF PlacesOrdered
  <2>5. full => \A x \in ToSet(sendQueue) : MayPrecede(job, x)
    BY <2>2 DEF MayPrecede
  <2>6. InSequence(sendQueue')
    BY <1>2, <2>1, <2>2, <2>4, <2>5, PushInSequence
  <2>7. ToSet(sendQueue') = ToSet(sendQueue) \cup {job}
    BY <1>2, <2>1, <2>2, PushSet
  <2> DEFINE q == 3
  <2>8. Moved(q + 1, q, {job}) /\ \A x \in Held[q + 1] \ {job} : MayPrecede(job, x)
    <3>1. UNCHANGED <<Published, ToSet(batch), ToSet(wire), ToSet(regionQueue), lost>>
      BY <1>6, EncodeFrame DEF EncodePush, EndEncode, captureVars, senderVars,
         linkVars, regionVars, Published
    <3>2. Encoding' = {}
      BY <1>6 DEF EncodePush, EndEncode, OneWorker, Encoding, TypeOK, EncodeTypeOK
    <3>3. Moved(4, 3, {job})
      BY <2>3, <2>7, <3>1, <3>2, HeldIs, HeldIsThen DEF Moved
    <3> QED
      BY <2>3, <3>3
  <2>9. q \in 1..5
    OBVIOUS
  <2> HIDE DEF q
  <2>10. PlacesOrdered'
    BY <1>2, <2>8, <2>9, OneOn
  <2> QED
    BY <1>2, <1>3, <2>1, <2>6, <2>10
<1>7. CASE EncodePopNothing(w) \/ EncodeCheckShutdown(w) \/ EncodeDrop(w)
  <2>1. UNCHANGED <<regionQueue, sendQueue, batch, wire, Published>>
    BY <1>7, EncodeFrame DEF EncodePopNothing, EncodeCheckShutdown, EncodeDrop,
       EndEncode, regionVars, sendQVars, captureVars, senderVars, linkVars, Published
  <2>2. Encoding' \subseteq Encoding
    BY <1>7 DEF EncodePopNothing, EncodeCheckShutdown, EncodeDrop, EndEncode,
       Encoding, TypeOK, EncodeTypeOK
  <2>3. \A p \in 1..6 : Held'[p] \subseteq Held[p]
    BY <2>1, <2>2, HeldIs, HeldIsThen
  <2> QED
    BY <1>2, <1>3, <2>1, <2>3, Fewer
<1> QED
  BY <1>5, <1>6, <1>7 DEF EncodeWorker

LEMMA SendOrdered ==
  ASSUME TypeOK, Owned, PipeOrdered, SendThread
  PROVE  PipeOrdered'
<1>1. UNCHANGED <<regionQueue, Published, Encoding>>
  BY SendFrame DEF captureVars, regionVars, encodeVars, Published, Encoding
<1>2. /\ sendQueue \in Seq(Job) /\ batch \in Seq(Job) /\ wire \in Seq(Job)
      /\ PlacesOrdered /\ InSequence(sendQueue) /\ InSequence(batch)
      /\ InSequence(wire) /\ (sendPc = "pop" => batch = <<>>)
  BY DEF TypeOK, SendTypeOK, LinkTypeOK, PipeOrdered
<1>3. ASSUME PlacesOrdered', InSequence(sendQueue'), InSequence(batch'),
             InSequence(wire')
      PROVE  PipeOrdered'
  BY <1>1, <1>3 DEF PipeOrdered
<1>4. InSequence(<<>>) /\ ToSet(<<>>) = {}
  BY EmptySeq DEF InSequence, ToSet
<1>5. CASE SendPop \/ SendCoalesce
  <2> DEFINE job == Head(sendQueue)
  <2>1. /\ CanPop(sendQueue) /\ sendQueue' = Tail(sendQueue) /\ UNCHANGED wire
        /\ \/ batch' = Append(batch, job) /\ UNCHANGED lost
           \/ UNCHANGED batch
    <3>1. CASE SendPop
      <4>1. batch = <<>>
        BY <1>2, <3>1 DEF SendPop
      <4> QED
        BY <3>1, <4>1 DEF SendPop, senderVars, linkVars
    <3>2. CASE SendCoalesce
      BY <3>2 DEF SendCoalesce, CanGrow, linkVars
    <3> QED
      BY <1>5, <3>1, <3>2
  <2>2. /\ InSequence(sendQueue')
        /\ \A x \in ToSet(sendQueue) \ {job} : MayPrecede(job, x)
    BY <1>2, <2>1, PopInSequence
  <2>3. /\ job \in Job /\ job \in ToSet(sendQueue)
        /\ ToSet(sendQueue') = ToSet(sendQueue) \ {job}
    BY <1>2, <2>1, PopApart, PopProperties DEF Owned, NoneTwice
  <2> HIDE DEF job
  <2>4. CASE batch' = Append(batch, job) /\ UNCHANGED lost
    <3>1. \A x \in ToSet(batch) : MayPrecede(x, job)
      BY <1>2, <2>3, HeldIs DEF PlacesOrdered
    <3>2. InSequence(batch') /\ ToSet(batch') = ToSet(batch) \cup {job}
      BY <1>2, <2>3, <2>4, <3>1, AppendInSequence, AppendSet
    <3> DEFINE q == 2
    <3>3. Moved(q + 1, q, {job}) /\ \A x \in Held[q + 1] \ {job} : MayPrecede(job, x)
      <4>1. Moved(3, 2, {job})
        BY <1>1, <2>1, <2>3, <2>4, <3>2, HeldIs, HeldIsThen DEF Moved
      <4> QED
        BY <2>2, <4>1, HeldIs
    <3>4. q \in 1..5
      OBVIOUS
    <3> HIDE DEF q
    <3>5. PlacesOrdered'
      BY <1>2, <3>3, <3>4, OneOn
    <3> QED
      BY <1>2, <1>3, <2>1, <2>2, <3>2, <3>5
  <2>5. CASE UNCHANGED batch
    <3>1. \A p \in 1..6 : Held'[p] \subseteq Held[p]
      BY <1>1, <2>1, <2>3, <2>5, HeldIs, HeldIsThen
    <3> QED
      BY <1>2, <1>3, <2>1, <2>2, <2>5, <3>1, Fewer
  <2> QED
    BY <2>1, <2>4, <2>5
<1>6. CASE SendPopNothing \/ SendCheckShutdown \/ SendBatchFull
  <2>1. UNCHANGED <<sendQueue, batch, wire>>
    BY <1>6 DEF SendPopNothing, SendCheckShutdown, SendBatchFull, sendQVars, linkVars
  <2>2. \A p \in 1..6 : Held'[p] \subseteq Held[p]
    BY <1>1, <2>1, HeldIs, HeldIsThen
  <2> QED
    BY <1>2, <1>3, <2>1, <2>2, Fewer
<1>7. ASSUME NEW front \in Seq(Job), wire' = wire \o front, InSequence(front),
             ToSet(front) \subseteq ToSet(batch), batch' = <<>>, UNCHANGED sendQueue
      PROVE  PipeOrdered'
  <2>1. \A a \in ToSet(wire), b \in ToSet(front) : MayPrecede(a, b)
    BY <1>2, <1>7, HeldIs DEF PlacesOrdered
  <2>2. InSequence(wire') /\ ToSet(wire') = ToSet(wire) \cup ToSet(front)
    BY <1>2, <1>7, <2>1, ConcatInSequence, ConcatSet
  <2>3. /\ Held'[1] \subseteq Held[1] \cup Held[2] /\ Held'[2] = {}
        /\ \A p \in 3..6 : Held'[p] = Held[p]
    BY <1>1, <1>4, <1>7, <2>2, HeldIs, HeldIsThen
  <2>4. PlacesOrdered'
    BY <1>2, <2>3, ToTheWire
  <2> QED
    BY <1>2, <1>3, <1>4, <1>7, <2>2, <2>4
<1>8. CASE SendAll
  BY <1>2, <1>7, <1>8 DEF SendAll, EndSend, sendQVars
<1>9. CASE SendAllFails
  <2>1. PICK sent \in 0..(Len(batch) - 1) : wire' = wire \o SubSeq(batch, 1, sent)
    BY <1>9 DEF SendAllFails
  <2> DEFINE front == SubSeq(batch, 1, sent)
  <2>2. Len(batch) \in Nat /\ DOMAIN batch = 1..Len(batch) /\ sent \in 0..Len(batch)
    BY <1>2, LenProperties
  <2>3. /\ front \in Seq(Job) /\ Len(front) = sent
        /\ \A i \in 1..sent : front[i] = batch[i]
        /\ ToSet(batch) = ToSet(front) \cup {batch[i] : i \in (sent + 1)..Len(batch)}
    BY <1>2, <2>2, SplitApart DEF Owned, NoneTwice
  <2>4. DOMAIN front = 1..sent
    BY <2>3, LenProperties
  <2> HIDE DEF front
  <2>5. \A i \in 1..sent : i \in DOMAIN batch
    BY <2>2
  <2>6. InSequence(front)
    BY <1>2, <2>3, <2>4, <2>5 DEF InSequence
  <2>7. batch' = <<>> /\ UNCHANGED sendQueue
    BY <1>9 DEF SendAllFails, EndSend, sendQVars
  <2>8. wire' = wire \o front
    BY <2>1 DEF front
  <2> QED
    BY <1>7, <2>3, <2>6, <2>7, <2>8
<1> QED
  BY <1>5, <1>6, <1>8, <1>9 DEF SendThread

LEMMA OtherOrdered ==
  ASSUME TypeOK, Owned, PipeOrdered, MainThread \/ Environment \/ UNCHANGED vars
  PROVE  PipeOrdered'
<1>1. UNCHANGED <<batch, wire>>
  BY MainFrame, EnvironmentFrame DEF senderVars, linkVars, vars
<1>2. \A p \in 1..6 : Held'[p] \subseteq Held[p]
  <2>1. \A p \in 1..6 : p = 3 \/ p = 5 \/ p \in {1, 2, 4, 6}
    OBVIOUS
  <2> QED
    BY <2>1, OtherMoves
<1>3. PlacesOrdered'
  BY <1>2, Fewer DEF PipeOrdered
<1>4. InSequence(<<>>)
  BY EmptySeq DEF InSequence
<1>5. \/ UNCHANGED <<regionQueue, sendQueue>>
      \/ regionQueue' = <<>> /\ sendQueue' = <<>>
  BY EnvironmentFrame DEF MainThread, WaitForCaptureOrSend, RequestStop,
     ShutRegionQueue, ShutSendQueue, JoinCapture, JoinEncode, JoinSend, JoinInput,
     Join, CloseTransport, DestroyQueues, regionVars, sendQVars, vars
<1> QED
  BY <1>1, <1>3, <1>4, <1>5 DEF PipeOrdered

LEMMA OrderedStep ==
  ASSUME OneWorker
  PROVE  TypeOK /\ Owned /\ PipeOrdered /\ PipelineStep => PipeOrdered'
BY CaptureOrdered, EncodeOrdered, SendOrdered, OtherOrdered DEF PipelineStep

(* With one encode worker, region updates go out in the order in which they *)
(* were captured, whatever full frames overtake them and whatever is        *)
(* dropped (sender_region_queue_push, sender_send_queue_push).              *)
THEOREM UpdatesKeepOrder ==
  ASSUME OneWorker
  PROVE  Spec => []UpdatesInOrder
<1>1. TypeOK /\ PipeOrdered => UpdatesInOrder
  <2> SUFFICES ASSUME TypeOK, PipeOrdered PROVE UpdatesInOrder
    OBVIOUS
  <2> QED
    BY DEF PipeOrdered, InSequence, MayPrecede, UpdatesInOrder
<1>2. TypeOK /\ Owned /\ PipeOrdered /\ PipelineStep => PipeOrdered'
  BY OrderedStep
<1> QED
  BY <1>1, <1>2, OrderedInit, OwnedAlways, NextSteps, PTL DEF Spec

(* With one encode worker, a full frame goes out ahead of every update      *)
(* captured after it: what the comment at sender.c:297 and the first push   *)
(* of main (sender.c:1258) aim at.  MCSender_overtaken shows that two       *)
(* workers break it.                                                        *)
THEOREM FullFramesKeepAhead ==
  ASSUME OneWorker
  PROVE  Spec => []FullFrameAhead
<1>1. TypeOK /\ PipeOrdered => FullFrameAhead
  <2> SUFFICES ASSUME TypeOK, PipeOrdered PROVE FullFrameAhead
    OBVIOUS
  <2> QED
    BY DEF PipeOrdered, InSequence, MayPrecede, FullFrameAhead
<1>2. TypeOK /\ Owned /\ PipeOrdered /\ PipelineStep => PipeOrdered'
  BY OrderedStep
<1> QED
  BY <1>1, <1>2, OrderedInit, OwnedAlways, NextSteps, PTL DEF Spec
=============================================================================
