------------------------- MODULE ScreenMirrorProofs -------------------------
(***************************************************************************)
(* Proofs about ScreenMirror, for one encode worker, one decode worker and *)
(* one resolution, and any screen, any number of captures, any window and  *)
(* any batch limit: no tile of the framebuffer goes back in time, and once *)
(* everything has settled the window shows the screen.                     *)
(***************************************************************************)
EXTENDS ScreenMirror, SenderPipelineProofs

\* The size of the screen never changes.
OneResolution == \A g, h \in Resolutions : g = h

\* The sender finds memory for every job, and its encoder never fails.
NoDrops == Faults \cap {"encode", "alloc"} = {}

-----------------------------------------------------------------------------
(* The sender: what it sends first, and what it sends at all.               *)

FirstFrame == FullFrame(Grid, 0)

\* Every job that exists was cut by the scan, or is the first frame.
JobsAreCut ==
  /\ FirstFrame \in Known
  /\ \A job \in Known :
       /\ job.cells \in CutCells
       /\ IsFull(job) => job = FirstFrame

\* main has closed the transport before it frees the queues.
ClosedInTime ==
  /\ mainPc \in {"joinInput", "destroy", "exit"} => link = "closed"
  /\ startupFailed /\ mainPc \in {"joinCapture", "joinEncode", "joinSend"}
       => link = "closed"

\* A job is dropped only when nothing can be sent any more.
DroppedAtTheEnd ==
  lost # {} => link \in {"failed", "closed"} /\ Gone(sendPc)

FullFirst == wire # <<>> => IsFull(wire[1])

LEMMA KnownIs ==
  /\ \A job : job \in Known <=> \E p \in 1..7 : job \in Held[p]
  /\ \A job : job \in Known' <=> \E p \in 1..7 : job \in Held'[p]
<1>1. /\ InFlight = Held[2] \cup Held[3] \cup Held[4] \cup Held[5] \cup Held[6]
      /\ InFlight' = Held'[2] \cup Held'[3] \cup Held'[4] \cup Held'[5] \cup Held'[6]
      /\ lost = Held[7] /\ lost' = Held'[7]
  BY InFlightIs
<1>2. ToSet(wire) = Held[1] /\ ToSet(wire') = Held'[1]
  BY HeldIs, HeldIsThen
<1>3. \A p \in 1..7 : p = 1 \/ p = 2 \/ p = 3 \/ p = 4 \/ p = 5 \/ p = 6 \/ p = 7
  OBVIOUS
<1>4. Known = Held[1] \cup Held[2] \cup Held[3] \cup Held[4] \cup Held[5]
                \cup Held[6] \cup Held[7]
  BY <1>1, <1>2 DEF Known
<1>5. Known' = Held'[1] \cup Held'[2] \cup Held'[3] \cup Held'[4] \cup Held'[5]
                 \cup Held'[6] \cup Held'[7]
  BY <1>1, <1>2 DEF Known
<1> QED
  BY <1>3, <1>4, <1>5

(* Jobs that change place stay known, and no other becomes known.           *)
LEMMA MovedKnown ==
  ASSUME NEW p \in 1..7, NEW q \in 1..7, p # q, NEW jobs, Moved(p, q, jobs)
  PROVE  Known' = Known
<1>1. \A job : (\E r \in 1..7 : job \in Held[r]) <=> (\E r \in 1..7 : job \in Held'[r])
  BY DEF Moved
<1> QED
  BY <1>1, KnownIs

LEMMA MovedApartKnown ==
  ASSUME NEW p \in 1..7, NEW q \in 1..7, NEW r \in 1..7, p # q, q # r, p # r,
         NEW some, NEW others, MovedApart(p, q, some, r, others)
  PROVE  Known' = Known
<1>1. \A job : (\E s \in 1..7 : job \in Held[s]) <=> (\E s \in 1..7 : job \in Held'[s])
  BY DEF MovedApart
<1> QED
  BY <1>1, KnownIs

LEMMA AddedKnown ==
  ASSUME NEW q \in 1..7, NEW jobs, Added(q, jobs)
  PROVE  Known' = Known \cup jobs
<1>1. \A job : (\E r \in 1..7 : job \in Held'[r])
                 <=> (\E r \in 1..7 : job \in Held[r]) \/ job \in jobs
  BY DEF Added
<1> QED
  BY <1>1, KnownIs

LEMMA SameKnown ==
  ASSUME UNCHANGED Held PROVE Known' = Known
BY KnownIs

\* The jobs that a capture cuts, now.
FreshJobs ==
  (UNION {RegionJobs(Regions[Grid][changed], captures + 1) :
            changed \in SUBSET Grid})
    \cup {FullFrame(grid, captures + 1) : grid \in Resolutions \ {Grid}}

(* No job appears but those of a new capture, and none is forgotten.        *)
LEMMA KnownSteps ==
  ASSUME TypeOK, Owned, PipelineStep
  PROVE  Known \subseteq Known' /\ Known' \subseteq Known \cup FreshJobs
<1>1. CASE CaptureThread
  <2>1. CASE UNCHANGED Held
    BY <2>1, SameKnown
  <2>2. ASSUME NEW job, Moved(6, 5, {job}) \/ Moved(6, 7, {job})
        PROVE  Known' = Known
    <3>1. 5 \in 1..7 /\ 6 \in 1..7 /\ 7 \in 1..7
      OBVIOUS
    <3> QED
      BY <2>2, <3>1, MovedKnown
  <2>3. ASSUME NEW jobs, Added(5, jobs) \/ Added(6, jobs) \/ Added(7, jobs)
        PROVE  Known' = Known \cup jobs
    <3>1. 5 \in 1..7 /\ 6 \in 1..7 /\ 7 \in 1..7
      OBVIOUS
    <3> QED
      BY <2>3, <3>1, AddedKnown
  <2>4. ASSUME NEW changed \in SUBSET Grid
        PROVE  RegionJobs(Regions[Grid][changed], captures + 1) \subseteq FreshJobs
    BY DEF FreshJobs
  <2>5. ASSUME NEW grid \in Resolutions, CaptureResize(grid)
        PROVE  {FullFrame(grid, captures + 1)} \subseteq FreshJobs
    <3>1. grid # Grid
      BY <2>5 DEF CaptureResize
    <3>2. grid \in Resolutions \ {Grid}
      BY <3>1
    <3> QED
      BY <3>2 DEF FreshJobs
  <2>6. CASE \E changed \in SUBSET Grid :
               \E q \in {6, 7} :
                 Added(q, RegionJobs(Regions[Grid][changed], captures + 1))
    BY <2>3, <2>4, <2>6
  <2>7. CASE \E grid \in Resolutions :
               CaptureResize(grid) /\ Added(5, {FullFrame(grid, captures + 1)})
    BY <2>3, <2>5, <2>7
  <2>8. \/ UNCHANGED Held
        \/ \E job \in Job : Moved(6, 5, {job}) \/ Moved(6, 7, {job})
        \/ \E changed \in SUBSET Grid :
             \E q \in {6, 7} :
               Added(q, RegionJobs(Regions[Grid][changed], captures + 1))
        \/ \E grid \in Resolutions :
             CaptureResize(grid) /\ Added(5, {FullFrame(grid, captures + 1)})
    BY <1>1, CaptureMoves
  <2> QED
    BY <2>1, <2>2, <2>6, <2>7, <2>8
<1>2. CASE \E w \in Workers : EncodeWorker(w)
  <2>1. 3 \in 1..7 /\ 4 \in 1..7 /\ 5 \in 1..7 /\ 7 \in 1..7
    OBVIOUS
  <2>2. ASSUME NEW jobs, Moved(5, 4, jobs) \/ Moved(4, 3, jobs) \/ Moved(4, 7, jobs)
        PROVE  Known' = Known
    BY <2>1, <2>2, MovedKnown
  <2> QED
    BY <1>2, <2>2, EncodeMoves, SameKnown
<1>3. CASE SendThread
  <2>1. 1 \in 1..7 /\ 2 \in 1..7 /\ 3 \in 1..7 /\ 7 \in 1..7
    OBVIOUS
  <2>2. ASSUME NEW jobs, Moved(3, 2, jobs) \/ Moved(3, 7, jobs) \/ Moved(2, 1, jobs)
        PROVE  Known' = Known
    BY <2>1, <2>2, MovedKnown
  <2>3. ASSUME NEW some, NEW others, MovedApart(2, 1, some, 7, others)
        PROVE  Known' = Known
    BY <2>1, <2>3, MovedApartKnown
  <2> QED
    BY <1>3, <2>2, <2>3, SendMoves, SameKnown
<1>4. CASE MainThread \/ Environment \/ UNCHANGED vars
  <2>1. CASE UNCHANGED Held
    BY <2>1, SameKnown
  <2>2. CASE /\ Held'[3] = {} /\ Held'[5] = {}
             /\ Held'[7] = Held[7] \cup Held[3] \cup Held[5]
             /\ \A p \in {1, 2, 4, 6} : Held'[p] = Held[p]
    <3>1. \A p \in 1..7 : p \in {1, 2, 4, 6} \/ p = 3 \/ p = 5 \/ p = 7
      OBVIOUS
    <3>2. \A job : (\E p \in 1..7 : job \in Held[p]) <=> (\E p \in 1..7 : job \in Held'[p])
      BY <2>2, <3>1
    <3> QED
      BY <3>2, KnownIs
  <2> QED
    BY <1>4, <2>1, <2>2, OtherMoves
<1> QED
  BY <1>1, <1>2, <1>3, <1>4 DEF PipelineStep

(* With one resolution the screen keeps its grid.                           *)
LEMMA OneGrid ==
  ASSUME OneResolution, TypeOK
  PROVE  Resolutions = {Grid}
<1>1. PICK grid \in Resolutions : previousFrame \in [grid -> 0..captures]
  BY DEF TypeOK, CaptureTypeOK
<1>2. Grid = grid
  BY <1>1 DEF Grid
<1> QED
  BY <1>1, <1>2 DEF OneResolution

LEMMA SameGrid ==
  ASSUME OneResolution, TypeOK, TypeOK'
  PROVE  Grid' = Grid
<1>1. Resolutions = {Grid}
  BY OneGrid
<1>2. PICK grid \in Resolutions : previousFrame' \in [grid -> 0..captures']
  BY DEF TypeOK, CaptureTypeOK
<1>3. Grid' = grid
  BY <1>2 DEF Grid
<1> QED
  BY <1>1, <1>2, <1>3

(* Every job was cut by the scan, or is the first frame.                    *)
LEMMA CutInit ==
  ASSUME OneResolution, TypeOK, Init
  PROVE  JobsAreCut
<1>1. PICK grid \in Resolutions : /\ previousFrame = [c \in grid |-> 0]
                                 /\ regionQueue = <<FullFrame(grid, 0)>>
  BY DEF Init
<1>2. Grid = grid /\ regionQueue = <<FirstFrame>>
  BY <1>1 DEF Grid, FirstFrame
<1>3. /\ wire = <<>> /\ batch = <<>> /\ sendQueue = <<>> /\ unpublished = <<>>
      /\ lost = {}
      /\ \A w \in Workers : encodePc[w] # "encode"
  BY DEF Init, InitialThreads
<1>4. ToSet(<<>>) = {}
  BY EmptySeq DEF ToSet
<1>5. Encoding = {} /\ Published = {}
  BY <1>3 DEF Encoding, Published
<1>6. ToSet(regionQueue) = {FirstFrame}
  BY <1>2 DEF ToSet
<1>7. Known = {FirstFrame}
  BY <1>3, <1>4, <1>5, <1>6 DEF Known, InFlight
<1>8. FirstFrame.cells \in CutCells
  BY <1>2 DEF FirstFrame, FullFrame, CutCells
<1> QED
  BY <1>7, <1>8 DEF JobsAreCut

LEMMA CutStep ==
  ASSUME OneResolution, TypeOK, TypeOK', Owned, JobsAreCut, PipelineStep
  PROVE  JobsAreCut'
<1>1. Grid' = Grid /\ Resolutions = {Grid}
  BY OneGrid, SameGrid
<1>2. FirstFrame' = FirstFrame
  BY <1>1 DEF FirstFrame, FullFrame
<1>3. Known \subseteq Known' /\ Known' \subseteq Known \cup FreshJobs
  BY KnownSteps
<1>4. ASSUME NEW job \in FreshJobs
      PROVE  job.cells \in CutCells /\ ~IsFull(job)
  <2>1. PICK changed \in SUBSET Grid :
          job \in RegionJobs(Regions[Grid][changed], captures + 1)
    BY <1>1, <1>4 DEF FreshJobs
  <2>2. PICK i \in DOMAIN Regions[Grid][changed] :
          job = UpdateRegion(Regions[Grid][changed][i], captures + 1)
    BY <2>1 DEF RegionJobs
  <2>3. job.cells = Regions[Grid][changed][i] /\ ~IsFull(job)
    BY <2>2 DEF UpdateRegion, IsFull
  <2>4. Regions[Grid][changed][i] \in ToSet(Regions[Grid][changed])
    BY DEF ToSet
  <2>5. Regions[Grid][changed][i] \in CutCells
    BY <1>1, <2>4 DEF CutCells
  <2> QED
    BY <2>3, <2>5
<1> QED
  BY <1>2, <1>3, <1>4 DEF JobsAreCut

(* A failed or closed connection is never open again.                       *)
LEMMA LinkStays ==
  ASSUME PipelineStep
  PROVE  /\ link = "closed" => link' = "closed"
         /\ link \in {"failed", "closed"} => link' \in {"failed", "closed"}
<1>1. CASE MainThread
  BY <1>1 DEF MainThread, WaitForCaptureOrSend, RequestStop, ShutRegionQueue,
     ShutSendQueue, JoinCapture, JoinEncode, JoinSend, JoinInput, Join,
     CloseTransport, DestroyQueues, linkVars
<1>2. CASE Environment
  BY <1>2 DEF Environment, InputRecvFails, InputReject, LinkDrops, PeerStalls,
     EndInput, LinkChange, linkVars
<1> QED
  BY <1>1, <1>2, CaptureFrame, EncodeFrame, SendFrame
     DEF PipelineStep, vars, linkVars

LEMMA ClosedInit == Init => ClosedInTime
BY DEF Init, ClosedInTime

LEMMA ClosedStep == TypeOK /\ ClosedInTime /\ PipelineStep => ClosedInTime'
<1> SUFFICES ASSUME TypeOK, ClosedInTime, PipelineStep PROVE ClosedInTime'
  OBVIOUS
<1>1. CASE MainThread
  <2>1. PICK step \in MainSteps :
          Advance(step) /\ (step = "close" => link' = "closed")
    BY <1>1 DEF MainThread, WaitForCaptureOrSend, RequestStop, ShutRegionQueue,
       ShutSendQueue, JoinCapture, JoinEncode, JoinSend, JoinInput, Join,
       CloseTransport, DestroyQueues, MainSteps
  <2>2. startupFailed' = startupFailed /\ startupFailed \in BOOLEAN
    BY <2>1 DEF Advance, TypeOK, MainTypeOK
  <2>3. link = "closed" => link' = "closed"
    BY LinkStays
  <2> QED
    BY <2>1, <2>2, <2>3, Orders DEF Advance, MainSteps, ClosedInTime
<1>2. CASE ~MainThread
  <2>1. UNCHANGED <<mainPc, startupFailed>>
    BY <1>2, CaptureFrame, EncodeFrame, SendFrame, EnvironmentFrame
       DEF PipelineStep, vars, mainVars
  <2> QED
    BY <2>1, LinkStays DEF ClosedInTime
<1> QED
  BY <1>1, <1>2

(* Without the faults that drop a job, one is dropped only when the         *)
(* connection is lost, or when main frees the queues.                       *)
LEMMA DroppedStep ==
  ASSUME NoDrops, TypeOK, JoinedIsGone, ClosedInTime, DroppedAtTheEnd, PipelineStep
  PROVE  DroppedAtTheEnd'
<1>1. "alloc" \notin Faults /\ "encode" \notin Faults
  BY DEF NoDrops
<1>2. lost # {} => link' \in {"failed", "closed"} /\ Gone(sendPc')
  BY LinkStays, GoneStable DEF DroppedAtTheEnd
<1>3. CASE SendAllFails
  BY <1>3 DEF SendAllFails, EndSend, DroppedAtTheEnd, Gone
<1>4. CASE DestroyQueues
  <2>1. mainPc = "destroy"
    BY <1>4 DEF DestroyQueues, Advance
  <2>2. UNCHANGED <<link, sendPc>>
    BY <1>4 DEF DestroyQueues, linkVars, senderVars
  <2>3. link = "closed" /\ Gone(sendPc)
    BY <2>1 DEF ClosedInTime, JoinedIsGone, SendJoined
  <2> QED
    BY <2>2, <2>3 DEF DroppedAtTheEnd
<1>5. CASE ~SendAllFails /\ ~DestroyQueues
  <2>1. CaptureThread => UNCHANGED lost
    BY <1>1
    DEF CaptureThread, CaptureProgress, CaptureGoesOn, CaptureSame, PublishRegion,
       DropRegion, CaptureStop, CaptureFail, EndCapture, CaptureChange, CaptureResize
  <2>2. ASSUME NEW w \in Workers, EncodeWorker(w) PROVE UNCHANGED lost
    BY <1>1, <2>2 DEF EncodeWorker, EncodePop, EncodePopNothing,
       EncodeCheckShutdown, EncodePush, EncodeDrop
  <2>3. SendThread => UNCHANGED lost
    BY <1>1, <1>5 DEF SendThread, SendPop, SendPopNothing, SendCheckShutdown,
       SendCoalesce, SendBatchFull, SendAll
  <2>4. MainThread => UNCHANGED lost
    BY <1>5 DEF MainThread, WaitForCaptureOrSend, RequestStop, ShutRegionQueue,
       ShutSendQueue, JoinCapture, JoinEncode, JoinSend, JoinInput, Join,
       CloseTransport
  <2>5. UNCHANGED lost
    BY <2>1, <2>2, <2>3, <2>4, EnvironmentFrame DEF PipelineStep, vars
  <2> QED
    BY <1>2, <2>5 DEF DroppedAtTheEnd
<1> QED
  BY <1>3, <1>4, <1>5

(* What comes first on the wire is the first frame, when nothing is dropped *)
(* before: every other job is behind it all along.                          *)
LEMMA FrameLeads ==
  ASSUME TypeOK, PipeOrdered, JobsAreCut, DroppedAtTheEnd, sendPc = "send", wire = <<>>
  PROVE  IsFull(batch[1])
<1>1. /\ batch \in Seq(Job) /\ batch # <<>>
      /\ 1 \in DOMAIN batch /\ DOMAIN batch = 1..Len(batch)
  BY LenProperties, EmptySeq DEF TypeOK, SendTypeOK
<1>2. batch[1] \in ToSet(batch) /\ batch[1].shot \in Nat
  <2>1. batch[1] \in Job
    BY <1>1, ElementOfSeq
  <2> QED
    BY <1>1, <2>1, SenderAssumption DEF ToSet, Job, Shots
<1>3. lost = {} /\ ToSet(wire) = {}
  BY EmptySeq DEF DroppedAtTheEnd, Gone, ToSet
<1>4. PICK p \in 1..7 : FirstFrame \in Held[p]
  BY KnownIs DEF JobsAreCut
<1>5. p \in 2..6
  BY <1>3, <1>4, HeldIs
<1>6. IsFull(FirstFrame) /\ FirstFrame.shot = 0
  BY DEF FirstFrame, FullFrame, IsFull
<1>7. MayPrecede(batch[1], FirstFrame) => IsFull(batch[1])
  BY <1>2, <1>6 DEF MayPrecede
<1>8. CASE p = 2
  <2>1. PICK i \in DOMAIN batch : batch[i] = FirstFrame
    BY <1>4, <1>8, HeldIs DEF ToSet
  <2>2. CASE i = 1
    BY <1>6, <2>1, <2>2
  <2>3. CASE i # 1
    BY <1>1, <1>7, <2>1, <2>3 DEF PipeOrdered, InSequence
  <2> QED
    BY <2>2, <2>3
<1>9. CASE p # 2
  BY <1>2, <1>4, <1>5, <1>7, <1>9, HeldIs DEF PipeOrdered, PlacesOrdered
<1> QED
  BY <1>8, <1>9

LEMMA FirstStep ==
  ASSUME TypeOK, Owned, PipeOrdered, JobsAreCut, DroppedAtTheEnd, FullFirst,
         PipelineStep
  PROVE  FullFirst'
<1>1. wire \in Seq(Job) /\ batch \in Seq(Job)
  BY DEF TypeOK, LinkTypeOK, SendTypeOK
<1>2. ASSUME NEW s \in Seq(Job), wire' = wire \o s, sendPc = "send",
             s # <<>> => s[1] = batch[1]
      PROVE  FullFirst'
  <2>1. CASE wire = <<>>
    <3>1. wire' = s
      BY <1>1, <1>2, <2>1, ConcatEmptySeq
    <3> QED
      BY <1>2, <2>1, <3>1, FrameLeads DEF FullFirst
  <2>2. CASE wire # <<>>
    <3>1. 1 \in 1..Len(wire)
      BY <1>1, <2>2, EmptySeq, LenProperties
    <3>2. wire'[1] = wire[1]
      BY <1>1, <1>2, <3>1, ConcatProperties
    <3> QED
      BY <2>2, <3>2 DEF FullFirst
  <2> QED
    BY <2>1, <2>2
<1>3. CASE SendAll
  BY <1>1, <1>2, <1>3 DEF SendAll, EndSend
<1>4. CASE SendAllFails
  <2>1. PICK sent \in 0..(Len(batch) - 1) : wire' = wire \o SubSeq(batch, 1, sent)
    BY <1>4 DEF SendAllFails
  <2> DEFINE front == SubSeq(batch, 1, sent)
  <2>2. Len(batch) \in Nat /\ sent \in 0..Len(batch)
    BY <1>1, LenProperties
  <2>3. /\ front \in Seq(Job) /\ Len(front) = sent
        /\ \A i \in 1..sent : front[i] = batch[i]
    BY <1>1, <2>2, SplitApart DEF Owned, NoneTwice
  <2>4. wire' = wire \o front
    BY <2>1
  <2> HIDE DEF front
  <2>5. front # <<>> => front[1] = batch[1]
    BY <2>3, EmptySeq, LenProperties
  <2> QED
    BY <1>2, <1>4, <2>3, <2>4, <2>5 DEF SendAllFails, EndSend
<1>5. CASE ~SendAll /\ ~SendAllFails
  <2>1. SendThread => UNCHANGED wire
    BY <1>5 DEF SendThread, SendPop, SendPopNothing, SendCheckShutdown,
       SendCoalesce, SendBatchFull, linkVars
  <2>2. UNCHANGED wire
    BY <2>1, CaptureFrame, EncodeFrame, MainFrame, EnvironmentFrame
       DEF PipelineStep, vars, linkVars
  <2> QED
    BY <2>2 DEF FullFirst
<1> QED
  BY <1>3, <1>4, <1>5

-----------------------------------------------------------------------------
(* The receiver, with what has been proved about it.                        *)

RP == INSTANCE ReceiverPipelineProofs WITH Messages <- Sent, MaxMessages <- 0

(* A message of the sender is one that the receiver expects.                *)
LEMMA SentIsReceivable == RP!ReceiverAssumption
<1>1. \A cells : R!IsRegion(cells) <=> RP!IsRegion(cells)
  BY DEF R!IsRegion, RP!IsRegion, R!IsFiniteSet, RP!IsFiniteSet
<1>2. R!FailureKinds = RP!FailureKinds
  BY DEF R!FailureKinds, RP!FailureKinds
<1>3. ASSUME NEW m \in Sent
      PROVE  m.type \in {"FULL_FRAME", "UPDATE_REGION"} /\ RP!IsRegion(m.cells)
  <2>1. m \in Job /\ m.cells \in CutCells
    BY DEF Sent
  <2>2. R!IsRegion(m.cells)
    BY <2>1, MirrorAssumption
  <2>3. m.type \in {"FULL_FRAME", "UPDATE_REGION"}
    BY <2>1 DEF Job, MessageTypes
  <2> QED
    BY <1>1, <2>2, <2>3
<1> QED
  BY <1>2, <1>3, MirrorAssumption DEF RP!ReceiverAssumption

LEMMA SameExtents ==
  /\ \A S : R!Width(S) = RP!Width(S) /\ R!Height(S) = RP!Height(S)
  /\ \A S : R!Left(S) = RP!Left(S) /\ R!Top(S) = RP!Top(S)
BY DEF R!Width, RP!Width, R!Height, RP!Height, R!Left, RP!Left, R!Top, RP!Top,
   R!Max, RP!Max, R!Min, RP!Min

LEMMA SameWindow ==
  /\ R!Client = RP!Client
  /\ R!WindowOpen <=> RP!WindowOpen
  /\ R!HasFrame <=> RP!HasFrame
  /\ R!NoJob = RP!NoJob
  /\ \A p : R!Picture(p) = RP!Picture(p)
<1>1. R!HasFrame <=> RP!HasFrame
  BY DEF R!HasFrame, RP!HasFrame, R!NoFrame, RP!NoFrame
<1>2. R!Client = RP!Client
  BY DEF R!Client, RP!Client
<1>3. R!WindowOpen <=> RP!WindowOpen
  BY DEF R!WindowOpen, RP!WindowOpen
<1>4. R!NoJob = RP!NoJob
  BY DEF R!NoJob, RP!NoJob
<1>5. \A p : R!Sources(p) = RP!Sources(p)
  BY SameExtents DEF R!Sources, RP!Sources
<1>6. \A p : R!Picture(p) = RP!Picture(p)
  BY <1>5 DEF R!Picture, RP!Picture
<1> QED
  BY <1>1, <1>2, <1>3, <1>4, <1>6

LEMMA SameOperators ==
  /\ \A n : R!DecodedFrame(n) = RP!DecodedFrame(n)
  /\ \A frame, n : R!Patched(frame, n) = RP!Patched(frame, n)
  /\ \A cells : R!RectOf(cells) = RP!RectOf(cells)
  /\ \A cells : R!FrameRect(cells) = RP!FrameRect(cells)
  /\ \A rect : R!InvalidPixels(rect) = RP!InvalidPixels(rect)
  /\ \A rect : R!PostFrameReady(rect) <=> RP!PostFrameReady(rect)
  /\ R!Close = RP!Close
  /\ \A q : R!CanPop(q) <=> RP!CanPop(q)
  /\ \A pc : R!Missing(pc) <=> RP!Missing(pc)
<1>1. \A n : R!DecodedFrame(n) = RP!DecodedFrame(n)
  BY SameExtents, SameWindow
  DEF R!DecodedFrame, RP!DecodedFrame
<1>2. \A frame, n : R!Patched(frame, n) = RP!Patched(frame, n)
  BY DEF R!Patched, RP!Patched
<1>3. \A cells : R!RectOf(cells) = RP!RectOf(cells)
  BY SameExtents, SameWindow
  DEF R!RectOf, RP!RectOf
<1>4. \A cells : R!FrameRect(cells) = RP!FrameRect(cells)
  BY SameExtents, SameWindow
  DEF R!FrameRect, RP!FrameRect
<1>5. \A rect : R!InvalidPixels(rect) = RP!InvalidPixels(rect)
  BY SameExtents, SameWindow
  DEF R!InvalidPixels, RP!InvalidPixels, R!ToClientX, RP!ToClientX,
      R!ToClientY, RP!ToClientY, R!All, RP!All
<1>6. R!Close = RP!Close /\ R!All = RP!All
  BY DEF R!Close, RP!Close, R!All, RP!All
<1>7. \A rect : R!PostFrameReady(rect) <=> RP!PostFrameReady(rect)
  BY SameWindow, <1>5, <1>6
  DEF R!PostFrameReady, RP!PostFrameReady
<1>8. \A q : R!CanPop(q) <=> RP!CanPop(q)
  BY DEF R!CanPop, RP!CanPop
<1>9. \A pc : R!Missing(pc) <=> RP!Missing(pc)
  BY DEF R!Missing, RP!Missing
<1> QED
  BY <1>1, <1>2, <1>3, <1>4, <1>5, <1>6, <1>7, <1>8, <1>9

(* The steps of the receiver are those that have been proved about.         *)
LEMMA SameIoSteps == R!IoThread => RP!IoThread
<1>1. R!IoOpen => RP!IoOpen
  BY SameWindow, SameOperators
  DEF R!IoOpen, RP!IoOpen, R!IoUnchanged, RP!IoUnchanged, R!queueVars,
      RP!queueVars, R!decodeVars, RP!decodeVars
<1>2. R!IoOpenFails => RP!IoOpenFails
  BY SameWindow, SameOperators
  DEF R!IoOpenFails, RP!IoOpenFails, R!IoUnchanged, RP!IoUnchanged,
      R!queueVars, RP!queueVars, R!decodeVars, RP!decodeVars
<1>3. R!IoCheckStop => RP!IoCheckStop
  BY SameWindow, SameOperators
  DEF R!IoCheckStop, RP!IoCheckStop, R!IoUnchanged, RP!IoUnchanged,
      R!queueVars, RP!queueVars, R!decodeVars, RP!decodeVars
<1>4. R!IoRecvFrame => RP!IoRecvFrame
  BY SameWindow, SameOperators
  DEF R!IoRecvFrame, RP!IoRecvFrame, R!Receivable, RP!Receivable,
      R!Synchronous, RP!Synchronous, R!IoUnchanged, RP!IoUnchanged,
      R!queueVars, RP!queueVars, R!decodeVars, RP!decodeVars
<1>5. R!IoRecvUpdate => RP!IoRecvUpdate
  BY SameWindow, SameOperators
  DEF R!IoRecvUpdate, RP!IoRecvUpdate, R!Receivable, RP!Receivable,
      R!Synchronous, RP!Synchronous, R!decodeVars, RP!decodeVars,
      R!windowVars, RP!windowVars
<1>6. R!IoRecvFails => RP!IoRecvFails
  BY SameWindow, SameOperators
  DEF R!IoRecvFails, RP!IoRecvFails, R!IoUnchanged, RP!IoUnchanged,
      R!queueVars, RP!queueVars, R!decodeVars, RP!decodeVars
<1>7. R!IoApply => RP!IoApply
  BY SameWindow, SameOperators
  DEF R!IoApply, RP!IoApply, R!IoUnchanged, RP!IoUnchanged, R!queueVars,
      RP!queueVars, R!decodeVars, RP!decodeVars
<1>8. R!IoDecodeFails => RP!IoDecodeFails
  BY SameWindow, SameOperators
  DEF R!IoDecodeFails, RP!IoDecodeFails, R!IoUnchanged, RP!IoUnchanged,
      R!queueVars, RP!queueVars, R!decodeVars, RP!decodeVars
<1>9. R!IoPost => RP!IoPost
  BY SameWindow, SameOperators
  DEF R!IoPost, RP!IoPost, R!IoUnchanged, RP!IoUnchanged, R!queueVars,
      RP!queueVars, R!decodeVars, RP!decodeVars
<1>10. R!IoShutdownQueue => RP!IoShutdownQueue
  BY SameWindow, SameOperators
  DEF R!IoShutdownQueue, RP!IoShutdownQueue, R!decodeVars, RP!decodeVars,
      R!windowVars, RP!windowVars
<1>11. R!IoPostClose => RP!IoPostClose
  BY SameWindow, SameOperators
  DEF R!IoPostClose, RP!IoPostClose, R!IoUnchanged, RP!IoUnchanged,
      R!queueVars, RP!queueVars, R!decodeVars, RP!decodeVars
<1> QED
  BY <1>1, <1>2, <1>3, <1>4, <1>5, <1>6, <1>7, <1>8, <1>9, <1>10, <1>11
  DEF R!IoThread, RP!IoThread

LEMMA SameDecodeSteps ==
  ASSUME NEW w \in Decoders, R!DecodeWorker(w) PROVE RP!DecodeWorker(w)
<1>1. R!DecodePop(w) => RP!DecodePop(w)
  BY SameWindow, SameOperators
  DEF R!DecodePop, RP!DecodePop, R!DecodeUnchanged, RP!DecodeUnchanged,
      R!ioVars, RP!ioVars
<1>2. R!DecodePopNothing(w) => RP!DecodePopNothing(w)
  BY SameWindow, SameOperators
  DEF R!DecodePopNothing, RP!DecodePopNothing, R!DecodeUnchanged,
      RP!DecodeUnchanged, R!ioVars, RP!ioVars
<1>3. R!DecodeCheckShutdown(w) => RP!DecodeCheckShutdown(w)
  BY SameWindow, SameOperators
  DEF R!DecodeCheckShutdown, RP!DecodeCheckShutdown, R!DecodeUnchanged,
      RP!DecodeUnchanged, R!ioVars, RP!ioVars
<1>4. R!DecodePatch(w) => RP!DecodePatch(w)
  BY SameWindow, SameOperators
  DEF R!DecodePatch, RP!DecodePatch, R!DecodeUnchanged, RP!DecodeUnchanged,
      R!ioVars, RP!ioVars
<1>5. R!DecodeFails(w) => RP!DecodeFails(w)
  BY SameWindow, SameOperators
  DEF R!DecodeFails, RP!DecodeFails, R!EndDecode, RP!EndDecode,
      R!DecodeUnchanged, RP!DecodeUnchanged, R!ioVars, RP!ioVars
<1>6. R!DecodePost(w) => RP!DecodePost(w)
  BY SameWindow, SameOperators
  DEF R!DecodePost, RP!DecodePost, R!EndDecode, RP!EndDecode,
      R!DecodeUnchanged, RP!DecodeUnchanged, R!ioVars, RP!ioVars
<1> QED
  BY <1>1, <1>2, <1>3, <1>4, <1>5, <1>6
  DEF R!DecodeWorker, RP!DecodeWorker

LEMMA SameUiSteps ==
  /\ R!UiThread => RP!UiThread
  /\ R!UiUserCloses => RP!UiUserCloses
<1>1. R!UiFrameReady => RP!UiFrameReady
  BY SameWindow, SameOperators
  DEF R!UiFrameReady, RP!UiFrameReady, R!queueVars, RP!queueVars,
      R!UiUnchanged, RP!UiUnchanged, R!decodeVars, RP!decodeVars
<1>2. /\ R!UiUpdateWindow => RP!UiUpdateWindow
      /\ R!UiPaint => RP!UiPaint
  BY SameWindow, SameOperators
  DEF R!UiUpdateWindow, RP!UiUpdateWindow, R!UiPaint, RP!UiPaint, R!Paint,
      RP!Paint, R!queueVars, RP!queueVars, R!UiUnchanged, RP!UiUnchanged,
      R!decodeVars, RP!decodeVars
<1>3. R!UiClose => RP!UiClose
  BY SameWindow, SameOperators
  DEF R!UiClose, RP!UiClose, R!Destroyed, RP!Destroyed, R!Blank, RP!Blank, R!queueVars,
      RP!queueVars, R!UiUnchanged, RP!UiUnchanged, R!decodeVars,
      RP!decodeVars
<1>4. R!UiAbort => RP!UiAbort
  BY SameWindow, SameOperators
  DEF R!UiAbort, RP!UiAbort, R!Destroyed, RP!Destroyed, R!Blank, RP!Blank, R!UiUnchanged,
      RP!UiUnchanged, R!decodeVars, RP!decodeVars
<1>5. R!UiJoinIo => RP!UiJoinIo
  BY SameWindow, SameOperators
  DEF R!UiJoinIo, RP!UiJoinIo, R!UiAdvance, RP!UiAdvance, R!windowVars,
      RP!windowVars, R!UiUnchanged, RP!UiUnchanged, R!decodeVars,
      RP!decodeVars
<1>6. R!UiJoinDecode => RP!UiJoinDecode
  BY SameWindow, SameOperators
  DEF R!UiJoinDecode, RP!UiJoinDecode, R!UiAdvance, RP!UiAdvance,
      R!windowVars, RP!windowVars, R!UiUnchanged, RP!UiUnchanged,
      R!decodeVars, RP!decodeVars
<1>7. R!UiDestroyQueue => RP!UiDestroyQueue
  BY SameWindow, SameOperators
  DEF R!UiDestroyQueue, RP!UiDestroyQueue, R!UiAdvance, RP!UiAdvance,
      R!windowVars, RP!windowVars, R!UiUnchanged, RP!UiUnchanged,
      R!decodeVars, RP!decodeVars
<1>8. R!UiUserCloses => RP!UiUserCloses
  BY SameWindow, SameOperators
  DEF R!UiUserCloses, RP!UiUserCloses, R!Destroyed, RP!Destroyed, R!Blank, RP!Blank,
      R!queueVars, RP!queueVars, R!UiUnchanged, RP!UiUnchanged, R!decodeVars,
      RP!decodeVars
<1> QED
  BY <1>1, <1>2, <1>3, <1>4, <1>5, <1>6, <1>7, <1>8
  DEF R!UiThread, RP!UiThread

LEMMA SameSteps ==
  /\ R!ReceiverInit => RP!ReceiverInit
  /\ R!ReceiverStep => RP!ReceiverStep
<1>1. R!ReceiverInit => RP!ReceiverInit
  BY SameWindow
  DEF R!ReceiverInit, RP!ReceiverInit, R!NoFrame, RP!NoFrame, R!Blank, RP!Blank
<1>2. R!ReceiverStep => RP!ReceiverStep
  BY SameIoSteps, SameDecodeSteps, SameUiSteps DEF R!ReceiverStep, RP!ReceiverStep
<1> QED
  BY <1>1, <1>2

-----------------------------------------------------------------------------
(* The steps of a session, as the two programs see them.                    *)

\* The receiver stands still but for its end of the connection.
ReceiverStays ==
  /\ UNCHANGED <<received, ioPc, ioNumber, decodeQueue, decodeShutdown>>
  /\ UNCHANGED <<decodePc, decodeJob, framebuffer, stopEvent, uiPc>>
  /\ UNCHANGED <<posted, invalid, shown, unseen>>
  /\ receiverLink' \in {receiverLink, "failed"}

LEMMA MirrorSteps ==
  ASSUME [MirrorNext]_mirrorVars
  PROVE  /\ PipelineStep
         /\ \/ RP!ReceiverStep /\ UNCHANGED wire
            \/ ReceiverStays
<1>1. CASE SenderStep
  BY <1>1, NextSteps DEF SenderStep, receiverOnly, ReceiverStays
<1>2. CASE ReceiverStep
  <2>1. RP!ReceiverStep /\ UNCHANGED senderOnly
    BY <1>2, SameSteps DEF ReceiverStep
  <2>2. UNCHANGED wire
    BY <2>1, SentIsReceivable, RP!WireStays
  <2>3. UNCHANGED vars
    BY <2>1, <2>2
    DEF senderOnly, vars, captureVars, regionVars, encodeVars, sendQVars, senderVars,
        linkVars, mainVars
  <2> QED
    BY <2>1, <2>2, <2>3 DEF PipelineStep
<1>3. CASE PeerClosed
  <2>1. CASE LinkDrops /\ UNCHANGED receiverOnly
    BY <2>1 DEF PipelineStep, Environment, receiverOnly, ReceiverStays
  <2>2. CASE UNCHANGED vars /\ ReceiverStays
    BY <2>2 DEF PipelineStep
  <2>3. \/ LinkDrops /\ UNCHANGED receiverOnly
        \/ UNCHANGED vars /\ ReceiverStays
    BY <1>3
    DEF PeerClosed, LinkDrops, LinkChange, senderOnly, ReceiverStays, vars,
        captureVars, regionVars, encodeVars, sendQVars, senderVars, linkVars, mainVars
  <2> QED
    BY <2>1, <2>2, <2>3
<1>4. CASE UNCHANGED mirrorVars
  BY <1>4
  DEF mirrorVars, senderOnly, receiverOnly, ReceiverStays, PipelineStep, vars,
      captureVars, regionVars, encodeVars, sendQVars, senderVars, linkVars, mainVars
<1> QED
  BY <1>1, <1>2, <1>3, <1>4 DEF MirrorNext

(* The sender only appends to the wire.                                     *)
LEMMA WireAppended ==
  ASSUME TypeOK, Owned, PipelineStep
  PROVE  \E sent \in Seq(Job) : wire' = wire \o sent
<1>1. wire \in Seq(Job) /\ batch \in Seq(Job)
  BY DEF TypeOK, LinkTypeOK, SendTypeOK
<1>2. CASE SendThread
  <2>1. CASE UNCHANGED wire
    BY <1>1, <2>1, ConcatEmptySeq, EmptySeq
  <2>2. CASE SendAll
    BY <1>1, <2>2 DEF SendAll
  <2>3. CASE \E sent \in 0..(Len(batch) - 1) :
               LET front == SubSeq(batch, 1, sent)
               IN  wire' = wire \o front /\ front \in Seq(Job)
    BY <2>3
  <2> QED
    BY <1>2, <2>1, <2>2, <2>3, SendMoves
<1>3. CASE ~SendThread
  <2>1. UNCHANGED wire
    BY <1>3, CaptureFrame, EncodeFrame, MainFrame, EnvironmentFrame
       DEF PipelineStep, vars, linkVars
  <2> QED
    BY <1>1, <2>1, ConcatEmptySeq, EmptySeq
<1> QED
  BY <1>2, <1>3

LEMMA SentIs ==
  ASSUME JobsAreCut, NEW queue \in Seq(Job), ToSet(queue) \subseteq Known
  PROVE  queue \in Seq(Sent)
<1>1. /\ Len(queue) \in Nat /\ DOMAIN queue = 1..Len(queue)
      /\ \A i \in 1..Len(queue) : queue[i] \in Job
  BY LenProperties, ElementOfSeq
<1>2. ASSUME NEW i \in 1..Len(queue)
      PROVE  queue[i] \in Sent
  <2>1. queue[i] \in Known
    BY <1>1 DEF ToSet
  <2> QED
    BY <1>1, <2>1 DEF JobsAreCut, Sent
<1> QED
  BY <1>1, <1>2, IsASeq

-----------------------------------------------------------------------------
(* No tile goes back in time.                                               *)

SenderInv == TypeOK /\ Owned /\ PipeOrdered /\ JobsAreCut

OrderedInv == SenderInv /\ RP!ReceiverInv /\ RP!AppliesInOrder

LEMMA SenderInvInit ==
  ASSUME OneResolution
  PROVE  Init => SenderInv
BY TypeInit, OwnedInit, OrderedInit, CutInit DEF SenderInv

LEMMA SenderInvStep ==
  ASSUME OneWorker, OneResolution, SenderInv, PipelineStep
  PROVE  SenderInv'
<1>1. TypeOK'
  BY TypeStep DEF SenderInv
<1>2. Owned' /\ PipeOrdered' /\ JobsAreCut'
  BY <1>1, OwnedStep, OrderedStep, CutStep DEF SenderInv
<1> QED
  BY <1>1, <1>2 DEF SenderInv

(* What follows on the wire: only the first message can be a frame, and no  *)
(* message shows an older screen than one before it.                        *)
LEMMA AlongTheWire ==
  ASSUME SenderInv
  PROVE  /\ wire \in Seq(Sent)
         /\ \A n \in 1..Len(wire) : IsFull(wire[n]) => n = 1 /\ wire[n] = FirstFrame
         /\ \A i, j \in 1..Len(wire) : i <= j => wire[i].shot <= wire[j].shot
<1>1. wire \in Seq(Job) /\ Len(wire) \in Nat /\ DOMAIN wire = 1..Len(wire)
  BY LenProperties DEF SenderInv, TypeOK, LinkTypeOK
<1>2. \A i \in 1..Len(wire) : wire[i].shot \in Nat /\ wire[i] \in Known
  <2>1. \A i \in 1..Len(wire) : wire[i] \in Job
    BY <1>1, ElementOfSeq
  <2>2. \A i \in 1..Len(wire) : wire[i] \in Known
    BY <1>1 DEF ToSet, Known
  <2> QED
    BY <2>1, <2>2, SenderAssumption DEF Job, Shots
<1>3. wire \in Seq(Sent)
  BY <1>1, SentIs DEF SenderInv, Known
<1>4. ASSUME NEW i \in 1..Len(wire), NEW j \in 1..Len(wire), i < j
      PROVE  MayPrecede(wire[i], wire[j]) /\ wire[i] # wire[j]
  BY <1>1, <1>4 DEF SenderInv, PipeOrdered, InSequence, Owned, NoneTwice, Apart
<1>5. \A n \in 1..Len(wire) : IsFull(wire[n]) => wire[n] = FirstFrame
  BY <1>2 DEF SenderInv, JobsAreCut
<1>6. FirstFrame.shot = 0 /\ IsFull(FirstFrame)
  BY DEF FirstFrame, FullFrame, IsFull
<1>7. ASSUME NEW n \in 1..Len(wire), IsFull(wire[n]), n # 1
      PROVE  FALSE
  <2>1. 1 \in 1..Len(wire) /\ 1 < n
    BY <1>1, <1>7
  <2>2. IsFull(wire[1])
    <3>1. ~ (wire[1].shot < 0)
      BY <1>2, <2>1
    <3> QED
      BY <1>4, <1>5, <1>6, <1>7, <2>1, <3>1 DEF MayPrecede
  <2> QED
    BY <1>4, <1>5, <1>7, <2>1, <2>2
<1>8. ASSUME NEW i \in 1..Len(wire), NEW j \in 1..Len(wire), i <= j
      PROVE  wire[i].shot <= wire[j].shot
  <2>1. wire[i].shot \in Nat /\ wire[j].shot \in Nat
    BY <1>2
  <2>2. CASE i = j
    BY <2>1, <2>2
  <2>3. CASE IsFull(wire[i])
    BY <1>5, <1>6, <2>1, <2>3
  <2>4. CASE i # j /\ ~IsFull(wire[i])
    <3>1. i < j
      BY <1>8, <2>4
    <3> QED
      BY <1>4, <2>1, <2>4, <3>1 DEF MayPrecede
  <2> QED
    BY <2>2, <2>3, <2>4
<1> QED
  BY <1>3, <1>5, <1>7, <1>8

LEMMA FrameComesFirst == SenderInv => RP!FrameFirst
BY AlongTheWire DEF RP!FrameFirst, IsFull

LEMMA WireIsSent == SenderInv => wire \in Seq(Sent)
BY AlongTheWire

(* What the sender does is what the receiver expects of a sender.           *)
LEMMA SenderActsWell ==
  ASSUME SenderInv, SenderInv', PipelineStep, RP!ReceiverInv, ReceiverStays
  PROVE  RP!SenderActs
<1>0. (wire \in Seq(Sent))'
  BY WireIsSent, PTL
<1>1. PICK sent \in Seq(Job) : wire' = wire \o sent
  BY WireAppended DEF SenderInv
<1>2. sent \in Seq(Sent)
  <2>1. /\ wire \in Seq(Job) /\ Len(wire) \in Nat /\ Len(sent) \in Nat
        /\ wire' \in Seq(Job) /\ Len(wire') = Len(wire) + Len(sent)
        /\ \A i \in 1..Len(sent) : wire'[Len(wire) + i] = sent[i]
    BY <1>1, ConcatProperties, LenProperties DEF SenderInv, TypeOK, LinkTypeOK
  <2>2. \A i \in 1..Len(sent) : sent[i] \in Sent
    <3>1. \A n \in 1..Len(wire') : wire'[n] \in Sent
      BY <1>0, ElementOfSeq
    <3>2. \A i \in 1..Len(sent) : Len(wire) + i \in 1..Len(wire')
      BY <2>1
    <3> QED
      BY <2>1, <3>1, <3>2
  <2> QED
    BY <2>1, <2>2, LenProperties, IsASeq
<1>3. receiverLink' \in {"none", "open", "failed", "closed"}
  BY DEF ReceiverStays, RP!ReceiverInv, RP!ReceiverTypeOK
<1> QED
  BY <1>1, <1>2, <1>3
  DEF RP!SenderActs, RP!PeerUnchanged, RP!queueVars, RP!decodeVars, RP!windowVars,
      ReceiverStays

LEMMA OrderedInvInit ==
  ASSUME OneResolution
  PROVE  MirrorInit => OrderedInv
<1> SUFFICES ASSUME MirrorInit PROVE OrderedInv
  OBVIOUS
<1>1. SenderInv
  BY SenderInvInit DEF MirrorInit
<1>2. RP!ReceiverInit
  BY SameSteps DEF MirrorInit
<1>3. RP!ReceiverInv
  BY <1>2, SentIsReceivable, RP!InitInv
<1>4. RP!AppliesInOrder
  BY <1>2, SentIsReceivable, RP!OrderInit
<1> QED
  BY <1>1, <1>3, <1>4 DEF OrderedInv

LEMMA OrderedInvStep ==
  ASSUME OneWorker, OneResolution, RP!OneDecoder, OrderedInv, [MirrorNext]_mirrorVars
  PROVE  OrderedInv'
<1>1. /\ PipelineStep
      /\ RP!ReceiverStep \/ ReceiverStays
  BY MirrorSteps
<1>2. SenderInv /\ SenderInv' /\ RP!ReceiverInv /\ RP!AppliesInOrder
  BY <1>1, SenderInvStep DEF OrderedInv
<1>3. CASE RP!ReceiverStep
  <2>1. RP!ReceiverInv'
    BY <1>2, <1>3, SentIsReceivable, RP!StepInv DEF RP!ReceiverNext
  <2>2. RP!AppliesInOrder'
    BY <1>2, <1>3, <2>1, FrameComesFirst, SentIsReceivable, RP!AppliesStep
  <2> QED
    BY <1>2, <2>1, <2>2 DEF OrderedInv
<1>4. CASE ReceiverStays
  <2>1. RP!SenderActs
    BY <1>1, <1>2, <1>4, SenderActsWell
  <2>2. RP!ReceiverInv'
    BY <1>2, <2>1, SentIsReceivable, RP!SenderKeepsInv
  <2>3. RP!AppliesInOrder'
    BY <1>2, <2>1, SentIsReceivable, RP!SenderKeepsOrder
  <2> QED
    BY <1>2, <2>2, <2>3 DEF OrderedInv
<1> QED
  BY <1>1, <1>3, <1>4

(* A tile of the framebuffer comes from a message at least as new as before.*)
LEMMA NoTileGoesBackStep ==
  ASSUME OneWorker, OneResolution, RP!OneDecoder, OrderedInv, [MirrorNext]_mirrorVars,
         NEW t \in DOMAIN framebuffer \cap DOMAIN framebuffer'
  PROVE  wire'[framebuffer[t][2]].shot <= wire'[framebuffer'[t][2]].shot
<1>1. /\ PipelineStep
      /\ \/ RP!ReceiverStep /\ UNCHANGED wire
         \/ ReceiverStays
  BY MirrorSteps
<1>2. SenderInv /\ SenderInv' /\ RP!ReceiverInv /\ RP!AppliesInOrder
  BY <1>1, SenderInvStep DEF OrderedInv
<1> DEFINE older == framebuffer[t][2]
           newer == framebuffer'[t][2]
<1>3. /\ Len(wire) \in Nat
      /\ \A i, j \in 1..Len(wire) : i <= j => wire[i].shot <= wire[j].shot
  BY <1>2, AlongTheWire, LenProperties
<1>4. received \in Nat /\ received <= Len(wire)
  BY <1>2, <1>3 DEF RP!ReceiverInv, RP!ReceiverTypeOK
<1>5. CASE RP!ReceiverStep /\ UNCHANGED wire
  <2>1. /\ older \in RP!Numbers
        /\ newer = older \/ (newer \in RP!Numbers /\ older < newer)
    BY <1>2, <1>5, SentIsReceivable, RP!NewerOnly
  <2>2. older \in 1..Len(wire) /\ newer \in 1..Len(wire) /\ older <= newer
    BY <1>3, <1>4, <2>1 DEF RP!Numbers
  <2> QED
    BY <1>3, <1>5, <2>2
<1>6. CASE ReceiverStays
  <2>1. newer = older
    BY <1>6 DEF ReceiverStays
  <2>2. older \in RP!Numbers
    BY <1>2, SentIsReceivable, RP!PendingRead
  <2>3. older \in 1..Len(wire)
    BY <1>3, <1>4, <2>2 DEF RP!Numbers
  <2>4. wire'[older].shot \in Nat
    <3>1. Len(wire) \in Nat /\ Len(wire') \in Nat /\ Len(wire) <= Len(wire')
      <4>1. PICK sent \in Seq(Job) : wire' = wire \o sent
        BY <1>1, <1>2, WireAppended DEF SenderInv
      <4> QED
        BY <4>1, ConcatProperties, LenProperties
        DEF SenderInv, TypeOK, LinkTypeOK
    <3>2. wire' \in Seq(Job) /\ older \in 1..Len(wire')
      BY <1>2, <2>3, <3>1 DEF SenderInv, TypeOK, LinkTypeOK
    <3>3. wire'[older] \in Job
      BY <3>2, ElementOfSeq
    <3> QED
      BY <3>3, SenderAssumption DEF Job, Shots
  <2> QED
    BY <2>1, <2>4
<1> QED
  BY <1>1, <1>5, <1>6

(* With one encode worker, one decode worker and one resolution, no tile of *)
(* the framebuffer ever goes back to an older capture, whatever is lost or  *)
(* fails.  MCMirror_decoders shows that two decode workers break it.        *)
THEOREM TilesNeverGoBack ==
  ASSUME OneWorker, RP!OneDecoder, OneResolution
  PROVE  MirrorSpec => NoTileGoesBack
<1>1. MirrorInit => OrderedInv
  BY OrderedInvInit
<1>2. OrderedInv /\ [MirrorNext]_mirrorVars => OrderedInv'
  BY OrderedInvStep
<1>3. OrderedInv /\ [MirrorNext]_mirrorVars =>
        [\A t \in DOMAIN framebuffer \cap DOMAIN framebuffer' :
           wire'[framebuffer[t][2]].shot <= wire'[framebuffer'[t][2]].shot]_mirrorVars
  BY NoTileGoesBackStep
<1> QED
  BY <1>1, <1>2, <1>3, PTL DEF MirrorSpec, NoTileGoesBack

-----------------------------------------------------------------------------
(* Once everything has settled, the window shows the screen.                *)

\* The receiver finds memory for every message, and its decoder never fails.
NothingForgotten == Failures \cap {"alloc", "decode"} = {}

MirrorInv ==
  /\ OrderedInv
  /\ NothingVanishes
  /\ JoinedIsGone
  /\ ClosedInTime
  /\ DroppedAtTheEnd
  /\ FullFirst
  /\ RP!Applied

(* The first message is the whole screen, and no other shows more.          *)
LEMMA WholeScreenFirst ==
  ASSUME OneResolution, SenderInv, FullFirst
  PROVE  /\ RP!WholeFirst
         /\ wire # <<>> => wire[1].cells = Grid
<1>1. Resolutions = {Grid} /\ Cells = Grid
  BY OneGrid DEF SenderInv, Cells
<1>2. wire \in Seq(Job) /\ Len(wire) \in Nat
  BY LenProperties DEF SenderInv, TypeOK, LinkTypeOK
<1>3. \A n \in 1..Len(wire) : wire[n].cells \subseteq Grid
  <2>1. \A n \in 1..Len(wire) : wire[n] \in Job
    BY <1>2, ElementOfSeq
  <2> QED
    BY <1>1, <2>1 DEF Job
<1>4. ASSUME wire # <<>>
      PROVE  wire[1].type = "FULL_FRAME" /\ wire[1].cells = Grid
  <2>1. 1 \in 1..Len(wire) /\ IsFull(wire[1])
    BY <1>2, <1>4, EmptySeq DEF FullFirst
  <2>2. wire[1] = FirstFrame
    BY <2>1, AlongTheWire
  <2> QED
    BY <2>2 DEF FirstFrame, FullFrame
<1>5. <<0, 0>> \in Grid
  BY <1>1, MirrorAssumption
<1> QED
  BY <1>3, <1>4, <1>5 DEF RP!WholeFirst

LEMMA MirrorInvInit ==
  ASSUME OneResolution
  PROVE  MirrorInit => MirrorInv
<1> SUFFICES ASSUME MirrorInit PROVE MirrorInv
  OBVIOUS
<1>1. Init /\ RP!ReceiverInit
  BY SameSteps DEF MirrorInit
<1>2. OrderedInv
  BY OrderedInvInit
<1>3. NothingVanishes /\ JoinedIsGone /\ ClosedInTime
  BY <1>1, VanishInit, JoinInit, ClosedInit
<1>4. DroppedAtTheEnd /\ FullFirst
  BY <1>1 DEF Init, DroppedAtTheEnd, FullFirst
<1>5. RP!Applied
  BY <1>1, SentIsReceivable, RP!OrderInit
<1> QED
  BY <1>2, <1>3, <1>4, <1>5 DEF MirrorInv

LEMMA MirrorInvStep ==
  ASSUME OneWorker, OneResolution, RP!OneDecoder, NoDrops, NothingForgotten,
         MirrorInv, [MirrorNext]_mirrorVars
  PROVE  MirrorInv'
<1>1. /\ PipelineStep
      /\ RP!ReceiverStep \/ ReceiverStays
  BY MirrorSteps
<1>2. OrderedInv /\ OrderedInv'
  BY OrderedInvStep DEF MirrorInv
<1>3. /\ SenderInv /\ RP!ReceiverInv /\ RP!AppliesInOrder
      /\ SenderInv' /\ RP!ReceiverInv'
  BY <1>2 DEF OrderedInv
<1>4. TypeOK /\ Owned /\ PipeOrdered /\ JobsAreCut
  BY <1>3 DEF SenderInv
<1>5. NothingVanishes' /\ JoinedIsGone' /\ ClosedInTime'
  BY <1>1, <1>4, VanishStep, JoinStep, ClosedStep DEF MirrorInv
<1>6. DroppedAtTheEnd' /\ FullFirst'
  BY <1>1, <1>4, DroppedStep, FirstStep DEF MirrorInv
<1>7. RP!Applied'
  <2>1. CASE RP!ReceiverStep
    <3>1. RP!FrameFirst /\ RP!WholeFirst
      BY <1>3, FrameComesFirst, WholeScreenFirst DEF MirrorInv
    <3> QED
      BY <1>3, <2>1, <3>1, SentIsReceivable, RP!AppliedStep DEF MirrorInv, NothingForgotten
  <2>2. CASE ReceiverStays
    <3>1. RP!SenderActs
      BY <1>1, <1>3, <2>2, SenderActsWell
    <3> QED
      BY <1>3, <3>1, SentIsReceivable, RP!SenderKeepsOrder DEF MirrorInv
  <2> QED
    BY <1>1, <2>1, <2>2
<1> QED
  BY <1>2, <1>5, <1>6, <1>7 DEF MirrorInv

(* What settles shows: the newest job of every tile has been sent, read and *)
(* applied, and what the window was drawn from is the framebuffer.          *)
LEMMA SettledMatches ==
  ASSUME OneResolution, MirrorInv
  PROVE  SettledDisplayMatches
<1> SUFFICES ASSUME Settled, R!WindowOpen
             PROVE  /\ FramebufferMatches
                    /\ \A p \in R!Client \ unseen : shown[p] = R!Picture(p)
  BY DEF SettledDisplayMatches
<1>1. SenderInv /\ RP!ReceiverInv
  BY DEF MirrorInv, OrderedInv
<1>2. /\ wire \in Seq(Job) /\ Len(wire) \in Nat /\ DOMAIN wire = 1..Len(wire)
      /\ \A i, j \in 1..Len(wire) : i <= j => wire[i].shot <= wire[j].shot
  BY <1>1, AlongTheWire, LenProperties DEF SenderInv, TypeOK, LinkTypeOK
<1>3. /\ received = Len(wire) /\ ioPc \in {"check", "recv"} /\ decodeQueue = <<>>
      /\ posted = <<>> /\ invalid = {} /\ link = "open" /\ InFlight = {}
      /\ \A w \in Decoders : decodeJob[w] = RP!NoJob
  BY SameWindow DEF Settled, ReceiverIdle
<1>4. \A w \in Decoders : decodePc[w] \notin {"decode", "post"}
  BY <1>1, <1>3 DEF RP!ReceiverInv, RP!ReceiverTypeOK
<1>5. lost = {}
  BY <1>3 DEF MirrorInv, DroppedAtTheEnd
<1>6. \A c \in Grid : \E n \in 1..Len(wire) :
        c \in wire[n].cells /\ wire[n].shot = previousFrame[c]
  BY <1>2, <1>3, <1>5 DEF MirrorInv, NothingVanishes, ToSet
<1>7. wire # <<>> /\ Len(wire) >= 1
  <2>1. Grid # {}
    BY <1>1, OneGrid, SenderAssumption DEF SenderInv
  <2>2. Len(wire) >= 1
    BY <1>2, <1>6, <2>1
  <2> QED
    BY <2>2, EmptySeq
<1>8. RP!HasFrame /\ uiPc # "exit"
  <2>1. RP!HasFrame
    BY <1>3, <1>7 DEF MirrorInv, RP!Applied
  <2> QED
    BY <2>1, SameWindow DEF RP!WindowOpen
<1>9. ToSet(<<>>) = {}
  BY EmptySeq DEF ToSet
<1>10. RP!Pending = {}
  BY <1>3, <1>4, <1>9 DEF RP!Pending, RP!Decoding, RP!ToSet, ToSet
<1>11. /\ DOMAIN framebuffer = Grid
       /\ \A t \in DOMAIN framebuffer : framebuffer[t][1] = t
       /\ \A n \in 1..Len(wire) : \A t \in wire[n].cells : n <= framebuffer[t][2]
  BY <1>1, <1>3, <1>7, <1>8, <1>10, WholeScreenFirst DEF MirrorInv, RP!Applied, RP!Numbers
<1>12. \A t \in DOMAIN framebuffer : framebuffer[t][2] \in 1..Len(wire)
  BY <1>1, <1>3, SentIsReceivable, RP!PendingRead DEF RP!Numbers
<1>13. FramebufferMatches
  <2>1. ASSUME NEW t \in DOMAIN framebuffer
        PROVE  wire[framebuffer[t][2]].shot >= previousFrame[t]
    <3>1. PICK n \in 1..Len(wire) : t \in wire[n].cells /\ wire[n].shot = previousFrame[t]
      BY <1>6, <1>11
    <3>2. wire[n].shot <= wire[framebuffer[t][2]].shot
      BY <1>2, <1>11, <1>12, <3>1
    <3> QED
      BY <3>1, <3>2
  <2> QED
    BY <1>11, <2>1 DEF FramebufferMatches, Grid
<1>14. RP!Notifications = {}
  BY <1>3, <1>4, <1>9 DEF RP!Notifications, RP!ToSet, ToSet
<1>15. \A p \in RP!Client \ unseen : shown[p] = RP!Picture(p)
  BY <1>1, <1>3, <1>8, <1>14, SameWindow DEF RP!ReceiverInv, RP!NoLostInvalidation
<1> QED
  BY <1>13, <1>15, SameWindow

(* Acceptance criterion 5 of requirements.md: with one encode worker, one   *)
(* decode worker and one resolution, and no rectangle dropped for a lack of *)
(* memory or a failing codec, what the window shows once everything has     *)
(* settled is the screen as it was last captured, whatever happens to the   *)
(* connection and to the threads, and but for the pixels whose notification *)
(* or painting was lost.                                                    *)
THEOREM DisplaySettles ==
  ASSUME OneWorker, RP!OneDecoder, OneResolution, NoDrops, NothingForgotten
  PROVE  MirrorSpec => []SettledDisplayMatches
<1>1. MirrorInit => MirrorInv
  BY MirrorInvInit
<1>2. MirrorInv /\ [MirrorNext]_mirrorVars => MirrorInv'
  BY MirrorInvStep
<1>3. MirrorInv => SettledDisplayMatches
  BY SettledMatches
<1> QED
  BY <1>1, <1>2, <1>3, PTL DEF MirrorSpec
=============================================================================
