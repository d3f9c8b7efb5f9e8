--------------------------- MODULE SenderPipeline ---------------------------
(***************************************************************************)
(* The sender of src/src/sender.c from the captured screen to the bytes    *)
(* handed to the transport: the capture thread, the pool of encode         *)
(* workers, the send thread, the two job queues between them, and the main *)
(* thread that starts and stops everything.                                *)
(*                                                                         *)
(* The screen is a grid of tiles, a set of cells.  A resolution is its     *)
(* grid.  The pixels of a tile are abstracted to the number of the capture *)
(* in which they last changed, so previousFrame maps every cell to the     *)
(* capture that the sender last compared the screen with.                  *)
(*                                                                         *)
(* A job and the message made of it are the same record: the rectangle     *)
(* (the set of its cells), and the capture its pixels were copied from.    *)
(***************************************************************************)
EXTENDS Naturals, FiniteSets, JobQueue, SequencesExt

CONSTANTS
  Workers,       \* the encode workers, one per processor
  Resolutions,   \* the grids the captured screen may have
  Regions,       \* Regions[grid][dirty]: the rectangles the dirty-tile scan cuts
  MaxCaptures,   \* bound of the model: changes of the screen that are captured
  Faults,        \* the environment failures of this instance
  BatchMax,      \* SENDER_SEND_BATCH_MAX_BYTES
  MessageSize    \* size in bytes of an encoded message, by type

MessageTypes == {"FULL_FRAME", "UPDATE_REGION"}

\* "capture": ss_capture_primary_screen fails      "encode": the encoder fails
\* "alloc": a malloc, calloc or realloc fails      "spawn": CreateThread fails
\* "peer": the connection fails or the peer leaves "stall": the peer stops reading
FaultKinds == {"capture", "encode", "alloc", "spawn", "peer", "stall"}

Cells == UNION Resolutions

Scan == INSTANCE DirtyRegions

\* The scan of sender.c cuts exactly (MergedRegions of DirtyRegions does).
ASSUME SenderAssumption ==
  /\ Workers # {} /\ IsFiniteSet(Workers)
  /\ Resolutions # {} /\ {} \notin Resolutions
  /\ DOMAIN Regions = Resolutions
  /\ \A grid \in Resolutions :
       /\ Regions[grid] \in [SUBSET grid -> Seq(SUBSET grid)]
       /\ \A dirty \in SUBSET grid : Scan!CutsExactly(Regions[grid][dirty], dirty)
  /\ MaxCaptures \in Nat
  /\ Faults \subseteq FaultKinds
  /\ BatchMax \in Nat \ {0}
  /\ MessageSize \in [MessageTypes -> Nat \ {0}]

Shots == 0..MaxCaptures

Job == [type: MessageTypes, cells: SUBSET Cells, shot: Shots]

FullFrame(grid, n) == [type |-> "FULL_FRAME", cells |-> grid, shot |-> n]
UpdateRegion(region, n) ==
  [type |-> "UPDATE_REGION", cells |-> region, shot |-> n]
Idle == [type |-> "NONE"]   \* the job of a worker that has none

IsUpdate(job) == job.type # "FULL_FRAME"   \* mutant of IsFull

IsFull(job) == job.type = "FULL_FRAME"

VARIABLES
  previousFrame,   \* cell -> capture its content comes from
  captures,        \* number of changes captured so far
  capturePc,
  unpublished,     \* rectangles the scan in progress has still to cut
  stopRequested,
  regionQueue, regionShutdown,
  encodePc, encodeJob,
  sendQueue, sendShutdown,
  sendPc, batch, batchSize,
  link,            \* the transport: "open", "stalled", "failed" or "closed"
  wire,            \* history: the messages handed to the transport, in order
  lost,            \* history: the jobs that were dropped
  inputPc,
  mainPc, startupFailed

captureVars == <<previousFrame, captures, capturePc, unpublished>>
regionVars  == <<regionQueue, regionShutdown>>
encodeVars  == <<encodePc, encodeJob>>
sendQVars   == <<sendQueue, sendShutdown>>
senderVars  == <<sendPc, batch, batchSize>>
linkVars    == <<link, wire>>
mainVars    == <<mainPc, startupFailed>>

vars == <<captureVars, stopRequested, regionVars, encodeVars, sendQVars,
          senderVars, linkVars, lost, inputPc, mainVars>>

-----------------------------------------------------------------------------
(* A thread is "none" when CreateThread failed and "done" when it returned. *)
Gone(pc) == pc \in {"none", "done"}

\* The order of main's calls once the threads run, and on the path taken when
\* a thread could not be created, which never waits and closes the transport
\* before it joins.
\* Mutants: main does not join the workers; it does not shut the send queue.
OrderWithoutJoinEncode ==
  [wait |-> "stop", stop |-> "shutRegion", shutRegion |-> "shutSend",
   shutSend |-> "joinCapture", joinCapture |-> "joinSend",
   joinEncode |-> "joinSend", joinSend |-> "close", close |-> "joinInput",
   joinInput |-> "destroy", destroy |-> "exit"]
OrderWithoutShutSend == [OrderWithoutJoinEncode EXCEPT
  !.shutRegion = "joinCapture", !.joinCapture = "joinEncode"]

NormalOrder ==
  [wait |-> "stop", stop |-> "shutRegion", shutRegion |-> "shutSend",
   shutSend |-> "joinCapture", joinCapture |-> "joinEncode",
   joinEncode |-> "joinSend", joinSend |-> "close", close |-> "joinInput",
   joinInput |-> "destroy", destroy |-> "exit"]

FailedOrder ==
  [wait |-> "stop", stop |-> "shutRegion", shutRegion |-> "shutSend",
   shutSend |-> "close", close |-> "joinCapture", joinCapture |-> "joinEncode",
   joinEncode |-> "joinSend", joinSend |-> "joinInput",
   joinInput |-> "destroy", destroy |-> "exit"]

Advance(step) ==
  /\ mainPc = step
  /\ mainPc' = IF startupFailed THEN FailedOrder[step] ELSE NormalOrder[step]
  /\ UNCHANGED startupFailed

-----------------------------------------------------------------------------
(* main has connected, captured the first frame, queued it as a full frame *)
(* job and created the threads; some may be missing under "spawn".         *)
InitialThreads ==
  /\ capturePc \in {"loop", "none"}
  /\ sendPc \in {"pop", "none"}
  /\ encodePc \in [Workers -> {"pop", "none"}]
  /\ startupFailed = (\/ capturePc = "none" \/ sendPc = "none"
                      \/ \E w \in Workers : encodePc[w] = "none")
  /\ startupFailed => "spawn" \in Faults

Init ==
  /\ \E grid \in Resolutions :
       /\ previousFrame = [c \in grid |-> 0]
       /\ regionQueue = <<FullFrame(grid, 0)>>
  /\ captures = 0
  /\ unpublished = <<>>
  /\ stopRequested = FALSE
  /\ regionShutdown = FALSE
  /\ encodeJob = [w \in Workers |-> Idle]
  /\ sendQueue = <<>>
  /\ sendShutdown = FALSE
  /\ batch = <<>>
  /\ batchSize = 0
  /\ link = "open"
  /\ wire = <<>>
  /\ lost = {}
  /\ inputPc = "recv"
  /\ InitialThreads
  /\ mainPc = IF startupFailed THEN "stop" ELSE "wait"

-----------------------------------------------------------------------------
(* The capture thread: at most one change of the screen per cycle, between  *)
(* one reading of the stop flag and the next.                               *)

Grid == DOMAIN previousFrame

RegionJobs(regions, n) == {UpdateRegion(regions[i], n) : i \in DOMAIN regions}

CaptureGoesOn ==
  /\ capturePc = "loop"
  /\ ~stopRequested
  /\ capturePc' = "capture"
  /\ UNCHANGED <<previousFrame, captures, unpublished, stopRequested, regionVars,
                 encodeVars, sendQVars, senderVars, linkVars, lost, inputPc,
                 mainVars>>

Capturing == capturePc = "capture"

CaptureSame ==
  /\ Capturing
  /\ capturePc' = "loop"
  /\ UNCHANGED <<previousFrame, captures, unpublished, stopRequested, regionVars,
                 encodeVars, sendQVars, senderVars, linkVars, lost, inputPc,
                 mainVars>>

\* Same size: every dirty rectangle is to be cut out and queued.  The screen
\* just captured becomes previousFrame whatever happens to its rectangles.
CaptureChange(changed) ==
  /\ Capturing
  /\ captures < MaxCaptures
  /\ changed # {}
  /\ captures' = captures + 1
  /\ previousFrame' =
       [c \in Grid |-> IF c \in changed THEN captures + 1 ELSE previousFrame[c]]
  /\ \/ /\ unpublished' = Regions[Grid][changed]
        /\ capturePc' = "publish"
        /\ UNCHANGED lost
     \/ /\ "alloc" \in Faults    \* no memory for the dirty or consumed map
        /\ lost' = lost \cup RegionJobs(Regions[Grid][changed], captures + 1)
        /\ capturePc' = "loop"
        /\ UNCHANGED unpublished
  /\ UNCHANGED <<stopRequested, regionVars, encodeVars, sendQVars, senderVars,
                 linkVars, inputPc, mainVars>>

NextCapturePc == IF Tail(unpublished) = <<>> THEN "loop" ELSE "publish"

PublishRegion ==
  /\ capturePc = "publish"
  /\ regionQueue' =
       Push(regionQueue, UpdateRegion(Head(unpublished), captures), FALSE)
  /\ unpublished' = Tail(unpublished)
  /\ capturePc' = NextCapturePc
  /\ UNCHANGED <<previousFrame, captures, stopRequested, regionShutdown,
                 encodeVars, sendQVars, senderVars, linkVars, lost, inputPc,
                 mainVars>>

\* No memory for the rectangle's pixels or for its job: the scan goes on.
DropRegion ==
  /\ capturePc = "publish"
  /\ "alloc" \in Faults
  /\ lost' = lost \cup {UpdateRegion(Head(unpublished), captures)}
  /\ unpublished' = Tail(unpublished)
  /\ capturePc' = NextCapturePc
  /\ UNCHANGED <<previousFrame, captures, stopRequested, regionVars,
                 encodeVars, sendQVars, senderVars, linkVars, inputPc, mainVars>>

\* Another size: the whole frame is queued, with priority.
CaptureResize(grid) ==
  /\ Capturing
  /\ captures < MaxCaptures
  /\ grid # Grid
  /\ captures' = captures + 1
  /\ previousFrame' = [c \in grid |-> captures + 1]
  /\ regionQueue' = Push(regionQueue, FullFrame(grid, captures + 1), TRUE)
  /\ capturePc' = "loop"
  /\ UNCHANGED <<unpublished, stopRequested, regionShutdown, encodeVars, sendQVars,
                 senderVars, linkVars, lost, inputPc, mainVars>>

EndCapture ==
  /\ stopRequested' = TRUE
  /\ capturePc' = "done"
  /\ UNCHANGED <<previousFrame, captures, unpublished, regionVars, encodeVars,
                 sendQVars, senderVars, linkVars, lost, inputPc, mainVars>>

\* The screen cannot be captured, or a resized frame cannot be queued.
CaptureFail ==
  /\ Capturing
  /\ \/ "capture" \in Faults
     \/ /\ "alloc" \in Faults
        /\ captures < MaxCaptures
        /\ Resolutions # {Grid}
  /\ EndCapture

CaptureStop ==
  /\ capturePc = "loop"
  /\ stopRequested
  /\ EndCapture

-----------------------------------------------------------------------------
(* An encode worker.  A worker asleep in pop_wait re-reads the queue when it *)
(* wakes (on a push, on shutdown, after 1000 ms), so sleeping and entering   *)
(* pop_wait are the same control point, "pop".                               *)

EncodePop(w) ==
  /\ encodePc[w] = "pop"
  /\ CanPop(regionQueue)
  /\ encodeJob' = [encodeJob EXCEPT ![w] = Head(regionQueue)]
  /\ encodePc' = [encodePc EXCEPT ![w] = "encode"]
  /\ regionQueue' = Tail(regionQueue)
  /\ UNCHANGED <<captureVars, stopRequested, regionShutdown, sendQVars,
                 senderVars, linkVars, lost, inputPc, mainVars>>

EncodePopNothing(w) ==
  /\ encodePc[w] = "pop"
  /\ ~CanPop(regionQueue)
  /\ encodePc' = [encodePc EXCEPT ![w] = "check"]
  /\ UNCHANGED <<captureVars, stopRequested, regionVars, encodeJob, sendQVars,
                 senderVars, linkVars, lost, inputPc, mainVars>>

\* Mutant of EncodeCheckShutdown: an empty queue is taken for the shutdown.
EncodeLeavesWhenIdle(w) ==
  /\ encodePc[w] = "check"
  /\ encodePc' = [encodePc EXCEPT ![w] = "done"]
  /\ UNCHANGED <<captureVars, stopRequested, regionVars, encodeJob, sendQVars,
                 senderVars, linkVars, lost, inputPc, mainVars>>

\* sender_region_queue_is_shutdown: the lock was released since the pop.
EncodeCheckShutdown(w) ==
  /\ encodePc[w] = "check"
  /\ encodePc' =
       [encodePc EXCEPT ![w] = IF regionShutdown THEN "done" ELSE "pop"]
  /\ UNCHANGED <<captureVars, stopRequested, regionVars, encodeJob, sendQVars,
                 senderVars, linkVars, lost, inputPc, mainVars>>

\* Mutants of EndEncode: the worker keeps the freed job; it encodes it again.
EndEncodeKeepsJob(w) ==
  /\ encodePc[w] = "encode"
  /\ encodePc' = [encodePc EXCEPT ![w] = "pop"]
  /\ UNCHANGED <<captureVars, stopRequested, regionVars, encodeJob, sendShutdown,
                 senderVars, linkVars, inputPc, mainVars>>
EndEncodeTwice(w) ==
  /\ encodePc[w] = "encode"
  /\ UNCHANGED <<captureVars, stopRequested, regionVars, encodeVars, sendShutdown,
                 senderVars, linkVars, inputPc, mainVars>>

EndEncode(w) ==
  /\ encodePc[w] = "encode"
  /\ encodePc' = [encodePc EXCEPT ![w] = "pop"]
  /\ encodeJob' = [encodeJob EXCEPT ![w] = Idle]
  /\ UNCHANGED <<captureVars, stopRequested, regionVars, sendShutdown,
                 senderVars, linkVars, inputPc, mainVars>>

EncodePush(w) ==
  /\ EndEncode(w)
  /\ sendQueue' = Push(sendQueue, encodeJob[w], IsFull(encodeJob[w]))
  /\ UNCHANGED lost

\* The encoder fails, or there is no memory for the message or its job.
EncodeDrop(w) ==
  /\ EndEncode(w)
  /\ Faults \cap {"encode", "alloc"} # {}
  /\ lost' = lost \cup {encodeJob[w]}
  /\ UNCHANGED sendQueue

-----------------------------------------------------------------------------
(* The send thread.                                                         *)

SendPop ==
  /\ sendPc = "pop"
  /\ CanPop(sendQueue)
  /\ sendQueue' = Tail(sendQueue)
  /\ \/ /\ batch' = <<Head(sendQueue)>>
        /\ batchSize' = MessageSize[Head(sendQueue).type]
        /\ sendPc' = "fill"
        /\ UNCHANGED lost
     \/ /\ "alloc" \in Faults     \* no memory for the batch: drop the job
        /\ lost' = lost \cup {Head(sendQueue)}
        /\ UNCHANGED senderVars
  /\ UNCHANGED <<captureVars, stopRequested, regionVars, encodeVars,
                 sendShutdown, linkVars, inputPc, mainVars>>

SendPopNothing ==
  /\ sendPc = "pop"
  /\ ~CanPop(sendQueue)
  /\ sendPc' = "check"
  /\ UNCHANGED <<captureVars, stopRequested, regionVars, encodeVars, sendQVars,
                 batch, batchSize, linkVars, lost, inputPc, mainVars>>

SendCheckShutdown ==
  /\ sendPc = "check"
  /\ sendPc' = IF sendShutdown THEN "done" ELSE "pop"
  /\ UNCHANGED <<captureVars, stopRequested, regionVars, encodeVars, sendQVars,
                 batch, batchSize, linkVars, lost, inputPc, mainVars>>

\* One turn of the loop that coalesces what is already queued.
CanGrowForever == CanPop(sendQueue)   \* mutant: the batch has no limit

CanGrow == batchSize < BatchMax /\ CanPop(sendQueue)

SendCoalesce ==
  /\ sendPc = "fill"
  /\ CanGrow
  /\ sendQueue' = Tail(sendQueue)
  /\ \/ /\ batch' = Append(batch, Head(sendQueue))
        /\ batchSize' = batchSize + MessageSize[Head(sendQueue).type]
        /\ UNCHANGED <<sendPc, lost>>
     \/ /\ "alloc" \in Faults     \* the batch cannot grow: the job is dropped
        /\ lost' = lost \cup {Head(sendQueue)}
        /\ sendPc' = "send"
        /\ UNCHANGED <<batch, batchSize>>
  /\ UNCHANGED <<captureVars, stopRequested, regionVars, encodeVars,
                 sendShutdown, linkVars, inputPc, mainVars>>

SendBatchFull ==
  /\ sendPc = "fill"
  /\ ~CanGrow
  /\ sendPc' = "send"
  /\ UNCHANGED <<captureVars, stopRequested, regionVars, encodeVars, sendQVars,
                 batch, batchSize, linkVars, lost, inputPc, mainVars>>

EndSend ==
  /\ sendPc = "send"
  /\ batch' = <<>>
  /\ batchSize' = 0
  /\ UNCHANGED <<captureVars, regionVars, encodeVars, sendQVars, link, inputPc,
                 mainVars>>

SendAll ==
  /\ EndSend
  /\ link = "open"
  /\ wire' = wire \o batch
  /\ sendPc' = "pop"
  /\ UNCHANGED <<stopRequested, lost>>

\* ss_transport_send_all fails with bytes still to send: of the batch, a
\* proper prefix of whole messages may have reached the peer.
SendAllFails ==
  /\ EndSend
  /\ link \in {"failed", "closed"}
  /\ \E sent \in 0..(Len(batch) - 1) :
       /\ wire' = wire \o SubSeq(batch, 1, sent)
       /\ lost' = lost \cup {batch[i] : i \in (sent + 1)..Len(batch)}
  /\ sendPc' = "done"
  /\ stopRequested' = TRUE

-----------------------------------------------------------------------------
(* The input thread and the connection.                                     *)

EndInput ==
  /\ inputPc = "recv"
  /\ inputPc' = "done"
  /\ UNCHANGED <<captureVars, stopRequested, regionVars, encodeVars, sendQVars,
                 senderVars, linkVars, lost, mainVars>>

\* recv_exact fails.  The thread leaves without telling any other.
InputRecvFails == link \in {"failed", "closed"} /\ EndInput

\* A header or a payload size the input thread does not accept.
InputReject == link = "open" /\ "peer" \in Faults /\ EndInput

LinkChange(from, to) ==
  /\ link \in from
  /\ link' = to
  /\ UNCHANGED <<captureVars, stopRequested, regionVars, encodeVars, sendQVars,
                 senderVars, wire, lost, inputPc, mainVars>>

PeerLeaves == "peer" \in Faults /\ LinkChange({"open", "stalled"}, "failed")
PeerStalls == "stall" \in Faults /\ LinkChange({"open"}, "stalled")

-----------------------------------------------------------------------------
(* The main thread.                                                         *)

WaitForCaptureOrSend ==
  /\ Advance("wait")
  /\ Gone(capturePc) \/ Gone(sendPc)
  /\ UNCHANGED <<captureVars, stopRequested, regionVars, encodeVars, sendQVars,
                 senderVars, linkVars, lost, inputPc>>

RequestStop ==
  /\ Advance("stop")
  /\ stopRequested' = TRUE
  /\ UNCHANGED <<captureVars, regionVars, encodeVars, sendQVars, senderVars,
                 linkVars, lost, inputPc>>

ShutRegionQueue ==
  /\ Advance("shutRegion")
  /\ regionShutdown' = TRUE
  /\ UNCHANGED <<captureVars, stopRequested, regionQueue, encodeVars, sendQVars,
                 senderVars, linkVars, lost, inputPc>>

ShutSendQueue ==
  /\ Advance("shutSend")
  /\ sendShutdown' = TRUE
  /\ UNCHANGED <<captureVars, stopRequested, regionVars, encodeVars, sendQueue,
                 senderVars, linkVars, lost, inputPc>>

Join(step, gone) ==
  /\ Advance(step)
  /\ gone
  /\ UNCHANGED <<captureVars, stopRequested, regionVars, encodeVars, sendQVars,
                 senderVars, linkVars, lost, inputPc>>

JoinCapture == Join("joinCapture", Gone(capturePc))
JoinEncode  == Join("joinEncode", \A w \in Workers : Gone(encodePc[w]))
JoinSend    == Join("joinSend", Gone(sendPc))
JoinInput   == Join("joinInput", Gone(inputPc))

CloseTransport ==
  /\ Advance("close")
  /\ link' = "closed"
  /\ UNCHANGED <<captureVars, stopRequested, regionVars, encodeVars, sendQVars,
                 senderVars, wire, lost, inputPc>>

DestroyQueues ==
  /\ Advance("destroy")
  /\ lost' = lost \cup ToSet(regionQueue) \cup ToSet(sendQueue)
  /\ regionQueue' = <<>>
  /\ sendQueue' = <<>>
  /\ UNCHANGED <<captureVars, stopRequested, regionShutdown, encodeVars,
                 sendShutdown, senderVars, linkVars, inputPc>>

Terminated == mainPc = "exit" /\ UNCHANGED vars

-----------------------------------------------------------------------------
CaptureProgress ==
  CaptureGoesOn \/ CaptureSame \/ PublishRegion \/ DropRegion \/ CaptureStop

CaptureThread ==
  \/ CaptureProgress
  \/ CaptureFail
  \/ \E changed \in SUBSET Grid : CaptureChange(changed)
  \/ \E grid \in Resolutions : CaptureResize(grid)

EncodeWorker(w) ==
  \/ EncodePop(w) \/ EncodePopNothing(w) \/ EncodeCheckShutdown(w)
  \/ EncodePush(w) \/ EncodeDrop(w)

SendThread ==
  \/ SendPop \/ SendPopNothing \/ SendCheckShutdown
  \/ SendCoalesce \/ SendBatchFull
  \/ SendAll \/ SendAllFails

MainThread ==
  \/ WaitForCaptureOrSend \/ RequestStop \/ ShutRegionQueue \/ ShutSendQueue
  \/ JoinCapture \/ JoinEncode \/ JoinSend \/ JoinInput
  \/ CloseTransport \/ DestroyQueues

Next ==
  \/ CaptureThread
  \/ \E w \in Workers : EncodeWorker(w)
  \/ SendThread
  \/ InputRecvFails \/ InputReject
  \/ PeerLeaves \/ PeerStalls
  \/ MainThread
  \/ Terminated

\* Every thread that can take a step is eventually scheduled; what the screen,
\* the peer and the failures do is not fair.
Fairness ==
  /\ WF_vars(CaptureProgress)
  /\ \A w \in Workers : WF_vars(EncodeWorker(w))
  /\ WF_vars(SendThread)
  /\ WF_vars(InputRecvFails)
  /\ WF_vars(MainThread)

Spec == Init /\ [][Next]_vars
FairSpec == Spec /\ Fairness

-----------------------------------------------------------------------------
(* Properties. *)

Published == {UpdateRegion(unpublished[i], captures) : i \in DOMAIN unpublished}
Encoding == {encodeJob[w] : w \in {v \in Workers : encodePc[v] = "encode"}}

\* The jobs that exist and are neither sent nor dropped.
InFlight ==
  Published \cup ToSet(regionQueue) \cup Encoding \cup ToSet(sendQueue)
            \cup ToSet(batch)

CaptureTypeOK ==
  /\ captures \in Shots
  /\ \E grid \in Resolutions : previousFrame \in [grid -> 0..captures]
  /\ capturePc \in {"loop", "capture", "publish", "done", "none"}
  /\ unpublished \in Seq(SUBSET Cells)
  /\ capturePc = "publish" <=> unpublished # <<>>
  /\ stopRequested \in BOOLEAN

EncodeTypeOK ==
  /\ regionQueue \in Seq(Job)
  /\ regionShutdown \in BOOLEAN
  /\ encodePc \in [Workers -> {"pop", "check", "encode", "done", "none"}]
  /\ encodeJob \in [Workers -> Job \cup {Idle}]
  /\ \A w \in Workers : encodePc[w] = "encode" <=> encodeJob[w] # Idle

SendTypeOK ==
  /\ sendQueue \in Seq(Job)
  /\ sendShutdown \in BOOLEAN
  /\ sendPc \in {"pop", "check", "fill", "send", "done", "none"}
  /\ batch \in Seq(Job)
  /\ sendPc \in {"fill", "send"} <=> batch # <<>>
  /\ batchSize \in Nat

LinkTypeOK ==
  /\ link \in {"open", "stalled", "failed", "closed"}
  /\ wire \in Seq(Job)
  /\ lost \subseteq Job
  /\ inputPc \in {"recv", "done"}

MainTypeOK ==
  /\ mainPc \in DOMAIN NormalOrder \cup {"exit"}
  /\ startupFailed \in BOOLEAN

(* The type invariant: every variable keeps its type, a worker holds a job  *)
(* exactly while it encodes, the scan has rectangles left exactly while it  *)
(* publishes, and the send thread has a batch exactly while it fills or     *)
(* sends one.                                                               *)
TypeOK ==
  CaptureTypeOK /\ EncodeTypeOK /\ SendTypeOK /\ LinkTypeOK /\ MainTypeOK

(* The coalescing loop of the send thread bounds a batch by its limit plus  *)
(* one message: a burst never grows a write without limit.                  *)
BatchBounded ==
  \A t \in MessageTypes :
    (\A u \in MessageTypes : MessageSize[u] <= MessageSize[t])
      => batchSize < BatchMax + MessageSize[t]

(* No content is ever forgotten: the newest content of every tile is on its *)
(* way, sent, or was dropped by a failure the code handles by dropping.     *)
NothingVanishes ==
  \A c \in Grid : \E job \in InFlight \cup ToSet(wire) \cup lost :
    c \in job.cells /\ job.shot = previousFrame[c]

(* A job has one owner at a time: one queue, one worker, the batch, or its  *)
(* end (sent or freed).  So none is sent twice, freed twice or leaked.      *)
OneOwner ==
  Cardinality(InFlight \cup ToSet(wire) \cup lost) =
    Len(unpublished) + Len(regionQueue) + Cardinality(Encoding)
      + Len(sendQueue) + Len(batch) + Len(wire) + Cardinality(lost)

FullsFirst(queue) ==
  \A i, j \in DOMAIN queue : i < j /\ IsFull(queue[j]) => IsFull(queue[i])

CapturesOrdered(queue) ==
  \A i, j \in DOMAIN queue : i < j =>
    /\ IsFull(queue[j]) => queue[i].shot > queue[j].shot
    /\ ~IsFull(queue[i]) => queue[i].shot <= queue[j].shot

(* Both queues hold their full frames ahead of their region updates; the    *)
(* region queue holds its full frames newest first and its updates oldest   *)
(* first (sender_region_queue_push, sender_send_queue_push).                *)
QueuesOrdered ==
  /\ FullsFirst(regionQueue)
  /\ FullsFirst(sendQueue)
  /\ CapturesOrdered(regionQueue)

(* main frees the queues, the critical sections and the transport on its    *)
(* stack only when no thread can use them any more; and on the path taken   *)
(* after a complete start, it closes the transport only once the threads    *)
(* that send have returned (sender.c:1361-1393).                            *)
NoUseAfterFree ==
  /\ mainPc \in {"destroy", "exit"} =>
       /\ Gone(capturePc) /\ Gone(sendPc) /\ Gone(inputPc)
       /\ \A w \in Workers : Gone(encodePc[w])
  /\ link = "closed" /\ ~startupFailed =>
       Gone(sendPc) /\ \A w \in Workers : Gone(encodePc[w])

(* A full frame goes out ahead of every region update captured after it:    *)
(* the update patches the frame the receiver was given first.  What the     *)
(* comment at sender.c:297 and main's first push (sender.c:1258) aim at.    *)
FullFrameAhead ==
  \A i, j \in DOMAIN wire :
    i < j /\ IsFull(wire[j]) /\ ~IsFull(wire[i]) => wire[i].shot < wire[j].shot

(* With one worker, region updates are sent in the order in which they were *)
(* captured, whatever full frames overtake them.                            *)
UpdatesInOrder ==
  \A i, j \in DOMAIN wire :
    i < j /\ ~IsFull(wire[i]) /\ ~IsFull(wire[j]) => wire[i].shot <= wire[j].shot

Stream == INSTANCE UpdateStream
  WITH screen <- previousFrame, pending <- InFlight, sent <- wire,
       dropped <- lost

(* The pipeline delivers what UpdateStream promises: every change of the    *)
(* screen is cut into jobs at once, and each is delivered once or dropped.  *)
ImplementsUpdateStream == Stream!StreamSpec

(* The newest content of every tile is eventually handed to the transport,  *)
(* or was dropped by a failure the code handles by dropping, as long as the *)
(* sender runs and the connection takes what is sent.                       *)
EverythingSent ==
  <>[](\/ stopRequested \/ startupFailed \/ link # "open"
       \/ \A c \in Grid : \E job \in ToSet(wire) \cup lost :
            c \in job.cells /\ job.shot = previousFrame[c])

(* Once any part asks for it, or a thread could not be created, the whole   *)
(* sender stops: no thread waits for another forever.  After a complete     *)
(* start main closes the connection only when the send thread has returned, *)
(* so a peer that has stopped reading without leaving may hold it up.       *)
ShutdownCompletes ==
  stopRequested \/ startupFailed ~>
    mainPc = "exit" \/ (link = "stalled" /\ ~startupFailed)
=============================================================================
