-------------------------- MODULE ReceiverPipeline --------------------------
(***************************************************************************)
(* The receiver of src/src/receiver.c from the transport to the window:    *)
(* the I/O thread, the decode queue and the pool of decode workers, the    *)
(* framebuffer they write under framebuffer_lock, and the main thread that *)
(* owns the window, repaints it and ends the program.                      *)
(*                                                                         *)
(* Pixels are counted in tiles, <<column, row>>.  The framebuffer maps     *)
(* each of its tiles to <<tile of the sender's screen, number of the       *)
(* message that brought it>>; before the first frame it is empty.          *)
(***************************************************************************)
EXTENDS Integers, FiniteSets, FiniteSetsExt, JobQueue, SequencesExt

CONSTANTS
  Decoders,              \* the decode workers, one per processor
  Messages,              \* what the sender may send: [type, cells]
  MaxMessages,           \* bound of the model: messages sent in a session
  ClientWidth, ClientHeight,  \* size of the window's client area, in pixels
  Failures               \* the environment failures of this instance

\* "alloc": no memory for a message       "decode": the decoder fails
\* "paint": no memory for a RECT or for the snapshot of the framebuffer
\* "open": the transport cannot be opened "peer": the connection ends, or a bad
\* "spawn": CreateThread fails                     header arrives
\* "post": PostMessage fails for a notification   "postClose": for WM_CLOSE
FailureKinds ==
  {"alloc", "decode", "paint", "open", "peer", "spawn", "post", "postClose"}

\* A region of the screen, with a tile in every column of every row.
IsRegion(cells) ==
  /\ cells # {} /\ cells \subseteq Nat \X Nat /\ IsFiniteSet(cells)
  /\ \A a, b, c, d \in cells : (a[1]..b[1]) \X (c[2]..d[2]) \subseteq cells

ASSUME ReceiverAssumption ==
  /\ Decoders # {}
  /\ \A m \in Messages :
       m.type \in {"FULL_FRAME", "UPDATE_REGION"} /\ IsRegion(m.cells)
  /\ MaxMessages \in Nat
  /\ ClientWidth \in Nat \ {0} /\ ClientHeight \in Nat \ {0}
  /\ Failures \subseteq FailureKinds

VARIABLES
  wire,            \* every message sent so far, in order
  received,        \* how many of them the I/O thread has read
  receiverLink,    \* "none" before accept, "open", "failed" or "closed"
  ioPc, ioNumber,  \* the I/O thread, and the message it is applying
  decodeQueue, decodeShutdown,   \* a decode job is the number of its message
  decodePc, decodeJob,
  framebuffer,
  posted,          \* the window's message queue
  invalid,         \* the client pixels to repaint
  shown,           \* client pixel -> the framebuffer tiles it was drawn from
  unseen,          \* the client pixels whose notification or painting was lost
  stopEvent,
  uiPc

ioVars      == <<received, receiverLink, ioPc, ioNumber>>
queueVars   == <<decodeQueue, decodeShutdown>>
decodeVars  == <<decodePc, decodeJob>>
windowVars  == <<posted, invalid, shown, unseen>>
receiverVars == <<wire, ioVars, queueVars, decodeVars, framebuffer, windowVars,
                  stopEvent, uiPc>>

-----------------------------------------------------------------------------
NoFrame == <<>>
NoJob == 0

HasFrame == framebuffer # NoFrame
Width(tiles) == Max({t[1] : t \in tiles}) + 1
Height(tiles) == Max({t[2] : t \in tiles}) + 1
Left(tiles) == Min({t[1] : t \in tiles})
Top(tiles) == Min({t[2] : t \in tiles})

\* The decoded picture of a message, as a frame of its own: it starts at the
\* origin, wherever the region was cut.
DecodedFrame(n) ==
  LET cells == wire[n].cells
      x == Left(cells)
      y == Top(cells)
  IN  [t \in {<<c[1] - x, c[2] - y>> : c \in cells} |->
         <<<<t[1] + x, t[2] + y>>, n>>]

\* receiver_framebuffer_patch: without effect before the first frame and
\* outside the framebuffer.
Patched(frame, n) ==
  IF wire[n].cells \subseteq DOMAIN frame
  THEN [t \in DOMAIN frame |->
          IF t \in wire[n].cells THEN <<t, n>> ELSE frame[t]]
  ELSE frame

-----------------------------------------------------------------------------
(* The window. *)

Client == (0..(ClientWidth - 1)) \X (0..(ClientHeight - 1))

\* The RECT of a patch, in framebuffer pixels.
RectOf(cells) ==
  [kind |-> "rect", left |-> Left(cells), top |-> Top(cells),
   right |-> Width(cells), bottom |-> Height(cells)]

FrameRect(cells) ==
  [kind |-> "rect", left |-> 0, top |-> 0,
   right |-> Width(cells) - Left(cells), bottom |-> Height(cells) - Top(cells)]

All == [kind |-> "all"]       \* SS_APP_FRAME_READY without a RECT
Close == [kind |-> "close"]   \* WM_CLOSE

\* SS_APP_FRAME_READY: the RECT is scaled with the size that the framebuffer
\* has when the message is handled.
ToClientX(x) == (x * ClientWidth) \div Width(DOMAIN framebuffer)
ToClientY(y) == (y * ClientHeight) \div Height(DOMAIN framebuffer)

\* Mutant: the scaled RECT is not extended by the pixel that it touches.
InvalidPixelsTight(rect) ==
  IF rect = All \/ ~HasFrame THEN Client
  ELSE {p \in Client :
          /\ p[1] >= ToClientX(rect.left)
          /\ p[1] < ToClientX(rect.right)
          /\ p[2] >= ToClientY(rect.top)
          /\ p[2] < ToClientY(rect.bottom)}

InvalidPixels(rect) ==
  IF rect = All \/ ~HasFrame THEN Client
  ELSE {p \in Client :
          /\ p[1] >= ToClientX(rect.left)
          /\ p[1] < ToClientX(rect.right) + 1
          /\ p[2] >= ToClientY(rect.top)
          /\ p[2] < ToClientY(rect.bottom) + 1}

\* StretchDIBits: the framebuffer tiles a client pixel is made of.
Sources(p) ==
  LET width == Width(DOMAIN framebuffer)
      height == Height(DOMAIN framebuffer)
  IN  {t \in DOMAIN framebuffer :
         /\ t[1] * ClientWidth < (p[1] + 1) * width
         /\ (t[1] + 1) * ClientWidth > p[1] * width
         /\ t[2] * ClientHeight < (p[2] + 1) * height
         /\ (t[2] + 1) * ClientHeight > p[2] * height}

Picture(p) == [t \in Sources(p) |-> framebuffer[t]]
Blank == <<>>

\* The window exists before main shows it and reads its messages.
WindowOpen == uiPc \in {"show", "loop"}

\* receiver_post_frame_ready: PostMessage fails when the window is gone; under
\* "post" it may fail any time, its return value is not looked at.
\* Mutant: a notification is left out while another one is outstanding.
PostWhenNoneIsOutstanding(rect) ==
  /\ posted' = IF WindowOpen /\ posted = <<>> THEN <<rect>> ELSE posted
  /\ UNCHANGED unseen

PostFrameReady(rect) ==
  \/ WindowOpen /\ posted' = Append(posted, rect) /\ UNCHANGED unseen
  \/ /\ WindowOpen /\ "paint" \in Failures
     /\ posted' = Append(posted, All) /\ UNCHANGED unseen
  \/ /\ WindowOpen /\ "post" \in Failures
     /\ unseen' = unseen \cup InvalidPixels(rect) /\ UNCHANGED posted
  \/ ~WindowOpen /\ UNCHANGED <<posted, unseen>>

-----------------------------------------------------------------------------
\* A thread is "none" when CreateThread failed and "done" when it returned;
\* the I/O thread is "unheard" (history) when it returned and its WM_CLOSE was
\* lost.
Missing(pc) == pc \in {"none", "done", "unheard"}

ReceiverInit ==
  /\ wire = <<>>
  /\ received = 0
  /\ receiverLink = "none"
  /\ ioPc \in {"open", "none"}
  /\ ioNumber = NoJob
  /\ decodeQueue = <<>>
  /\ decodeShutdown = FALSE
  /\ decodePc \in [Decoders -> {"pop", "none"}]
  /\ decodeJob = [w \in Decoders |-> NoJob]
  /\ framebuffer = NoFrame
  /\ posted = <<>>
  /\ invalid = Client
  /\ unseen = {}
  /\ shown = [p \in Client |-> Blank]
  /\ stopEvent = FALSE
  /\ uiPc = IF ioPc = "none" \/ \E w \in Decoders : decodePc[w] = "none"
            THEN "abort" ELSE "show"
  /\ uiPc = "abort" => "spawn" \in Failures

-----------------------------------------------------------------------------
(* The I/O thread. *)

IoUnchanged == UNCHANGED <<wire, queueVars, decodeVars, invalid, shown, stopEvent, uiPc>>

\* receiver_open_transport returns: the sender has connected.
IoOpen ==
  /\ ioPc = "open"
  /\ receiverLink' = "open"
  /\ ioPc' = "check"
  /\ UNCHANGED <<received, ioNumber, framebuffer, posted, unseen>> /\ IoUnchanged

IoOpenFails ==
  /\ ioPc = "open"
  /\ "open" \in Failures
  /\ ioPc' = "shutdown"
  /\ UNCHANGED <<received, receiverLink, ioNumber, framebuffer, posted, unseen>>
  /\ IoUnchanged

IoCheckStop ==
  /\ ioPc = "check"
  /\ ioPc' = IF stopEvent THEN "shutdown" ELSE "recv"
  /\ UNCHANGED <<received, receiverLink, ioNumber, framebuffer, posted, unseen>>
  /\ IoUnchanged

Receivable ==
  /\ ioPc = "recv"
  /\ receiverLink \in {"open", "failed"}   \* what had arrived is still read
  /\ received < Len(wire)

SynchronousFirst(n) == ~HasFrame   \* mutant: frames go to the pool as well

\* A frame, or whatever comes before there is one, is applied by this thread.
Synchronous(n) == wire[n].type = "FULL_FRAME" \/ ~HasFrame

IoRecvFrame ==
  /\ Receivable
  /\ Synchronous(received + 1)
  /\ received' = received + 1
  /\ ioNumber' = received + 1
  /\ ioPc' = "apply"
  /\ UNCHANGED <<receiverLink, framebuffer, posted, unseen>> /\ IoUnchanged

\* Under "alloc" the decode job may be missing: the update is forgotten.
IoRecvUpdate ==
  /\ Receivable
  /\ ~Synchronous(received + 1)
  /\ received' = received + 1
  /\ \/ decodeQueue' = Append(decodeQueue, received + 1)
     \/ "alloc" \in Failures /\ UNCHANGED decodeQueue
  /\ ioPc' = "check"
  /\ UNCHANGED <<wire, receiverLink, ioNumber, decodeShutdown, decodeVars,
                 framebuffer, windowVars, stopEvent, uiPc>>

\* The connection ends, a header is not valid, or a payload finds no memory.
IoRecvFails ==
  /\ ioPc = "recv"
  /\ \/ receiverLink = "closed"
     \/ receiverLink = "failed" /\ received = Len(wire)
     \/ Failures \cap {"peer", "alloc"} # {} /\ received < Len(wire)
  /\ ioPc' = "shutdown"
  /\ UNCHANGED <<received, receiverLink, ioNumber, framebuffer, posted, unseen>>
  /\ IoUnchanged

\* Decode, then receiver_framebuffer_replace, which keeps the old framebuffer
\* when there is no memory for the new one.
IoApply ==
  /\ ioPc = "apply"
  /\ \/ framebuffer' = DecodedFrame(ioNumber)
     \/ "alloc" \in Failures /\ UNCHANGED framebuffer
  /\ ioPc' = "post"
  /\ UNCHANGED <<received, receiverLink, ioNumber, posted, unseen>> /\ IoUnchanged

IoDecodeFails ==
  /\ ioPc = "apply"
  /\ Failures \cap {"decode", "alloc"} # {}
  /\ ioPc' = "check"
  /\ ioNumber' = NoJob
  /\ UNCHANGED <<received, receiverLink, framebuffer, posted, unseen>> /\ IoUnchanged

IoPost ==
  /\ ioPc = "post"
  /\ PostFrameReady(FrameRect(wire[ioNumber].cells))
  /\ ioPc' = "check"
  /\ ioNumber' = NoJob
  /\ UNCHANGED <<received, receiverLink, framebuffer>> /\ IoUnchanged

\* Mutant: the thread returns without asking the window to close.
IoShutdownSilently ==
  /\ ioPc = "shutdown"
  /\ decodeShutdown' = TRUE
  /\ ioPc' = "done"
  /\ UNCHANGED <<wire, received, receiverLink, ioNumber, decodeQueue, decodeVars,
                 framebuffer, windowVars, stopEvent, uiPc>>

IoShutdownQueue ==
  /\ ioPc = "shutdown"
  /\ decodeShutdown' = TRUE
  /\ ioPc' = "close"
  /\ UNCHANGED <<wire, received, receiverLink, ioNumber, decodeQueue, decodeVars,
                 framebuffer, windowVars, stopEvent, uiPc>>

\* The return value of PostMessage is not looked at.
IoPostClose ==
  /\ ioPc = "close"
  /\ \/ WindowOpen /\ posted' = Append(posted, Close) /\ ioPc' = "done"
     \/ ~WindowOpen /\ ioPc' = "done" /\ UNCHANGED posted
     \/ /\ WindowOpen /\ "postClose" \in Failures
        /\ ioPc' = "unheard" /\ UNCHANGED posted
  /\ UNCHANGED <<received, receiverLink, ioNumber, framebuffer, unseen>>
  /\ IoUnchanged

-----------------------------------------------------------------------------
(* A decode worker. *)

DecodeUnchanged ==
  UNCHANGED <<wire, ioVars, decodeShutdown, invalid, shown, stopEvent, uiPc>>

\* Mutants: the newest job is taken first; the queue keeps the job it gave.
DecodePopNewest(w) ==
  /\ decodePc[w] = "pop"
  /\ CanPop(decodeQueue)
  /\ decodeJob' = [decodeJob EXCEPT ![w] = decodeQueue[Len(decodeQueue)]]
  /\ decodePc' = [decodePc EXCEPT ![w] = "decode"]
  /\ decodeQueue' = SubSeq(decodeQueue, 1, Len(decodeQueue) - 1)
  /\ UNCHANGED <<framebuffer, posted, unseen>> /\ DecodeUnchanged
DecodePopKeeping(w) ==
  /\ decodePc[w] = "pop"
  /\ CanPop(decodeQueue)
  /\ decodeJob' = [decodeJob EXCEPT ![w] = Head(decodeQueue)]
  /\ decodePc' = [decodePc EXCEPT ![w] = "decode"]
  /\ UNCHANGED <<decodeQueue, framebuffer, posted, unseen>> /\ DecodeUnchanged

DecodePop(w) ==
  /\ decodePc[w] = "pop"
  /\ CanPop(decodeQueue)
  /\ decodeJob' = [decodeJob EXCEPT ![w] = Head(decodeQueue)]
  /\ decodePc' = [decodePc EXCEPT ![w] = "decode"]
  /\ decodeQueue' = Tail(decodeQueue)
  /\ UNCHANGED <<framebuffer, posted, unseen>> /\ DecodeUnchanged

DecodePopNothing(w) ==
  /\ decodePc[w] = "pop"
  /\ ~CanPop(decodeQueue)
  /\ decodePc' = [decodePc EXCEPT ![w] = "check"]
  /\ UNCHANGED <<decodeJob, decodeQueue, framebuffer, posted, unseen>>
  /\ DecodeUnchanged

DecodeCheckShutdown(w) ==
  /\ decodePc[w] = "check"
  /\ decodePc' =
       [decodePc EXCEPT ![w] = IF decodeShutdown THEN "done" ELSE "pop"]
  /\ UNCHANGED <<decodeJob, decodeQueue, framebuffer, posted, unseen>>
  /\ DecodeUnchanged

DecodePatch(w) ==
  /\ decodePc[w] = "decode"
  /\ framebuffer' = Patched(framebuffer, decodeJob[w])
  /\ decodePc' = [decodePc EXCEPT ![w] = "post"]
  /\ UNCHANGED <<decodeJob, decodeQueue, posted, unseen>> /\ DecodeUnchanged

EndDecode(w) ==
  /\ decodePc' = [decodePc EXCEPT ![w] = "pop"]
  /\ decodeJob' = [decodeJob EXCEPT ![w] = NoJob]
  /\ UNCHANGED <<decodeQueue, framebuffer>> /\ DecodeUnchanged

DecodeFails(w) ==
  /\ decodePc[w] = "decode"
  /\ Failures \cap {"decode", "alloc"} # {}
  /\ EndDecode(w)
  /\ UNCHANGED <<posted, unseen>>

DecodePost(w) ==
  /\ decodePc[w] = "post"
  /\ PostFrameReady(RectOf(wire[decodeJob[w]].cells))
  /\ EndDecode(w)

-----------------------------------------------------------------------------
(* The main thread: its message loop, then the end of main. *)

UiUnchanged ==
  UNCHANGED <<wire, received, ioPc, ioNumber, decodeVars, framebuffer>>

UiFrameReady ==
  /\ uiPc = "loop"
  /\ posted # <<>> /\ Head(posted) # Close
  /\ invalid' = invalid \cup InvalidPixels(Head(posted))
  /\ posted' = Tail(posted)
  /\ UNCHANGED <<receiverLink, queueVars, shown, unseen, stopEvent, uiPc>>
  /\ UiUnchanged

\* WM_PAINT: BeginPaint validates the window; without a snapshot nothing is
\* drawn.
Paint ==
  /\ invalid # {}
  /\ invalid' = {}
  /\ \/ /\ HasFrame
        /\ shown' =
             [p \in Client |-> IF p \in invalid THEN Picture(p) ELSE shown[p]]
        /\ unseen' = unseen \ invalid
     \/ ~HasFrame /\ UNCHANGED <<shown, unseen>>
     \/ /\ HasFrame /\ "paint" \in Failures
        /\ unseen' = unseen \cup invalid /\ UNCHANGED shown
  /\ UNCHANGED <<posted, receiverLink, queueVars, stopEvent>>
  /\ UiUnchanged

\* UpdateWindow paints at once; from then on WM_PAINT comes when no posted
\* message is left.
UiUpdateWindow == uiPc = "show" /\ uiPc' = "loop" /\ Paint

UiPaint == uiPc = "loop" /\ posted = <<>> /\ Paint /\ UNCHANGED uiPc

\* WM_DESTROY, after WM_CLOSE: the user closed the window or the session ended.
\* A transport that is still being opened is not there to be closed.  What the
\* window showed and its messages go with it.
Destroyed ==
  /\ stopEvent' = TRUE
  /\ receiverLink' = IF receiverLink = "none" THEN "none" ELSE "closed"
  /\ posted' = <<>> /\ invalid' = {} /\ unseen' = {}
  /\ shown' = [p \in Client |-> Blank]
  /\ uiPc' = "joinIo"
  /\ UiUnchanged

UiUserCloses == uiPc = "loop" /\ Destroyed /\ UNCHANGED queueVars

UiClose ==
  /\ uiPc = "loop"
  /\ posted # <<>> /\ Head(posted) = Close
  /\ Destroyed /\ UNCHANGED queueVars

\* A thread could not be created.
UiAbort ==
  /\ uiPc = "abort"
  /\ decodeShutdown' = TRUE
  /\ Destroyed /\ UNCHANGED decodeQueue

UiAdvance(from, to) ==
  /\ uiPc = from
  /\ uiPc' = to
  /\ UNCHANGED <<receiverLink, decodeShutdown, windowVars, stopEvent>>
  /\ UiUnchanged

\* Mutant of UiJoinDecode: main does not wait for the workers.
UiForgetDecode ==
  UiAdvance("joinDecode", "destroy") /\ UNCHANGED decodeQueue

UiJoinIo ==
  UiAdvance("joinIo", "joinDecode") /\ Missing(ioPc) /\ UNCHANGED decodeQueue

UiJoinDecode ==
  /\ UiAdvance("joinDecode", "destroy")
  /\ \A w \in Decoders : Missing(decodePc[w])
  /\ UNCHANGED decodeQueue

UiDestroyQueue == UiAdvance("destroy", "exit") /\ decodeQueue' = <<>>

UiTerminated == uiPc = "exit" /\ UNCHANGED receiverVars

-----------------------------------------------------------------------------
(* The sender, as the receiver knows it. *)

PeerUnchanged ==
  UNCHANGED <<received, ioPc, ioNumber, queueVars, decodeVars, framebuffer,
              windowVars, stopEvent, uiPc>>

\* The I/O thread waits for a message.  What the sender does is chosen here:
\* nothing of the receiver depends on it before.
Waiting == receiverLink = "open" /\ ioPc = "recv" /\ received = Len(wire)

PeerSends ==
  /\ Waiting
  /\ Len(wire) < MaxMessages
  /\ \E m \in Messages : wire' = Append(wire, m)
  /\ UNCHANGED receiverLink /\ PeerUnchanged

PeerCloses ==
  /\ Waiting
  /\ "peer" \in Failures
  /\ receiverLink' = "failed"
  /\ UNCHANGED wire /\ PeerUnchanged

-----------------------------------------------------------------------------
IoThread ==
  \/ IoOpen \/ IoOpenFails \/ IoCheckStop
  \/ IoRecvFrame \/ IoRecvUpdate \/ IoRecvFails
  \/ IoApply \/ IoDecodeFails \/ IoPost
  \/ IoShutdownQueue \/ IoPostClose

DecodeWorker(w) ==
  \/ DecodePop(w) \/ DecodePopNothing(w) \/ DecodeCheckShutdown(w)
  \/ DecodePatch(w) \/ DecodeFails(w) \/ DecodePost(w)

\* What the main thread does of its own accord.
UiThread ==
  \/ UiUpdateWindow \/ UiFrameReady \/ UiPaint \/ UiClose \/ UiAbort
  \/ UiJoinIo \/ UiJoinDecode \/ UiDestroyQueue

ReceiverStep ==
  \/ IoThread
  \/ \E w \in Decoders : DecodeWorker(w)
  \/ UiThread
  \/ UiUserCloses

ReceiverNext == ReceiverStep \/ PeerSends \/ PeerCloses \/ UiTerminated

\* Every thread that can take a step is eventually scheduled, and a sender
\* connects to the receiver that waits for it; nothing makes it send.
ReceiverFairness ==
  /\ WF_receiverVars(IoThread)
  /\ \A w \in Decoders : WF_receiverVars(DecodeWorker(w))
  /\ WF_receiverVars(UiThread)

ReceiverSpec == ReceiverInit /\ [][ReceiverNext]_receiverVars
FairReceiverSpec == ReceiverSpec /\ ReceiverFairness

-----------------------------------------------------------------------------
(* Properties. *)

Numbers == 1..received
Rect == [kind: {"rect"}, left: Nat, top: Nat, right: Nat, bottom: Nat]

(* The type invariant: every variable keeps its type, the framebuffer stays *)
(* a full rectangle at the origin, a thread holds a message exactly while   *)
(* it works on it, and no message is in the decode pool twice.              *)
ReceiverTypeOK ==
  /\ wire \in Seq(Messages) /\ received \in 0..Len(wire)
  /\ receiverLink \in {"none", "open", "failed", "closed"}
  /\ ioPc \in {"open", "check", "recv", "apply", "post", "shutdown", "close",
               "done", "unheard", "none"}
  /\ ioNumber \in Numbers \cup {NoJob}
  /\ ioPc \in {"apply", "post"} <=> ioNumber # NoJob
  /\ decodeQueue \in Seq(Numbers)
  /\ decodeShutdown \in BOOLEAN
  /\ decodePc \in [Decoders -> {"pop", "check", "decode", "post", "done", "none"}]
  /\ decodeJob \in [Decoders -> Numbers \cup {NoJob}]
  /\ \A w \in Decoders : decodePc[w] \in {"decode", "post"} <=> decodeJob[w] # NoJob
  /\ \A w \in Decoders : decodeJob[w] \notin ToSet(decodeQueue)
  /\ HasFrame => LET tiles == DOMAIN framebuffer
                 IN  tiles = (0..(Width(tiles) - 1)) \X (0..(Height(tiles) - 1))
  /\ \A t \in DOMAIN framebuffer :
       framebuffer[t] \in (Nat \X Nat) \X Numbers
  /\ posted \in Seq(Rect \cup {All, Close})
  /\ invalid \subseteq Client /\ unseen \subseteq Client
  /\ DOMAIN shown = Client
  /\ stopEvent \in BOOLEAN
  /\ uiPc \in {"show", "loop", "abort", "joinIo", "joinDecode", "destroy", "exit"}

Notifications ==
  (ToSet(posted) \ {Close})
    \cup {FrameRect(wire[n].cells) : n \in IF ioPc = "post" THEN {ioNumber} ELSE {}}
    \cup {RectOf(wire[decodeJob[w]].cells) :
            w \in {v \in Decoders : decodePc[v] = "post"}}

(* What is drawn never falls behind unnoticed: a client pixel that does not *)
(* show the framebuffer is to be repainted, or a notification that covers   *)
(* it is in the message queue or about to be posted, or one was lost by a   *)
(* failed PostMessage or a painting without memory since it was last        *)
(* painted.  receiver_draw_frame repaints only what SS_APP_FRAME_READY      *)
(* invalidated.                                                             *)
NoLostInvalidation ==
  WindowOpen /\ HasFrame =>
    \A p \in Client :
      \/ shown[p] = Picture(p)
      \/ p \in invalid \cup unseen
      \/ \E rect \in Notifications : p \in InvalidPixels(rect)

Replaces(t, older, newer) ==
  /\ t \in DOMAIN framebuffer \cap DOMAIN framebuffer'
  /\ framebuffer[t][2] = newer /\ framebuffer'[t][2] = older
  /\ older < newer

(* A FULL_FRAME never overwrites a patch that arrived after it (the comment *)
(* at receiver.c:724: it "must never race a later region patch").           *)
FullNeverOverwritesLater ==
  [][\A t \in DOMAIN framebuffer : \A older, newer \in 1..Len(wire) :
       Replaces(t, older, newer) => wire[older].type # "FULL_FRAME"]_receiverVars

(* A patch that arrived before a FULL_FRAME never overwrites it (the comment *)
(* at receiver.c:702: "only FULL_FRAME messages need strict ordering").      *)
FullNeverOverwrittenByEarlier ==
  [][\A t \in DOMAIN framebuffer : \A older, newer \in 1..Len(wire) :
       Replaces(t, older, newer) => wire[newer].type # "FULL_FRAME"]_receiverVars

(* main frees the decode queue, the framebuffer and the locks only when the *)
(* threads that use them have returned (receiver.c:1008-1029).              *)
ReceiverNoUseAfterFree ==
  uiPc \in {"destroy", "exit"} =>
    Missing(ioPc) /\ \A w \in Decoders : Missing(decodePc[w])

(* While the window is open, it ends up showing the framebuffer, but for    *)
(* the pixels whose notification or painting was lost.                      *)
DisplayCatchesUp ==
  <>[](WindowOpen /\ HasFrame =>
         \A p \in Client \ unseen : shown[p] = Picture(p))

(* When the window is closed or the session ends, for whatever reason, the  *)
(* whole receiver ends.  The exception is a WM_CLOSE that is lost when the  *)
(* session ends: the I/O thread posts it once and looks at no result        *)
(* (receiver.c:824), so the window stays until the user closes it, and then *)
(* the receiver ends.                                                       *)
ReceiverStops ==
  stopEvent \/ ioPc \in {"shutdown", "done", "unheard"} ~>
    uiPc = "exit" \/ (ioPc = "unheard" /\ WindowOpen)
=============================================================================
