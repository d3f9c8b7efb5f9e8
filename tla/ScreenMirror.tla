---------------------------- MODULE ScreenMirror ----------------------------
(***************************************************************************)
(* One session: the sender's pipeline and the receiver's pipeline, joined  *)
(* by the messages on the wire and by the fate of the connection.  Neither *)
(* program answers the other, so this is where the promise of the system   *)
(* lies: once everything has settled, the window shows the screen.         *)
(***************************************************************************)
EXTENDS SenderPipeline

CONSTANTS
  Decoders, ClientWidth, ClientHeight, Failures   \* of the receiver

VARIABLES
  received, receiverLink, ioPc, ioNumber, decodeQueue, decodeShutdown,
  decodePc, decodeJob, framebuffer, posted, invalid, shown, unseen,
  stopEvent, uiPc

\* What a message may show: a whole screen, or a rectangle that the scan cuts.
CutCells ==
  Resolutions
    \cup UNION {UNION {ToSet(Regions[grid][dirty]) : dirty \in SUBSET grid} :
                  grid \in Resolutions}

Sent == {m \in Job : m.cells \in CutCells}

R == INSTANCE ReceiverPipeline WITH Messages <- Sent, MaxMessages <- 0

\* The sender cuts rectangles out of a screen that starts at the origin.
ASSUME MirrorAssumption ==
  /\ Decoders # {}
  /\ \A cells \in CutCells : R!IsRegion(cells)
  /\ \A grid \in Resolutions : <<0, 0>> \in grid
  /\ ClientWidth \in Nat \ {0} /\ ClientHeight \in Nat \ {0}
  /\ Failures \subseteq R!FailureKinds

senderOnly ==
  <<previousFrame, captures, capturePc, unpublished, stopRequested,
    regionQueue, regionShutdown, encodePc, encodeJob, sendQueue, sendShutdown,
    sendPc, batch, batchSize, link, lost, inputPc, mainPc, startupFailed>>

receiverOnly ==
  <<received, receiverLink, ioPc, ioNumber, decodeQueue, decodeShutdown,
    decodePc, decodeJob, framebuffer, posted, invalid, shown, unseen, stopEvent,
    uiPc>>

mirrorVars == <<senderOnly, wire, receiverOnly>>

-----------------------------------------------------------------------------
ReceiverIdle ==
  /\ received = Len(wire)
  /\ ioPc \in {"check", "recv"}
  /\ decodeQueue = <<>>
  /\ \A w \in Decoders : decodeJob[w] = R!NoJob

\* The session is on, and everything captured has been sent, applied and painted.
Settled ==
  /\ link = "open"
  /\ InFlight = {}
  /\ ReceiverIdle
  /\ posted = <<>> /\ invalid = {}

SenderStep == Next /\ UNCHANGED receiverOnly

ReceiverStep == R!ReceiverStep /\ UNCHANGED senderOnly

\* One end of the connection is closed; the other end fails.
PeerClosed ==
  \/ /\ receiverLink \in {"failed", "closed"} /\ link \in {"open", "stalled"}
     /\ link' = "failed"
     /\ UNCHANGED <<previousFrame, captures, capturePc, unpublished,
                    stopRequested, regionQueue, regionShutdown, encodePc,
                    encodeJob, sendQueue, sendShutdown, sendPc, batch,
                    batchSize, lost, inputPc, mainPc, startupFailed, wire,
                    receiverOnly>>
  \/ /\ link \in {"failed", "closed"} /\ receiverLink = "open"
     /\ receiverLink' = "failed"
     /\ UNCHANGED <<senderOnly, wire, received, ioPc, ioNumber, decodeQueue,
                    decodeShutdown, decodePc, decodeJob, framebuffer, posted,
                    invalid, shown, unseen, stopEvent, uiPc>>

MirrorInit == Init /\ R!ReceiverInit

MirrorNext == SenderStep \/ ReceiverStep \/ PeerClosed

MirrorSpec == MirrorInit /\ [][MirrorNext]_mirrorVars

-----------------------------------------------------------------------------
(* Properties. *)

(* The framebuffer shows a tile of the screen when its content is the       *)
(* screen's tile, as new as the last capture of it.                         *)
FramebufferMatches ==
  /\ DOMAIN framebuffer = DOMAIN previousFrame
  /\ \A t \in DOMAIN framebuffer :
       /\ framebuffer[t][1] = t
       /\ wire[framebuffer[t][2]].shot >= previousFrame[t]

(* Once everything has settled, the window shows the screen (acceptance     *)
(* criterion 5 of requirements.md: "The displayed image matches the source  *)
(* screen."), but for pixels whose notification or painting was lost.       *)
SettledDisplayMatches ==
  Settled /\ R!WindowOpen =>
    FramebufferMatches /\ \A p \in R!Client \ unseen : shown[p] = R!Picture(p)

(* With one decode worker, no tile of the framebuffer goes back to an older *)
(* message, and with one encode worker and one resolution, messages are     *)
(* sent in the order of their captures: no tile goes back in time.          *)
NoTileGoesBack ==
  [][\A t \in DOMAIN framebuffer \cap DOMAIN framebuffer' :
       wire'[framebuffer[t][2]].shot <= wire'[framebuffer'[t][2]].shot]_mirrorVars
=============================================================================
