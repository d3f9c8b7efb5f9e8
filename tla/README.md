# Verification of uart_remote_desktop

TLA+ models of the two programs of this repository, a sender that captures its
screen and a receiver that mirrors it in a window, with the TLC runs that check
them on small instances and the TLAPS proofs of what holds for every instance.
Paths below are relative to the repository.

## The system

```
 sender.c                                              receiver.c
 screen -> capture thread                              I/O thread --full frames--> framebuffer
             | dirty-region scan                          | updates                  ^     |
             v                                            v                          |     v snapshot
        region queue -> encode pool -> send queue      decode queue -> decode pool --+   window (main)
                                          |               ^                 `-- posted rectangles --^
                                          v               |
                                      send thread ==== TCP or UART ====
      input thread <============ mouse and key events ============ window (main)
```

| Component | State it keeps | Operations | What makes it correct |
|---|---|---|---|
| Capture thread (`src/sender.c` 663-718) | previous frame | capture, compare, publish full frame on a change of size | every change ends up in a queue, or was dropped by a failure |
| Dirty-region scan (384-513) | dirty and consumed maps | grow and merge rectangles | rectangles disjoint, in the frame, covering exactly the dirty tiles |
| Region queue, send queue (255-353, 517-638), decode queue (`src/receiver.c` 93-195) | linked list, shutdown flag | push with priority, pop with wait, try_pop, shutdown, destroy | no node lost or doubled, every sleeper woken |
| Encode pool (`src/sender.c` 728-774) | the job of each worker | encode, build the message, queue it | one owner per job |
| Send thread (778-875) | batch | coalesce, send | batch bounded, nothing sent twice |
| Main of the sender (1144-1394) | stop flag, threads | start, wait, stop, join, free | always ends, frees nothing in use |
| I/O thread of the receiver (`src/receiver.c` 726-827) | the transport | receive, apply full frames, queue updates | full frames never overwrite later updates |
| Decode pool (673-722) | the job of each worker | decode, patch, notify | what is patched is also repainted |
| Window (`main` and the window procedure, 533-653, 829-1030) | framebuffer, snapshot, invalid region | invalidate, paint, close, join, free | the window catches up, always ends |
| Transport (`src/transport_tcp.c`, `src/transport_uart.c`, `src/protocol.c`) | socket or serial handle | open, send all, receive exactly, close | whole messages, in order; on a UART, damage that stays bounded |
| Remote input (`src/input.c`, `sender_input_thread`, 451-531 and 585-640 of `src/receiver.c`) | last move tick, mouse capture | forward, throttle, inject | what is released is released there, clicks land where the user clicked |
| Capture backends (`src/capture.c`, `src/capture_dxgi.c`) | backend in use, cached texture, bitmap and last frame | capture, fall back, shut down | pictures are current, no object leaks, objects exist when used |
| JPEG codec (`src/wic_jpeg.c`) | GDI+ token, encoder id; per call its objects and buffer | encode, decode, shut down | started once, not used after shutdown, sizes that do not wrap, nothing leaks |
| BER mode (883-1142 of `src/sender.c`, 323-379 of `src/receiver.c`) | generator and verifier states | send, compare, realign | counts only real errors |

The components meet in three ways: job queues between threads of one program,
the byte stream between the programs, and messages posted to the window.

Hard behaviours: pools of workers that finish in any order, on both sides;
full frames that overtake updates; failures that drop one job and go on; two
different orders of shutting down; threads asleep in a queue, in `accept` or in
`recv` when the program must end; a window that repaints only what it was told
to, scaled with a size that may have changed meanwhile; a screen that changes
while it is being captured; calls of the system that fail between any two
others; input over a line that loses bytes. PROJECT.json lists each with the
line where it bites.

## The modules

| Module | Models | Reads as |
|---|---|---|
| `JobQueue` | push and pop as operations on sequences | the atomic content of every critical section of the queues |
| `FifoWithPriority` | abstract queue | what the threads may rely on |
| `LinkedJobQueue` | the list, head and tail, condition variable, wake-ups, shutdown | implements `FifoWithPriority` |
| `DirtyRegions` | the rectangles of a dirty set, as a recursive function | definition of reference |
| `DirtyScan` | `sender_scan_and_publish_dirty_regions` loop by loop, in 32-bit arithmetic | computes `DirtyRegions` |
| `UpdateStream` | abstract sender: changes cut into jobs, each delivered once or dropped, in any order | what the pipeline promises |
| `SenderPipeline` | capture thread, encode pool, send thread, input thread's end, main | implements `UpdateStream` |
| `ReceiverPipeline` | I/O thread, decode pool, framebuffer, window, main | |
| `ScreenMirror` | both pipelines and the connection: extends `SenderPipeline`, instantiates `ReceiverPipeline` with what the sender can send | the promise of the whole system |
| `CaptureBackend` | one capture, call of the system by call, in GDI and in DXGI, and the fallback | a module with one caller (`CaptureSpec`) |
| `JpegCodec` | encoding and decoding in both backends, GDI+ and its two `INIT_ONCE`s | a module with many callers (`CodecSpec`) |
| `MediaSession` | the two programs as callers of those two, up to the shutdown | implements `CaptureSpec` and `CodecSpec` |
| `RemoteInput` | window procedure, header and payload on the wire, input thread, injection | |
| `BerLink` | the link test: writer, reader, main, echo | |
| `DataLemmas` | lemmas about queues, sequences, finite sets, least elements, recursion, quotients | cited by the other proofs |
| `QueueAndScanProofs`, `SenderPipelineProofs`, `ReceiverPipelineProofs`, `ScreenMirrorProofs`, `RemoteInputProofs`, `MediaSessionProofs`, `BerLinkProofs` | lemmas and theorems | checked by TLAPS; `QueueAndScanProofs` has those of `LinkedJobQueue` and `DirtyScan`, `MediaSessionProofs` also those of `CaptureBackend` and `JpegCodec` |
| `MC*` | finite instances | |

How state and steps correspond to the code:

* **Threads** are program counters (`capturePc`, `encodePc[w]`, `sendPc`,
  `mainPc`, `ioPc`, `decodePc[w]`, `uiPc`, `codecPc[t]`, `writer`, `reader`). One
  action goes from one access to shared state to the next: a critical section,
  a call that may block or fail, a flag read, a message posted. `"none"` is a
  thread that could not be created, `"done"` one that returned. Two steps merge
  what nothing can come between: the capture of a frame of another size and its
  push, and in the receiver (`IoRecvUpdate`) the receipt of an update, the unlocked
  test of `framebuffer.pixels` (`src/receiver.c` 775) and the push, as only the I/O
  thread itself replaces the framebuffer.
* **Pixels** are replaced by where they come from. In the sender a tile is
  mapped to the number of the capture in which it last changed (a whole frame
  of the new size counts as changed); in the receiver to the tile and the
  message that were drawn there. A job and its encoded message are the same
  record. A resolution is the set of its tiles, which the clipping of the last
  row and column does not change; `DirtyScan` has the pixels and the clipping.
  In `CaptureBackend` a picture is a version of the screen and a size.
* **pop_wait**: `LinkedJobQueue` has sleeping, waking and time-outs. The
  pipelines have one step that takes a job and one that finds none; the check
  of the shutdown flag is a separate step, as the lock is released between.
* **Failures** are members of `Faults` and `Failures`: an instance without a
  failure cannot take the branch. `"alloc"` also covers the allocations whose
  failure drops a single job. In `CaptureBackend` and `JpegCodec` every call
  of the system may fail.
* **Objects of the system** (devices, textures, bitmaps, streams, buffers) are
  counted by kind. `objects.held` is the pointers that `capture.c` and
  `capture_dxgi.c` keep, `objects.live` what exists: a pointer that is
  overwritten leaves its object alive. In `JpegCodec` the table `Calls` says of
  each call what it takes and what its `goto cleanup` gives back.
* **Sockets**: `send_all` delivers the batch, or fails after any number of whole
  messages; it blocks while the peer does not read (`"stalled"`).
  `recv_exact` delivers a message or fails. Closing either end fails the other.
  `RemoteInput` cuts a message into the pieces its reader tells apart, and
  its link may stop in the middle or lose a piece; `BerLink` has the bytes.
* **The window**: `WM_PAINT` comes when no posted message is left, and validates
  the whole window. A rectangle is scaled when it is handled. `StretchDIBits`
  makes a client pixel of the framebuffer tiles it overlaps. `UpdateWindow` paints
  once before the message loop, whatever has been posted by then. The size of the
  window is fixed; `WM_SIZE` only invalidates everything.
* **Positions** of the mouse are one-dimensional: both axes are treated alike.
* Recorded histories are not in the code and serve the properties only: `wire`
  and `lost` (what was sent, what was dropped), `unseen` (pixels whose
  notification or painting was lost), `"unheard"` of `ioPc` (the I/O thread has
  returned and its `WM_CLOSE` was lost), `seen` (pictures on the screen during a
  call), `written` (bytes the encoder wrote), `behind`, `excused` and `garbage`
  of the input, `lost` and `inserted` of the link test.

Definitions whose comment names them a mutant change one definition the way a
plausible bug would. They are not part of any specification; each shows that
some property would notice.

## The runs

Every property below is broken by a mutant of the code it is about.

| Run | Instance | Shows |
|---|---|---|
| `sender` | 2 workers, 2 captures, sizes 2x1 and 1x1, failures of capture, encoder, memory and peer | type invariant; `NothingVanishes`: the newest content of each tile is on its way, sent, or dropped by a failure; `OneOwner`; `QueuesOrdered`; `BatchBounded`; `NoUseAfterFree`; the refinement of `UpdateStream` |
| `sender_live` | 1 worker, 2 captures, two sizes, any thread missing, stalled or failing peer, fair | updates leave in the order of their captures, the full frame ahead of later updates, everything is eventually sent, and the sender ends when its capture or its send thread does, with the one exception below |
| `sender_overtaken` | 2 workers, no failure | violated: see the findings |
| `queue` | 3 jobs, one with priority, 2 consumers or the single coalescing one, fair without time-outs | list well formed, refinement of the sequence, no lost wake-up |
| `scan` | all changes of frames of 4x2, 3x3 and 1x4 pixels, tile sizes 1, 2, 3, 5, 7, word of 3 bits | rectangles disjoint and in the frame, cover exactly the dirty tiles, equal to the reference |
| `receiver` | 2 decoders, 3 messages, a frame of 3 tiles in 2 client pixels, failures of memory, opening, peer, threads and `PostMessage`, that of `WM_CLOSE` included, fair | type invariant; nothing shown is stale unless its notification was lost; the window catches up; a full frame never overwrites a later update; nothing freed in use; the receiver ends, with the one exception below |
| `receiver_earlier` | 1 decoder | violated: see the findings |
| `mirror_one` | 1 worker and 1 decoder, 2 captures, one size, paintings without memory, threads that are missing, a close that is lost | no tile goes back in time; the settled window shows the screen |
| `mirror_decoders` | 1 worker, 2 decoders, 2 captures | violated: see the findings |
| `media` | both programs, both backends of each module, 2 codec threads, 3 calls, a screen of two sizes that changes and loses access | `NothingLeaks`, `CallsUseWhatTheyHold`, `CapturedIsCurrent` of the capture; `HandlesBalance`, `GdiplusUsedWhileUp`, `PictureFits`, `PictureIsWhole` of the codec |
| `input` | positions 0 and 1 inside the window and 2 outside, the left button, one key, one fault of the link, fair input thread | what is released does not stay down (`ReleasedEverywhere`, `ReleasesArrive`), `ClicksLand`, `DamageIsBounded` |
| `ber` | chunks of 4 bytes, search of 2, 4 chunks, 2 faults, TCP and UART, fair | `IntactChunkRealigns`, `CountsAreDeserved`, `BerEnds` |

Bounds. `MaxCaptures`, `MaxVersions`, `MaxMessages`, `MaxCalls`, `MaxChunks`,
`MaxFaults`, `MaxWaiting` and `MaxWritten` bound counters; the rest are sizes.
Two workers are the least that reorder. Two captures let an update be queued
behind, encoded beside and batched with another and with a resized frame. A
batch limit of 3 with messages of 2 and 4 gives batches of one and of several
messages, and batches over the limit. The scan's frames have inner, last and
cut tiles and rectangles of each shape; with a word of 8 the tile sizes 5 and 7
make the rounding up wrap. In `receiver` the middle one of three tiles is drawn
in both client pixels, so rounding matters; frames of different sizes, which
TLC cannot afford beside the failures, are covered by the theorem
`DisplayKeepsUp`. Three calls let a capture reuse what a second one cached after
a first filled it; two codec threads race to the first start while the
other uses it; the pictures of `media` include the largest that fits its word
of 16 values, one that is too high, one so wide that a row wraps, and empty
ones. One input message may wait behind another, and a lost piece shifts the
reader into the next message. In `ber` a loss may be within the search, in two
parts, or beyond it. Symmetry is used for workers, decoders and codec threads
in runs without liveness only.

Fairness. Each thread that can take a step eventually does (weak fairness per
thread): the code leaves that to the scheduler of the system. Nothing is
assumed of the screen, the peer, the user, the failures, the faults of the link
or the 1000 ms time-outs. The receiver's fairness includes that a sender connects
while it waits in `accept`: without it the receiver does not end when its
window is closed, see the hazards. In `BerLink` the echoing receiver is fair too.
`EverythingSent` and `DisplayCatchesUp` are stated for a screen that stops
changing, which the bounds make it do.

`ShutdownCompletes` has an exception that is in the code: after a complete
start, main joins the send thread before it closes the transport
(`src/sender.c` 1375-1378), so a peer that stays connected and does not read
holds the end up; on the failed path it closes first. The link test closes
first as well, and `BerEnds` has no exception. What it claims starts with the stop
flag or a failed start: the end of the input thread alone sets no flag and ends
nothing until a send fails.

`ReceiverStops` has one too. The I/O thread ends the session with a `WM_CLOSE` that it
posts once, without looking at the result (`src/receiver.c` 824). When that
post fails the I/O thread has returned and the window stays, with the last
picture, until the user closes it, which the property does not demand of the
user. Once the window is closed the receiver ends: the stop event is then set,
and the exception asks for an open window.

What the other properties leave out is what the code gives up. `NothingVanishes`
and `SettledDisplayMatches` exempt rectangles that a failure drops: they are not sent
again until they change again. `NoLostInvalidation`, `DisplayCatchesUp` and
`SettledDisplayMatches` exempt pixels whose notification or painting was lost.
`CoversChanges` claims the cover where the rounding up does not wrap.
`UpdatesInOrder`, `FullFrameAhead` and the promise of the session are claims about one
worker. In each case the property shows that nothing else goes wrong; the
notes of the hazards in PROJECT.json say which hazard is left open by it.

Paintings that find no memory are in `mirror_one` and not in `receiver`, whose
state space they more than double; the theorem `DisplayKeepsUp` covers them.
`CapturedIsCurrent` rests on one property of the platform: `AcquireNextFrame`
times out only when nothing has changed on the screen.

What the properties of the input leave out is what the code does not promise:
only the left button captures the mouse, so another button released outside
the window stays down on the sender; so does what is held when the window loses
the focus or is minimised, or when the connection ends. A click lands where the
last forwarded move was, which is not where the user clicked when the throttle
dropped the last move (`behind`).

The comment at `src/capture_dxgi.c` 193 says that after a loss of access the
duplication is initialised again on the next call. `capture.c` gives DXGI up for
good instead (its own comment at 173 says so), and it must: the device that
`ACCESS_LOST` leaves would be overwritten by the next initialisation. The mutant
`FallBackForThisCall` of `media` shows that leak.

## Findings

1. `sender_overtaken`. The comment at `src/sender.c` 297 says that full frames
   are encoded and sent ahead of pending updates. The priority holds inside
   each queue only: a second worker can encode and queue an update while the
   first still encodes the full frame. The receiver takes the first message
   it gets as the whole frame (`src/receiver.c` 775), so the update is shown
   alone until the full frame arrives.
2. `receiver_earlier`. The comment at `src/receiver.c` 700-702 says that full
   frames need strict ordering. An update received before a full frame may
   still be decoding when the I/O thread replaces the framebuffer, and is then
   drawn over the newer frame.
3. `mirror_decoders`. The same comment says that reordering corrects itself on
   the next update. It does when the same tile changes again; otherwise the
   older content stays, as the sender has recorded the newer one as sent, and
   the displayed image does not match the screen (acceptance criterion 5 of
   `agent/requirements.md`).

TLC finds the third also with one decoder and two encode workers, and with one
of each when two full frames wait together: each is pushed to the head, so the
newer one is sent first and the display settles on the older resolution.
`mirror_one` therefore has one resolution, one worker and one decoder: it
states how far the promise does hold.

## The proofs

**The sender.** `SenderPipelineProofs` proves, from `SenderAssumption` alone, for
any number of workers, any resolutions, any number of captures, any failures
and any batch limit:

| Theorem | Property | Argument |
|---|---|---|
| `TypeCorrect` | `TypeOK` | `TypeOK` is inductive in five parts, each of which depends on a few variables (`TypeParts`); every other theorem uses it |
| `NoContentVanishes` | `NothingVanishes` | no step removes a job from the union of what is on its way, sent and dropped (`EncodeKnown`, `SendKnown`, `MainKnown`, `CaptureKnown`), and a capture adds jobs for all the tiles it changed (`ChangeKnown`, from `CutsExactly`, and `ResizeKnown`) |
| `QueuesStayOrdered` | `QueuesOrdered` | not inductive alone: `OrderInv` adds that no job of the region queue is newer than the last capture, so a full frame at the head is newer than all behind it and an update at the tail as new as any before it |
| `NothingUsedAfterFree` | `NoUseAfterFree` | not inductive alone: `JoinedIsGone` says, for every point of main's two orders, which threads it has joined; a thread that is gone stays gone (`GoneStable`) |
| `BatchesBounded` | `BatchBounded` | inductive: a message is added only below the limit |
| `EveryJobHasOneOwner` | `OneOwner` | `Owned`: the seven places a job can be at, from the wire back to what the scan has still to cut, are pairwise disjoint, no place has a job twice, and no job is of a capture still to come, so that a new job is in no place; each step moves jobs from one place to the next (`Moved`) |
| `PipelineIsAStream` | `ImplementsUpdateStream` | with `Owned`, each step is a step of `UpdateStream` or a stutter: a capture cuts its changes into new, disjoint jobs, a send delivers what is undelivered, a failure drops what is neither |
| `UpdatesKeepOrder`, `FullFramesKeepAhead` | `UpdatesInOrder`, `FullFrameAhead` | for one encode worker (`OneWorker`): `PipeOrdered`, what is nearer to the wire may precede what is farther. A worker holds at most one job, which is what a second worker breaks (the first finding) |

`SenderAssumption` asks that the scan's rectangles cut the dirty tiles exactly
(`CutsExactly` of `DirtyRegions`), which `MergedRegionsCutExactly` below proves of
`MergedRegions` and `ScanIsMergedRegions` carries over to the loops of the code. It
also asks that there is a worker and finitely many, that no resolution is empty,
and that sizes and limits are positive.

**The queues.** `QueueAndScanProofs` proves, for any finite set of jobs and any
consumers, that the pointers are those of a list (`ListStaysIntact`) and that the
linked list implements the sequence the pipelines use (`ListIsAQueue`). The
invariant `ListInv` says that there is a sequence without repetition through which
the pointers lead from head to tail (`Leads`), and that each job that was pushed
is in it, in one hand, or freed. `ChainOf`, the sequence of the refinement
mapping, is that sequence (`ListIsChain`); a push relinks one job, of which no other job of the
list is the successor, because the list has no repetition.

**The scan.** `QueueAndScanProofs` also proves, for every frame, tile size, word and set of
changed pixels:

| Theorem | Property | Argument |
|---|---|---|
| `QueuedRegionsAreDisjoint` | `RegionsAreDisjoint` | `ScanInv`: the rectangle that grows has only open tiles (`GrowsOpen`), and a pixel is queued exactly when its tile is consumed (`QueuedIsConsumed`), so what is queued next overlaps nothing |
| `ScanFindsEveryChange` | `CoversChanges` | the same invariant, with `PassedIsClosed`: each dirty tile the loops have passed is consumed |
| `ScanIsMergedRegions` | `ComputesMergedRegions` | `MergeInv`: what is queued, followed by `MergedRegions` of the tiles still open, is `MergedRegions` of all dirty tiles; the loops stop growing only where the reference does (`Grown`) |
| `MergedRegionsCutExactly` | (the assumptions of the sender and of the session) | by induction on the number of open tiles: the rectangle grown from the first open tile is full and holds that tile and open tiles only (`RegionHoldsFirst`), so it is disjoint from what the rest is cut into (`CutsOneMore`) |

The last two need to know what a recursive function over sets of tiles is. The
region of the first open tile takes at least that tile away (`FewerOpen`), so by
induction on the number of open tiles the recursion has a solution
(`MergesExists`) and only one (`MergesUnique`), and `MergedRegions` unfolds
(`MergedUnfolds`). The library's theorems on induction take an operator as
parameter, which no installed prover can instantiate; `DataLemmas` states
what is needed of sets and functions instead: a nonempty set of naturals has a
least element (`LeastElement`, from `FS_StrictSubsetOrderingWellFounded`), a set of
naturals with 0 and all successors is `Nat` (`EveryNatural`), and a step can be
iterated (`Recursion`).

**The receiver.** `ReceiverPipelineProofs` proves, from `ReceiverAssumption` (every
message is a finite, nonempty, full rectangle of tiles; the window is not empty),
for any number of decode workers and messages, any sizes of frames, regions
and window, and any failures:

| Theorem | Property | Argument |
|---|---|---|
| `ReceiverTypeCorrect` | `ReceiverTypeOK` | inductive with `FrameIsRegion`: a patch keeps the frame a rectangle because `Patched` clips it |
| `ReceiverFreesLast` | `ReceiverNoUseAfterFree` | `JoinedInOrder`: main joins the I/O thread before the workers |
| `DisplayKeepsUp` | `NoLostInvalidation` | a patch changes the picture only at pixels of its scaled rectangle (`ScaledCovers`, `PatchesOnly`, `PatchCovered`), a new frame invalidates them all (`FrameCovered`), and every other step keeps what is covered covered (`KeepsCoverage`) |
| `FramesKeepTheirPlace` | `FullNeverOverwritesLater` | `AppliesTheLast`: the I/O thread applies only what it has read last, and `PoolInOrder`: no full frame is in the decode pool |

The heart of `DisplayKeepsUp` is the arithmetic of the `SS_APP_FRAME_READY` handler
(`src/receiver.c` 562-568): rounded down at the left, and down plus one at the right, the scaled rectangle contains every
client pixel that overlaps a changed tile, for all sizes. When the frame's size
changes between the posting and the handling, the notification of the full
frame, which covers the window, is still to be handled or already painted.

**The session.** `ScreenMirrorProofs` proves the promise of the two programs
together, for any screen, any number of captures, any window and any batch limit:

| Theorem | Property | Hypotheses | Argument |
|---|---|---|---|
| `TilesNeverGoBack` | `NoTileGoesBack` | one encode worker, one decode worker, one resolution | `OrderedInv`: the invariants of the sender under which it sends in the order of the captures (`PipeOrdered`), the receiver's own (`ReceiverInv`), and `AppliesInOrder`: what is read and not yet applied is newer than all that has been drawn |
| `DisplaySettles` | `SettledDisplayMatches` | the same, and no rectangle dropped: memory for every job and message, an encoder and a decoder that do not fail | `MirrorInv` adds what the window needs: nothing vanishes (`NothingVanishes`), what is dropped is dropped when nothing can be sent any more (`DroppedAtTheEnd`), the first message is the whole screen (`FullFirst`, `WholeFirst`), and `Applied`: each tile shows a message at least as new as every one that was read, has that tile, and is not pending. Settled, nothing is pending, so the tile is as new as its last capture; `DisplayKeepsUp` carries that from the framebuffer to the pixels |

The two invariants are needed together: the order on the wire alone says nothing of
the decode worker's hands, and the receiver alone knows nothing of captures. The
proof uses the theorems of both programs as they stand. The sender's
lemmas apply since a step of the session is for the sender one of its own, or a
failure of its link (`PipelineStep`). The receiver's are instantiated with the
sender's messages (`RP`, `SentIsReceivable`); for the receiver a step of the session is one of its
own, or the wire growing (`SenderKeepsInv`). `MirrorAssumption` asks that what the
scan cuts are full rectangles, which `MergedRegionsCutExactly` proves of
`MergedRegions`, that every screen has the tile at the origin, that there is a
decode worker and that the window is not empty.

The hypotheses on workers and resolutions are not made for the proof: `mirror_decoders`
and the paragraph that ends the findings show that each is needed. The last one
is what the code gives up when it drops a rectangle that it has already recorded
in the previous frame (see the hazard at `src/sender.c` 707).

**The input.** `RemoteInputProofs` proves, from `InputAssumption`, for any
buttons, keys, positions and sizes, any number of faults and of messages that
wait:

| Theorem | Property | Argument |
|---|---|---|
| `ReleasesReachTheSender` | `ReleasedEverywhere` | `ReleasesTold`: of each key, and of the left button, either the release is excused, or it is down and the window will see its release, or the last word on it is a release (`Told`) |
| `ClicksLandWhereSeen` | `ClicksLand` | `ClicksTold`: when the input thread comes to a click, the last word on the pointer is the move to where the click was (`PointsTo`); `OnScreen` |
| `OneCutOneGarbage` | `DamageIsBounded` | `DamageTold`: with no fault every piece on the wire follows the one before it; with one, all but one joint do, and at the broken one pieces are missing (`SoundBut`) |

What reaches the sender depends on everything that is still on the wire, so the
first two speak of the last word (`LastWord`): before a given place a whole
message with one of the good events is on the wire and no bad event comes after it, or
the sender's state is good already and no bad event is on the wire at all. An
append that is not bad keeps the last word and a good one gives it; a read
keeps it or turns it into the state. A lost piece can destroy it, and then the
lost event is excused or makes the header after it invalid, which ends the input
thread (`Followed`). For the third, the header that follows a
payload read across the broken joint has its magic number in the wrong place:
the broken joint was behind the reader, and all that is ahead is sound but shifted.

`ClicksLandWhereSeen` assumes `FrameWidth <= ScreenWidth`: `src/capture.c` 119 and
`src/input.c` 38 read the same `GetSystemMetrics(SM_CXSCREEN)`. Without it a point
of the frame could be beyond SendInput's range.

**The link test.** `BerLinkProofs` proves, from `BerAssumption`, for any sizes of
chunks and of the search, any number of chunks and faults, and a link that fails or
ends at any time:

| Theorem | Property | Argument |
|---|---|---|
| `CountsDeserved` | `CountsAreDeserved` | `Deserved`: no byte on its way is farther ahead of its place than bytes were lost (`NotAhead`), and the reader is ahead of what it has checked by at least its resynchronisations and at most that; `Clean`: without a fault every byte is at its place (`Punctual`); `Counted`: what is checked and on its way was sent or inserted |
| `IntactChunksRealign` | `IntactChunkRealigns` | `Aligned`: as long as nothing was inserted, no byte on its way is behind what the reader expects, and none farther ahead of its place than one that comes after it (`Rises`). So an intact chunk begins between 0 and the lost bytes ahead, where the search finds it (`ShiftFinds`) |

The invariant speaks of one stream (`Flow`): the reader's buffer, then the bytes on
their way back, then those on their way out, then the generator's next byte.
Whatever the link does to a chunk is a byte run left out, a byte changed or a
byte put in somewhere in that stream (`Struck`), and one lemma (`StruckKeeps`) says
what is kept; a send lets the stream go on (`GoesOnOf`), a comparison
takes the front of it away (`MovesOnOf`). When a call has failed or the receiver has
ended, only what can still reach the reader counts (`FlowSize`). The reader
shifts only to where at least one byte of its buffer is the one expected
(`ShiftMatches`), which is what keeps it from running ahead of the stream.

**Capture and codec.** `MediaSessionProofs` first proves the properties of the
`media` run of `CaptureBackend` and `JpegCodec` alone, under the most general
caller, and then that the programs are such callers
(`MediaUsesCapture`, `MediaUsesCodec`: main shuts a module down only when nobody is
in it) and so that the properties hold of
`MediaSpec` (`MediaCaptures`, `MediaEncodes`).

| Theorem | Property | Argument |
|---|---|---|
| `CaptureTypeCorrect`, `CaptureLeaksNothing`, `CapturesHoldWhatTheyUse`, `CapturesAreCurrent` | `CaptureTypeOK`, `NothingLeaks`, `CallsUseWhatTheyHold`, `CapturedIsCurrent` | `CaptureInv`: what is alive is what is held (`Exact`); once started, DXGI has device and duplication, and before that nothing (`DxgiReady`); a kept last frame is the picture the duplication gave last, in the size of the texture (`DxgiFresh`); what a call has read was on the screen during the call (`CallFresh`) |
| `CodecTypeCorrect`, `CodecGivesBack`, `GdiplusStartedOnce` | `CodecTypeOK`, `HandlesBalance`, `GdiplusUsedWhileUp` | `CodecInv`: at each point a thread holds exactly what the table says (`Holds`), one thread at a time runs the once-callback, and no thread is past it before it is done (`GdiplusInv`) |
| `DecodedPicturesFit`, `EncodedPicturesWhole` | `PictureFits`, `PictureIsWhole` | `SizesInv`: a writer that has not failed has every byte; `FitsIsEnough`: the check with two divisions keeps width * 4 * height below the word, for every word size |

What the proofs add to the runs is any number of threads, calls, changes of the
screen, words and sizes.

## What is only model-checked

Liveness (`EverythingSent`, `ShutdownCompletes`, `DisplayCatchesUp`,
`ReceiverStops`, `EveryJobFreed`, `ShutdownReachesAll`, `ReleasesArrive`, `BerEnds`),
which TLAPS does not handle. Every invariant and action property of the passing
runs is stated by a theorem. With more workers or resolutions the promise of
the session does not hold (see the findings), so there is nothing to prove there.

## What is not modelled

* The command line: parsing without interaction. `config` is an uninitialised
  local and only `--debug` sets its flag, see the hazards; the flag reaches no
  modelled state.
* Debug statistics and the throughput window: counters under a lock of their
  own that are only printed.
* The calls inside the opening of a socket or a serial port, and the loops over
  partial sends and receives: each ends in the success or failure that the
  pipelines have as one step.
* The early returns of the sender's main before its threads exist
  (`src/sender.c` 1220-1281): `SenderPipeline` starts when the first frame is queued.
  `MediaSession` has them, as they return without shutting capture and codec down,
  like the failed start of both programs.
* The tests of arguments in the codec (`src/wic_jpeg.c` 208, 263, 410, 468): both
  programs pass pictures and buffers that pass them. `GlobalLock` and `LockBits`
  with their unlocking, between which there is no branch, are part of the
  call they belong to and not counted as objects.
* A change of resolution while input is forwarded: `FrameWidth` and `ScreenWidth` are
  constants of `RemoteInput`. A frame of DXGI may have another size than
  `GetSystemMetrics` reports, which the hypothesis of `ClicksLandWhereSeen` excludes.
* Pixels, colours and the content of JPEG data.
* Vendored code (stb) and the smoke test.

## Plan

Done: queues, scan, both pipelines and their composition, capture, codec, input,
link test; every safety property of the passing runs proved.

Worth adding: the partial transfers of the TCP framing; a weaker promise for a
session with several workers or resolutions.
