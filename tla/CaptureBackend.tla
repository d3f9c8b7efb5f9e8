--------------------------- MODULE CaptureBackend ---------------------------
(***************************************************************************)
(* Screen capture, src/src/capture.c and src/src/capture_dxgi.c: a call    *)
(* tries DXGI desktop duplication when it is selected and has not failed   *)
(* yet, and GDI otherwise.  The screen changes between any two steps of a  *)
(* call.                                                                   *)
(*                                                                         *)
(* A picture is the version of the screen it shows and its size.  An       *)
(* object of the system (a device, a texture, a bitmap, a buffer) is       *)
(* counted by kind: how many are alive, and whether the module still has a *)
(* pointer to one.                                                         *)
(***************************************************************************)
EXTENDS Integers, FiniteSets

CONSTANTS
  ScreenSizes,       \* the resolutions the screen may have
  MaxVersions,       \* bound of the model: versions of the screen
  CaptureBackends    \* the backends of this instance

ASSUME CaptureAssumption ==
  /\ ScreenSizes # {}
  /\ MaxVersions \in Nat \ {0}
  /\ CaptureBackends # {} /\ CaptureBackends \subseteq {"gdi", "dxgi"}

VARIABLES
  captureBackend,    \* g_capture_backend
  dxgiUnavailable,   \* g_dxgi_unavailable
  initialized,       \* g_state.initialized
  dxgiSize,          \* g_state.width and height; NoSize is 0 x 0
  gdiSize,           \* g_gdi_state.width and height
  objects,           \* [live: kind -> how many are alive, held: the pointers]
  lastFrame,         \* the picture in last_frame_pixels
  screen,            \* the picture on the screen
  acquired,          \* the picture the duplication gave last
  accessLost,        \* the duplication in use is not valid any more
  callPc,            \* the call in progress
  gdiWanted,         \* the size read by the GDI capture in progress
  frame,             \* the picture in the caller's frame
  seen               \* history: the pictures on screen since the call began

screenVars == <<screen, accessLost>>
captureVars == <<captureBackend, dxgiUnavailable, initialized, dxgiSize,
                 gdiSize, objects, lastFrame, screen, acquired, accessLost,
                 callPc, gdiWanted, frame, seen>>

-----------------------------------------------------------------------------
DxgiKinds == {"device", "duplication", "staging", "lastFrame"}
GdiKinds == {"memoryDc", "bitmap"}
CallKinds == {"acquiredFrame", "screenDc", "pixels"}   \* of one call
ObjectKinds == DxgiKinds \cup GdiKinds \cup CallKinds

\* A pointer that is overwritten leaves its object alive; freeing is by
\* pointer, and a pointer is cleared when it is freed.
Take(o, kind) ==
  [live |-> [o.live EXCEPT ![kind] = @ + 1], held |-> o.held \cup {kind}]
Drop(o, kinds) ==
  [live |-> [k \in ObjectKinds |->
               IF k \in kinds \cap o.held THEN o.live[k] - 1 ELSE o.live[k]],
   held |-> o.held \ kinds]

Has(kind) == kind \in objects.held

NoSize == "none"
NoPicture == [version |-> 0, size |-> NoSize]

Versions == 1..MaxVersions

CaptureInit ==
  /\ captureBackend \in CaptureBackends
  /\ dxgiUnavailable = FALSE
  /\ initialized = FALSE
  /\ dxgiSize = NoSize
  /\ gdiSize = NoSize
  /\ objects = [live |-> [k \in ObjectKinds |-> 0], held |-> {}]
  /\ lastFrame = NoPicture
  /\ screen \in [version: {1}, size: ScreenSizes]
  /\ acquired = NoPicture
  /\ accessLost = FALSE
  /\ callPc = "idle"
  /\ gdiWanted = NoSize
  /\ frame = NoPicture
  /\ seen = {}

-----------------------------------------------------------------------------
(* The screen. *)

ScreenUnchanged ==
  UNCHANGED <<captureBackend, dxgiUnavailable, initialized, dxgiSize, gdiSize,
              objects, lastFrame, acquired, callPc, gdiWanted, frame>>

\* A change of mode ends the duplication.
ScreenChanges ==
  /\ screen.version < MaxVersions
  /\ \E size \in ScreenSizes :
       /\ screen' = [version |-> screen.version + 1, size |-> size]
       /\ accessLost' = (accessLost \/ size # screen.size)
  /\ seen' = seen \cup {screen'}
  /\ ScreenUnchanged

\* The lock screen, or a reset of the graphics processor.
AccessIsLost ==
  /\ Has("duplication") /\ ~accessLost
  /\ accessLost' = TRUE
  /\ UNCHANGED <<screen, seen>> /\ ScreenUnchanged

-----------------------------------------------------------------------------
(* ss_capture_primary_screen. *)

UseDxgi == captureBackend = "dxgi" /\ ~dxgiUnavailable

CaptureCall ==
  /\ callPc = "idle"
  /\ frame' = NoPicture
  /\ seen' = {screen}
  /\ callPc' = IF ~UseDxgi THEN "gdiSize"
               ELSE IF initialized THEN "acquire" ELSE "init"
  /\ UNCHANGED <<captureBackend, dxgiUnavailable, initialized, dxgiSize,
                 gdiSize, objects, lastFrame, acquired, gdiWanted, screenVars>>

\* The caller frees the pixels once it is done with them.
CaptureReturns ==
  /\ callPc \in {"returned", "failed"}
  /\ callPc' = "idle"
  /\ objects' = Drop(objects, {"pixels"})
  /\ frame' = NoPicture
  /\ seen' = {}
  /\ UNCHANGED <<captureBackend, dxgiUnavailable, initialized, dxgiSize,
                 gdiSize, lastFrame, acquired, gdiWanted, screenVars>>

\* Mutant: GDI for this call only; the next one makes the duplication again, as
\* the comment at capture_dxgi.c:193 has it.
FallBackForThisCall ==
  /\ callPc = "fallback"
  /\ dxgiUnavailable' = FALSE
  /\ callPc' = "gdiSize"
  /\ UNCHANGED <<captureBackend, initialized, dxgiSize, gdiSize, objects,
                 lastFrame, acquired, gdiWanted, frame, seen, screenVars>>

\* The first failure of DXGI: GDI from now on, in this call already.
FallBack ==
  /\ callPc = "fallback"
  /\ dxgiUnavailable' = TRUE
  /\ objects' = Drop(objects, DxgiKinds)
  /\ initialized' = FALSE
  /\ dxgiSize' = NoSize
  /\ lastFrame' = NoPicture
  /\ callPc' = "gdiSize"
  /\ UNCHANGED <<captureBackend, gdiSize, acquired, gdiWanted, frame, seen,
                 screenVars>>

\* ss_capture_shutdown, by main.
CaptureShutdown ==
  /\ objects' = Drop(objects, GdiKinds \cup DxgiKinds)
  /\ gdiSize' = NoSize
  /\ initialized' = FALSE
  /\ dxgiSize' = NoSize
  /\ lastFrame' = NoPicture
  /\ UNCHANGED <<captureBackend, dxgiUnavailable, acquired, callPc, gdiWanted,
                 frame, seen, screenVars>>

-----------------------------------------------------------------------------
(* ss_capture_dxgi_capture.  Every call of the system may fail. *)

DxgiUnchanged ==
  UNCHANGED <<captureBackend, dxgiUnavailable, gdiSize, gdiWanted, seen, screen>>

DxgiFails(o) ==
  /\ objects' = o
  /\ callPc' = "fallback"
  /\ UNCHANGED <<initialized, dxgiSize, lastFrame, acquired, accessLost, frame>>
  /\ DxgiUnchanged

DxgiInit ==
  /\ callPc = "init"
  /\ objects' = Take(Take(objects, "device"), "duplication")
  /\ initialized' = TRUE
  /\ acquired' = NoPicture
  /\ accessLost' = FALSE
  /\ callPc' = "acquire"
  /\ UNCHANGED <<dxgiSize, lastFrame, frame>> /\ DxgiUnchanged

\* No device, or a device that cannot duplicate the output: ss_dxgi_release_device.
DxgiInitFails ==
  /\ callPc = "init"
  /\ \/ DxgiFails(objects)
     \/ DxgiFails(Drop(Take(objects, "device"),
                       {"staging", "duplication", "device"}))

\* Nothing has changed since the last frame: it is served back, when there is
\* one.  A new duplication may have nothing to give either.
AcquireTimeout ==
  /\ callPc = "acquire"
  /\ ~accessLost
  /\ acquired \in {screen, NoPicture}
  /\ Has("lastFrame")
  /\ frame' = [version |-> lastFrame.version, size |-> dxgiSize]
  /\ objects' = Take(objects, "pixels")
  /\ callPc' = "returned"
  /\ UNCHANGED <<initialized, dxgiSize, lastFrame, acquired, accessLost>>
  /\ DxgiUnchanged

\* No last frame, or no memory to serve it.
AcquireTimeoutFails ==
  /\ callPc = "acquire"
  /\ ~accessLost
  /\ acquired \in {screen, NoPicture}
  /\ DxgiFails(objects)

AcquireLosesAccess ==
  /\ callPc = "acquire"
  /\ accessLost
  /\ objects' = Drop(objects, {"duplication"})
  /\ initialized' = FALSE
  /\ callPc' = "fallback"
  /\ UNCHANGED <<dxgiSize, lastFrame, acquired, accessLost, frame>>
  /\ DxgiUnchanged

\* Any other error, or no texture behind the resource.
AcquireFails == callPc = "acquire" /\ DxgiFails(objects)

AcquireNextFrame ==
  /\ callPc = "acquire"
  /\ ~accessLost
  /\ acquired' = screen
  /\ objects' = Take(objects, "acquiredFrame")
  /\ callPc' = "staging"
  /\ UNCHANGED <<initialized, dxgiSize, lastFrame, accessLost, frame>>
  /\ DxgiUnchanged

StagingFits == Has("staging") /\ dxgiSize = acquired.size

EnsureStagingTexture ==
  /\ callPc = "staging"
  /\ IF StagingFits
     THEN UNCHANGED <<objects, dxgiSize, lastFrame>>
     ELSE /\ objects' = Take(Drop(objects, {"staging", "lastFrame"}), "staging")
          /\ dxgiSize' = acquired.size
          /\ lastFrame' = NoPicture
  /\ callPc' = "map"
  /\ UNCHANGED <<initialized, acquired, accessLost, frame>> /\ DxgiUnchanged

EnsureStagingTextureFails ==
  /\ callPc = "staging"
  /\ ~StagingFits
  /\ DxgiFails(Drop(objects, {"staging", "lastFrame", "acquiredFrame"}))

\* The pixels, and a copy of them to serve back, which may find no memory.
MapAndCopy ==
  /\ callPc = "map"
  /\ frame' = [version |-> acquired.version, size |-> dxgiSize]
  /\ LET copied == Drop(Take(objects, "pixels"), {"acquiredFrame", "lastFrame"})
     IN  \/ /\ objects' = Take(copied, "lastFrame")
            /\ lastFrame' = frame'
         \/ /\ objects' = copied
            /\ lastFrame' = NoPicture
  /\ callPc' = "returned"
  /\ UNCHANGED <<initialized, dxgiSize, acquired, accessLost>> /\ DxgiUnchanged

\* Mutant: the frame of the duplication is kept when there is no memory.
MapFailsKeepingFrame == callPc = "map" /\ DxgiFails(objects)

MapFails == callPc = "map" /\ DxgiFails(Drop(objects, {"acquiredFrame"}))

-----------------------------------------------------------------------------
(* ss_capture_primary_screen_gdi. *)

GdiUnchanged ==
  UNCHANGED <<captureBackend, dxgiUnavailable, initialized, dxgiSize, lastFrame,
              acquired, seen, screenVars>>

\* The size of the screen and its device context.
GdiReadSize ==
  /\ callPc = "gdiSize"
  /\ gdiWanted' = screen.size
  /\ objects' = Take(objects, "screenDc")
  /\ callPc' = "gdiEnsure"
  /\ UNCHANGED <<gdiSize, frame>> /\ GdiUnchanged

GdiFails(o, size) ==
  /\ objects' = Drop(o, {"screenDc"})
  /\ gdiSize' = size
  /\ callPc' = "failed"
  /\ UNCHANGED <<gdiWanted, frame>> /\ GdiUnchanged

GdiReadSizeFails == callPc = "gdiSize" /\ GdiFails(objects, gdiSize)

GdiFits == GdiKinds \subseteq objects.held /\ gdiSize = gdiWanted

GdiEnsure ==
  /\ callPc = "gdiEnsure"
  /\ IF GdiFits
     THEN UNCHANGED objects
     ELSE objects' = Take(Take(Drop(objects, GdiKinds), "memoryDc"), "bitmap")
  /\ gdiSize' = gdiWanted
  /\ callPc' = "gdiBlit"
  /\ UNCHANGED <<gdiWanted, frame>> /\ GdiUnchanged

\* No device context, no bitmap, or it cannot be selected.
GdiEnsureFails ==
  /\ callPc = "gdiEnsure"
  /\ ~GdiFits
  /\ GdiFails(Drop(objects, GdiKinds), NoSize)

\* The screen is copied as it is now, in the size that was read before.
GdiBlit ==
  /\ callPc = "gdiBlit"
  /\ frame' = [version |-> screen.version, size |-> gdiWanted]
  /\ objects' = Take(Drop(objects, {"screenDc"}), "pixels")
  /\ callPc' = "returned"
  /\ UNCHANGED <<gdiSize, gdiWanted>> /\ GdiUnchanged

GdiBlitFails == callPc = "gdiBlit" /\ GdiFails(objects, gdiSize)

-----------------------------------------------------------------------------
\* What the call in progress does.
CaptureStep ==
  \/ FallBack
  \/ DxgiInit \/ DxgiInitFails
  \/ AcquireTimeout \/ AcquireTimeoutFails \/ AcquireLosesAccess
  \/ AcquireFails \/ AcquireNextFrame
  \/ EnsureStagingTexture \/ EnsureStagingTextureFails \/ MapAndCopy \/ MapFails
  \/ GdiReadSize \/ GdiReadSizeFails \/ GdiEnsure \/ GdiEnsureFails
  \/ GdiBlit \/ GdiBlitFails

ScreenStep == ScreenChanges \/ AccessIsLost

\* The module on its own: one caller, which shuts it down between two calls.
CaptureNext ==
  \/ CaptureCall \/ CaptureStep \/ CaptureReturns
  \/ callPc = "idle" /\ CaptureShutdown
  \/ ScreenStep

CaptureSpec == CaptureInit /\ [][CaptureNext]_captureVars

-----------------------------------------------------------------------------
(* Properties. *)

Sizes == ScreenSizes \cup {NoSize}

\* What a call holds at each of its points, of what it uses.
CallHolds ==
  [idle |-> {}, init |-> {}, acquire |-> {"device", "duplication"},
   staging |-> {"device", "duplication", "acquiredFrame"},
   map |-> {"device", "duplication", "acquiredFrame", "staging"},
   fallback |-> {}, gdiSize |-> {}, gdiEnsure |-> {"screenDc"},
   gdiBlit |-> {"screenDc", "memoryDc", "bitmap"},
   returned |-> {"pixels"}, failed |-> {}]

(* The type invariant of the capture module.                                *)
CaptureTypeOK ==
  /\ captureBackend \in CaptureBackends
  /\ dxgiUnavailable \in BOOLEAN /\ initialized \in BOOLEAN
  /\ dxgiSize \in Sizes /\ gdiSize \in Sizes /\ gdiWanted \in Sizes
  /\ objects \in [live: [ObjectKinds -> Int], held: SUBSET ObjectKinds]
  /\ screen \in [version: Versions, size: ScreenSizes]
  /\ {lastFrame, acquired, frame} \subseteq [version: 0..MaxVersions, size: Sizes]
  /\ seen \subseteq [version: Versions, size: ScreenSizes]
  /\ accessLost \in BOOLEAN
  /\ callPc \in DOMAIN CallHolds

(* No object is leaked or freed twice: what is alive is what the module has *)
(* a pointer to, one of a kind.  ss_dxgi_init overwrites the device, which  *)
(* ACCESS_LOST leaves in place (capture_dxgi.c:192-197): only the fallback  *)
(* keeps it from being called again.                                        *)
NothingLeaks ==
  \A k \in ObjectKinds : objects.live[k] = IF k \in objects.held THEN 1 ELSE 0

(* A call uses only objects that are there, and gives back on each of its   *)
(* failing branches what it took for itself: the duplication's frame, the   *)
(* screen's device context, and the pixels unless it succeeds               *)
(* (capture.c:130-146, capture_dxgi.c:199-233).  The module has no lock: it *)
(* relies on one caller at a time (the comment at capture.c:11).            *)
CallsUseWhatTheyHold ==
  /\ CallHolds[callPc] \subseteq objects.held
  /\ objects.held \cap CallKinds \subseteq CallHolds[callPc]

(* A capture shows the screen as it was at a moment of the call, in a size  *)
(* it had during the call: the frame that a timeout serves back             *)
(* (capture_dxgi.c:187) and the cached texture and bitmap are never stale.  *)
CapturedIsCurrent ==
  callPc = "returned" =>
    /\ \E picture \in seen : picture.version = frame.version
    /\ \E picture \in seen : picture.size = frame.size
=============================================================================
