------------------------- MODULE MediaSessionProofs -------------------------
(***************************************************************************)
(* Proofs about the capture module, the codec and the session that uses    *)
(* them: what holds of CaptureBackend and of JpegCodec when each runs by   *)
(* itself, and then of the two programs, which use them one capture at a   *)
(* time and shut them down between two calls.                              *)
(***************************************************************************)
EXTENDS MediaSession, TLAPS

-----------------------------------------------------------------------------
(***************************************************************************)
(* Proofs about CaptureBackend, for any screen sizes and number of changes *)
(* and for any calls of the system that fail: its objects are neither      *)
(* leaked nor used when they are gone, and no picture it returns is stale. *)
(*                                                                         *)
(* The argument rests on what is true of DXGI between two calls            *)
(* (DxgiReady): the device may outlive the duplication, but only on the    *)
(* way to the fallback, after which DXGI is not used any more.             *)
(***************************************************************************)

Objects == [live: [ObjectKinds -> Int], held: SUBSET ObjectKinds]

\* What is alive is what is held.
Exact(o) ==
  /\ o \in Objects
  /\ \A k \in ObjectKinds : o.live[k] = IF k \in o.held THEN 1 ELSE 0

\* DXGI starts with nothing and, once started, has its device and duplication;
\* it is not used after it has failed.
DxgiReady ==
  /\ callPc \in {"init", "acquire", "staging", "map", "fallback"} => UseDxgi
  /\ callPc = "init" => ~initialized
  /\ callPc \in {"acquire", "staging", "map"} => initialized
  /\ initialized => {"device", "duplication"} \subseteq objects.held
  /\ UseDxgi /\ ~initialized /\ callPc # "fallback" =>
       objects.held \cap DxgiKinds = {}

\* What a call has read is part of what was on the screen during the call, and
\* the frame kept between calls is the one the duplication gave last.
DxgiFresh ==
  UseDxgi /\ Has("lastFrame") /\ callPc \notin {"staging", "map", "fallback"} =>
    /\ acquired \in [version: Versions, size: ScreenSizes]
    /\ lastFrame.version = acquired.version
    /\ dxgiSize = acquired.size

CallFresh ==
  /\ callPc # "idle" => screen \in seen
  /\ callPc \in {"staging", "map"} => acquired \in seen
  /\ callPc = "map" => dxgiSize = acquired.size
  /\ callPc \in {"gdiEnsure", "gdiBlit"} => \E p \in seen : p.size = gdiWanted

CaptureInv ==
  /\ CaptureTypeOK
  /\ Exact(objects)
  /\ CallsUseWhatTheyHold
  /\ DxgiReady
  /\ DxgiFresh
  /\ CallFresh
  /\ CapturedIsCurrent

-----------------------------------------------------------------------------
(* The effect of taking and dropping objects.                               *)

(* Taking a kind of object that is not held keeps the account exact.        *)
LEMMA TakeIsExact ==
  ASSUME NEW o, NEW kind \in ObjectKinds, Exact(o), kind \notin o.held
  PROVE  /\ Exact(Take(o, kind))
         /\ Take(o, kind).held = o.held \cup {kind}
BY DEF Exact, Take, Objects

(* Dropping any kinds keeps it exact: a pointer that is null frees nothing. *)
LEMMA DropIsExact ==
  ASSUME NEW o, NEW kinds \in SUBSET ObjectKinds, Exact(o)
  PROVE  /\ Exact(Drop(o, kinds))
         /\ Drop(o, kinds).held = o.held \ kinds
BY DEF Exact, Drop, Objects

(* What a call holds, at each of its points.                                *)
LEMMA HoldsAt ==
  /\ CallHolds["idle"] = {} /\ CallHolds["init"] = {}
  /\ CallHolds["acquire"] = {"device", "duplication"}
  /\ CallHolds["staging"] = {"device", "duplication", "acquiredFrame"}
  /\ CallHolds["map"] = {"device", "duplication", "acquiredFrame", "staging"}
  /\ CallHolds["fallback"] = {} /\ CallHolds["gdiSize"] = {}
  /\ CallHolds["gdiEnsure"] = {"screenDc"}
  /\ CallHolds["gdiBlit"] = {"screenDc", "memoryDc", "bitmap"}
  /\ CallHolds["returned"] = {"pixels"} /\ CallHolds["failed"] = {}
BY DEF CallHolds

LEMMA CallPoints ==
  DOMAIN CallHolds =
    {"idle", "init", "acquire", "staging", "map", "fallback", "gdiSize",
     "gdiEnsure", "gdiBlit", "returned", "failed"}
BY DEF CallHolds

-----------------------------------------------------------------------------
(* The steps. *)

(* No version is that of NoPicture, and no screen has the size NoSize.      *)
LEMMA NoPictureFacts ==
  /\ NoPicture.version = 0 /\ NoPicture.size = NoSize
  /\ NoPicture \in [version: 0..MaxVersions, size: Sizes]
  /\ NoPicture \notin [version: Versions, size: ScreenSizes]
  /\ [version: Versions, size: ScreenSizes]
       \subseteq [version: 0..MaxVersions, size: Sizes]
  /\ ScreenSizes \subseteq Sizes /\ NoSize \in Sizes
BY CaptureAssumption DEF NoPicture, Sizes, Versions

LEMMA CaptureInvInit == CaptureInit => CaptureInv
<1> SUFFICES ASSUME CaptureInit PROVE CaptureInv
  OBVIOUS
<1> USE DEF CaptureInit
<1>1. Exact(objects)
  BY DEF Exact, Objects
<1>2. screen \in [version: Versions, size: ScreenSizes]
  BY CaptureAssumption DEF Versions
<1>3. CaptureTypeOK
  BY <1>1, <1>2, NoPictureFacts, CallPoints DEF CaptureTypeOK, Exact, Objects
<1>4. CallsUseWhatTheyHold
  BY HoldsAt DEF CallsUseWhatTheyHold
<1> QED
  BY <1>1, <1>3, <1>4
  DEF CaptureInv, DxgiReady, DxgiFresh, CallFresh, CapturedIsCurrent, Has

LEMMA ScreenChangesInv == CaptureInv /\ ScreenChanges => CaptureInv'
<1> SUFFICES ASSUME CaptureInv, ScreenChanges PROVE CaptureInv'
  OBVIOUS
<1> USE DEF CaptureInv, ScreenChanges, ScreenUnchanged
<1>1. screen' \in [version: Versions, size: ScreenSizes]
  BY CaptureAssumption DEF CaptureTypeOK, Versions
<1>2. CaptureTypeOK'
  BY <1>1 DEF CaptureTypeOK
<1>3. CallFresh' /\ CapturedIsCurrent'
  BY DEF CallFresh, CapturedIsCurrent
<1> QED
  BY <1>2, <1>3
  DEF Exact, CallsUseWhatTheyHold, DxgiReady, DxgiFresh, UseDxgi, Has

LEMMA AccessIsLostInv == CaptureInv /\ AccessIsLost => CaptureInv'
BY DEF CaptureInv, AccessIsLost, ScreenUnchanged, CaptureTypeOK, Exact,
       CallsUseWhatTheyHold, DxgiReady, DxgiFresh, CallFresh, CapturedIsCurrent,
       UseDxgi, Has

LEMMA CaptureCallInv == CaptureInv /\ CaptureCall => CaptureInv'
<1> SUFFICES ASSUME CaptureInv, CaptureCall PROVE CaptureInv'
  OBVIOUS
<1> USE DEF CaptureInv, CaptureCall, screenVars
<1>1. CaptureTypeOK'
  BY NoPictureFacts, CallPoints DEF CaptureTypeOK
<1>2. CallsUseWhatTheyHold'
  BY HoldsAt DEF CallsUseWhatTheyHold, DxgiReady, UseDxgi
<1>3. DxgiReady' /\ DxgiFresh'
  BY DEF DxgiReady, DxgiFresh, UseDxgi, Has
<1>4. CallFresh' /\ CapturedIsCurrent'
  BY DEF CallFresh, CapturedIsCurrent
<1> QED
  BY <1>1, <1>2, <1>3, <1>4 DEF Exact

LEMMA CaptureReturnsInv == CaptureInv /\ CaptureReturns => CaptureInv'
<1> SUFFICES ASSUME CaptureInv, CaptureReturns PROVE CaptureInv'
  OBVIOUS
<1> USE DEF CaptureInv, CaptureReturns, screenVars
<1>1. Exact(objects)' /\ objects'.held = objects.held \ {"pixels"}
  BY DropIsExact DEF ObjectKinds, CallKinds
<1>2. CaptureTypeOK'
  BY <1>1, NoPictureFacts, CallPoints DEF CaptureTypeOK, Exact, Objects
<1>3. CallsUseWhatTheyHold'
  BY <1>1, HoldsAt DEF CallsUseWhatTheyHold
<1>4. DxgiReady' /\ DxgiFresh'
  BY <1>1 DEF DxgiReady, DxgiFresh, UseDxgi, Has, DxgiKinds
<1>5. CallFresh' /\ CapturedIsCurrent'
  BY DEF CallFresh, CapturedIsCurrent
<1> QED
  BY <1>1, <1>2, <1>3, <1>4, <1>5

(* After the fallback DXGI is not used any more.                            *)
LEMMA FallBackInv == CaptureInv /\ FallBack => CaptureInv'
<1> SUFFICES ASSUME CaptureInv, FallBack PROVE CaptureInv'
  OBVIOUS
<1> USE DEF CaptureInv, FallBack, screenVars
<1>1. Exact(objects)' /\ objects'.held = objects.held \ DxgiKinds
  BY DropIsExact DEF ObjectKinds
<1>2. CaptureTypeOK'
  <2>1. dxgiUnavailable' \in BOOLEAN /\ initialized' \in BOOLEAN
    OBVIOUS
  <2>2. dxgiSize' \in Sizes /\ gdiSize' \in Sizes /\ gdiWanted' \in Sizes
    BY NoPictureFacts DEF CaptureTypeOK
  <2>3. {lastFrame, acquired, frame}' \subseteq
          [version: 0..MaxVersions, size: Sizes]
    BY NoPictureFacts DEF CaptureTypeOK
  <2>4. callPc' \in DOMAIN CallHolds
    BY CallPoints
  <2> QED
    BY <1>1, <2>1, <2>2, <2>3, <2>4 DEF CaptureTypeOK, Exact, Objects
<1>3. CallsUseWhatTheyHold'
  BY <1>1, HoldsAt DEF CallsUseWhatTheyHold
<1>4. DxgiReady' /\ DxgiFresh'
  BY DEF DxgiReady, DxgiFresh, UseDxgi
<1>5. CallFresh' /\ CapturedIsCurrent'
  BY DEF CallFresh, CapturedIsCurrent
<1> QED
  BY <1>1, <1>2, <1>3, <1>4, <1>5

LEMMA CaptureShutdownInv ==
  CaptureInv /\ callPc = "idle" /\ CaptureShutdown => CaptureInv'
<1> SUFFICES ASSUME CaptureInv, callPc = "idle", CaptureShutdown
             PROVE  CaptureInv'
  OBVIOUS
<1> USE DEF CaptureInv, CaptureShutdown, screenVars
<1>1. Exact(objects)' /\ objects'.held = objects.held \ (GdiKinds \cup DxgiKinds)
  BY DropIsExact DEF ObjectKinds
<1>2. CaptureTypeOK'
  BY <1>1, NoPictureFacts DEF CaptureTypeOK, Exact, Objects
<1>3. CallsUseWhatTheyHold'
  BY <1>1, HoldsAt DEF CallsUseWhatTheyHold
<1>4. DxgiReady' /\ DxgiFresh'
  BY <1>1 DEF DxgiReady, DxgiFresh, UseDxgi, Has, DxgiKinds
<1>5. CallFresh' /\ CapturedIsCurrent'
  BY DEF CallFresh, CapturedIsCurrent
<1> QED
  BY <1>1, <1>2, <1>3, <1>4, <1>5

-----------------------------------------------------------------------------
(* The steps of DXGI. *)

(* A failing call of DXGI keeps the invariant when the objects it leaves    *)
(* are exact, none of a call's own among them, and those that DXGI is       *)
(* thought to have.                                                         *)
LEMMA DxgiFailsInv ==
  ASSUME NEW o, CaptureInv, DxgiFails(o), Exact(o),
         callPc \in {"init", "acquire", "staging", "map"},
         o.held \cap CallKinds = {},
         initialized => {"device", "duplication"} \subseteq o.held
  PROVE  CaptureInv'
<1> USE DEF CaptureInv, DxgiFails, DxgiUnchanged
<1>1. CaptureTypeOK'
  BY CallPoints DEF CaptureTypeOK, Exact, Objects
<1>2. CallsUseWhatTheyHold'
  BY HoldsAt DEF CallsUseWhatTheyHold
<1>3. DxgiReady' /\ DxgiFresh'
  BY DEF DxgiReady, DxgiFresh, UseDxgi, Has
<1>4. CallFresh' /\ CapturedIsCurrent'
  BY DEF CallFresh, CapturedIsCurrent
<1> QED
  BY <1>1, <1>2, <1>3, <1>4

LEMMA DxgiInitInv == CaptureInv /\ DxgiInit => CaptureInv'
<1> SUFFICES ASSUME CaptureInv, DxgiInit PROVE CaptureInv'
  OBVIOUS
<1> USE DEF CaptureInv, DxgiInit, DxgiUnchanged
<1>1. objects.held \cap DxgiKinds = {} /\ objects.held \cap CallKinds = {}
  BY HoldsAt DEF DxgiReady, CallsUseWhatTheyHold
<1>2. /\ Exact(objects)'
      /\ objects'.held = objects.held \cup {"device", "duplication"}
  <2> DEFINE o == Take(objects, "device")
  <2>1. Exact(o) /\ o.held = objects.held \cup {"device"}
    BY <1>1, TakeIsExact DEF ObjectKinds, DxgiKinds
  <2>2. "duplication" \notin o.held
    BY <1>1, <2>1 DEF DxgiKinds
  <2> HIDE DEF o
  <2>3. /\ Exact(Take(o, "duplication"))
        /\ Take(o, "duplication").held = o.held \cup {"duplication"}
    BY <2>1, <2>2, TakeIsExact DEF ObjectKinds, DxgiKinds
  <2>4. objects' = Take(o, "duplication")
    BY DEF o
  <2> QED
    BY <2>1, <2>3, <2>4
<1>3. CaptureTypeOK'
  <2>1. initialized' \in BOOLEAN /\ accessLost' \in BOOLEAN
    OBVIOUS
  <2>2. acquired' \in [version: 0..MaxVersions, size: Sizes]
    BY NoPictureFacts
  <2>3. callPc' \in DOMAIN CallHolds
    BY CallPoints
  <2> QED
    BY <1>2, <2>1, <2>2, <2>3 DEF CaptureTypeOK, Exact, Objects
<1>4. CallsUseWhatTheyHold'
  BY <1>1, <1>2, HoldsAt DEF CallsUseWhatTheyHold, CallKinds
<1>5. DxgiReady' /\ DxgiFresh'
  BY <1>1, <1>2 DEF DxgiReady, DxgiFresh, UseDxgi, Has, DxgiKinds
<1>6. CallFresh' /\ CapturedIsCurrent'
  BY DEF CallFresh, CapturedIsCurrent
<1> QED
  BY <1>2, <1>3, <1>4, <1>5, <1>6

LEMMA DxgiInitFailsInv == CaptureInv /\ DxgiInitFails => CaptureInv'
<1> SUFFICES ASSUME CaptureInv, DxgiInitFails PROVE CaptureInv'
  OBVIOUS
<1>1. callPc = "init" /\ Exact(objects)
  BY DEF DxgiInitFails, CaptureInv
<1>2. /\ objects.held \cap DxgiKinds = {} /\ objects.held \cap CallKinds = {}
      /\ ~initialized
  BY <1>1, HoldsAt DEF DxgiReady, CallsUseWhatTheyHold, CaptureInv
<1>3. CASE DxgiFails(objects)
  BY <1>1, <1>2, <1>3, DxgiFailsInv
<1>4. CASE DxgiFails(Drop(Take(objects, "device"),
                          {"staging", "duplication", "device"}))
  <2> DEFINE o == Take(objects, "device")
             gone == {"staging", "duplication", "device"}
  <2>1. Exact(o) /\ o.held = objects.held \cup {"device"}
    BY <1>1, <1>2, TakeIsExact DEF ObjectKinds, DxgiKinds
  <2>2. gone \in SUBSET ObjectKinds
    BY DEF ObjectKinds, DxgiKinds
  <2> HIDE DEF o, gone
  <2>3. Exact(Drop(o, gone)) /\ Drop(o, gone).held = o.held \ gone
    BY <2>1, <2>2, DropIsExact
  <2>4. Drop(o, gone).held \cap CallKinds = {}
    BY <1>2, <2>1, <2>3 DEF CallKinds
  <2>5. DxgiFails(Drop(o, gone))
    BY <1>4 DEF o, gone
  <2> QED
    BY <1>1, <1>2, <2>3, <2>4, <2>5, DxgiFailsInv
<1> QED
  BY <1>3, <1>4 DEF DxgiInitFails

(* The failures that leave the objects as they are: the frame was not       *)
(* acquired.                                                                *)
LEMMA AcquireFailsInv ==
  CaptureInv /\ (AcquireTimeoutFails \/ AcquireFails) => CaptureInv'
<1> SUFFICES ASSUME CaptureInv, AcquireTimeoutFails \/ AcquireFails
             PROVE  CaptureInv'
  OBVIOUS
<1>1. callPc = "acquire" /\ DxgiFails(objects)
  BY DEF AcquireTimeoutFails, AcquireFails
<1>2. /\ Exact(objects) /\ objects.held \cap CallKinds = {}
      /\ {"device", "duplication"} \subseteq objects.held
  BY <1>1, HoldsAt DEF CaptureInv, CallsUseWhatTheyHold, CallKinds
<1> QED
  BY <1>1, <1>2, DxgiFailsInv

(* The frame served back is the one the duplication gave last, and that is  *)
(* the screen.                                                              *)
LEMMA AcquireTimeoutInv == CaptureInv /\ AcquireTimeout => CaptureInv'
<1> SUFFICES ASSUME CaptureInv, AcquireTimeout PROVE CaptureInv'
  OBVIOUS
<1> USE DEF CaptureInv, AcquireTimeout, DxgiUnchanged
<1>1. objects.held \cap CallKinds = {}
  BY HoldsAt DEF CallsUseWhatTheyHold, CallKinds
<1>2. Exact(objects)' /\ objects'.held = objects.held \cup {"pixels"}
  BY <1>1, TakeIsExact DEF ObjectKinds, CallKinds
<1>3. /\ acquired = screen /\ screen \in seen
      /\ lastFrame.version = screen.version /\ dxgiSize = screen.size
  BY NoPictureFacts DEF DxgiReady, DxgiFresh, CallFresh
<1>4. frame'.version = screen.version /\ frame'.size = screen.size
  BY <1>3
<1>5. CaptureTypeOK'
  <2>1. frame' \in [version: 0..MaxVersions, size: Sizes]
    BY DEF CaptureTypeOK
  <2> QED
    BY <1>2, <2>1, CallPoints DEF CaptureTypeOK, Exact, Objects
<1>6. CallsUseWhatTheyHold'
  BY <1>1, <1>2, HoldsAt DEF CallsUseWhatTheyHold, CallKinds
<1>7. DxgiReady' /\ DxgiFresh'
  BY <1>2 DEF DxgiReady, DxgiFresh, UseDxgi, Has, DxgiKinds
<1>8. CallFresh' /\ CapturedIsCurrent'
  BY <1>3, <1>4 DEF CallFresh, CapturedIsCurrent
<1> QED
  BY <1>2, <1>5, <1>6, <1>7, <1>8

(* The device stays without its duplication, on the way to the fallback.    *)
LEMMA AcquireLosesAccessInv == CaptureInv /\ AcquireLosesAccess => CaptureInv'
<1> SUFFICES ASSUME CaptureInv, AcquireLosesAccess PROVE CaptureInv'
  OBVIOUS
<1> USE DEF CaptureInv, AcquireLosesAccess, DxgiUnchanged
<1>1. Exact(objects)' /\ objects'.held = objects.held \ {"duplication"}
  BY DropIsExact DEF ObjectKinds, DxgiKinds
<1>2. CaptureTypeOK'
  <2>1. initialized' \in BOOLEAN
    OBVIOUS
  <2> QED
    BY <1>1, <2>1, CallPoints DEF CaptureTypeOK, Exact, Objects
<1>3. CallsUseWhatTheyHold'
  BY <1>1, HoldsAt DEF CallsUseWhatTheyHold, CallKinds
<1>4. DxgiReady' /\ DxgiFresh'
  BY DEF DxgiReady, DxgiFresh, UseDxgi
<1>5. CallFresh' /\ CapturedIsCurrent'
  BY DEF CallFresh, CapturedIsCurrent
<1> QED
  BY <1>1, <1>2, <1>3, <1>4, <1>5

LEMMA AcquireNextFrameInv == CaptureInv /\ AcquireNextFrame => CaptureInv'
<1> SUFFICES ASSUME CaptureInv, AcquireNextFrame PROVE CaptureInv'
  OBVIOUS
<1> USE DEF CaptureInv, AcquireNextFrame, DxgiUnchanged
<1>1. objects.held \cap CallKinds = {}
  BY HoldsAt DEF CallsUseWhatTheyHold, CallKinds
<1>2. Exact(objects)' /\ objects'.held = objects.held \cup {"acquiredFrame"}
  BY <1>1, TakeIsExact DEF ObjectKinds, CallKinds
<1>3. CaptureTypeOK'
  BY <1>2, NoPictureFacts, CallPoints DEF CaptureTypeOK, Exact, Objects
<1>4. CallsUseWhatTheyHold'
  BY <1>1, <1>2, HoldsAt DEF CallsUseWhatTheyHold, CallKinds
<1>5. DxgiReady' /\ DxgiFresh'
  BY <1>2 DEF DxgiReady, DxgiFresh, UseDxgi
<1>6. CallFresh' /\ CapturedIsCurrent'
  BY DEF CallFresh, CapturedIsCurrent
<1> QED
  BY <1>2, <1>3, <1>4, <1>5, <1>6

LEMMA EnsureStagingTextureInv ==
  CaptureInv /\ EnsureStagingTexture => CaptureInv'
<1> SUFFICES ASSUME CaptureInv, EnsureStagingTexture PROVE CaptureInv'
  OBVIOUS
<1> USE DEF CaptureInv, EnsureStagingTexture, DxgiUnchanged
<1>1. acquired \in seen
  BY DEF CallFresh
<1>2. Exact(objects)'
  <2>1. CASE StagingFits
    BY <2>1
  <2>2. CASE ~StagingFits
    <3> DEFINE gone == {"staging", "lastFrame"}
               o == Drop(objects, gone)
    <3>1. Exact(o) /\ o.held = objects.held \ gone
      BY DropIsExact DEF ObjectKinds, DxgiKinds
    <3>2. "staging" \notin o.held
      BY <3>1
    <3> HIDE DEF o
    <3>3. Exact(Take(o, "staging"))
      BY <3>1, <3>2, TakeIsExact DEF ObjectKinds, DxgiKinds
    <3> QED
      BY <2>2, <3>3 DEF o
  <2> QED
    BY <2>1, <2>2
<1>3. /\ objects'.held \subseteq objects.held \cup {"staging"}
      /\ objects.held \ {"lastFrame"} \subseteq objects'.held
      /\ "staging" \in objects'.held
  <2>1. CASE StagingFits
    BY <2>1 DEF StagingFits, Has
  <2>2. CASE ~StagingFits
    BY <2>2 DEF Take, Drop
  <2> QED
    BY <2>1, <2>2
<1>4. dxgiSize' = acquired.size /\ lastFrame' \in {lastFrame, NoPicture}
  BY DEF StagingFits
<1>5. CaptureTypeOK'
  <2>1. dxgiSize' \in Sizes
    BY <1>1, <1>4, NoPictureFacts DEF CaptureTypeOK
  <2>2. lastFrame' \in [version: 0..MaxVersions, size: Sizes]
    BY <1>4, NoPictureFacts DEF CaptureTypeOK
  <2> QED
    BY <1>2, <2>1, <2>2, CallPoints DEF CaptureTypeOK, Exact, Objects
<1>6. CallsUseWhatTheyHold'
  BY <1>3, HoldsAt DEF CallsUseWhatTheyHold, CallKinds
<1>7. DxgiReady' /\ DxgiFresh'
  BY <1>3 DEF DxgiReady, DxgiFresh, UseDxgi
<1>8. CallFresh' /\ CapturedIsCurrent'
  BY <1>4 DEF CallFresh, CapturedIsCurrent
<1> QED
  BY <1>2, <1>5, <1>6, <1>7, <1>8

LEMMA EnsureStagingTextureFailsInv ==
  CaptureInv /\ EnsureStagingTextureFails => CaptureInv'
<1> SUFFICES ASSUME CaptureInv, EnsureStagingTextureFails PROVE CaptureInv'
  OBVIOUS
<1> DEFINE gone == {"staging", "lastFrame", "acquiredFrame"}
           o == Drop(objects, gone)
<1>1. callPc = "staging" /\ DxgiFails(o)
  BY DEF EnsureStagingTextureFails
<1>2. Exact(objects) /\ gone \in SUBSET ObjectKinds
  BY DEF CaptureInv, ObjectKinds, DxgiKinds, CallKinds
<1>3. Exact(o) /\ o.held = objects.held \ gone
  BY <1>2, DropIsExact
<1>4. /\ objects.held \cap CallKinds \subseteq {"acquiredFrame"}
      /\ {"device", "duplication"} \subseteq objects.held
  BY <1>1, HoldsAt DEF CaptureInv, CallsUseWhatTheyHold, CallKinds
<1>5. /\ o.held \cap CallKinds = {}
      /\ {"device", "duplication"} \subseteq o.held
  BY <1>3, <1>4
<1> HIDE DEF o
<1> QED
  BY <1>1, <1>3, <1>5, DxgiFailsInv

LEMMA MapFailsInv == CaptureInv /\ MapFails => CaptureInv'
<1> SUFFICES ASSUME CaptureInv, MapFails PROVE CaptureInv'
  OBVIOUS
<1> DEFINE gone == {"acquiredFrame"}
           o == Drop(objects, gone)
<1>1. callPc = "map" /\ DxgiFails(o)
  BY DEF MapFails
<1>2. Exact(objects) /\ gone \in SUBSET ObjectKinds
  BY DEF CaptureInv, ObjectKinds, CallKinds
<1>3. Exact(o) /\ o.held = objects.held \ gone
  BY <1>2, DropIsExact
<1>4. /\ objects.held \cap CallKinds \subseteq gone
      /\ {"device", "duplication"} \subseteq objects.held
  BY <1>1, HoldsAt DEF CaptureInv, CallsUseWhatTheyHold, CallKinds
<1>5. /\ o.held \cap CallKinds = {}
      /\ {"device", "duplication"} \subseteq o.held
  BY <1>3, <1>4
<1> HIDE DEF o
<1> QED
  BY <1>1, <1>3, <1>5, DxgiFailsInv

LEMMA MapAndCopyInv == CaptureInv /\ MapAndCopy => CaptureInv'
<1> SUFFICES ASSUME CaptureInv, MapAndCopy PROVE CaptureInv'
  OBVIOUS
<1> USE DEF CaptureInv, MapAndCopy, DxgiUnchanged
<1> DEFINE gone == {"acquiredFrame", "lastFrame"}
           got == Take(objects, "pixels")
           copied == Drop(got, gone)
<1>1. /\ objects.held \cap CallKinds \subseteq {"acquiredFrame"}
      /\ {"device", "duplication"} \subseteq objects.held
  BY HoldsAt DEF CallsUseWhatTheyHold, CallKinds
<1>2. Exact(got) /\ got.held = objects.held \cup {"pixels"}
  BY <1>1, TakeIsExact DEF ObjectKinds, CallKinds
<1>3. Exact(copied) /\ copied.held = (objects.held \cup {"pixels"}) \ gone
  <2>1. gone \in SUBSET ObjectKinds
    BY DEF ObjectKinds, CallKinds, DxgiKinds
  <2> HIDE DEF got, gone
  <2> QED
    BY <1>2, <2>1, DropIsExact
<1>4. /\ Exact(Take(copied, "lastFrame"))
      /\ Take(copied, "lastFrame").held = copied.held \cup {"lastFrame"}
  <2>1. "lastFrame" \in ObjectKinds \ copied.held
    BY <1>3 DEF ObjectKinds, DxgiKinds
  <2> HIDE DEF copied
  <2> QED
    BY <1>3, <2>1, TakeIsExact
<1>5. \/ objects' = Take(copied, "lastFrame") /\ lastFrame' = frame'
      \/ objects' = copied /\ lastFrame' = NoPicture
  OBVIOUS
<1> HIDE DEF copied
<1>6. /\ Exact(objects)'
      /\ {"device", "duplication", "pixels"} \subseteq objects'.held
      /\ objects'.held \cap CallKinds \subseteq {"pixels"}
  BY <1>1, <1>3, <1>4, <1>5 DEF CallKinds
<1>7. "lastFrame" \in objects'.held => lastFrame' = frame'
  BY <1>3, <1>5
<1>8. /\ acquired \in seen /\ dxgiSize = acquired.size
      /\ acquired \in [version: Versions, size: ScreenSizes]
      /\ frame'.version = acquired.version /\ frame'.size = dxgiSize
  BY DEF CallFresh, CaptureTypeOK
<1>9. CaptureTypeOK'
  <2>1. frame' \in [version: 0..MaxVersions, size: Sizes]
    BY DEF CaptureTypeOK
  <2>2. lastFrame' \in [version: 0..MaxVersions, size: Sizes]
    BY <1>5, <2>1, NoPictureFacts
  <2> QED
    BY <1>6, <2>1, <2>2, CallPoints DEF CaptureTypeOK, Exact, Objects
<1>10. CallsUseWhatTheyHold'
  BY <1>6, HoldsAt DEF CallsUseWhatTheyHold
<1>11. DxgiReady' /\ DxgiFresh'
  BY <1>6, <1>7, <1>8 DEF DxgiReady, DxgiFresh, UseDxgi, Has
<1>12. CallFresh' /\ CapturedIsCurrent'
  BY <1>8 DEF CallFresh, CapturedIsCurrent
<1> QED
  BY <1>6, <1>9, <1>10, <1>11, <1>12

-----------------------------------------------------------------------------
(* The steps of GDI.  They leave DXGI's objects alone, which is all that    *)
(* DxgiReady and DxgiFresh speak of.                                        *)

GdiPoints == {"gdiSize", "gdiEnsure", "gdiBlit", "returned", "failed"}

LEMMA GdiKeepsDxgi ==
  ASSUME DxgiReady, DxgiFresh, GdiUnchanged,
         callPc \in GdiPoints, callPc' \in GdiPoints,
         objects'.held \cap DxgiKinds = objects.held \cap DxgiKinds
  PROVE  DxgiReady' /\ DxgiFresh'
<1>1. UseDxgi' = UseDxgi /\ UNCHANGED <<initialized, acquired, lastFrame, dxgiSize>>
  BY DEF GdiUnchanged, UseDxgi
<1>2. Has("lastFrame")' = Has("lastFrame")
  BY DEF Has, DxgiKinds
<1>3. DxgiReady'
  BY <1>1 DEF DxgiReady, GdiPoints, DxgiKinds
<1>4. DxgiFresh'
  BY <1>1, <1>2 DEF DxgiFresh, GdiPoints
<1> QED
  BY <1>3, <1>4

(* A failing call of GDI gives the device context back.                     *)
LEMMA GdiFailsInv ==
  ASSUME NEW o, NEW size \in Sizes, CaptureInv, GdiFails(o, size), Exact(o),
         callPc \in {"gdiSize", "gdiEnsure", "gdiBlit"},
         o.held \cap CallKinds \subseteq {"screenDc"},
         o.held \cap DxgiKinds = objects.held \cap DxgiKinds
  PROVE  CaptureInv'
<1> USE DEF CaptureInv, GdiFails, GdiUnchanged, screenVars
<1>1. Exact(objects)' /\ objects'.held = o.held \ {"screenDc"}
  <2>1. {"screenDc"} \in SUBSET ObjectKinds
    BY DEF ObjectKinds, CallKinds
  <2> QED
    BY <2>1, DropIsExact
<1>2. CaptureTypeOK'
  BY <1>1, CallPoints DEF CaptureTypeOK, Exact, Objects
<1>3. CallsUseWhatTheyHold'
  BY <1>1, HoldsAt DEF CallsUseWhatTheyHold
<1>4. DxgiReady' /\ DxgiFresh'
  <2>1. objects'.held \cap DxgiKinds = objects.held \cap DxgiKinds
    BY <1>1 DEF DxgiKinds
  <2>2. callPc \in GdiPoints /\ callPc' \in GdiPoints
    BY DEF GdiPoints
  <2> QED
    BY <2>1, <2>2, GdiKeepsDxgi
<1>5. CallFresh' /\ CapturedIsCurrent'
  BY DEF CallFresh, CapturedIsCurrent
<1> QED
  BY <1>1, <1>2, <1>3, <1>4, <1>5

(* What a call of GDI holds of its own.                                     *)
LEMMA GdiHolds ==
  ASSUME CaptureInv
  PROVE  /\ callPc = "gdiSize" => objects.held \cap CallKinds = {}
         /\ callPc \in {"gdiEnsure", "gdiBlit"} =>
              /\ objects.held \cap CallKinds \subseteq {"screenDc"}
              /\ "screenDc" \in objects.held
         /\ Exact(objects) /\ gdiSize \in Sizes /\ gdiWanted \in Sizes
<1>1. callPc = "gdiSize" => objects.held \cap CallKinds = {}
  BY HoldsAt DEF CaptureInv, CallsUseWhatTheyHold
<1>2. callPc = "gdiEnsure" => /\ objects.held \cap CallKinds \subseteq {"screenDc"}
                              /\ "screenDc" \in objects.held
  BY HoldsAt DEF CaptureInv, CallsUseWhatTheyHold
<1>3. callPc = "gdiBlit" => /\ objects.held \cap CallKinds \subseteq {"screenDc"}
                            /\ "screenDc" \in objects.held
  BY HoldsAt DEF CaptureInv, CallsUseWhatTheyHold, CallKinds
<1> QED
  BY <1>1, <1>2, <1>3 DEF CaptureInv, CaptureTypeOK

LEMMA GdiReadSizeInv == CaptureInv /\ GdiReadSize => CaptureInv'
<1> SUFFICES ASSUME CaptureInv, GdiReadSize PROVE CaptureInv'
  OBVIOUS
<1> USE DEF CaptureInv, GdiReadSize, GdiUnchanged, screenVars
<1>1. Exact(objects)' /\ objects'.held = objects.held \cup {"screenDc"}
  <2>1. "screenDc" \in ObjectKinds \ objects.held
    BY GdiHolds DEF ObjectKinds, CallKinds
  <2> QED
    BY <2>1, TakeIsExact
<1>2. CaptureTypeOK'
  BY <1>1, NoPictureFacts, CallPoints DEF CaptureTypeOK, Exact, Objects
<1>3. CallsUseWhatTheyHold'
  BY <1>1, GdiHolds, HoldsAt DEF CallsUseWhatTheyHold, CallKinds
<1>4. DxgiReady' /\ DxgiFresh'
  <2>1. objects'.held \cap DxgiKinds = objects.held \cap DxgiKinds
    BY <1>1 DEF DxgiKinds
  <2>2. callPc \in GdiPoints /\ callPc' \in GdiPoints
    BY DEF GdiPoints
  <2> QED
    BY <2>1, <2>2, GdiKeepsDxgi
<1>5. CallFresh' /\ CapturedIsCurrent'
  BY DEF CallFresh, CapturedIsCurrent
<1> QED
  BY <1>1, <1>2, <1>3, <1>4, <1>5

LEMMA GdiEnsureInv == CaptureInv /\ GdiEnsure => CaptureInv'
<1> SUFFICES ASSUME CaptureInv, GdiEnsure PROVE CaptureInv'
  OBVIOUS
<1> USE DEF CaptureInv, GdiEnsure, GdiUnchanged, screenVars
<1>1. /\ Exact(objects)'
      /\ objects'.held = objects.held \cup GdiKinds
  <2>1. CASE GdiFits
    <3>1. objects.held \cup GdiKinds = objects.held
      BY <2>1 DEF GdiFits
    <3> QED
      BY <2>1, <3>1
  <2>2. CASE ~GdiFits
    <3> DEFINE o == Drop(objects, GdiKinds)
               p == Take(o, "memoryDc")
    <3>1. Exact(o) /\ o.held = objects.held \ GdiKinds
      BY DropIsExact DEF ObjectKinds
    <3>2. Exact(p) /\ p.held = o.held \cup {"memoryDc"}
      <4>1. "memoryDc" \in ObjectKinds \ o.held
        BY <3>1 DEF ObjectKinds, GdiKinds
      <4> HIDE DEF o
      <4> QED
        BY <3>1, <4>1, TakeIsExact
    <3>3. Exact(Take(p, "bitmap")) /\ Take(p, "bitmap").held = p.held \cup {"bitmap"}
      <4>1. "bitmap" \in ObjectKinds \ p.held
        BY <3>1, <3>2 DEF ObjectKinds, GdiKinds
      <4> HIDE DEF o, p
      <4> QED
        BY <3>2, <4>1, TakeIsExact
    <3>4. objects' = Take(p, "bitmap")
      BY <2>2
    <3> HIDE DEF o, p
    <3>5. Exact(objects)'
      BY <3>3, <3>4
    <3>6. objects'.held = ((objects.held \ GdiKinds) \cup {"memoryDc"}) \cup {"bitmap"}
      BY <3>1, <3>2, <3>3, <3>4
    <3>7. objects'.held = objects.held \cup GdiKinds
      BY <3>6 DEF GdiKinds
    <3> QED
      BY <3>5, <3>7
  <2> QED
    BY <2>1, <2>2
<1>2. CaptureTypeOK'
  BY <1>1, GdiHolds, CallPoints DEF CaptureTypeOK, Exact, Objects
<1>3. CallsUseWhatTheyHold'
  BY <1>1, GdiHolds, HoldsAt DEF CallsUseWhatTheyHold, CallKinds, GdiKinds
<1>4. DxgiReady' /\ DxgiFresh'
  <2>1. objects'.held \cap DxgiKinds = objects.held \cap DxgiKinds
    BY <1>1 DEF DxgiKinds, GdiKinds
  <2>2. callPc \in GdiPoints /\ callPc' \in GdiPoints
    BY DEF GdiPoints
  <2> QED
    BY <2>1, <2>2, GdiKeepsDxgi
<1>5. CallFresh' /\ CapturedIsCurrent'
  BY DEF CallFresh, CapturedIsCurrent
<1> QED
  BY <1>1, <1>2, <1>3, <1>4, <1>5

LEMMA GdiStepsFailInv ==
  CaptureInv /\ (GdiReadSizeFails \/ GdiEnsureFails \/ GdiBlitFails) => CaptureInv'
<1> SUFFICES ASSUME CaptureInv, GdiReadSizeFails \/ GdiEnsureFails \/ GdiBlitFails
             PROVE  CaptureInv'
  OBVIOUS
<1>1. CASE GdiReadSizeFails \/ GdiBlitFails
  <2>1. callPc \in {"gdiSize", "gdiBlit"} /\ GdiFails(objects, gdiSize)
    BY <1>1 DEF GdiReadSizeFails, GdiBlitFails
  <2>2. /\ Exact(objects) /\ gdiSize \in Sizes
        /\ objects.held \cap CallKinds \subseteq {"screenDc"}
    BY <2>1, GdiHolds
  <2> QED
    BY <2>1, <2>2, GdiFailsInv
<1>2. CASE GdiEnsureFails
  <2> DEFINE o == Drop(objects, GdiKinds)
  <2>1. callPc = "gdiEnsure" /\ GdiFails(o, NoSize)
    BY <1>2 DEF GdiEnsureFails
  <2>2. /\ Exact(objects)
        /\ objects.held \cap CallKinds \subseteq {"screenDc"}
    BY <2>1, GdiHolds
  <2>3. Exact(o) /\ o.held = objects.held \ GdiKinds
    BY <2>2, DropIsExact DEF ObjectKinds
  <2>4. o.held \cap CallKinds \subseteq {"screenDc"}
    BY <2>2, <2>3
  <2>5. o.held \cap DxgiKinds = objects.held \cap DxgiKinds
    BY <2>3 DEF DxgiKinds, GdiKinds
  <2> HIDE DEF o
  <2> QED
    BY <2>1, <2>3, <2>4, <2>5, GdiFailsInv, NoPictureFacts
<1> QED
  BY <1>1, <1>2

(* The picture is of now, in a size that was read during the call.          *)
LEMMA GdiBlitInv == CaptureInv /\ GdiBlit => CaptureInv'
<1> SUFFICES ASSUME CaptureInv, GdiBlit PROVE CaptureInv'
  OBVIOUS
<1> USE DEF CaptureInv, GdiBlit, GdiUnchanged, screenVars
<1> DEFINE gone == {"screenDc"}
           o == Drop(objects, gone)
<1>1. Exact(o) /\ o.held = objects.held \ gone
  <2>1. gone \in SUBSET ObjectKinds
    BY DEF ObjectKinds, CallKinds
  <2> HIDE DEF gone
  <2> QED
    BY <2>1, DropIsExact
<1>2. Exact(objects)' /\ objects'.held = o.held \cup {"pixels"}
  <2>1. "pixels" \in ObjectKinds \ o.held
    BY <1>1, GdiHolds DEF ObjectKinds, CallKinds
  <2>2. objects' = Take(o, "pixels")
    OBVIOUS
  <2> HIDE DEF o
  <2> QED
    BY <1>1, <2>1, <2>2, TakeIsExact
<1> HIDE DEF o
<1>3. CaptureTypeOK'
  <2>1. frame' \in [version: 0..MaxVersions, size: Sizes]
    BY NoPictureFacts DEF CaptureTypeOK
  <2> QED
    BY <1>2, <2>1, CallPoints DEF CaptureTypeOK, Exact, Objects
<1>4. CallsUseWhatTheyHold'
  BY <1>1, <1>2, GdiHolds, HoldsAt DEF CallsUseWhatTheyHold, CallKinds
<1>5. DxgiReady' /\ DxgiFresh'
  <2>1. objects'.held \cap DxgiKinds = objects.held \cap DxgiKinds
    BY <1>1, <1>2 DEF DxgiKinds
  <2>2. callPc \in GdiPoints /\ callPc' \in GdiPoints
    BY DEF GdiPoints
  <2> QED
    BY <2>1, <2>2, GdiKeepsDxgi
<1>6. CallFresh' /\ CapturedIsCurrent'
  BY DEF CallFresh, CapturedIsCurrent
<1> QED
  BY <1>2, <1>3, <1>4, <1>5, <1>6

-----------------------------------------------------------------------------
(* The theorems. *)

LEMMA CaptureInvStep == CaptureInv /\ [CaptureNext]_captureVars => CaptureInv'
<1> SUFFICES ASSUME CaptureInv, [CaptureNext]_captureVars PROVE CaptureInv'
  OBVIOUS
<1>1. CASE CaptureCall \/ CaptureReturns
  BY <1>1, CaptureCallInv, CaptureReturnsInv
<1>2. CASE CaptureStep
  BY <1>2, FallBackInv, DxgiInitInv, DxgiInitFailsInv, AcquireTimeoutInv,
     AcquireFailsInv, AcquireLosesAccessInv, AcquireNextFrameInv,
     EnsureStagingTextureInv, EnsureStagingTextureFailsInv, MapAndCopyInv,
     MapFailsInv, GdiReadSizeInv, GdiEnsureInv, GdiStepsFailInv, GdiBlitInv
  DEF CaptureStep
<1>3. CASE callPc = "idle" /\ CaptureShutdown
  BY <1>3, CaptureShutdownInv
<1>4. CASE ScreenStep
  BY <1>4, ScreenChangesInv, AccessIsLostInv DEF ScreenStep
<1>5. CASE UNCHANGED captureVars
  BY <1>5 DEF captureVars, CaptureInv, CaptureTypeOK, Exact,
     CallsUseWhatTheyHold, DxgiReady, DxgiFresh, CallFresh, CapturedIsCurrent,
     UseDxgi, Has
<1> QED
  BY <1>1, <1>2, <1>3, <1>4, <1>5 DEF CaptureNext

LEMMA CaptureInvHolds == CaptureSpec => []CaptureInv
BY CaptureInvInit, CaptureInvStep, PTL DEF CaptureSpec

(* The state of the capture module is always of its type.                   *)
THEOREM CaptureTypeCorrect == CaptureSpec => []CaptureTypeOK
<1>1. CaptureInv => CaptureTypeOK
  BY DEF CaptureInv
<1> QED
  BY <1>1, CaptureInvHolds, PTL

(* Whatever fails and however the screen changes, every object that is      *)
(* alive is one the module still has a pointer to, and no other.            *)
THEOREM CaptureLeaksNothing == CaptureSpec => []NothingLeaks
<1>1. CaptureInv => NothingLeaks
  BY DEF CaptureInv, Exact, NothingLeaks
<1> QED
  BY <1>1, CaptureInvHolds, PTL

(* No call uses an object that is gone, and none keeps one of its own.      *)
THEOREM CapturesHoldWhatTheyUse == CaptureSpec => []CallsUseWhatTheyHold
<1>1. CaptureInv => CallsUseWhatTheyHold
  BY DEF CaptureInv
<1> QED
  BY <1>1, CaptureInvHolds, PTL

(* No picture is stale: it was on the screen during the call, in a size the *)
(* screen had during the call.                                              *)
THEOREM CapturesAreCurrent == CaptureSpec => []CapturedIsCurrent
<1>1. CaptureInv => CapturedIsCurrent
  BY DEF CaptureInv
<1> QED
  BY <1>1, CaptureInvHolds, PTL

-----------------------------------------------------------------------------
(***************************************************************************)
(* Proofs about JpegCodec, for any number of threads, any pictures and any *)
(* calls of the system that fail: what an operation takes it gives back,   *)
(* and GDI+ is started once and used only while it runs.                   *)
(***************************************************************************)

\* What a thread holds at each point of an operation.
HoldsWhile(pc) ==
  CASE pc = "createStream" -> {"bitmap"}
    [] pc \in {"saveImage", "lockStream", "checkBitmap", "allocPixels"} ->
         {"bitmap", "stream"}
    [] pc = "copyStream" -> {"lock", "bitmap", "stream"}
    [] pc \in {"fillGlobal", "openStream"} -> {"global"}
    [] pc = "readBitmap" -> {"stream"}
    [] pc = "lockBits" -> {"result", "bitmap", "stream"}
    [] pc = "write" -> {"rgb"}
    [] pc \in {"checkLoaded", "allocBgra"} -> {"rgba"}
    [] pc \in {"encoded", "decoded"} -> {"result"}
    [] OTHER -> {}

\* The buffer of the C encoder is there once it has a capacity.
DataHeld(t) ==
  IF codecPc[t] = "write" /\ writer[t].capacity > 0 THEN {"data"} ELSE {}

Holding(count, kinds) ==
  count = [k \in TakenKinds |-> IF k \in kinds THEN 1 ELSE 0]

Holds ==
  \A t \in CodecThreads : Holding(taken[t], HoldsWhile(codecPc[t]) \cup DataHeld(t))

\* A thread writes with an empty writer until it has written.
WriterFresh ==
  \A t \in CodecThreads :
    /\ writer[t].size <= writer[t].capacity
    /\ codecPc[t] \notin {"write", "encoded", "failed"} => writer[t] = NewWriter

\* One thread at a time starts GDI+, and none uses it before.
StartsUp(pc) == pc \in {"startupEncode", "startupDecode"}

GdiplusInv ==
  /\ gdiplus = token
  /\ token \in {0, 1}
  /\ startupOnce # "done" => token = 0
  /\ \A t \in CodecThreads : StartsUp(codecPc[t]) => startupOnce = "running"
  /\ \A t, u \in CodecThreads : StartsUp(codecPc[t]) /\ StartsUp(codecPc[u]) => t = u
  /\ \A t \in CodecThreads : UsesGdiplus(codecPc[t]) =>
       startupOnce = "done" /\ token = 1

CodecInv == CodecTypeOK /\ Holds /\ WriterFresh /\ GdiplusInv

-----------------------------------------------------------------------------
(* The calls of the system. *)

(* The points at which a call is made, and what each call is.               *)
LEMMA CodecPoints ==
  DOMAIN Calls =
    {"createBitmap", "createStream", "saveImage", "lockStream", "copyStream",
     "allocGlobal", "fillGlobal", "openStream", "readBitmap", "allocPixels",
     "lockBits", "allocRgb", "load", "allocBgra"}
BY DEF Calls, WindowsCalls, WindowsEncode, CopyStream, WindowsDecode, CEncode,
       CDecode

LEMMA CallOf ==
  /\ \A pc \in DOMAIN WindowsEncode : Calls[pc] = WindowsEncode[pc]
  /\ \A pc \in DOMAIN CopyStream : Calls[pc] = CopyStream[pc]
  /\ \A pc \in DOMAIN WindowsDecode : Calls[pc] = WindowsDecode[pc]
  /\ \A pc \in DOMAIN CEncode : Calls[pc] = CEncode[pc]
  /\ \A pc \in DOMAIN CDecode : Calls[pc] = CDecode[pc]
BY DEF Calls, WindowsCalls, WindowsEncode, CopyStream, WindowsDecode, CEncode,
       CDecode

(* What a thread holds, point by point.                                     *)
LEMMA TakenAt ==
  /\ HoldsWhile("createBitmap") = {} /\ HoldsWhile("createStream") = {"bitmap"}
  /\ HoldsWhile("saveImage") = {"bitmap", "stream"}
  /\ HoldsWhile("lockStream") = {"bitmap", "stream"}
  /\ HoldsWhile("copyStream") = {"lock", "bitmap", "stream"}
  /\ HoldsWhile("allocGlobal") = {} /\ HoldsWhile("fillGlobal") = {"global"}
  /\ HoldsWhile("openStream") = {"global"} /\ HoldsWhile("readBitmap") = {"stream"}
  /\ HoldsWhile("checkBitmap") = {"bitmap", "stream"}
  /\ HoldsWhile("allocPixels") = {"bitmap", "stream"}
  /\ HoldsWhile("lockBits") = {"result", "bitmap", "stream"}
  /\ HoldsWhile("allocRgb") = {} /\ HoldsWhile("write") = {"rgb"}
  /\ HoldsWhile("load") = {} /\ HoldsWhile("checkLoaded") = {"rgba"}
  /\ HoldsWhile("allocBgra") = {"rgba"}
  /\ HoldsWhile("encoded") = {"result"} /\ HoldsWhile("decoded") = {"result"}
  /\ \A pc \in {"idle", "failed", "startEncode", "startDecode", "startupEncode",
                "startupDecode", "clsid", "lookup"} : HoldsWhile(pc) = {}
BY DEF HoldsWhile

LEMMA WindowsPoints ==
  WindowsCalls = {"createBitmap", "createStream", "saveImage", "lockStream",
                  "copyStream", "allocGlobal", "fillGlobal", "openStream",
                  "readBitmap", "allocPixels", "lockBits"}
BY DEF WindowsCalls, WindowsEncode, CopyStream, WindowsDecode

\* A call takes what the thread does not hold; what it holds then, less what is
\* given back, is what the next point expects; a call that fails gives back all
\* that the thread holds.
Balances(pc, call) ==
  /\ call.takes \cap HoldsWhile(pc) = {}
  /\ call.done \subseteq HoldsWhile(pc) \cup call.takes
  /\ HoldsWhile(call.next) = (HoldsWhile(pc) \cup call.takes) \ call.done
  /\ call.undo = HoldsWhile(pc)

LEMMA CallsBalance ==
  ASSUME NEW pc \in DOMAIN Calls
  PROVE  Balances(pc, Calls[pc])
<1> USE DEF Balances, Call
<1>1. CASE pc \in DOMAIN WindowsEncode
  <2>1. Calls[pc] = WindowsEncode[pc]
    BY <1>1, CallOf
  <2>2. CASE pc = "createBitmap"
    BY <2>1, <2>2, TakenAt, SMTT(30) DEF WindowsEncode
  <2>3. CASE pc = "createStream"
    BY <2>1, <2>3, TakenAt, SMTT(30) DEF WindowsEncode
  <2>4. CASE pc = "saveImage"
    BY <2>1, <2>4, TakenAt, SMTT(30) DEF WindowsEncode
  <2> QED
    BY <1>1, <2>2, <2>3, <2>4 DEF WindowsEncode
<1>2. CASE pc \in DOMAIN CopyStream
  <2>1. Calls[pc] = CopyStream[pc]
    BY <1>2, CallOf
  <2>2. CASE pc = "lockStream"
    BY <2>1, <2>2, TakenAt, SMTT(30) DEF CopyStream
  <2>3. CASE pc = "copyStream"
    <3>1. /\ HoldsWhile(pc) = {"lock", "bitmap", "stream"}
          /\ HoldsWhile("encoded") = {"result"}
      BY <2>3, TakenAt
    <3>2. Calls[pc] = Call({"result"}, {"lock", "stream", "bitmap"}, "encoded",
                       {"lock", "stream", "bitmap"})
      BY <2>1, <2>3 DEF CopyStream
    <3> QED
      BY <3>1, <3>2
  <2> QED
    BY <1>2, <2>2, <2>3 DEF CopyStream
<1>3. CASE pc \in DOMAIN WindowsDecode
  <2>1. Calls[pc] = WindowsDecode[pc]
    BY <1>3, CallOf
  <2>2. CASE pc = "allocGlobal"
    BY <2>1, <2>2, TakenAt, SMTT(30) DEF WindowsDecode
  <2>3. CASE pc = "fillGlobal"
    BY <2>1, <2>3, TakenAt, SMTT(30) DEF WindowsDecode
  <2>4. CASE pc = "openStream"
    BY <2>1, <2>4, TakenAt, SMTT(30) DEF WindowsDecode
  <2>5. CASE pc = "readBitmap"
    <3>1. /\ HoldsWhile(pc) = {"stream"}
          /\ HoldsWhile("checkBitmap") = {"bitmap", "stream"}
      BY <2>5, TakenAt
    <3>2. Calls[pc] = Call({"bitmap"}, {}, "checkBitmap", {"stream"})
      BY <2>1, <2>5 DEF WindowsDecode
    <3> QED
      BY <3>1, <3>2
  <2>6. CASE pc = "allocPixels"
    BY <2>1, <2>6, TakenAt, SMTT(30) DEF WindowsDecode
  <2>7. CASE pc = "lockBits"
    <3>1. /\ HoldsWhile(pc) = {"result", "bitmap", "stream"}
          /\ HoldsWhile("decoded") = {"result"}
      BY <2>7, TakenAt
    <3>2. Calls[pc] = Call({}, {"bitmap", "stream"}, "decoded",
                       {"result", "bitmap", "stream"})
      BY <2>1, <2>7 DEF WindowsDecode
    <3>3. {"result", "bitmap", "stream"} \ {"bitmap", "stream"} = {"result"}
      OBVIOUS
    <3> QED
      BY <3>1, <3>2, <3>3
  <2> QED
    BY <1>3, <2>2, <2>3, <2>4, <2>5, <2>6, <2>7 DEF WindowsDecode
<1>4. CASE pc \in DOMAIN CEncode
  <2>1. Calls[pc] = CEncode[pc]
    BY <1>4, CallOf
  <2> QED
    BY <1>4, <2>1, TakenAt, SMTT(30) DEF CEncode
<1>5. CASE pc \in DOMAIN CDecode
  <2>1. Calls[pc] = CDecode[pc]
    BY <1>5, CallOf
  <2> QED
    BY <1>5, <2>1, TakenAt, SMTT(30) DEF CDecode
<1> QED
  BY <1>1, <1>2, <1>3, <1>4, <1>5
  DEF Calls, WindowsCalls

(* A call that needs GDI+ follows one that does.                            *)
LEMMA CallsStayInGdiplus ==
  ASSUME NEW pc \in DOMAIN Calls
  PROVE  /\ ~StartsUp(Calls[pc].next)
         /\ UsesGdiplus(Calls[pc].next) => UsesGdiplus(pc)
         /\ Calls[pc].next = "write" => pc = "allocRgb"
         /\ Calls[pc].next \notin {"idle", "failed"}
         /\ Calls[pc].next \in CodecControl
         /\ pc \notin {"write", "encoded", "failed"} /\ ~StartsUp(pc)
<1>1. CASE pc \in WindowsCalls
  <2>1. UsesGdiplus(pc)
    BY <1>1 DEF UsesGdiplus
  <2>2. Calls[pc].next \in WindowsCalls \cup {"encoded", "decoded", "checkBitmap"}
    <3>1. CASE pc \in DOMAIN WindowsEncode
      BY <3>1, CallOf, WindowsPoints DEF WindowsEncode, Call
    <3>2. CASE pc \in DOMAIN CopyStream
      BY <3>2, CallOf, WindowsPoints DEF CopyStream, Call
    <3>3. CASE pc \in DOMAIN WindowsDecode
      BY <3>3, CallOf, WindowsPoints DEF WindowsDecode, Call
    <3> QED
      BY <1>1, <3>1, <3>2, <3>3 DEF WindowsCalls
  <2> QED
    BY <1>1, <2>1, <2>2, WindowsPoints, CodecPoints DEF StartsUp, CodecControl
<1>2. CASE pc \in DOMAIN CEncode
  BY <1>2, CallOf, WindowsPoints
  DEF CEncode, Call, StartsUp, UsesGdiplus, CodecControl
<1>3. CASE pc \in DOMAIN CDecode
  BY <1>3, CallOf, WindowsPoints, CodecPoints
  DEF CDecode, Call, StartsUp, UsesGdiplus, CodecControl
<1> QED
  BY <1>1, <1>2, <1>3 DEF Calls

-----------------------------------------------------------------------------
(* Counting what a thread holds. *)

LEMMA HoldingAdded ==
  ASSUME NEW count, NEW held, NEW kinds, Holding(count, held), kinds \cap held = {}
  PROVE  Holding(Adding(count, kinds), held \cup kinds)
BY DEF Holding, Adding

LEMMA HoldingRemoved ==
  ASSUME NEW count, NEW held, NEW kinds, Holding(count, held), kinds \subseteq held
  PROVE  Holding(Removing(count, kinds), held \ kinds)
BY DEF Holding, Removing

LEMMA HoldingType ==
  ASSUME NEW count, NEW held, Holding(count, held)
  PROVE  count \in [TakenKinds -> Int]
BY DEF Holding

(* A step of one thread, from what it does to that thread.                  *)
LEMMA ThreadHolds ==
  ASSUME CodecInv, NEW t \in CodecThreads, NEW pc, NEW count,
         codecPc' = [codecPc EXCEPT ![t] = pc],
         taken' = [taken EXCEPT ![t] = count],
         \A u \in CodecThreads \ {t} : writer'[u] = writer[u],
         Holding(count, HoldsWhile(pc) \cup DataHeld(t)')
  PROVE  /\ Holds'
         /\ taken' \in [CodecThreads -> [TakenKinds -> Int]]
<1>1. /\ codecPc'[t] = pc /\ taken'[t] = count
      /\ \A u \in CodecThreads \ {t} : codecPc'[u] = codecPc[u] /\ taken'[u] = taken[u]
  BY DEF CodecInv, CodecTypeOK
<1>2. \A u \in CodecThreads \ {t} : DataHeld(u)' = DataHeld(u)
  BY <1>1 DEF DataHeld
<1>3. Holds'
  BY <1>1, <1>2 DEF CodecInv, Holds
<1>4. count \in [TakenKinds -> Int]
  BY HoldingType
<1> QED
  BY <1>3, <1>4 DEF CodecInv, CodecTypeOK

(* A step of one thread that leaves GDI+ and its locks alone.               *)
LEMMA ThreadLeavesGdiplus ==
  ASSUME CodecInv, NEW t \in CodecThreads, NEW pc,
         codecPc' = [codecPc EXCEPT ![t] = pc], UNCHANGED onceVars,
         ~StartsUp(pc), UsesGdiplus(pc) => startupOnce = "done" /\ token = 1
  PROVE  GdiplusInv'
<1>1. /\ codecPc'[t] = pc
      /\ \A u \in CodecThreads \ {t} : codecPc'[u] = codecPc[u]
  BY DEF CodecInv, CodecTypeOK
<1> QED
  BY <1>1 DEF CodecInv, GdiplusInv, onceVars

-----------------------------------------------------------------------------
(* The steps. *)

LEMMA CodecInvInit == CodecInit => CodecInv
<1> SUFFICES ASSUME CodecInit PROVE CodecInv
  OBVIOUS
<1> USE DEF CodecInit
<1>1. NewWriter \in [size: 0..WordMax, capacity: 0..WordMax, failed: BOOLEAN]
  BY CodecAssumption DEF NewWriter, WordMax
<1>2. CodecTypeOK
  <2>1. codecPc \in [CodecThreads -> CodecControl]
    BY DEF CodecControl
  <2>2. clsidValid \in BOOLEAN
    OBVIOUS
  <2> QED
    BY <1>1, <2>1, <2>2 DEF CodecTypeOK
<1>3. Holds
  BY TakenAt DEF Holds, Holding, DataHeld
<1>4. WriterFresh
  BY DEF WriterFresh, NewWriter
<1>5. GdiplusInv
  BY WindowsPoints DEF GdiplusInv, StartsUp, UsesGdiplus
<1> QED
  BY <1>2, <1>3, <1>4, <1>5 DEF CodecInv

(* The steps of a thread that change only where it is.                      *)
LEMMA ThreadGoes ==
  ASSUME CodecInv, NEW t \in CodecThreads, NEW pc \in CodecControl,
         codecPc' = [codecPc EXCEPT ![t] = pc],
         UNCHANGED <<codecBackend, taken, picture, writer, written>>,
         HoldsWhile(pc) = HoldsWhile(codecPc[t]),
         codecPc[t] \notin {"write", "encoded", "failed"}, pc # "write",
         gdiplus' \in Int, token' \in {0, 1}, clsidValid' \in BOOLEAN,
         {startupOnce, clsidOnce}' \subseteq {"unset", "running", "done"}
  PROVE  CodecTypeOK' /\ Holds' /\ WriterFresh'
<1>1. /\ codecPc'[t] = pc
      /\ \A u \in CodecThreads \ {t} : codecPc'[u] = codecPc[u]
  BY DEF CodecInv, CodecTypeOK
<1>2. CodecTypeOK'
  BY DEF CodecInv, CodecTypeOK
<1>3. \A u \in CodecThreads : DataHeld(u)' = DataHeld(u)
  BY <1>1 DEF DataHeld
<1>4. Holds'
  BY <1>1, <1>3 DEF CodecInv, Holds
<1>5. WriterFresh'
  BY <1>1 DEF CodecInv, WriterFresh
<1> QED
  BY <1>2, <1>4, <1>5

LEMMA BeginCallInv ==
  ASSUME CodecInv, NEW t \in CodecThreads, EncodeCall(t) \/ DecodeCall(t)
  PROVE  CodecInv'
<1>1. PICK pc \in {"allocRgb", "startEncode", "load", "startDecode"} :
        codecPc' = [codecPc EXCEPT ![t] = pc]
  BY DEF EncodeCall, DecodeCall, Goto
<1>2. /\ codecPc[t] = "idle"
      /\ UNCHANGED <<codecBackend, onceVars, taken, picture, writer, written>>
  BY DEF EncodeCall, DecodeCall
<1>3. pc \in CodecControl /\ HoldsWhile(pc) = {} /\ HoldsWhile("idle") = {}
  BY TakenAt, CodecPoints DEF CodecControl
<1>4. CodecTypeOK' /\ Holds' /\ WriterFresh'
  BY <1>1, <1>2, <1>3, ThreadGoes DEF CodecInv, CodecTypeOK, onceVars
<1>5. GdiplusInv'
  BY <1>1, <1>2, WindowsPoints, ThreadLeavesGdiplus DEF StartsUp, UsesGdiplus
<1> QED
  BY <1>4, <1>5 DEF CodecInv

LEMMA CodecReturnsInv ==
  ASSUME CodecInv, NEW t \in CodecThreads, CodecReturns(t)
  PROVE  CodecInv'
<1> USE DEF CodecReturns, Goto
<1> DEFINE count == [taken[t] EXCEPT !["result"] = 0]
<1>1. /\ codecPc' = [codecPc EXCEPT ![t] = "idle"]
      /\ taken' = [taken EXCEPT ![t] = count]
      /\ writer' = [writer EXCEPT ![t] = NewWriter]
  OBVIOUS
<1>2. \A u \in CodecThreads \ {t} : writer'[u] = writer[u]
  BY DEF CodecInv, CodecTypeOK
<1>3. Holding(taken[t], HoldsWhile(codecPc[t]))
  BY DEF CodecInv, Holds, DataHeld
<1>4. HoldsWhile(codecPc[t]) \subseteq {"result"} /\ HoldsWhile("idle") = {}
  BY TakenAt
<1>5. DataHeld(t)' = {}
  BY <1>1 DEF DataHeld, CodecInv, CodecTypeOK
<1>6. Holding(count, HoldsWhile("idle") \cup DataHeld(t)')
  BY <1>3, <1>4, <1>5 DEF Holding, TakenKinds
<1>7. Holds' /\ taken' \in [CodecThreads -> [TakenKinds -> Int]]
  BY <1>1, <1>2, <1>6, ThreadHolds
<1>8. CodecTypeOK'
  <2>1. NewWriter \in [size: 0..WordMax, capacity: 0..WordMax, failed: BOOLEAN]
    BY CodecAssumption DEF NewWriter, WordMax
  <2>2. "idle" \in CodecControl
    BY DEF CodecControl
  <2> QED
    BY <1>7, <2>1, <2>2 DEF CodecInv, CodecTypeOK, onceVars
<1>9. WriterFresh'
  BY DEF CodecInv, CodecTypeOK, WriterFresh, NewWriter
<1>10. GdiplusInv'
  BY <1>1, WindowsPoints, ThreadLeavesGdiplus DEF StartsUp, UsesGdiplus
<1> QED
  BY <1>7, <1>8, <1>9, <1>10 DEF CodecInv

-----------------------------------------------------------------------------
(* Starting GDI+. *)

LEMMA BeginStartupInv ==
  ASSUME CodecInv, NEW t \in CodecThreads, BeginStartup(t)
  PROVE  CodecInv'
<1>1. PICK pc \in {"startupEncode", "startupDecode"} :
        codecPc' = [codecPc EXCEPT ![t] = pc]
  BY DEF BeginStartup, Goto
<1>2. /\ codecPc[t] \in {"startEncode", "startDecode"}
      /\ startupOnce = "unset" /\ startupOnce' = "running"
      /\ UNCHANGED <<gdiplus, token, clsidOnce, clsidValid>>
      /\ UNCHANGED <<codecBackend, taken, picture, writer, written>>
  BY DEF BeginStartup, Starting, OnceUnchanged
<1>3. pc \in CodecControl /\ HoldsWhile(pc) = HoldsWhile(codecPc[t])
  BY <1>2, TakenAt DEF CodecControl
<1>4. CodecTypeOK' /\ Holds' /\ WriterFresh'
  BY <1>1, <1>2, <1>3, ThreadGoes DEF CodecInv, CodecTypeOK
<1>5. GdiplusInv'
  <2>1. /\ codecPc'[t] = pc /\ StartsUp(pc) /\ ~UsesGdiplus(pc)
        /\ \A u \in CodecThreads \ {t} : codecPc'[u] = codecPc[u]
    BY <1>1, WindowsPoints DEF CodecInv, CodecTypeOK, StartsUp, UsesGdiplus
  <2>2. \A u \in CodecThreads : ~StartsUp(codecPc[u]) /\ ~UsesGdiplus(codecPc[u])
    BY <1>2 DEF CodecInv, GdiplusInv
  <2> QED
    BY <1>2, <2>1, <2>2 DEF CodecInv, GdiplusInv
<1> QED
  BY <1>4, <1>5 DEF CodecInv

LEMMA StartupOnceInv ==
  ASSUME CodecInv, NEW t \in CodecThreads, StartupOnce(t)
  PROVE  CodecInv'
<1>1. PICK pc \in {"startEncode", "startDecode"} :
        codecPc' = [codecPc EXCEPT ![t] = pc]
  BY DEF StartupOnce, Goto
<1>2. /\ StartsUp(codecPc[t])
      /\ \/ gdiplus' = gdiplus + 1 /\ token' = 1
         \/ token' = 0 /\ gdiplus' = gdiplus
      /\ startupOnce' = "done"
      /\ UNCHANGED <<clsidOnce, clsidValid>>
      /\ UNCHANGED <<codecBackend, taken, picture, writer, written>>
  BY DEF StartupOnce, StartsUp, OnceUnchanged
<1>3. pc \in CodecControl /\ HoldsWhile(pc) = HoldsWhile(codecPc[t])
  BY <1>2, TakenAt DEF CodecControl, StartsUp
<1>4. startupOnce = "running" /\ gdiplus = 0 /\ token = 0
  BY <1>2 DEF CodecInv, GdiplusInv
<1>5. CodecTypeOK' /\ Holds' /\ WriterFresh'
  <2>1. gdiplus' \in Int /\ token' \in {0, 1} /\ clsidValid' \in BOOLEAN
    BY <1>2, <1>4 DEF CodecInv, CodecTypeOK
  <2>2. {startupOnce, clsidOnce}' \subseteq {"unset", "running", "done"}
    BY <1>2 DEF CodecInv, CodecTypeOK
  <2>3. codecPc[t] \notin {"write", "encoded", "failed"} /\ pc # "write"
    BY <1>2 DEF StartsUp
  <2> QED
    BY <1>1, <1>2, <1>3, <2>1, <2>2, <2>3, ThreadGoes
<1>6. GdiplusInv'
  <2>1. /\ codecPc'[t] = pc /\ ~StartsUp(pc) /\ ~UsesGdiplus(pc)
        /\ \A u \in CodecThreads \ {t} : codecPc'[u] = codecPc[u]
    BY <1>1, WindowsPoints DEF CodecInv, CodecTypeOK, StartsUp, UsesGdiplus
  <2>2. \A u \in CodecThreads \ {t} :
          ~StartsUp(codecPc[u]) /\ ~UsesGdiplus(codecPc[u])
    BY <1>2, <1>4 DEF CodecInv, GdiplusInv
  <2> QED
    BY <1>2, <1>4, <2>1, <2>2 DEF GdiplusInv
<1> QED
  BY <1>5, <1>6 DEF CodecInv

(* Going on after the start, or after the lookup of the encoder.            *)
LEMMA StartedInv ==
  ASSUME CodecInv, NEW t \in CodecThreads, Started(t) \/ LookedUp(t)
  PROVE  CodecInv'
<1>1. PICK pc \in {"clsid", "allocGlobal", "createBitmap", "failed"} :
        codecPc' = [codecPc EXCEPT ![t] = pc]
  BY DEF Started, LookedUp, AfterStart, Goto
<1>2. /\ codecPc[t] \in {"startEncode", "startDecode", "clsid"}
      /\ pc # "failed" => startupOnce = "done" /\ token = 1
      /\ UNCHANGED onceVars
      /\ UNCHANGED <<codecBackend, taken, picture, writer, written>>
  <2>1. CASE Started(t)
    <3>1. codecPc'[t] = pc
      BY <1>1 DEF CodecInv, CodecTypeOK
    <3>2. token = 0 => pc = "failed"
      BY <2>1, <3>1 DEF Started, Goto, CodecInv, CodecTypeOK
    <3> QED
      BY <2>1, <3>2 DEF Started, Starting, OnceUnchanged, CodecInv, GdiplusInv
  <2>2. CASE LookedUp(t)
    BY <2>2 DEF LookedUp, OnceUnchanged, CodecInv, GdiplusInv, UsesGdiplus
  <2> QED
    BY <2>1, <2>2
<1>3. /\ pc \in CodecControl /\ HoldsWhile(pc) = HoldsWhile(codecPc[t])
      /\ codecPc[t] \notin {"write", "encoded", "failed"} /\ pc # "write"
  BY <1>2, TakenAt, CodecPoints DEF CodecControl
<1>4. /\ gdiplus' \in Int /\ token' \in {0, 1} /\ clsidValid' \in BOOLEAN
      /\ {startupOnce, clsidOnce}' \subseteq {"unset", "running", "done"}
  BY <1>2 DEF CodecInv, CodecTypeOK, onceVars
<1>5. CodecTypeOK' /\ Holds' /\ WriterFresh'
  BY <1>1, <1>2, <1>3, <1>4, ThreadGoes
<1>6. GdiplusInv'
  <2>1. ~StartsUp(pc) /\ (UsesGdiplus(pc) => startupOnce = "done" /\ token = 1)
    BY <1>2, WindowsPoints DEF StartsUp, UsesGdiplus
  <2> QED
    BY <1>1, <1>2, <2>1, ThreadLeavesGdiplus
<1> QED
  BY <1>5, <1>6 DEF CodecInv

LEMMA LookupInv ==
  ASSUME CodecInv, NEW t \in CodecThreads, BeginLookup(t) \/ LookupOnce(t)
  PROVE  CodecInv'
<1>1. PICK pc \in {"clsid", "lookup"} :
        codecPc' = [codecPc EXCEPT ![t] = pc]
  BY DEF BeginLookup, LookupOnce, Goto
<1>2. /\ codecPc[t] \in {"clsid", "lookup"}
      /\ clsidOnce' \in {"running", "done"}
      /\ UNCHANGED <<gdiplus, token, startupOnce>>
      /\ UNCHANGED <<codecBackend, taken, picture, writer, written>>
  BY DEF BeginLookup, LookupOnce, OnceUnchanged
<1>3. /\ pc \in CodecControl /\ HoldsWhile(pc) = HoldsWhile(codecPc[t])
      /\ codecPc[t] \notin {"write", "encoded", "failed"} /\ pc # "write"
  BY <1>2, TakenAt DEF CodecControl
<1>4. clsidValid' \in BOOLEAN
  BY DEF BeginLookup, LookupOnce, CodecInv, CodecTypeOK
<1>5. CodecTypeOK' /\ Holds' /\ WriterFresh'
  <2>1. gdiplus' \in Int /\ token' \in {0, 1}
    BY <1>2 DEF CodecInv, CodecTypeOK
  <2>2. {startupOnce, clsidOnce}' \subseteq {"unset", "running", "done"}
    BY <1>2 DEF CodecInv, CodecTypeOK
  <2> QED
    BY <1>1, <1>2, <1>3, <1>4, <2>1, <2>2, ThreadGoes
<1>6. GdiplusInv'
  <2>1. /\ codecPc'[t] = pc /\ ~StartsUp(pc) /\ UsesGdiplus(codecPc[t])
        /\ \A u \in CodecThreads \ {t} : codecPc'[u] = codecPc[u]
    BY <1>1, <1>2 DEF CodecInv, CodecTypeOK, StartsUp, UsesGdiplus
  <2> QED
    BY <1>2, <2>1 DEF CodecInv, GdiplusInv
<1> QED
  BY <1>5, <1>6 DEF CodecInv

-----------------------------------------------------------------------------
(* The calls, the check of the size, and the writing.                       *)

(* A step of a thread that changes what it holds and neither GDI+ nor its   *)
(* writer.                                                                  *)
LEMMA ThreadTakes ==
  ASSUME CodecInv, NEW t \in CodecThreads, NEW pc \in CodecControl, NEW count,
         codecPc' = [codecPc EXCEPT ![t] = pc],
         taken' = [taken EXCEPT ![t] = count],
         UNCHANGED <<codecBackend, onceVars, writer, written>>,
         picture' \in [CodecThreads -> Pictures \cup {NoPixels}],
         Holding(count, HoldsWhile(pc) \cup DataHeld(t)'),
         codecPc[t] \in {"encoded", "failed"} => pc \in {"encoded", "failed"},
         codecPc[t] = "write" => pc \in {"encoded", "failed"},
         ~StartsUp(pc), UsesGdiplus(pc) => UsesGdiplus(codecPc[t])
  PROVE  CodecInv'
<1>1. Holds' /\ taken' \in [CodecThreads -> [TakenKinds -> Int]]
  BY ThreadHolds
<1>2. CodecTypeOK'
  BY <1>1 DEF CodecInv, CodecTypeOK, onceVars
<1>3. WriterFresh'
  BY DEF CodecInv, CodecTypeOK, WriterFresh
<1>4. UsesGdiplus(pc) => startupOnce = "done" /\ token = 1
  BY DEF CodecInv, GdiplusInv
<1>5. GdiplusInv'
  BY <1>4, ThreadLeavesGdiplus
<1> QED
  BY <1>1, <1>2, <1>3, <1>5 DEF CodecInv

LEMMA CallSucceedsInv ==
  ASSUME CodecInv, NEW t \in CodecThreads, CallSucceeds(t)
  PROVE  CodecInv'
<1> DEFINE at == codecPc[t]
           call == Calls[at]
           count == Removing(Adding(taken[t], call.takes), call.done)
<1>1. /\ at \in DOMAIN Calls
      /\ codecPc' = [codecPc EXCEPT ![t] = call.next]
      /\ taken' = [taken EXCEPT ![t] = count]
      /\ UNCHANGED <<codecBackend, onceVars, picture, writer, written>>
  BY DEF CallSucceeds, Goto, CallUnchanged
<1>2. Balances(at, call)
  BY <1>1, CallsBalance
<1>3. /\ ~StartsUp(call.next) /\ (UsesGdiplus(call.next) => UsesGdiplus(at))
      /\ call.next = "write" => at = "allocRgb"
      /\ call.next \in CodecControl
      /\ at \notin {"write", "encoded", "failed"}
  BY <1>1, CallsStayInGdiplus
<1>4. Holding(taken[t], HoldsWhile(at))
  BY <1>3 DEF CodecInv, Holds, DataHeld
<1>5. DataHeld(t)' = {}
  <2>1. codecPc'[t] = call.next /\ writer'[t] = NewWriter
    BY <1>1, <1>3 DEF CodecInv, CodecTypeOK, WriterFresh
  <2> QED
    BY <2>1 DEF DataHeld, NewWriter
<1>6. Holding(count, HoldsWhile(call.next) \cup DataHeld(t)')
  <2> DEFINE had == Adding(taken[t], call.takes)
             all == HoldsWhile(at) \cup call.takes
             gone == call.done
  <2>1. Holding(had, all)
    BY <1>2, <1>4, HoldingAdded DEF Balances
  <2>2. gone \subseteq all /\ HoldsWhile(call.next) = all \ gone
    BY <1>2 DEF Balances
  <2> HIDE DEF had, all, gone
  <2>3. Holding(Removing(had, gone), all \ gone)
    BY <2>1, <2>2, HoldingRemoved
  <2> QED
    BY <1>5, <2>2, <2>3 DEF had, gone
<1>7. picture' \in [CodecThreads -> Pictures \cup {NoPixels}]
  BY <1>1 DEF CodecInv, CodecTypeOK
<1> HIDE DEF at, call, count
<1> QED
  BY <1>1, <1>3, <1>6, <1>7, ThreadTakes DEF at

(* An operation that fails gives back all that it holds.                    *)
LEMMA ThreadFails ==
  ASSUME CodecInv, NEW t \in CodecThreads,
         codecPc' = [codecPc EXCEPT ![t] = "failed"],
         taken' = [taken EXCEPT ![t] = Removing(@, HoldsWhile(codecPc[t]))],
         codecPc[t] # "write",
         UNCHANGED <<codecBackend, onceVars, writer, written>>,
         picture' \in [CodecThreads -> Pictures \cup {NoPixels}]
  PROVE  CodecInv'
<1> DEFINE held == HoldsWhile(codecPc[t])
           count == Removing(taken[t], held)
<1>1. Holding(taken[t], held)
  BY DEF CodecInv, Holds, DataHeld
<1>2. Holding(count, held \ held)
  <2> HIDE DEF held
  <2> QED
    BY <1>1, HoldingRemoved
<1>3. HoldsWhile("failed") = {} /\ DataHeld(t)' = {}
  BY TakenAt DEF DataHeld, CodecInv, CodecTypeOK
<1>4. Holding(count, HoldsWhile("failed") \cup DataHeld(t)')
  <2>1. held \ held = HoldsWhile("failed") \cup DataHeld(t)'
    BY <1>3
  <2> HIDE DEF count, held
  <2> QED
    BY <1>2, <2>1
<1>5. /\ "failed" \in CodecControl
      /\ ~StartsUp("failed") /\ ~UsesGdiplus("failed")
  BY WindowsPoints DEF CodecControl, StartsUp, UsesGdiplus
<1>6. taken' = [taken EXCEPT ![t] = count]
  OBVIOUS
<1> HIDE DEF count
<1> QED
  BY <1>4, <1>5, <1>6, ThreadTakes

LEMMA CallFailsInv ==
  ASSUME CodecInv, NEW t \in CodecThreads, CallFails(t)
  PROVE  CodecInv'
<1>1. codecPc[t] \in DOMAIN Calls
  BY DEF CallFails
<1>2. Calls[codecPc[t]].undo = HoldsWhile(codecPc[t])
  BY <1>1, CallsBalance DEF Balances
<1>3. codecPc[t] # "write"
  BY <1>1, CodecPoints
<1>4. /\ codecPc' = [codecPc EXCEPT ![t] = "failed"]
      /\ taken' = [taken EXCEPT ![t] = Removing(@, HoldsWhile(codecPc[t]))]
      /\ UNCHANGED <<codecBackend, onceVars, picture, writer, written>>
  BY <1>2 DEF CallFails, Goto, CallUnchanged
<1>5. picture' \in [CodecThreads -> Pictures \cup {NoPixels}]
  BY <1>4 DEF CodecInv, CodecTypeOK
<1> QED
  BY <1>3, <1>4, <1>5, ThreadFails

LEMMA CheckPictureInv ==
  ASSUME CodecInv, NEW t \in CodecThreads, CheckPicture(t)
  PROVE  CodecInv'
<1> DEFINE at == codecPc[t]
<1>1. /\ at \in {"checkBitmap", "checkLoaded"}
      /\ UNCHANGED <<codecBackend, onceVars, writer, written>>
  BY DEF CheckPicture
<1>2. PICK p \in Pictures :
        /\ picture' = [picture EXCEPT ![t] = p]
        /\ \/ /\ codecPc' = [codecPc EXCEPT ![t] =
                   IF at = "checkBitmap" THEN "allocPixels" ELSE "allocBgra"]
              /\ UNCHANGED taken
           \/ /\ codecPc' = [codecPc EXCEPT ![t] = "failed"]
              /\ taken' = [taken EXCEPT ![t] =
                   Removing(@, IF at = "checkBitmap" THEN {"bitmap", "stream"}
                               ELSE {"rgba"})]
  BY DEF CheckPicture, Goto
<1>3. picture' \in [CodecThreads -> Pictures \cup {NoPixels}]
  BY <1>2 DEF CodecInv, CodecTypeOK
<1>4. HoldsWhile(at) = IF at = "checkBitmap" THEN {"bitmap", "stream"} ELSE {"rgba"}
  BY <1>1, TakenAt
<1>5. ASSUME codecPc' = [codecPc EXCEPT ![t] = "failed"],
             taken' = [taken EXCEPT ![t] = Removing(@, HoldsWhile(at))]
      PROVE  CodecInv'
  <2>1. codecPc[t] # "write"
    BY <1>1
  <2> QED
    BY <1>1, <1>3, <1>5, <2>1, ThreadFails
<1>6. ASSUME NEW pc, pc = IF at = "checkBitmap" THEN "allocPixels" ELSE "allocBgra",
             codecPc' = [codecPc EXCEPT ![t] = pc], UNCHANGED taken
      PROVE  CodecInv'
  <2>1. taken' = [taken EXCEPT ![t] = taken[t]]
    BY <1>6 DEF CodecInv, CodecTypeOK
  <2>2. HoldsWhile(pc) = HoldsWhile(at) /\ DataHeld(t) = {} /\ DataHeld(t)' = {}
    BY <1>1, <1>6, TakenAt DEF DataHeld, CodecInv, CodecTypeOK
  <2>3. Holding(taken[t], HoldsWhile(pc) \cup DataHeld(t)')
    BY <2>2 DEF CodecInv, Holds
  <2>4. /\ pc \in CodecControl /\ ~StartsUp(pc)
        /\ UsesGdiplus(pc) => UsesGdiplus(at)
    BY <1>1, <1>6, WindowsPoints, CodecPoints DEF CodecControl, StartsUp, UsesGdiplus
  <2> QED
    BY <1>1, <1>3, <1>6, <2>1, <2>3, <2>4, ThreadTakes
<1> QED
  BY <1>2, <1>4, <1>5, <1>6

(* The writer after an append: its size stays within its capacity, and when *)
(* the append did not fail, no size wrapped.                                *)
LEMMA AppendedWriter ==
  ASSUME NEW w \in [size: 0..WordMax, capacity: 0..WordMax, failed: BOOLEAN],
         NEW n \in Chunks, w.size <= w.capacity, NEW v \in Appended(w, n)
  PROVE  /\ v \in [size: 0..WordMax, capacity: 0..WordMax, failed: BOOLEAN]
         /\ v.size <= v.capacity
         /\ w.failed => v.failed
         /\ ~v.failed => v.size = w.size + n
<1> DEFINE requested == (w.size + n) % Word
<1>1. n \in 1..(Word - 1) /\ w.size \in 0..(Word - 1) /\ Word \in Nat \ {0}
  BY CodecAssumption DEF WordMax
<1>2. /\ requested \in 0..(Word - 1)
      /\ requested >= w.size => requested = w.size + n
  <2>1. \A x \in 0..(Word - 1) : x % Word = x
    BY <1>1
  <2>2. \A x \in Word..(2 * Word - 1) : x % Word = x - Word
    BY <1>1
  <2>3. CASE w.size + n < Word
    BY <1>1, <2>1, <2>3
  <2>4. CASE w.size + n >= Word
    BY <1>1, <2>2, <2>4
  <2> QED
    BY <1>1, <2>3, <2>4
<1> HIDE DEF requested
<1>3. CASE w.failed
  BY <1>3 DEF Appended
<1>4. CASE ~w.failed /\ requested < w.size
  BY <1>4 DEF Appended, Refused, requested
<1>5. CASE ~w.failed /\ requested >= w.size /\ requested <= w.capacity
  <2>1. v = [w EXCEPT !.size = requested]
    BY <1>1, <1>2, <1>5 DEF Appended, requested
  <2> QED
    BY <1>1, <1>2, <1>5, <2>1 DEF WordMax
<1>6. CASE ~w.failed /\ requested >= w.size /\ requested > w.capacity
  <2>1. v \in Grown(w, requested) \cup Refused(w)
    BY <1>1, <1>2, <1>6 DEF Appended, requested
  <2>2. CASE v \in Refused(w)
    BY <2>2 DEF Refused
  <2>3. CASE v \in Grown(w, requested)
    <3>1. PICK c \in FirstEnough(w, requested) :
            v = [w EXCEPT !.size = requested, !.capacity = c]
      BY <2>3 DEF Grown
    <3>2. c \in requested..WordMax
      BY DEF FirstEnough
    <3>3. /\ requested \in 0..WordMax /\ c \in 0..WordMax /\ requested <= c
      BY <1>1, <1>2, <3>2 DEF WordMax
    <3>4. v = [size |-> requested, capacity |-> c, failed |-> w.failed]
      BY <3>1
    <3> QED
      BY <1>2, <1>6, <3>3, <3>4
  <2> QED
    BY <2>1, <2>2, <2>3
<1> QED
  BY <1>1, <1>2, <1>3, <1>4, <1>5, <1>6

LEMMA WriteInv ==
  ASSUME CodecInv, NEW t \in CodecThreads, Write(t)
  PROVE  CodecInv'
<1>1. PICK n \in Chunks :
        /\ written' = [written EXCEPT ![t] = @ + n]
        /\ \E w \in Appended(writer[t], n) : writer' = [writer EXCEPT ![t] = w]
  BY DEF Write
<1>2. PICK w \in Appended(writer[t], n) : writer' = [writer EXCEPT ![t] = w]
  BY <1>1
<1>3. /\ codecPc[t] = "write"
      /\ taken' = [taken EXCEPT ![t]["data"] = IF writer'[t].capacity > 0 THEN 1 ELSE 0]
      /\ UNCHANGED <<codecBackend, onceVars, codecPc, picture>>
  BY DEF Write
<1>4. /\ w \in [size: 0..WordMax, capacity: 0..WordMax, failed: BOOLEAN]
      /\ w.size <= w.capacity
  BY AppendedWriter DEF CodecInv, CodecTypeOK, WriterFresh
<1>5. /\ writer'[t] = w
      /\ \A u \in CodecThreads \ {t} : writer'[u] = writer[u]
  BY <1>2 DEF CodecInv, CodecTypeOK
<1> DEFINE count == [taken[t] EXCEPT !["data"] = IF w.capacity > 0 THEN 1 ELSE 0]
<1>6. Holding(count, HoldsWhile("write") \cup DataHeld(t)')
  <2>1. HoldsWhile("write") = {"rgb"}
    BY TakenAt
  <2>2. /\ DataHeld(t) \subseteq {"data"}
        /\ DataHeld(t)' = IF w.capacity > 0 THEN {"data"} ELSE {}
    BY <1>3, <1>5 DEF DataHeld
  <2>3. Holding(taken[t], {"rgb"} \cup DataHeld(t))
    BY <1>3, <2>1 DEF CodecInv, Holds
  <2> QED
    BY <2>1, <2>2, <2>3 DEF Holding, TakenKinds
<1>7. Holds' /\ taken' \in [CodecThreads -> [TakenKinds -> Int]]
  <2>1. taken' = [taken EXCEPT ![t] = count]
    BY <1>3, <1>5
  <2>2. codecPc' = [codecPc EXCEPT ![t] = "write"]
    BY <1>3 DEF CodecInv, CodecTypeOK
  <2> HIDE DEF count
  <2> QED
    BY <1>5, <1>6, <2>1, <2>2, ThreadHolds
<1>8. CodecTypeOK'
  <2>1. written' \in [CodecThreads -> Nat]
    BY <1>1, CodecAssumption DEF CodecInv, CodecTypeOK
  <2>2. writer' \in [CodecThreads ->
          [size: 0..WordMax, capacity: 0..WordMax, failed: BOOLEAN]]
    BY <1>2, <1>4 DEF CodecInv, CodecTypeOK
  <2> QED
    BY <1>3, <1>7, <2>1, <2>2 DEF CodecInv, CodecTypeOK, onceVars
<1>9. WriterFresh' /\ GdiplusInv'
  BY <1>3, <1>4, <1>5 DEF CodecInv, WriterFresh, GdiplusInv, onceVars
<1> QED
  BY <1>7, <1>8, <1>9 DEF CodecInv

LEMMA EndWriteInv ==
  ASSUME CodecInv, NEW t \in CodecThreads, EndWrite(t)
  PROVE  CodecInv'
<1>1. /\ codecPc[t] = "write"
      /\ UNCHANGED <<codecBackend, onceVars, picture, writer, written>>
  BY DEF EndWrite
<1>2. Holding(taken[t], {"rgb"} \cup DataHeld(t))
  BY <1>1, TakenAt DEF CodecInv, Holds
<1>3. /\ \A pc \in {"encoded", "failed"} :
           codecPc' = [codecPc EXCEPT ![t] = pc] => DataHeld(t)' = {}
      /\ HoldsWhile("encoded") = {"result"} /\ HoldsWhile("failed") = {}
  BY TakenAt DEF DataHeld, CodecInv, CodecTypeOK
<1>4. \A pc \in {"encoded", "failed"} :
        pc \in CodecControl /\ ~StartsUp(pc) /\ ~UsesGdiplus(pc)
  BY WindowsPoints DEF CodecControl, StartsUp, UsesGdiplus
<1>5. picture' \in [CodecThreads -> Pictures \cup {NoPixels}]
  BY <1>1 DEF CodecInv, CodecTypeOK
<1>6. ASSUME NEW pc \in {"encoded", "failed"}, NEW count,
             codecPc' = [codecPc EXCEPT ![t] = pc],
             taken' = [taken EXCEPT ![t] = count], Holding(count, HoldsWhile(pc))
      PROVE  CodecInv'
  <2>1. Holding(count, HoldsWhile(pc) \cup DataHeld(t)')
    BY <1>3, <1>6
  <2> QED
    BY <1>1, <1>4, <1>5, <1>6, <2>1, ThreadTakes
<1>7. CASE /\ writer[t].size # 0
           /\ taken' = [taken EXCEPT ![t] =
                          Adding(Removing(@, {"rgb", "data"}), {"result"})]
           /\ Goto(t, "encoded")
  <2> DEFINE count == Adding(Removing(taken[t], {"rgb", "data"}), {"result"})
  <2>1. DataHeld(t) = {"data"}
    BY <1>1, <1>7 DEF DataHeld, CodecInv, CodecTypeOK, WriterFresh
  <2>2. Holding(count, HoldsWhile("encoded"))
    BY <1>2, <1>3, <2>1 DEF Holding, Adding, Removing, TakenKinds
  <2>3. taken' = [taken EXCEPT ![t] = count] /\ codecPc' = [codecPc EXCEPT ![t] = "encoded"]
    BY <1>7 DEF Goto
  <2> HIDE DEF count
  <2> QED
    BY <1>6, <2>2, <2>3
<1>8. CASE /\ taken' = [taken EXCEPT ![t] = [Removing(@, {"rgb"}) EXCEPT !["data"] = 0]]
           /\ Goto(t, "failed")
  <2> DEFINE count == [Removing(taken[t], {"rgb"}) EXCEPT !["data"] = 0]
  <2>1. Holding(count, HoldsWhile("failed"))
    <3>1. DataHeld(t) \subseteq {"data"}
      BY DEF DataHeld
    <3> DEFINE rest == Removing(taken[t], {"rgb"})
    <3>2. Holding(rest, ({"rgb"} \cup DataHeld(t)) \ {"rgb"})
      BY <1>2, HoldingRemoved
    <3>3. \A k \in TakenKinds \ {"data"} : rest[k] = 0
      BY <3>1, <3>2 DEF Holding
    <3>4. count = [k \in TakenKinds |-> 0]
      BY <3>3 DEF Removing
    <3> QED
      BY <1>3, <3>4 DEF Holding
  <2>2. taken' = [taken EXCEPT ![t] = count] /\ codecPc' = [codecPc EXCEPT ![t] = "failed"]
    BY <1>8 DEF Goto
  <2> HIDE DEF count
  <2> QED
    BY <1>6, <2>1, <2>2
<1> QED
  BY <1>7, <1>8 DEF EndWrite

LEMMA CodecShutdownInv ==
  ASSUME CodecInv, CodecIdle, CodecShutdown
  PROVE  CodecInv'
<1> USE DEF CodecShutdown, threadVars
<1>1. gdiplus' = 0 /\ token' = 0
  BY DEF CodecInv, GdiplusInv
<1>2. CodecTypeOK'
  BY <1>1 DEF CodecInv, CodecTypeOK
<1>3. Holds' /\ WriterFresh'
  BY DEF CodecInv, Holds, DataHeld, WriterFresh
<1>4. GdiplusInv'
  BY <1>1, WindowsPoints DEF CodecIdle, CodecInv, GdiplusInv, UsesGdiplus
<1> QED
  BY <1>2, <1>3, <1>4 DEF CodecInv

LEMMA CodecInvStep == CodecInv /\ [CodecNext]_codecVars => CodecInv'
<1> SUFFICES ASSUME CodecInv, [CodecNext]_codecVars PROVE CodecInv'
  OBVIOUS
<1>1. ASSUME NEW t \in CodecThreads, CodecStep(t) PROVE CodecInv'
  BY <1>1, BeginStartupInv, StartupOnceInv, StartedInv, LookupInv,
     CallSucceedsInv, CallFailsInv, CheckPictureInv, WriteInv, EndWriteInv
  DEF CodecStep
<1>2. ASSUME NEW t \in CodecThreads, EncodeCall(t) \/ DecodeCall(t) \/ CodecReturns(t)
      PROVE  CodecInv'
  BY <1>2, BeginCallInv, CodecReturnsInv
<1>3. CASE CodecIdle /\ CodecShutdown
  BY <1>3, CodecShutdownInv
<1>4. CASE UNCHANGED codecVars
  BY <1>4 DEF codecVars, onceVars, threadVars, CodecInv, CodecTypeOK, Holds,
     DataHeld, WriterFresh, GdiplusInv
<1> QED
  BY <1>1, <1>2, <1>3, <1>4 DEF CodecNext

-----------------------------------------------------------------------------
(* Sizes: what is allocated and what is written.                            *)

\* The points at which a picture has been accepted.
Accepted == {"allocPixels", "lockBits", "allocBgra", "decoded"}

\* The points of the Windows backend.
WindowsPoint(pc) ==
  UsesGdiplus(pc) \/ StartsUp(pc) \/ pc \in {"startEncode", "startDecode"}

SizesInv ==
  /\ PictureFits
  /\ \A t \in CodecThreads : ~writer[t].failed => writer[t].size = written[t]
  /\ \A t \in CodecThreads :
       codecPc[t] = "encoded" /\ codecBackend = "c" => ~writer[t].failed
  /\ \A t \in CodecThreads : codecBackend = "c" => ~WindowsPoint(codecPc[t])

(* A picture that passes the guard of the decoders has a size that fits.    *)
LEMMA FitsIsEnough ==
  ASSUME NEW p \in Pictures, Fits(p)
  PROVE  p[1] * 4 * p[2] \in 1..WordMax
<1>1. p[1] \in Nat \ {0} /\ p[2] \in Nat \ {0} /\ WordMax \in Nat
  BY CodecAssumption DEF Fits, WordMax
<1> DEFINE row == p[1] * 4
<1>2. row \in Nat \ {0} /\ p[2] <= WordMax \div row
  BY <1>1 DEF Fits
<1>3. \A a \in Nat \ {0} : \A q, m \in Nat : q <= m \div a => q * a <= m
  OBVIOUS
<1>4. \A a, q \in Nat \ {0} : a * q = q * a /\ a * q >= 1
  OBVIOUS
<1> HIDE DEF row
<1>5. row * p[2] \in 1..WordMax
  BY <1>1, <1>2, <1>3, <1>4
<1> QED
  BY <1>5 DEF row

(* A step of one thread, from where it goes.                                *)
LEMMA ThreadKeepsSizes ==
  ASSUME CodecInv, SizesInv, NEW t \in CodecThreads, NEW pc,
         codecPc' = [codecPc EXCEPT ![t] = pc],
         UNCHANGED <<codecBackend, picture, writer, written>>,
         pc \in Accepted => codecPc[t] \in Accepted,
         pc = "encoded" /\ codecBackend = "c" => ~writer[t].failed,
         codecBackend = "c" => ~WindowsPoint(pc)
  PROVE  SizesInv'
<1>1. /\ codecPc'[t] = pc
      /\ \A u \in CodecThreads \ {t} : codecPc'[u] = codecPc[u]
  BY DEF CodecInv, CodecTypeOK
<1>2. PictureFits'
  BY <1>1 DEF SizesInv, PictureFits, Accepted
<1> QED
  BY <1>1, <1>2 DEF SizesInv

LEMMA CallsKeepSizes ==
  ASSUME NEW pc \in DOMAIN Calls
  PROVE  /\ Calls[pc].next \in Accepted => pc \in Accepted
         /\ Calls[pc].next = "encoded" => WindowsPoint(pc)
         /\ WindowsPoint(Calls[pc].next) => WindowsPoint(pc)
<1>1. CASE pc \in DOMAIN WindowsEncode \cup DOMAIN CopyStream
  <2>1. Calls[pc].next \notin Accepted
    BY <1>1, CallOf DEF WindowsEncode, CopyStream, Call, Accepted
  <2>2. UsesGdiplus(pc)
    BY <1>1 DEF UsesGdiplus, WindowsCalls
  <2> QED
    BY <2>1, <2>2 DEF WindowsPoint
<1>2. CASE pc \in DOMAIN WindowsDecode
  <2>1. Calls[pc].next \in Accepted => pc \in Accepted
    BY <1>2, CallOf DEF WindowsDecode, Call, Accepted
  <2>2. UsesGdiplus(pc)
    BY <1>2 DEF UsesGdiplus, WindowsCalls
  <2> QED
    BY <2>1, <2>2 DEF WindowsPoint
<1>3. CASE pc \in DOMAIN CEncode
  BY <1>3, CallOf, WindowsPoints
  DEF CEncode, Call, Accepted, WindowsPoint, UsesGdiplus, StartsUp
<1>4. CASE pc \in DOMAIN CDecode
  BY <1>4, CallOf, WindowsPoints
  DEF CDecode, Call, Accepted, WindowsPoint, UsesGdiplus, StartsUp
<1> QED
  BY <1>1, <1>2, <1>3, <1>4 DEF Calls, WindowsCalls

LEMMA SizesInit == CodecInit => SizesInv
BY WindowsPoints
DEF CodecInit, SizesInv, PictureFits, NewWriter, WindowsPoint, UsesGdiplus, StartsUp

(* The steps around GDI+ lead to no accepted picture.                       *)
LEMMA BackendStepSizes ==
  ASSUME CodecInv, SizesInv, NEW t \in CodecThreads,
         \/ EncodeCall(t) \/ DecodeCall(t) \/ BeginStartup(t) \/ StartupOnce(t)
         \/ Started(t) \/ BeginLookup(t) \/ LookupOnce(t) \/ LookedUp(t)
  PROVE  SizesInv'
<1>1. CASE EncodeCall(t) \/ DecodeCall(t)
  <2>1. PICK pc \in {"allocRgb", "load", "startEncode", "startDecode"} :
          /\ codecPc' = [codecPc EXCEPT ![t] = pc]
          /\ codecBackend = "c" => pc \in {"allocRgb", "load"}
    BY <1>1 DEF EncodeCall, DecodeCall, Goto
  <2>2. pc \notin Accepted \cup {"encoded"}
    BY DEF Accepted
  <2>3. codecBackend = "c" => ~WindowsPoint(pc)
    BY <2>1, WindowsPoints DEF WindowsPoint, UsesGdiplus, StartsUp
  <2>4. UNCHANGED <<codecBackend, picture, writer, written>>
    BY <1>1 DEF EncodeCall, DecodeCall
  <2> QED
    BY <2>1, <2>2, <2>3, <2>4, ThreadKeepsSizes
<1>2. CASE \/ BeginStartup(t) \/ StartupOnce(t) \/ Started(t)
           \/ BeginLookup(t) \/ LookupOnce(t) \/ LookedUp(t)
  <2>1. PICK pc \in {"startupEncode", "startupDecode", "startEncode", "startDecode",
                     "clsid", "lookup", "allocGlobal", "createBitmap", "failed"} :
          codecPc' = [codecPc EXCEPT ![t] = pc]
    BY <1>2 DEF BeginStartup, StartupOnce, Started, BeginLookup, LookupOnce,
       LookedUp, AfterStart, Goto
  <2>2. WindowsPoint(codecPc[t])
    BY <1>2 DEF BeginStartup, StartupOnce, Started, BeginLookup, LookupOnce,
       LookedUp, Starting, WindowsPoint, UsesGdiplus, StartsUp
  <2>3. codecBackend # "c" /\ pc \notin Accepted \cup {"encoded"}
    BY <2>2 DEF SizesInv, Accepted
  <2>4. UNCHANGED <<codecBackend, picture, writer, written>>
    BY <1>2 DEF BeginStartup, StartupOnce, Started, BeginLookup, LookupOnce,
       LookedUp, OnceUnchanged
  <2> QED
    BY <2>1, <2>3, <2>4, ThreadKeepsSizes
<1> QED
  BY <1>1, <1>2

LEMMA CallSizes ==
  ASSUME CodecInv, SizesInv, NEW t \in CodecThreads, CallSucceeds(t) \/ CallFails(t)
  PROVE  SizesInv'
<1>1. /\ codecPc[t] \in DOMAIN Calls
      /\ UNCHANGED <<codecBackend, picture, writer, written>>
  BY DEF CallSucceeds, CallFails, CallUnchanged
<1>2. PICK pc \in {Calls[codecPc[t]].next, "failed"} :
        codecPc' = [codecPc EXCEPT ![t] = pc]
  BY DEF CallSucceeds, CallFails, Goto
<1>3. /\ pc \in Accepted => codecPc[t] \in Accepted
      /\ pc = "encoded" => WindowsPoint(codecPc[t])
      /\ WindowsPoint(pc) => WindowsPoint(codecPc[t])
  <2>1. "failed" \notin Accepted /\ ~WindowsPoint("failed")
    BY WindowsPoints DEF Accepted, WindowsPoint, UsesGdiplus, StartsUp
  <2> QED
    BY <1>1, <1>2, <2>1, CallsKeepSizes
<1>4. codecBackend = "c" => ~WindowsPoint(codecPc[t])
  BY DEF SizesInv
<1> QED
  BY <1>1, <1>2, <1>3, <1>4, ThreadKeepsSizes

LEMMA CheckPictureSizes ==
  ASSUME CodecInv, SizesInv, NEW t \in CodecThreads, CheckPicture(t)
  PROVE  SizesInv'
<1>1. PICK p \in Pictures :
        /\ picture' = [picture EXCEPT ![t] = p]
        /\ \/ Fits(p) /\ codecPc' = [codecPc EXCEPT ![t] =
                IF codecPc[t] = "checkBitmap" THEN "allocPixels" ELSE "allocBgra"]
           \/ codecPc' = [codecPc EXCEPT ![t] = "failed"]
  BY DEF CheckPicture, Goto
<1>2. /\ UNCHANGED <<codecBackend, writer, written>>
      /\ codecPc[t] \in {"checkBitmap", "checkLoaded"}
  BY DEF CheckPicture
<1>3. /\ picture'[t] = p /\ codecPc'[t] \in {"allocPixels", "allocBgra", "failed"}
      /\ \A u \in CodecThreads \ {t} :
           picture'[u] = picture[u] /\ codecPc'[u] = codecPc[u]
  <2>1. picture \in [CodecThreads -> Pictures \cup {NoPixels}]
    BY DEF CodecInv, CodecTypeOK
  <2> QED
    BY <1>1, <2>1 DEF CodecInv, CodecTypeOK
<1>4. codecPc'[t] \in Accepted => p[1] * 4 * p[2] \in 1..WordMax
  <2>1. codecPc'[t] # "failed" => Fits(p)
    BY <1>1, <1>3 DEF CodecInv, CodecTypeOK
  <2> QED
    BY <2>1, FitsIsEnough DEF Accepted
<1>5. PictureFits'
  BY <1>3, <1>4 DEF SizesInv, PictureFits, Accepted
<1>6. codecBackend = "c" => ~WindowsPoint(codecPc'[t])
  <2>1. codecBackend = "c" => codecPc'[t] # "allocPixels"
    BY <1>1, <1>2 DEF SizesInv, WindowsPoint, UsesGdiplus, CodecInv, CodecTypeOK
  <2> QED
    BY <1>3, <2>1, WindowsPoints DEF WindowsPoint, UsesGdiplus, StartsUp
<1> QED
  BY <1>2, <1>3, <1>5, <1>6 DEF SizesInv

LEMMA WritingSizes ==
  ASSUME CodecInv, SizesInv, NEW t \in CodecThreads, Write(t) \/ EndWrite(t)
  PROVE  SizesInv'
<1>1. CASE Write(t)
  <2>1. PICK n \in Chunks :
          /\ written' = [written EXCEPT ![t] = @ + n]
          /\ \E w \in Appended(writer[t], n) : writer' = [writer EXCEPT ![t] = w]
    BY <1>1 DEF Write
  <2>2. PICK w \in Appended(writer[t], n) : writer' = [writer EXCEPT ![t] = w]
    BY <2>1
  <2>3. /\ writer[t].failed => w.failed
        /\ ~w.failed => w.size = writer[t].size + n
    BY AppendedWriter DEF CodecInv, CodecTypeOK, WriterFresh
  <2>4. /\ writer'[t] = w /\ written'[t] = written[t] + n
        /\ \A u \in CodecThreads \ {t} :
             writer'[u] = writer[u] /\ written'[u] = written[u]
    BY <2>1, <2>2 DEF CodecInv, CodecTypeOK
  <2>5. codecPc[t] = "write" /\ UNCHANGED <<codecBackend, codecPc, picture>>
    BY <1>1 DEF Write
  <2>6. ~w.failed => w.size = written'[t]
    BY <2>3, <2>4 DEF SizesInv
  <2> QED
    BY <2>4, <2>5, <2>6 DEF SizesInv, PictureFits
<1>2. CASE EndWrite(t)
  <2>1. PICK pc \in {"encoded", "failed"} :
          /\ codecPc' = [codecPc EXCEPT ![t] = pc]
          /\ pc = "encoded" => ~writer[t].failed
    BY <1>2 DEF EndWrite, Goto
  <2>2. pc \notin Accepted /\ ~WindowsPoint(pc)
    BY WindowsPoints DEF Accepted, WindowsPoint, UsesGdiplus, StartsUp
  <2>3. UNCHANGED <<codecBackend, picture, writer, written>>
    BY <1>2 DEF EndWrite
  <2> QED
    BY <2>1, <2>2, <2>3, ThreadKeepsSizes
<1> QED
  BY <1>1, <1>2

LEMMA ReturnSizes ==
  ASSUME CodecInv, SizesInv, NEW t \in CodecThreads, CodecReturns(t)
  PROVE  SizesInv'
<1>1. /\ codecPc'[t] = "idle" /\ writer'[t] = NewWriter /\ written'[t] = 0
      /\ \A u \in CodecThreads \ {t} :
           /\ codecPc'[u] = codecPc[u] /\ writer'[u] = writer[u]
           /\ written'[u] = written[u] /\ picture'[u] = picture[u]
      /\ codecBackend' = codecBackend
  <2>1. picture \in [CodecThreads -> Pictures \cup {NoPixels}]
    BY DEF CodecInv, CodecTypeOK
  <2> QED
    BY <2>1 DEF CodecReturns, Goto, CodecInv, CodecTypeOK
<1>2. PictureFits'
  BY <1>1 DEF SizesInv, PictureFits
<1>3. ~WindowsPoint("idle")
  BY WindowsPoints DEF WindowsPoint, UsesGdiplus, StartsUp
<1> QED
  BY <1>1, <1>2, <1>3 DEF SizesInv, NewWriter

LEMMA SizesStep == CodecInv /\ SizesInv /\ [CodecNext]_codecVars => SizesInv'
<1> SUFFICES ASSUME CodecInv, SizesInv, [CodecNext]_codecVars PROVE SizesInv'
  OBVIOUS
<1>1. ASSUME NEW t \in CodecThreads, CodecStep(t) PROVE SizesInv'
  BY <1>1, BackendStepSizes, CallSizes, CheckPictureSizes, WritingSizes DEF CodecStep
<1>2. ASSUME NEW t \in CodecThreads, EncodeCall(t) \/ DecodeCall(t) \/ CodecReturns(t)
      PROVE  SizesInv'
  BY <1>2, BackendStepSizes, ReturnSizes
<1>3. CASE CodecShutdown
  BY <1>3 DEF CodecShutdown, threadVars, SizesInv, PictureFits
<1>4. CASE UNCHANGED codecVars
  BY <1>4 DEF codecVars, threadVars, SizesInv, PictureFits
<1> QED
  BY <1>1, <1>2, <1>3, <1>4 DEF CodecNext

-----------------------------------------------------------------------------
(* The theorems. *)

LEMMA CodecInvHolds == CodecSpec => [](CodecInv /\ SizesInv)
BY CodecInvInit, CodecInvStep, SizesInit, SizesStep, PTL DEF CodecSpec

(* The state of the codec is always of its type.                            *)
THEOREM CodecTypeCorrect == CodecSpec => []CodecTypeOK
<1>1. CodecInv => CodecTypeOK
  BY DEF CodecInv
<1> QED
  BY <1>1, CodecInvHolds, PTL

(* Whatever fails, an operation gives back what it took, once.              *)
THEOREM CodecGivesBack == CodecSpec => []HandlesBalance
<1>1. CodecInv => HandlesBalance
  <2> SUFFICES ASSUME CodecInv, NEW t \in CodecThreads
               PROVE  /\ \A k \in TakenKinds : taken[t][k] \in {0, 1}
                      /\ codecPc[t] \in {"idle", "failed"} =>
                           \A k \in TakenKinds : taken[t][k] = 0
                      /\ codecPc[t] \in {"encoded", "decoded"} =>
                           \A k \in TakenKinds :
                             taken[t][k] = IF k = "result" THEN 1 ELSE 0
    BY DEF HandlesBalance
  <2>1. Holding(taken[t], HoldsWhile(codecPc[t]) \cup DataHeld(t))
    BY DEF CodecInv, Holds
  <2>2. codecPc[t] # "write" => DataHeld(t) = {}
    BY DEF DataHeld
  <2> QED
    BY <2>1, <2>2, TakenAt DEF Holding
<1> QED
  BY <1>1, CodecInvHolds, PTL

(* GDI+ is started at most once, and used only while it runs.               *)
THEOREM GdiplusStartedOnce == CodecSpec => []GdiplusUsedWhileUp
<1>1. CodecInv => GdiplusUsedWhileUp
  BY DEF CodecInv, GdiplusInv, GdiplusUsedWhileUp
<1> QED
  BY <1>1, CodecInvHolds, PTL

(* No decoder allocates less than its picture needs, for any word size.     *)
THEOREM DecodedPicturesFit == CodecSpec => []PictureFits
<1>1. SizesInv => PictureFits
  BY DEF SizesInv
<1> QED
  BY <1>1, CodecInvHolds, PTL

(* The C encoder returns every byte or fails, for any word size.            *)
THEOREM EncodedPicturesWhole == CodecSpec => []PictureIsWhole
<1>1. CodecInv /\ SizesInv => PictureIsWhole
  BY DEF CodecInv, WriterFresh, SizesInv, PictureIsWhole
<1> QED
  BY <1>1, CodecInvHolds, PTL

-----------------------------------------------------------------------------
(***************************************************************************)
(* Proofs about MediaSession: the two programs use the capture module and  *)
(* the codec as CaptureBackend and JpegCodec have them, one capture at a   *)
(* time and a shutdown between two calls, so that what is proved of the    *)
(* modules holds in the programs.                                          *)
(***************************************************************************)

\* Main shuts the modules down only when no call is in progress.
Joined ==
  mediaPc \in {"joined", "captureDown"} => callPc = "idle" /\ CodecIdle

(* A call that goes on is in progress.                                      *)
LEMMA StepsOfACall ==
  /\ CaptureStep => callPc # "idle"
  /\ CaptureReturns => callPc # "idle"
  /\ CaptureCall => callPc = "idle"
  /\ ScreenStep => callPc' = callPc
  /\ CaptureShutdown => callPc' = callPc
<1>1. CaptureStep => callPc # "idle"
  BY DEF CaptureStep, FallBack, DxgiInit, DxgiInitFails, AcquireTimeout,
     AcquireTimeoutFails, AcquireLosesAccess, AcquireFails,
     AcquireNextFrame, EnsureStagingTexture, EnsureStagingTextureFails,
     MapAndCopy, MapFails, GdiReadSize, GdiReadSizeFails, GdiEnsure,
     GdiEnsureFails, GdiBlit, GdiBlitFails
<1> QED
  BY <1>1 DEF CaptureReturns, CaptureCall, ScreenStep, ScreenChanges,
     AccessIsLost, ScreenUnchanged, CaptureShutdown

LEMMA StepsOfAnOperation ==
  ASSUME NEW t \in CodecThreads, CodecStep(t) \/ CodecReturns(t)
  PROVE  codecPc[t] # "idle"
<1>1. "idle" \notin DOMAIN Calls
  BY DEF Calls, WindowsCalls, WindowsEncode, CopyStream, WindowsDecode,
         CEncode, CDecode
<1> QED
  BY <1>1 DEF CodecStep, CodecReturns, BeginStartup, Starting,
     StartupOnce, Started, BeginLookup, LookupOnce, LookedUp,
     CallSucceeds, CallFails, CheckPicture, Write, EndWrite

LEMMA JoinedInit == MediaInit => Joined
BY DEF MediaInit, Joined

LEMMA JoinedStep == Joined /\ [MediaNext]_mediaVars => Joined'
<1> SUFFICES ASSUME Joined, [MediaNext]_mediaVars,
                    mediaPc' \in {"joined", "captureDown"}
             PROVE  callPc' = "idle" /\ CodecIdle'
  BY DEF Joined
<1>1. CASE JoinThreads
  BY <1>1 DEF JoinThreads, captureVars, codecVars, threadVars, CodecIdle
<1>2. CASE mediaPc \in {"joined", "captureDown"}
  <2>1. callPc = "idle" /\ CodecIdle
    BY <1>2 DEF Joined
  <2>2. \A t \in CodecThreads : ~CodecThread(t)
    BY <1>2, <2>1, StepsOfAnOperation DEF CodecThread, CodecIdle
  <2>3. ~FirstCapture /\ ~FirstCaptured /\ ~FirstCaptureFailed /\ ~NothingStarts
    BY <1>2
    DEF FirstCapture, FirstCaptured, FirstCaptureFailed, NothingStarts, MainGoes
  <2>4. ~CaptureThread /\ ~CaptureGoesOn
    BY <1>2, <2>1, StepsOfACall DEF CaptureThread, CaptureGoesOn
  <2>5. CASE Screen
    BY <2>1, <2>5, StepsOfACall DEF Screen, codecVars, threadVars, CodecIdle
  <2>6. CASE ShutCapture
    BY <2>1, <2>6, StepsOfACall DEF ShutCapture, codecVars, threadVars, CodecIdle
  <2>7. ~ShutCodec /\ ~FailedStart
    BY DEF ShutCodec, FailedStart, MainGoes
  <2>8. CASE MediaEnded \/ UNCHANGED mediaVars
    BY <2>1, <2>8 DEF MediaEnded, mediaVars, captureVars, codecVars, threadVars, CodecIdle
  <2> QED
    BY <1>1, <2>2, <2>3, <2>4, <2>5, <2>6, <2>7, <2>8 DEF MediaNext
<1> QED
  BY <1>1, <1>2
  DEF MediaNext, FirstCapture, FirstCaptured, FirstCaptureFailed, NothingStarts,
      CaptureThread, CaptureGoesOn, CodecThread, Screen, FailedStart, ShutCapture,
      ShutCodec, MediaEnded, MainGoes, Counted, NotCounted, mediaVars

LEMMA CaptureStepMaps ==
  Joined /\ [MediaNext]_mediaVars => [CaptureNext]_captureVars
<1> SUFFICES ASSUME Joined, [MediaNext]_mediaVars
             PROVE  CaptureNext \/ UNCHANGED captureVars
  OBVIOUS
<1>1. CASE ShutCapture
  BY <1>1 DEF ShutCapture, MainGoes, Joined, CaptureNext
<1>2. CASE UNCHANGED mediaVars
  BY <1>2 DEF mediaVars
<1> QED
  BY <1>1, <1>2
    DEF MediaNext, FirstCapture, FirstCaptured, FirstCaptureFailed, NothingStarts,
        CaptureThread, CaptureGoesOn, CodecThread, Screen, JoinThreads, FailedStart,
        ShutCodec, MediaEnded, CaptureNext

(* Both programs use the capture module as CaptureBackend's specification   *)
(* allows: one caller at a time, and the shutdown between two calls.        *)
THEOREM MediaUsesCapture == MediaSpec => CaptureSpec
<1>1. MediaInit => CaptureInit
  BY DEF MediaInit
<1> QED
  BY <1>1, JoinedInit, JoinedStep, CaptureStepMaps, PTL
  DEF MediaSpec, CaptureSpec

LEMMA CodecStepMaps ==
  Joined /\ [MediaNext]_mediaVars => [CodecNext]_codecVars
<1> SUFFICES ASSUME Joined, [MediaNext]_mediaVars
             PROVE  CodecNext \/ UNCHANGED codecVars
  OBVIOUS
<1>1. CASE \E t \in CodecThreads : CodecThread(t)
  BY <1>1 DEF CodecThread, CodecNext
<1>2. CASE ShutCodec
  BY <1>2 DEF ShutCodec, MainGoes, Joined, CodecNext
<1>3. CASE UNCHANGED mediaVars
  BY <1>3 DEF mediaVars
<1> QED
  BY <1>1, <1>2, <1>3
    DEF MediaNext, FirstCapture, FirstCaptured, FirstCaptureFailed, NothingStarts,
        CaptureThread, CaptureGoesOn, Screen, JoinThreads, FailedStart, ShutCapture,
        MediaEnded

(* Both programs use the codec as JpegCodec's specification allows: they    *)
(* shut it down when no thread encodes or decodes.                          *)
THEOREM MediaUsesCodec == MediaSpec => CodecSpec
<1>1. MediaInit => CodecInit
  BY DEF MediaInit
<1> QED
  BY <1>1, JoinedInit, JoinedStep, CodecStepMaps, PTL
  DEF MediaSpec, CodecSpec

-----------------------------------------------------------------------------
(* What is proved of the modules, for the programs.                         *)

(* The promises of the capture module hold in both programs.                *)
THEOREM MediaCaptures ==
  MediaSpec => [](NothingLeaks /\ CallsUseWhatTheyHold /\ CapturedIsCurrent)
BY MediaUsesCapture, CaptureLeaksNothing, CapturesHoldWhatTheyUse,
   CapturesAreCurrent, PTL

(* The promises of the codec hold in both programs.                         *)
THEOREM MediaEncodes ==
  MediaSpec =>
    [](HandlesBalance /\ GdiplusUsedWhileUp /\ PictureFits /\ PictureIsWhole)
BY MediaUsesCodec, CodecGivesBack, GdiplusStartedOnce, DecodedPicturesFit,
   EncodedPicturesWhole, PTL

=============================================================================
