------------------------------ MODULE JpegCodec ------------------------------
(***************************************************************************)
(* The JPEG codec of src/src/wic_jpeg.c, called by several threads at a    *)
(* time: GDI+ started once and its encoder looked up once, the objects     *)
(* that each encoding and decoding takes and gives back, and the buffer    *)
(* that grows while the C encoder writes.                                  *)
(*                                                                         *)
(* Pixels and bytes are left out; sizes are kept, with 32-bit and size_t   *)
(* arithmetic scaled down to words of Word values.                         *)
(***************************************************************************)
EXTENDS Integers, FiniteSets

CONSTANTS
  CodecThreads,    \* the threads that encode or decode
  CodecBackends,   \* the backends of this instance
  Pictures,        \* <<width, height>> that a decoded picture may have
  Chunks,          \* the sizes in which the C encoder writes
  MaxWritten,      \* bound of the model: bytes of one encoding
  FirstCapacity,   \* 4096
  Word             \* 2^32, also for size_t

ASSUME CodecAssumption ==
  /\ CodecThreads # {}
  /\ CodecBackends # {} /\ CodecBackends \subseteq {"windows", "c"}
  /\ Pictures \subseteq Nat \X Nat
  /\ Chunks \subseteq Nat \ {0} /\ MaxWritten \in Nat
  /\ Word \in Nat /\ FirstCapacity \in 1..(Word - 1)
  /\ \A n \in Chunks : n < Word

VARIABLES
  codecBackend,    \* ss_jpeg_backend
  gdiplus,         \* GDI+ itself: how often it is started and not shut down
  token,           \* ss_gdiplus_token, 0 or 1
  startupOnce,     \* the INIT_ONCE of ss_jpeg_startup: "unset", "running", "done"
  clsidOnce,       \* the INIT_ONCE of ss_jpeg_ensure_clsid
  clsidValid,      \* ss_jpeg_clsid_valid
  codecPc,         \* thread -> its next call of the system, or "idle"
  taken,           \* thread -> kind of object -> how many it holds
  picture,         \* thread -> the picture it decodes
  writer,          \* thread -> [size, capacity, failed] of ss_memory_writer_t
  written          \* history: thread -> the bytes that the encoder has written

onceVars == <<gdiplus, token, startupOnce, clsidOnce, clsidValid>>
threadVars == <<codecPc, taken, picture, writer, written>>
codecVars == <<codecBackend, onceVars, threadVars>>

-----------------------------------------------------------------------------
TakenKinds == {"bitmap", "stream", "lock", "global", "rgb", "rgba", "data", "result"}

NoPixels == <<0, 0>>
NewWriter == [size |-> 0, capacity |-> 0, failed |-> FALSE]

\* A call of the system that may fail: what the thread takes with it, what it
\* gives back when it succeeds, what comes next, and what it gives back when
\* it fails and the operation returns -1.
Call(takes, done, next, undo) ==
  [takes |-> takes, done |-> done, next |-> next, undo |-> undo]

WindowsEncode ==
  [createBitmap |-> Call({"bitmap"}, {}, "createStream", {}),
   createStream |-> Call({"stream"}, {}, "saveImage", {"bitmap"}),
   saveImage    |-> Call({}, {}, "lockStream", {"stream", "bitmap"})]

\* Mutant: the stream stays locked when there is no memory.
CopyStreamKeepingLock ==
  [lockStream |-> Call({"lock"}, {}, "copyStream", {"stream", "bitmap"}),
   copyStream |-> Call({"result"}, {"lock", "stream", "bitmap"}, "encoded",
                       {"stream", "bitmap"})]

\* ss_copy_stream_to_buffer, and the end of the encoding around it.
CopyStream ==
  [lockStream |-> Call({"lock"}, {}, "copyStream", {"stream", "bitmap"}),
   copyStream |-> Call({"result"}, {"lock", "stream", "bitmap"}, "encoded",
                       {"lock", "stream", "bitmap"})]

\* The stream owns the memory it was created on.
WindowsDecode ==
  [allocGlobal  |-> Call({"global"}, {}, "fillGlobal", {}),
   fillGlobal   |-> Call({}, {}, "openStream", {"global"}),
   openStream   |-> Call({"stream"}, {"global"}, "readBitmap", {"global"}),
   readBitmap   |-> Call({"bitmap"}, {}, "checkBitmap", {"stream"}),
   allocPixels  |-> Call({"result"}, {}, "lockBits", {"bitmap", "stream"}),
   lockBits     |-> Call({}, {"bitmap", "stream"}, "decoded",
                         {"result", "bitmap", "stream"})]

CEncode == [allocRgb |-> Call({"rgb"}, {}, "write", {})]

CDecode ==
  [load      |-> Call({"rgba"}, {}, "checkLoaded", {}),
   allocBgra |-> Call({"result"}, {"rgba"}, "decoded", {"rgba"})]

WindowsCalls == DOMAIN WindowsEncode \cup DOMAIN CopyStream \cup DOMAIN WindowsDecode

Calls ==
  [pc \in WindowsCalls \cup DOMAIN CEncode \cup DOMAIN CDecode |->
     CASE pc \in DOMAIN WindowsEncode -> WindowsEncode[pc]
       [] pc \in DOMAIN CopyStream -> CopyStream[pc]
       [] pc \in DOMAIN WindowsDecode -> WindowsDecode[pc]
       [] pc \in DOMAIN CEncode -> CEncode[pc]
       [] OTHER -> CDecode[pc]]

Adding(count, kinds) ==
  [k \in TakenKinds |-> IF k \in kinds THEN count[k] + 1 ELSE count[k]]
Removing(count, kinds) ==
  [k \in TakenKinds |-> IF k \in kinds THEN count[k] - 1 ELSE count[k]]

-----------------------------------------------------------------------------
CodecInit ==
  /\ codecBackend \in CodecBackends
  /\ gdiplus = 0 /\ token = 0
  /\ startupOnce = "unset" /\ clsidOnce = "unset"
  /\ clsidValid = FALSE
  /\ codecPc = [t \in CodecThreads |-> "idle"]
  /\ taken = [t \in CodecThreads |-> [k \in TakenKinds |-> 0]]
  /\ picture = [t \in CodecThreads |-> NoPixels]
  /\ writer = [t \in CodecThreads |-> NewWriter]
  /\ written = [t \in CodecThreads |-> 0]

Goto(t, pc) == codecPc' = [codecPc EXCEPT ![t] = pc]

\* ss_jpeg_encode_bgra and ss_jpeg_decode_to_bgra.
EncodeCall(t) ==
  /\ codecPc[t] = "idle"
  /\ Goto(t, IF codecBackend = "c" THEN "allocRgb" ELSE "startEncode")
  /\ UNCHANGED <<codecBackend, onceVars, taken, picture, writer, written>>

DecodeCall(t) ==
  /\ codecPc[t] = "idle"
  /\ Goto(t, IF codecBackend = "c" THEN "load" ELSE "startDecode")
  /\ UNCHANGED <<codecBackend, onceVars, taken, picture, writer, written>>

\* The caller frees the result.
CodecReturns(t) ==
  /\ codecPc[t] \in {"encoded", "decoded", "failed"}
  /\ Goto(t, "idle")
  /\ taken' = [taken EXCEPT ![t]["result"] = 0]
  /\ picture' = [picture EXCEPT ![t] = NoPixels]
  /\ writer' = [writer EXCEPT ![t] = NewWriter]
  /\ written' = [written EXCEPT ![t] = 0]
  /\ UNCHANGED <<codecBackend, onceVars>>

-----------------------------------------------------------------------------
(* InitOnceExecuteOnce: one thread runs the callback, the others wait.       *)

OnceUnchanged == UNCHANGED <<codecBackend, taken, picture, writer, written>>

Starting(t) == codecPc[t] \in {"startEncode", "startDecode"}
AfterStart(t) == IF codecPc[t] = "startEncode" THEN "clsid" ELSE "allocGlobal"

\* Mutant: a thread that finds no token starts GDI+ itself.
BeginStartupAgain(t) ==
  /\ Starting(t)
  /\ token = 0
  /\ startupOnce' = "running"
  /\ Goto(t, IF codecPc[t] = "startEncode" THEN "startupEncode"
             ELSE "startupDecode")
  /\ UNCHANGED <<gdiplus, token, clsidOnce, clsidValid>> /\ OnceUnchanged

BeginStartup(t) ==
  /\ Starting(t)
  /\ startupOnce = "unset"
  /\ startupOnce' = "running"
  /\ Goto(t, IF codecPc[t] = "startEncode" THEN "startupEncode"
             ELSE "startupDecode")
  /\ UNCHANGED <<gdiplus, token, clsidOnce, clsidValid>> /\ OnceUnchanged

\* The callback reports success whether or not GDI+ starts.
StartupOnce(t) ==
  /\ codecPc[t] \in {"startupEncode", "startupDecode"}
  /\ \/ gdiplus' = gdiplus + 1 /\ token' = 1
     \/ token' = 0 /\ UNCHANGED gdiplus
  /\ startupOnce' = "done"
  /\ Goto(t, IF codecPc[t] = "startupEncode" THEN "startEncode"
             ELSE "startDecode")
  /\ UNCHANGED <<clsidOnce, clsidValid>> /\ OnceUnchanged

Started(t) ==
  /\ Starting(t)
  /\ startupOnce = "done"
  /\ Goto(t, IF token # 0 THEN AfterStart(t) ELSE "failed")
  /\ UNCHANGED onceVars /\ OnceUnchanged

BeginLookup(t) ==
  /\ codecPc[t] = "clsid"
  /\ clsidOnce = "unset"
  /\ clsidOnce' = "running"
  /\ Goto(t, "lookup")
  /\ UNCHANGED <<gdiplus, token, startupOnce, clsidValid>> /\ OnceUnchanged

LookupOnce(t) ==
  /\ codecPc[t] = "lookup"
  /\ clsidValid' \in BOOLEAN
  /\ clsidOnce' = "done"
  /\ Goto(t, "clsid")
  /\ UNCHANGED <<gdiplus, token, startupOnce>> /\ OnceUnchanged

LookedUp(t) ==
  /\ codecPc[t] = "clsid"
  /\ clsidOnce = "done"
  /\ Goto(t, IF clsidValid THEN "createBitmap" ELSE "failed")
  /\ UNCHANGED onceVars /\ OnceUnchanged

\* ss_jpeg_shutdown: GDI+ is not started again.
CodecShutdown ==
  /\ gdiplus' = gdiplus - token
  /\ token' = 0
  /\ UNCHANGED <<codecBackend, startupOnce, clsidOnce, clsidValid, threadVars>>

-----------------------------------------------------------------------------
CallUnchanged == UNCHANGED <<codecBackend, onceVars, picture, writer, written>>

CallSucceeds(t) ==
  /\ codecPc[t] \in DOMAIN Calls
  /\ LET call == Calls[codecPc[t]]
     IN  /\ taken' = [taken EXCEPT ![t] =
                        Removing(Adding(@, call.takes), call.done)]
         /\ Goto(t, call.next)
  /\ CallUnchanged

CallFails(t) ==
  /\ codecPc[t] \in DOMAIN Calls
  /\ taken' = [taken EXCEPT ![t] = Removing(@, Calls[codecPc[t]].undo)]
  /\ Goto(t, "failed")
  /\ CallUnchanged

WordMax == Word - 1

\* The guard of both decoders, in unsigned arithmetic; the mutant has only its
\* first half.
FitsInRow(p) == p[1] # 0 /\ p[2] # 0 /\ p[1] <= WordMax \div 4
Fits(p) ==
  /\ p[1] # 0 /\ p[2] # 0
  /\ p[1] <= WordMax \div 4
  /\ p[2] <= WordMax \div (p[1] * 4)

CheckPicture(t) ==
  /\ codecPc[t] \in {"checkBitmap", "checkLoaded"}
  /\ \E p \in Pictures :
       /\ picture' = [picture EXCEPT ![t] = p]
       /\ IF Fits(p)
          THEN /\ Goto(t, IF codecPc[t] = "checkBitmap" THEN "allocPixels"
                          ELSE "allocBgra")
               /\ UNCHANGED taken
          ELSE /\ Goto(t, "failed")
               /\ taken' = [taken EXCEPT ![t] =
                    Removing(@, IF codecPc[t] = "checkBitmap"
                                THEN {"bitmap", "stream"} ELSE {"rgba"})]
  /\ UNCHANGED <<codecBackend, onceVars, writer, written>>

-----------------------------------------------------------------------------
(* ss_memory_writer_append. *)

\* The first capacity that doubling reaches and that is large enough; none when
\* it wraps before.
FirstEnough(w, requested) ==
  LET first == IF w.capacity = 0 THEN FirstCapacity ELSE w.capacity
      enough == {first * 2^i : i \in 0..Word} \cap (requested..WordMax)
  IN  {c \in enough : \A d \in enough : c <= d}

Grown(w, requested) ==
  {[w EXCEPT !.size = requested, !.capacity = c] : c \in FirstEnough(w, requested)}

Refused(w) == {[w EXCEPT !.failed = TRUE]}

\* Mutant: the failure of one append is forgotten by the next that succeeds.
AppendedAnyway(w, n) ==
  LET v == [w EXCEPT !.failed = FALSE]
  IN  IF w.size + n <= w.capacity
      THEN {[v EXCEPT !.size = @ + n]}
      ELSE Grown(v, w.size + n) \cup Refused(w)

\* The writers that may result; growing may find no memory.
Appended(w, n) ==
  LET requested == (w.size + n) % Word
  IN  IF w.failed THEN {w}
      ELSE IF requested < w.size THEN Refused(w)
      ELSE IF requested <= w.capacity THEN {[w EXCEPT !.size = requested]}
      ELSE Grown(w, requested) \cup Refused(w)

Write(t) ==
  /\ codecPc[t] = "write"
  /\ \E n \in Chunks :
       /\ written[t] + n <= MaxWritten
       /\ written' = [written EXCEPT ![t] = @ + n]
       /\ \E w \in Appended(writer[t], n) : writer' = [writer EXCEPT ![t] = w]
  /\ taken' = [taken EXCEPT ![t]["data"] =
                 IF writer'[t].capacity > 0 THEN 1 ELSE 0]
  /\ UNCHANGED <<codecBackend, onceVars, codecPc, picture>>

\* The encoder is done, or gives up; a writer that failed or stayed empty fails.
EndWrite(t) ==
  /\ codecPc[t] = "write"
  /\ \/ /\ ~writer[t].failed /\ writer[t].size # 0
        /\ taken' = [taken EXCEPT ![t] =
                       Adding(Removing(@, {"rgb", "data"}), {"result"})]
        /\ Goto(t, "encoded")
     \/ /\ taken' = [taken EXCEPT ![t] = [Removing(@, {"rgb"}) EXCEPT !["data"] = 0]]
        /\ Goto(t, "failed")
  /\ UNCHANGED <<codecBackend, onceVars, picture, writer, written>>

-----------------------------------------------------------------------------
\* What the operation that thread t is in does.
CodecStep(t) ==
  \/ BeginStartup(t) \/ StartupOnce(t) \/ Started(t)
  \/ BeginLookup(t) \/ LookupOnce(t) \/ LookedUp(t)
  \/ CallSucceeds(t) \/ CallFails(t) \/ CheckPicture(t)
  \/ Write(t) \/ EndWrite(t)

CodecIdle == \A t \in CodecThreads : codecPc[t] = "idle"

\* The module on its own: threads that encode and decode, and a shutdown
\* while none of them does.
CodecNext ==
  \/ \E t \in CodecThreads :
       EncodeCall(t) \/ DecodeCall(t) \/ CodecStep(t) \/ CodecReturns(t)
  \/ CodecIdle /\ CodecShutdown

CodecSpec == CodecInit /\ [][CodecNext]_codecVars

-----------------------------------------------------------------------------
(* Properties. *)

CodecControl ==
  DOMAIN Calls \cup
    {"idle", "startEncode", "startDecode", "startupEncode", "startupDecode",
     "clsid", "lookup", "checkBitmap", "checkLoaded", "write", "encoded",
     "decoded", "failed"}

(* The type invariant of the codec.                                         *)
CodecTypeOK ==
  /\ codecBackend \in CodecBackends
  /\ gdiplus \in Int /\ token \in {0, 1}
  /\ {startupOnce, clsidOnce} \subseteq {"unset", "running", "done"}
  /\ clsidValid \in BOOLEAN
  /\ codecPc \in [CodecThreads -> CodecControl]
  /\ taken \in [CodecThreads -> [TakenKinds -> Int]]
  /\ picture \in [CodecThreads -> Pictures \cup {NoPixels}]
  /\ writer \in [CodecThreads ->
       [size: 0..WordMax, capacity: 0..WordMax, failed: BOOLEAN]]
  /\ written \in [CodecThreads -> Nat]

(* Every branch of the four operations gives back exactly what it took: a   *)
(* thread that returns holds the result if it succeeded and nothing if it   *)
(* failed, and nothing is given back twice (the cleanups of wic_jpeg.c      *)
(* 104-119, 221-246, 277-348, 418-452 and 477-508).                         *)
HandlesBalance ==
  \A t \in CodecThreads :
    /\ \A k \in TakenKinds : taken[t][k] \in {0, 1}
    /\ codecPc[t] \in {"idle", "failed"} => \A k \in TakenKinds : taken[t][k] = 0
    /\ codecPc[t] \in {"encoded", "decoded"} =>
         \A k \in TakenKinds : taken[t][k] = IF k = "result" THEN 1 ELSE 0

UsesGdiplus(pc) == pc \in WindowsCalls \cup {"clsid", "lookup", "checkBitmap"}

(* GDI+ is started at most once for all threads (the comment at             *)
(* wic_jpeg.c:35), and no thread calls it when it is not running: neither   *)
(* after a start that failed nor after the shutdown.                        *)
GdiplusUsedWhileUp ==
  /\ gdiplus = token
  /\ \A t \in CodecThreads : UsesGdiplus(codecPc[t]) => gdiplus = 1

(* What the decoder allocates holds the picture: no product of sizes wraps  *)
(* (wic_jpeg.c:306 and 483).                                                *)
PictureFits ==
  \A t \in CodecThreads :
    codecPc[t] \in {"allocPixels", "lockBits", "allocBgra", "decoded"} =>
      picture[t][1] * 4 * picture[t][2] \in 1..WordMax

(* An encoding that succeeds holds every byte that the encoder wrote, inside *)
(* the buffer, however its growing failed or wrapped on the way.            *)
PictureIsWhole ==
  \A t \in CodecThreads :
    /\ writer[t].size <= writer[t].capacity
    /\ codecPc[t] = "encoded" /\ codecBackend = "c" =>
         writer[t].size = written[t]
=============================================================================
