---------------------------- MODULE MediaSession ----------------------------
(***************************************************************************)
(* The life of the capture and codec modules in the two programs.  The     *)
(* sender's main takes the first picture itself; its capture thread and    *)
(* its encode workers then call both modules until main has joined them    *)
(* and, after a complete start, shuts the modules down.  The receiver's    *)
(* I/O thread and its decode workers call the codec.                       *)
(***************************************************************************)
EXTENDS CaptureBackend, JpegCodec

CONSTANT MaxCalls  \* bound of the model: calls into the two modules

VARIABLES
  program,         \* "sender" or "receiver"
  mediaPc,         \* its main thread
  calls            \* the calls made so far

ASSUME MediaAssumption == MaxCalls \in Nat

mediaVars == <<captureVars, codecVars, program, mediaPc, calls>>

-----------------------------------------------------------------------------
MediaInit ==
  /\ CaptureInit
  /\ CodecInit
  /\ program \in {"sender", "receiver"}
  /\ mediaPc = IF program = "sender" THEN "first" ELSE "run"
  /\ calls = 0

MainGoes(from, to) ==
  /\ mediaPc = from
  /\ mediaPc' = to
  /\ UNCHANGED <<program, calls>>

Counted == calls < MaxCalls /\ calls' = calls + 1 /\ UNCHANGED <<program, mediaPc>>
NotCounted == UNCHANGED <<program, mediaPc, calls>>

\* main's own capture, with the pixels handed to the capture thread; without
\* them main returns at once.
FirstCapture ==
  /\ mediaPc = "first" /\ Counted
  /\ CaptureCall /\ UNCHANGED codecVars

FirstCaptured ==
  /\ callPc = "returned" /\ MainGoes("first", "run")
  /\ CaptureReturns /\ UNCHANGED codecVars

FirstCaptureFailed ==
  /\ callPc = "failed" /\ MainGoes("first", "exit")
  /\ CaptureReturns /\ UNCHANGED codecVars

\* No memory for the threads' table or the first job, or no input thread: main
\* releases the picture and returns before any other thread uses it.
NothingStarts ==
  /\ callPc = "returned" /\ MainGoes("first", "exit")
  /\ CaptureReturns /\ UNCHANGED codecVars

CaptureThread ==
  /\ program = "sender"
  /\ \/ mediaPc = "run" /\ Counted /\ CaptureCall
     \/ mediaPc # "first" /\ CaptureReturns /\ NotCounted
  /\ UNCHANGED codecVars

CaptureGoesOn ==
  CaptureStep /\ NotCounted /\ UNCHANGED codecVars

CodecThread(t) ==
  /\ \/ /\ mediaPc = "run" /\ Counted
        /\ IF program = "sender" THEN EncodeCall(t) ELSE DecodeCall(t)
     \/ (CodecStep(t) \/ CodecReturns(t)) /\ NotCounted
  /\ UNCHANGED captureVars

Screen ==
  /\ program = "sender"
  /\ ScreenStep /\ UNCHANGED codecVars /\ NotCounted

\* Mutant: main shuts the modules down without waiting for the threads.
ForgetThreads ==
  MainGoes("run", "joined") /\ UNCHANGED <<captureVars, codecVars>>

\* The threads have been told to stop, and joined.
JoinThreads ==
  /\ MainGoes("run", "joined")
  /\ callPc = "idle" /\ CodecIdle
  /\ UNCHANGED <<captureVars, codecVars>>

\* A thread could not be created: main stops and joins the others and returns
\* without the two shutdowns.
FailedStart ==
  /\ MainGoes("run", "exit")
  /\ callPc = "idle" /\ CodecIdle
  /\ UNCHANGED <<captureVars, codecVars>>

ShutCapture ==
  /\ program = "sender" /\ MainGoes("joined", "captureDown")
  /\ CaptureShutdown /\ UNCHANGED codecVars

ShutCodec ==
  /\ MainGoes(IF program = "sender" THEN "captureDown" ELSE "joined", "exit")
  /\ CodecShutdown /\ UNCHANGED captureVars

MediaEnded == mediaPc = "exit" /\ UNCHANGED mediaVars

MediaNext ==
  \/ FirstCapture \/ FirstCaptured \/ FirstCaptureFailed \/ NothingStarts
  \/ CaptureThread \/ CaptureGoesOn
  \/ \E t \in CodecThreads : CodecThread(t)
  \/ Screen
  \/ JoinThreads \/ FailedStart \/ ShutCapture \/ ShutCodec
  \/ MediaEnded

MediaSpec == MediaInit /\ [][MediaNext]_mediaVars

=============================================================================
