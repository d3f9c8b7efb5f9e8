---------------------------- MODULE RemoteInput ----------------------------
(***************************************************************************)
(* Mouse and keyboard of the receiver's window, forwarded to the sender.   *)
(* The window procedure turns what the user does inside the window into    *)
(* messages and sends each as a header and a payload; the input thread of  *)
(* the sender reads them in that shape and injects the events there.       *)
(*                                                                         *)
(* Positions are one-dimensional: 0 .. ClientWidth - 1 is the window.  A   *)
(* message is cut into the pieces the input thread tells apart: what the   *)
(* header is recognised by, what it ignores, the payload size, and two     *)
(* halves of the payload, which carry the event.                           *)
(***************************************************************************)
EXTENDS Integers, Sequences, SequencesExt

CONSTANTS
  Positions,     \* where the pointer may be, in client coordinates
  ClientWidth,   \* width of the client area, 0 while minimised
  FrameWidth,    \* width of the received frame
  ScreenWidth,   \* SM_CXSCREEN of the sender
  Buttons,       \* "left" and others
  Keys,
  MaxWaiting,    \* bound: pieces that wait unread when another is forwarded
  MaxFaults      \* bound: damages of a UART; TCP does none

ASSUME InputAssumption ==
  /\ Positions \subseteq Int /\ ClientWidth \in Nat \ {0}
  /\ FrameWidth \in Nat \ {0} /\ ScreenWidth \in Nat \ {0, 1}
  /\ "left" \in Buttons /\ Buttons \cap Keys = {}
  /\ MaxWaiting \in Nat /\ MaxFaults \in Nat

VARIABLES
  session,     \* "opening" until accept returns, "open", "ended"
  shown,       \* a first frame has arrived: framebuffer.width # 0
  minimised, focused,
  captured,    \* SetCapture is in force
  at,          \* where the user's pointer is
  down,        \* buttons and keys the user holds
  behind,      \* the last move in the window was not forwarded
  excused,     \* held inputs whose release the window may not get to see
  wire,        \* pieces on the way
  faults,
  thread,      \* what the input thread reads next: "header", "payload", "done"
  pointer,     \* the sender's pointer, in SendInput's 0 .. AbsoluteMax
  held,        \* buttons and keys held on the sender
  garbage      \* payloads injected that no message had

user      == <<at, down>>
window    == <<shown, minimised, focused, captured>>
sending   == <<behind, excused, wire, faults>>
remote    == <<thread, pointer, held, garbage>>
inputVars == <<session, user, window, sending, remote>>

\* sure is not sent: the last move before the event was forwarded.
Nothing == [kind |-> "none", which |-> "none", x |-> 0, sure |-> FALSE]

InputInit ==
  /\ session = "opening"
  /\ shown = FALSE /\ minimised = FALSE /\ focused = TRUE /\ captured = FALSE
  /\ at \in Positions /\ down = {}
  /\ behind = TRUE /\ excused = {}
  /\ wire = <<>> /\ faults = 0
  /\ thread = "header"
  /\ pointer = 0 /\ held = {} /\ garbage = 0

-----------------------------------------------------------------------------
(* Coordinates                                                             *)
Inside(x) == x \in 0 .. ClientWidth - 1

Clamped(x) == IF x < 0 THEN 0 ELSE IF x >= ClientWidth THEN ClientWidth - 1 ELSE x

\* Mutant: a position outside the window is scaled as it is.
RemoteXUnclamped(x) == (x * FrameWidth) \div ClientWidth

RemoteX(x) == (Clamped(x) * FrameWidth) \div ClientWidth

\* SendInput's absolute coordinate of a pixel
AbsoluteMax == 65535
Normalised(x) == (x * AbsoluteMax) \div (ScreenWidth - 1)

-----------------------------------------------------------------------------
(* The framing                                                             *)
HeaderSize == 3
PayloadSize == 2
Header == <<[part |-> "magic"], [part |-> "ignored"], [part |-> "size"]>>
Payload(e) == <<[part |-> "first", event |-> e], [part |-> "last", event |-> e]>>
Pieces(e) == Header \o Payload(e)

\* The two calls of ss_transport_send_all.  They deliver nothing before accept
\* and after the end.  A UART may fail in the middle, the header's failure
\* sparing the payload, and may lose a piece without an error.
Send(e) ==
  \/ session = "open" /\ wire' = wire \o Pieces(e) /\ UNCHANGED faults
  \/ session # "open" /\ UNCHANGED <<wire, faults>>
  \/ /\ session = "open" /\ faults < MaxFaults
     /\ faults' = faults + 1
     /\ \E i \in 1 .. Len(Pieces(e)) :
          \/ wire' = wire \o SubSeq(Pieces(e), 1, i - 1)
          \/ wire' = wire \o RemoveAt(Pieces(e), i)

Sent(e) == wire' = wire \o Pieces(e)

-----------------------------------------------------------------------------
(* The window procedure                                                    *)
MouseUsable == shown /\ ~minimised

\* The end of receiver_forward_mouse_event and receiver_forward_key_event.
Move(x)         == [Nothing EXCEPT !.kind = "move", !.x = RemoteX(x)]
Button(kind, b) == [kind |-> kind, which |-> b, x |-> RemoteX(at), sure |-> ~behind]
Wheel           == [Nothing EXCEPT !.kind = "wheel"]
Key(kind, k)    == [Nothing EXCEPT !.kind = kind, !.which = k]

Forward(e) == Len(wire) <= MaxWaiting /\ Send(e)

NotForwarded == UNCHANGED <<wire, faults>>

\* A move is dropped without a frame, while minimised, and when the last one
\* is less than SS_MOUSE_MOVE_MIN_INTERVAL_MS ago: how fast the user moves is
\* open, so each may be.
ForwardMove(x) ==
  \/ shown /\ ~minimised' /\ Forward(Move(x)) /\ behind' = ~Sent(Move(x))
  \/ NotForwarded /\ behind' = TRUE

\* The user moves; Windows tells the window inside it or while it captures.
MovePointer(x) ==
  /\ x # at
  /\ at' = x
  /\ UNCHANGED minimised
  /\ IF captured \/ (Inside(x) /\ ~minimised)
     THEN ForwardMove(x)
     ELSE NotForwarded /\ UNCHANGED behind
  /\ UNCHANGED <<session, down, shown, focused, captured, excused, remote>>

\* Mutant: the window does not capture the mouse.
CapturesNothing(button) == FALSE

\* WM_LBUTTONDOWN alone captures the mouse.
Captures(button) == button = "left"

Seen == captured \/ (Inside(at) /\ ~minimised)

\* A message that does not arrive whole excuses what follows from it.
ForwardButton(kind, b) ==
  IF MouseUsable
  THEN LET e == Button(kind, b) IN
         /\ Forward(e)
         /\ excused' = IF Sent(e) THEN excused \ {b} ELSE excused \cup {b}
  ELSE NotForwarded /\ excused' = excused \cup {b}

PressButton(b) ==
  /\ b \notin down
  /\ down' = down \cup {b}
  /\ IF Seen
     THEN /\ captured' = (captured \/ Captures(b))
          /\ focused' = TRUE
          /\ ForwardButton("down", b)
     ELSE NotForwarded /\ UNCHANGED <<captured, focused, excused>>
  /\ UNCHANGED <<session, at, shown, minimised, behind, remote>>

ReleaseButton(b) ==
  /\ b \in down
  /\ down' = down \ {b}
  /\ IF Seen
     THEN /\ ForwardButton("up", b)
          /\ captured' = (captured /\ ~Captures(b))
     ELSE /\ NotForwarded
          /\ UNCHANGED <<captured, excused>>
  /\ UNCHANGED <<session, at, shown, minimised, focused, behind,
                 remote>>

\* WM_MOUSEWHEEL goes to the window with the focus wherever the pointer is.
TurnWheel ==
  /\ focused
  /\ IF MouseUsable THEN Forward(Wheel) ELSE NotForwarded
  /\ UNCHANGED <<session, user, window, behind, excused, remote>>

ForwardKey(kind, k) ==
  LET e == Key(kind, k) IN
    /\ Forward(e)
    /\ excused' = IF Sent(e) THEN excused \ {k} ELSE excused \cup {k}

\* A held key repeats, so it may already be down.
PressKey(k) ==
  /\ down' = down \cup {k}
  /\ k \notin down \/ focused
  /\ IF focused THEN ForwardKey("keydown", k)
     ELSE NotForwarded /\ UNCHANGED excused
  /\ UNCHANGED <<session, at, window, behind, remote>>

ReleaseKey(k) ==
  /\ k \in down
  /\ down' = down \ {k}
  /\ IF focused THEN ForwardKey("keyup", k) ELSE NotForwarded /\ UNCHANGED excused
  /\ UNCHANGED <<session, at, window, behind, remote>>

\* Another window takes the keyboard, and with it the mouse.
LoseFocus ==
  /\ focused
  /\ focused' = FALSE /\ captured' = FALSE
  /\ excused' = excused \cup down
  /\ UNCHANGED <<session, user, shown, minimised, behind, wire, faults, remote>>

GetFocus ==
  /\ ~focused /\ ~minimised
  /\ focused' = TRUE
  /\ UNCHANGED <<session, user, shown, minimised, captured,  sending, remote>>

Minimise ==
  /\ ~minimised
  /\ minimised' = TRUE /\ focused' = FALSE /\ captured' = FALSE
  /\ excused' = excused \cup down
  /\ UNCHANGED <<session, user, shown, behind, wire,
                 faults, remote>>

\* The restored window is told where the pointer is.
Restore ==
  /\ minimised
  /\ minimised' = FALSE /\ focused' = TRUE
  /\ IF Inside(at) THEN ForwardMove(at)
     ELSE NotForwarded /\ UNCHANGED behind
  /\ UNCHANGED <<session, user, shown, captured, excused, remote>>

-----------------------------------------------------------------------------
(* The receiver's I/O thread and the end of the window                     *)
TransportOpens ==
  /\ session = "opening"
  /\ session' = "open"
  /\ UNCHANGED <<user, window, sending, remote>>

FirstFrame ==
  /\ session = "open" /\ ~shown
  /\ shown' = TRUE
  /\ UNCHANGED <<session, user, minimised, focused, captured,  sending, remote>>

\* WM_DESTROY closes the transport, or the link fails: what was on its way is
\* lost (what arrives before is a later end), and the window is gone with what
\* the user does in it.
LinkEnds ==
  /\ session # "ended" /\ thread # "done"
  /\ session' = "ended"
  /\ wire' = <<>>
  /\ minimised' = FALSE /\ focused' = FALSE /\ captured' = FALSE
  /\ at' = 0 /\ down' = {} /\ behind' = TRUE /\ excused' = {}
  /\ UNCHANGED <<shown, faults, remote>>

-----------------------------------------------------------------------------
(* The sender's input thread                                               *)
Taken(size) == SubSeq(wire, 1, size)
Rest(size) == SubSeq(wire, size + 1, Len(wire))

\* Mutant: what was read as a header is not looked at.
ValidHeaderUnchecked(h) == TRUE

\* ss_protocol_validate_header, and the size the message type calls for
ValidHeader(h) == h[1].part = "magic" /\ h[3].part = "size"

ReadHeader ==
  /\ thread = "header" /\ Len(wire) >= HeaderSize
  /\ IF ValidHeader(Taken(HeaderSize))
     THEN thread' = "payload" /\ wire' = Rest(HeaderSize)
     ELSE thread' = "done" /\ wire' = <<>>
  /\ UNCHANGED <<session, user, window, behind, excused,
                 faults, pointer, held, garbage>>

PutDown(e) == IF e.kind \in {"down", "keydown"} THEN {e.which} ELSE {}
LetGo(e) == IF e.kind \in {"up", "keyup"} THEN {e.which} ELSE {}

\* Mutant: KEYEVENTF_KEYUP is forgotten.
InjectKeyUpAsDown(e) ==
  /\ pointer' = IF e.kind = "move" THEN Normalised(e.x) ELSE pointer
  /\ held' = IF e.kind = "keyup" THEN held \cup {e.which}
             ELSE (held \ LetGo(e)) \cup PutDown(e)

\* ss_input_inject_mouse_event and ss_input_inject_key_event.  Without
\* MOUSEEVENTF_MOVE SendInput leaves the pointer where it is.
Inject(e) ==
  /\ pointer' = IF e.kind = "move" THEN Normalised(e.x) ELSE pointer
  /\ held' = (held \ LetGo(e)) \cup PutDown(e)

\* What a payload made of the wrong bytes does is anybody's guess, and the
\* sender's pointer and buttons are not followed any further.
InjectGarbage == pointer' = 0 /\ held' = {}

WholePayload ==
  wire[1].part = "first" /\ Taken(PayloadSize) = Payload(wire[1].event)

ReadPayload ==
  /\ thread = "payload" /\ Len(wire) >= PayloadSize
  /\ wire' = Rest(PayloadSize)
  /\ thread' = "header"
  /\ IF WholePayload
     THEN Inject(wire[1].event) /\ UNCHANGED garbage
     ELSE InjectGarbage /\ garbage' = garbage + 1
  /\ UNCHANGED <<session, user, window, behind, excused, faults>>

\* What is left is less than the thread asks for: TCP says that it is over, or
\* the sender closes its handle.
ReadFails ==
  /\ thread # "done" /\ session = "ended"
  /\ Len(wire) < (IF thread = "header" THEN HeaderSize ELSE PayloadSize)
  /\ thread' = "done"
  /\ UNCHANGED <<session, user, window, sending, pointer, held,
                 garbage>>

InputThread == ReadHeader \/ ReadPayload \/ ReadFails

-----------------------------------------------------------------------------
\* The window goes with the session; and once the input thread has ended
\* nothing that the user does reaches the sender.
User ==
  /\ session # "ended" /\ thread # "done"
  /\ \/ \E x \in Positions : MovePointer(x)
     \/ \E b \in Buttons : PressButton(b) \/ ReleaseButton(b)
     \/ \E k \in Keys : PressKey(k) \/ ReleaseKey(k)
     \/ TurnWheel \/ LoseFocus \/ GetFocus \/ Minimise \/ Restore

InputNext == User \/ TransportOpens \/ FirstFrame \/ LinkEnds \/ InputThread

InputSpec == InputInit /\ [][InputNext]_inputVars

\* The input thread keeps running; nobody makes the user do anything.
FairInputSpec == InputSpec /\ WF_inputVars(InputThread)

-----------------------------------------------------------------------------
(***************************************************************************)
(* Wherever the link cuts the stream once, at most one payload is injected *)
(* that no message had: the input thread ends at the header after it and   *)
(* acts on nothing that follows.                                           *)
(***************************************************************************)
Injects == thread = "payload" /\ thread' = "header"
DamageIsBounded == [][Injects /\ faults <= 1 => garbage = 0]_inputVars

(***************************************************************************)
(* A left button or a key that was released is not held on the sender      *)
(* once everything sent has arrived, unless the window lost the focus or   *)
(* was minimised or its message was cut while it was down: capturing the   *)
(* mouse makes up for a release outside the window.                        *)
(***************************************************************************)
ReleasedEverywhere ==
  session = "open" /\ wire = <<>> /\ thread = "header" /\ garbage = 0
    => held \cap (Keys \cup {"left"}) \subseteq down \cup excused

(***************************************************************************)
(* A button goes down and up where the user clicked, although its own      *)
(* coordinates are not used, unless the last move was not forwarded; and   *)
(* the pointer stays on the screen wherever the user drags it.             *)
(***************************************************************************)
ClicksLand ==
  /\ pointer \in 0 .. AbsoluteMax
  /\ thread = "payload" /\ Len(wire) >= PayloadSize /\ WholePayload
     => LET e == wire[1].event
        IN e.kind \in {"down", "up"} /\ e.sure /\ garbage = 0
             => pointer = Normalised(e.x)

(***************************************************************************)
(* On a link that damages nothing a left button or key that is released,   *)
(* and that the window was not kept from seeing, is not held on the sender *)
(* in the end, unless the user holds it again or the connection ends.      *)
(***************************************************************************)
ReleasesArrive ==
  \A i \in Keys \cup {"left"} :
    (i \notin down /\ faults = 0)
      ~> (i \notin held \/ i \in down \cup excused \/ session = "ended"
            \/ faults > 0)
=============================================================================
