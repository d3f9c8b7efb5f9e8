-------------------------- MODULE RemoteInputProofs --------------------------
(***************************************************************************)
(* Proofs about the forwarded mouse and keyboard, for every bound on the   *)
(* damages and on the unread pieces.                                       *)
(***************************************************************************)
EXTENDS RemoteInput, DataLemmas

Kinds == {"none", "move", "down", "up", "wheel", "keydown", "keyup"}
Event == [kind : Kinds, which : Buttons \cup Keys \cup {"none"},
          x : 0..(FrameWidth - 1), sure : BOOLEAN]
Piece ==
  {[part |-> "magic"], [part |-> "ignored"], [part |-> "size"]}
    \cup [part : {"first", "last"}, event : Event]

InputTypeOK ==
  /\ session \in {"opening", "open", "ended"}
  /\ thread \in {"header", "payload", "done"}
  /\ at \in Int /\ pointer \in Int
  /\ faults \in Nat /\ garbage \in Nat
  /\ behind \in BOOLEAN
  /\ wire \in Seq(Piece)
  /\ minimised => ~captured
  /\ session # "open" => wire = <<>>

\* What is said of the wire holds while the input thread still acts on it.
Followed == session # "ended" /\ thread # "done" /\ garbage = 0

-----------------------------------------------------------------------------
(* The last word.  good and bad are sets of events; w[1] is read next, as   *)
(* part of a header or of a payload.                                        *)

\* No payload that starts at from .. end - 1 is bad.
NoneOf(w, bad, from, end) ==
  \A k \in from..(end - 1) : w[k].part = "first" => w[k].event \notin bad

HasPayload(w, j, e) ==
  w[j] = [part |-> "first", event |-> e] /\ w[j + 1] = [part |-> "last", event |-> e]

HasMessage(w, j, e) ==
  /\ w[j].part = "magic" /\ w[j + 1].part = "ignored" /\ w[j + 2].part = "size"
  /\ HasPayload(w, j + 3, e)

\* Before end, a good event arrives whole and none after it is bad.
LastWord(w, reads, end, good, bad) ==
  \/ \E j \in 1..(end - 5), e \in good :
       HasMessage(w, j, e) /\ NoneOf(w, bad, j + 5, end)
  \/ /\ reads = "payload" /\ end >= 3
     /\ \E e \in good : HasPayload(w, 1, e)
     /\ NoneOf(w, bad, 3, end)

\* What is appended keeps the last word unless it is bad.
LEMMA Appended ==
  ASSUME NEW w, NEW r, NEW reads, NEW good, NEW bad,
         NEW n \in Nat, NEW end \in Nat, n <= end,
         \A k \in 1..(n - 1) : r[k] = w[k],
         NoneOf(r, bad, n, end)
  PROVE  /\ NoneOf(w, bad, 1, n) => NoneOf(r, bad, 1, end)
         /\ LastWord(w, reads, n, good, bad) => LastWord(r, reads, end, good, bad)
<1>1. ASSUME NEW from \in Nat \ {0}, NoneOf(w, bad, from, n)
      PROVE  NoneOf(r, bad, from, end)
  <2> SUFFICES ASSUME NEW k \in from..(end - 1), r[k].part = "first"
               PROVE  r[k].event \notin bad
    BY DEF NoneOf
  <2>1. CASE k < n
    BY <1>1, <2>1 DEF NoneOf
  <2>2. CASE k >= n
    BY <2>2 DEF NoneOf
  <2> QED
    BY <2>1, <2>2
<1>2. ASSUME NEW j \in 1..(n - 5), NEW e \in good,
             HasMessage(w, j, e), NoneOf(w, bad, j + 5, n)
      PROVE  LastWord(r, reads, end, good, bad)
  <2>1. /\ r[j] = w[j] /\ r[j + 1] = w[j + 1] /\ r[j + 2] = w[j + 2]
        /\ r[j + 3] = w[j + 3] /\ r[j + 3 + 1] = w[j + 3 + 1]
    OBVIOUS
  <2>2. HasMessage(r, j, e)
    BY <1>2, <2>1 DEF HasMessage, HasPayload
  <2>3. NoneOf(r, bad, j + 5, end)
    BY <1>1, <1>2
  <2> QED
    BY <2>2, <2>3 DEF LastWord
<1>3. ASSUME reads = "payload", n >= 3, NEW e \in good, HasPayload(w, 1, e),
             NoneOf(w, bad, 3, n)
      PROVE  LastWord(r, reads, end, good, bad)
  <2>1. r[1] = w[1] /\ r[2] = w[2]
    BY <1>3
  <2>2. HasPayload(r, 1, e)
    BY <1>3, <2>1 DEF HasPayload
  <2>3. NoneOf(r, bad, 3, end)
    BY <1>1, <1>3
  <2> QED
    BY <1>3, <2>2, <2>3 DEF LastWord
<1> QED
  BY <1>1, <1>2, <1>3 DEF LastWord

(* A header is read: the three pieces before a payload.                     *)
LEMMA HeaderRead ==
  ASSUME NEW w, NEW r, NEW good, NEW bad, NEW end \in Nat, end >= 4,
         w[1].part = "magic", w[3].part = "size",
         \A k \in 1..(end - 4) : r[k] = w[k + 3]
  PROVE  /\ NoneOf(w, bad, 1, end) => NoneOf(r, bad, 1, end - 3)
         /\ LastWord(w, "header", end, good, bad)
              => LastWord(r, "payload", end - 3, good, bad)
<1>1. ASSUME NEW from \in Nat, from >= 4, NoneOf(w, bad, from, end)
      PROVE  NoneOf(r, bad, from - 3, end - 3)
  <2> SUFFICES ASSUME NEW k \in (from - 3)..(end - 4), r[k].part = "first"
               PROVE  r[k].event \notin bad
    BY DEF NoneOf
  <2>1. r[k] = w[k + 3] /\ k + 3 \in from..(end - 1)
    BY <1>1
  <2> QED
    BY <1>1, <2>1 DEF NoneOf
<1>2. ASSUME NoneOf(w, bad, 1, end) PROVE NoneOf(r, bad, 1, end - 3)
  <2>1. NoneOf(w, bad, 4, end)
    BY <1>2 DEF NoneOf
  <2> QED
    BY <1>1, <2>1
<1>3. ASSUME NEW j \in 1..(end - 5), NEW e \in good,
             HasMessage(w, j, e), NoneOf(w, bad, j + 5, end)
      PROVE  LastWord(r, "payload", end - 3, good, bad)
  <2>1. j # 2 /\ j # 3
    BY <1>3 DEF HasMessage
  <2>2. CASE j = 1
    <3>1. r[1] = w[4] /\ r[2] = w[5]
      BY <1>3, <2>2
    <3>2. HasPayload(r, 1, e)
      BY <1>3, <2>2, <3>1 DEF HasMessage, HasPayload
    <3>3. NoneOf(r, bad, 3, end - 3)
      BY <1>1, <1>3, <2>2
    <3> QED
      BY <2>2, <3>2, <3>3 DEF LastWord
  <2>3. CASE j >= 4
    <3> DEFINE i == j - 3
    <3>1. i \in Nat /\ i \in 1..(end - 3 - 5) /\ j = i + 3
      BY <2>3
    <3> HIDE DEF i
    <3>2. /\ r[i] = w[j] /\ r[i + 1] = w[j + 1] /\ r[i + 2] = w[j + 2]
          /\ r[i + 3] = w[j + 3] /\ r[i + 3 + 1] = w[j + 3 + 1]
      BY <3>1
    <3>3. HasMessage(r, i, e)
      BY <1>3, <3>2 DEF HasMessage, HasPayload
    <3>4. NoneOf(r, bad, i + 5, end - 3)
      <4>1. j + 5 - 3 = i + 5 /\ j + 5 \in Nat /\ j + 5 >= 4
        BY <3>1
      <4> QED
        BY <1>1, <1>3, <4>1
    <3> QED
      BY <3>1, <3>3, <3>4 DEF LastWord
  <2> QED
    BY <2>1, <2>2, <2>3
<1> QED
  BY <1>2, <1>3 DEF LastWord

(* A whole payload is read: its event is acted on.                          *)
LEMMA PayloadRead ==
  ASSUME NEW w, NEW r, NEW good, NEW bad, NEW end \in Nat, end >= 3,
         NEW event, HasPayload(w, 1, event),
         \A k \in 1..(end - 3) : r[k] = w[k + 2]
  PROVE  /\ NoneOf(w, bad, 1, end) =>
              event \notin bad /\ NoneOf(r, bad, 1, end - 2)
         /\ LastWord(w, "payload", end, good, bad) =>
              \/ LastWord(r, "header", end - 2, good, bad)
              \/ event \in good /\ NoneOf(r, bad, 1, end - 2)
<1>1. ASSUME NEW from \in Nat, from >= 3, NoneOf(w, bad, from, end)
      PROVE  NoneOf(r, bad, from - 2, end - 2)
  <2> SUFFICES ASSUME NEW k \in (from - 2)..(end - 3), r[k].part = "first"
               PROVE  r[k].event \notin bad
    BY DEF NoneOf
  <2>1. r[k] = w[k + 2] /\ k + 2 \in from..(end - 1)
    BY <1>1
  <2> QED
    BY <1>1, <2>1 DEF NoneOf
<1>2. /\ w[1].part = "first" /\ w[1].event = event
      /\ w[2].part = "last"
  BY DEF HasPayload
<1>3. ASSUME NoneOf(w, bad, 1, end)
      PROVE  event \notin bad /\ NoneOf(r, bad, 1, end - 2)
  <2>1. NoneOf(w, bad, 3, end) /\ 1 \in 1..(end - 1)
    BY <1>3 DEF NoneOf
  <2> QED
    BY <1>1, <1>2, <1>3, <2>1 DEF NoneOf
<1>4. ASSUME NEW j \in 1..(end - 5), NEW e \in good,
             HasMessage(w, j, e), NoneOf(w, bad, j + 5, end)
      PROVE  LastWord(r, "header", end - 2, good, bad)
  <2>1. j >= 3
    BY <1>2, <1>4 DEF HasMessage
  <2> DEFINE i == j - 2
  <2>2. i \in Nat /\ i \in 1..(end - 2 - 5) /\ j = i + 2
    BY <2>1
  <2> HIDE DEF i
  <2>3. /\ r[i] = w[j] /\ r[i + 1] = w[j + 1] /\ r[i + 2] = w[j + 2]
        /\ r[i + 3] = w[j + 3] /\ r[i + 3 + 1] = w[j + 3 + 1]
    BY <2>2
  <2>4. HasMessage(r, i, e)
    BY <1>4, <2>3 DEF HasMessage, HasPayload
  <2>5. NoneOf(r, bad, i + 5, end - 2)
    <3>1. j + 5 - 2 = i + 5 /\ j + 5 \in Nat /\ j + 5 >= 3
      BY <2>2
    <3> QED
      BY <1>1, <1>4, <3>1
  <2> QED
    BY <2>2, <2>4, <2>5 DEF LastWord
<1>5. ASSUME NEW e \in good, HasPayload(w, 1, e), NoneOf(w, bad, 3, end)
      PROVE  event \in good /\ NoneOf(r, bad, 1, end - 2)
  <2>1. event = e
    BY <1>2, <1>5 DEF HasPayload
  <2> QED
    BY <1>1, <1>5, <2>1
<1> QED
  BY <1>3, <1>4, <1>5 DEF LastWord

-----------------------------------------------------------------------------
(* What a call of Send puts on the wire.                                    *)

Magic == [part |-> "magic"]
Ignored == [part |-> "ignored"]
Size == [part |-> "size"]
FirstHalf(e) == [part |-> "first", event |-> e]
LastHalf(e) == [part |-> "last", event |-> e]

\* What is left of a message of which a piece, or the rest, was lost.
Damaged(e) ==
  {<<>>, <<Magic>>, <<Magic, Ignored>>, <<Magic, Ignored, Size>>,
   <<Magic, Ignored, Size, FirstHalf(e)>>,
   <<Ignored, Size, FirstHalf(e), LastHalf(e)>>, <<Magic, Size, FirstHalf(e), LastHalf(e)>>,
   <<Magic, Ignored, FirstHalf(e), LastHalf(e)>>, <<Magic, Ignored, Size, LastHalf(e)>>}

LEMMA PiecesAre ==
  ASSUME NEW e
  PROVE  /\ Pieces(e) = <<Magic, Ignored, Size, FirstHalf(e), LastHalf(e)>>
         /\ \A i \in 1..5 : /\ SubSeq(Pieces(e), 1, i - 1) \in Damaged(e)
                            /\ RemoveAt(Pieces(e), i) \in Damaged(e)
<1> DEFINE S == {Magic, Ignored, Size, FirstHalf(e), LastHalf(e)}
           s == <<Magic, Ignored, Size, FirstHalf(e), LastHalf(e)>>
           x == <<Magic, Ignored, Size>>
           y == <<FirstHalf(e), LastHalf(e)>>
<1>1. Pieces(e) = x \o y
  BY DEF Pieces, Header, Payload, Magic, Ignored, Size, FirstHalf, LastHalf
<1> HIDE DEF Magic, Ignored, Size, FirstHalf, LastHalf
<1>2. /\ x \in Seq(S) /\ Len(x) = 3 /\ x[1] = Magic /\ x[2] = Ignored /\ x[3] = Size
      /\ y \in Seq(S) /\ Len(y) = 2 /\ y[1] = FirstHalf(e) /\ y[2] = LastHalf(e)
  OBVIOUS
<1>3. /\ s \in Seq(S) /\ Len(s) = 5 /\ s[1] = Magic /\ s[2] = Ignored /\ s[3] = Size
      /\ s[4] = FirstHalf(e) /\ s[5] = LastHalf(e)
  OBVIOUS
<1> HIDE DEF x, y, S
<1>4. Pieces(e) = s
  BY <1>1, <1>2, ThreeAndTwo
<1> HIDE DEF s
<1>5. ASSUME NEW i \in 1..5 PROVE SubSeq(s, 1, i - 1) \in Damaged(e)
  <2> DEFINE n == i - 1  r == SubSeq(s, 1, n)
  <2>1. n \in 0..Len(s) /\ n \in {0, 1, 2, 3, 4}
    BY <1>3
  <2> HIDE DEF n
  <2>2. r \in Seq(S) /\ Len(r) = n /\ \A k \in 1..n : r[k] = s[k]
    BY <1>3, <2>1, TakeIs
  <2> HIDE DEF r
  <2>3. /\ n = 0 => r = <<>>
        /\ n = 1 => r = <<r[1]>>
        /\ n = 2 => r = <<r[1], r[2]>>
        /\ n = 3 => r = <<r[1], r[2], r[3]>>
        /\ n = 4 => r = <<r[1], r[2], r[3], r[4]>>
    BY <2>2, TupleIs
  <2>4. /\ n >= 1 => r[1] = Magic
        /\ n >= 2 => r[2] = Ignored
        /\ n >= 3 => r[3] = Size
        /\ n >= 4 => r[4] = FirstHalf(e)
    BY <1>3, <2>1, <2>2
  <2>5. r \in Damaged(e)
    BY <2>1, <2>3, <2>4 DEF Damaged
  <2> QED
    BY <2>5 DEF r, n
<1>6. ASSUME NEW i \in 1..5 PROVE RemoveAt(s, i) \in Damaged(e)
  <2> DEFINE r == RemoveAt(s, i)
  <2>1. /\ r \in Seq(S) /\ Len(r) = Len(s) - 1
        /\ \A k \in 1..(Len(s) - 1) : r[k] = IF k < i THEN s[k] ELSE s[k + 1]
    BY <1>3, RemoveIs
  <2> HIDE DEF r
  <2>2. Len(r) = 4 /\ \A k \in 1..4 : r[k] = IF k < i THEN s[k] ELSE s[k + 1]
    BY <1>3, <2>1
  <2>3. r = <<r[1], r[2], r[3], r[4]>>
    BY <2>1, <2>2, TupleIs
  <2>4. /\ r[1] = IF 1 < i THEN s[1] ELSE s[2]
        /\ r[2] = IF 2 < i THEN s[2] ELSE s[3]
        /\ r[3] = IF 3 < i THEN s[3] ELSE s[4]
        /\ r[4] = IF 4 < i THEN s[4] ELSE s[5]
    BY <2>2
  <2>5. r \in Damaged(e)
    BY <1>3, <2>3, <2>4 DEF Damaged
  <2> QED
    BY <2>5 DEF r
<1> QED
  BY <1>4, <1>5, <1>6 DEF s

\* s may be sent for e, and says nothing of another event.
Says(s, e) ==
  /\ s \in Seq(Piece)
  /\ \A k \in DOMAIN s : s[k].part = "first" => s[k].event = e

LEMMA PiecesSay ==
  ASSUME NEW e \in Event
  PROVE  /\ Says(Pieces(e), e)
         /\ \A s \in Damaged(e) : Says(s, e)
         /\ Says(<<>>, e)
<1>1. /\ Magic \in Piece /\ Ignored \in Piece /\ Size \in Piece
      /\ FirstHalf(e) \in Piece /\ LastHalf(e) \in Piece
      /\ Magic.part # "first" /\ Ignored.part # "first" /\ Size.part # "first"
      /\ FirstHalf(e).event = e /\ LastHalf(e).part # "first"
  BY DEF Piece, Magic, Ignored, Size, FirstHalf, LastHalf
<1>2. Pieces(e) = <<Magic, Ignored, Size, FirstHalf(e), LastHalf(e)>>
  BY PiecesAre
<1> HIDE DEF Magic, Ignored, Size, FirstHalf, LastHalf
<1>3. Says(Pieces(e), e)
  BY <1>1, <1>2 DEF Says
<1>4. Says(<<>>, e)
  BY DEF Says
<1>5. /\ Says(<<Magic>>, e) /\ Says(<<Magic, Ignored>>, e)
      /\ Says(<<Magic, Ignored, Size>>, e)
      /\ Says(<<Magic, Ignored, Size, FirstHalf(e)>>, e)
  BY <1>1 DEF Says
<1>6. /\ Says(<<Ignored, Size, FirstHalf(e), LastHalf(e)>>, e)
      /\ Says(<<Magic, Size, FirstHalf(e), LastHalf(e)>>, e)
      /\ Says(<<Magic, Ignored, FirstHalf(e), LastHalf(e)>>, e)
      /\ Says(<<Magic, Ignored, Size, LastHalf(e)>>, e)
  BY <1>1 DEF Says
<1> QED
  BY <1>3, <1>4, <1>5, <1>6 DEF Damaged

LEMMA SendIs ==
  ASSUME NEW e, Send(e)
  PROVE  \/ session = "open" /\ wire' = wire \o Pieces(e) /\ faults' = faults
         \/ session # "open" /\ wire' = wire /\ faults' = faults
         \/ /\ session = "open" /\ faults' = faults + 1
            /\ \E s \in Damaged(e) : wire' = wire \o s
<1>1. Len(Pieces(e)) = 5
  BY PiecesAre
<1> QED
  BY <1>1, PiecesAre DEF Send

-----------------------------------------------------------------------------
(* Coordinates.                                                             *)

LEMMA RemoteXInFrame ==
  ASSUME NEW x \in Int
  PROVE  RemoteX(x) \in 0..(FrameWidth - 1)
<1> DEFINE c == Clamped(x)  a == c * FrameWidth  q == a \div ClientWidth
<1>1. ClientWidth \in Nat \ {0} /\ FrameWidth \in Nat \ {0}
  BY InputAssumption
<1>2. c \in Nat /\ c < ClientWidth
  BY <1>1 DEF Clamped
<1> HIDE DEF c
<1>3. a \in Nat /\ a + FrameWidth <= ClientWidth * FrameWidth
  BY <1>1, <1>2, Times
<1> HIDE DEF a
<1>4. q \in Nat /\ q * ClientWidth <= a
  BY <1>1, <1>3, Quotient
<1> HIDE DEF q
<1>5. /\ FrameWidth <= q => FrameWidth * ClientWidth <= q * ClientWidth
      /\ FrameWidth * ClientWidth \in Nat /\ q * ClientWidth \in Nat
  BY <1>1, <1>4, Times
<1>6. FrameWidth * ClientWidth = ClientWidth * FrameWidth
  BY <1>1
<1>7. q < FrameWidth
  BY <1>1, <1>3, <1>4, <1>5, <1>6
<1> QED
  BY <1>1, <1>4, <1>7 DEF RemoteX, q, a, c

LEMMA AbsoluteMaxIsNat == AbsoluteMax \in Nat \ {0}
  BY DEF AbsoluteMax

LEMMA NormalisedIs ==
  ASSUME NEW x \in 0..(FrameWidth - 1)
  PROVE  /\ Normalised(x) \in Nat
         /\ FrameWidth <= ScreenWidth => Normalised(x) \in 0..AbsoluteMax
<1> DEFINE m == AbsoluteMax  d == ScreenWidth - 1  a == x * m  q == a \div d
<1>1. /\ m \in Nat \ {0} /\ d \in Nat \ {0} /\ FrameWidth \in Nat \ {0} /\ x \in Nat
      /\ FrameWidth <= ScreenWidth => x <= d
  BY InputAssumption, AbsoluteMaxIsNat
<1>2. Normalised(x) = q /\ AbsoluteMax = m
  BY DEF Normalised
<1> HIDE DEF m, d
<1>4. a \in Nat /\ (x <= d => a <= d * m) /\ d * m \in Nat
  BY <1>1, Times
<1> HIDE DEF a
<1>5. q \in Nat /\ q * d <= a
  BY <1>1, <1>4, Quotient
<1> HIDE DEF q
<1>6. m < q => m * d + d <= q * d
  BY <1>1, <1>5, Times
<1>7. m * d = d * m /\ q * d \in Nat
  BY <1>1, <1>5
<1>8. x <= d => q <= m
  BY <1>1, <1>4, <1>5, <1>6, <1>7
<1> QED
  BY <1>1, <1>2, <1>5, <1>8

LEMMA EventTypes ==
  /\ \A x \in Int : Move(x) \in Event
  /\ Wheel \in Event
  /\ \A k \in Keys : Key("keydown", k) \in Event /\ Key("keyup", k) \in Event
  /\ InputTypeOK => \A b \in Buttons : Button("down", b) \in Event /\ Button("up", b) \in Event
<1>1. 0 \in 0..(FrameWidth - 1)
  BY InputAssumption
<1>2. \A x \in Int : RemoteX(x) \in 0..(FrameWidth - 1)
  BY RemoteXInFrame
<1>3. \A x \in Int : Move(x) \in Event
  BY <1>2 DEF Move, Nothing, Event, Kinds
<1>4. Wheel \in Event
  BY <1>1 DEF Wheel, Nothing, Event, Kinds
<1>5. \A k \in Keys : Key("keydown", k) \in Event /\ Key("keyup", k) \in Event
  BY <1>1 DEF Key, Nothing, Event, Kinds
<1>6. InputTypeOK => \A b \in Buttons : Button("down", b) \in Event /\ Button("up", b) \in Event
  <2> SUFFICES ASSUME InputTypeOK, NEW b \in Buttons
               PROVE  Button("down", b) \in Event /\ Button("up", b) \in Event
    OBVIOUS
  <2> DEFINE x == RemoteX(at)  sure == ~behind
  <2>1. x \in 0..(FrameWidth - 1)
    BY <1>2 DEF InputTypeOK
  <2>2. sure \in BOOLEAN
    OBVIOUS
  <2>3. \A kind : Button(kind, b) = [kind |-> kind, which |-> b, x |-> x, sure |-> sure]
    BY DEF Button
  <2> HIDE DEF x, sure
  <2> QED
    BY <2>1, <2>2, <2>3 DEF Event, Kinds
<1> QED
  BY <1>3, <1>4, <1>5, <1>6

-----------------------------------------------------------------------------
(* The two kinds of step that keep the remote side as it is, and the reads. *)

Silent == UNCHANGED <<wire, faults>>

LEMMA SendType ==
  ASSUME InputTypeOK, NEW e \in Event, Send(e)
  PROVE  /\ \E s : Says(s, e) /\ wire' = wire \o s
         /\ wire' \in Seq(Piece) /\ faults' \in Nat
         /\ session # "open" => wire' = wire
<1>1. wire \in Seq(Piece) /\ faults \in Nat
  BY DEF InputTypeOK
<1>2. PICK s : Says(s, e) /\ wire' = wire \o s
  <2>1. wire = wire \o <<>>
    BY <1>1
  <2> QED
    BY <2>1, SendIs, PiecesSay
<1>3. wire \o s \in Seq(Piece)
  BY <1>1, <1>2 DEF Says
<1>4. faults' \in Nat /\ (session # "open" => wire' = wire)
  BY <1>1, SendIs
<1>5. \E r : Says(r, e) /\ wire' = wire \o r
  BY <1>2
<1> QED
  BY <1>2, <1>3, <1>4, <1>5

LEMMA DroppedWire ==
  ASSUME NEW n \in Nat, wire \in Seq(Piece), Len(wire) >= n
  PROVE  /\ Rest(n) \in Seq(Piece) /\ Len(Rest(n)) = Len(wire) - n
         /\ \A k \in 1..(Len(wire) - n) : Rest(n)[k] = wire[k + n]
<1>1. n \in 0..Len(wire)
  OBVIOUS
<1> QED
  BY <1>1, DropIs DEF Rest

LEMMA TakenWire ==
  ASSUME NEW n \in Nat, wire \in Seq(Piece), Len(wire) >= n
  PROVE  /\ Taken(n) \in Seq(Piece) /\ Len(Taken(n)) = n
         /\ \A k \in 1..n : Taken(n)[k] = wire[k]
<1>1. n \in 0..Len(wire)
  OBVIOUS
<1> QED
  BY <1>1, TakeIs DEF Taken

LEMMA HeaderStep ==
  ASSUME InputTypeOK, ReadHeader, thread' # "done"
  PROVE  /\ thread = "header" /\ thread' = "payload" /\ Len(wire) >= 3
         /\ wire[1].part = "magic" /\ wire[3].part = "size"
         /\ wire' \in Seq(Piece) /\ Len(wire') = Len(wire) - 3
         /\ \A k \in 1..(Len(wire) - 3) : wire'[k] = wire[k + 3]
         /\ UNCHANGED <<session, user, window, behind, excused,
                        faults, pointer, held, garbage>>
<1> DEFINE n == HeaderSize
<1>1. /\ wire \in Seq(Piece) /\ Len(wire) >= n /\ n = 3 /\ n \in Nat
      /\ ValidHeader(Taken(n)) /\ wire' = Rest(n)
      /\ thread = "header" /\ thread' = "payload"
  BY DEF InputTypeOK, ReadHeader, HeaderSize
<1> HIDE DEF n
<1>2. \A k \in 1..n : Taken(n)[k] = wire[k]
  BY <1>1, TakenWire
<1>3. wire[1].part = "magic" /\ wire[3].part = "size"
  BY <1>1, <1>2 DEF ValidHeader
<1>4. /\ wire' \in Seq(Piece) /\ Len(wire') = Len(wire) - n
      /\ \A k \in 1..(Len(wire) - n) : wire'[k] = wire[k + n]
  BY <1>1, DroppedWire
<1>5. UNCHANGED <<session, user, window, behind, excused, faults, pointer, held, garbage>>
  BY DEF ReadHeader
<1> QED
  BY <1>1, <1>3, <1>4, <1>5

LEMMA PayloadStep ==
  ASSUME InputTypeOK, ReadPayload
  PROVE  /\ thread = "payload" /\ thread' = "header" /\ Len(wire) >= 2
         /\ wire' \in Seq(Piece) /\ Len(wire') = Len(wire) - 2
         /\ \A k \in 1..(Len(wire) - 2) : wire'[k] = wire[k + 2]
         /\ WholePayload <=> HasPayload(wire, 1, wire[1].event)
         /\ WholePayload => wire[1].event \in Event
         /\ UNCHANGED <<session, user, window, behind, excused, faults>>
<1> DEFINE n == PayloadSize  e == wire[1].event
<1>1. /\ wire \in Seq(Piece) /\ Len(wire) >= n /\ n = 2 /\ n \in Nat
      /\ wire' = Rest(n) /\ thread = "payload" /\ thread' = "header"
  BY DEF InputTypeOK, ReadPayload, PayloadSize
<1>2. WholePayload <=> wire[1].part = "first" /\ Taken(n) = Payload(e)
  BY DEF WholePayload
<1> HIDE DEF n
<1>3. Taken(n) \in Seq(Piece) /\ Len(Taken(n)) = n /\ \A k \in 1..n : Taken(n)[k] = wire[k]
  BY <1>1, TakenWire
<1>4. Taken(n) = <<wire[1], wire[2]>>
  <2> DEFINE r == Taken(n)
  <2>1. r \in Seq(Piece) /\ Len(r) = 2 /\ r[1] = wire[1] /\ r[2] = wire[2]
    BY <1>1, <1>3
  <2> HIDE DEF r
  <2>2. r = <<r[1], r[2]>>
    BY <2>1, TupleIs
  <2> QED
    BY <2>1, <2>2 DEF r
<1> HIDE DEF e
<1>5. WholePayload <=> HasPayload(wire, 1, e)
  BY <1>2, <1>4 DEF Payload, HasPayload
<1>6. WholePayload => e \in Event
  <2>1. wire[1] \in Piece
    BY <1>1
  <2> QED
    BY <1>2, <2>1 DEF Piece, e
<1>7. /\ wire' \in Seq(Piece) /\ Len(wire') = Len(wire) - n
      /\ \A k \in 1..(Len(wire) - n) : wire'[k] = wire[k + n]
  BY <1>1, DroppedWire
<1>8. UNCHANGED <<session, user, window, behind, excused, faults>>
  BY DEF ReadPayload
<1> QED
  BY <1>1, <1>5, <1>6, <1>7, <1>8 DEF e

-----------------------------------------------------------------------------
(* The types.                                                               *)

LEMMA InputTypeInit == InputInit => InputTypeOK
  BY InputAssumption DEF InputInit, InputTypeOK

LEMMA ForwardTypes ==
  ASSUME InputTypeOK, session # "ended",
         Silent \/ \E e \in Event : Send(e)
  PROVE  /\ wire' \in Seq(Piece) /\ faults' \in Nat
         /\ session # "open" => wire' = <<>>
<1>1. CASE Silent
  BY <1>1 DEF Silent, InputTypeOK
<1>2. CASE \E e \in Event : Send(e)
  BY <1>2, SendType DEF InputTypeOK
<1> QED
  BY <1>1, <1>2

\* What a step of the user puts on the wire.
LEMMA UserSends ==
  ASSUME InputTypeOK, User
  PROVE  /\ session # "ended" /\ thread # "done"
         /\ UNCHANGED <<session, shown, remote>>
         /\ Silent \/ \E e \in Event : Send(e)
         /\ at' \in Int /\ behind' \in BOOLEAN /\ (minimised' => ~captured')
<1>1. session # "ended" /\ thread # "done" /\ InputTypeOK
  BY DEF User
<1>2. CASE \E x \in Positions : MovePointer(x)
  <2>1. PICK x \in Positions : MovePointer(x)
    BY <1>2
  <2>2. x \in Int /\ Move(x) \in Event
    BY InputAssumption, EventTypes
  <2> QED
    BY <1>1, <2>1, <2>2
       DEF MovePointer, ForwardMove, Forward, NotForwarded, Silent, InputTypeOK
<1>3. CASE \E b \in Buttons : PressButton(b) \/ ReleaseButton(b)
  <2>1. PICK b \in Buttons : PressButton(b) \/ ReleaseButton(b)
    BY <1>3
  <2>2. Button("down", b) \in Event /\ Button("up", b) \in Event
    BY <1>1, EventTypes
  <2>3. /\ UNCHANGED <<session, shown, remote, at, behind, minimised>>
        /\ captured' => captured \/ ~minimised
    BY <2>1 DEF PressButton, ReleaseButton, Seen
  <2>4. Silent \/ Send(Button("down", b)) \/ Send(Button("up", b))
    BY <2>1 DEF PressButton, ReleaseButton, ForwardButton, Forward, NotForwarded, Silent
  <2> QED
    BY <1>1, <2>2, <2>3, <2>4 DEF InputTypeOK
<1>4. CASE \E k \in Keys : PressKey(k) \/ ReleaseKey(k)
  <2>1. PICK k \in Keys : PressKey(k) \/ ReleaseKey(k)
    BY <1>4
  <2>2. Key("keydown", k) \in Event /\ Key("keyup", k) \in Event
    BY EventTypes
  <2>3. UNCHANGED <<session, shown, remote, at, behind, minimised, captured>>
    BY <2>1 DEF PressKey, ReleaseKey, window
  <2>4. Silent \/ Send(Key("keydown", k)) \/ Send(Key("keyup", k))
    BY <2>1 DEF PressKey, ReleaseKey, ForwardKey, Forward, NotForwarded, Silent
  <2> QED
    BY <1>1, <2>2, <2>3, <2>4 DEF InputTypeOK
<1>5. CASE TurnWheel
  BY <1>1, <1>5, EventTypes
     DEF TurnWheel, Forward, NotForwarded, Silent, InputTypeOK, window, user
<1>6. CASE LoseFocus \/ GetFocus \/ Minimise
  BY <1>1, <1>6
     DEF LoseFocus, GetFocus, Minimise, Silent, InputTypeOK, user, sending
<1>7. CASE Restore
  BY <1>1, <1>7, EventTypes
     DEF Restore, ForwardMove, Forward, NotForwarded, Silent, InputTypeOK, user
<1> QED
  BY <1>2, <1>3, <1>4, <1>5, <1>6, <1>7 DEF User

LEMMA InputTypeStep == InputTypeOK /\ [InputNext]_inputVars => InputTypeOK'
<1> SUFFICES ASSUME InputTypeOK, [InputNext]_inputVars PROVE InputTypeOK'
  OBVIOUS
<1>1. CASE User
  <2>1. /\ session # "ended" /\ UNCHANGED <<session, remote>>
        /\ Silent \/ \E e \in Event : Send(e)
        /\ at' \in Int /\ behind' \in BOOLEAN /\ (minimised' => ~captured')
    BY <1>1, UserSends
  <2> QED
    BY <2>1, ForwardTypes DEF InputTypeOK, remote
<1>2. CASE TransportOpens \/ FirstFrame
  <2>1. /\ UNCHANGED <<at, minimised, captured, behind, wire, faults, thread, pointer, garbage>>
        /\ session' = "open"
    BY <1>2 DEF TransportOpens, FirstFrame, user, window, sending, remote
  <2> QED
    BY <2>1 DEF InputTypeOK
<1>7. CASE LinkEnds
  <2>1. /\ UNCHANGED <<faults, thread, pointer, garbage>>
        /\ session' = "ended" /\ wire' = <<>> /\ at' = 0
        /\ captured' = FALSE /\ behind' = TRUE
    BY <1>7 DEF LinkEnds, remote
  <2> QED
    BY <2>1 DEF InputTypeOK
<1>3. CASE ReadHeader
  <2>1. CASE thread' = "done"
    <3>1. wire' = <<>>
      BY <1>3, <2>1 DEF ReadHeader
    <3> QED
      BY <1>3, <2>1, <3>1 DEF ReadHeader, InputTypeOK, user, window
  <2>2. CASE thread' # "done"
    <3>1. /\ thread' = "payload" /\ wire' \in Seq(Piece)
          /\ Len(wire) >= 3
          /\ UNCHANGED <<session, user, window, behind, faults, pointer, garbage>>
      BY <1>3, <2>2, HeaderStep
    <3> QED
      BY <3>1 DEF InputTypeOK, user, window
  <2> QED
    BY <2>1, <2>2
<1>4. CASE ReadPayload
  <2>1. /\ thread' = "header" /\ wire' \in Seq(Piece) /\ Len(wire) >= 2
        /\ WholePayload => wire[1].event \in Event
        /\ UNCHANGED <<session, user, window, behind, faults>>
    BY <1>4, PayloadStep
  <2>2. garbage' \in Nat /\ pointer' \in Int
    <3>1. CASE WholePayload
      <4>1. wire[1].event.x \in 0..(FrameWidth - 1)
        BY <2>1, <3>1 DEF Event
      <4>2. Normalised(wire[1].event.x) \in Int
        BY <4>1, NormalisedIs
      <4> QED
        BY <1>4, <3>1, <4>2 DEF ReadPayload, Inject, InputTypeOK
    <3>2. CASE ~WholePayload
      BY <1>4, <3>2 DEF ReadPayload, InjectGarbage, InputTypeOK
    <3> QED
      BY <3>1, <3>2
  <2> QED
    BY <2>1, <2>2 DEF InputTypeOK, user, window
<1>5. CASE ReadFails
  BY <1>5 DEF ReadFails, InputTypeOK, user, window, sending
<1>6. CASE UNCHANGED inputVars
  BY <1>6 DEF inputVars, InputTypeOK, user, window, sending, remote
<1> QED
  BY <1>1, <1>2, <1>3, <1>4, <1>5, <1>6, <1>7 DEF InputNext, InputThread

-----------------------------------------------------------------------------
(* The buttons and keys held: the first invariant.                          *)

Ups(i) == {e \in Event : e.kind \in {"up", "keyup"} /\ e.which = i}
Downs(i) == {e \in Event : e.kind \in {"down", "keydown"} /\ e.which = i}

\* What the sender holds in the end does not include i, unless the user
\* presses it again.
Told(i) ==
  \/ i \notin held /\ NoneOf(wire, Downs(i), 1, Len(wire) + 1)
  \/ LastWord(wire, thread, Len(wire) + 1, Ups(i), Downs(i))

\* The window will see i released.
KeptDown(i) ==
  i \in down /\ (i \in Keys => focused) /\ (i = "left" => captured)

Heard(i) == i \in excused \/ KeptDown(i) \/ Told(i)

ReleasesTold == Followed => \A i \in Keys \cup {"left"} : Heard(i)

LEMMA ToldKept ==
  ASSUME InputTypeOK, NEW i, UNCHANGED remote,
         Silent \/ \E e \in Event \ Downs(i) : Send(e),
         Told(i)
  PROVE  Told(i)'
<1>1. CASE Silent
  BY <1>1 DEF Silent, Told, remote
<1>2. CASE ~Silent
  <2>1. PICK e \in Event \ Downs(i) : Send(e)
    BY <1>2
  <2>2. PICK s : Says(s, e) /\ wire' = wire \o s
    BY <2>1, SendType
  <2>3. wire \in Seq(Piece) /\ s \in Seq(Piece)
    BY <2>2 DEF InputTypeOK, Says
  <2>4. /\ Len(wire') = Len(wire) + Len(s) /\ Len(s) \in Nat
        /\ \A k \in 1..Len(wire) : wire'[k] = wire[k]
        /\ \A k \in 1..Len(s) : wire'[Len(wire) + k] = s[k]
    BY <2>2, <2>3, JoinParts
  <2> DEFINE n == Len(wire) + 1  end == Len(wire') + 1
  <2>5. n \in Nat /\ end \in Nat /\ n <= end /\ \A k \in 1..(n - 1) : wire'[k] = wire[k]
    BY <2>3, <2>4
  <2>6. NoneOf(wire', Downs(i), n, end)
    <3> SUFFICES ASSUME NEW k \in n..(end - 1), wire'[k].part = "first"
                 PROVE  wire'[k].event \notin Downs(i)
      BY DEF NoneOf
    <3> DEFINE j == k - Len(wire)
    <3>1. j \in 1..Len(s) /\ k = Len(wire) + j
      BY <2>3, <2>4
    <3> HIDE DEF j
    <3>2. wire'[k] = s[j] /\ j \in DOMAIN s
      BY <2>3, <2>4, <3>1
    <3> QED
      BY <2>1, <2>2, <3>2 DEF Says
  <2> HIDE DEF n, end
  <2>7. /\ NoneOf(wire, Downs(i), 1, n) => NoneOf(wire', Downs(i), 1, end)
        /\ LastWord(wire, thread, n, Ups(i), Downs(i))
             => LastWord(wire', thread, end, Ups(i), Downs(i))
    BY <2>5, <2>6, Appended
  <2> QED
    BY <2>7 DEF Told, remote, n, end
<1> QED
  BY <1>1, <1>2

LEMMA SentIsLast ==
  ASSUME NEW w \in Seq(Piece), NEW e \in Event, NEW good, NEW bad, e \in good,
         NEW reads
  PROVE  LET r == w \o Pieces(e)
         IN  LastWord(r, reads, Len(r) + 1, good, bad)
<1> DEFINE s == Pieces(e)  r == w \o s  j == Len(w) + 1  end == Len(r) + 1
<1>9. s \in Seq(Piece)
  BY PiecesSay DEF Says
<1>1. /\ s \in Seq(Piece) /\ Len(s) = 5
      /\ s[1] = Magic /\ s[2] = Ignored /\ s[3] = Size
      /\ s[4] = FirstHalf(e) /\ s[5] = LastHalf(e)
  BY <1>9, PiecesAre
<1> HIDE DEF s
<1>2. /\ Len(r) = Len(w) + Len(s)
      /\ \A k \in 1..Len(s) : r[Len(w) + k] = s[k]
  BY <1>9, JoinParts
<1> HIDE DEF r
<1>3. /\ r[j] = s[1] /\ r[j + 1] = s[2] /\ r[j + 2] = s[3]
      /\ r[j + 3] = s[4] /\ r[j + 3 + 1] = s[5]
  <2>1. /\ r[Len(w) + 1] = s[1] /\ r[Len(w) + 2] = s[2] /\ r[Len(w) + 3] = s[3]
        /\ r[Len(w) + 4] = s[4] /\ r[Len(w) + 5] = s[5]
    BY <1>1, <1>2
  <2>2. /\ j = Len(w) + 1 /\ j + 1 = Len(w) + 2 /\ j + 2 = Len(w) + 3
        /\ j + 3 = Len(w) + 4 /\ j + 3 + 1 = Len(w) + 5
    OBVIOUS
  <2> QED
    BY <2>1, <2>2
<1>4. j \in Nat /\ j >= 1 /\ end = j + 5
  BY <1>1, <1>2
<1> HIDE DEF j, end
<1>5. HasMessage(r, j, e)
  BY <1>1, <1>3 DEF HasMessage, HasPayload, Magic, Ignored, Size, FirstHalf, LastHalf
<1>6. NoneOf(r, bad, j + 5, end)
  BY <1>4 DEF NoneOf
<1>7. j \in 1..(end - 5)
  BY <1>4
<1>8. LastWord(r, reads, end, good, bad)
  BY <1>5, <1>6, <1>7 DEF LastWord
<1> QED
  BY <1>8 DEF r, s, end

LEMMA ToldNow ==
  ASSUME InputTypeOK, NEW i, NEW e \in Ups(i), Sent(e)
  PROVE  Told(i)'
<1>1. wire \in Seq(Piece) /\ e \in Event /\ wire' = wire \o Pieces(e)
  BY DEF InputTypeOK, Ups, Sent
<1>2. LastWord(wire', thread', Len(wire') + 1, Ups(i), Downs(i))
  BY <1>1, SentIsLast
<1> QED
  BY <1>2 DEF Told

\* A step that takes nothing back and sends nothing bad.
LEMMA HeardKept ==
  ASSUME InputTypeOK, NEW i, UNCHANGED remote,
         Silent \/ \E e \in Event \ Downs(i) : Send(e),
         i \in excused => i \in excused',
         KeptDown(i) => i \in excused' \/ KeptDown(i)',
         Heard(i)
  PROVE  Heard(i)'
<1>1. Told(i) => Told(i)'
  BY ToldKept
<1> QED
  BY <1>1 DEF Heard

LEMMA NotDown ==
  ASSUME NEW i, InputTypeOK
  PROVE  /\ \A x \in Int : Move(x) \in Event \ Downs(i)
         /\ Wheel \in Event \ Downs(i)
         /\ \A k \in Keys : /\ Key("keyup", k) \in Event \ Downs(i)
                            /\ k # i => Key("keydown", k) \in Event \ Downs(i)
                            /\ Key("keyup", k) \in Ups(k)
         /\ \A b \in Buttons : /\ Button("up", b) \in Event \ Downs(i)
                               /\ b # i => Button("down", b) \in Event \ Downs(i)
                               /\ Button("up", b) \in Ups(b)
<1>1. /\ \A x \in Int : Move(x) \in Event /\ Move(x).kind = "move"
      /\ Wheel \in Event /\ Wheel.kind = "wheel"
  BY EventTypes DEF Move, Wheel, Nothing
<1>2. \A k \in Keys :
        /\ Key("keyup", k) \in Event /\ Key("keydown", k) \in Event
        /\ Key("keyup", k).kind = "keyup" /\ Key("keyup", k).which = k
        /\ Key("keydown", k).kind = "keydown" /\ Key("keydown", k).which = k
  BY EventTypes DEF Key, Nothing
<1>3. \A b \in Buttons :
        /\ Button("up", b) \in Event /\ Button("down", b) \in Event
        /\ Button("up", b).kind = "up" /\ Button("up", b).which = b
        /\ Button("down", b).kind = "down" /\ Button("down", b).which = b
  BY EventTypes DEF Button
<1> QED
  BY <1>1, <1>2, <1>3 DEF Downs, Ups

LEMMA ButtonHeard ==
  ASSUME InputTypeOK, NEW b \in Buttons, PressButton(b) \/ ReleaseButton(b),
         NEW i \in Keys \cup {"left"}, Heard(i)
  PROVE  Heard(i)'
<1>1. UNCHANGED remote /\ "left" \in Buttons /\ (i = b => i = "left")
  BY InputAssumption DEF PressButton, ReleaseButton
<1>2. /\ Button("up", b) \in Event \ Downs(i) /\ Button("up", b) \in Ups(b)
      /\ b # i => Button("down", b) \in Event \ Downs(i)
  BY NotDown
<1>3. CASE PressButton(b) /\ Seen
  <2>1. /\ down' = down \cup {b} /\ focused' = TRUE
        /\ captured' = (captured \/ Captures(b)) /\ ForwardButton("down", b)
    BY <1>3 DEF PressButton
  <2>2. CASE i = b
    <3>1. KeptDown(i)'
      BY <1>1, <2>1, <2>2, InputAssumption DEF KeptDown, Captures
    <3> QED
      BY <3>1 DEF Heard
  <2>3. CASE i # b
    <3>1. Silent \/ \E e \in Event \ Downs(i) : Send(e)
      BY <1>2, <2>1, <2>3 DEF ForwardButton, Forward, NotForwarded, Silent
    <3>2. i \in excused => i \in excused'
      BY <2>1, <2>3 DEF ForwardButton
    <3>3. KeptDown(i) => KeptDown(i)'
      BY <2>1 DEF KeptDown
    <3> QED
      BY <1>1, <3>1, <3>2, <3>3, HeardKept
  <2> QED
    BY <2>2, <2>3
<1>4. CASE PressButton(b) /\ ~Seen
  <2>1. Silent /\ down' = down \cup {b} /\ UNCHANGED <<captured, focused, excused>>
    BY <1>4 DEF PressButton, NotForwarded, Silent
  <2>2. KeptDown(i) => KeptDown(i)'
    BY <2>1 DEF KeptDown
  <2> QED
    BY <1>1, <2>1, <2>2, HeardKept
<1>5. CASE ReleaseButton(b) /\ Seen
  <2>1. /\ down' = down \ {b} /\ focused' = focused
        /\ captured' = (captured /\ ~Captures(b)) /\ ForwardButton("up", b)
    BY <1>5 DEF ReleaseButton
  <2>2. CASE i = b
    <3>1. CASE MouseUsable /\ Sent(Button("up", b))
      <4>1. Told(i)'
        BY <1>2, <2>2, <3>1, ToldNow
      <4> QED
        BY <4>1 DEF Heard
    <3>2. CASE ~(MouseUsable /\ Sent(Button("up", b)))
      <4>1. i \in excused'
        BY <2>1, <2>2, <3>2 DEF ForwardButton
      <4> QED
        BY <4>1 DEF Heard
    <3> QED
      BY <3>1, <3>2
  <2>3. CASE i # b
    <3>1. Silent \/ \E e \in Event \ Downs(i) : Send(e)
      BY <1>2, <2>1 DEF ForwardButton, Forward, NotForwarded, Silent
    <3>2. i \in excused => i \in excused'
      BY <2>1, <2>3 DEF ForwardButton
    <3>3. KeptDown(i) => KeptDown(i)'
      BY <2>1, <2>3 DEF KeptDown, Captures
    <3> QED
      BY <1>1, <3>1, <3>2, <3>3, HeardKept
  <2> QED
    BY <2>2, <2>3
<1>6. CASE ReleaseButton(b) /\ ~Seen
  <2>1. Silent /\ down' = down \ {b} /\ UNCHANGED <<captured, focused, excused>>
    BY <1>6 DEF ReleaseButton, NotForwarded, Silent
  <2>2. KeptDown(i) => KeptDown(i)'
    BY <1>1, <1>6, <2>1 DEF KeptDown, Seen
  <2> QED
    BY <1>1, <2>1, <2>2, HeardKept
<1> QED
  BY <1>3, <1>4, <1>5, <1>6

LEMMA KeyHeard ==
  ASSUME InputTypeOK, NEW k \in Keys, PressKey(k) \/ ReleaseKey(k),
         NEW i \in Keys \cup {"left"}, Heard(i)
  PROVE  Heard(i)'
<1>1. /\ UNCHANGED remote /\ k # "left"
      /\ UNCHANGED <<focused, captured>>
  BY InputAssumption DEF PressKey, ReleaseKey, window
<1>2. /\ Key("keyup", k) \in Event \ Downs(i) /\ Key("keyup", k) \in Ups(k)
      /\ k # i => Key("keydown", k) \in Event \ Downs(i)
  BY NotDown
<1>3. CASE PressKey(k)
  <2>1. down' = down \cup {k}
    BY <1>3 DEF PressKey
  <2>2. KeptDown(i) => KeptDown(i)'
    BY <1>1, <2>1 DEF KeptDown
  <2>3. CASE focused /\ i = k
    <3>1. KeptDown(i)'
      BY <1>1, <2>1, <2>3 DEF KeptDown
    <3> QED
      BY <3>1 DEF Heard
  <2>4. CASE focused /\ i # k
    <3>1. ForwardKey("keydown", k)
      BY <1>3, <2>4 DEF PressKey
    <3>2. \E e \in Event \ Downs(i) : Send(e)
      BY <1>2, <2>4, <3>1 DEF ForwardKey, Forward
    <3>3. i \in excused => i \in excused'
      BY <2>4, <3>1 DEF ForwardKey
    <3> QED
      BY <1>1, <2>2, <3>2, <3>3, HeardKept
  <2>5. CASE ~focused
    <3>1. Silent /\ UNCHANGED excused
      BY <1>3, <2>5 DEF PressKey, NotForwarded, Silent
    <3> QED
      BY <1>1, <2>2, <3>1, HeardKept
  <2> QED
    BY <2>3, <2>4, <2>5
<1>4. CASE ReleaseKey(k)
  <2>1. down' = down \ {k}
    BY <1>4 DEF ReleaseKey
  <2>2. CASE focused
    <3>1. ForwardKey("keyup", k)
      BY <1>4, <2>2 DEF ReleaseKey
    <3>2. CASE i = k /\ Sent(Key("keyup", k))
      <4>1. Told(i)'
        BY <1>2, <3>2, ToldNow
      <4> QED
        BY <4>1 DEF Heard
    <3>3. CASE i = k /\ ~Sent(Key("keyup", k))
      <4>1. i \in excused'
        BY <3>1, <3>3 DEF ForwardKey
      <4> QED
        BY <4>1 DEF Heard
    <3>4. CASE i # k
      <4>1. \E e \in Event \ Downs(i) : Send(e)
        BY <1>2, <3>1 DEF ForwardKey, Forward
      <4>2. i \in excused => i \in excused'
        BY <3>1, <3>4 DEF ForwardKey
      <4>3. KeptDown(i) => KeptDown(i)'
        BY <1>1, <2>1, <3>4 DEF KeptDown
      <4> QED
        BY <1>1, <4>1, <4>2, <4>3, HeardKept
    <3> QED
      BY <3>2, <3>3, <3>4
  <2>3. CASE ~focused
    <3>1. Silent /\ UNCHANGED excused
      BY <1>4, <2>3 DEF ReleaseKey, NotForwarded, Silent
    <3>2. KeptDown(i) => KeptDown(i)'
      BY <1>1, <2>1, <2>3 DEF KeptDown
    <3> QED
      BY <1>1, <3>1, <3>2, HeardKept
  <2> QED
    BY <2>2, <2>3
<1> QED
  BY <1>3, <1>4

LEMMA UserHeard ==
  ASSUME InputTypeOK, User, NEW i \in Keys \cup {"left"}, Heard(i)
  PROVE  Heard(i)'
<1>1. UNCHANGED remote
  BY UserSends
<1>2. \A x \in Int : Move(x) \in Event \ Downs(i)
  BY NotDown
<1>3. ASSUME NEW x \in Positions, MovePointer(x) PROVE Heard(i)'
  <2>1. Move(x) \in Event \ Downs(i)
    BY <1>2, InputAssumption
  <2>2. Silent \/ \E e \in Event \ Downs(i) : Send(e)
    BY <1>3, <2>1 DEF MovePointer, ForwardMove, Forward, NotForwarded, Silent
  <2>3. UNCHANGED <<down, focused, captured, excused>>
    BY <1>3 DEF MovePointer
  <2>4. KeptDown(i) => KeptDown(i)'
    BY <2>3 DEF KeptDown
  <2> QED
    BY <1>1, <2>2, <2>3, <2>4, HeardKept
<1>4. CASE TurnWheel
  <2>1. Wheel \in Event \ Downs(i)
    BY NotDown
  <2>2. Silent \/ \E e \in Event \ Downs(i) : Send(e)
    BY <1>4, <2>1 DEF TurnWheel, Forward, NotForwarded, Silent
  <2>3. UNCHANGED <<down, focused, captured, excused>>
    BY <1>4 DEF TurnWheel, user, window
  <2>4. KeptDown(i) => KeptDown(i)'
    BY <2>3 DEF KeptDown
  <2> QED
    BY <1>1, <2>2, <2>3, <2>4, HeardKept
<1>5. CASE LoseFocus \/ Minimise
  <2>1. Silent /\ excused' = excused \cup down
    BY <1>5 DEF LoseFocus, Minimise, Silent
  <2>2. i \in excused \/ KeptDown(i) => i \in excused'
    BY <2>1 DEF KeptDown
  <2> QED
    BY <1>1, <2>1, <2>2, HeardKept
<1>6. CASE GetFocus
  <2>1. Silent /\ focused' = TRUE /\ UNCHANGED <<down, captured, excused>>
    BY <1>6 DEF GetFocus, Silent, user, sending
  <2>2. KeptDown(i) => KeptDown(i)'
    BY <2>1 DEF KeptDown
  <2> QED
    BY <1>1, <2>1, <2>2, HeardKept
<1>7. CASE Restore
  <2>1. Move(at) \in Event \ Downs(i)
    BY <1>2 DEF InputTypeOK
  <2>2. Silent \/ \E e \in Event \ Downs(i) : Send(e)
    BY <1>7, <2>1 DEF Restore, ForwardMove, Forward, NotForwarded, Silent
  <2>3. focused' = TRUE /\ UNCHANGED <<down, captured, excused>>
    BY <1>7 DEF Restore, user
  <2>4. KeptDown(i) => KeptDown(i)'
    BY <2>3 DEF KeptDown
  <2> QED
    BY <1>1, <2>2, <2>3, <2>4, HeardKept
<1> QED
  BY <1>3, <1>4, <1>5, <1>6, <1>7, ButtonHeard, KeyHeard DEF User

LEMMA HeaderHeard ==
  ASSUME InputTypeOK, ReadHeader, thread' # "done", NEW i, Heard(i)
  PROVE  Heard(i)'
<1> DEFINE end == Len(wire) + 1
<1>1. /\ thread = "header" /\ thread' = "payload"
      /\ wire[1].part = "magic" /\ wire[3].part = "size"
      /\ UNCHANGED <<down, focused, captured, excused, held>>
  BY HeaderStep DEF user, window
<1>2. /\ end \in Nat /\ end >= 4 /\ Len(wire') + 1 = end - 3
      /\ \A k \in 1..(end - 4) : wire'[k] = wire[k + 3]
  <2>1. /\ Len(wire) >= 3 /\ Len(wire') = Len(wire) - 3 /\ Len(wire) \in Nat
        /\ \A k \in 1..(Len(wire) - 3) : wire'[k] = wire[k + 3]
    BY HeaderStep DEF InputTypeOK
  <2> QED
    BY <2>1
<1> HIDE DEF end
<1>3. /\ NoneOf(wire, Downs(i), 1, end) => NoneOf(wire', Downs(i), 1, end - 3)
      /\ LastWord(wire, "header", end, Ups(i), Downs(i))
           => LastWord(wire', "payload", end - 3, Ups(i), Downs(i))
  BY <1>1, <1>2, HeaderRead
<1>4. Told(i) => Told(i)'
  BY <1>1, <1>2, <1>3 DEF Told, end
<1>5. KeptDown(i) => KeptDown(i)'
  BY <1>1 DEF KeptDown
<1> QED
  BY <1>1, <1>4, <1>5 DEF Heard

LEMMA PayloadHeard ==
  ASSUME InputTypeOK, ReadPayload, WholePayload, NEW i, Heard(i)
  PROVE  Heard(i)'
<1> DEFINE end == Len(wire) + 1  e == wire[1].event
<1>1. /\ thread = "payload" /\ thread' = "header"
      /\ e \in Event /\ HasPayload(wire, 1, e)
      /\ UNCHANGED <<down, focused, captured, excused>>
  BY PayloadStep DEF user, window
<1>2. /\ end \in Nat /\ end >= 3 /\ Len(wire') + 1 = end - 2
      /\ \A k \in 1..(end - 3) : wire'[k] = wire[k + 2]
  <2>1. /\ Len(wire) >= 2 /\ Len(wire') = Len(wire) - 2 /\ Len(wire) \in Nat
        /\ \A k \in 1..(Len(wire) - 2) : wire'[k] = wire[k + 2]
    BY PayloadStep DEF InputTypeOK
  <2> QED
    BY <2>1
<1>3. held' = (held \ LetGo(e)) \cup PutDown(e)
  BY DEF ReadPayload, Inject
<1> HIDE DEF end, e
<1>4. /\ NoneOf(wire, Downs(i), 1, end)
           => e \notin Downs(i) /\ NoneOf(wire', Downs(i), 1, end - 2)
      /\ LastWord(wire, "payload", end, Ups(i), Downs(i)) =>
           \/ LastWord(wire', "header", end - 2, Ups(i), Downs(i))
           \/ e \in Ups(i) /\ NoneOf(wire', Downs(i), 1, end - 2)
  BY <1>1, <1>2, PayloadRead
<1>5. /\ e \notin Downs(i) /\ i \notin held => i \notin held'
      /\ e \in Ups(i) => i \notin held'
  BY <1>1, <1>3 DEF Downs, Ups, LetGo, PutDown
<1>6. Told(i) => Told(i)'
  BY <1>1, <1>2, <1>4, <1>5 DEF Told, end
<1>7. KeptDown(i) => KeptDown(i)'
  BY <1>1 DEF KeptDown
<1> QED
  BY <1>1, <1>6, <1>7 DEF Heard

LEMMA ReleasesToldInit == InputInit => ReleasesTold
<1> SUFFICES ASSUME InputInit, NEW i PROVE Told(i)
  BY DEF ReleasesTold, Heard
<1>1. wire = <<>> /\ i \notin held
  BY DEF InputInit
<1>2. NoneOf(wire, Downs(i), 1, Len(wire) + 1)
  BY <1>1 DEF NoneOf
<1> QED
  BY <1>1, <1>2 DEF Told

LEMMA ReleasesToldStep ==
  InputTypeOK /\ ReleasesTold /\ [InputNext]_inputVars => ReleasesTold'
<1> SUFFICES ASSUME InputTypeOK, ReleasesTold, [InputNext]_inputVars, Followed',
                    NEW i \in Keys \cup {"left"}
             PROVE  Heard(i)'
  BY DEF ReleasesTold
<1>1. CASE User
  <2>1. Followed
    BY <1>1, UserSends DEF Followed, remote
  <2> QED
    BY <1>1, <2>1, UserHeard DEF ReleasesTold
<1>2. CASE TransportOpens \/ FirstFrame \/ UNCHANGED inputVars
  <2>1. /\ UNCHANGED <<down, focused, captured, excused, wire, thread, held, garbage>>
        /\ session' # "ended" => session # "ended"
    BY <1>2 DEF TransportOpens, FirstFrame, inputVars, user, window, sending, remote
  <2>2. Heard(i)
    BY <2>1 DEF Followed, ReleasesTold
  <2> QED
    BY <2>1, <2>2 DEF Heard, KeptDown, Told
<1>3. CASE LinkEnds \/ ReadFails
  BY <1>3 DEF LinkEnds, ReadFails, Followed
<1>4. CASE ReadHeader
  <2>1. thread' # "done" /\ Followed
    BY <1>4 DEF Followed, ReadHeader
  <2> QED
    BY <1>4, <2>1, HeaderHeard DEF ReleasesTold
<1>5. CASE ReadPayload
  <2>1. WholePayload /\ Followed
    <3>1. garbage' = 0 /\ session' # "ended" /\ garbage \in Nat
      BY DEF Followed, InputTypeOK
    <3> QED
      BY <1>5, <3>1 DEF Followed, ReadPayload
  <2> QED
    BY <1>5, <2>1, PayloadHeard DEF ReleasesTold
<1> QED
  BY <1>1, <1>2, <1>3, <1>4, <1>5 DEF InputNext, InputThread

\* Nothing under way, so nothing more is said: what was said is done.
LEMMA AllTold ==
  ASSUME InputTypeOK, ReleasesTold
  PROVE  ReleasedEverywhere
<1> SUFFICES ASSUME session = "open", wire = <<>>, thread = "header", garbage = 0,
                    NEW i \in held \cap (Keys \cup {"left"})
             PROVE  i \in down \cup excused
  BY DEF ReleasedEverywhere
<1>1. Heard(i)
  BY DEF ReleasesTold, Followed
<1>2. ~Told(i)
  <2> SUFFICES ASSUME LastWord(wire, thread, Len(wire) + 1, Ups(i), Downs(i))
               PROVE  FALSE
    BY DEF Told
  <2> QED
    BY DEF LastWord
<1> QED
  BY <1>1, <1>2 DEF Heard, KeptDown

(***************************************************************************)
(* Once everything sent has arrived the sender holds no left button and no *)
(* key that the user released in view of the window.                       *)
(***************************************************************************)
THEOREM ReleasesReachTheSender == InputSpec => []ReleasedEverywhere
<1>1. InputInit => InputTypeOK /\ ReleasesTold
  BY InputTypeInit, ReleasesToldInit
<1>2. (InputTypeOK /\ ReleasesTold) /\ [InputNext]_inputVars
        => (InputTypeOK /\ ReleasesTold)'
  BY InputTypeStep, ReleasesToldStep
<1>3. InputTypeOK /\ ReleasesTold => ReleasedEverywhere
  BY AllTold
<1> QED
  BY <1>1, <1>2, <1>3, PTL DEF InputSpec

-----------------------------------------------------------------------------
(* Where the clicks land: the second invariant.                             *)

MovesTo(x) == {e \in Event : e.kind = "move" /\ e.x = x}
MovesElsewhere(x) == {e \in Event : e.kind = "move" /\ e.x # x}

\* The pointer is at x when the input thread comes to the piece at end.
PointsTo(end, x) ==
  \/ pointer = Normalised(x) /\ NoneOf(wire, MovesElsewhere(x), 1, end)
  \/ LastWord(wire, thread, end, MovesTo(x), MovesElsewhere(x))

\* A button that goes down or up where the last move that was sent had led.
Clicks(e) == e.kind \in {"down", "up"} /\ e.sure

ClicksTold ==
  Followed =>
    /\ ~behind /\ Seen => PointsTo(Len(wire) + 1, RemoteX(at))
    /\ \A k \in DOMAIN wire :
         wire[k].part = "first" /\ Clicks(wire[k].event)
           => PointsTo(k, wire[k].event.x)

LEMMA PointsKept ==
  ASSUME InputTypeOK, UNCHANGED remote, NEW s, NEW e, Says(s, e), wire' = wire \o s,
         NEW x, NEW n \in 1..(Len(wire) + 1), PointsTo(n, x)
  PROVE  /\ PointsTo(n, x)'
         /\ n = Len(wire) + 1 /\ e \notin MovesElsewhere(x)
              => \A end \in n..(Len(wire') + 1) : PointsTo(end, x)'
<1> DEFINE bad == MovesElsewhere(x)
<1>1. /\ wire \in Seq(Piece) /\ s \in Seq(Piece)
      /\ \A k \in DOMAIN s : s[k].part = "first" => s[k].event = e
  BY DEF InputTypeOK, Says
<1>2. /\ Len(wire') = Len(wire) + Len(s) /\ Len(s) \in Nat /\ Len(wire) \in Nat
      /\ \A k \in 1..Len(wire) : wire'[k] = wire[k]
      /\ \A k \in 1..Len(s) : wire'[Len(wire) + k] = s[k]
  BY <1>1, JoinParts
<1>3. n \in Nat /\ \A k \in 1..(n - 1) : wire'[k] = wire[k]
  BY <1>2
<1>4. ASSUME NEW end \in Nat, n <= end, NoneOf(wire', bad, n, end)
      PROVE  PointsTo(end, x)'
  <2>1. /\ NoneOf(wire, bad, 1, n) => NoneOf(wire', bad, 1, end)
        /\ LastWord(wire, thread, n, MovesTo(x), bad)
             => LastWord(wire', thread, end, MovesTo(x), bad)
    BY <1>3, <1>4, Appended
  <2> QED
    BY <2>1 DEF PointsTo, remote
<1>5. NoneOf(wire', bad, n, n)
  BY <1>3 DEF NoneOf
<1>6. ASSUME n = Len(wire) + 1, e \notin bad, NEW end \in n..(Len(wire') + 1)
      PROVE  NoneOf(wire', bad, n, end) /\ end \in Nat /\ n <= end
  <2> SUFFICES ASSUME NEW k \in n..(end - 1), wire'[k].part = "first"
               PROVE  wire'[k].event \notin bad
    BY <1>2, <1>6 DEF NoneOf
  <2> DEFINE j == k - Len(wire)
  <2>1. j \in 1..Len(s) /\ k = Len(wire) + j
    BY <1>2, <1>6
  <2> HIDE DEF j
  <2>2. wire'[k] = s[j] /\ j \in DOMAIN s
    BY <1>1, <1>2, <2>1
  <2> QED
    BY <1>1, <1>6, <2>2
<1> HIDE DEF bad
<1>7. PointsTo(n, x)'
  BY <1>3, <1>4, <1>5
<1>8. ASSUME n = Len(wire) + 1, e \notin bad
      PROVE  \A end \in n..(Len(wire') + 1) : PointsTo(end, x)'
  BY <1>4, <1>6, <1>8
<1> QED
  BY <1>7, <1>8 DEF bad

\* What was said of the pieces on the wire stays true; those appended are of e.
LEMMA OlderClicks ==
  ASSUME InputTypeOK, ClicksTold, Followed, UNCHANGED remote,
         NEW s, NEW e, Says(s, e), wire' = wire \o s,
         NEW k \in DOMAIN wire', wire'[k].part = "first", Clicks(wire'[k].event)
  PROVE  \/ \A x : x = wire'[k].event.x => PointsTo(k, x)'
         \/ k \in (Len(wire) + 1)..(Len(wire') + 1) /\ wire'[k].event = e
<1>1. /\ wire \in Seq(Piece) /\ s \in Seq(Piece)
      /\ \A j \in DOMAIN s : s[j].part = "first" => s[j].event = e
  BY DEF InputTypeOK, Says
<1>2. /\ Len(wire') = Len(wire) + Len(s) /\ Len(s) \in Nat /\ Len(wire) \in Nat
      /\ \A j \in 1..Len(wire) : wire'[j] = wire[j]
      /\ \A j \in 1..Len(s) : wire'[Len(wire) + j] = s[j]
  BY <1>1, JoinParts
<1>3. wire' \in Seq(Piece) /\ k \in 1..Len(wire')
  BY <1>1
<1>4. CASE k <= Len(wire)
  <2>1. k \in DOMAIN wire /\ k \in 1..(Len(wire) + 1) /\ wire'[k] = wire[k]
    BY <1>1, <1>2, <1>3, <1>4
  <2>2. PointsTo(k, wire[k].event.x)
    BY <2>1 DEF ClicksTold
  <2> SUFFICES ASSUME NEW x, x = wire'[k].event.x PROVE PointsTo(k, x)'
    OBVIOUS
  <2>3. PointsTo(k, x)
    BY <2>1, <2>2
  <2> QED
    BY <2>1, <2>3, PointsKept
<1>5. CASE k > Len(wire)
  <2> DEFINE j == k - Len(wire)
  <2>1. j \in 1..Len(s) /\ k = Len(wire) + j
    BY <1>2, <1>3, <1>5
  <2> HIDE DEF j
  <2>2. wire'[k] = s[j] /\ j \in DOMAIN s
    BY <1>1, <1>2, <2>1
  <2> QED
    BY <1>1, <1>2, <1>3, <1>5, <2>2
<1> QED
  BY <1>2, <1>3, <1>4, <1>5

LEMMA ClicksAre ==
  ASSUME \A x : ~behind' /\ Seen' /\ x = RemoteX(at)'
                  => \A end : end = Len(wire') + 1 => PointsTo(end, x)',
         \A k \in DOMAIN wire' :
           wire'[k].part = "first" /\ Clicks(wire'[k].event)
             => \A x : x = wire'[k].event.x => PointsTo(k, x)'
  PROVE  ClicksTold'
<1>1. ~behind' /\ Seen' => PointsTo(Len(wire) + 1, RemoteX(at))'
  BY DEF PointsTo
<1>2. \A k \in DOMAIN wire' :
        wire'[k].part = "first" /\ Clicks(wire'[k].event)
          => PointsTo(k, wire[k].event.x)'
  BY DEF PointsTo
<1> QED
  BY <1>1, <1>2 DEF ClicksTold

\* A step without a move, at most a click where the pointer already is.
LEMMA ClicksKept ==
  ASSUME InputTypeOK, ClicksTold, Followed, UNCHANGED <<remote, at>>,
         ~behind' /\ Seen' => ~behind /\ Seen,
         NEW s, NEW e, Says(s, e), wire' = wire \o s,
         e.kind # "move",
         Clicks(e) => ~behind /\ Seen /\ e.x = RemoteX(at)
  PROVE  ClicksTold'
<1>1. /\ Len(wire) \in Nat /\ Len(wire') \in Nat /\ Len(wire) + 1 <= Len(wire') + 1
      /\ wire' \in Seq(Piece)
  <2>1. wire \in Seq(Piece) /\ s \in Seq(Piece)
    BY DEF InputTypeOK, Says
  <2> QED
    BY <2>1, JoinParts
<1>2. ASSUME ~behind, Seen, NEW x, x = RemoteX(at)
      PROVE  \A end \in (Len(wire) + 1)..(Len(wire') + 1) : PointsTo(end, x)'
  <2> DEFINE n == Len(wire) + 1
  <2>1. PointsTo(n, x) /\ n \in 1..(Len(wire) + 1) /\ n = Len(wire) + 1
    BY <1>1, <1>2 DEF ClicksTold
  <2>2. e \notin MovesElsewhere(x)
    BY DEF MovesElsewhere
  <2>3. \A end \in n..(Len(wire') + 1) : PointsTo(end, x)'
    BY <2>1, <2>2, PointsKept
  <2> QED
    BY <2>3
<1>3. ASSUME NEW x, ~behind', Seen', x = RemoteX(at)', NEW end, end = Len(wire') + 1
      PROVE  PointsTo(end, x)'
  <2>1. x = RemoteX(at) /\ ~behind /\ Seen
    BY <1>3 DEF RemoteX, Clamped
  <2>2. end \in (Len(wire) + 1)..(Len(wire') + 1)
    BY <1>1, <1>3
  <2> QED
    BY <1>2, <2>1, <2>2
<1>4. ASSUME NEW k \in DOMAIN wire', wire'[k].part = "first", Clicks(wire'[k].event),
             NEW x, x = wire'[k].event.x
      PROVE  PointsTo(k, x)'
  <2>1. CASE k \in (Len(wire) + 1)..(Len(wire') + 1) /\ wire'[k].event = e
    BY <1>2, <1>4, <2>1
  <2> QED
    BY <1>4, <2>1, OlderClicks DEF remote
<1> QED
  BY <1>3, <1>4, ClicksAre

\* A step that moves, or leaves the sender behind.
LEMMA MoveTold ==
  ASSUME InputTypeOK, ClicksTold, Followed, UNCHANGED remote,
         NEW x \in Int, Silent \/ Send(Move(x)),
         ~behind' /\ Seen' => at' = x /\ Sent(Move(x))
  PROVE  ClicksTold'
<1> DEFINE e == Move(x)
<1>1. e \in Event /\ e.kind = "move" /\ e.x = RemoteX(x)
  BY EventTypes DEF Move, Nothing
<1> HIDE DEF e
<1>2. wire \in Seq(Piece)
  BY DEF InputTypeOK
<1>3. PICK s : Says(s, e) /\ wire' = wire \o s
  <2>1. CASE Silent
    <3>1. wire' = wire \o <<>> /\ Says(<<>>, e)
      BY <1>1, <1>2, <2>1, PiecesSay DEF Silent
    <3> QED
      BY <3>1
  <2>2. CASE Send(e)
    BY <1>1, <2>2, SendType
  <2> QED
    BY <2>1, <2>2 DEF e
<1>4. ASSUME NEW y, ~behind', Seen', y = RemoteX(at)', NEW end, end = Len(wire') + 1
      PROVE  PointsTo(end, y)'
  <2>1. y = RemoteX(x) /\ wire' = wire \o Pieces(e)
    BY <1>4 DEF RemoteX, Clamped, Sent, e
  <2>2. e \in MovesTo(y)
    BY <1>1, <2>1 DEF MovesTo
  <2>3. LastWord(wire', thread', end, MovesTo(y), MovesElsewhere(y))
    BY <1>1, <1>2, <1>4, <2>1, <2>2, SentIsLast
  <2> QED
    BY <2>3 DEF PointsTo
<1>5. ASSUME NEW k \in DOMAIN wire', wire'[k].part = "first", Clicks(wire'[k].event),
             NEW y, y = wire'[k].event.x
      PROVE  PointsTo(k, y)'
  <2>1. ~Clicks(e)
    BY <1>1 DEF Clicks
  <2> QED
    BY <1>3, <1>5, <2>1, OlderClicks
<1> QED
  BY <1>4, <1>5, ClicksAre

LEMMA ClicksKeptBy ==
  ASSUME InputTypeOK, ClicksTold, Followed, UNCHANGED <<remote, at>>,
         ~behind' /\ Seen' => ~behind /\ Seen,
         \/ Silent
         \/ \E e \in Event : /\ Send(e) /\ e.kind # "move"
                             /\ Clicks(e) => ~behind /\ Seen /\ e.x = RemoteX(at)
  PROVE  ClicksTold'
<1>1. CASE Silent
  <2>1. /\ Wheel \in Event /\ Wheel.kind # "move" /\ ~Clicks(Wheel)
    BY EventTypes DEF Wheel, Nothing, Clicks
  <2>2. wire' = wire \o <<>> /\ Says(<<>>, Wheel)
    BY <1>1, <2>1, PiecesSay DEF Silent, InputTypeOK
  <2> DEFINE s == <<>>  e == Wheel
  <2>3. /\ e.kind # "move" /\ ~Clicks(e) /\ wire' = wire \o s /\ Says(s, e)
    BY <2>1, <2>2
  <2> HIDE DEF s, e
  <2> QED
    BY <2>3, ClicksKept
<1>2. CASE ~Silent
  <2>1. PICK e \in Event : /\ Send(e) /\ e.kind # "move"
                           /\ Clicks(e) => ~behind /\ Seen /\ e.x = RemoteX(at)
    BY <1>2
  <2>2. PICK s : Says(s, e) /\ wire' = wire \o s
    BY <2>1, SendType
  <2> QED
    BY <2>1, <2>2, ClicksKept
<1> QED
  BY <1>1, <1>2

LEMMA UserClicks ==
  ASSUME InputTypeOK, ClicksTold, Followed, User
  PROVE  ClicksTold'
<1>1. UNCHANGED remote /\ at \in Int /\ (minimised => ~captured)
  BY UserSends DEF InputTypeOK
<1>2. ASSUME NEW x \in Positions, MovePointer(x) PROVE ClicksTold'
  <2>1. x \in Int
    BY InputAssumption
  <2>2. Silent \/ Send(Move(x))
    BY <1>2 DEF MovePointer, ForwardMove, Forward, NotForwarded, Silent
  <2>3. ~behind' /\ Seen' => at' = x /\ Sent(Move(x))
    BY <1>2 DEF MovePointer, ForwardMove, Seen, Inside
  <2> QED
    BY <1>1, <2>1, <2>2, <2>3, MoveTold
<1>3. ASSUME NEW b \in Buttons, PressButton(b) \/ ReleaseButton(b) PROVE ClicksTold'
  <2>1. UNCHANGED <<at, behind, minimised>>
    BY <1>3 DEF PressButton, ReleaseButton
  <2>2. ~behind' /\ Seen' => ~behind /\ Seen
    <3>1. captured' => captured \/ Seen
      BY <1>3 DEF PressButton, ReleaseButton
    <3> QED
      BY <2>1, <3>1 DEF Seen, Inside
  <2>3. \/ Silent
        \/ Seen /\ (Send(Button("down", b)) \/ Send(Button("up", b)))
    BY <1>3 DEF PressButton, ReleaseButton, ForwardButton, Forward, NotForwarded, Silent
  <2>4. ASSUME NEW kind \in {"down", "up"}
        PROVE  /\ Button(kind, b) \in Event /\ Button(kind, b).kind # "move"
               /\ Button(kind, b).sure = ~behind /\ Button(kind, b).x = RemoteX(at)
    BY EventTypes DEF Button
  <2>5. Seen => \A kind \in {"down", "up"} :
                  Clicks(Button(kind, b))
                     => ~behind /\ Seen /\ Button(kind, b).x = RemoteX(at)
    BY <2>4 DEF Clicks
  <2> QED
    BY <1>1, <2>1, <2>2, <2>3, <2>4, <2>5, ClicksKeptBy
<1>4. ASSUME NEW k \in Keys, PressKey(k) \/ ReleaseKey(k) PROVE ClicksTold'
  <2>1. UNCHANGED <<at, behind, minimised, captured>>
    BY <1>4 DEF PressKey, ReleaseKey, window
  <2>2. Silent \/ Send(Key("keydown", k)) \/ Send(Key("keyup", k))
    BY <1>4 DEF PressKey, ReleaseKey, ForwardKey, Forward, NotForwarded, Silent
  <2>3. /\ Key("keydown", k) \in Event /\ Key("keyup", k) \in Event
        /\ Key("keydown", k).kind = "keydown" /\ Key("keyup", k).kind = "keyup"
    BY EventTypes DEF Key, Nothing
  <2>4. ~Clicks(Key("keydown", k)) /\ ~Clicks(Key("keyup", k))
    BY <2>3 DEF Clicks
  <2>5. Seen' => Seen
    BY <2>1 DEF Seen, Inside
  <2> QED
    BY <1>1, <2>1, <2>2, <2>3, <2>4, <2>5, ClicksKeptBy
<1>5. CASE TurnWheel
  <2>1. UNCHANGED <<at, behind, minimised, captured>>
    BY <1>5 DEF TurnWheel, user, window
  <2>2. Silent \/ Send(Wheel)
    BY <1>5 DEF TurnWheel, Forward, NotForwarded, Silent
  <2>3. Wheel \in Event /\ Wheel.kind = "wheel"
    BY EventTypes DEF Wheel, Nothing
  <2>4. ~Clicks(Wheel)
    BY <2>3 DEF Clicks
  <2>5. Seen' => Seen
    BY <2>1 DEF Seen, Inside
  <2> QED
    BY <1>1, <2>1, <2>2, <2>3, <2>4, <2>5, ClicksKeptBy
<1>6. CASE LoseFocus \/ Minimise \/ GetFocus
  <2>1. /\ UNCHANGED <<at, behind>> /\ Silent
        /\ captured' => captured
        /\ ~minimised' => ~minimised
    BY <1>6 DEF LoseFocus, Minimise, GetFocus, Silent, user, sending
  <2>2. Seen' => Seen
    BY <2>1 DEF Seen, Inside
  <2> QED
    BY <1>1, <2>1, <2>2, ClicksKeptBy
<1>7. CASE Restore
  <2>1. UNCHANGED at /\ captured' = captured /\ ~captured
    BY <1>1, <1>7 DEF Restore, user
  <2>2. Silent \/ Send(Move(at))
    BY <1>7 DEF Restore, ForwardMove, Forward, NotForwarded, Silent
  <2>3. ~behind' /\ Seen' => Sent(Move(at))
    <3>1. Seen' => Inside(at)
      BY <2>1 DEF Seen, Inside
    <3>2. Inside(at) => ForwardMove(at)
      BY <1>7 DEF Restore
    <3>3. ForwardMove(at) => behind' \/ Sent(Move(at))
      BY DEF ForwardMove
    <3> QED
      BY <3>1, <3>2, <3>3
  <2> QED
    BY <1>1, <2>1, <2>2, <2>3, MoveTold
<1> QED
  BY <1>2, <1>3, <1>4, <1>5, <1>6, <1>7 DEF User

LEMMA HeaderClicks ==
  ASSUME InputTypeOK, ClicksTold, Followed, ReadHeader, thread' # "done"
  PROVE  ClicksTold'
<1>1. /\ thread = "header" /\ thread' = "payload"
      /\ wire[1].part = "magic" /\ wire[3].part = "size"
      /\ wire \in Seq(Piece) /\ wire' \in Seq(Piece)
      /\ UNCHANGED <<at, minimised, captured, behind, pointer>>
  BY HeaderStep DEF user, window, InputTypeOK
<1>2. /\ Len(wire) \in Nat /\ Len(wire) >= 3 /\ Len(wire') = Len(wire) - 3
      /\ \A k \in 1..(Len(wire) - 3) : wire'[k] = wire[k + 3]
  BY HeaderStep DEF InputTypeOK
<1>3. ASSUME NEW end \in Nat, end >= 4, end <= Len(wire) + 1, NEW x, PointsTo(end, x)
      PROVE  \A n : n = end - 3 => PointsTo(n, x)'
  <2>1. \A k \in 1..(end - 4) : wire'[k] = wire[k + 3]
    BY <1>2, <1>3
  <2>2. /\ NoneOf(wire, MovesElsewhere(x), 1, end)
             => NoneOf(wire', MovesElsewhere(x), 1, end - 3)
        /\ LastWord(wire, "header", end, MovesTo(x), MovesElsewhere(x))
             => LastWord(wire', "payload", end - 3, MovesTo(x), MovesElsewhere(x))
    BY <1>1, <1>3, <2>1, HeaderRead
  <2> QED
    BY <1>1, <1>3, <2>2 DEF PointsTo
<1>4. ASSUME NEW x, ~behind', Seen', x = RemoteX(at)', NEW end, end = Len(wire') + 1
      PROVE  PointsTo(end, x)'
  <2>1. x = RemoteX(at) /\ ~behind /\ Seen
    BY <1>1, <1>4 DEF RemoteX, Clamped, Seen, Inside
  <2> DEFINE n == Len(wire) + 1
  <2>2. PointsTo(n, x)
    BY <2>1 DEF ClicksTold
  <2>3. n \in Nat /\ n >= 4 /\ n <= Len(wire) + 1 /\ end = n - 3
    BY <1>2, <1>4
  <2> HIDE DEF n
  <2> QED
    BY <1>3, <2>2, <2>3
<1>5. ASSUME NEW k \in DOMAIN wire', wire'[k].part = "first", Clicks(wire'[k].event),
             NEW x, x = wire'[k].event.x
      PROVE  PointsTo(k, x)'
  <2>1. k \in 1..Len(wire')
    BY <1>1
  <2> DEFINE n == k + 3
  <2>2. n \in 1..Len(wire) /\ n \in Nat /\ n >= 4 /\ n <= Len(wire) + 1 /\ k = n - 3
    BY <1>2, <2>1
  <2>3. wire'[k] = wire[n]
    BY <1>2, <2>1
  <2> HIDE DEF n
  <2>4. n \in DOMAIN wire /\ PointsTo(n, x)
    BY <1>1, <1>5, <2>2, <2>3 DEF ClicksTold
  <2> QED
    BY <1>3, <2>2, <2>4
<1> QED
  BY <1>4, <1>5, ClicksAre

LEMMA PayloadClicks ==
  ASSUME InputTypeOK, ClicksTold, Followed, ReadPayload, WholePayload
  PROVE  ClicksTold'
<1> DEFINE e == wire[1].event
<1>1. /\ thread = "payload" /\ thread' = "header"
      /\ e \in Event /\ HasPayload(wire, 1, e)
      /\ wire \in Seq(Piece) /\ wire' \in Seq(Piece)
      /\ UNCHANGED <<at, minimised, captured, behind>>
      /\ pointer' = IF e.kind = "move" THEN Normalised(e.x) ELSE pointer
  BY PayloadStep DEF user, window, InputTypeOK, ReadPayload, Inject
<1>2. /\ Len(wire) \in Nat /\ Len(wire) >= 2 /\ Len(wire') = Len(wire) - 2
      /\ \A k \in 1..(Len(wire) - 2) : wire'[k] = wire[k + 2]
  BY PayloadStep DEF InputTypeOK
<1> HIDE DEF e
<1>3. ASSUME NEW end \in Nat, end >= 3, end <= Len(wire) + 1, NEW x, PointsTo(end, x)
      PROVE  \A n : n = end - 2 => PointsTo(n, x)'
  <2>1. \A k \in 1..(end - 3) : wire'[k] = wire[k + 2]
    BY <1>2, <1>3
  <2>2. /\ NoneOf(wire, MovesElsewhere(x), 1, end)
             => e \notin MovesElsewhere(x) /\ NoneOf(wire', MovesElsewhere(x), 1, end - 2)
        /\ LastWord(wire, "payload", end, MovesTo(x), MovesElsewhere(x)) =>
             \/ LastWord(wire', "header", end - 2, MovesTo(x), MovesElsewhere(x))
             \/ e \in MovesTo(x) /\ NoneOf(wire', MovesElsewhere(x), 1, end - 2)
    BY <1>1, <1>3, <2>1, PayloadRead
  <2>3. /\ e \in MovesTo(x) => pointer' = Normalised(x)
        /\ e \notin MovesElsewhere(x) /\ pointer = Normalised(x) => pointer' = Normalised(x)
    BY <1>1 DEF MovesTo, MovesElsewhere
  <2> QED
    BY <1>1, <1>3, <2>2, <2>3 DEF PointsTo
<1>4. ASSUME NEW x, ~behind', Seen', x = RemoteX(at)', NEW end, end = Len(wire') + 1
      PROVE  PointsTo(end, x)'
  <2>1. x = RemoteX(at) /\ ~behind /\ Seen
    BY <1>1, <1>4 DEF RemoteX, Clamped, Seen, Inside
  <2> DEFINE n == Len(wire) + 1
  <2>2. PointsTo(n, x)
    BY <2>1 DEF ClicksTold
  <2>3. n \in Nat /\ n >= 3 /\ n <= Len(wire) + 1 /\ end = n - 2
    BY <1>2, <1>4
  <2> HIDE DEF n
  <2> QED
    BY <1>3, <2>2, <2>3
<1>5. ASSUME NEW k \in DOMAIN wire', wire'[k].part = "first", Clicks(wire'[k].event),
             NEW x, x = wire'[k].event.x
      PROVE  PointsTo(k, x)'
  <2>1. k \in 1..Len(wire')
    BY <1>1
  <2> DEFINE n == k + 2
  <2>2. n \in 1..Len(wire) /\ n \in Nat /\ n >= 3 /\ n <= Len(wire) + 1 /\ k = n - 2
    BY <1>2, <2>1
  <2>3. wire'[k] = wire[n]
    BY <1>2, <2>1
  <2> HIDE DEF n
  <2>4. n \in DOMAIN wire /\ PointsTo(n, x)
    BY <1>1, <1>5, <2>2, <2>3 DEF ClicksTold
  <2> QED
    BY <1>3, <2>2, <2>4
<1> QED
  BY <1>4, <1>5, ClicksAre

LEMMA ClicksToldInit == InputInit => ClicksTold
  BY DEF InputInit, ClicksTold

LEMMA ClicksToldStep ==
  InputTypeOK /\ ClicksTold /\ [InputNext]_inputVars => ClicksTold'
<1> SUFFICES ASSUME InputTypeOK, ClicksTold, [InputNext]_inputVars, Followed'
             PROVE  ClicksTold'
  BY DEF ClicksTold
<1>1. CASE User
  <2>1. Followed
    BY <1>1, UserSends DEF Followed, remote
  <2> QED
    BY <1>1, <2>1, UserClicks
<1>2. CASE TransportOpens \/ FirstFrame \/ UNCHANGED inputVars
  <2>1. /\ UNCHANGED <<at, behind, minimised, captured, wire, remote>>
        /\ session' # "ended" => session # "ended"
    BY <1>2 DEF TransportOpens, FirstFrame, inputVars, user, window, sending
  <2>2. Followed
    BY <2>1 DEF Followed, remote
  <2>3. \A end, x : PointsTo(end, x) => PointsTo(end, x)'
    BY <2>1 DEF PointsTo, remote
  <2>4. ASSUME NEW x, ~behind', Seen', x = RemoteX(at)', NEW end, end = Len(wire') + 1
        PROVE  PointsTo(end, x)'
    <3>1. x = RemoteX(at) /\ ~behind /\ Seen /\ end = Len(wire) + 1
      BY <2>1, <2>4 DEF RemoteX, Clamped, Seen, Inside
    <3>2. PointsTo(end, x)
      BY <2>2, <3>1 DEF ClicksTold
    <3> QED
      BY <2>3, <3>2
  <2>5. ASSUME NEW k \in DOMAIN wire', wire'[k].part = "first", Clicks(wire'[k].event),
               NEW x, x = wire'[k].event.x
        PROVE  PointsTo(k, x)'
    <3>1. PointsTo(k, x)
      BY <2>1, <2>2, <2>5 DEF ClicksTold
    <3> QED
      BY <2>3, <3>1
  <2> QED
    BY <2>4, <2>5, ClicksAre
<1>3. CASE LinkEnds \/ ReadFails
  BY <1>3 DEF LinkEnds, ReadFails, Followed
<1>4. CASE ReadHeader
  <2>1. thread' # "done" /\ Followed
    BY <1>4 DEF Followed, ReadHeader
  <2> QED
    BY <1>4, <2>1, HeaderClicks
<1>5. CASE ReadPayload
  <2>1. WholePayload /\ Followed
    <3>1. garbage' = 0 /\ session' # "ended" /\ garbage \in Nat
      BY DEF Followed, InputTypeOK
    <3> QED
      BY <1>5, <3>1 DEF Followed, ReadPayload
  <2> QED
    BY <1>5, <2>1, PayloadClicks
<1> QED
  BY <1>1, <1>2, <1>3, <1>4, <1>5 DEF InputNext, InputThread

\* The pointer of a screen that is as wide as the frames taken of it.
OnScreen == pointer \in 0..AbsoluteMax

LEMMA OnScreenStep ==
  ASSUME FrameWidth <= ScreenWidth, InputTypeOK, OnScreen, [InputNext]_inputVars
  PROVE  OnScreen'
<1>1. CASE UNCHANGED pointer
  BY <1>1 DEF OnScreen
<1>2. CASE ReadPayload /\ WholePayload
  <2> DEFINE x == wire[1].event.x
  <2>1. x \in 0..(FrameWidth - 1)
    <3>1. wire[1].event \in Event
      BY <1>2, PayloadStep
    <3> QED
      BY <3>1 DEF Event
  <2>2. pointer' = Normalised(x) \/ pointer' = pointer
    BY <1>2 DEF ReadPayload, Inject
  <2> HIDE DEF x
  <2>3. Normalised(x) \in 0..AbsoluteMax
    BY <2>1, NormalisedIs
  <2> QED
    BY <2>2, <2>3 DEF OnScreen
<1>3. CASE ReadPayload /\ ~WholePayload
  <2>1. pointer' = 0
    BY <1>3 DEF ReadPayload, InjectGarbage
  <2> QED
    BY <2>1, AbsoluteMaxIsNat DEF OnScreen
<1>4. CASE ~ReadPayload
  <2>1. UNCHANGED pointer
    <3>1. User => UNCHANGED pointer
      BY UserSends DEF remote
    <3>2. TransportOpens \/ FirstFrame \/ LinkEnds => UNCHANGED pointer
      BY DEF TransportOpens, FirstFrame, LinkEnds, remote
    <3>3. ReadHeader \/ ReadFails \/ UNCHANGED inputVars => UNCHANGED pointer
      BY DEF ReadHeader, ReadFails, inputVars, remote
    <3> QED
      BY <1>4, <3>1, <3>2, <3>3 DEF InputNext, InputThread
  <2> QED
    BY <1>1, <2>1
<1> QED
  BY <1>2, <1>3, <1>4

LEMMA AllPointed ==
  ASSUME InputTypeOK, ClicksTold, OnScreen
  PROVE  ClicksLand
<1>1. ASSUME thread = "payload", Len(wire) >= PayloadSize, WholePayload, garbage = 0,
             wire[1].event.kind \in {"down", "up"}, wire[1].event.sure
      PROVE  pointer = Normalised(wire[1].event.x)
  <2>1. wire[1].part = "first" /\ wire \in Seq(Piece) /\ Len(wire) >= 2
    BY <1>1 DEF WholePayload, InputTypeOK, PayloadSize
  <2>2. Followed
    BY <1>1, <2>1 DEF Followed, InputTypeOK
  <2>3. 1 \in DOMAIN wire
    BY <2>1
  <2> DEFINE k == 1
  <2>4. PointsTo(k, wire[1].event.x) /\ k = 1
    BY <1>1, <2>1, <2>2, <2>3 DEF ClicksTold, Clicks
  <2> HIDE DEF k
  <2> QED
    BY <2>4 DEF PointsTo, LastWord
<1> QED
  BY <1>1 DEF ClicksLand, OnScreen

(***************************************************************************)
(* A click lands where the user saw the pointer, if the move before it was *)
(* sent; and the pointer stays on a screen that the frames show.           *)
(***************************************************************************)
THEOREM ClicksLandWhereSeen ==
  ASSUME FrameWidth <= ScreenWidth
  PROVE  InputSpec => []ClicksLand
<1>1. InputInit => InputTypeOK /\ ClicksTold /\ OnScreen
  <2>1. InputInit => OnScreen
    BY AbsoluteMaxIsNat DEF InputInit, OnScreen
  <2> QED
    BY <2>1, InputTypeInit, ClicksToldInit
<1>2. (InputTypeOK /\ ClicksTold /\ OnScreen) /\ [InputNext]_inputVars
        => (InputTypeOK /\ ClicksTold /\ OnScreen)'
  BY InputTypeStep, ClicksToldStep, OnScreenStep
<1>3. InputTypeOK /\ ClicksTold /\ OnScreen => ClicksLand
  BY AllPointed
<1> QED
  BY <1>1, <1>2, <1>3, PTL DEF InputSpec

-----------------------------------------------------------------------------
(* One damage: the third invariant.                                         *)

\* The piece before the joint k, what was read already for the first one.
Before(reads) == IF reads = "header" THEN "last" ELSE "size"
Prev(w, reads, k) == IF k = 0 THEN [part |-> Before(reads)] ELSE w[k]

\* What comes after a piece in a whole message, and after one where a piece, or
\* the rest of the message, is missing.
Follows(a, b) ==
  \/ a.part = "magic" /\ b.part = "ignored"
  \/ a.part = "ignored" /\ b.part = "size"
  \/ a.part = "size" /\ b.part = "first"
  \/ a.part = "first" /\ b.part = "last" /\ a.event = b.event
  \/ a.part = "last" /\ b.part = "magic"

Skips(a, b) ==
  \/ a.part \in {"magic", "ignored", "size", "first"} /\ b.part = "magic"
  \/ a.part = "last" /\ b.part = "ignored"
  \/ a.part = "magic" /\ b.part = "size"
  \/ a.part = "ignored" /\ b.part = "first"
  \/ a.part = "size" /\ b.part = "last"

\* Every joint is sound but d, which is the end when the last message is cut.
SoundBut(w, reads, d) ==
  /\ \A k \in 0..(Len(w) - 1) :
       IF k = d THEN Skips(Prev(w, reads, k), w[k + 1])
       ELSE Follows(Prev(w, reads, k), w[k + 1])
  /\ d = Len(w) <=> Prev(w, reads, Len(w)).part # "last"

DamageTold ==
  /\ Followed =>
       /\ faults = 0 => SoundBut(wire, thread, -1)
       /\ faults = 1 => \E d \in -1..Len(wire) : SoundBut(wire, thread, d)
  /\ session # "ended" /\ faults = 0 => garbage = 0 /\ thread # "done"
  /\ session # "ended" /\ faults = 1 /\ garbage # 0 =>
       \/ thread = "done"
       \/ thread = "header" /\ Len(wire) > 0 /\ wire[1].part \in {"ignored", "size"}

\* r is w and then s.
Extends(r, w, s) ==
  /\ Len(r) = Len(w) + Len(s) /\ Len(w) \in Nat /\ Len(s) \in Nat
  /\ \A k \in 1..Len(w) : r[k] = w[k]
  /\ \A k \in 1..Len(s) : r[Len(w) + k] = s[k]

\* The joints of s that comes behind the piece p are sound but c.
Joints(s, p, c) ==
  /\ IF c = 0 THEN Skips(p, s[1]) ELSE Follows(p, s[1])
  /\ \A k \in 1..(Len(s) - 1) :
       IF c = k THEN Skips(s[k], s[k + 1]) ELSE Follows(s[k], s[k + 1])
  /\ c = Len(s) <=> s[Len(s)].part # "last"

\* The joints of w are sound but d; none is but those from b on.
Agrees(w, d, b) == d = b \/ (d = -1 /\ b >= Len(w))

LEMMA ExtendedSound ==
  ASSUME NEW w, NEW s, NEW r, NEW reads, Extends(r, w, s),
         NEW d \in Int, NEW b \in Int, Agrees(w, d, b),
         SoundBut(w, reads, d), Len(s) > 0,
         Joints(s, Prev(w, reads, Len(w)), b - Len(w))
  PROVE  SoundBut(r, reads, b)
<1>1. /\ Len(r) = Len(w) + Len(s) /\ Len(w) \in Nat /\ Len(s) \in Nat
      /\ \A k \in 1..Len(w) : r[k] = w[k]
      /\ \A k \in 1..Len(s) : r[Len(w) + k] = s[k]
  BY DEF Extends
<1>5. /\ IF b = Len(w) THEN Skips(Prev(w, reads, Len(w)), s[1])
                       ELSE Follows(Prev(w, reads, Len(w)), s[1])
      /\ \A k \in 1..(Len(s) - 1) :
           IF b = Len(w) + k THEN Skips(s[k], s[k + 1]) ELSE Follows(s[k], s[k + 1])
      /\ b = Len(w) + Len(s) <=> s[Len(s)].part # "last"
  <2> DEFINE c == b - Len(w)  p == Prev(w, reads, Len(w))
  <2>1. /\ b = Len(w) <=> c = 0
        /\ \A k \in Nat : b = Len(w) + k <=> c = k
    BY <1>1
  <2>2. /\ IF c = 0 THEN Skips(p, s[1]) ELSE Follows(p, s[1])
        /\ \A k \in 1..(Len(s) - 1) :
             IF c = k THEN Skips(s[k], s[k + 1]) ELSE Follows(s[k], s[k + 1])
        /\ c = Len(s) <=> s[Len(s)].part # "last"
    BY DEF Joints
  <2> HIDE DEF c, p
  <2>3. \A k \in 1..(Len(s) - 1) :
          IF b = Len(w) + k THEN Skips(s[k], s[k + 1]) ELSE Follows(s[k], s[k + 1])
    <3> SUFFICES ASSUME NEW k \in 1..(Len(s) - 1)
                 PROVE  IF b = Len(w) + k THEN Skips(s[k], s[k + 1])
                        ELSE Follows(s[k], s[k + 1])
      OBVIOUS
    <3>1. b = Len(w) + k <=> c = k
      BY <1>1, <2>1
    <3>2. IF c = k THEN Skips(s[k], s[k + 1]) ELSE Follows(s[k], s[k + 1])
      BY <2>2
    <3> QED
      BY <3>1, <3>2
  <2> QED
    BY <1>1, <2>1, <2>2, <2>3 DEF p
<1>6. d = b \/ (d = -1 /\ b >= Len(w))
  BY DEF Agrees
<1>4. /\ \A k \in 0..Len(w) : Prev(r, reads, k) = Prev(w, reads, k)
      /\ \A k \in 1..Len(s) : Prev(r, reads, Len(w) + k) = s[k]
      /\ Prev(r, reads, Len(r)) = s[Len(s)]
  <2>2. \A k \in 0..Len(w) : Prev(r, reads, k) = Prev(w, reads, k)
    BY <1>1 DEF Prev
  <2>3. \A k \in 1..Len(s) : Prev(r, reads, Len(w) + k) = s[k]
    BY <1>1 DEF Prev
  <2>4. Len(s) \in 1..Len(s) /\ Len(r) = Len(w) + Len(s)
    BY <1>1
  <2> QED
    BY <2>2, <2>3, <2>4
<1>2. ASSUME NEW k \in 0..(Len(r) - 1)
      PROVE  IF k = b THEN Skips(Prev(r, reads, k), r[k + 1])
             ELSE Follows(Prev(r, reads, k), r[k + 1])
  <2>1. CASE k < Len(w)
    <3>1. k \in 0..(Len(w) - 1) /\ k \in 0..Len(w) /\ k + 1 \in 1..Len(w)
      BY <1>1, <1>2, <2>1
    <3>2. Prev(r, reads, k) = Prev(w, reads, k) /\ r[k + 1] = w[k + 1]
      BY <1>1, <3>1, <1>4
    <3> QED
      BY <1>1, <1>6, <3>1, <3>2 DEF SoundBut
  <2>2. CASE k = Len(w)
    <3>1. Len(w) \in 0..Len(w) /\ 1 \in 1..Len(s)
      BY <1>1
    <3>2. Prev(r, reads, k) = Prev(w, reads, k) /\ r[k + 1] = s[1]
      BY <1>1, <2>2, <3>1, <1>4
    <3> QED
      BY <1>5, <2>2, <3>2
  <2>3. CASE k > Len(w)
    <3> DEFINE j == k - Len(w)
    <3>1. /\ j \in 1..(Len(s) - 1) /\ j \in 1..Len(s) /\ j + 1 \in 1..Len(s)
          /\ k = Len(w) + j /\ k + 1 = Len(w) + (j + 1)
      BY <1>1, <1>2, <2>3
    <3> HIDE DEF j
    <3>2. Prev(r, reads, k) = s[j] /\ r[k + 1] = s[j + 1]
      BY <1>1, <3>1, <1>4
    <3> QED
      BY <1>1, <1>5, <3>1, <3>2
  <2> QED
    BY <1>1, <1>2, <2>1, <2>2, <2>3
<1> QED
  BY <1>1, <1>2, <1>4, <1>5, <1>6 DEF SoundBut

LEMMA PiecesFollow ==
  ASSUME NEW e
  PROVE  /\ Follows(Magic, Ignored) /\ Follows(Ignored, Size)
         /\ Follows(Size, FirstHalf(e)) /\ Follows(FirstHalf(e), LastHalf(e))
         /\ \A a : a.part = "last" => Follows(a, Magic) /\ Skips(a, Ignored)
         /\ \A a : a.part \in {"magic", "ignored", "size", "first"} => Skips(a, Magic)
         /\ Skips(Magic, Size) /\ Skips(Ignored, FirstHalf(e)) /\ Skips(Size, LastHalf(e))
         /\ Magic.part # "last" /\ Ignored.part # "last" /\ Size.part # "last"
         /\ FirstHalf(e).part # "last" /\ LastHalf(e).part = "last"
  BY DEF Follows, Skips, Magic, Ignored, Size, FirstHalf, LastHalf

LEMMA WholeAppended ==
  ASSUME NEW w \in Seq(Piece), NEW e, NEW r, NEW reads, Extends(r, w, Pieces(e)),
         NEW d \in -1..Len(w), SoundBut(w, reads, d)
  PROVE  SoundBut(r, reads, d)
<1> DEFINE s == Pieces(e)
<1>1. /\ Len(s) = 5 /\ s[1] = Magic /\ s[2] = Ignored /\ s[3] = Size
      /\ s[4] = FirstHalf(e) /\ s[5] = LastHalf(e)
  BY PiecesAre
<1> HIDE DEF s
<1>2. Len(w) \in Nat /\ d \in Int /\ d <= Len(w)
  OBVIOUS
<1>3. IF d = Len(w) THEN Skips(Prev(w, reads, Len(w)), Magic)
                    ELSE Follows(Prev(w, reads, Len(w)), Magic)
  <2>1. Prev(w, reads, Len(w)).part \in {"magic", "ignored", "size", "first", "last"}
    <3>1. CASE Len(w) = 0
      BY <3>1 DEF Prev, Before
    <3>2. CASE Len(w) # 0
      <4>1. w[Len(w)] \in Piece
        BY <3>2
      <4> QED
        BY <3>2, <4>1 DEF Prev, Piece
    <3> QED
      BY <3>1, <3>2
  <2>2. d = Len(w) <=> Prev(w, reads, Len(w)).part # "last"
    BY DEF SoundBut
  <2> QED
    BY <2>1, <2>2, PiecesFollow
<1>4. \A k \in 1..4 : Follows(s[k], s[k + 1])
  <2> SUFFICES ASSUME NEW k \in 1..4 PROVE Follows(s[k], s[k + 1])
    OBVIOUS
  <2>1. k = 1 \/ k = 2 \/ k = 3 \/ k = 4
    OBVIOUS
  <2> QED
    BY <1>1, <2>1, PiecesFollow
<1> HIDE DEF Magic, Ignored, Size, FirstHalf, LastHalf
<1>5. LastHalf(e).part = "last"
  BY PiecesFollow
<1> DEFINE p == Prev(w, reads, Len(w))  c == d - Len(w)
<1>6. /\ c = 0 <=> d = Len(w)
      /\ c <= 0 /\ c \in Int
  BY <1>2
<1>7. IF c = 0 THEN Skips(p, Magic) ELSE Follows(p, Magic)
  BY <1>3, <1>6
<1> HIDE DEF p, c
<1>8. Joints(s, p, c)
  <2>1. \A k \in 1..(Len(s) - 1) : c # k /\ Follows(s[k], s[k + 1])
    BY <1>1, <1>4, <1>6
  <2>2. c # Len(s) /\ s[Len(s)].part = "last"
    BY <1>1, <1>5, <1>6
  <2> QED
    BY <1>1, <1>7, <2>1, <2>2 DEF Joints
<1>9. Joints(s, Prev(w, reads, Len(w)), d - Len(w)) /\ Len(s) > 0
  BY <1>1, <1>8 DEF p, c
<1>11. d \in Int /\ SoundBut(w, reads, d)
  BY <1>2
<1>12. Extends(r, w, s)
  BY DEF s
<1>13. Agrees(w, d, d)
  BY DEF Agrees
<1> QED
  BY <1>9, <1>11, <1>12, <1>13, ExtendedSound

\* Whatever is left of a damaged message, one joint is broken.
LEMMA DamagedJoints ==
  ASSUME NEW e, NEW s \in Damaged(e), s # <<>>, NEW p, p.part = "last"
  PROVE  Len(s) > 0 /\ \E c \in 0..Len(s) : Joints(s, p, c)
<1>1. CASE s = <<Magic>>
  <2>1. Len(s) = 1 /\ s[1] = Magic
    BY <1>1
  <2>2. Follows(p, s[1])
    BY <2>1, PiecesFollow
  <2>3. \A k \in 1..(Len(s) - 1) : FALSE
    BY <2>1
  <2>4. s[Len(s)].part # "last"
    BY <2>1, PiecesFollow
  <2>5. Joints(s, p, 1)
    BY <2>1, <2>2, <2>3, <2>4 DEF Joints
  <2> QED
    BY <2>1, <2>5
<1>2. CASE s = <<Magic, Ignored>>
  <2>1. Len(s) = 2 /\ s[1] = Magic /\ s[2] = Ignored
    BY <1>2
  <2>2. Follows(p, s[1])
    BY <2>1, PiecesFollow
  <2>3. ASSUME NEW k \in 1..(Len(s) - 1)
        PROVE  IF 2 = k THEN Skips(s[k], s[k + 1]) ELSE Follows(s[k], s[k + 1])
    <3>1. k = 1
      BY <2>1
    <3> QED
      BY <2>1, <3>1, PiecesFollow
  <2>4. s[Len(s)].part # "last"
    BY <2>1, PiecesFollow
  <2>5. Joints(s, p, 2)
    BY <2>1, <2>2, <2>3, <2>4 DEF Joints
  <2> QED
    BY <2>1, <2>5
<1>3. CASE s = <<Magic, Ignored, Size>>
  <2>1. Len(s) = 3 /\ s[1] = Magic /\ s[2] = Ignored /\ s[3] = Size
    BY <1>3
  <2>2. Follows(p, s[1])
    BY <2>1, PiecesFollow
  <2>3. ASSUME NEW k \in 1..(Len(s) - 1)
        PROVE  IF 3 = k THEN Skips(s[k], s[k + 1]) ELSE Follows(s[k], s[k + 1])
    <3>1. k = 1 \/ k = 2
      BY <2>1
    <3> QED
      BY <2>1, <3>1, PiecesFollow
  <2>4. s[Len(s)].part # "last"
    BY <2>1, PiecesFollow
  <2>5. Joints(s, p, 3)
    BY <2>1, <2>2, <2>3, <2>4 DEF Joints
  <2> QED
    BY <2>1, <2>5
<1>4. CASE s = <<Magic, Ignored, Size, FirstHalf(e)>>
  <2>1. Len(s) = 4 /\ s[1] = Magic /\ s[2] = Ignored /\ s[3] = Size /\ s[4] = FirstHalf(e)
    BY <1>4
  <2>2. Follows(p, s[1])
    BY <2>1, PiecesFollow
  <2>3. ASSUME NEW k \in 1..(Len(s) - 1)
        PROVE  IF 4 = k THEN Skips(s[k], s[k + 1]) ELSE Follows(s[k], s[k + 1])
    <3>1. k = 1 \/ k = 2 \/ k = 3
      BY <2>1
    <3> QED
      BY <2>1, <3>1, PiecesFollow
  <2>4. s[Len(s)].part # "last"
    BY <2>1, PiecesFollow
  <2>5. Joints(s, p, 4)
    BY <2>1, <2>2, <2>3, <2>4 DEF Joints
  <2> QED
    BY <2>1, <2>5
<1>5. CASE s = <<Ignored, Size, FirstHalf(e), LastHalf(e)>>
  <2>1. Len(s) = 4 /\ s[1] = Ignored /\ s[2] = Size /\ s[3] = FirstHalf(e) /\ s[4] = LastHalf(e)
    BY <1>5
  <2>2. Skips(p, s[1])
    BY <2>1, PiecesFollow
  <2>3. ASSUME NEW k \in 1..(Len(s) - 1)
        PROVE  IF 0 = k THEN Skips(s[k], s[k + 1]) ELSE Follows(s[k], s[k + 1])
    <3>1. k = 1 \/ k = 2 \/ k = 3
      BY <2>1
    <3> QED
      BY <2>1, <3>1, PiecesFollow
  <2>4. s[Len(s)].part = "last"
    BY <2>1, PiecesFollow
  <2>5. Joints(s, p, 0)
    BY <2>1, <2>2, <2>3, <2>4 DEF Joints
  <2> QED
    BY <2>1, <2>5
<1>6. CASE s = <<Magic, Size, FirstHalf(e), LastHalf(e)>>
  <2>1. Len(s) = 4 /\ s[1] = Magic /\ s[2] = Size /\ s[3] = FirstHalf(e) /\ s[4] = LastHalf(e)
    BY <1>6
  <2>2. Follows(p, s[1])
    BY <2>1, PiecesFollow
  <2>3. ASSUME NEW k \in 1..(Len(s) - 1)
        PROVE  IF 1 = k THEN Skips(s[k], s[k + 1]) ELSE Follows(s[k], s[k + 1])
    <3>1. k = 1 \/ k = 2 \/ k = 3
      BY <2>1
    <3> QED
      BY <2>1, <3>1, PiecesFollow
  <2>4. s[Len(s)].part = "last"
    BY <2>1, PiecesFollow
  <2>5. Joints(s, p, 1)
    BY <2>1, <2>2, <2>3, <2>4 DEF Joints
  <2> QED
    BY <2>1, <2>5
<1>7. CASE s = <<Magic, Ignored, FirstHalf(e), LastHalf(e)>>
  <2>1. Len(s) = 4 /\ s[1] = Magic /\ s[2] = Ignored /\ s[3] = FirstHalf(e) /\ s[4] = LastHalf(e)
    BY <1>7
  <2>2. Follows(p, s[1])
    BY <2>1, PiecesFollow
  <2>3. ASSUME NEW k \in 1..(Len(s) - 1)
        PROVE  IF 2 = k THEN Skips(s[k], s[k + 1]) ELSE Follows(s[k], s[k + 1])
    <3>1. k = 1 \/ k = 2 \/ k = 3
      BY <2>1
    <3> QED
      BY <2>1, <3>1, PiecesFollow
  <2>4. s[Len(s)].part = "last"
    BY <2>1, PiecesFollow
  <2>5. Joints(s, p, 2)
    BY <2>1, <2>2, <2>3, <2>4 DEF Joints
  <2> QED
    BY <2>1, <2>5
<1>8. CASE s = <<Magic, Ignored, Size, LastHalf(e)>>
  <2>1. Len(s) = 4 /\ s[1] = Magic /\ s[2] = Ignored /\ s[3] = Size /\ s[4] = LastHalf(e)
    BY <1>8
  <2>2. Follows(p, s[1])
    BY <2>1, PiecesFollow
  <2>3. ASSUME NEW k \in 1..(Len(s) - 1)
        PROVE  IF 3 = k THEN Skips(s[k], s[k + 1]) ELSE Follows(s[k], s[k + 1])
    <3>1. k = 1 \/ k = 2 \/ k = 3
      BY <2>1
    <3> QED
      BY <2>1, <3>1, PiecesFollow
  <2>4. s[Len(s)].part = "last"
    BY <2>1, PiecesFollow
  <2>5. Joints(s, p, 3)
    BY <2>1, <2>2, <2>3, <2>4 DEF Joints
  <2> QED
    BY <2>1, <2>5
<1> QED
  BY <1>1, <1>2, <1>3, <1>4, <1>5, <1>6, <1>7, <1>8 DEF Damaged

LEMMA DamagedAppended ==
  ASSUME NEW w \in Seq(Piece), NEW e, NEW s \in Damaged(e), NEW r, NEW reads,
         Extends(r, w, s), SoundBut(w, reads, -1)
  PROVE  \E d \in -1..Len(r) : SoundBut(r, reads, d)
<1>1. /\ Len(r) = Len(w) + Len(s) /\ Len(w) \in Nat /\ Len(s) \in Nat
      /\ \A k \in 1..Len(w) : r[k] = w[k]
  BY DEF Extends
<1>2. CASE s = <<>>
  <2>1. Len(r) = Len(w)
    BY <1>1, <1>2
  <2>2. \A k \in 0..Len(w) : Prev(r, reads, k) = Prev(w, reads, k)
    BY <1>1 DEF Prev
  <2>3. \A k \in 0..(Len(w) - 1) : r[k + 1] = w[k + 1]
    BY <1>1
  <2>4. SoundBut(r, reads, -1)
    BY <1>1, <2>1, <2>2, <2>3 DEF SoundBut
  <2> QED
    BY <1>1, <2>1, <2>4
<1>3. CASE s # <<>>
  <2> DEFINE p == Prev(w, reads, Len(w))
  <2>1. p.part = "last"
    BY <1>1 DEF SoundBut
  <2> HIDE DEF p
  <2>2. Len(s) > 0 /\ \E c \in 0..Len(s) : Joints(s, p, c)
    BY <1>3, <2>1, DamagedJoints
  <2>3. PICK c \in 0..Len(s) : Joints(s, p, c)
    BY <2>2
  <2> DEFINE b == Len(w) + c
  <2>4. b \in Int /\ b \in -1..Len(r) /\ b >= Len(w) /\ b - Len(w) = c
    BY <1>1
  <2> HIDE DEF b
  <2>5. Joints(s, Prev(w, reads, Len(w)), b - Len(w))
    BY <2>3, <2>4 DEF p
  <2> DEFINE d == -1
  <2>6. Agrees(w, d, b) /\ d \in Int /\ SoundBut(w, reads, d)
    BY <2>4 DEF Agrees
  <2> HIDE DEF d
  <2>7. SoundBut(r, reads, b)
    BY <2>2, <2>4, <2>5, <2>6, ExtendedSound
  <2> QED
    BY <2>4, <2>7
<1> QED
  BY <1>2, <1>3

\* Three pieces that are read as a header are one, and the damage is behind it.
LEMMA HeaderSound ==
  ASSUME NEW w \in Seq(Piece), NEW r, Len(w) >= 3,
         NEW d \in -1..Len(w), SoundBut(w, "header", d)
  PROVE  /\ d = -1 => w[1].part = "magic" /\ w[3].part = "size"
         /\ w[1].part = "magic" /\ w[3].part = "size" => d = -1 \/ d >= 3
<1>1. \A k \in 0..(Len(w) - 1) :
        IF k = d THEN Skips(Prev(w, "header", k), w[k + 1])
        ELSE Follows(Prev(w, "header", k), w[k + 1])
  BY DEF SoundBut
<1>2. /\ 0 \in 0..(Len(w) - 1) /\ 1 \in 0..(Len(w) - 1) /\ 2 \in 0..(Len(w) - 1)
      /\ 0 + 1 = 1 /\ 1 + 1 = 2 /\ 2 + 1 = 3
  OBVIOUS
<1>3. /\ Prev(w, "header", 0).part = "last" /\ Prev(w, "header", 1) = w[1]
      /\ Prev(w, "header", 2) = w[2]
  BY DEF Prev, Before
<1>4. IF 0 = d THEN Skips(Prev(w, "header", 0), w[1])
      ELSE Follows(Prev(w, "header", 0), w[1])
  BY <1>1, <1>2
<1>5. IF 1 = d THEN Skips(w[1], w[2]) ELSE Follows(w[1], w[2])
  BY <1>1, <1>2, <1>3
<1>6. IF 2 = d THEN Skips(w[2], w[3]) ELSE Follows(w[2], w[3])
  BY <1>1, <1>2, <1>3
<1>7. d = -1 => w[1].part = "magic" /\ w[3].part = "size"
  BY <1>3, <1>4, <1>5, <1>6 DEF Follows
<1>8. w[1].part = "magic" /\ w[3].part = "size" => d # 0 /\ d # 1 /\ d # 2
  BY <1>3, <1>4, <1>5, <1>6 DEF Follows, Skips
<1> QED
  BY <1>7, <1>8

\* What is left when n pieces were read, if the damage is behind them.
LEMMA RestSound ==
  ASSUME NEW w, NEW r, NEW reads, NEW next, NEW n \in Nat \ {0}, Len(w) \in Nat,
         Len(w) >= n, Len(r) = Len(w) - n, \A k \in 1..(Len(w) - n) : r[k] = w[k + n],
         NEW d \in Int, SoundBut(w, reads, d), NEW b \in Int,
         b = d - n \/ (d < 0 /\ b < 0),
         w[n].part = Before(next), Before(next) # "first"
  PROVE  SoundBut(r, next, b)
<1>1. \A k \in 1..Len(r) : Prev(r, next, k) = Prev(w, reads, k + n)
  BY DEF Prev
<1>2. Prev(w, reads, n) = w[n] /\ Prev(r, next, 0).part = w[n].part
  BY DEF Prev
<1>3. ASSUME NEW k \in 0..(Len(r) - 1)
      PROVE  IF k = b THEN Skips(Prev(r, next, k), r[k + 1])
             ELSE Follows(Prev(r, next, k), r[k + 1])
  <2> DEFINE j == k + n
  <2>1. /\ j \in 0..(Len(w) - 1) /\ (k = b <=> j = d)
        /\ k + 1 \in 1..(Len(w) - n) /\ (k + 1) + n = j + 1
        /\ k # 0 => k \in 1..Len(r)
    OBVIOUS
  <2>2. r[k + 1] = w[j + 1]
    BY <2>1
  <2>3. IF j = d THEN Skips(Prev(w, reads, j), w[j + 1])
        ELSE Follows(Prev(w, reads, j), w[j + 1])
    BY <2>1 DEF SoundBut
  <2>4. CASE k # 0
    <3>1. Prev(r, next, k) = Prev(w, reads, j)
      BY <1>1, <2>1, <2>4
    <3> QED
      BY <2>1, <2>2, <2>3, <3>1
  <2>5. CASE k = 0
    <3>1. /\ Prev(r, next, k).part = Prev(w, reads, j).part
          /\ Prev(r, next, k).part # "first"
      BY <1>2, <2>5
    <3>2. /\ Skips(Prev(w, reads, j), w[j + 1]) => Skips(Prev(r, next, k), w[j + 1])
          /\ Follows(Prev(w, reads, j), w[j + 1]) => Follows(Prev(r, next, k), w[j + 1])
      BY <3>1 DEF Skips, Follows
    <3> QED
      BY <2>1, <2>2, <2>3, <3>2
  <2> QED
    BY <2>4, <2>5
<1>4. b = Len(r) <=> Prev(r, next, Len(r)).part # "last"
  <2>1. b = Len(r) <=> d = Len(w)
    OBVIOUS
  <2>2. d = Len(w) <=> Prev(w, reads, Len(w)).part # "last"
    BY DEF SoundBut
  <2>3. Prev(r, next, Len(r)).part = Prev(w, reads, Len(w)).part
    <3>1. CASE Len(r) = 0
      <4>1. Len(w) = n
        BY <3>1
      <4> QED
        BY <1>2, <3>1, <4>1
    <3>2. CASE Len(r) # 0
      <4>1. Len(r) \in 1..Len(r) /\ Len(r) + n = Len(w)
        BY <3>2
      <4> QED
        BY <1>1, <4>1
    <3> QED
      BY <3>1, <3>2
  <2> QED
    BY <2>1, <2>2, <2>3
<1> QED
  BY <1>3, <1>4 DEF SoundBut

LEMMA HalfIs ==
  ASSUME NEW x \in Piece, x.part \in {"first", "last"}
  PROVE  x = [part |-> x.part, event |-> x.event]
<1>1. x \in [part : {"first", "last"}, event : Event]
  BY DEF Piece
<1> HIDE DEF Event
<1> QED
  BY <1>1

\* Two pieces that are read as a payload are one and the damage is behind them,
\* or what is left starts with what no header starts with.
LEMMA PayloadSound ==
  ASSUME NEW w \in Seq(Piece), Len(w) >= 2,
         NEW d \in -1..Len(w), SoundBut(w, "payload", d)
  PROVE  \/ /\ HasPayload(w, 1, w[1].event)
            /\ d = -1 \/ d >= 2
         \/ /\ ~HasPayload(w, 1, w[1].event)
            /\ d # -1 /\ Len(w) >= 3 /\ w[3].part \in {"ignored", "size"}
<1>1. \A k \in 0..(Len(w) - 1) :
        IF k = d THEN Skips(Prev(w, "payload", k), w[k + 1])
        ELSE Follows(Prev(w, "payload", k), w[k + 1])
  BY DEF SoundBut
<1>2. /\ 0 \in 0..(Len(w) - 1) /\ 1 \in 0..(Len(w) - 1)
      /\ 0 + 1 = 1 /\ 1 + 1 = 2 /\ 2 + 1 = 3 /\ Len(w) \in Nat
  OBVIOUS
<1>3. /\ Prev(w, "payload", 0).part = "size" /\ Prev(w, "payload", 1) = w[1]
      /\ Prev(w, "payload", 2) = w[2]
  BY DEF Prev, Before
<1>4. IF 0 = d THEN Skips(Prev(w, "payload", 0), w[1])
      ELSE Follows(Prev(w, "payload", 0), w[1])
  BY <1>1, <1>2
<1>5. IF 1 = d THEN Skips(w[1], w[2]) ELSE Follows(w[1], w[2])
  BY <1>1, <1>2, <1>3
<1>6. w[1] \in Piece /\ w[2] \in Piece
  OBVIOUS
<1>7. CASE d = -1 \/ d >= 2
  <2>1. w[1].part = "first" /\ w[2].part = "last" /\ w[2].event = w[1].event
    BY <1>3, <1>4, <1>5, <1>7 DEF Follows
  <2> DEFINE one == 1
  <2>2. w[1] = [part |-> "first", event |-> w[1].event]
    BY <1>6, <2>1, HalfIs
  <2>3. w[2] = [part |-> "last", event |-> w[1].event]
    BY <1>6, <2>1, HalfIs
  <2>4. HasPayload(w, 1, w[1].event)
    BY <1>2, <2>2, <2>3 DEF HasPayload
  <2> QED
    BY <1>7, <2>4
<1>8. CASE d = 0 \/ d = 1
  <2>1. w[1].part # "first" \/ w[2].part # "last"
    BY <1>3, <1>4, <1>5, <1>8 DEF Skips, Follows
  <2>2. ~HasPayload(w, 1, w[1].event)
    BY <1>2, <2>1 DEF HasPayload
  <2>3. /\ w[2].part \in {"ignored", "magic"}
        /\ w[2].part = "ignored" \/ d = 0 \/ d = 1
    BY <1>3, <1>4, <1>5, <1>8 DEF Skips, Follows
  <2>4. Len(w) # 2
    <3>1. d # Len(w)
      BY <1>2, <1>8
    <3>2. Prev(w, "payload", Len(w)).part = "last"
      BY <1>2, <3>1 DEF SoundBut
    <3> QED
      BY <1>3, <2>3, <3>2
  <2>5. Len(w) >= 3 /\ 2 \in 0..(Len(w) - 1) /\ d # 2
    <3> DEFINE n == Len(w)
    <3>1. n \in Nat /\ n >= 2 /\ n # 2
      BY <1>2, <2>4
    <3> HIDE DEF n
    <3>2. n >= 3 /\ 2 \in 0..(n - 1)
      BY <3>1
    <3> QED
      BY <1>8, <3>2 DEF n
  <2>6. Follows(w[2], w[3])
    BY <1>1, <1>2, <1>3, <2>5
  <2>7. w[3].part \in {"ignored", "size"}
    BY <2>3, <2>6 DEF Follows
  <2> QED
    BY <1>8, <2>2, <2>5, <2>7
<1> QED
  BY <1>2, <1>7, <1>8

LEMMA UserDamage ==
  ASSUME InputTypeOK, DamageTold, User
  PROVE  DamageTold'
<1>1. /\ session # "ended" /\ thread # "done" /\ UNCHANGED <<session, remote>>
      /\ wire \in Seq(Piece) /\ Len(wire) \in Nat /\ faults \in Nat
  BY UserSends DEF InputTypeOK
<1>2. /\ faults = 0 => garbage = 0
      /\ faults = 1 /\ garbage # 0 =>
           thread = "header" /\ Len(wire) > 0 /\ wire[1].part \in {"ignored", "size"}
      /\ garbage = 0 /\ faults = 0 => SoundBut(wire, thread, -1)
      /\ garbage = 0 /\ faults = 1 => \E d \in -1..Len(wire) : SoundBut(wire, thread, d)
  BY <1>1 DEF DamageTold, Followed
<1>3. CASE Silent
  BY <1>1, <1>3 DEF DamageTold, Followed, Silent, remote
<1>4. CASE ~Silent
  <2>1. PICK e \in Event : Send(e)
    BY <1>4, UserSends
  <2>2. /\ faults' = 0 => faults = 0
        /\ faults' = 1 => faults \in {0, 1}
    BY <1>1, <2>1, SendIs
  <2>3. PICK s : Says(s, e) /\ wire' = wire \o s
    BY <2>1, SendType
  <2>4. /\ Len(wire') >= Len(wire)
        /\ \A k \in 1..Len(wire) : wire'[k] = wire[k]
    <3>1. s \in Seq(Piece)
      BY <2>3 DEF Says
    <3> QED
      BY <1>1, <2>3, <3>1, JoinParts
  <2>5. faults' = 1 /\ garbage # 0 =>
          thread = "header" /\ Len(wire') > 0 /\ wire'[1].part \in {"ignored", "size"}
    BY <1>1, <1>2, <2>2, <2>4
  <2>6. ASSUME garbage = 0
        PROVE  /\ faults' = 0 => SoundBut(wire', thread, -1)
               /\ faults' = 1 => \E d \in -1..Len(wire') : SoundBut(wire', thread, d)
    <3>1. CASE wire' = wire /\ faults' = faults
      BY <1>2, <2>6, <3>1
    <3>2. CASE wire' = wire \o Pieces(e) /\ faults' = faults
      <4>1. Extends(wire', wire, Pieces(e))
        <5> DEFINE q == Pieces(e)
        <5>1. q \in Seq(Piece)
          BY <2>1, PiecesSay DEF Says
        <5>2. wire' = wire \o q
          BY <3>2
        <5> HIDE DEF q
        <5>3. Extends(wire', wire, q)
          BY <1>1, <5>1, <5>2, JoinParts DEF Extends
        <5> QED
          BY <5>3 DEF q
      <4>2. \A d \in -1..Len(wire) : SoundBut(wire, thread, d) => SoundBut(wire', thread, d)
        BY <1>1, <4>1, WholeAppended
      <4>3. -1 \in -1..Len(wire) /\ \A d \in -1..Len(wire) : d \in -1..Len(wire')
        BY <1>1, <2>4
      <4> QED
        BY <1>2, <2>6, <3>2, <4>2, <4>3
    <3>3. CASE /\ faults' = faults + 1
               /\ \E x \in Damaged(e) : wire' = wire \o x
      <4>1. PICK x \in Damaged(e) : wire' = wire \o x
        BY <3>3
      <4>2. x \in Seq(Piece)
        BY <2>1, PiecesSay DEF Says
      <4>3. Extends(wire', wire, x)
        BY <1>1, <4>1, <4>2, JoinParts DEF Extends
      <4>4. faults' = 1 => SoundBut(wire, thread, -1)
        BY <1>1, <1>2, <2>6, <3>3
      <4>5. faults' = 1 => \E d \in -1..Len(wire') : SoundBut(wire', thread, d)
        BY <1>1, <4>3, <4>4, DamagedAppended
      <4> QED
        BY <1>1, <3>3, <4>5
    <3> QED
      BY <2>1, <3>1, <3>2, <3>3, SendIs
  <2> QED
    BY <1>1, <1>2, <2>2, <2>5, <2>6 DEF DamageTold, Followed, remote
<1> QED
  BY <1>3, <1>4

LEMMA HeaderDamage ==
  ASSUME InputTypeOK, DamageTold, ReadHeader
  PROVE  DamageTold'
<1>1. /\ wire \in Seq(Piece) /\ Len(wire) \in Nat /\ Len(wire) >= 3 /\ thread = "header"
      /\ UNCHANGED <<session, faults, garbage>>
  BY DEF ReadHeader, HeaderSize, InputTypeOK
<1>2. session # "open" => wire = <<>>
  BY DEF InputTypeOK
<1>3. session # "ended"
  BY <1>1, <1>2
<1>4. ValidHeader(Taken(3)) <=> wire[1].part = "magic" /\ wire[3].part = "size"
  <2> DEFINE n == 3
  <2>1. n \in Nat /\ Len(wire) >= n /\ n = 3
    BY <1>1
  <2> HIDE DEF n
  <2>2. \A k \in 1..n : Taken(n)[k] = wire[k]
    BY <1>1, <2>1, TakenWire
  <2>3. ValidHeader(Taken(n)) <=> wire[1].part = "magic" /\ wire[3].part = "size"
    BY <2>1, <2>2 DEF ValidHeader
  <2> QED
    BY <2>1, <2>3
<1>5. CASE thread' = "done"
  <2>1. ~ValidHeader(Taken(3))
    BY <1>5 DEF ReadHeader, HeaderSize
  <2>2. faults # 0
    <3> SUFFICES ASSUME faults = 0 PROVE FALSE
      OBVIOUS
    <3> DEFINE d == -1
    <3>1. garbage = 0 /\ Followed
      BY <1>1, <1>3 DEF DamageTold, Followed
    <3>2. SoundBut(wire, "header", d) /\ d \in -1..Len(wire) /\ d = -1
      BY <1>1, <3>1 DEF DamageTold
    <3> HIDE DEF d
    <3> QED
      BY <1>1, <1>4, <2>1, <3>2, HeaderSound
  <2> QED
    BY <1>1, <1>5, <2>2 DEF DamageTold, Followed
<1>6. CASE thread' # "done"
  <2>1. /\ thread' = "payload" /\ wire[1].part = "magic" /\ wire[3].part = "size"
        /\ Len(wire') = Len(wire) - 3
        /\ \A k \in 1..(Len(wire) - 3) : wire'[k] = wire[k + 3]
    BY <1>6, HeaderStep
  <2> DEFINE n == 3
  <2>2. /\ n \in Nat \ {0} /\ Len(wire) >= n /\ Len(wire') = Len(wire) - n
        /\ \A k \in 1..(Len(wire) - n) : wire'[k] = wire[k + n]
        /\ wire[n].part = Before("payload") /\ Before("payload") # "first"
    BY <1>1, <2>1 DEF Before
  <2>3. \A d \in Int : d >= 3 <=> d >= n
    OBVIOUS
  <2> HIDE DEF n
  <2>4. ASSUME NEW d \in -1..Len(wire), SoundBut(wire, "header", d),
               NEW b \in Int, b = d - n \/ (d < 0 /\ b < 0)
        PROVE  SoundBut(wire', "payload", b)
    <3>1. d \in Int
      OBVIOUS
    <3> QED
      BY <1>1, <2>2, <2>4, <3>1, RestSound
  <2>5. Followed /\ faults = 0 => SoundBut(wire', "payload", -1)
    <3> SUFFICES ASSUME Followed, faults = 0 PROVE SoundBut(wire', "payload", -1)
      OBVIOUS
    <3> DEFINE d == -1
    <3>1. SoundBut(wire, "header", d) /\ d \in -1..Len(wire) /\ d \in Int /\ d < 0
      BY <1>1 DEF DamageTold
    <3> HIDE DEF d
    <3>2. SoundBut(wire', "payload", d)
      BY <2>4, <3>1
    <3> QED
      BY <3>2 DEF d
  <2>6. Followed /\ faults = 1 => \E b \in -1..Len(wire') : SoundBut(wire', "payload", b)
    <3> SUFFICES ASSUME Followed, faults = 1
                 PROVE  \E b \in -1..Len(wire') : SoundBut(wire', "payload", b)
      OBVIOUS
    <3>1. PICK d \in -1..Len(wire) : SoundBut(wire, "header", d)
      BY <1>1 DEF DamageTold
    <3>2. d = -1 \/ d >= n
      BY <1>1, <2>1, <2>3, <3>1, HeaderSound
    <3> DEFINE b == IF d = -1 THEN d ELSE d - n
    <3>3. b \in Int /\ b \in -1..Len(wire') /\ (b = d - n \/ (d < 0 /\ b < 0))
      BY <1>1, <2>2, <3>2
    <3> HIDE DEF b
    <3>4. SoundBut(wire', "payload", b)
      BY <2>4, <3>1, <3>3
    <3> QED
      BY <3>3, <3>4
  <2>7. faults \in {0, 1} => garbage = 0
    <3>1. ~(wire[1].part \in {"ignored", "size"})
      BY <2>1
    <3> QED
      BY <1>1, <1>3, <3>1 DEF DamageTold
  <2> QED
    BY <1>1, <1>3, <2>1, <2>5, <2>6, <2>7 DEF DamageTold, Followed
<1> QED
  BY <1>5, <1>6

LEMMA PayloadDamage ==
  ASSUME InputTypeOK, DamageTold, ReadPayload
  PROVE  DamageTold'
<1>1. /\ wire \in Seq(Piece) /\ Len(wire) \in Nat /\ Len(wire) >= 2
      /\ thread = "payload" /\ thread' = "header"
      /\ Len(wire') = Len(wire) - 2
      /\ \A k \in 1..(Len(wire) - 2) : wire'[k] = wire[k + 2]
      /\ UNCHANGED <<session, faults>>
      /\ WholePayload <=> HasPayload(wire, 1, wire[1].event)
  BY PayloadStep DEF InputTypeOK
<1>2. session # "open" => wire = <<>>
  BY DEF InputTypeOK
<1>3. session # "ended"
  BY <1>1, <1>2
<1>4. /\ WholePayload => garbage' = garbage
      /\ ~WholePayload => garbage' = garbage + 1
  BY DEF ReadPayload
<1>5. faults \in {0, 1} => garbage = 0 /\ Followed
  BY <1>1, <1>3 DEF DamageTold, Followed
<1> DEFINE n == 2
<1>6. /\ n \in Nat \ {0} /\ Len(wire) >= n /\ Len(wire') = Len(wire) - n
      /\ \A k \in 1..(Len(wire) - n) : wire'[k] = wire[k + n]
      /\ n = 1 + 1
  BY <1>1
<1>7. \A d \in Int : d >= 2 <=> d >= n
  OBVIOUS
<1> HIDE DEF n
<1>8. ASSUME WholePayload, NEW d \in -1..Len(wire), SoundBut(wire, "payload", d),
             NEW b \in Int, b = d - n \/ (d < 0 /\ b < 0)
      PROVE  SoundBut(wire', "header", b)
  <2>1. wire[n].part = Before("header") /\ Before("header") # "first"
    BY <1>1, <1>6, <1>8 DEF HasPayload, Before
  <2>2. d \in Int
    OBVIOUS
  <2> QED
    BY <1>1, <1>6, <1>8, <2>1, <2>2, RestSound
<1>9. CASE faults = 0
  <2> DEFINE d == -1
  <2>1. SoundBut(wire, "payload", d) /\ d \in -1..Len(wire) /\ d = -1 /\ d \in Int /\ d < 0
    BY <1>1, <1>5, <1>9 DEF DamageTold
  <2> HIDE DEF d
  <2>2. WholePayload
    BY <1>1, <2>1, PayloadSound
  <2>3. SoundBut(wire', "header", d)
    BY <1>8, <2>1, <2>2
  <2>4. SoundBut(wire', "header", -1) /\ garbage' = 0
    BY <1>4, <1>5, <1>9, <2>1, <2>2, <2>3
  <2> QED
    BY <1>1, <1>9, <2>4 DEF DamageTold, Followed
<1>10. CASE faults = 1
  <2>1. PICK d \in -1..Len(wire) : SoundBut(wire, "payload", d)
    BY <1>1, <1>5, <1>10 DEF DamageTold
  <2>2. CASE WholePayload
    <3>1. d = -1 \/ d >= n
      BY <1>1, <1>7, <2>1, <2>2, PayloadSound
    <3> DEFINE b == IF d = -1 THEN d ELSE d - n
    <3>2. b \in Int /\ b \in -1..Len(wire') /\ (b = d - n \/ (d < 0 /\ b < 0))
      BY <1>1, <1>6, <3>1
    <3> HIDE DEF b
    <3>3. SoundBut(wire', "header", b)
      BY <1>8, <2>1, <2>2, <3>2
    <3>4. garbage' = 0
      BY <1>4, <1>5, <1>10, <2>2
    <3> QED
      BY <1>1, <1>10, <3>2, <3>3, <3>4 DEF DamageTold, Followed
  <2>3. CASE ~WholePayload
    <3>1. Len(wire) >= 3 /\ wire[3].part \in {"ignored", "size"}
      BY <1>1, <2>1, <2>3, PayloadSound
    <3>2. garbage' # 0
      BY <1>4, <1>5, <1>10, <2>3
    <3>3. Len(wire') > 0 /\ wire'[1] = wire[1 + 2]
      BY <1>1, <3>1
    <3>4. wire'[1].part \in {"ignored", "size"}
      <4>1. 1 + 2 = 3
        OBVIOUS
      <4> QED
        BY <3>1, <3>3, <4>1
    <3> QED
      BY <1>1, <1>10, <3>2, <3>3, <3>4 DEF DamageTold, Followed
  <2> QED
    BY <2>2, <2>3
<1>11. CASE faults \notin {0, 1}
  BY <1>1, <1>11 DEF DamageTold
<1> QED
  BY <1>9, <1>10, <1>11

LEMMA DamageToldInit == InputInit => DamageTold
<1> SUFFICES ASSUME InputInit PROVE DamageTold
  OBVIOUS
<1>1. wire = <<>> /\ thread = "header" /\ faults = 0 /\ garbage = 0
  BY DEF InputInit
<1>2. Len(wire) = 0
  BY <1>1
<1> DEFINE n == Len(wire)
<1>3. Prev(wire, "header", n).part = "last"
  BY <1>2 DEF Prev, Before
<1>4. n = 0
  BY <1>2
<1> HIDE DEF n
<1>5. \A k \in 0..(n - 1) : FALSE
  BY <1>4
<1>6. -1 # n
  BY <1>4
<1>7. SoundBut(wire, "header", -1)
  BY <1>3, <1>5, <1>6 DEF SoundBut, n
<1> QED
  BY <1>1, <1>7 DEF DamageTold

LEMMA DamageToldStep ==
  InputTypeOK /\ DamageTold /\ [InputNext]_inputVars => DamageTold'
<1> SUFFICES ASSUME InputTypeOK, DamageTold, [InputNext]_inputVars
             PROVE  DamageTold'
  OBVIOUS
<1>1. CASE TransportOpens \/ FirstFrame \/ UNCHANGED inputVars
  <2>1. /\ UNCHANGED <<wire, faults, remote>>
        /\ session' # "ended" => session # "ended"
    BY <1>1 DEF TransportOpens, FirstFrame, inputVars, user, window, sending
  <2> QED
    BY <2>1 DEF DamageTold, Followed, remote
<1>2. CASE LinkEnds \/ ReadFails
  <2>1. session' = "ended"
    BY <1>2 DEF LinkEnds, ReadFails
  <2> QED
    BY <2>1 DEF DamageTold, Followed
<1> QED
  BY <1>1, <1>2, UserDamage, HeaderDamage, PayloadDamage DEF InputNext, InputThread

LEMMA FirstGarbage ==
  ASSUME InputTypeOK, DamageTold, [InputNext]_inputVars, Injects, faults <= 1
  PROVE  garbage = 0
<1>1. thread = "payload" /\ thread' = "header"
  BY DEF Injects
<1>2. ReadPayload
  <2>1. User \/ TransportOpens \/ FirstFrame \/ LinkEnds \/ UNCHANGED inputVars
          => UNCHANGED thread
    BY UserSends DEF TransportOpens, FirstFrame, LinkEnds, inputVars, remote
  <2>2. ReadHeader \/ ReadFails => thread' # "header"
    BY DEF ReadHeader, ReadFails
  <2> QED
    BY <1>1, <2>1, <2>2 DEF InputNext, InputThread
<1>3. Len(wire) >= 2 /\ (session # "open" => wire = <<>>) /\ faults \in {0, 1}
  BY <1>2 DEF ReadPayload, PayloadSize, InputTypeOK
<1>4. session # "ended"
  BY <1>3
<1> QED
  BY <1>1, <1>3, <1>4 DEF DamageTold

(***************************************************************************)
(* One cut of the stream makes the input thread inject at most one payload *)
(* that no message had.                                                    *)
(***************************************************************************)
THEOREM OneCutOneGarbage == InputSpec => DamageIsBounded
<1>1. InputInit => InputTypeOK /\ DamageTold
  BY InputTypeInit, DamageToldInit
<1>2. (InputTypeOK /\ DamageTold) /\ [InputNext]_inputVars
        => (InputTypeOK /\ DamageTold)'
  BY InputTypeStep, DamageToldStep
<1>3. (InputTypeOK /\ DamageTold) /\ [InputNext]_inputVars
        => [Injects /\ faults <= 1 => garbage = 0]_inputVars
  BY FirstGarbage
<1> QED
  BY <1>1, <1>2, <1>3, PTL DEF InputSpec, DamageIsBounded
=============================================================================
