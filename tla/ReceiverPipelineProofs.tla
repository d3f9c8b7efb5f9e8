----------------------- MODULE ReceiverPipelineProofs -----------------------
(***************************************************************************)
(* Proofs about ReceiverPipeline, for any number of decode workers, any    *)
(* messages, any size of the window and any failures: its type, that main  *)
(* frees nothing a thread still uses, that no frame overwrites a later     *)
(* patch, and that what the window shows never falls behind unnoticed.     *)
(***************************************************************************)
EXTENDS ReceiverPipeline, FiniteSetTheorems, SequenceTheorems, TLAPS

\* The type invariant, in parts that few steps disturb.
WireTypes ==
  /\ wire \in Seq(Messages) /\ received \in 0..Len(wire)
  /\ receiverLink \in {"none", "open", "failed", "closed"}
  /\ ioPc \in {"open", "check", "recv", "apply", "post", "shutdown", "close",
               "done", "unheard", "none"}
  /\ ioNumber \in Numbers \cup {NoJob}
  /\ ioPc \in {"apply", "post"} <=> ioNumber # NoJob

PoolTypes ==
  /\ decodeQueue \in Seq(Numbers)
  /\ decodeShutdown \in BOOLEAN
  /\ decodePc \in [Decoders -> {"pop", "check", "decode", "post", "done", "none"}]
  /\ decodeJob \in [Decoders -> Numbers \cup {NoJob}]
  /\ \A w \in Decoders : decodePc[w] \in {"decode", "post"} <=> decodeJob[w] # NoJob
  /\ \A w \in Decoders : decodeJob[w] \notin ToSet(decodeQueue)

FrameTypes ==
  /\ HasFrame => LET tiles == DOMAIN framebuffer
                 IN  tiles = (0..(Width(tiles) - 1)) \X (0..(Height(tiles) - 1))
  /\ \A t \in DOMAIN framebuffer :
       framebuffer[t] \in (Nat \X Nat) \X Numbers

WindowTypes ==
  /\ posted \in Seq(Rect \cup {All, Close})
  /\ invalid \subseteq Client /\ unseen \subseteq Client
  /\ DOMAIN shown = Client
  /\ stopEvent \in BOOLEAN
  /\ uiPc \in {"show", "loop", "abort", "joinIo", "joinDecode", "destroy", "exit"}

\* main has waited for the I/O thread before it waits for the workers.
JoinedInOrder == uiPc = "joinDecode" => Missing(ioPc)

\* The I/O thread applies the message that it has read last.
AppliesTheLast == ioNumber \in {NoJob, received}

Increasing(q) == \A i, j \in 1..Len(q) : i < j => q[i] < q[j]

\* What is in the decode pool arrived in this order, and is no frame.
PoolInOrder ==
  /\ Increasing(decodeQueue)
  /\ \A n \in ToSet(decodeQueue) : wire[n].type # "FULL_FRAME"
  /\ \A w \in Decoders :
       decodeJob[w] # NoJob => wire[decodeJob[w]].type # "FULL_FRAME"

FrameIsRegion == HasFrame => IsRegion(DOMAIN framebuffer)

ReceiverInv ==
  /\ ReceiverTypeOK
  /\ FrameIsRegion
  /\ AppliesTheLast
  /\ PoolInOrder
  /\ JoinedInOrder
  /\ ReceiverNoUseAfterFree
  /\ NoLostInvalidation

-----------------------------------------------------------------------------
(* Regions.                                                                 *)

(* A set of natural numbers that is not empty has a least element.         *)
LEMMA LeastExists ==
  ASSUME NEW S \in SUBSET Nat, S # {}
  PROVE  \E x \in S : \A y \in S : x <= y
<1> DEFINE R == OpToRel(<, Nat)
<1>1. IsWellFoundedOn(R, Nat)
  BY NatLessThanWellFounded
<1>2. \A x, y \in Nat : y < x => <<y, x>> \in R
  BY DEF OpToRel
<1> HIDE DEF R
<1>3. PICK x \in S : \A y \in S : ~ (<<y, x>> \in R)
  BY <1>1, WFMin
<1>4. \A y \in S : ~ (y < x)
  BY <1>2, <1>3
<1> QED
  BY <1>4

(* A finite one has a greatest element too: with as few above it as can be. *)
LEMMA GreatestExists ==
  ASSUME NEW S \in SUBSET Nat, IsFiniteSet(S), S # {}
  PROVE  \E x \in S : \A y \in S : y <= x
<1> DEFINE Above(x) == {y \in S : y > x}
           Counts == {Cardinality(Above(x)) : x \in S}
<1>1. \A x \in S : IsFiniteSet(Above(x)) /\ Cardinality(Above(x)) \in Nat
  BY FS_Subset, FS_CardinalityType
<1>2. PICK x \in S : \A y \in S : Cardinality(Above(x)) <= Cardinality(Above(y))
  <2>1. Counts \in SUBSET Nat /\ Counts # {}
    BY <1>1
  <2>2. PICK n \in Counts : \A m \in Counts : n <= m
    BY <2>1, LeastExists
  <2> QED
    BY <2>2
<1>3. ASSUME NEW y \in S, y > x
      PROVE  FALSE
  <2>1. \A z \in Above(y) : z \in Above(x)
    BY <1>3
  <2>2. y \in Above(x) /\ y \notin Above(y)
    BY <1>3
  <2>3. /\ Cardinality(Above(y)) <= Cardinality(Above(x))
        /\ Cardinality(Above(y)) # Cardinality(Above(x))
    <3> HIDE DEF Above
    <3> QED
      BY <1>1, <2>1, <2>2, FS_Subset
  <2> QED
    BY <1>1, <1>2, <2>3
<1> QED
  BY <1>3

LEMMA MaxIs ==
  ASSUME NEW S \in SUBSET Int, NEW x \in S, \A y \in S : y <= x
  PROVE  Max(S) = x
<1>1. \E m \in S : \A y \in S : m >= y
  OBVIOUS
<1>2. Max(S) \in S /\ \A y \in S : Max(S) >= y
  BY <1>1, Zenon DEF Max
<1>3. Max(S) >= x /\ Max(S) <= x /\ Max(S) \in Int
  BY <1>2
<1> QED
  BY <1>3

LEMMA MinIs ==
  ASSUME NEW S \in SUBSET Int, NEW x \in S, \A y \in S : x <= y
  PROVE  Min(S) = x
<1>1. \E m \in S : \A y \in S : m =< y
  OBVIOUS
<1>2. Min(S) \in S /\ \A y \in S : Min(S) =< y
  BY <1>1, Zenon DEF Min
<1>3. Min(S) >= x /\ Min(S) <= x /\ Min(S) \in Int
  BY <1>2
<1> QED
  BY <1>3

(* The extents of a region: its columns and rows are those from Left and    *)
(* Top on, below Width and Height.                                          *)
LEMMA Extents ==
  ASSUME NEW tiles, IsRegion(tiles)
  PROVE  /\ Left(tiles) \in Nat /\ Top(tiles) \in Nat
         /\ Width(tiles) \in Nat /\ Height(tiles) \in Nat
         /\ Left(tiles) < Width(tiles) /\ Top(tiles) < Height(tiles)
         /\ tiles = (Left(tiles)..(Width(tiles) - 1)) \X (Top(tiles)..(Height(tiles) - 1))
<1> DEFINE Columns == {t[1] : t \in tiles}
           Rows == {t[2] : t \in tiles}
           column == [t \in tiles |-> t[1]]
           row == [t \in tiles |-> t[2]]
<1>1. Columns \in SUBSET Nat /\ Columns # {} /\ Rows \in SUBSET Nat /\ Rows # {}
  BY DEF IsRegion
<1>2. IsFiniteSet(Columns) /\ IsFiniteSet(Rows)
  <2>1. column \in Surjection(tiles, Columns) /\ row \in Surjection(tiles, Rows)
    BY DEF Surjection
  <2> QED
    BY <2>1, FS_Surjection DEF IsRegion
<1>3. PICK a, b \in tiles : \A t \in tiles : a[1] <= t[1] /\ t[1] <= b[1]
  <2>1. PICK x \in Columns : \A z \in Columns : x <= z
    BY <1>1, LeastExists
  <2>2. PICK y \in Columns : \A z \in Columns : z <= y
    BY <1>1, <1>2, GreatestExists
  <2>3. PICK a \in tiles : a[1] = x
    OBVIOUS
  <2>4. PICK b \in tiles : b[1] = y
    OBVIOUS
  <2>5. \A t \in tiles : t[1] \in Columns
    OBVIOUS
  <2> QED
    BY <2>1, <2>2, <2>3, <2>4, <2>5
<1>4. PICK c, d \in tiles : \A t \in tiles : c[2] <= t[2] /\ t[2] <= d[2]
  <2>1. PICK x \in Rows : \A z \in Rows : x <= z
    BY <1>1, LeastExists
  <2>2. PICK y \in Rows : \A z \in Rows : z <= y
    BY <1>1, <1>2, GreatestExists
  <2>3. PICK c \in tiles : c[2] = x
    OBVIOUS
  <2>4. PICK d \in tiles : d[2] = y
    OBVIOUS
  <2>5. \A t \in tiles : t[2] \in Rows
    OBVIOUS
  <2> QED
    BY <2>1, <2>2, <2>3, <2>4, <2>5
<1>5. Left(tiles) = a[1] /\ Width(tiles) = b[1] + 1
  <2>1. a[1] \in Columns /\ b[1] \in Columns
    OBVIOUS
  <2>2. \A z \in Columns : a[1] <= z
    BY <1>3
  <2>3. \A z \in Columns : z <= b[1]
    BY <1>3
  <2>4. Columns \in SUBSET Int
    BY <1>1
  <2> HIDE DEF Columns
  <2>5. Min(Columns) = a[1]
    BY <2>1, <2>2, <2>4, MinIs
  <2>6. Max(Columns) = b[1]
    BY <2>1, <2>3, <2>4, MaxIs
  <2> QED
    BY <2>5, <2>6 DEF Columns, Left, Width
<1>6. Top(tiles) = c[2] /\ Height(tiles) = d[2] + 1
  <2>1. c[2] \in Rows /\ d[2] \in Rows
    OBVIOUS
  <2>2. \A z \in Rows : c[2] <= z
    BY <1>4
  <2>3. \A z \in Rows : z <= d[2]
    BY <1>4
  <2>4. Rows \in SUBSET Int
    BY <1>1
  <2> HIDE DEF Rows
  <2>5. Min(Rows) = c[2]
    BY <2>1, <2>2, <2>4, MinIs
  <2>6. Max(Rows) = d[2]
    BY <2>1, <2>3, <2>4, MaxIs
  <2> QED
    BY <2>5, <2>6 DEF Rows, Top, Height
<1>7. (a[1]..b[1]) \X (c[2]..d[2]) \subseteq tiles
  BY DEF IsRegion
<1>8. tiles \subseteq (a[1]..b[1]) \X (c[2]..d[2])
  BY <1>3, <1>4 DEF IsRegion
<1> QED
  BY <1>3, <1>4, <1>5, <1>6, <1>7, <1>8 DEF IsRegion

(* The box at the origin that is w columns wide and h rows high.            *)
LEMMA BoxExtents ==
  ASSUME NEW w \in Nat \ {0}, NEW h \in Nat \ {0},
         NEW box, box = (0..(w - 1)) \X (0..(h - 1))
  PROVE  /\ IsRegion(box)
         /\ Width(box) = w /\ Height(box) = h /\ Left(box) = 0 /\ Top(box) = 0
<1>1. IsFiniteSet(box)
  <2>1. IsFiniteSet(0..(w - 1)) /\ IsFiniteSet(0..(h - 1))
    BY FS_Interval
  <2> QED
    BY <2>1, FS_Product
<1>2. <<0, 0>> \in box /\ box \subseteq Nat \X Nat
  OBVIOUS
<1>3. IsRegion(box)
  <2>1. ASSUME NEW a \in box, NEW b \in box, NEW c \in box, NEW d \in box
        PROVE  (a[1]..b[1]) \X (c[2]..d[2]) \subseteq box
    OBVIOUS
  <2> QED
    BY <1>1, <1>2, <2>1 DEF IsRegion
<1>4. box = (Left(box)..(Width(box) - 1)) \X (Top(box)..(Height(box) - 1))
  BY <1>3, Extents
<1>5. /\ Left(box) \in Nat /\ Top(box) \in Nat
      /\ Width(box) \in Nat /\ Height(box) \in Nat
      /\ Left(box) < Width(box) /\ Top(box) < Height(box)
  BY <1>3, Extents
<1>6. <<Left(box), Top(box)>> \in box /\ <<Width(box) - 1, Height(box) - 1>> \in box
  BY <1>4, <1>5
<1>7. <<0, 0>> \in box /\ <<w - 1, h - 1>> \in box
  OBVIOUS
<1> QED
  BY <1>3, <1>4, <1>5, <1>6, <1>7

(* A picture decoded is a box at the origin, as large as its region, all of *)
(* it from the message it came with.                                        *)
LEMMA DecodedFrameIs ==
  ASSUME NEW n, IsRegion(wire[n].cells)
  PROVE  /\ IsRegion(DOMAIN DecodedFrame(n))
         /\ Width(DOMAIN DecodedFrame(n)) = Width(wire[n].cells) - Left(wire[n].cells)
         /\ Height(DOMAIN DecodedFrame(n)) = Height(wire[n].cells) - Top(wire[n].cells)
         /\ Left(DOMAIN DecodedFrame(n)) = 0 /\ Top(DOMAIN DecodedFrame(n)) = 0
         /\ \A t \in DOMAIN DecodedFrame(n) :
              DecodedFrame(n)[t] \in (Nat \X Nat) \X {n}
<1> DEFINE cells == wire[n].cells
           x == Left(cells)
           y == Top(cells)
           w == Width(cells) - x
           h == Height(cells) - y
           box == (0..(w - 1)) \X (0..(h - 1))
<1>1. /\ x \in Nat /\ y \in Nat /\ w \in Nat \ {0} /\ h \in Nat \ {0}
      /\ cells = (x..(x + w - 1)) \X (y..(y + h - 1))
  BY Extents
<1>2. {<<c[1] - x, c[2] - y>> : c \in cells} = box
  <2>1. ASSUME NEW c \in cells
        PROVE  <<c[1] - x, c[2] - y>> \in box
    BY <1>1
  <2>2. ASSUME NEW t \in box
        PROVE  \E c \in cells : t = <<c[1] - x, c[2] - y>>
    <3>1. <<t[1] + x, t[2] + y>> \in cells
      BY <1>1
    <3>2. t = <<(t[1] + x) - x, (t[2] + y) - y>>
      BY <1>1
    <3> QED
      BY <3>1, <3>2
  <2> QED
    BY <2>1, <2>2
<1>3. DecodedFrame(n) = [t \in box |-> <<<<t[1] + x, t[2] + y>>, n>>]
  BY <1>2 DEF DecodedFrame
<1>4. \A t \in box : <<t[1] + x, t[2] + y>> \in Nat \X Nat
  BY <1>1
<1>5. DOMAIN DecodedFrame(n) = box
  BY <1>3
<1> QED
  BY <1>1, <1>3, <1>4, <1>5, BoxExtents

(* A region that starts at the origin is decoded in place.                  *)
LEMMA DecodedInPlace ==
  ASSUME NEW n, IsRegion(wire[n].cells), <<0, 0>> \in wire[n].cells
  PROVE  DecodedFrame(n) = [t \in wire[n].cells |-> <<t, n>>]
<1> DEFINE cells == wire[n].cells
<1>1. /\ Left(cells) \in Nat /\ Top(cells) \in Nat
      /\ Width(cells) \in Nat /\ Height(cells) \in Nat
      /\ cells = (Left(cells)..(Width(cells) - 1)) \X (Top(cells)..(Height(cells) - 1))
  BY Extents
<1>2. Left(cells) = 0 /\ Top(cells) = 0
  BY <1>1
<1>3. \A t \in cells : /\ <<t[1] - 0, t[2] - 0>> = t
                       /\ <<t[1] + 0, t[2] + 0>> = t
  BY <1>1
<1>4. {<<c[1] - 0, c[2] - 0>> : c \in cells} = cells
  BY <1>3
<1>5. DecodedFrame(n) = [t \in cells |-> <<<<t[1] + 0, t[2] + 0>>, n>>]
  BY <1>2, <1>4 DEF DecodedFrame
<1> QED
  BY <1>3, <1>5

-----------------------------------------------------------------------------
(* Scaling.                                                                 *)

(* The client pixel p, of c, that StretchDIBits makes of the tile a, of w,  *)
(* lies in the scaled interval from l to r that contains this tile.         *)
LEMMA ScaledCovers ==
  ASSUME NEW w \in Nat \ {0}, NEW c \in Nat \ {0}, NEW p \in Nat, NEW a \in Nat,
         NEW l \in Nat, NEW r \in Nat, l <= a, a < r,
         a * c < (p + 1) * w, (a + 1) * c > p * w
  PROVE  p >= (l * c) \div w /\ p < (r * c) \div w + 1
<1>1. p >= (l * c) \div w
  <2>1. l * c <= a * c
    OBVIOUS
  <2>2. ((l * c) \div w) * w <= l * c
    OBVIOUS
  <2>3. ((l * c) \div w) * w < (p + 1) * w
    BY <2>1, <2>2
  <2> QED
    BY <2>3
<1>2. p < (r * c) \div w + 1
  <2>1. (a + 1) * c <= r * c
    OBVIOUS
  <2>2. r * c < ((r * c) \div w + 1) * w
    OBVIOUS
  <2>3. p * w < ((r * c) \div w + 1) * w
    BY <2>1, <2>2
  <2> QED
    BY <2>3
<1> QED
  BY <1>1, <1>2

(* The interval of the whole frame is scaled to the whole client area.      *)
LEMMA ScaledWhole ==
  ASSUME NEW w \in Nat \ {0}, NEW c \in Nat \ {0}
  PROVE  (0 * c) \div w = 0 /\ (w * c) \div w = c
OBVIOUS

-----------------------------------------------------------------------------
(* What the steps of the receiver have in common.                           *)

(* Every message sent carries a region.                                     *)
LEMMA MessagesAreRegions ==
  ASSUME wire \in Seq(Messages), NEW n \in 1..Len(wire)
  PROVE  IsRegion(wire[n].cells)
BY ReceiverAssumption

LEMMA RectTypes ==
  ASSUME NEW cells, IsRegion(cells)
  PROVE  RectOf(cells) \in Rect /\ FrameRect(cells) \in Rect
BY Extents DEF RectOf, FrameRect, Rect

LEMMA PixelsOfClient ==
  ASSUME NEW rect
  PROVE  InvalidPixels(rect) \subseteq Client
BY DEF InvalidPixels

(* A notification keeps the types of the window's state.                    *)
LEMMA PostTypes ==
  ASSUME NEW rect \in Rect, PostFrameReady(rect),
         posted \in Seq(Rect \cup {All, Close}), unseen \in SUBSET Client
  PROVE  posted' \in Seq(Rect \cup {All, Close}) /\ unseen' \in SUBSET Client
BY PixelsOfClient DEF PostFrameReady

(* A patch changes neither the extent of the framebuffer nor tiles outside  *)
(* of its region.                                                           *)
LEMMA PatchedIs ==
  ASSUME NEW n, NEW frame, frame = Patched(framebuffer, n)
  PROVE  /\ DOMAIN frame = DOMAIN framebuffer
         /\ \A t \in DOMAIN framebuffer :
              \/ frame[t] = framebuffer[t]
              \/ /\ wire[n].cells \subseteq DOMAIN framebuffer
                 /\ t \in wire[n].cells
                 /\ frame[t] = <<t, n>>
         /\ ~HasFrame /\ IsRegion(wire[n].cells) => frame = framebuffer
BY DEF Patched, IsRegion, HasFrame, NoFrame

-----------------------------------------------------------------------------
(* Queues of message numbers.                                               *)

LEMMA QueueKeeps ==
  ASSUME NEW n \in Nat, NEW q \in Seq(1..n)
  PROVE  q \in Seq(1..(n + 1)) /\ ToSet(q) \subseteq 1..n
<1>1. q \in Seq(1..(n + 1))
  BY SeqMonotonic
<1> QED
  BY <1>1, LenProperties DEF ToSet

LEMMA QueueGrows ==
  ASSUME NEW n \in Nat, NEW q \in Seq(1..n), Increasing(q),
         NEW new, new = Append(q, n + 1)
  PROVE  /\ new \in Seq(1..(n + 1))
         /\ ToSet(new) = ToSet(q) \cup {n + 1}
         /\ Increasing(new)
<1>1. /\ new \in Seq(1..(n + 1)) /\ Len(new) = Len(q) + 1 /\ Len(q) \in Nat
      /\ new[Len(q) + 1] = n + 1
      /\ \A i \in 1..Len(q) : new[i] = q[i] /\ q[i] \in 1..n
  BY QueueKeeps, AppendProperties
<1>2. DOMAIN new = 1..(Len(q) + 1) /\ DOMAIN q = 1..Len(q)
  BY <1>1, LenProperties
<1>3. ToSet(new) = ToSet(q) \cup {n + 1}
  BY <1>1, <1>2 DEF ToSet
<1>4. Increasing(new)
  <2>1. ASSUME NEW i \in 1..Len(new), NEW j \in 1..Len(new), i < j
        PROVE  new[i] < new[j]
    <3>1. CASE j = Len(q) + 1
      BY <1>1, <2>1, <3>1
    <3>2. CASE j \in 1..Len(q)
      BY <1>1, <2>1, <3>2 DEF Increasing
    <3> QED
      BY <1>1, <3>1, <3>2
  <2> QED
    BY <2>1 DEF Increasing
<1> QED
  BY <1>1, <1>3, <1>4

LEMMA QueuePops ==
  ASSUME NEW n \in Nat, NEW q \in Seq(1..n), Increasing(q), CanPop(q),
         NEW new, new = Tail(q)
  PROVE  /\ Head(q) \in 1..n /\ Head(q) \in ToSet(q)
         /\ new \in Seq(1..n) /\ Increasing(new)
         /\ ToSet(new) \subseteq ToSet(q) \ {Head(q)}
         /\ \A m \in ToSet(new) : Head(q) < m
<1>1. /\ Len(q) \in Nat \ {0} /\ Head(q) = q[1]
      /\ new \in Seq(1..n) /\ Len(new) = Len(q) - 1
      /\ \A i \in 1..Len(new) : new[i] = q[i + 1]
      /\ \A i \in 1..Len(q) : q[i] \in 1..n
  BY HeadTailProperties, LenProperties DEF CanPop
<1>2. DOMAIN new = 1..(Len(q) - 1) /\ DOMAIN q = 1..Len(q)
  BY <1>1, LenProperties
<1>3. Increasing(new)
  BY <1>1 DEF Increasing
<1>4. \A i \in 1..Len(new) : q[1] < new[i] /\ new[i] \in ToSet(q)
  BY <1>1, <1>2 DEF Increasing, ToSet
<1>5. /\ ToSet(new) \subseteq ToSet(q) \ {Head(q)}
      /\ \A m \in ToSet(new) : Head(q) < m
  BY <1>1, <1>2, <1>4 DEF ToSet
<1>6. Head(q) \in ToSet(q)
  BY <1>1, <1>2 DEF ToSet
<1> QED
  BY <1>1, <1>3, <1>5, <1>6

-----------------------------------------------------------------------------
(* The type invariant.                                                      *)

LEMMA TypesInParts ==
  ReceiverTypeOK <=> WireTypes /\ PoolTypes /\ FrameTypes /\ WindowTypes
BY DEF ReceiverTypeOK, WireTypes, PoolTypes, FrameTypes, WindowTypes

(* The connection and the I/O thread.                                       *)
LEMMA WireStep ==
  ASSUME WireTypes, [ReceiverNext]_receiverVars
  PROVE  WireTypes'
<1> USE DEF WireTypes, Numbers, NoJob, IoUnchanged, UiUnchanged,
            PeerUnchanged, ioVars, Receivable, Destroyed, Waiting
<1>1. CASE IoOpen
  BY <1>1 DEF IoOpen
<1>2. CASE IoOpenFails
  BY <1>2 DEF IoOpenFails
<1>3. CASE IoCheckStop
  BY <1>3 DEF IoCheckStop
<1>4. CASE IoRecvFrame
  BY <1>4 DEF IoRecvFrame
<1>5. CASE IoRecvUpdate
  BY <1>5 DEF IoRecvUpdate
<1>6. CASE IoRecvFails
  BY <1>6 DEF IoRecvFails
<1>7. CASE IoApply
  BY <1>7 DEF IoApply
<1>8. CASE IoDecodeFails
  BY <1>8 DEF IoDecodeFails
<1>9. CASE IoPost
  BY <1>9 DEF IoPost
<1>10. CASE IoShutdownQueue
  BY <1>10 DEF IoShutdownQueue
<1>11. CASE IoPostClose
  BY <1>11 DEF IoPostClose
<1>12. CASE UiClose
  BY <1>12 DEF UiClose
<1>13. CASE UiAbort
  BY <1>13 DEF UiAbort
<1>14. CASE UiUserCloses
  BY <1>14 DEF UiUserCloses
<1>15. CASE PeerSends
  <2>1. PICK m \in Messages : wire' = Append(wire, m)
    BY <1>15 DEF PeerSends
  <2>2. wire' \in Seq(Messages) /\ Len(wire') = Len(wire) + 1
    BY <2>1
  <2> QED
    BY <1>15, <2>2 DEF PeerSends
<1>16. CASE PeerCloses
  BY <1>16 DEF PeerCloses
<1>17. CASE \/ \E w \in Decoders : DecodeWorker(w)
           \/ UiUpdateWindow \/ UiFrameReady \/ UiPaint \/ UiJoinIo \/ UiJoinDecode
           \/ UiDestroyQueue \/ UiTerminated \/ UNCHANGED receiverVars
  <2>1. UNCHANGED <<wire, received, receiverLink, ioPc, ioNumber>>
    BY <1>17
    DEF DecodePop, DecodePopNothing, DecodeCheckShutdown, DecodePatch,
        DecodeFails, DecodePost, UiFrameReady, UiUpdateWindow, Paint, UiPaint,
        UiJoinIo, UiJoinDecode, UiDestroyQueue, UiTerminated, DecodeWorker, EndDecode,
        UiAdvance, IoUnchanged, DecodeUnchanged, UiUnchanged, PeerUnchanged,
        ioVars, queueVars, decodeVars, windowVars, receiverVars
  <2> QED
    BY <2>1
<1> QED
  BY <1>1, <1>2, <1>3, <1>4, <1>5, <1>6, <1>7, <1>8, <1>9, <1>10, <1>11,
     <1>12, <1>13, <1>14, <1>15, <1>16, <1>17
  DEF ReceiverNext, ReceiverStep, IoThread, DecodeWorker, UiThread

(* The decode pool.                                                         *)
LEMMA PoolStep ==
  ASSUME WireTypes, PoolTypes, PoolInOrder, [ReceiverNext]_receiverVars
  PROVE  PoolTypes'
<1> USE DEF PoolTypes, Numbers, NoJob, IoUnchanged, DecodeUnchanged,
            UiUnchanged, ioVars, queueVars, decodeVars, Receivable,
            EndDecode, UiAdvance, Destroyed
<1>1. CASE IoRecvFrame
  <2>1. received \in Nat /\ received' = received + 1
    BY <1>1 DEF IoRecvFrame, WireTypes
  <2>2. decodeQueue \in Seq(Numbers') /\ Numbers \subseteq Numbers'
    BY <2>1, QueueKeeps
  <2> QED
    BY <1>1, <2>2 DEF IoRecvFrame
<1>2. CASE IoRecvUpdate
  <2>1. received \in Nat /\ received' = received + 1
    BY <1>2 DEF IoRecvUpdate, WireTypes
  <2>2. Numbers \subseteq Numbers'
    BY <2>1
  <2>3. decodeQueue' \in Seq(Numbers')
    BY <1>2, <2>1, QueueKeeps, QueueGrows DEF IoRecvUpdate, PoolInOrder
  <2>4. ToSet(decodeQueue') \subseteq ToSet(decodeQueue) \cup {received + 1}
    BY <1>2, <2>1, QueueGrows DEF IoRecvUpdate, PoolInOrder
  <2>5. \A w \in Decoders : decodeJob[w] # received + 1
    BY <2>1
  <2> QED
    BY <1>2, <2>2, <2>3, <2>4, <2>5 DEF IoRecvUpdate
<1>3. CASE IoShutdownQueue
  BY <1>3 DEF IoShutdownQueue
<1>4. ASSUME NEW w \in Decoders, DecodePop(w)
      PROVE  PoolTypes'
  <2>1. /\ Head(decodeQueue) \in Numbers
        /\ decodeQueue' \in Seq(Numbers)
        /\ ToSet(decodeQueue') \subseteq ToSet(decodeQueue) \ {Head(decodeQueue)}
    <3>1. CanPop(decodeQueue) /\ decodeQueue' = Tail(decodeQueue)
      BY <1>4 DEF DecodePop
    <3>2. received \in Nat /\ Increasing(decodeQueue)
      BY DEF PoolInOrder, WireTypes
    <3> QED
      BY <3>1, <3>2, QueuePops
  <2> QED
    BY <1>4, <2>1 DEF DecodePop
<1>5. ASSUME NEW w \in Decoders, DecodePopNothing(w)
      PROVE  PoolTypes'
  BY <1>5 DEF DecodePopNothing
<1>6. ASSUME NEW w \in Decoders, DecodeCheckShutdown(w)
      PROVE  PoolTypes'
  BY <1>6 DEF DecodeCheckShutdown
<1>7. ASSUME NEW w \in Decoders, DecodePatch(w)
      PROVE  PoolTypes'
  BY <1>7 DEF DecodePatch
<1>8. ASSUME NEW w \in Decoders, DecodeFails(w)
      PROVE  PoolTypes'
  <2>1. ToSet(decodeQueue) \subseteq Numbers
    BY QueueKeeps DEF WireTypes
  <2> QED
    BY <1>8, <2>1 DEF DecodeFails
<1>9. ASSUME NEW w \in Decoders, DecodePost(w)
      PROVE  PoolTypes'
  <2>1. ToSet(decodeQueue) \subseteq Numbers
    BY QueueKeeps DEF WireTypes
  <2> QED
    BY <1>9, <2>1 DEF DecodePost
<1>10. CASE UiAbort
  BY <1>10 DEF UiAbort
<1>11. CASE UiDestroyQueue
  <2>1. ToSet(<<>>) = {} /\ <<>> \in Seq(Numbers)
    BY DEF ToSet
  <2> QED
    BY <1>11, <2>1 DEF UiDestroyQueue
<1>12. CASE \/ IoOpen \/ IoOpenFails \/ IoCheckStop \/ IoRecvFails
           \/ IoApply \/ IoDecodeFails \/ IoPost \/ IoPostClose
           \/ UiUpdateWindow \/ UiFrameReady \/ UiPaint \/ UiClose \/ UiJoinIo
           \/ UiJoinDecode \/ UiUserCloses \/ UiTerminated \/ PeerSends
           \/ PeerCloses \/ UNCHANGED receiverVars
  <2>1. UNCHANGED <<received, queueVars, decodeVars>>
    BY <1>12
    DEF IoOpen, IoOpenFails, IoCheckStop, IoRecvFails, IoApply,
        IoDecodeFails, IoPost, IoPostClose, UiFrameReady, UiUpdateWindow, Paint,
        UiPaint, UiClose, UiJoinIo, UiJoinDecode, UiUserCloses, UiTerminated, PeerSends,
        PeerCloses, UiAdvance, Destroyed, IoUnchanged, DecodeUnchanged,
        UiUnchanged, PeerUnchanged, ioVars, queueVars, decodeVars,
        windowVars, receiverVars
  <2> QED
    BY <2>1
<1> QED
  BY <1>1, <1>2, <1>3, <1>4, <1>5, <1>6, <1>7, <1>8, <1>9, <1>10, <1>11,
     <1>12
  DEF ReceiverNext, ReceiverStep, IoThread, DecodeWorker, UiThread

(* The framebuffer.                                                         *)
LEMMA FrameStep ==
  ASSUME WireTypes, PoolTypes, FrameTypes, FrameIsRegion,
         [ReceiverNext]_receiverVars
  PROVE  FrameTypes' /\ FrameIsRegion'
<1> USE DEF FrameTypes, FrameIsRegion, HasFrame, Numbers, NoJob,
            IoUnchanged, DecodeUnchanged, UiUnchanged, ioVars, decodeVars
<1>1. CASE IoRecvFrame
  <2>1. UNCHANGED framebuffer /\ Numbers \subseteq Numbers'
    BY <1>1 DEF IoRecvFrame, WireTypes
  <2> QED
    BY <2>1
<1>2. CASE IoRecvUpdate
  <2>1. UNCHANGED framebuffer /\ Numbers \subseteq Numbers'
    BY <1>2 DEF IoRecvUpdate, WireTypes
  <2> QED
    BY <2>1
<1>3. CASE IoApply
  <2>1. ioNumber \in Numbers /\ IsRegion(wire[ioNumber].cells) /\ UNCHANGED received
    BY <1>3, MessagesAreRegions DEF IoApply, WireTypes
  <2>2. CASE framebuffer' = framebuffer
    BY <2>1, <2>2
  <2>3. CASE framebuffer' = DecodedFrame(ioNumber)
    <3>1. /\ IsRegion(DOMAIN framebuffer')
          /\ Left(DOMAIN framebuffer') = 0 /\ Top(DOMAIN framebuffer') = 0
          /\ \A t \in DOMAIN framebuffer' :
               framebuffer'[t] \in (Nat \X Nat) \X {ioNumber}
      BY <2>1, <2>3, DecodedFrameIs
    <3>2. LET tiles == DOMAIN framebuffer'
          IN  tiles = (0..(Width(tiles) - 1)) \X (0..(Height(tiles) - 1))
      BY <3>1, Extents
    <3> QED
      BY <2>1, <3>1, <3>2
  <2> QED
    BY <1>3, <2>2, <2>3 DEF IoApply
<1>4. ASSUME NEW w \in Decoders, DecodePatch(w)
      PROVE  FrameTypes' /\ FrameIsRegion'
  <2> DEFINE n == decodeJob[w]
  <2>1. n \in Numbers /\ UNCHANGED received
    BY <1>4 DEF DecodePatch, PoolTypes
  <2>2. IsRegion(wire[n].cells)
    BY <2>1, MessagesAreRegions DEF WireTypes
  <2>3. /\ DOMAIN framebuffer' = DOMAIN framebuffer
        /\ \A t \in DOMAIN framebuffer :
             \/ framebuffer'[t] = framebuffer[t]
             \/ framebuffer'[t] = <<t, n>> /\ t \in wire[n].cells
    BY <1>4, PatchedIs DEF DecodePatch
  <2>4. ~HasFrame => framebuffer' = framebuffer
    BY <1>4, <2>2, PatchedIs DEF DecodePatch
  <2>5. wire[n].cells \subseteq Nat \X Nat
    BY <2>2 DEF IsRegion
  <2> QED
    BY <2>1, <2>3, <2>4, <2>5
<1>5. CASE \/ IoOpen \/ IoOpenFails \/ IoCheckStop \/ IoRecvFails
           \/ IoDecodeFails \/ IoPost \/ IoShutdownQueue \/ IoPostClose
           \/ (\E w \in Decoders : DecodePop(w))
           \/ (\E w \in Decoders : DecodePopNothing(w))
           \/ (\E w \in Decoders : DecodeCheckShutdown(w))
           \/ (\E w \in Decoders : DecodeFails(w))
           \/ (\E w \in Decoders : DecodePost(w))
           \/ UiUpdateWindow \/ UiFrameReady \/ UiPaint \/ UiClose \/ UiAbort
           \/ UiJoinIo \/ UiJoinDecode \/ UiDestroyQueue \/ UiUserCloses
           \/ UiTerminated \/ PeerSends \/ PeerCloses
           \/ UNCHANGED receiverVars
  <2>1. UNCHANGED <<received, framebuffer>>
    BY <1>5
    DEF IoOpen, IoOpenFails, IoCheckStop, IoRecvFails, IoDecodeFails,
        IoPost, IoShutdownQueue, IoPostClose, DecodePop, DecodePopNothing,
        DecodeCheckShutdown, DecodeFails, DecodePost, UiFrameReady, UiUpdateWindow,
        Paint, UiPaint, UiClose, UiAbort, UiJoinIo, UiJoinDecode, UiDestroyQueue,
        UiUserCloses, UiTerminated, PeerSends, PeerCloses, EndDecode,
        UiAdvance, Destroyed, IoUnchanged, DecodeUnchanged, UiUnchanged,
        PeerUnchanged, ioVars, queueVars, decodeVars, windowVars,
        receiverVars
  <2> QED
    BY <2>1
<1> QED
  BY <1>1, <1>2, <1>3, <1>4, <1>5
  DEF ReceiverNext, ReceiverStep, IoThread, DecodeWorker, UiThread

(* The window.                                                              *)
LEMMA WindowStep ==
  ASSUME WireTypes, PoolTypes, WindowTypes, [ReceiverNext]_receiverVars
  PROVE  WindowTypes'
<1> USE DEF WindowTypes, Numbers, NoJob, IoUnchanged, DecodeUnchanged,
            UiUnchanged, windowVars, UiAdvance, Destroyed
<1>1. CASE IoPost
  <2>1. FrameRect(wire[ioNumber].cells) \in Rect
    BY <1>1, MessagesAreRegions, RectTypes DEF IoPost, WireTypes
  <2>2. posted' \in Seq(Rect \cup {All, Close}) /\ unseen' \in SUBSET Client
    BY <1>1, <2>1, PostTypes DEF IoPost
  <2> QED
    BY <1>1, <2>2 DEF IoPost
<1>2. CASE IoPostClose
  BY <1>2 DEF IoPostClose
<1>3. ASSUME NEW w \in Decoders, DecodePost(w)
      PROVE  WindowTypes'
  <2>1. RectOf(wire[decodeJob[w]].cells) \in Rect
    BY <1>3, MessagesAreRegions, RectTypes DEF DecodePost, WireTypes, PoolTypes
  <2>2. posted' \in Seq(Rect \cup {All, Close}) /\ unseen' \in SUBSET Client
    BY <1>3, <2>1, PostTypes DEF DecodePost
  <2> QED
    BY <1>3, <2>2 DEF DecodePost, EndDecode
<1>4. CASE UiFrameReady
  <2>1. posted' \in Seq(Rect \cup {All, Close})
    BY <1>4 DEF UiFrameReady
  <2>2. invalid' \subseteq Client
    BY <1>4, PixelsOfClient DEF UiFrameReady
  <2> QED
    BY <1>4, <2>1, <2>2 DEF UiFrameReady
<1>5. CASE UiUpdateWindow \/ UiPaint
  BY <1>5 DEF UiUpdateWindow, UiPaint, Paint
<1>6. CASE UiClose
  BY <1>6 DEF UiClose
<1>7. CASE UiAbort
  BY <1>7 DEF UiAbort
<1>8. CASE UiJoinIo
  BY <1>8 DEF UiJoinIo
<1>9. CASE UiJoinDecode
  BY <1>9 DEF UiJoinDecode
<1>10. CASE UiDestroyQueue
  BY <1>10 DEF UiDestroyQueue
<1>11. CASE UiUserCloses
  BY <1>11 DEF UiUserCloses
<1>12. CASE \/ IoOpen \/ IoOpenFails \/ IoCheckStop \/ IoRecvFrame
           \/ IoRecvUpdate \/ IoRecvFails \/ IoApply \/ IoDecodeFails
           \/ IoShutdownQueue
           \/ (\E w \in Decoders : DecodePop(w))
           \/ (\E w \in Decoders : DecodePopNothing(w))
           \/ (\E w \in Decoders : DecodeCheckShutdown(w))
           \/ (\E w \in Decoders : DecodePatch(w))
           \/ (\E w \in Decoders : DecodeFails(w))
           \/ UiTerminated \/ PeerSends \/ PeerCloses
           \/ UNCHANGED receiverVars
  <2>1. UNCHANGED <<windowVars, stopEvent, uiPc>>
    BY <1>12
    DEF IoOpen, IoOpenFails, IoCheckStop, IoRecvFrame, IoRecvUpdate,
        IoRecvFails, IoApply, IoDecodeFails, IoShutdownQueue, DecodePop,
        DecodePopNothing, DecodeCheckShutdown, DecodePatch, DecodeFails,
        UiTerminated, PeerSends, PeerCloses, EndDecode, IoUnchanged,
        DecodeUnchanged, UiUnchanged, PeerUnchanged, ioVars, queueVars,
        decodeVars, windowVars, receiverVars
  <2> QED
    BY <2>1
<1> QED
  BY <1>1, <1>2, <1>3, <1>4, <1>5, <1>6, <1>7, <1>8, <1>9, <1>10, <1>11,
     <1>12
  DEF ReceiverNext, ReceiverStep, IoThread, DecodeWorker, UiThread

-----------------------------------------------------------------------------
(* The other parts of the invariant.                                        *)

(* The I/O thread applies the last message it has read, and the decode pool *)
(* keeps the order of arrival and never gets a frame.                       *)
LEMMA OrderStep ==
  ASSUME WireTypes, PoolTypes, AppliesTheLast, PoolInOrder,
         [ReceiverNext]_receiverVars
  PROVE  AppliesTheLast' /\ PoolInOrder'
<1> USE DEF AppliesTheLast, PoolInOrder, Numbers, NoJob, IoUnchanged,
            DecodeUnchanged, UiUnchanged, PeerUnchanged, ioVars, queueVars,
            decodeVars, Receivable, EndDecode, UiAdvance
<1>1. CASE IoRecvFrame
  BY <1>1 DEF IoRecvFrame
<1>2. CASE IoRecvUpdate
  <2>1. received \in Nat /\ received' = received + 1 /\ ioNumber' = NoJob
    BY <1>2 DEF IoRecvUpdate, WireTypes
  <2>2. /\ Increasing(decodeQueue')
        /\ ToSet(decodeQueue') \subseteq ToSet(decodeQueue) \cup {received + 1}
    BY <1>2, <2>1, QueueGrows DEF IoRecvUpdate, PoolTypes
  <2>3. wire[received + 1].type # "FULL_FRAME"
    BY <1>2 DEF IoRecvUpdate, Synchronous
  <2> QED
    BY <1>2, <2>1, <2>2, <2>3 DEF IoRecvUpdate
<1>3. CASE IoDecodeFails
  BY <1>3 DEF IoDecodeFails
<1>4. CASE IoPost
  BY <1>4 DEF IoPost
<1>5. ASSUME NEW w \in Decoders, DecodePop(w)
      PROVE  AppliesTheLast' /\ PoolInOrder'
  <2>1. /\ Head(decodeQueue) \in ToSet(decodeQueue)
        /\ Increasing(decodeQueue')
        /\ ToSet(decodeQueue') \subseteq ToSet(decodeQueue)
    <3>1. CanPop(decodeQueue) /\ decodeQueue' = Tail(decodeQueue)
      BY <1>5 DEF DecodePop
    <3>2. received \in Nat /\ decodeQueue \in Seq(1..received)
      BY DEF PoolTypes, WireTypes
    <3> QED
      BY <3>1, <3>2, QueuePops
  <2> QED
    BY <1>5, <2>1 DEF DecodePop, PoolTypes
<1>6. ASSUME NEW w \in Decoders, DecodeFails(w)
      PROVE  AppliesTheLast' /\ PoolInOrder'
  BY <1>6 DEF PoolTypes, DecodeFails
<1>7. ASSUME NEW w \in Decoders, DecodePost(w)
      PROVE  AppliesTheLast' /\ PoolInOrder'
  BY <1>7 DEF PoolTypes, DecodePost
<1>8. CASE UiDestroyQueue
  <2>1. Increasing(<<>>) /\ ToSet(<<>>) = {}
    BY DEF Increasing, ToSet
  <2> QED
    BY <1>8, <2>1 DEF UiDestroyQueue
<1>9. CASE PeerSends
  <2>1. \A n \in Numbers : wire'[n] = wire[n]
    BY <1>9 DEF PeerSends, WireTypes
  <2>2. ToSet(decodeQueue) \subseteq Numbers
    BY QueueKeeps DEF WireTypes, PoolTypes
  <2> QED
    BY <1>9, <2>1, <2>2 DEF PeerSends, PoolTypes
<1>10. CASE \/ IoOpen \/ IoOpenFails \/ IoCheckStop \/ IoRecvFails
           \/ IoApply \/ IoShutdownQueue \/ IoPostClose
           \/ (\E w \in Decoders : DecodePopNothing(w))
           \/ (\E w \in Decoders : DecodeCheckShutdown(w))
           \/ (\E w \in Decoders : DecodePatch(w))
           \/ UiUpdateWindow \/ UiFrameReady \/ UiPaint \/ UiClose \/ UiAbort
           \/ UiJoinIo \/ UiJoinDecode \/ UiUserCloses \/ UiTerminated \/ PeerCloses
           \/ UNCHANGED receiverVars
  <2>1. UNCHANGED <<wire, received, ioNumber, decodeQueue, decodeJob>>
    BY <1>10
    DEF IoOpen, IoOpenFails, IoCheckStop, IoRecvFails, IoApply,
        IoShutdownQueue, IoPostClose, DecodePopNothing, DecodeCheckShutdown,
        DecodePatch, UiFrameReady, UiUpdateWindow, Paint, UiPaint, UiClose, UiAbort,
        UiJoinIo,
        UiJoinDecode, UiUserCloses, UiTerminated, PeerCloses, UiAdvance,
        Destroyed, IoUnchanged, DecodeUnchanged, UiUnchanged, PeerUnchanged,
        ioVars, queueVars, decodeVars, windowVars, receiverVars
  <2> QED
    BY <2>1
<1> QED
  BY <1>1, <1>2, <1>3, <1>4, <1>5, <1>6, <1>7, <1>8, <1>9, <1>10
  DEF ReceiverNext, ReceiverStep, IoThread, DecodeWorker, UiThread

(* main frees nothing that a thread still uses: a thread that is missing    *)
(* takes no step.                                                           *)
LEMMA JoinStep ==
  ASSUME PoolTypes, JoinedInOrder, ReceiverNoUseAfterFree,
         [ReceiverNext]_receiverVars
  PROVE  JoinedInOrder' /\ ReceiverNoUseAfterFree'
<1> USE DEF JoinedInOrder, ReceiverNoUseAfterFree, Missing
<1>1. CASE IoThread
  <2>1. ~Missing(ioPc) /\ UNCHANGED uiPc
    BY <1>1 DEF IoThread, IoOpen, IoOpenFails, IoCheckStop, IoRecvFrame, IoRecvUpdate,
         IoRecvFails, IoApply, IoDecodeFails, IoPost, IoShutdownQueue, IoPostClose,
         Receivable, IoUnchanged
  <2> QED
    BY <2>1
<1>2. ASSUME NEW w \in Decoders, DecodeWorker(w)
      PROVE  JoinedInOrder' /\ ReceiverNoUseAfterFree'
  <2>1. ~Missing(decodePc[w]) /\ UNCHANGED <<uiPc, ioPc>>
    BY <1>2 DEF DecodeWorker, DecodePop, DecodePopNothing, DecodeCheckShutdown,
         DecodePatch, DecodeFails, DecodePost, EndDecode, DecodeUnchanged, ioVars
  <2> QED
    BY <2>1
<1>3. CASE UiThread \/ UiUserCloses
  <2>1. UNCHANGED <<ioPc, decodePc>>
    BY <1>3 DEF UiThread, UiFrameReady, UiUpdateWindow, Paint, UiPaint, UiClose,
         UiAbort, UiJoinIo, UiJoinDecode, UiDestroyQueue, UiUserCloses, UiAdvance, Destroyed,
         UiUnchanged, decodeVars
  <2>2. \/ UNCHANGED uiPc
        \/ uiPc' \in {"loop", "joinIo"}
        \/ uiPc' = "joinDecode" /\ Missing(ioPc)
        \/ /\ uiPc = "joinDecode" /\ uiPc' = "destroy"
           /\ \A w \in Decoders : Missing(decodePc[w])
        \/ uiPc = "destroy" /\ uiPc' = "exit"
    BY <1>3 DEF UiThread, UiFrameReady, UiUpdateWindow, Paint, UiPaint, UiClose,
         UiAbort, UiJoinIo, UiJoinDecode, UiDestroyQueue, UiUserCloses, UiAdvance, Destroyed
  <2> QED
    BY <2>1, <2>2
<1>4. CASE UiTerminated \/ PeerSends \/ PeerCloses \/ UNCHANGED receiverVars
  <2>1. UNCHANGED <<uiPc, ioPc, decodePc>>
    BY <1>4 DEF UiTerminated, PeerSends, PeerCloses, PeerUnchanged, receiverVars,
         ioVars, decodeVars
  <2> QED
    BY <2>1
<1> QED
  BY <1>1, <1>2, <1>3, <1>4 DEF ReceiverNext, ReceiverStep

-----------------------------------------------------------------------------
(* What the window shows.                                                   *)

\* A notification is in the message queue, as it is or as one for the whole
\* window, or it has been lost.
Handed(rect) ==
  \/ rect \in ToSet(posted') \/ All \in ToSet(posted')
  \/ InvalidPixels(rect) \subseteq unseen'

LEMMA AppendedSet ==
  ASSUME NEW S, NEW q \in Seq(S), NEW x \in S
  PROVE  ToSet(Append(q, x)) = ToSet(q) \cup {x}
<1> DEFINE new == Append(q, x)
<1>1. /\ Len(q) \in Nat /\ DOMAIN q = 1..Len(q)
      /\ DOMAIN new = 1..(Len(q) + 1)
      /\ new[Len(q) + 1] = x
      /\ \A i \in 1..Len(q) : new[i] = q[i]
  BY AppendProperties, LenProperties
<1> HIDE DEF new
<1>2. ToSet(new) = ToSet(q) \cup {x}
  BY <1>1 DEF ToSet
<1> QED
  BY <1>2 DEF new

LEMMA HeadAndTail ==
  ASSUME NEW S, NEW q \in Seq(S), q # <<>>
  PROVE  ToSet(q) = {Head(q)} \cup ToSet(Tail(q))
<1> DEFINE rest == Tail(q)
<1>1. /\ Len(q) \in Nat \ {0} /\ Head(q) = q[1] /\ DOMAIN q = 1..Len(q)
      /\ DOMAIN rest = 1..(Len(q) - 1)
      /\ \A i \in 1..(Len(q) - 1) : rest[i] = q[i + 1]
  BY HeadTailProperties, LenProperties
<1>2. \A i \in 1..Len(q) : i = 1 \/ i - 1 \in 1..(Len(q) - 1)
  BY <1>1
<1> HIDE DEF rest
<1>3. Head(q) \in ToSet(q) /\ \A i \in 1..(Len(q) - 1) : rest[i] \in ToSet(q)
  BY <1>1 DEF ToSet
<1>4. ASSUME NEW x \in ToSet(q), x # Head(q)
      PROVE  x \in ToSet(rest)
  <2>1. PICK i \in 1..Len(q) : x = q[i]
    BY <1>1 DEF ToSet
  <2>2. i - 1 \in 1..(Len(q) - 1) /\ x = rest[i - 1]
    BY <1>1, <1>2, <1>4, <2>1
  <2> QED
    BY <1>1, <2>2 DEF ToSet
<1>5. ToSet(rest) \subseteq ToSet(q)
  BY <1>1, <1>3 DEF ToSet
<1> QED
  BY <1>3, <1>4, <1>5 DEF rest

LEMMA PostHands ==
  ASSUME NEW rect \in Rect, PostFrameReady(rect), WindowOpen,
         posted \in Seq(Rect \cup {All, Close})
  PROVE  /\ Handed(rect)
         /\ ToSet(posted) \subseteq ToSet(posted') /\ unseen \subseteq unseen'
<1>1. rect \in Rect \cup {All, Close} /\ All \in Rect \cup {All, Close}
  OBVIOUS
<1>2. ASSUME NEW x \in Rect \cup {All, Close}, posted' = Append(posted, x)
      PROVE  ToSet(posted') = ToSet(posted) \cup {x}
  BY <1>2, AppendedSet
<1> QED
  BY <1>1, <1>2 DEF PostFrameReady, Handed

(* A step that leaves the framebuffer and what is drawn alone keeps every   *)
(* pixel covered if it loses no notification.                               *)
LEMMA KeepsCoverage ==
  ASSUME WireTypes, PoolTypes, NoLostInvalidation,
         UNCHANGED <<framebuffer, shown>>, WindowOpen' => WindowOpen,
         \A n \in Numbers : wire'[n] = wire[n],
         invalid \cup unseen \subseteq invalid' \cup unseen',
         \A rect \in ToSet(posted) \ {Close} :
           rect \in ToSet(posted') \/ InvalidPixels(rect) \subseteq invalid',
         ioPc = "post" =>
           \/ ioPc' = "post" /\ ioNumber' = ioNumber
           \/ Handed(FrameRect(wire[ioNumber].cells)),
         \A w \in Decoders : decodePc[w] = "post" =>
           \/ decodePc'[w] = "post" /\ decodeJob'[w] = decodeJob[w]
           \/ Handed(RectOf(wire[decodeJob[w]].cells))
  PROVE  NoLostInvalidation'
<1> SUFFICES ASSUME WindowOpen', HasFrame', NEW p \in Client,
                    shown'[p] # Picture(p)', p \notin invalid' \cup unseen'
             PROVE  \E rect \in Notifications' : p \in InvalidPixels(rect)'
  BY DEF NoLostInvalidation
<1>1. \A rect : InvalidPixels(rect)' = InvalidPixels(rect)
  BY DEF InvalidPixels, HasFrame, ToClientX, ToClientY
<1>2. Picture(p)' = Picture(p) /\ HasFrame
  BY DEF Picture, Sources, HasFrame
<1>3. PICK rect \in Notifications : p \in InvalidPixels(rect)
  BY <1>2 DEF NoLostInvalidation
<1>4. ASSUME NEW r, Handed(r), r # Close, p \in InvalidPixels(r)
      PROVE  \E q \in Notifications' : p \in InvalidPixels(q)'
  <2>1. All # Close /\ p \in InvalidPixels(All)
    BY DEF All, Close, InvalidPixels
  <2>2. r \in ToSet(posted') \/ All \in ToSet(posted')
    BY <1>4 DEF Handed
  <2> QED
    BY <1>1, <1>4, <2>1, <2>2 DEF Notifications
<1>5. CASE rect \in ToSet(posted) \ {Close}
  BY <1>1, <1>3, <1>5 DEF Notifications
<1>6. CASE ioPc = "post" /\ rect = FrameRect(wire[ioNumber].cells)
  <2>1. rect # Close
    BY <1>6 DEF FrameRect, Close
  <2>2. ioNumber \in Numbers
    BY <1>6 DEF WireTypes
  <2>3. CASE ioPc' = "post" /\ ioNumber' = ioNumber
    BY <1>1, <1>3, <1>6, <2>2, <2>3 DEF Notifications, FrameRect
  <2> QED
    BY <1>3, <1>4, <1>6, <2>1, <2>3
<1>7. ASSUME NEW w \in Decoders, decodePc[w] = "post",
             rect = RectOf(wire[decodeJob[w]].cells)
      PROVE  \E q \in Notifications' : p \in InvalidPixels(q)'
  <2>1. rect # Close
    BY <1>7 DEF RectOf, Close
  <2>2. decodeJob[w] \in Numbers
    BY <1>7 DEF PoolTypes
  <2>3. CASE decodePc'[w] = "post" /\ decodeJob'[w] = decodeJob[w]
    BY <1>1, <1>3, <1>7, <2>2, <2>3 DEF Notifications, RectOf
  <2> QED
    BY <1>3, <1>4, <1>7, <2>1, <2>3
<1> QED
  BY <1>3, <1>5, <1>6, <1>7 DEF Notifications

(* The RECT of a patch covers every pixel that is drawn from its tiles.     *)
LEMMA PatchCovered ==
  ASSUME HasFrame, IsRegion(DOMAIN framebuffer), NEW cells, IsRegion(cells),
         NEW p \in Client, NEW t \in cells, t \in Sources(p)
  PROVE  p \in InvalidPixels(RectOf(cells))
<1> DEFINE width == Width(DOMAIN framebuffer)
           height == Height(DOMAIN framebuffer)
<1>1. width \in Nat \ {0} /\ height \in Nat \ {0}
  BY Extents
<1>2. /\ Left(cells) \in Nat /\ Width(cells) \in Nat
      /\ Top(cells) \in Nat /\ Height(cells) \in Nat
      /\ t[1] \in Nat /\ Left(cells) <= t[1] /\ t[1] < Width(cells)
      /\ t[2] \in Nat /\ Top(cells) <= t[2] /\ t[2] < Height(cells)
  BY Extents
<1>3. /\ ClientWidth \in Nat \ {0} /\ ClientHeight \in Nat \ {0}
      /\ p[1] \in Nat /\ p[2] \in Nat
  BY ReceiverAssumption DEF Client
<1>4. /\ t[1] * ClientWidth < (p[1] + 1) * width
      /\ (t[1] + 1) * ClientWidth > p[1] * width
      /\ t[2] * ClientHeight < (p[2] + 1) * height
      /\ (t[2] + 1) * ClientHeight > p[2] * height
  BY DEF Sources
<1> HIDE DEF width, height
<1>5. /\ p[1] >= (Left(cells) * ClientWidth) \div width
      /\ p[1] < (Width(cells) * ClientWidth) \div width + 1
  BY <1>1, <1>2, <1>3, <1>4, ScaledCovers
<1>6. /\ p[2] >= (Top(cells) * ClientHeight) \div height
      /\ p[2] < (Height(cells) * ClientHeight) \div height + 1
  BY <1>1, <1>2, <1>3, <1>4, ScaledCovers
<1>7. /\ RectOf(cells).left = Left(cells) /\ RectOf(cells).right = Width(cells)
      /\ RectOf(cells).top = Top(cells) /\ RectOf(cells).bottom = Height(cells)
  BY DEF RectOf
<1> QED
  BY <1>5, <1>6, <1>7 DEF InvalidPixels, ToClientX, ToClientY, width, height

(* The RECT of a frame covers the window.                                   *)
LEMMA FrameCovered ==
  ASSUME NEW n, IsRegion(wire[n].cells), UNCHANGED wire,
         framebuffer' = DecodedFrame(n)
  PROVE  Client \subseteq InvalidPixels(FrameRect(wire[n].cells))'
<1> DEFINE cells == wire[n].cells
           width == Width(DOMAIN framebuffer')
           height == Height(DOMAIN framebuffer')
<1>1. /\ width = Width(cells) - Left(cells) /\ height = Height(cells) - Top(cells)
  BY DecodedFrameIs
<1>2. width \in Nat \ {0} /\ height \in Nat \ {0}
  BY <1>1, Extents
<1>3. ClientWidth \in Nat \ {0} /\ ClientHeight \in Nat \ {0}
  BY ReceiverAssumption
<1>4. FrameRect(cells)' = [kind |-> "rect", left |-> 0, top |-> 0,
                           right |-> width, bottom |-> height]
  BY <1>1 DEF FrameRect
<1> HIDE DEF width, height
<1>5. /\ (0 * ClientWidth) \div width = 0
      /\ (width * ClientWidth) \div width = ClientWidth
      /\ (0 * ClientHeight) \div height = 0
      /\ (height * ClientHeight) \div height = ClientHeight
  BY <1>2, <1>3, ScaledWhole
<1>6. ASSUME NEW p \in Client
      PROVE  /\ p[1] >= 0 /\ p[1] < ClientWidth + 1
             /\ p[2] >= 0 /\ p[2] < ClientHeight + 1
  BY <1>3, <1>6 DEF Client
<1> QED
  BY <1>4, <1>5, <1>6 DEF InvalidPixels, ToClientX, ToClientY, width, height

(* What the window shows does not fall behind unnoticed.                    *)
LEMMA PaintStep ==
  ASSUME ReceiverTypeOK, FrameIsRegion, NoLostInvalidation,
         [ReceiverNext]_receiverVars
  PROVE  NoLostInvalidation'
<1>0. WireTypes /\ PoolTypes /\ FrameTypes /\ WindowTypes
  BY TypesInParts
<1> DEFINE Quiet ==
             /\ UNCHANGED <<framebuffer, shown, wire, uiPc, invalid, unseen, posted>>
             /\ ioPc = "post" => UNCHANGED <<ioPc, ioNumber>>
             /\ \A w \in Decoders : decodePc[w] = "post" =>
                  decodePc'[w] = "post" /\ decodeJob'[w] = decodeJob[w]
<1>1. CASE Quiet
  BY <1>0, <1>1, KeepsCoverage DEF WindowOpen
<1>2. CASE ~WindowOpen'
  BY <1>2 DEF NoLostInvalidation
<1>3. CASE IoOpen \/ IoOpenFails \/ IoCheckStop \/ IoRecvFrame \/ IoRecvUpdate
           \/ IoRecvFails \/ IoDecodeFails \/ IoShutdownQueue
  <2>1. Quiet
    BY <1>3
    DEF IoOpen, IoOpenFails, IoCheckStop, IoRecvFrame, IoRecvUpdate, IoRecvFails,
        IoDecodeFails, IoShutdownQueue, Receivable, IoUnchanged, decodeVars, windowVars
  <2> QED
    BY <1>1, <2>1
<1>4. ASSUME NEW w \in Decoders,
             \/ DecodePop(w) \/ DecodePopNothing(w)
             \/ DecodeCheckShutdown(w) \/ DecodeFails(w)
      PROVE  NoLostInvalidation'
  <2>1. /\ UNCHANGED <<framebuffer, shown, wire, uiPc, invalid, unseen, posted>>
        /\ UNCHANGED <<ioPc, ioNumber>>
    BY <1>4
    DEF DecodePop, DecodePopNothing, DecodeCheckShutdown, DecodeFails, EndDecode,
        DecodeUnchanged, ioVars
  <2>2. /\ decodePc[w] # "post"
        /\ \A v \in Decoders \ {w} :
             decodePc'[v] = decodePc[v] /\ decodeJob'[v] = decodeJob[v]
    BY <1>0, <1>4
    DEF DecodePop, DecodePopNothing, DecodeCheckShutdown, DecodeFails, EndDecode,
        PoolTypes
  <2> QED
    BY <1>1, <2>1, <2>2
<1>5. CASE IoApply
  <2>1. /\ ioNumber \in Numbers /\ IsRegion(wire[ioNumber].cells)
        /\ UNCHANGED <<wire, uiPc, decodePc, decodeJob, ioNumber, windowVars>>
        /\ ioPc # "post" /\ ioPc' = "post"
    BY <1>0, <1>5, MessagesAreRegions
    DEF IoApply, IoUnchanged, decodeVars, windowVars, WireTypes, Numbers, NoJob
  <2>2. CASE framebuffer' = framebuffer
    <3>1. Quiet
      BY <2>1, <2>2 DEF windowVars
    <3> QED
      BY <1>1, <3>1
  <2>3. CASE framebuffer' = DecodedFrame(ioNumber)
    <3>1. FrameRect(wire[ioNumber].cells)' \in Notifications'
      BY <2>1 DEF Notifications
    <3>2. Client \subseteq InvalidPixels(FrameRect(wire[ioNumber].cells))'
      BY <2>1, <2>3, FrameCovered DEF FrameRect
    <3> QED
      BY <2>1, <3>1, <3>2 DEF NoLostInvalidation
  <2> QED
    BY <1>5, <2>2, <2>3 DEF IoApply
<1>6. CASE IoPost
  <2>1. /\ FrameRect(wire[ioNumber].cells) \in Rect
        /\ PostFrameReady(FrameRect(wire[ioNumber].cells))
    BY <1>0, <1>6, MessagesAreRegions, RectTypes
    DEF IoPost, WireTypes, Numbers, NoJob
  <2>2. UNCHANGED <<framebuffer, shown, wire, uiPc, invalid, decodePc, decodeJob>>
    BY <1>6 DEF IoPost, IoUnchanged, decodeVars
  <2>3. CASE WindowOpen
    <3>1. /\ Handed(FrameRect(wire[ioNumber].cells))
          /\ ToSet(posted) \subseteq ToSet(posted') /\ unseen \subseteq unseen'
      BY <1>0, <2>1, <2>3, PostHands DEF WindowTypes
    <3> QED
      BY <1>0, <2>2, <2>3, <3>1, KeepsCoverage
  <2> QED
    BY <1>2, <2>2, <2>3 DEF WindowOpen
<1>7. CASE IoPostClose
  <2>1. /\ UNCHANGED <<framebuffer, shown, wire, uiPc, invalid, unseen, decodePc, decodeJob>>
        /\ ioPc # "post"
    BY <1>7 DEF IoPostClose, IoUnchanged, decodeVars
  <2>2. ToSet(posted) \subseteq ToSet(posted')
    <3>1. posted' = posted \/ posted' = Append(posted, Close)
      BY <1>7 DEF IoPostClose
    <3>2. Close \in Rect \cup {All, Close}
      OBVIOUS
    <3>3. posted' = Append(posted, Close) => ToSet(posted') = ToSet(posted) \cup {Close}
      BY <1>0, <3>2, AppendedSet DEF WindowTypes
    <3> QED
      BY <3>1, <3>3
  <2> QED
    BY <1>0, <2>1, <2>2, KeepsCoverage DEF WindowOpen
<1>8. ASSUME NEW w \in Decoders, DecodePost(w)
      PROVE  NoLostInvalidation'
  <2>1. /\ RectOf(wire[decodeJob[w]].cells) \in Rect
        /\ PostFrameReady(RectOf(wire[decodeJob[w]].cells))
    BY <1>0, <1>8, MessagesAreRegions, RectTypes
    DEF DecodePost, WireTypes, PoolTypes, Numbers, NoJob
  <2>2. /\ UNCHANGED <<framebuffer, shown, wire, uiPc, invalid, ioPc, ioNumber>>
        /\ \A v \in Decoders \ {w} :
             decodePc'[v] = decodePc[v] /\ decodeJob'[v] = decodeJob[v]
    BY <1>0, <1>8 DEF DecodePost, EndDecode, DecodeUnchanged, ioVars, PoolTypes
  <2>3. CASE WindowOpen
    <3>1. /\ Handed(RectOf(wire[decodeJob[w]].cells))
          /\ ToSet(posted) \subseteq ToSet(posted') /\ unseen \subseteq unseen'
      BY <1>0, <2>1, <2>3, PostHands DEF WindowTypes
    <3> QED
      BY <1>0, <2>2, <2>3, <3>1, KeepsCoverage
  <2> QED
    BY <1>2, <2>2, <2>3 DEF WindowOpen
<1>9. ASSUME NEW w \in Decoders, DecodePatch(w)
      PROVE  NoLostInvalidation'
  <2> DEFINE n == decodeJob[w]
             cells == wire[n].cells
  <2>1. /\ n \in Numbers /\ IsRegion(cells)
        /\ UNCHANGED <<wire, uiPc, ioPc, ioNumber, decodeJob, windowVars>>
        /\ framebuffer' = Patched(framebuffer, n)
    BY <1>0, <1>9, MessagesAreRegions
    DEF DecodePatch, DecodeUnchanged, ioVars, windowVars, WireTypes, PoolTypes,
        Numbers, NoJob
  <2>2. /\ decodePc'[w] = "post"
        /\ \A v \in Decoders : decodePc[v] = "post" => decodePc'[v] = "post"
    BY <1>0, <1>9 DEF DecodePatch, PoolTypes
  <2>3. CASE framebuffer' = framebuffer
    <3>1. Quiet
      BY <2>1, <2>2, <2>3 DEF windowVars
    <3> QED
      BY <1>1, <3>1
  <2>4. CASE framebuffer' # framebuffer
    <3>1. /\ HasFrame /\ cells \subseteq DOMAIN framebuffer
          /\ DOMAIN framebuffer' = DOMAIN framebuffer
          /\ \A t \in DOMAIN framebuffer :
               t \notin cells => framebuffer'[t] = framebuffer[t]
      BY <2>1, <2>4, PatchedIs DEF Patched
    <3>2. /\ \A rect : InvalidPixels(rect)' = InvalidPixels(rect)
          /\ \A p : Sources(p)' = Sources(p)
      <4>1. HasFrame'
        BY <2>1, <3>1 DEF HasFrame, NoFrame, IsRegion
      <4> QED
        BY <3>1, <4>1 DEF InvalidPixels, HasFrame, ToClientX, ToClientY, Sources
    <3>3. Notifications \cup {RectOf(cells)} \subseteq Notifications'
      BY <2>1, <2>2 DEF Notifications, windowVars
    <3>4. ASSUME NEW p \in Client, shown[p] = Picture(p), WindowOpen
          PROVE  shown'[p] = Picture(p)' \/ p \in InvalidPixels(RectOf(cells))
      <4>1. CASE \E t \in cells : t \in Sources(p)
        BY <2>1, <3>1, <4>1, PatchCovered DEF FrameIsRegion
      <4>2. CASE \A t \in Sources(p) : t \notin cells
        <5>1. Picture(p)' = Picture(p)
          BY <3>1, <3>2, <4>2 DEF Picture, Sources
        <5> QED
          BY <2>1, <3>4, <5>1 DEF windowVars
      <4> QED
        BY <4>1, <4>2
    <3> QED
      BY <2>1, <3>1, <3>2, <3>3, <3>4 DEF NoLostInvalidation, WindowOpen, windowVars
  <2> QED
    BY <2>3, <2>4
<1>10. CASE UiFrameReady
  <2>1. /\ UNCHANGED <<framebuffer, shown, wire, uiPc, unseen, ioPc, ioNumber>>
        /\ UNCHANGED <<decodePc, decodeJob>>
        /\ invalid' = invalid \cup InvalidPixels(Head(posted))
        /\ posted # <<>> /\ posted' = Tail(posted)
    BY <1>10 DEF UiFrameReady, UiUnchanged, decodeVars
  <2>2. ToSet(posted) = {Head(posted)} \cup ToSet(posted')
    BY <1>0, <2>1, HeadAndTail DEF WindowTypes
  <2> QED
    BY <1>0, <2>1, <2>2, KeepsCoverage DEF WindowOpen
<1>11. CASE UiUpdateWindow \/ UiPaint
  <2>1. /\ UNCHANGED <<framebuffer, wire, posted, ioPc, ioNumber>>
        /\ UNCHANGED <<decodePc, decodeJob>> /\ invalid' = {}
        /\ WindowOpen
    BY <1>11
    DEF UiUpdateWindow, UiPaint, Paint, UiUnchanged, decodeVars, WindowOpen
  <2>2. CASE ~HasFrame
    BY <2>1, <2>2 DEF NoLostInvalidation, HasFrame
  <2>3. CASE unseen' = unseen \cup invalid /\ shown' = shown
    BY <1>0, <2>1, <2>3, KeepsCoverage DEF WindowOpen
  <2>4. CASE /\ HasFrame /\ unseen' = unseen \ invalid
             /\ shown' = [p \in Client |-> IF p \in invalid THEN Picture(p) ELSE shown[p]]
    <3>1. /\ \A rect : InvalidPixels(rect)' = InvalidPixels(rect)
          /\ \A p : Picture(p)' = Picture(p)
          /\ Notifications' = Notifications
      BY <2>1
      DEF InvalidPixels, HasFrame, ToClientX, ToClientY, Picture, Sources, Notifications
    <3>2. ASSUME NEW p \in Client, WindowOpen
          PROVE  \/ shown'[p] = Picture(p) \/ p \in unseen'
                 \/ \E rect \in Notifications : p \in InvalidPixels(rect)
      <4>1. CASE p \in invalid
        BY <2>4, <4>1
      <4>2. CASE p \notin invalid
        BY <2>4, <3>2, <4>2 DEF NoLostInvalidation
      <4> QED
        BY <4>1, <4>2
    <3> QED
      BY <2>1, <3>1, <3>2 DEF NoLostInvalidation, WindowOpen
  <2> QED
    BY <1>11, <2>2, <2>3, <2>4 DEF UiUpdateWindow, UiPaint, Paint
<1>12. CASE PeerSends
  <2>1. /\ UNCHANGED <<framebuffer, shown, uiPc, invalid, unseen, posted, ioPc, ioNumber>>
        /\ UNCHANGED <<decodePc, decodeJob>>
        /\ \A k \in Numbers : wire'[k] = wire[k]
    BY <1>0, <1>12
    DEF PeerSends, PeerUnchanged, decodeVars, windowVars, WireTypes, Numbers
  <2> QED
    BY <1>0, <2>1, KeepsCoverage DEF WindowOpen
<1>13. CASE PeerCloses \/ UiTerminated \/ UNCHANGED receiverVars
  <2>1. Quiet
    BY <1>13
    DEF PeerCloses, UiTerminated, PeerUnchanged, receiverVars, ioVars, decodeVars,
        windowVars
  <2> QED
    BY <1>1, <2>1
<1>14. CASE UiClose \/ UiAbort \/ UiUserCloses \/ UiJoinIo \/ UiJoinDecode \/ UiDestroyQueue
  <2>1. ~WindowOpen'
    BY <1>14
    DEF UiClose, UiAbort, UiUserCloses, UiJoinIo, UiJoinDecode, UiDestroyQueue,
        UiAdvance, Destroyed, WindowOpen
  <2> QED
    BY <1>2, <2>1
<1> QED
  BY <1>3, <1>4, <1>5, <1>6, <1>7, <1>8, <1>9, <1>10, <1>11, <1>12, <1>13, <1>14
  DEF ReceiverNext, ReceiverStep, IoThread, DecodeWorker, UiThread

-----------------------------------------------------------------------------
(* The theorems.                                                            *)

LEMMA InitInv == ReceiverInit => ReceiverInv
<1> SUFFICES ASSUME ReceiverInit
             PROVE  ReceiverInv
  OBVIOUS
<1> USE DEF ReceiverInit, NoFrame, NoJob, HasFrame
<1>1. WireTypes
  BY DEF WireTypes, Numbers
<1>2. <<>> \in Seq(Numbers) /\ ToSet(<<>>) = {} /\ Len(<<>>) = 0
  BY DEF ToSet
<1>3. PoolTypes
  BY <1>2 DEF PoolTypes
<1>4. FrameTypes /\ FrameIsRegion
  BY DEF FrameTypes, FrameIsRegion
<1>5. WindowTypes
  <2>1. posted \in Seq(Rect \cup {All, Close}) /\ uiPc \in {"abort", "show"}
    OBVIOUS
  <2>2. DOMAIN shown = Client
    OBVIOUS
  <2> QED
    BY <2>1, <2>2 DEF WindowTypes
<1>6. AppliesTheLast /\ PoolInOrder
  BY <1>2 DEF AppliesTheLast, PoolInOrder, Increasing
<1>7. JoinedInOrder /\ ReceiverNoUseAfterFree
  BY DEF JoinedInOrder, ReceiverNoUseAfterFree
<1>8. NoLostInvalidation
  BY DEF NoLostInvalidation
<1> QED
  BY <1>1, <1>3, <1>4, <1>5, <1>6, <1>7, <1>8, TypesInParts DEF ReceiverInv

LEMMA StepInv == ReceiverInv /\ [ReceiverNext]_receiverVars => ReceiverInv'
<1> SUFFICES ASSUME ReceiverInv, [ReceiverNext]_receiverVars
             PROVE  ReceiverInv'
  OBVIOUS
<1> USE DEF ReceiverInv
<1>1. WireTypes /\ PoolTypes /\ FrameTypes /\ WindowTypes
  BY TypesInParts
<1>2. WireTypes' /\ PoolTypes' /\ FrameTypes' /\ FrameIsRegion' /\ WindowTypes'
  BY <1>1, WireStep, PoolStep, FrameStep, WindowStep
<1>3. ReceiverTypeOK'
  BY <1>2, TypesInParts, PTL
<1>4. AppliesTheLast' /\ PoolInOrder'
  BY <1>1, OrderStep
<1>5. JoinedInOrder' /\ ReceiverNoUseAfterFree'
  BY <1>1, JoinStep
<1>6. NoLostInvalidation'
  BY PaintStep
<1> QED
  BY <1>2, <1>3, <1>4, <1>5, <1>6

(* A picture is overwritten by an older one only with a patch.              *)
LEMMA PatchesOnly ==
  ASSUME ReceiverInv, [ReceiverNext]_receiverVars,
         NEW t \in DOMAIN framebuffer, NEW older \in 1..Len(wire),
         NEW newer \in 1..Len(wire), Replaces(t, older, newer)
  PROVE  wire[older].type # "FULL_FRAME"
<1>1. /\ framebuffer[t][2] = newer /\ framebuffer'[t][2] = older /\ older < newer
      /\ t \in DOMAIN framebuffer'
  BY DEF Replaces
<1>2. framebuffer[t][2] \in Numbers
  BY DEF ReceiverInv, ReceiverTypeOK
<1>3. WireTypes /\ PoolTypes
  BY TypesInParts DEF ReceiverInv
<1>4. CASE IoApply
  <2>1. ioNumber = received /\ IsRegion(wire[ioNumber].cells) /\ received \in Nat
    BY <1>3, <1>4, MessagesAreRegions
    DEF IoApply, ReceiverInv, AppliesTheLast, WireTypes, NoJob, Numbers
  <2>2. CASE framebuffer' = framebuffer
    BY <1>1, <2>2
  <2>3. CASE framebuffer' = DecodedFrame(ioNumber)
    <3>1. framebuffer'[t] \in (Nat \X Nat) \X {ioNumber}
      BY <1>1, <2>1, <2>3, DecodedFrameIs
    <3>2. older = received
      BY <1>1, <2>1, <3>1
    <3> QED
      BY <1>1, <1>2, <2>1, <3>2 DEF Numbers
  <2> QED
    BY <1>4, <2>2, <2>3 DEF IoApply
<1>5. ASSUME NEW w \in Decoders, DecodePatch(w)
      PROVE  wire[older].type # "FULL_FRAME"
  <2>1. framebuffer'[t] = framebuffer[t] \/ framebuffer'[t] = <<t, decodeJob[w]>>
    BY <1>5, PatchedIs DEF DecodePatch
  <2>2. older = decodeJob[w]
    BY <1>1, <2>1
  <2>3. decodeJob[w] # NoJob
    BY <1>3, <1>5 DEF DecodePatch, PoolTypes
  <2> QED
    BY <2>2, <2>3 DEF ReceiverInv, PoolInOrder
<1>6. CASE UNCHANGED framebuffer
  BY <1>1, <1>6
<1>7. CASE \/ IoOpen \/ IoOpenFails \/ IoCheckStop \/ IoRecvFrame \/ IoRecvUpdate
           \/ IoRecvFails \/ IoDecodeFails \/ IoPost \/ IoShutdownQueue \/ IoPostClose
           \/ UiThread \/ UiUserCloses \/ UiTerminated \/ PeerSends \/ PeerCloses
           \/ UNCHANGED receiverVars
  <2>1. UNCHANGED framebuffer
    BY <1>7
    DEF IoOpen, IoOpenFails, IoCheckStop, IoRecvFrame, IoRecvUpdate, IoRecvFails,
        IoDecodeFails, IoPost, IoShutdownQueue, IoPostClose, UiThread, UiFrameReady,
        UiUpdateWindow, Paint, UiPaint, UiClose, UiAbort, UiJoinIo, UiJoinDecode, UiDestroyQueue,
        UiUserCloses, UiAdvance, Destroyed, UiUnchanged, UiTerminated, PeerSends,
        PeerCloses, PeerUnchanged, receiverVars
  <2> QED
    BY <1>6, <2>1
<1>8. ASSUME NEW w \in Decoders,
             \/ DecodePop(w) \/ DecodePopNothing(w) \/ DecodeCheckShutdown(w)
             \/ DecodeFails(w) \/ DecodePost(w)
      PROVE  wire[older].type # "FULL_FRAME"
  <2>1. UNCHANGED framebuffer
    BY <1>8
    DEF DecodePop, DecodePopNothing, DecodeCheckShutdown, DecodeFails, DecodePost,
        EndDecode
  <2> QED
    BY <1>6, <2>1
<1> QED
  BY <1>4, <1>5, <1>7, <1>8
  DEF ReceiverNext, ReceiverStep, IoThread, DecodeWorker

LEMMA Invariance == ReceiverSpec => []ReceiverInv
BY InitInv, StepInv, PTL DEF ReceiverSpec

(* Every variable keeps its type: the framebuffer stays a full rectangle at *)
(* the origin, threads hold a message exactly while they work on it, and no *)
(* message is in the decode pool twice.                                     *)
THEOREM ReceiverTypeCorrect == ReceiverSpec => []ReceiverTypeOK
<1>1. ReceiverInv => ReceiverTypeOK
  BY DEF ReceiverInv
<1> QED
  BY <1>1, Invariance, PTL

(* main frees the queue, the framebuffer and the locks only when every      *)
(* thread that uses them has returned.                                      *)
THEOREM ReceiverFreesLast == ReceiverSpec => []ReceiverNoUseAfterFree
<1>1. ReceiverInv => ReceiverNoUseAfterFree
  BY DEF ReceiverInv
<1> QED
  BY <1>1, Invariance, PTL

(* A client pixel that does not show the framebuffer is to be repainted, is *)
(* covered by a notification on its way, or lost its notification or its    *)
(* painting to a failure: whatever the sizes of frames and window.          *)
THEOREM DisplayKeepsUp == ReceiverSpec => []NoLostInvalidation
<1>1. ReceiverInv => NoLostInvalidation
  BY DEF ReceiverInv
<1> QED
  BY <1>1, Invariance, PTL

(* A frame never overwrites a patch that arrived after it.                  *)
THEOREM FramesKeepTheirPlace == ReceiverSpec => FullNeverOverwritesLater
<1>1. ReceiverInv /\ [ReceiverNext]_receiverVars =>
        [\A t \in DOMAIN framebuffer : \A older, newer \in 1..Len(wire) :
           Replaces(t, older, newer) => wire[older].type # "FULL_FRAME"]_receiverVars
  BY PatchesOnly
<1> QED
  BY <1>1, Invariance, PTL DEF ReceiverSpec, FullNeverOverwritesLater

-----------------------------------------------------------------------------
(* The receiver in a session: the sender is a program of its own, there is  *)
(* one decode worker, and a frame is the first message or none is.          *)

OneDecoder == \A v, w \in Decoders : v = w

FrameFirst == \A n \in 1..Len(wire) : wire[n].type = "FULL_FRAME" => n = 1

\* The first message is the whole screen, and the others are parts of it.
WholeFirst ==
  wire # <<>> =>
    /\ wire[1].type = "FULL_FRAME" /\ <<0, 0>> \in wire[1].cells
    /\ \A n \in 1..Len(wire) : wire[n].cells \subseteq wire[1].cells

Decoding == {decodeJob[w] : w \in {v \in Decoders : decodePc[v] = "decode"}}

\* The messages that have been read and are still to be applied by the pool.
Pending == ToSet(decodeQueue) \cup Decoding

\* What is to be applied is newer than what has been applied.
AppliesInOrder ==
  /\ ioPc = "apply" => ~HasFrame
  /\ ~HasFrame => Pending = {}
  /\ \A t \in DOMAIN framebuffer : \A n \in Pending : framebuffer[t][2] < n
  /\ \A n \in Decoding : \A m \in ToSet(decodeQueue) : n < m

\* The framebuffer is the first frame with every message read and not pending.
Applied ==
  /\ received >= 1 => HasFrame \/ ioPc = "apply"
  /\ ioPc = "apply" => ioNumber = 1
  /\ HasFrame /\ uiPc # "exit" =>
       /\ DOMAIN framebuffer = wire[1].cells
       /\ \A t \in DOMAIN framebuffer : framebuffer[t][1] = t
       /\ \A n \in Numbers \ Pending : \A t \in wire[n].cells : n <= framebuffer[t][2]

(* What the sender does: it appends to the wire, and its end of the         *)
(* connection may fail.                                                     *)
SenderActs ==
  /\ \E sent \in Seq(Messages) : wire' = wire \o sent
  /\ receiverLink' \in {"none", "open", "failed", "closed"}
  /\ PeerUnchanged

LEMMA WireGrows ==
  ASSUME NEW S, wire \in Seq(S), NEW sent \in Seq(S), wire' = wire \o sent
  PROVE  /\ wire' \in Seq(S) /\ Len(wire) \in Nat /\ Len(wire) <= Len(wire')
         /\ \A n \in 1..Len(wire) : wire'[n] = wire[n]
BY ConcatProperties, LenProperties

LEMMA SenderKeepsInv ==
  ASSUME ReceiverInv, SenderActs
  PROVE  ReceiverInv'
<1> USE DEF ReceiverInv
<1>1. WireTypes /\ PoolTypes /\ FrameTypes /\ WindowTypes
  BY TypesInParts
<1>2. /\ wire' \in Seq(Messages) /\ Len(wire) \in Nat /\ Len(wire) <= Len(wire')
      /\ received \in Nat /\ Len(wire') \in Nat
      /\ \A n \in Numbers : wire'[n] = wire[n]
  <2>1. wire \in Seq(Messages) /\ received \in 0..Len(wire)
    BY <1>1 DEF WireTypes
  <2>2. Len(wire') \in Nat
    BY <2>1, WireGrows, LenProperties DEF SenderActs
  <2> QED
    BY <2>1, <2>2, WireGrows DEF SenderActs, Numbers
<1>3. /\ UNCHANGED <<received, ioPc, ioNumber, decodeQueue, decodeShutdown>>
      /\ UNCHANGED <<decodePc, decodeJob, framebuffer>>
      /\ UNCHANGED <<posted, invalid, shown, unseen, stopEvent, uiPc>>
  BY DEF SenderActs, PeerUnchanged, queueVars, decodeVars, windowVars
<1>4. WireTypes'
  BY <1>1, <1>2, <1>3 DEF WireTypes, Numbers, SenderActs
<1>5. PoolTypes' /\ FrameTypes' /\ WindowTypes' /\ FrameIsRegion'
  <2>1. PoolTypes'
    BY <1>1, <1>3 DEF PoolTypes, Numbers
  <2>2. FrameTypes' /\ FrameIsRegion'
    BY <1>1, <1>3 DEF FrameTypes, FrameIsRegion, HasFrame, Numbers
  <2>3. WindowTypes'
    BY <1>1, <1>3 DEF WindowTypes
  <2> QED
    BY <2>1, <2>2, <2>3
<1>6. ReceiverTypeOK'
  BY <1>4, <1>5, TypesInParts, PTL
<1>7. AppliesTheLast' /\ PoolInOrder'
  <2>1. ToSet(decodeQueue) \subseteq Numbers
    BY <1>1, <1>2, QueueKeeps DEF PoolTypes, Numbers
  <2>2. \A w \in Decoders : decodeJob[w] # NoJob => decodeJob[w] \in Numbers
    BY <1>1 DEF PoolTypes
  <2> QED
    BY <1>2, <1>3, <2>1, <2>2 DEF AppliesTheLast, PoolInOrder
<1>8. JoinedInOrder' /\ ReceiverNoUseAfterFree'
  BY <1>3 DEF JoinedInOrder, ReceiverNoUseAfterFree
<1>9. NoLostInvalidation'
  BY <1>1, <1>2, <1>3, KeepsCoverage DEF WindowOpen
<1> QED
  BY <1>5, <1>6, <1>7, <1>8, <1>9

LEMMA WireStays == ReceiverStep => UNCHANGED wire
BY DEF ReceiverStep, IoThread, IoOpen, IoOpenFails, IoCheckStop, IoRecvFrame,
   IoRecvUpdate, IoRecvFails, IoApply, IoDecodeFails, IoPost, IoShutdownQueue,
   IoPostClose, DecodeWorker, DecodePop, DecodePopNothing, DecodeCheckShutdown,
   DecodePatch, DecodeFails, DecodePost, EndDecode, UiThread, UiFrameReady,
   UiUpdateWindow, Paint, UiPaint, UiClose, UiAbort, UiJoinIo, UiJoinDecode, UiDestroyQueue,
   UiUserCloses, UiAdvance, Destroyed, IoUnchanged, DecodeUnchanged, UiUnchanged

\* The steps that move no message and leave the framebuffer alone.
QuietStep ==
  /\ UNCHANGED <<received, framebuffer, decodeQueue, Decoding, ioNumber>>
  /\ UNCHANGED ioPc \/ (ioPc # "apply" /\ ioPc' # "apply")

LEMMA QuietSteps ==
  ASSUME PoolTypes, ReceiverStep,
         ~(IoRecvFrame \/ IoRecvUpdate \/ IoApply \/ IoDecodeFails \/ IoPost),
         \A w \in Decoders : ~(DecodePop(w) \/ DecodePatch(w) \/ DecodeFails(w)),
         ~UiDestroyQueue
  PROVE  QuietStep
<1>1. CASE IoThread
  <2>1. /\ UNCHANGED <<received, framebuffer, decodeQueue, decodePc, decodeJob, ioNumber>>
        /\ ioPc # "apply" /\ ioPc' # "apply"
    BY <1>1
    DEF IoThread, IoOpen, IoOpenFails, IoCheckStop, IoRecvFails, IoShutdownQueue,
        IoPostClose, IoUnchanged, queueVars, decodeVars
  <2> QED
    BY <2>1 DEF QuietStep, Decoding
<1>2. ASSUME NEW w \in Decoders, DecodeWorker(w)
      PROVE  QuietStep
  <2>1. /\ UNCHANGED <<received, framebuffer, decodeQueue, ioPc, ioNumber>>
        /\ decodePc[w] # "decode" /\ decodePc'[w] # "decode"
        /\ \A v \in Decoders \ {w} :
             decodePc'[v] = decodePc[v] /\ decodeJob'[v] = decodeJob[v]
    BY <1>2
    DEF DecodeWorker, DecodePopNothing, DecodeCheckShutdown, DecodePost, EndDecode,
        DecodeUnchanged, ioVars, PoolTypes
  <2>2. {v \in Decoders : decodePc'[v] = "decode"} = {v \in Decoders : decodePc[v] = "decode"}
    BY <2>1
  <2>3. Decoding' = Decoding
    BY <2>1, <2>2 DEF Decoding
  <2> QED
    BY <2>1, <2>3 DEF QuietStep
<1>3. CASE UiThread \/ UiUserCloses
  <2>1. UNCHANGED <<received, framebuffer, decodeQueue, decodePc, decodeJob, ioPc, ioNumber>>
    BY <1>3
    DEF UiThread, UiFrameReady, UiUpdateWindow, Paint, UiPaint, UiClose, UiAbort,
        UiJoinIo, UiJoinDecode,
        UiUserCloses, UiAdvance, Destroyed, UiUnchanged, queueVars, decodeVars
  <2> QED
    BY <2>1 DEF QuietStep, Decoding
<1> QED
  BY <1>1, <1>2, <1>3 DEF ReceiverStep

LEMMA ExitStays == ReceiverStep /\ uiPc = "exit" => uiPc' = "exit"
BY DEF ReceiverStep, IoThread, IoOpen, IoOpenFails, IoCheckStop, IoRecvFrame,
   IoRecvUpdate, IoRecvFails, IoApply, IoDecodeFails, IoPost, IoShutdownQueue,
   IoPostClose, DecodeWorker, DecodePop, DecodePopNothing, DecodeCheckShutdown,
   DecodePatch, DecodeFails, DecodePost, EndDecode, UiThread, UiFrameReady,
   UiUpdateWindow, Paint, UiPaint, UiClose, UiAbort, UiJoinIo, UiJoinDecode, UiDestroyQueue,
   UiUserCloses, UiAdvance, Destroyed, IoUnchanged, DecodeUnchanged, WindowOpen

(* What the only worker decodes.                                            *)
LEMMA DecodingIs ==
  ASSUME OneDecoder, PoolTypes, PoolTypes', NEW w \in Decoders
  PROVE  /\ Decoding = IF decodePc[w] = "decode" THEN {decodeJob[w]} ELSE {}
         /\ Decoding' = IF decodePc'[w] = "decode" THEN {decodeJob'[w]} ELSE {}
<1>1. Decoders = {w}
  BY DEF OneDecoder
<1> QED
  BY <1>1 DEF Decoding

(* What the pool has in hand has been read, and a framebuffer too.          *)
LEMMA PendingRead ==
  ASSUME ReceiverInv
  PROVE  /\ received \in Nat /\ Pending \subseteq Numbers
         /\ \A t \in DOMAIN framebuffer : framebuffer[t][2] \in Numbers
         /\ HasFrame <=> DOMAIN framebuffer # {}
         /\ HasFrame => received >= 1
<1>1. WireTypes /\ PoolTypes /\ FrameTypes
  BY TypesInParts DEF ReceiverInv
<1>2. received \in Nat
  BY <1>1 DEF WireTypes
<1>3. ToSet(decodeQueue) \subseteq Numbers
  BY <1>1, <1>2, QueueKeeps DEF PoolTypes, Numbers
<1>4. Decoding \subseteq Numbers
  BY <1>1 DEF PoolTypes, Decoding
<1>5. \A t \in DOMAIN framebuffer : framebuffer[t][2] \in Numbers
  BY <1>1 DEF FrameTypes
<1>6. HasFrame <=> DOMAIN framebuffer # {}
  BY DEF ReceiverInv, FrameIsRegion, IsRegion, HasFrame, NoFrame
<1>7. HasFrame => received >= 1
  <2>1. \A k \in 1..received : received >= 1
    BY <1>2
  <2> QED
    BY <1>5, <1>6, <2>1 DEF Numbers
<1> QED
  BY <1>2, <1>3, <1>4, <1>5, <1>6, <1>7 DEF Pending

(* What is to be applied stays newer than what has been applied: a frame is *)
(* applied before anything is pending, and one worker takes the oldest.     *)
LEMMA AppliesStep ==
  ASSUME OneDecoder, ReceiverInv, ReceiverInv', FrameFirst, AppliesInOrder, ReceiverStep
  PROVE  AppliesInOrder'
<1>1. WireTypes /\ PoolTypes /\ PoolTypes' /\ WireTypes'
  <2>1. PoolTypes' /\ WireTypes'
    BY TypesInParts, PTL DEF ReceiverInv
  <2> QED
    BY <2>1, TypesInParts DEF ReceiverInv
<1>2. /\ received \in Nat /\ Pending \subseteq Numbers
      /\ \A t \in DOMAIN framebuffer : framebuffer[t][2] \in Numbers
      /\ HasFrame <=> DOMAIN framebuffer # {}
      /\ HasFrame => received >= 1
  BY PendingRead
<1>3. ASSUME UNCHANGED <<framebuffer, decodeQueue, Decoding>>, ioPc' = "apply" => ~HasFrame
      PROVE  AppliesInOrder'
  BY <1>3 DEF AppliesInOrder, Pending, HasFrame
<1>4. CASE IoRecvFrame
  <2>1. UNCHANGED <<framebuffer, decodeQueue, Decoding>>
    BY <1>4 DEF IoRecvFrame, IoUnchanged, queueVars, decodeVars, Decoding
  <2>2. ~HasFrame
    <3>1. CASE wire[received + 1].type = "FULL_FRAME"
      <4>1. received + 1 \in 1..Len(wire)
        BY <1>1, <1>4 DEF IoRecvFrame, Receivable, WireTypes
      <4>2. received + 1 = 1
        BY <3>1, <4>1 DEF FrameFirst
      <4> QED
        BY <1>2, <4>2
    <3> QED
      BY <1>4, <3>1 DEF IoRecvFrame, Synchronous
  <2> QED
    BY <1>3, <2>1, <2>2
<1>5. CASE IoRecvUpdate
  <2>1. /\ UNCHANGED framebuffer /\ UNCHANGED Decoding /\ ioPc' = "check" /\ HasFrame
        /\ decodeQueue' = decodeQueue \/ decodeQueue' = Append(decodeQueue, received + 1)
    BY <1>5 DEF IoRecvUpdate, decodeVars, Decoding, Synchronous
  <2>2. ToSet(decodeQueue') \subseteq ToSet(decodeQueue) \cup {received + 1}
    BY <1>1, <1>2, <2>1, QueueGrows DEF PoolTypes, Numbers, ReceiverInv, PoolInOrder
  <2>3. \A n \in Numbers : n < received + 1
    BY <1>2 DEF Numbers
  <2>4. Decoding \subseteq Numbers
    BY <1>2 DEF Pending
  <2>5. HasFrame'
    BY <2>1 DEF HasFrame
  <2> QED
    BY <1>2, <2>1, <2>2, <2>3, <2>4, <2>5 DEF AppliesInOrder, Pending
<1>6. CASE IoApply
  <2>1. /\ ~HasFrame /\ ioPc' = "post" /\ UNCHANGED <<decodeQueue, Decoding>>
    BY <1>6 DEF IoApply, AppliesInOrder, IoUnchanged, queueVars, decodeVars, Decoding
  <2>2. ToSet(decodeQueue') = {} /\ Decoding' = {}
    BY <2>1 DEF AppliesInOrder, Pending
  <2> QED
    BY <2>1, <2>2 DEF AppliesInOrder, Pending
<1>7. ASSUME NEW w \in Decoders, DecodePop(w)
      PROVE  AppliesInOrder'
  <2>1. /\ UNCHANGED <<framebuffer, ioPc>> /\ CanPop(decodeQueue)
        /\ decodePc[w] = "pop" /\ decodePc'[w] = "decode"
        /\ decodeJob'[w] = Head(decodeQueue) /\ decodeQueue' = Tail(decodeQueue)
    BY <1>1, <1>7 DEF DecodePop, DecodeUnchanged, ioVars, PoolTypes
  <2>2. Decoding' = {Head(decodeQueue)}
    BY <1>1, <2>1, DecodingIs
  <2>3. /\ Head(decodeQueue) \in ToSet(decodeQueue)
        /\ ToSet(decodeQueue') \subseteq ToSet(decodeQueue)
        /\ \A m \in ToSet(decodeQueue') : Head(decodeQueue) < m
    BY <1>1, <1>2, <2>1, QueuePops DEF PoolTypes, Numbers, ReceiverInv, PoolInOrder
  <2> QED
    BY <2>1, <2>2, <2>3 DEF AppliesInOrder, Pending, HasFrame
<1>8. ASSUME NEW w \in Decoders, DecodePatch(w)
      PROVE  AppliesInOrder'
  <2> DEFINE n == decodeJob[w]
  <2>1. /\ UNCHANGED <<ioPc, decodeQueue>> /\ decodePc'[w] = "post"
        /\ decodePc[w] = "decode"
        /\ framebuffer' = Patched(framebuffer, n)
    BY <1>1, <1>8 DEF DecodePatch, DecodeUnchanged, ioVars, PoolTypes
  <2>2. Decoding = {n} /\ Decoding' = {}
    BY <1>1, <2>1, DecodingIs
  <2>3. /\ DOMAIN framebuffer' = DOMAIN framebuffer
        /\ \A t \in DOMAIN framebuffer :
             framebuffer'[t] = framebuffer[t] \/ framebuffer'[t][2] = n
    BY <2>1, PatchedIs
  <2>4. HasFrame
    BY <2>2 DEF AppliesInOrder, Pending
  <2>5. HasFrame'
    BY <1>2, <2>3, <2>4 DEF HasFrame, NoFrame
  <2>6. \A m \in ToSet(decodeQueue) : n < m
    BY <2>2 DEF AppliesInOrder
  <2>7. \A t \in DOMAIN framebuffer' : \A m \in ToSet(decodeQueue) : framebuffer'[t][2] < m
    BY <2>3, <2>6 DEF AppliesInOrder, Pending
  <2> QED
    BY <2>1, <2>2, <2>4, <2>5, <2>7 DEF AppliesInOrder, Pending
<1>9. ASSUME NEW w \in Decoders, DecodeFails(w)
      PROVE  AppliesInOrder'
  <2>1. /\ UNCHANGED <<ioPc, decodeQueue, framebuffer>> /\ decodePc'[w] = "pop"
    BY <1>1, <1>9 DEF DecodeFails, EndDecode, DecodeUnchanged, ioVars, PoolTypes
  <2>2. Decoding' = {}
    BY <1>1, <2>1, DecodingIs
  <2> QED
    BY <2>1, <2>2 DEF AppliesInOrder, Pending, HasFrame
<1>10. CASE IoDecodeFails \/ IoPost
  <2>1. UNCHANGED <<framebuffer, decodeQueue, Decoding>> /\ ioPc' = "check"
    BY <1>10 DEF IoDecodeFails, IoPost, IoUnchanged, queueVars, decodeVars, Decoding
  <2> QED
    BY <1>3, <2>1
<1>11. CASE UiDestroyQueue
  <2>1. /\ UNCHANGED <<framebuffer, Decoding, ioPc>> /\ decodeQueue' = <<>>
    BY <1>11 DEF UiDestroyQueue, UiAdvance, UiUnchanged, decodeVars, Decoding
  <2>2. ToSet(decodeQueue') = {}
    BY <2>1 DEF ToSet
  <2> QED
    BY <2>1, <2>2 DEF AppliesInOrder, Pending, HasFrame
<1>12. CASE QuietStep
  BY <1>3, <1>12 DEF QuietStep, AppliesInOrder
<1> QED
  BY <1>1, <1>4, <1>5, <1>6, <1>7, <1>8, <1>9, <1>10, <1>11, <1>12, QuietSteps

(* No tile goes back to an older message.                                   *)
LEMMA NewerOnly ==
  ASSUME OneDecoder, ReceiverInv, AppliesInOrder, ReceiverStep,
         NEW t \in DOMAIN framebuffer, t \in DOMAIN framebuffer'
  PROVE  /\ framebuffer[t][2] \in Numbers
         /\ \/ framebuffer'[t][2] = framebuffer[t][2]
            \/ framebuffer'[t][2] \in Numbers /\ framebuffer[t][2] < framebuffer'[t][2]
<1>1. PoolTypes
  BY TypesInParts DEF ReceiverInv
<1>2. /\ framebuffer[t][2] \in Numbers /\ HasFrame /\ Pending \subseteq Numbers
  BY PendingRead
<1>3. ioPc # "apply"
  BY <1>2 DEF AppliesInOrder
<1>4. ASSUME NEW w \in Decoders, DecodePatch(w)
      PROVE  \/ framebuffer'[t] = framebuffer[t]
             \/ framebuffer'[t][2] \in Numbers /\ framebuffer[t][2] < framebuffer'[t][2]
  <2>1. decodePc[w] = "decode" /\ framebuffer' = Patched(framebuffer, decodeJob[w])
    BY <1>4 DEF DecodePatch
  <2>2. decodeJob[w] \in Pending
    BY <2>1 DEF Pending, Decoding
  <2>3. framebuffer'[t] = framebuffer[t] \/ framebuffer'[t][2] = decodeJob[w]
    BY <2>1, PatchedIs
  <2> QED
    BY <1>2, <2>2, <2>3 DEF AppliesInOrder
<1>5. CASE UNCHANGED framebuffer
  BY <1>2, <1>5
<1>6. IoRecvFrame \/ IoRecvUpdate \/ IoDecodeFails \/ IoPost \/ UiDestroyQueue
        => UNCHANGED framebuffer
  BY DEF IoRecvFrame, IoRecvUpdate, IoDecodeFails, IoPost, UiDestroyQueue, UiAdvance,
     UiUnchanged
<1>7. \A w \in Decoders : DecodePop(w) \/ DecodeFails(w) => UNCHANGED framebuffer
  BY DEF DecodePop, DecodeFails, EndDecode
<1>8. ~IoApply
  BY <1>3 DEF IoApply
<1>9. QuietStep => UNCHANGED framebuffer
  BY DEF QuietStep
<1> QED
  BY <1>1, <1>2, <1>4, <1>5, <1>6, <1>7, <1>8, <1>9, QuietSteps

(* Without the failures that forget a message, the framebuffer is the first *)
(* frame with every message that has been read and is not pending.          *)
LEMMA AppliedStep ==
  ASSUME OneDecoder, Failures \cap {"alloc", "decode"} = {}, ReceiverInv, ReceiverInv',
         FrameFirst, WholeFirst, AppliesInOrder, Applied, ReceiverStep
  PROVE  Applied'
<1> DEFINE Shows == /\ DOMAIN framebuffer = wire[1].cells
                    /\ \A t \in DOMAIN framebuffer : framebuffer[t][1] = t
                    /\ \A n \in Numbers \ Pending :
                         \A t \in wire[n].cells : n <= framebuffer[t][2]
<1>1. WireTypes /\ PoolTypes /\ PoolTypes' /\ WireTypes'
  <2>1. PoolTypes' /\ WireTypes'
    BY TypesInParts, PTL DEF ReceiverInv
  <2> QED
    BY <2>1, TypesInParts DEF ReceiverInv
<1>2. /\ received \in Nat /\ Pending \subseteq Numbers
      /\ \A t \in DOMAIN framebuffer : framebuffer[t][2] \in Numbers
      /\ HasFrame <=> DOMAIN framebuffer # {}
      /\ HasFrame => received >= 1
  BY PendingRead
<1>3. "alloc" \notin Failures /\ "decode" \notin Failures
  OBVIOUS
<1>4. UNCHANGED wire /\ (uiPc' # "exit" => uiPc # "exit")
  BY WireStays, ExitStays
<1>5. wire \in Seq(Messages) /\ Len(wire) \in Nat /\ received <= Len(wire)
  BY <1>1, LenProperties DEF WireTypes
<1>6. ASSUME UNCHANGED <<framebuffer, received>>, Numbers \ Pending' \subseteq Numbers \ Pending,
             UNCHANGED <<ioPc, ioNumber>> \/ (ioPc # "apply" /\ ioPc' # "apply")
      PROVE  Applied'
  BY <1>4, <1>6 DEF Applied, HasFrame, Numbers
<1>7. CASE IoRecvFrame
  <2>1. /\ received' = received + 1 /\ ioNumber' = received + 1 /\ ioPc' = "apply"
        /\ ioPc = "recv" /\ received < Len(wire) /\ UNCHANGED framebuffer
        /\ wire[received + 1].type = "FULL_FRAME" \/ ~HasFrame
    BY <1>7 DEF IoRecvFrame, Receivable, Synchronous
  <2>2. received + 1 = 1
    <3>1. CASE wire[received + 1].type = "FULL_FRAME"
      <4>1. received + 1 \in 1..Len(wire)
        BY <1>2, <1>5, <2>1
      <4> QED
        BY <3>1, <4>1 DEF FrameFirst
    <3>2. CASE ~HasFrame
      <4>1. ~(received >= 1)
        BY <2>1, <3>2 DEF Applied
      <4> QED
        BY <1>2, <4>1
    <3> QED
      BY <2>1, <3>1, <3>2
  <2>3. ~HasFrame
    BY <1>2, <2>2
  <2> QED
    BY <2>1, <2>2, <2>3 DEF Applied, HasFrame
<1>8. CASE IoRecvUpdate
  <2>1. /\ UNCHANGED <<framebuffer, Decoding>> /\ ioPc' = "check" /\ HasFrame
        /\ decodeQueue' = Append(decodeQueue, received + 1) /\ received' = received + 1
    BY <1>3, <1>8 DEF IoRecvUpdate, decodeVars, Decoding, Synchronous
  <2>2. ToSet(decodeQueue') = ToSet(decodeQueue) \cup {received + 1}
    BY <1>1, <1>2, <2>1, QueueGrows DEF PoolTypes, Numbers, ReceiverInv, PoolInOrder
  <2>3. Numbers' = Numbers \cup {received + 1}
    BY <1>2, <2>1 DEF Numbers
  <2>4. Pending' = Pending \cup {received + 1}
    BY <2>1, <2>2 DEF Pending
  <2>5. Numbers' \ Pending' \subseteq Numbers \ Pending
    BY <2>3, <2>4
  <2>6. HasFrame'
    BY <2>1 DEF HasFrame
  <2> QED
    BY <1>4, <2>1, <2>5, <2>6 DEF Applied
<1>9. CASE IoApply
  <2>1. /\ framebuffer' = DecodedFrame(ioNumber) /\ ioPc = "apply" /\ ioPc' = "post"
        /\ UNCHANGED received
    BY <1>3, <1>9 DEF IoApply
  <2>2. ioNumber = 1 /\ received = 1
    BY <1>1, <2>1 DEF Applied, ReceiverInv, AppliesTheLast, WireTypes, NoJob
  <2>3. wire # <<>> /\ 1 \in 1..Len(wire)
    BY <1>5, <2>2, EmptySeq
  <2>4. IsRegion(wire[1].cells) /\ <<0, 0>> \in wire[1].cells
    BY <1>5, <2>3, MessagesAreRegions DEF WholeFirst
  <2>5. framebuffer' = [t \in wire[1].cells |-> <<t, 1>>]
    BY <2>1, <2>2, <2>4, DecodedInPlace
  <2>6. HasFrame'
    BY <2>4, <2>5 DEF HasFrame, NoFrame
  <2>7. \A n \in Numbers' : n = 1
    BY <2>1, <2>2 DEF Numbers
  <2> QED
    BY <1>4, <2>1, <2>5, <2>6, <2>7 DEF Applied
<1>10. ASSUME NEW w \in Decoders, DecodePop(w)
       PROVE  Applied'
  <2>1. /\ UNCHANGED <<framebuffer, received, ioPc, ioNumber>> /\ CanPop(decodeQueue)
        /\ decodePc[w] = "pop" /\ decodePc'[w] = "decode"
        /\ decodeJob'[w] = Head(decodeQueue) /\ decodeQueue' = Tail(decodeQueue)
    BY <1>1, <1>10 DEF DecodePop, DecodeUnchanged, ioVars, PoolTypes
  <2>2. Decoding = {} /\ Decoding' = {Head(decodeQueue)}
    BY <1>1, <2>1, DecodingIs
  <2>3. ToSet(decodeQueue) = {Head(decodeQueue)} \cup ToSet(decodeQueue')
    BY <1>1, <2>1, HeadAndTail, EmptySeq DEF PoolTypes, CanPop
  <2>4. Pending' = Pending
    BY <2>2, <2>3 DEF Pending
  <2> QED
    BY <1>6, <2>1, <2>4
<1>11. ASSUME NEW w \in Decoders, DecodePatch(w)
       PROVE  Applied'
  <2> DEFINE new == decodeJob[w]
  <2>1. /\ UNCHANGED <<ioPc, ioNumber, received, decodeQueue, uiPc>>
        /\ decodePc'[w] = "post" /\ decodePc[w] = "decode"
        /\ framebuffer' = Patched(framebuffer, new)
    BY <1>1, <1>11 DEF DecodePatch, DecodeUnchanged, ioVars, PoolTypes
  <2>2. Decoding = {new} /\ Decoding' = {}
    BY <1>1, <2>1, DecodingIs
  <2>3. /\ HasFrame /\ new \in Numbers
        /\ \A t \in DOMAIN framebuffer : framebuffer[t][2] < new
    BY <1>2, <2>2 DEF AppliesInOrder, Pending
  <2>4. DOMAIN framebuffer' = DOMAIN framebuffer
    BY <2>1, PatchedIs
  <2>5. HasFrame'
    BY <1>2, <2>3, <2>4 DEF HasFrame, NoFrame
  <2>6. ASSUME uiPc' # "exit"
        PROVE  Shows'
    <3>1. Shows
      BY <1>4, <2>3, <2>6 DEF Applied
    <3>2. new \in 1..Len(wire) /\ wire # <<>>
      BY <1>2, <1>5, <2>3, EmptySeq DEF Numbers
    <3>3. wire[new].cells \subseteq DOMAIN framebuffer
      BY <3>1, <3>2 DEF WholeFirst
    <3>4. framebuffer' = [t \in DOMAIN framebuffer |->
                            IF t \in wire[new].cells THEN <<t, new>> ELSE framebuffer[t]]
      BY <2>1, <3>3 DEF Patched
    <3>5. \A t \in DOMAIN framebuffer' : framebuffer'[t][1] = t
      BY <3>1, <3>4
    <3>6. \A t \in DOMAIN framebuffer :
            /\ framebuffer[t][2] \in Nat /\ framebuffer'[t][2] \in Nat
            /\ framebuffer[t][2] <= framebuffer'[t][2]
      BY <1>2, <2>3, <3>4 DEF Numbers
    <3>7. Numbers' \ Pending' \subseteq (Numbers \ Pending) \cup {new}
      BY <2>1, <2>2 DEF Pending, Numbers
    <3>8. ASSUME NEW n \in Numbers' \ Pending', NEW t \in wire[n].cells
          PROVE  n <= framebuffer'[t][2]
      <4>1. n \in Nat
        BY <2>1, <1>2 DEF Numbers
      <4>2. CASE n = new
        BY <3>3, <3>4, <3>8, <4>1, <4>2
      <4>3. CASE n \in Numbers \ Pending
        <5>1. n <= framebuffer[t][2]
          BY <3>1, <3>8, <4>3
        <5>2. n \in 1..Len(wire)
          BY <1>2, <1>5, <4>3 DEF Numbers
        <5>3. t \in DOMAIN framebuffer
          BY <3>1, <3>2, <3>8, <5>2 DEF WholeFirst
        <5> QED
          BY <3>6, <4>1, <5>1, <5>3
      <4> QED
        BY <3>7, <4>2, <4>3
    <3> QED
      BY <1>4, <2>4, <3>1, <3>5, <3>8
  <2> HIDE DEF new
  <2> QED
    BY <1>2, <2>1, <2>3, <2>5, <2>6 DEF Applied
<1>12. CASE IoPost
  <2>1. /\ UNCHANGED <<framebuffer, received, decodeQueue, Decoding>>
        /\ ioPc = "post" /\ ioPc' = "check"
    BY <1>12 DEF IoPost, IoUnchanged, queueVars, decodeVars, Decoding
  <2>2. Pending' = Pending
    BY <2>1 DEF Pending
  <2> QED
    BY <1>6, <2>1, <2>2
<1>13. CASE UiDestroyQueue
  <2>1. uiPc' = "exit" /\ UNCHANGED <<framebuffer, received, ioPc, ioNumber>>
    BY <1>13 DEF UiDestroyQueue, UiAdvance, UiUnchanged
  <2> QED
    BY <2>1 DEF Applied, HasFrame
<1>14. CASE QuietStep
  <2>1. Pending' = Pending
    BY <1>14 DEF QuietStep, Pending
  <2> QED
    BY <1>6, <1>14, <2>1 DEF QuietStep
<1>15. ~IoDecodeFails /\ \A w \in Decoders : ~DecodeFails(w)
  BY DEF IoDecodeFails, DecodeFails
<1> HIDE DEF Shows
<1> QED
  BY <1>1, <1>7, <1>8, <1>9, <1>10, <1>11, <1>12, <1>13, <1>14, <1>15, QuietSteps

LEMMA OrderInit == ReceiverInit => AppliesInOrder /\ Applied
<1>1. ReceiverInit => ToSet(decodeQueue) = {} /\ Decoding = {}
  BY DEF ReceiverInit, ToSet, Decoding
<1> QED
  BY <1>1 DEF ReceiverInit, AppliesInOrder, Applied, Pending, HasFrame, NoFrame

(* The sender disturbs neither.                                             *)
LEMMA SenderKeepsOrder ==
  ASSUME ReceiverInv, SenderActs
  PROVE  /\ AppliesInOrder => AppliesInOrder'
         /\ Applied => Applied'
<1>1. WireTypes
  BY TypesInParts DEF ReceiverInv
<1>2. UNCHANGED <<received, ioPc, ioNumber, decodeQueue, decodePc, decodeJob, framebuffer, uiPc>>
  BY DEF SenderActs, PeerUnchanged, queueVars, decodeVars
<1>3. /\ \A n \in Numbers : wire'[n] = wire[n]
      /\ HasFrame => 1 \in Numbers
  <2>1. wire \in Seq(Messages) /\ received \in 0..Len(wire) /\ Len(wire) \in Nat
    BY <1>1, LenProperties DEF WireTypes
  <2>2. \A n \in 1..Len(wire) : wire'[n] = wire[n]
    BY <2>1, WireGrows DEF SenderActs
  <2> QED
    BY <2>1, <2>2, PendingRead DEF Numbers
<1>4. Pending' = Pending /\ Decoding' = Decoding /\ Numbers' = Numbers
  BY <1>2 DEF Pending, Decoding, Numbers
<1>5. AppliesInOrder => AppliesInOrder'
  BY <1>2, <1>4 DEF AppliesInOrder, HasFrame
<1>6. Applied => Applied'
  BY <1>2, <1>3, <1>4 DEF Applied, HasFrame
<1> QED
  BY <1>5, <1>6
=============================================================================
