------------------------------ MODULE DirtyScan ------------------------------
(***************************************************************************)
(* sender_scan_and_publish_dirty_regions of src/src/sender.c, loop by      *)
(* loop, on frames of pixels, with the 32-bit arithmetic of the code taken *)
(* modulo Word.  DirtyRegions.tla says what it computes.                   *)
(***************************************************************************)
EXTENDS Naturals, Sequences, DirtyRegions

CONSTANTS
  Frames,      \* the <<width, height>> of the frames compared, in pixels
  TileSizes,   \* the values of --tile-size
  Word         \* 2^32

ASSUME ScanAssumption ==
  /\ Frames \subseteq (Nat \ {0}) \X (Nat \ {0})
  /\ TileSizes \subseteq Nat \ {0}
  /\ Word \in Nat
  /\ \A frame \in Frames : frame[1] < Word /\ frame[2] < Word
  /\ \A size \in TileSizes : size < Word

VARIABLES
  frame, tileSize, changed,   \* the input: changed is a set of pixels <<x, y>>
  scanPc, row, column, runEnd, rowEnd,
  consumed,
  regions                     \* the rectangles queued: [x, y, width, height]

scanInput == <<frame, tileSize, changed>>
scanVars == <<scanInput, scanPc, row, column, runEnd, rowEnd, consumed, regions>>

-----------------------------------------------------------------------------
Pixels(size) == (0..(size[1] - 1)) \X (0..(size[2] - 1))

TileCount(length) == ((length + tileSize - 1) % Word) \div tileSize
Columns == TileCount(frame[1])
Rows == TileCount(frame[2])

Smaller(a, b) == IF a < b THEN a ELSE b

\* The pixels first..last-1 of a side of the frame that n tiles cover.
Extent(start, n, length) == Smaller(length - start, n * tileSize)

Rectangle(c, r, columns, rows) ==
  [x |-> c * tileSize, y |-> r * tileSize,
   width |-> Extent(c * tileSize, columns, frame[1]),
   height |-> Extent(r * tileSize, rows, frame[2])]

PixelsOf(rect) ==
  (rect.x..(rect.x + rect.width - 1)) \X (rect.y..(rect.y + rect.height - 1))

\* sender_is_tile_dirty, for the tile cut at the edge of the frame.
IsTileDirty(tile) ==
  PixelsOf(Rectangle(tile[1], tile[2], 1, 1)) \cap changed # {}

Dirty == {tile \in TileGrid(Columns, Rows) : IsTileDirty(tile)}

Open(tile) == tile \in Dirty /\ tile \notin consumed

-----------------------------------------------------------------------------
ScanInit ==
  /\ frame \in Frames
  /\ tileSize \in TileSizes
  /\ changed \in SUBSET Pixels(frame)
  /\ scanPc = IF Columns = 0 \/ Rows = 0 THEN "return" ELSE "visit"
  /\ row = 0 /\ column = 0 /\ runEnd = 0 /\ rowEnd = 0
  /\ consumed = {}
  /\ regions = <<>>

NextTile ==
  IF column + 1 < Columns
  THEN /\ column' = column + 1
       /\ UNCHANGED row
       /\ scanPc' = "visit"
  ELSE /\ column' = 0
       /\ row' = row + 1
       /\ scanPc' = IF row + 1 < Rows THEN "visit" ELSE "return"

SkipTile ==
  /\ scanPc = "visit"
  /\ ~Open(<<column, row>>)
  /\ NextTile
  /\ UNCHANGED <<scanInput, runEnd, rowEnd, consumed, regions>>

StartRun ==
  /\ scanPc = "visit"
  /\ Open(<<column, row>>)
  /\ runEnd' = column + 1
  /\ rowEnd' = row + 1
  /\ scanPc' = "right"
  /\ UNCHANGED <<scanInput, row, column, consumed, regions>>

ExtendRight ==
  /\ scanPc = "right"
  /\ IF runEnd < Columns /\ Open(<<runEnd, row>>)
     THEN runEnd' = runEnd + 1 /\ UNCHANGED scanPc
     ELSE scanPc' = "down" /\ UNCHANGED runEnd
  /\ UNCHANGED <<scanInput, row, column, rowEnd, consumed, regions>>

\* Mutant of SpanOpen: only the first tile of the next row is looked at.
FirstOfSpanOpen(r) == Open(<<column, r>>)

SpanOpen(r) == \A c \in column..(runEnd - 1) : Open(<<c, r>>)

ExtendDown ==
  /\ scanPc = "down"
  /\ IF rowEnd < Rows /\ SpanOpen(rowEnd)
     THEN rowEnd' = rowEnd + 1 /\ UNCHANGED scanPc
     ELSE scanPc' = "publish" /\ UNCHANGED rowEnd
  /\ UNCHANGED <<scanInput, row, column, runEnd, consumed, regions>>

\* Mutant of Consumes: only the first row of the rectangle is consumed.
ConsumesRun == (column..(runEnd - 1)) \X {row}

Consumes == (column..(runEnd - 1)) \X (row..(rowEnd - 1))

PublishRectangle ==
  /\ scanPc = "publish"
  /\ consumed' = consumed \cup Consumes
  /\ regions' =
       Append(regions, Rectangle(column, row, runEnd - column, rowEnd - row))
  /\ NextTile
  /\ UNCHANGED <<scanInput, runEnd, rowEnd>>

ScanReturned == scanPc = "return" /\ UNCHANGED scanVars

ScanNext ==
  \/ SkipTile \/ StartRun \/ ExtendRight \/ ExtendDown \/ PublishRectangle
  \/ ScanReturned

ScanSpec == ScanInit /\ [][ScanNext]_scanVars

-----------------------------------------------------------------------------
(* Properties. *)

\* width + tile_size - 1 and height + tile_size - 1 fit in 32 bits.
NoWrap == frame[1] + tileSize <= Word /\ frame[2] + tileSize <= Word

(* Every rectangle lies in the frame, no two overlap: the receiver's bounds *)
(* check never drops one, and no order of applying them matters.            *)
RegionsAreDisjoint ==
  /\ \A i \in DOMAIN regions : PixelsOf(regions[i]) \subseteq Pixels(frame)
  /\ \A i, j \in DOMAIN regions :
       i # j => PixelsOf(regions[i]) \cap PixelsOf(regions[j]) = {}

(* When the scan returns, every changed pixel has been queued, and nothing  *)
(* but tiles that hold a changed pixel.                                     *)
CoversChanges ==
  scanPc = "return" /\ NoWrap =>
    LET covered == UNION {PixelsOf(regions[i]) : i \in DOMAIN regions}
    IN  /\ changed \subseteq covered
        /\ \A p \in covered : \E q \in changed :
             /\ p[1] \div tileSize = q[1] \div tileSize
             /\ p[2] \div tileSize = q[2] \div tileSize

TilesOf(rect) == {<<p[1] \div tileSize, p[2] \div tileSize>> : p \in PixelsOf(rect)}

(* The loops compute DirtyRegions!MergedRegions: the same rectangles, in    *)
(* the same order.  SenderPipeline is instantiated with that function.      *)
ComputesMergedRegions ==
  scanPc = "return" /\ Columns > 0 /\ Rows > 0 =>
    [i \in DOMAIN regions |-> TilesOf(regions[i])]
      = MergedRegions(Dirty, Columns, Rows)
=============================================================================
