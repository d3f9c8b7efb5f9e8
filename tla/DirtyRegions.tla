---------------------------- MODULE DirtyRegions ----------------------------
(***************************************************************************)
(* The rectangles that sender_scan_and_publish_dirty_regions cuts out of a *)
(* set of dirty tiles, in the order in which it queues them.  A tile is    *)
(* <<column, row>>.  "Open" tiles are the dirty ones not yet consumed.     *)
(***************************************************************************)
EXTENDS Naturals, Sequences, FiniteSetsExt

TileGrid(columns, rows) == (0..(columns - 1)) \X (0..(rows - 1))

\* The regions together hold exactly the dirty tiles, each once: all that the
\* rest of the pipeline needs of the scan.
CutsExactly(regions, dirty) ==
  /\ \A i \in DOMAIN regions : regions[i] # {} /\ regions[i] \subseteq dirty
  /\ \A c \in dirty : \E i \in DOMAIN regions : c \in regions[i]
  /\ \A i, j \in DOMAIN regions : i # j => regions[i] \cap regions[j] = {}

\* The loops visit the tiles row by row.
Before(s, t) == s[2] < t[2] \/ (s[2] = t[2] /\ s[1] < t[1])

FirstOpen(open) == CHOOSE t \in open : \A u \in open \ {t} : Before(t, u)

\* One past the last column of the run of open tiles that starts at t.
RunEnd(open, t, columns) ==
  Min({e \in (t[1] + 1)..columns : <<e, t[2]>> \notin open})

\* One past the last row in which every column of the span is open.
RowEnd(open, t, runEnd, rows) ==
  Min({r \in (t[2] + 1)..rows :
         \E c \in t[1]..(runEnd - 1) : <<c, r>> \notin open})

\* The rectangle grown from t: its run to the right, then down.
GrownFrom(open, t, columns, rows) ==
  LET runEnd == RunEnd(open, t, columns)
      rowEnd == RowEnd(open, t, runEnd, rows)
  IN  (t[1]..(runEnd - 1)) \X (t[2]..(rowEnd - 1))

\* The scan consumes the rectangle of the first open tile, then goes on.
MergedRegions(dirty, columns, rows) ==
  LET Scan[open \in SUBSET dirty] ==
        IF open = {} THEN <<>>
        ELSE LET region == GrownFrom(open, FirstOpen(open), columns, rows)
             IN  <<region>> \o Scan[open \ region]
  IN  Scan[dirty]
=============================================================================
