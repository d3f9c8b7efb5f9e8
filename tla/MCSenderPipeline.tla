-------------------------- MODULE MCSenderPipeline --------------------------
(* Instances of SenderPipeline for TLC. *)
EXTENDS SenderPipeline, TLC

Merge == INSTANCE DirtyRegions

CONSTANTS w1, w2, Sizes   \* Sizes: the <<columns, rows>> of the resolutions

OneSize == {<<2, 1>>}
TwoSizes == {<<2, 1>>, <<1, 1>>}

GridOf(size) == Merge!TileGrid(size[1], size[2])

MCResolutions == {GridOf(size) : size \in Sizes}

MCRegions ==
  [grid \in MCResolutions |->
    LET size == CHOOSE s \in Sizes : GridOf(s) = grid
    IN  [dirty \in SUBSET grid |->
           Merge!MergedRegions(dirty, size[1], size[2])]]

MCMessageSize == [FULL_FRAME |-> 4, UPDATE_REGION |-> 2]

WorkerSymmetry == Permutations(Workers)
=============================================================================
