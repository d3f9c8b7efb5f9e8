------------------------- MODULE MCReceiverPipeline -------------------------
(* Instances of ReceiverPipeline for TLC. *)
EXTENDS ReceiverPipeline, TLC

CONSTANTS d1, d2

Tiles(columns, rows) == (0..(columns - 1)) \X (0..(rows - 1))
Full(tiles) == [type |-> "FULL_FRAME", cells |-> tiles]
Update(tiles) == [type |-> "UPDATE_REGION", cells |-> tiles]

\* One resolution of two tiles, one of which may change.
OneSizeMessages ==
  {Full(Tiles(2, 1)), Update({<<0, 0>>}), Update({<<1, 0>>})}

\* Three tiles in a window of two pixels: the middle tile is drawn in both.
DisplayMessages == {Full(Tiles(3, 1)), Update({<<1, 0>>})}

DecoderSymmetry == Permutations(Decoders)
=============================================================================
