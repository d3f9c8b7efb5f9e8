--------------------------- MODULE MCMediaSession ---------------------------
(* Instances of MediaSession for TLC. *)
EXTENDS MediaSession, TLC

CONSTANTS t1, t2

\* In words of 16 values, the largest picture that fits, one that is too high,
\* one so wide that width * 4 wraps to what would fit, and two empty ones.
MCPictures == {<<1, 3>>, <<2, 2>>, <<4, 1>>, <<0, 1>>, <<1, 0>>}

ThreadSymmetry == Permutations(CodecThreads)
=============================================================================
