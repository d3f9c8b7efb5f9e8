----------------------------- MODULE MCDirtyScan -----------------------------
(* Instances of DirtyScan for TLC. *)
EXTENDS DirtyScan

SmallFrames == {<<4, 2>>, <<3, 3>>, <<1, 4>>}
=============================================================================
