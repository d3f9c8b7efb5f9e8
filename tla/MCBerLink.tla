----------------------------- MODULE MCBerLink -----------------------------
(* Chunks of four bytes and a search of two: a chunk may hold one damaged  *)
(* byte and still pass for synchronised, and may lose more than one shift. *)
EXTENDS BerLink

MCLinkTypes == {"tcp", "uart"}
=============================================================================
