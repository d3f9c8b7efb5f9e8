-------------------------- MODULE MCLinkedJobQueue --------------------------
(* Instances of LinkedJobQueue for TLC. *)
EXTENDS LinkedJobQueue, TLC

CONSTANTS p1, j1, j2, c1, c2
=============================================================================
