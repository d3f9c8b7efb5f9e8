--------------------------- MODULE MCRemoteInput ---------------------------
(* Two positions inside the window and one outside it.                     *)
EXTENDS RemoteInput

MCPositions == {0, 1, 2}
=============================================================================
