--------------------------- MODULE MCSessionLock ---------------------------
(* SessionLock for three commands, for TLC. *)
EXTENDS SessionLock, TLC

CONSTANTS p1, p2, p3
=============================================================================
