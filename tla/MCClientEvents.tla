--------------------------- MODULE MCClientEvents ---------------------------
(* The names of an instance of ClientEvents for TLC.                       *)
EXTENDS ClientEvents, TLC

CONSTANTS a1, a2

=============================================================================
