--------------------------- MODULE MCEventStream ---------------------------
(* An instance of EventStream for TLC. *)
EXTENDS EventStream, TLC

CONSTANTS btc, shop
=============================================================================
