--------------------------- MODULE MCSyncExchange ---------------------------
(***************************************************************************)
(* Values of the constants of SyncExchange for TLC.                        *)
(***************************************************************************)
EXTENDS SyncExchange

CONSTANTS c1, c2
=============================================================================
