-------------------------- MODULE MCAsyncTCPServer --------------------------
(***************************************************************************)
(* Values of the constants of AsyncTCPServer for TLC.                      *)
(***************************************************************************)
EXTENDS AsyncTCPServer

CONSTANTS c1, c2, w1, w2, w3
=============================================================================
