---------------------------- MODULE MCHTTPServer ----------------------------
(***************************************************************************)
(* Values of the constants of HTTPServer for TLC.                          *)
(***************************************************************************)
EXTENDS HTTPServer

CONSTANTS c1, c2

Faultless == [longLine |-> FALSE, get |-> TRUE, version11 |-> TRUE,
              headers |-> "some", target |-> "empty"]

\* Faultless requests, each fault alone, and faults that hide one another.  Paths on
\* which exists() throws, with and without a check that rejects the request before,
\* and a request that ends behind its first line.
MCRequests ==
  {Faultless,
   [Faultless EXCEPT !.target = "filled"],
   [Faultless EXCEPT !.target = "missing"],
   [Faultless EXCEPT !.target = "unreadable"],
   [Faultless EXCEPT !.target = "erroneous"],
   [Faultless EXCEPT !.headers = "none"],
   [Faultless EXCEPT !.headers = "long", !.target = "missing"],
   [Faultless EXCEPT !.version11 = FALSE, !.headers = "long"],
   [Faultless EXCEPT !.get = FALSE, !.target = "erroneous"],
   [Faultless EXCEPT !.get = FALSE, !.version11 = FALSE],
   [Faultless EXCEPT !.longLine = TRUE, !.get = FALSE]}
=============================================================================
