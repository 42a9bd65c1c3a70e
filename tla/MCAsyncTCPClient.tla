-------------------------- MODULE MCAsyncTCPClient --------------------------
(***************************************************************************)
(* Values of the constants of AsyncTCPClient for TLC.                      *)
(***************************************************************************)
EXTENDS AsyncTCPClient, TLC

CONSTANTS r1, r2, w1, w2

\* Every request has an id of its own, as in main().
UniqueIds == (r1 :> 1) @@ (r2 :> 2)

\* Both requests are submitted under the same id.
SharedId == (r1 :> 1) @@ (r2 :> 1)

\* Threads of the pool are interchangeable (safety runs only).
WorkerSymmetry == Permutations({w1, w2})
=============================================================================
