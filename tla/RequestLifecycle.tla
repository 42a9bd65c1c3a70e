-------------------------- MODULE RequestLifecycle --------------------------
(***************************************************************************)
(* What an asynchronous client promises to its caller, whatever threads,   *)
(* locks and handlers it is built from: a request is submitted at most     *)
(* once, every submitted request gets at most one outcome, the outcome is  *)
(* "aborted" only for a request somebody cancelled, and the client is      *)
(* closed only when no request is still running.  AsyncTCPClient and       *)
(* HTTPClient are shown to implement it.                                   *)
(***************************************************************************)

CONSTANTS
  Requests,      \* the requests a client can be given
  Cancellable,   \* the statuses in which a cancellation is taken note of
  CancelIsFinal  \* TRUE: a request cancelled in time never reports success

Outcomes == {"ok", "aborted", "failed"}
Statuses == {"new", "refused", "active"} \cup Outcomes

VARIABLES
  status,     \* the status of every request
  cancelled,  \* the requests whose cancellation was taken note of
  closed      \* the client has been closed

vars == <<status, cancelled, closed>>

Init ==
  /\ status = [r \in Requests |-> "new"]
  /\ cancelled = {}
  /\ closed = FALSE

Move(r, from, to) ==
  /\ status[r] = from
  /\ status' = [status EXCEPT ![r] = to]

\* The client accepts the request, or throws before it has done anything.
Submit(r) == ~closed /\ Move(r, "new", "active") /\ UNCHANGED <<cancelled, closed>>
Refuse(r) == ~closed /\ Move(r, "new", "refused") /\ UNCHANGED <<cancelled, closed>>

Cancel(r) ==
  /\ status[r] \in Cancellable
  /\ cancelled' = cancelled \cup {r}
  /\ UNCHANGED <<status, closed>>

\* The one and only report of the request's outcome.
Finish(r, outcome) ==
  /\ outcome = "aborted" => r \in cancelled
  /\ CancelIsFinal /\ r \in cancelled => outcome # "ok"
  /\ Move(r, "active", outcome)
  /\ UNCHANGED <<cancelled, closed>>

Close ==
  /\ \A r \in Requests : status[r] # "active"
  /\ closed' = TRUE
  /\ UNCHANGED <<status, cancelled>>

Next ==
  \/ \E r \in Requests :
       \/ Submit(r) \/ Refuse(r) \/ Cancel(r)
       \/ \E outcome \in Outcomes : Finish(r, outcome)
  \/ Close

Spec == Init /\ [][Next]_vars
=============================================================================
