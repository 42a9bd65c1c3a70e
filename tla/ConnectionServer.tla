-------------------------- MODULE ConnectionServer --------------------------
(***************************************************************************)
(* What a server promises about the connections of its clients, whatever   *)
(* threads and handlers it is built from: it takes each of them at most    *)
(* once, ends each it took at most once, with an answer or without, and    *)
(* touches none of them after Stop() has returned.                         *)
(***************************************************************************)

CONSTANTS
  Clients   \* the clients that may connect

VARIABLES
  status,   \* where the connection of every client is
  up        \* Stop() has not returned yet

vars == <<status, up>>

Statuses == {"waiting", "serving", "answered", "dropped"}

Init ==
  /\ status = [c \in Clients |-> "waiting"]
  /\ up = TRUE

Move(c, from, to) ==
  /\ up
  /\ status[c] = from
  /\ status' = [status EXCEPT ![c] = to]
  /\ UNCHANGED up

Take(c)   == Move(c, "waiting", "serving")
Answer(c) == Move(c, "serving", "answered")
Drop(c)   == Move(c, "serving", "dropped")

Stop == up' = FALSE /\ UNCHANGED status

Next == Stop \/ \E c \in Clients : Take(c) \/ Answer(c) \/ Drop(c)

Spec == Init /\ [][Next]_vars
=============================================================================
